------------------------------- MODULE NftTables -------------------------------
(***************************************************************************)
(* The two nftables tables and the sequences of nft commands that make and *)
(* remove them: deploy_with_interfaces of the server, the setup and        *)
(* teardown of pg-nftables.sh, and stop_service of the init script.  A     *)
(* table is the objects in it and the bag of the rules of its one chain: a *)
(* rule may be there twice.  A rule is its kind and the interfaces it is   *)
(* for.  Nothing in the repository adds an address to the sets, so their   *)
(* elements are left out.                                                  *)
(***************************************************************************)
EXTENDS Integers, SequencesExt

Table == {"pre", "nat"}

NoTable  == [objects |-> {}, rules |-> EmptyBag]
NoTables == [table \in Table |-> NoTable]
NoRules  == [table \in Table |-> EmptyBag]

EveryInterface == << >>

Add(table, object)      == [do |-> "add", table |-> table, what |-> object]
Rule(table, kind, ifaces) == [do |-> "rule", table |-> table, what |-> <<kind, ifaces>>]
FlushChain(table)       == [do |-> "flush", table |-> table, what |-> "chain"]
DeleteTable(table)      == [do |-> "delete", table |-> table, what |-> "table"]

------------------------------------------------------------------------------
(* One nft command *)

\* Adding what is there is no error, or one that deploy overlooks; adding to what
\* is not there is one.
Possible(tables, cmd) ==
  CASE cmd.do = "add"  -> cmd.what = "table" \/ "table" \in tables[cmd.table].objects
    [] cmd.do = "rule" -> "chain" \in tables[cmd.table].objects
    [] cmd.do = "flush" -> "chain" \in tables[cmd.table].objects
    [] OTHER           -> "table" \in tables[cmd.table].objects

Execute(tables, cmd) ==
  IF ~Possible(tables, cmd) THEN tables
  ELSE CASE cmd.do = "add"   -> [tables EXCEPT ![cmd.table].objects = @ \cup {cmd.what}]
         [] cmd.do = "rule"  -> [tables EXCEPT ![cmd.table].rules = @ (+) SetToBag({cmd.what})]
         [] cmd.do = "flush" -> [tables EXCEPT ![cmd.table].rules = EmptyBag]
         [] OTHER            -> [tables EXCEPT ![cmd.table] = NoTable]

------------------------------------------------------------------------------
(* The sequences *)

\* What rules are made for: each interface of the configuration, or all there are.
Monitored(interfaces) ==
  IF interfaces = << >> THEN <<EveryInterface>>
  ELSE [i \in DOMAIN interfaces |-> <<interfaces[i]>>]

\* An accept for IPv4 and one for IPv6.
AcceptRules(monitored) ==
  [k \in 1..(2 * Len(monitored)) |->
     Rule("pre", IF k % 2 = 1 THEN "accept_ip4" ELSE "accept_ip6", monitored[(k + 1) \div 2])]

QuicRules(monitored) ==
  [i \in 1..Len(monitored) |-> Rule("pre", "drop_quic", monitored[i])]

\* The accepts of every monitored interface, then their QUIC rules.
FilterRules(interfaces) ==
  AcceptRules(Monitored(interfaces)) \o QuicRules(Monitored(interfaces))

\* One redirect for all monitored interfaces.
RedirectRule(interfaces) == Rule("nat", "redirect", interfaces)

FilterObjects ==
  <<Add("pre", "authorized_ips"), Add("pre", "authorized_ips6"), Add("pre", "chain")>>

NatObjects == <<Add("nat", "authorized_ips"), Add("nat", "chain")>>

\* Mutant: what an earlier start has left in the chains stays there.
DeployWithoutFlush(interfaces) ==
  <<Add("pre", "table")>> \o FilterObjects \o FilterRules(interfaces)
  \o <<Add("nat", "table")>> \o NatObjects \o <<RedirectRule(interfaces)>>

\* Mutant: the NAT table is deployed first.
DeployNatFirst(interfaces) ==
  <<Add("nat", "table"), FlushChain("nat")>> \o NatObjects \o <<RedirectRule(interfaces)>>
  \o <<Add("pre", "table"), FlushChain("pre")>> \o FilterObjects \o FilterRules(interfaces)

DeploySteps(interfaces) ==
  <<Add("pre", "table"), FlushChain("pre")>> \o FilterObjects \o FilterRules(interfaces)
  \o <<Add("nat", "table"), FlushChain("nat")>> \o NatObjects \o <<RedirectRule(interfaces)>>

\* pg-nftables.sh setup flushes nothing; teardown, stop_service and cleanup()
\* delete both tables.
SetupSteps ==
  <<Add("pre", "table")>> \o FilterObjects \o FilterRules(<< >>)
  \o <<Add("nat", "table")>> \o NatObjects \o <<RedirectRule(<< >>)>>

TeardownSteps == <<DeleteTable("pre"), DeleteTable("nat")>>

\* The rules some commands make, each as often as they say.
RulesMade(cmds) == ToBag([i \in DOMAIN cmds |-> cmds[i].what])

\* What a deployment is to leave behind: every object, and the rules of its
\* configuration.
Deployed(interfaces) ==
  [pre |-> [objects |-> {"table", "authorized_ips", "authorized_ips6", "chain"},
            rules   |-> RulesMade(FilterRules(interfaces))],
   nat |-> [objects |-> {"table", "authorized_ips", "chain"},
            rules   |-> RulesMade(<<RedirectRule(interfaces)>>)]]
==============================================================================
