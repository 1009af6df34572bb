------------------------------ MODULE NodeProofs ------------------------------
(***************************************************************************)
(* Theorems about Node, for any processes, interfaces and configurations   *)
(* and any number of scripts, stops, failures of nft, crashes and reboots. *)
(***************************************************************************)
EXTENDS Node, SequenceTheorems, FiniteSetTheorems, TLAPS

------------------------------------------------------------------------------
(* Types                                                                     *)

ObjectsOf(table) ==
  IF table = "pre" THEN {"table", "authorized_ips", "authorized_ips6", "chain"}
  ELSE {"table", "authorized_ips", "chain"}

What == ObjectsOf("pre") \cup
        ({"accept_ip4", "accept_ip6", "drop_quic", "redirect"} \X Seq(Interface))

\* The commands there are: only objects of a table are added to it.
Command ==
  {c \in [do : {"add", "rule", "flush", "delete"}, table : Table, what : What] :
     c.do = "add" => c.what \in ObjectsOf(c.table)}

Servers ==
  [phase : {"deploying", "deployed", "failed", "listening", "dead"},
   todo : Seq(Command), interfaces : Seq(Interface)]

\* A bag b of rules.
Bagged(b) == b = [x \in DOMAIN b |-> b[x]] /\ \A x \in DOMAIN b : b[x] \in Nat

\* A table ts has rules only in its chain, and objects only in itself.
TablesOf(ts) ==
  /\ ts = [table \in Table |-> [objects |-> ts[table].objects, rules |-> ts[table].rules]]
  /\ \A table \in Table :
       /\ ts[table].objects \subseteq ObjectsOf(table)
       /\ ts[table].rules # EmptyBag => "chain" \in ts[table].objects
       /\ ts[table].objects # {} => "table" \in ts[table].objects
       /\ Bagged(ts[table].rules)

KeptTypes(k) ==
  /\ k = [p \in Pid |-> [table \in Table |-> k[p][table]]]
  /\ \A p \in Pid, table \in Table : Bagged(k[p][table])

NodeTypes ==
  /\ TablesOf(tables)
  /\ server \in [Pid -> Servers]
  /\ pidFile \in [Path -> Pid \cup {NoPid}]
  /\ script \in Seq(Command)
  /\ stopping \in {Idle, <<"/tmp", "/var/run", "end">>, <<"/var/run", "end">>,
                   <<"end">>, <<"done">>}
  /\ stopped \in BOOLEAN
  /\ untouched \subseteq Pid
  /\ KeptTypes(kept)
  /\ alone \in BOOLEAN /\ unnamed \in BOOLEAN /\ spared \in BOOLEAN

------------------------------------------------------------------------------
(* The sequences of commands                                                 *)

\* The sequence r is s, of length m, and then t, of length n.
Joined(r, s, t, m, n) ==
  /\ r \in Seq(Command)
  /\ Len(r) = m + n
  /\ \A i \in 1..m : r[i] = s[i]
  /\ \A i \in 1..n : r[m + i] = t[i]

LEMMA Concatenation ==
  ASSUME NEW s \in Seq(Command), NEW t \in Seq(Command),
         NEW m \in Nat, NEW n \in Nat, Len(s) = m, Len(t) = n
  PROVE  Joined(s \o t, s, t, m, n)
<1>1. s \o t \in Seq(Command) /\ Len(s \o t) = m + n
  BY ConcatProperties
<1>2. \A i \in 1..(m + n) : (s \o t)[i] = IF i <= m THEN s[i] ELSE t[i - m]
  BY ConcatProperties
<1>3. \A i \in 1..m : (s \o t)[i] = s[i]
  BY <1>2
<1>4. \A i \in 1..n : (s \o t)[m + i] = t[i]
  <2> TAKE i \in 1..n
  <2>1. m + i \in 1..(m + n) /\ ~(m + i <= m) /\ (m + i) - m = i OBVIOUS
  <2> QED BY <2>1, <1>2
<1> QED BY <1>1, <1>3, <1>4 DEF Joined

LEMMA MonitoredInterfaces ==
  ASSUME NEW ifs \in Seq(Interface)
  PROVE  Monitored(ifs) \in Seq(Seq(Interface))
<1>1. CASE ifs = << >>
  BY <1>1 DEF Monitored, EveryInterface
<1>2. CASE ifs # << >>
  <2>1. Monitored(ifs) = [i \in 1..Len(ifs) |-> <<ifs[i]>>]
    BY <1>2 DEF Monitored
  <2>2. \A i \in 1..Len(ifs) : <<ifs[i]>> \in Seq(Interface)
    OBVIOUS
  <2> QED BY <2>1, <2>2
<1> QED BY <1>1, <1>2

\* What makes the filter are rules of its table.
FilterRule(c) == c \in Command /\ c.do = "rule" /\ c.table = "pre"

LEMMA RulesOfFilter ==
  ASSUME NEW ifs \in Seq(Interface)
  PROVE  /\ FilterRules(ifs) \in Seq(Command)
         /\ \A k \in 1..Len(FilterRules(ifs)) : FilterRule(FilterRules(ifs)[k])
<1> DEFINE mon == Monitored(ifs)
           a == AcceptRules(mon)
           q == QuicRules(mon)
<1>1. mon \in Seq(Seq(Interface)) BY MonitoredInterfaces
<1>2. PICK n \in Nat : n = Len(mon) BY <1>1
<1> HIDE DEF mon
<1>3. \A k \in 1..(2 * n) : (k + 1) \div 2 \in 1..n
  BY <1>2
<1>4. \A k \in 1..(2 * n) : mon[(k + 1) \div 2] \in Seq(Interface)
  BY <1>1, <1>2, <1>3
<1>5. \A f \in Seq(Interface), kind \in {"accept_ip4", "accept_ip6", "drop_quic"} :
        FilterRule(Rule("pre", kind, f))
  BY DEF FilterRule, Rule, Command, What, Table
<1>6. a = [k \in 1..(2 * n) |->
             Rule("pre", IF k % 2 = 1 THEN "accept_ip4" ELSE "accept_ip6",
                  mon[(k + 1) \div 2])]
  BY <1>2 DEF AcceptRules
<1>7. \A k \in 1..(2 * n) : FilterRule(a[k])
  <2> TAKE k \in 1..(2 * n)
  <2>1. a[k] = Rule("pre", IF k % 2 = 1 THEN "accept_ip4" ELSE "accept_ip6",
                    mon[(k + 1) \div 2])
    BY <1>6
  <2>2. CASE k % 2 = 1
    <3>1. a[k] = Rule("pre", "accept_ip4", mon[(k + 1) \div 2]) BY <2>1, <2>2
    <3> QED BY <3>1, <1>4, <1>5
  <2>3. CASE k % 2 # 1
    <3>1. a[k] = Rule("pre", "accept_ip6", mon[(k + 1) \div 2]) BY <2>1, <2>3
    <3> QED BY <3>1, <1>4, <1>5
  <2> QED BY <2>2, <2>3
<1>8. q = [i \in 1..n |-> Rule("pre", "drop_quic", mon[i])]
  BY <1>2 DEF QuicRules
<1>9. \A i \in 1..n : FilterRule(q[i])
  <2> TAKE i \in 1..n
  <2>1. q[i] = Rule("pre", "drop_quic", mon[i]) BY <1>8
  <2>2. mon[i] \in Seq(Interface) BY <1>1, <1>2
  <2> QED BY <2>1, <2>2, <1>5
<1>10. a \in Seq(Command) /\ Len(a) = 2 * n
  BY <1>6, <1>7 DEF FilterRule
<1>11. q \in Seq(Command) /\ Len(q) = n
  BY <1>8, <1>9 DEF FilterRule
<1>12. FilterRules(ifs) = a \o q
  BY DEF FilterRules, mon
<1> HIDE DEF a, q
<1>13. Joined(a \o q, a, q, 2 * n, n)
  BY <1>10, <1>11, Concatenation
<1>14. \A i \in 1..(3 * n) : FilterRule((a \o q)[i])
  <2> TAKE i \in 1..(3 * n)
  <2>1. CASE i <= 2 * n
    <3>1. i \in 1..(2 * n) BY <2>1
    <3> QED BY <3>1, <1>13, <1>7 DEF Joined
  <2>2. CASE ~(i <= 2 * n)
    <3>1. PICK j \in 1..n : i = 2 * n + j BY <2>2
    <3>2. (a \o q)[i] = q[j] BY <3>1, <1>13 DEF Joined
    <3> QED BY <3>2, <1>9
  <2> QED BY <2>1, <2>2
<1>15. a \o q \in Seq(Command) /\ Len(a \o q) = 3 * n
  BY <1>13 DEF Joined
<1> QED BY <1>12, <1>14, <1>15

\* A deployment of the rules F and the redirection R, command by command.
StepsOf(D, F, R) ==
  /\ D \in Seq(Command)
  /\ Len(D) = Len(F) + 10
  /\ D[1] = Add("pre", "table") /\ D[2] = FlushChain("pre")
  /\ D[3] = Add("pre", "authorized_ips") /\ D[4] = Add("pre", "authorized_ips6")
  /\ D[5] = Add("pre", "chain")
  /\ \A k \in 1..Len(F) : D[k + 5] = F[k]
  /\ D[Len(F) + 6] = Add("nat", "table") /\ D[Len(F) + 7] = FlushChain("nat")
  /\ D[Len(F) + 8] = Add("nat", "authorized_ips") /\ D[Len(F) + 9] = Add("nat", "chain")
  /\ D[Len(F) + 10] = R

LEMMA DeploymentSteps ==
  ASSUME NEW ifs \in Seq(Interface)
  PROVE  StepsOf(DeploySteps(ifs), FilterRules(ifs), RedirectRule(ifs))
<1> DEFINE F == FilterRules(ifs)
           b == <<Add("pre", "table"), FlushChain("pre")>>
           e == <<Add("nat", "table"), FlushChain("nat")>>
           R == RedirectRule(ifs)
<1>1. F \in Seq(Command) BY RulesOfFilter
<1>2. PICK m \in Nat : m = Len(F) BY <1>1
<1>3. /\ Add("pre", "table") \in Command /\ FlushChain("pre") \in Command
      /\ Add("nat", "table") \in Command /\ FlushChain("nat") \in Command
      /\ Add("pre", "authorized_ips") \in Command /\ Add("pre", "authorized_ips6") \in Command
      /\ Add("pre", "chain") \in Command /\ Add("nat", "authorized_ips") \in Command
      /\ Add("nat", "chain") \in Command
  BY DEF Add, FlushChain, Command, What, Table, ObjectsOf
<1>4. R \in Command
  BY DEF RedirectRule, Rule, Command, What, Table
<1>5. DeploySteps(ifs) = b \o FilterObjects \o F \o e \o NatObjects \o <<R>>
  BY DEF DeploySteps
<1>6. /\ b \in Seq(Command) /\ Len(b) = 2
      /\ b[1] = Add("pre", "table") /\ b[2] = FlushChain("pre")
  BY <1>3
<1>7. /\ e \in Seq(Command) /\ Len(e) = 2
      /\ e[1] = Add("nat", "table") /\ e[2] = FlushChain("nat")
  BY <1>3
<1>8. /\ FilterObjects \in Seq(Command) /\ Len(FilterObjects) = 3
      /\ FilterObjects[1] = Add("pre", "authorized_ips")
      /\ FilterObjects[2] = Add("pre", "authorized_ips6")
      /\ FilterObjects[3] = Add("pre", "chain")
  BY <1>3 DEF FilterObjects
<1>9. /\ NatObjects \in Seq(Command) /\ Len(NatObjects) = 2
      /\ NatObjects[1] = Add("nat", "authorized_ips") /\ NatObjects[2] = Add("nat", "chain")
  BY <1>3 DEF NatObjects
<1>10. <<R>> \in Seq(Command) /\ Len(<<R>>) = 1 /\ <<R>>[1] = R
  BY <1>4
<1> DEFINE r == <<R>>
<1>10a. r \in Seq(Command) /\ Len(r) = 1 /\ r[1] = R BY <1>10
<1> HIDE DEF F, b, e, R, r
<1>11. PICK s1 : s1 = b \o FilterObjects OBVIOUS
<1>12. PICK s2 : s2 = s1 \o F OBVIOUS
<1>13. PICK s3 : s3 = s2 \o e OBVIOUS
<1>14. PICK s4 : s4 = s3 \o NatObjects OBVIOUS
<1>15. PICK D : D = s4 \o r OBVIOUS
<1>15a. 5 + m \in Nat /\ 7 + m \in Nat /\ 9 + m \in Nat OBVIOUS
<1>16. Joined(s1, b, FilterObjects, 2, 3)
  BY <1>6, <1>8, <1>11, Concatenation
<1>17. s1 \in Seq(Command) /\ Len(s1) = 5 BY <1>16 DEF Joined
<1>18. Joined(s2, s1, F, 5, m)
  BY <1>1, <1>2, <1>17, <1>12, Concatenation
<1>19. s2 \in Seq(Command) /\ Len(s2) = 5 + m BY <1>18 DEF Joined
<1>20. Joined(s3, s2, e, 5 + m, 2)
  BY <1>7, <1>19, <1>13, <1>15a, Concatenation
<1>21. s3 \in Seq(Command) /\ Len(s3) = 7 + m BY <1>20 DEF Joined
<1>22. Joined(s4, s3, NatObjects, 7 + m, 2)
  BY <1>9, <1>21, <1>14, <1>15a, Concatenation
<1>23. s4 \in Seq(Command) /\ Len(s4) = 9 + m BY <1>22 DEF Joined
<1>24. Joined(D, s4, r, 9 + m, 1)
  BY <1>10a, <1>23, <1>15, <1>15a, Concatenation
<1>25. D \in Seq(Command) /\ Len(D) = m + 10
  BY <1>24 DEF Joined
<1>26. \A i \in 1..(9 + m) : D[i] = s4[i]
  BY <1>24 DEF Joined
<1>27. \A i \in 1..(7 + m) : D[i] = s3[i]
  BY <1>26, <1>22 DEF Joined
<1>28. \A i \in 1..(5 + m) : D[i] = s2[i]
  BY <1>27, <1>20 DEF Joined
<1>29. \A i \in 1..5 : D[i] = s1[i]
  BY <1>28, <1>18 DEF Joined
<1>30. D[1] = Add("pre", "table") /\ D[2] = FlushChain("pre")
  BY <1>29, <1>16, <1>6 DEF Joined
<1>31. /\ D[3] = Add("pre", "authorized_ips") /\ D[4] = Add("pre", "authorized_ips6")
       /\ D[5] = Add("pre", "chain")
  <2>1. s1[2 + 1] = FilterObjects[1] /\ s1[2 + 2] = FilterObjects[2] /\ s1[2 + 3] = FilterObjects[3]
    BY <1>16 DEF Joined
  <2> QED BY <2>1, <1>29, <1>8
<1>32. \A k \in 1..m : D[k + 5] = F[k]
  <2> TAKE k \in 1..m
  <2>1. D[k + 5] = s2[k + 5] BY <1>28
  <2>2. s2[5 + k] = F[k] BY <1>18 DEF Joined
  <2> QED BY <2>1, <2>2
<1>33. D[m + 6] = Add("nat", "table") /\ D[m + 7] = FlushChain("nat")
  <2>1. D[m + 6] = s3[m + 6] /\ D[m + 7] = s3[m + 7] BY <1>27
  <2>2. s3[(5 + m) + 1] = e[1] /\ s3[(5 + m) + 2] = e[2] BY <1>20 DEF Joined
  <2>3. (5 + m) + 1 = m + 6 /\ (5 + m) + 2 = m + 7 OBVIOUS
  <2> QED BY <2>1, <2>2, <2>3, <1>7
<1>34. D[m + 8] = Add("nat", "authorized_ips") /\ D[m + 9] = Add("nat", "chain")
  <2>1. D[m + 8] = s4[m + 8] /\ D[m + 9] = s4[m + 9] BY <1>26
  <2>2. s4[(7 + m) + 1] = NatObjects[1] /\ s4[(7 + m) + 2] = NatObjects[2]
    BY <1>22 DEF Joined
  <2>3. (7 + m) + 1 = m + 8 /\ (7 + m) + 2 = m + 9 OBVIOUS
  <2> QED BY <2>1, <2>2, <2>3, <1>9
<1>35. D[m + 10] = R
  <2>1. D[(9 + m) + 1] = r[1] BY <1>24 DEF Joined
  <2>2. (9 + m) + 1 = m + 10 OBVIOUS
  <2> QED BY <2>1, <2>2, <1>10a
<1>36. StepsOf(D, F, R)
  BY <1>2, <1>25, <1>30, <1>31, <1>32, <1>33, <1>34, <1>35 DEF StepsOf
<1>37. D = DeploySteps(ifs)
  BY <1>5, <1>11, <1>12, <1>13, <1>14, <1>15 DEF r
<1> QED BY <1>36, <1>37 DEF F, R

------------------------------------------------------------------------------
(* The rules that commands make                                              *)

\* The bag of the rules that the first n of the commands F make.
FirstMade(F, n) ==
  [x \in {F[k].what : k \in 1..n} |-> Cardinality({k \in 1..n : F[k].what = x})]

LEMMA AllMade ==
  ASSUME NEW F, NEW n, DOMAIN F = 1..n
  PROVE  RulesMade(F) = FirstMade(F, n)
<1> DEFINE w == [i \in DOMAIN F |-> F[i].what]
<1>1. DOMAIN w = 1..n /\ \A i \in 1..n : w[i] = F[i].what OBVIOUS
<1>2. RulesMade(F) = ToBag(w) BY DEF RulesMade
<1> HIDE DEF w
<1>3. Range(w) = {F[k].what : k \in 1..n}
  BY <1>1 DEF Range
<1>4. \A x : {i \in DOMAIN w : w[i] = x} = {k \in 1..n : F[k].what = x}
  BY <1>1
<1>5. ToBag(w) = [x \in Range(w) |-> Cardinality({i \in DOMAIN w : w[i] = x})]
  BY DEF ToBag
<1> QED BY <1>2, <1>3, <1>4, <1>5 DEF FirstMade

LEMMA NoneMade ==
  ASSUME NEW F
  PROVE  FirstMade(F, 0) = EmptyBag
<1>1. {F[k].what : k \in 1..0} = {} OBVIOUS
<1> QED BY <1>1 DEF FirstMade, EmptyBag, SetToBag

LEMMA OneMoreMade ==
  ASSUME NEW F, NEW n \in Nat
  PROVE  FirstMade(F, n) (+) SetToBag({F[n + 1].what}) = FirstMade(F, n + 1)
<1> DEFINE y == F[n + 1].what
           B == FirstMade(F, n)
           C == SetToBag({y})
           At(x, m) == {k \in 1..m : F[k].what = x}
<1>1. DOMAIN B = {F[k].what : k \in 1..n} BY DEF FirstMade
<1>2. DOMAIN C = {y} /\ C[y] = 1 BY DEF SetToBag
<1>3. \A x \in DOMAIN B : B[x] = Cardinality(At(x, n))
  BY DEF FirstMade
<1>4. B (+) C = [x \in (DOMAIN B) \cup (DOMAIN C) |->
                   (IF x \in DOMAIN B THEN B[x] ELSE 0) + (IF x \in DOMAIN C THEN C[x] ELSE 0)]
  BY DEF (+)
<1>5. FirstMade(F, n + 1) =
        [x \in {F[k].what : k \in 1..(n + 1)} |-> Cardinality(At(x, n + 1))]
  BY DEF FirstMade
<1>6. {F[k].what : k \in 1..(n + 1)} = (DOMAIN B) \cup (DOMAIN C)
  <2>1. 1..(n + 1) = (1..n) \cup {n + 1} OBVIOUS
  <2> QED BY <2>1, <1>1, <1>2
<1>7. ASSUME NEW x
      PROVE  /\ IsFiniteSet(At(x, n)) /\ Cardinality(At(x, n)) \in Nat
             /\ x \notin DOMAIN B => Cardinality(At(x, n)) = 0
             /\ x # y => At(x, n + 1) = At(x, n)
             /\ x = y => Cardinality(At(x, n + 1)) = Cardinality(At(x, n)) + 1
  <2>1. IsFiniteSet(1..n) BY FS_Interval
  <2>2. At(x, n) \in SUBSET (1..n) OBVIOUS
  <2>3. IsFiniteSet(At(x, n)) BY <2>1, <2>2, FS_Subset
  <2>4. Cardinality(At(x, n)) \in Nat BY <2>3, FS_CardinalityType
  <2>5. ASSUME x \notin DOMAIN B PROVE Cardinality(At(x, n)) = 0
    <3>1. At(x, n) = {} BY <2>5, <1>1
    <3> QED BY <3>1, FS_EmptySet
  <2>6. ASSUME x # y PROVE At(x, n + 1) = At(x, n)
    <3>1. 1..(n + 1) = (1..n) \cup {n + 1} OBVIOUS
    <3> QED BY <2>6, <3>1
  <2>7. ASSUME x = y PROVE Cardinality(At(x, n + 1)) = Cardinality(At(x, n)) + 1
    <3>1. 1..(n + 1) = (1..n) \cup {n + 1} /\ n + 1 \notin 1..n OBVIOUS
    <3>2. At(x, n + 1) = At(x, n) \cup {n + 1} BY <2>7, <3>1
    <3>3. n + 1 \notin At(x, n) BY <3>1
    <3> HIDE DEF At
    <3>4. Cardinality(At(x, n) \cup {n + 1}) = Cardinality(At(x, n)) + 1
      BY <2>3, <3>3, FS_AddElement
    <3> QED BY <3>2, <3>4
  <2> QED BY <2>3, <2>4, <2>5, <2>6, <2>7
<1> HIDE DEF At, B, C, y
<1>8. \A x \in (DOMAIN B) \cup (DOMAIN C) :
        (IF x \in DOMAIN B THEN B[x] ELSE 0) + (IF x \in DOMAIN C THEN C[x] ELSE 0)
          = Cardinality(At(x, n + 1))
  <2> TAKE x \in (DOMAIN B) \cup (DOMAIN C)
  <2> DEFINE c == Cardinality(At(x, n))
             b == IF x \in DOMAIN B THEN B[x] ELSE 0
             d == IF x \in DOMAIN C THEN C[x] ELSE 0
  <2>1. c \in Nat BY <1>7
  <2>2. b = c
    <3>1. CASE x \in DOMAIN B BY <3>1, <1>3
    <3>2. CASE x \notin DOMAIN B BY <3>2, <1>7
    <3> QED BY <3>1, <3>2
  <2>3. CASE x = y
    <3>1. d = 1 BY <2>3, <1>2
    <3>2. Cardinality(At(x, n + 1)) = c + 1 BY <2>3, <1>7
    <3> QED BY <2>2, <3>1, <3>2
  <2>4. CASE x # y
    <3>1. d = 0 BY <2>4, <1>2
    <3>2. At(x, n + 1) = At(x, n) BY <2>4, <1>7
    <3>3. Cardinality(At(x, n + 1)) = c BY <3>2
    <3> HIDE DEF b, c, d
    <3>4. b + d = Cardinality(At(x, n + 1)) BY <2>1, <2>2, <3>1, <3>3
    <3> QED BY <3>4 DEF b, d
  <2> QED BY <2>3, <2>4
<1>9. B (+) C = FirstMade(F, n + 1)
  BY <1>4, <1>5, <1>6, <1>8
<1> QED BY <1>9 DEF B, C, y

LEMMA SomeBags ==
  /\ Bagged(EmptyBag)
  /\ \A x : Bagged(SetToBag({x}))
  /\ \A F : \A n \in Nat : Bagged(FirstMade(F, n))
<1>1. Bagged(EmptyBag) BY DEF Bagged, EmptyBag, SetToBag
<1>2. \A x : Bagged(SetToBag({x})) BY DEF Bagged, SetToBag
<1>3. ASSUME NEW F, NEW n \in Nat PROVE Bagged(FirstMade(F, n))
  <2>1. ASSUME NEW x PROVE Cardinality({k \in 1..n : F[k].what = x}) \in Nat
    <3>1. IsFiniteSet(1..n) BY FS_Interval
    <3>2. {k \in 1..n : F[k].what = x} \subseteq 1..n OBVIOUS
    <3>3. IsFiniteSet({k \in 1..n : F[k].what = x}) BY <3>1, <3>2, FS_Subset
    <3> QED BY <3>3, FS_CardinalityType
  <2> QED BY <2>1 DEF FirstMade, Bagged
<1> QED BY <1>1, <1>2, <1>3

\* The sum of bags is one, and is associative.
LEMMA BagSums ==
  ASSUME NEW L, NEW B, NEW C, Bagged(L), Bagged(B), Bagged(C)
  PROVE  /\ Bagged(L (+) B)
         /\ (L (+) B) (+) C = L (+) (B (+) C)
<1> DEFINE Times(b, x) == IF x \in DOMAIN b THEN b[x] ELSE 0
<1>1. ASSUME NEW b, NEW x, Bagged(b) PROVE Times(b, x) \in Nat
  BY <1>1 DEF Bagged
<1>2. \A b, c : b (+) c = [x \in (DOMAIN b) \cup (DOMAIN c) |-> Times(b, x) + Times(c, x)]
  BY DEF (+)
<1>3. ASSUME NEW b, NEW c, NEW x, Bagged(b), Bagged(c)
      PROVE  Times(b (+) c, x) = Times(b, x) + Times(c, x)
  <2>1. CASE x \in (DOMAIN b) \cup (DOMAIN c)
    <3>1. x \in DOMAIN (b (+) c) BY <1>2, <2>1
    <3>2. (b (+) c)[x] = Times(b, x) + Times(c, x) BY <1>2, <2>1
    <3> QED BY <3>1, <3>2
  <2>2. CASE x \notin (DOMAIN b) \cup (DOMAIN c)
    <3>1. x \notin DOMAIN (b (+) c) BY <1>2, <2>2
    <3>2. Times(b, x) = 0 /\ Times(c, x) = 0 BY <2>2
    <3> QED BY <3>1, <3>2
  <2> QED BY <2>1, <2>2
<1>4. ASSUME NEW b, NEW c, Bagged(b), Bagged(c) PROVE Bagged(b (+) c)
  <2>1. \A x : Times(b, x) + Times(c, x) \in Nat
    <3> TAKE x
    <3>1. Times(b, x) \in Nat /\ Times(c, x) \in Nat BY <1>1, <1>4
    <3> HIDE DEF Times
    <3> QED BY <3>1
  <2> HIDE DEF Times
  <2> QED BY <1>2, <2>1 DEF Bagged
<1>5. Bagged(L (+) B) /\ Bagged(B (+) C) BY <1>4
<1>6. ASSUME NEW x
      PROVE  Times(L (+) B, x) + Times(C, x) = Times(L, x) + Times(B (+) C, x)
  <2>1. Times(L (+) B, x) = Times(L, x) + Times(B, x) BY <1>3
  <2>2. Times(B (+) C, x) = Times(B, x) + Times(C, x) BY <1>3
  <2>3. Times(L, x) \in Nat /\ Times(B, x) \in Nat /\ Times(C, x) \in Nat BY <1>1
  <2> HIDE DEF Times
  <2> QED BY <2>1, <2>2, <2>3
<1> HIDE DEF Times
<1>7. DOMAIN (L (+) B) \cup DOMAIN C = DOMAIN L \cup DOMAIN (B (+) C)
  BY <1>2
<1>8. (L (+) B) (+) C =
        [x \in DOMAIN (L (+) B) \cup DOMAIN C |-> Times(L (+) B, x) + Times(C, x)]
  BY <1>2
<1>9. L (+) (B (+) C) =
        [x \in DOMAIN L \cup DOMAIN (B (+) C) |-> Times(L, x) + Times(B (+) C, x)]
  BY <1>2
<1> QED BY <1>5, <1>6, <1>7, <1>8, <1>9

\* What was there, and the rules of the first n commands, and then one more.
LEMMA AddedToWhatWasThere ==
  ASSUME NEW L, Bagged(L), NEW F
  PROVE  /\ L (+) FirstMade(F, 0) = L
         /\ \A n \in Nat : (L (+) FirstMade(F, n)) (+) SetToBag({F[n + 1].what})
                             = L (+) FirstMade(F, n + 1)
<1>1. L (+) EmptyBag = L
  <2>1. DOMAIN EmptyBag = {} BY DEF EmptyBag, SetToBag
  <2>2. L (+) EmptyBag = [x \in DOMAIN L |-> (IF x \in DOMAIN L THEN L[x] ELSE 0) + 0]
    BY <2>1 DEF (+)
  <2>3. \A x \in DOMAIN L : (IF x \in DOMAIN L THEN L[x] ELSE 0) + 0 = L[x]
    BY DEF Bagged
  <2> QED BY <2>2, <2>3 DEF Bagged
<1>2. ASSUME NEW n \in Nat
      PROVE  (L (+) FirstMade(F, n)) (+) SetToBag({F[n + 1].what})
             = L (+) FirstMade(F, n + 1)
  <2>1. Bagged(FirstMade(F, n)) /\ Bagged(SetToBag({F[n + 1].what})) BY SomeBags
  <2>2. (L (+) FirstMade(F, n)) (+) SetToBag({F[n + 1].what})
        = L (+) (FirstMade(F, n) (+) SetToBag({F[n + 1].what}))
    BY <2>1, BagSums
  <2> QED BY <2>2, OneMoreMade
<1> QED BY <1>1, <1>2, NoneMade

------------------------------------------------------------------------------
(* How far a deployment has come                                             *)

\* What the filter's table t is when n of its commands have been run: m rules F
\* after the table, the flush and three objects; l is what a failed flush has left.
FilterAfter(n, F, m, l, t) ==
  /\ n < 2 => l = EmptyBag
  /\ n >= 1 => "table" \in t.objects
  /\ n \in 2..5 => t.rules = l
  /\ n >= 3 => "authorized_ips" \in t.objects
  /\ n >= 4 => "authorized_ips6" \in t.objects
  /\ n >= 5 => "chain" \in t.objects
  /\ n \in 5..(m + 5) => t.rules = l (+) FirstMade(F, n - 5)
  /\ n >= m + 5 => t.rules = l (+) FirstMade(F, m)

\* The same for the redirection's table and its one rule.
RedirectAfter(n, R, l, t) ==
  /\ n < 2 => l = EmptyBag
  /\ n >= 1 => "table" \in t.objects
  /\ n \in 2..4 => t.rules = l
  /\ n >= 3 => "authorized_ips" \in t.objects
  /\ n >= 4 => "chain" \in t.objects
  /\ n >= 5 => t.rules = l (+) FirstMade(<<R>>, 1)

\* ls is what the failed flushes have left in each table.
DeployedUpTo(n, F, m, R, ls, ts) ==
  /\ \A table \in Table : Bagged(ls[table])
  /\ FilterAfter(n, F, m, ls["pre"], ts["pre"])
  /\ RedirectAfter(n - (m + 5), R, ls["nat"], ts["nat"])

\* The next command is possible, or the flush of a chain that is not there.
Proceeds(ts, cmd) == Possible(ts, cmd) \/ cmd.do = "flush"

\* A command of the program leaves the tables with their types.
LEMMA ExecuteTypes ==
  ASSUME NEW ts, TablesOf(ts), NEW cmd \in Command
  PROVE  TablesOf(Execute(ts, cmd))
<1> DEFINE new == Execute(ts, cmd)
<1>1. cmd.table \in Table /\ cmd.do \in {"add", "rule", "flush", "delete"}
  BY DEF Command
<1>2. CASE ~Possible(ts, cmd)
  BY <1>2 DEF Execute
<1>3. CASE Possible(ts, cmd) /\ cmd.do = "add"
  <2>1. new = [ts EXCEPT ![cmd.table].objects = @ \cup {cmd.what}]
    BY <1>3 DEF Execute
  <2>2. cmd.what \in ObjectsOf(cmd.table) BY <1>3 DEF Command
  <2>3. cmd.what = "table" \/ "table" \in ts[cmd.table].objects BY <1>3 DEF Possible
  <2>4. /\ new[cmd.table].objects = ts[cmd.table].objects \cup {cmd.what}
        /\ new[cmd.table].rules = ts[cmd.table].rules
        /\ \A other \in Table \ {cmd.table} : new[other] = ts[other]
    BY <1>1, <2>1 DEF TablesOf
  <2>5. new = [table \in Table |-> [objects |-> new[table].objects, rules |-> new[table].rules]]
    BY <1>1, <2>1 DEF TablesOf
  <2> HIDE DEF new
  <2>6. ASSUME NEW table \in Table
        PROVE  /\ new[table].objects \subseteq ObjectsOf(table)
               /\ new[table].rules # EmptyBag => "chain" \in new[table].objects
               /\ new[table].objects # {} => "table" \in new[table].objects
               /\ Bagged(new[table].rules)
    <3>1. CASE table = cmd.table
      BY <3>1, <1>1, <2>2, <2>3, <2>4 DEF TablesOf
    <3>2. CASE table # cmd.table
      BY <3>2, <2>4 DEF TablesOf
    <3> QED BY <3>1, <3>2
  <2>7. TablesOf(new) BY <2>5, <2>6 DEF TablesOf
  <2> QED BY <2>7 DEF new
<1>4. CASE Possible(ts, cmd) /\ cmd.do = "rule"
  <2>1. new = [ts EXCEPT ![cmd.table].rules = @ (+) SetToBag({cmd.what})]
    BY <1>4 DEF Execute
  <2>2. "chain" \in ts[cmd.table].objects BY <1>4 DEF Possible
  <2>3. Bagged(ts[cmd.table].rules (+) SetToBag({cmd.what}))
    BY <1>1, SomeBags, BagSums DEF TablesOf
  <2> QED BY <1>1, <2>1, <2>2, <2>3 DEF TablesOf, Table
<1>5. CASE Possible(ts, cmd) /\ cmd.do = "flush"
  <2>1. new = [ts EXCEPT ![cmd.table].rules = EmptyBag]
    BY <1>5 DEF Execute
  <2> QED BY <1>1, <2>1, SomeBags DEF TablesOf, Table
<1>6. CASE Possible(ts, cmd) /\ cmd.do = "delete"
  <2>1. new = [ts EXCEPT ![cmd.table] = NoTable]
    BY <1>6 DEF Execute
  <2> QED BY <1>1, <2>1, SomeBags DEF TablesOf, Table, NoTable
<1> QED BY <1>1, <1>2, <1>3, <1>4, <1>5, <1>6

\* What a possible command does to its own table, and to the other.
LEMMA Added ==
  ASSUME NEW ts, TablesOf(ts), NEW table \in Table, NEW object,
         object = "table" \/ "table" \in ts[table].objects
  PROVE  /\ Possible(ts, Add(table, object))
         /\ Execute(ts, Add(table, object))[table].objects = ts[table].objects \cup {object}
         /\ Execute(ts, Add(table, object))[table].rules = ts[table].rules
         /\ \A other \in Table \ {table} : Execute(ts, Add(table, object))[other] = ts[other]
BY DEF TablesOf, Table, Add, Possible, Execute

LEMMA RuleAdded ==
  ASSUME NEW ts, TablesOf(ts), NEW cmd, cmd.do = "rule", cmd.table \in Table,
         "chain" \in ts[cmd.table].objects
  PROVE  /\ Possible(ts, cmd)
         /\ Execute(ts, cmd)[cmd.table].objects = ts[cmd.table].objects
         /\ Execute(ts, cmd)[cmd.table].rules = ts[cmd.table].rules (+) SetToBag({cmd.what})
         /\ \A other \in Table \ {cmd.table} : Execute(ts, cmd)[other] = ts[other]
BY DEF TablesOf, Table, Possible, Execute

LEMMA Flushed ==
  ASSUME NEW ts, TablesOf(ts), NEW table \in Table
  PROVE  /\ Execute(ts, FlushChain(table))[table].objects = ts[table].objects
         /\ Execute(ts, FlushChain(table))[table].rules = EmptyBag
         /\ \A other \in Table \ {table} : Execute(ts, FlushChain(table))[other] = ts[other]
BY DEF TablesOf, Table, FlushChain, Possible, Execute

\* Command n + 1 of a deployment that has come so far is run, and takes it on by one.
LEMMA OneCommandOn ==
  ASSUME NEW ts, TablesOf(ts), NEW D, NEW F \in Seq(Command), NEW R, StepsOf(D, F, R),
         \A k \in 1..Len(F) : FilterRule(F[k]),
         R.do = "rule", R.table = "nat",
         NEW n \in Nat, n < Len(D), NEW ls, DeployedUpTo(n, F, Len(F), R, ls, ts)
  PROVE  /\ Proceeds(ts, D[n + 1])
         /\ DeployedUpTo(n + 1, F, Len(F), R, ls, Execute(ts, D[n + 1]))
<1>1. PICK m \in Nat : m = Len(F) OBVIOUS
<1>2. n < m + 10 BY <1>1 DEF StepsOf
<1> DEFINE new == Execute(ts, D[n + 1])
<1>3. "pre" \in Table /\ "nat" \in Table /\ "nat" \in Table \ {"pre"} /\ "pre" \in Table \ {"nat"}
  BY DEF Table
<1>4. /\ FilterAfter(n, F, m, ls["pre"], ts["pre"]) /\ RedirectAfter(n - (m + 5), R, ls["nat"], ts["nat"])
      /\ \A table \in Table : Bagged(ls[table])
  BY <1>1 DEF DeployedUpTo
<1>5. SUFFICES /\ Proceeds(ts, D[n + 1])
               /\ FilterAfter(n + 1, F, m, ls["pre"], new["pre"])
               /\ RedirectAfter(n + 1 - (m + 5), R, ls["nat"], new["nat"])
  BY <1>1, <1>4 DEF DeployedUpTo
<1>6. CASE n < m + 5
  <2>1. SUFFICES /\ Proceeds(ts, D[n + 1]) /\ FilterAfter(n + 1, F, m, ls["pre"], new["pre"])
    <3>1. n - (m + 5) < 2 BY <1>6
    <3> QED BY <1>4, <1>6, <3>1 DEF RedirectAfter
  <2>2. CASE n = 0
    <3>1. D[n + 1] = Add("pre", "table") BY <2>2 DEF StepsOf
    <3>2. Possible(ts, D[n + 1]) /\ "table" \in new["pre"].objects
      BY <3>1, <1>3, Added
    <3>3. FilterAfter(n + 1, F, m, ls["pre"], new["pre"])
      BY <3>2, <2>2, <1>4 DEF FilterAfter
    <3> QED BY <3>2, <3>3 DEF Proceeds
  <2>3. CASE n = 1
    <3>1. D[n + 1] = FlushChain("pre") BY <2>3 DEF StepsOf
    <3>2. new["pre"].objects = ts["pre"].objects /\ new["pre"].rules = EmptyBag
      BY <3>1, <1>3, Flushed
    <3>3. FilterAfter(n + 1, F, m, ls["pre"], new["pre"])
      BY <3>2, <2>3, <1>4 DEF FilterAfter
    <3> QED BY <3>1, <3>3 DEF Proceeds, FlushChain
  <2>4. CASE n \in {2, 3, 4}
    <3> DEFINE o == IF n = 2 THEN "authorized_ips" ELSE IF n = 3 THEN "authorized_ips6"
                    ELSE "chain"
    <3>1. D[n + 1] = Add("pre", o) BY <2>4 DEF StepsOf
    <3>2. "table" \in ts["pre"].objects /\ ts["pre"].rules = ls["pre"]
      BY <2>4, <1>4 DEF FilterAfter
    <3> HIDE DEF o
    <3>3. /\ Possible(ts, D[n + 1])
          /\ new["pre"].objects = ts["pre"].objects \cup {o} /\ new["pre"].rules = ts["pre"].rules
      BY <3>1, <3>2, <1>3, Added
    <3>3a. ls["pre"] (+) FirstMade(F, 0) = ls["pre"]
      BY <1>3, <1>4, AddedToWhatWasThere
    <3>4. n = 4 => new["pre"].rules = ls["pre"] (+) FirstMade(F, n + 1 - 5)
      BY <3>2, <3>3, <3>3a
    <3>5. n = 4 /\ m = 0 => new["pre"].rules = ls["pre"] (+) FirstMade(F, m)
      BY <3>2, <3>3, <3>3a
    <3>6. FilterAfter(n + 1, F, m, ls["pre"], new["pre"])
      BY <3>2, <3>3, <3>4, <3>5, <2>4, <1>4 DEF FilterAfter, o
    <3> QED BY <3>3, <3>6 DEF Proceeds
  <2>5. CASE n >= 5
    <3>1. PICK k \in 1..m : n = k + 4 BY <2>5, <1>6
    <3>2. D[n + 1] = F[k] BY <3>1, <1>1 DEF StepsOf
    <3>3. FilterRule(F[k]) BY <3>1, <1>1
    <3>4. F[k].do = "rule" /\ F[k].table = "pre" BY <3>3 DEF FilterRule
    <3>5. /\ {"table", "authorized_ips", "authorized_ips6", "chain"} \subseteq ts["pre"].objects
          /\ ts["pre"].rules = ls["pre"] (+) FirstMade(F, k - 1)
      BY <1>4, <2>5, <3>1 DEF FilterAfter
    <3>5a. PICK c : c = F[k] OBVIOUS
    <3>5b. c.do = "rule" /\ c.table \in Table /\ "chain" \in ts[c.table].objects
      BY <3>4, <3>5, <3>5a, <1>3
    <3>5c. /\ Possible(ts, c)
           /\ Execute(ts, c)[c.table].objects = ts[c.table].objects
           /\ Execute(ts, c)[c.table].rules = ts[c.table].rules (+) SetToBag({c.what})
      BY <3>5b, RuleAdded
    <3>6. /\ Possible(ts, D[n + 1])
          /\ new["pre"].objects = ts["pre"].objects
          /\ new["pre"].rules = ts["pre"].rules (+) SetToBag({F[k].what})
      BY <3>2, <3>4, <3>5a, <3>5c
    <3>7. k - 1 \in Nat /\ (k - 1) + 1 = k BY <3>1
    <3>8. (ls["pre"] (+) FirstMade(F, k - 1)) (+) SetToBag({F[(k - 1) + 1].what})
          = ls["pre"] (+) FirstMade(F, (k - 1) + 1)
      BY <1>3, <1>4, <3>7, AddedToWhatWasThere
    <3>9. new["pre"].rules = ls["pre"] (+) FirstMade(F, k)
      BY <3>5, <3>6, <3>7, <3>8
    <3>10. n + 1 - 5 = k /\ (n + 1 >= m + 5 => k = m) BY <3>1
    <3>11. FilterAfter(n + 1, F, m, ls["pre"], new["pre"])
      BY <3>1, <3>5, <3>6, <3>9, <3>10 DEF FilterAfter
    <3> QED BY <3>6, <3>11 DEF Proceeds
  <2> QED BY <2>2, <2>3, <2>4, <2>5
<1>7. CASE n >= m + 5
  <2>1. PICK j \in 0..4 : n = m + 5 + j BY <1>7, <1>2
  <2>2. RedirectAfter(j, R, ls["nat"], ts["nat"])
    <3>1. n - (m + 5) = j BY <2>1
    <3> QED BY <3>1, <1>4
  <2>3. ASSUME new["pre"] = ts["pre"] PROVE FilterAfter(n + 1, F, m, ls["pre"], new["pre"])
    <3>1. n >= 5 BY <1>7
    <3>2. n + 1 \in 5..(m + 5) => FALSE BY <1>7
    <3>3. ~(n + 1 \in 2..5) BY <1>7
    <3> QED BY <1>4, <1>7, <2>3, <3>1, <3>2, <3>3 DEF FilterAfter
  <2>4. SUFFICES /\ Proceeds(ts, D[n + 1]) /\ RedirectAfter(j + 1, R, ls["nat"], new["nat"])
                 /\ new["pre"] = ts["pre"]
    <3>1. n + 1 - (m + 5) = j + 1 BY <2>1
    <3> QED BY <3>1, <2>3
  <2>5. CASE j = 0
    <3>1. D[n + 1] = Add("nat", "table") BY <2>1, <2>5, <1>1 DEF StepsOf
    <3>2. Possible(ts, D[n + 1]) /\ "table" \in new["nat"].objects /\ new["pre"] = ts["pre"]
      BY <3>1, <1>3, Added
    <3>3. RedirectAfter(j + 1, R, ls["nat"], new["nat"])
      BY <3>2, <2>2, <2>5 DEF RedirectAfter
    <3> QED BY <3>2, <3>3 DEF Proceeds
  <2>6. CASE j = 1
    <3>1. D[n + 1] = FlushChain("nat") BY <2>1, <2>6, <1>1 DEF StepsOf
    <3>2. /\ new["nat"].objects = ts["nat"].objects /\ new["nat"].rules = EmptyBag
          /\ new["pre"] = ts["pre"]
      BY <3>1, <1>3, Flushed
    <3>3. RedirectAfter(j + 1, R, ls["nat"], new["nat"])
      BY <3>2, <2>2, <2>6 DEF RedirectAfter
    <3> QED BY <3>1, <3>2, <3>3 DEF Proceeds, FlushChain
  <2>7. CASE j \in {2, 3}
    <3> DEFINE o == IF j = 2 THEN "authorized_ips" ELSE "chain"
    <3>1. D[n + 1] = Add("nat", o) BY <2>1, <2>7, <1>1 DEF StepsOf
    <3>2. "table" \in ts["nat"].objects /\ ts["nat"].rules = ls["nat"]
      BY <2>7, <2>2 DEF RedirectAfter
    <3> HIDE DEF o
    <3>3. /\ Possible(ts, D[n + 1]) /\ new["pre"] = ts["pre"]
          /\ new["nat"].objects = ts["nat"].objects \cup {o} /\ new["nat"].rules = ts["nat"].rules
      BY <3>1, <3>2, <1>3, Added
    <3>4. RedirectAfter(j + 1, R, ls["nat"], new["nat"])
      BY <3>2, <3>3, <2>7, <2>2 DEF RedirectAfter, o
    <3> QED BY <3>3, <3>4 DEF Proceeds
  <2>8. CASE j = 4
    <3>1. D[n + 1] = R BY <2>1, <2>8, <1>1 DEF StepsOf
    <3>2. /\ {"table", "authorized_ips", "chain"} \subseteq ts["nat"].objects
          /\ ts["nat"].rules = ls["nat"]
      BY <2>2, <2>8 DEF RedirectAfter
    <3>3. /\ Possible(ts, D[n + 1]) /\ new["pre"] = ts["pre"]
          /\ new["nat"].objects = ts["nat"].objects
          /\ new["nat"].rules = ts["nat"].rules (+) SetToBag({R.what})
      <4>1. R.table \in Table /\ "chain" \in ts[R.table].objects BY <3>2, <1>3
      <4>2. /\ Possible(ts, R)
            /\ Execute(ts, R)[R.table].objects = ts[R.table].objects
            /\ Execute(ts, R)[R.table].rules = ts[R.table].rules (+) SetToBag({R.what})
            /\ \A other \in Table \ {R.table} : Execute(ts, R)[other] = ts[other]
        BY <4>1, RuleAdded
      <4> QED BY <3>1, <4>2, <1>3
    <3>4. (ls["nat"] (+) FirstMade(<<R>>, 0)) (+) SetToBag({<<R>>[0 + 1].what})
          = ls["nat"] (+) FirstMade(<<R>>, 0 + 1)
      BY <1>3, <1>4, AddedToWhatWasThere
    <3>5. ls["nat"] (+) FirstMade(<<R>>, 0) = ls["nat"]
      BY <1>3, <1>4, AddedToWhatWasThere
    <3>6. <<R>>[0 + 1] = R /\ 0 + 1 = 1 OBVIOUS
    <3>7. new["nat"].rules = ls["nat"] (+) FirstMade(<<R>>, 1)
      BY <3>2, <3>3, <3>4, <3>5, <3>6
    <3>8. RedirectAfter(j + 1, R, ls["nat"], new["nat"])
      BY <3>2, <3>3, <3>7, <2>8 DEF RedirectAfter
    <3> QED BY <3>3, <3>8 DEF Proceeds
  <2> QED BY <2>5, <2>6, <2>7, <2>8
<1> QED BY <1>6, <1>7

\* A command n + 1 that is a flush and fails leaves what is in its chain.
LEMMA OneFlushFailed ==
  ASSUME NEW ts, TablesOf(ts), NEW D, NEW F \in Seq(Command), NEW R, StepsOf(D, F, R),
         \A k \in 1..Len(F) : FilterRule(F[k]),
         R.do = "rule", R.table = "nat",
         NEW n \in Nat, n < Len(D), NEW ls, DeployedUpTo(n, F, Len(F), R, ls, ts),
         ls = [table \in Table |-> ls[table]],
         D[n + 1].do = "flush"
  PROVE  DeployedUpTo(n + 1, F, Len(F), R,
                      [ls EXCEPT ![D[n + 1].table] = ts[D[n + 1].table].rules], ts)
<1>1. PICK m \in Nat : m = Len(F) OBVIOUS
<1>2. n < m + 10 BY <1>1 DEF StepsOf
<1>3. FilterAfter(n, F, m, ls["pre"], ts["pre"]) /\ RedirectAfter(n - (m + 5), R, ls["nat"], ts["nat"])
  BY <1>1 DEF DeployedUpTo
<1>4. "pre" \in Table /\ "nat" \in Table BY DEF Table
<1>5. /\ \A table \in Table : Bagged(ls[table]) /\ Bagged(ts[table].rules)
  BY DEF DeployedUpTo, TablesOf
<1>6. n = 1 \/ n = m + 6
  <2>1. CASE n < 5
    <3>1. n \in {0, 1, 2, 3, 4} BY <2>1
    <3>2. n # 1 => D[n + 1].do = "add" BY <3>1 DEF StepsOf, Add
    <3> QED BY <3>2
  <2>2. CASE n \in 5..(m + 4)
    <3>0. n - 4 \in 1..m /\ n + 1 = (n - 4) + 5 BY <2>2
    <3>1. PICK k \in 1..m : n + 1 = k + 5 BY <3>0
    <3>2. D[n + 1] = F[k] BY <3>1, <1>1 DEF StepsOf
    <3>3. F[k].do = "rule" BY <3>1, <1>1 DEF FilterRule
    <3> QED BY <3>2, <3>3
  <2>3. CASE n >= m + 5
    <3>1. n \in {m + 5, m + 6, m + 7, m + 8, m + 9} BY <2>3, <1>2
    <3>2. n \in {m + 5, m + 7, m + 8} => D[n + 1].do = "add" BY <1>1 DEF StepsOf, Add
    <3>3. n = m + 9 => D[n + 1].do = "rule" BY <1>1 DEF StepsOf
    <3> QED BY <3>1, <3>2, <3>3
  <2> QED BY <2>1, <2>2, <2>3
<1>7. CASE n = 1
  <2>1. D[n + 1].table = "pre" BY <1>7 DEF StepsOf, FlushChain
  <2>2. PICK new : new = [ls EXCEPT !["pre"] = ts["pre"].rules] OBVIOUS
  <2>3. new["pre"] = ts["pre"].rules /\ new["nat"] = ls["nat"]
    BY <2>2, <1>4
  <2>4. FilterAfter(n + 1, F, m, new["pre"], ts["pre"])
    BY <1>3, <1>7, <2>3 DEF FilterAfter
  <2>5. RedirectAfter(n + 1 - (m + 5), R, new["nat"], ts["nat"])
    <3>1. n - (m + 5) < 2 /\ ~(n + 1 - (m + 5) >= 1) BY <1>7
    <3> QED BY <1>3, <2>3, <3>1 DEF RedirectAfter
  <2>6. \A table \in Table : Bagged(new[table]) BY <1>5, <2>3 DEF Table
  <2> QED BY <1>1, <2>1, <2>2, <2>4, <2>5, <2>6 DEF DeployedUpTo
<1>8. CASE n = m + 6
  <2>1. D[n + 1].table = "nat" BY <1>1, <1>8 DEF StepsOf, FlushChain
  <2>2. PICK new : new = [ls EXCEPT !["nat"] = ts["nat"].rules] OBVIOUS
  <2>3. new["nat"] = ts["nat"].rules /\ new["pre"] = ls["pre"]
    BY <2>2, <1>4
  <2>4. FilterAfter(n + 1, F, m, new["pre"], ts["pre"])
    <3>1. n >= m + 5 /\ n >= 5 /\ ~(n + 1 \in 2..5) /\ ~(n + 1 \in 5..(m + 5)) BY <1>8
    <3> QED BY <1>3, <2>3, <3>1 DEF FilterAfter
  <2>5. RedirectAfter(2, R, new["nat"], ts["nat"])
    <3>1. RedirectAfter(1, R, ls["nat"], ts["nat"])
      <4>1. n - (m + 5) = 1 BY <1>8
      <4> QED BY <4>1, <1>3
    <3> QED BY <3>1, <2>3 DEF RedirectAfter
  <2>6. RedirectAfter(n + 1 - (m + 5), R, new["nat"], ts["nat"])
    <3>1. n + 1 - (m + 5) = 2 BY <1>8
    <3> QED BY <2>5, <3>1
  <2>7. \A table \in Table : Bagged(new[table]) BY <1>5, <2>3 DEF Table
  <2> QED BY <1>1, <2>1, <2>2, <2>4, <2>6, <2>7 DEF DeployedUpTo
<1> QED BY <1>6, <1>7, <1>8

\* A deployment whose commands have all been run has left what it is to leave.
LEMMA AllCommandsRun ==
  ASSUME NEW ts, TablesOf(ts), NEW ifs \in Seq(Interface), NEW n \in Nat,
         n = Len(FilterRules(ifs)) + 10, NEW ls,
         DeployedUpTo(n, FilterRules(ifs), Len(FilterRules(ifs)), RedirectRule(ifs), ls, ts)
  PROVE  ts = Outcome(ifs, ls)
<1> DEFINE F == FilterRules(ifs)
           R == RedirectRule(ifs)
<1>1. F \in Seq(Command) BY RulesOfFilter
<1>2. PICK m \in Nat : m = Len(F) BY <1>1
<1>3. FilterAfter(n, F, m, ls["pre"], ts["pre"]) /\ RedirectAfter(n - (m + 5), R, ls["nat"], ts["nat"])
  BY <1>2 DEF DeployedUpTo
<1>4. RulesMade(F) = FirstMade(F, m)
  <2>1. DOMAIN F = 1..m BY <1>1, <1>2
  <2> HIDE DEF F
  <2> QED BY <2>1, AllMade
<1>5. RulesMade(<<R>>) = FirstMade(<<R>>, 1)
  <2>1. DOMAIN <<R>> = 1..1 OBVIOUS
  <2> HIDE DEF R
  <2> QED BY <2>1, AllMade
<1> HIDE DEF F, R
<1>6. ts["pre"].rules = ls["pre"] (+) RulesMade(F)
  BY <1>2, <1>3, <1>4 DEF FilterAfter, F
<1>7. {"table", "authorized_ips", "authorized_ips6", "chain"} \subseteq ts["pre"].objects
  BY <1>2, <1>3 DEF FilterAfter, F
<1>8. ts["nat"].rules = ls["nat"] (+) RulesMade(<<R>>)
  BY <1>2, <1>3, <1>5 DEF RedirectAfter, F
<1>9. {"table", "authorized_ips", "chain"} \subseteq ts["nat"].objects
  BY <1>2, <1>3 DEF RedirectAfter, F
<1>10. ts["pre"].objects = ObjectsOf("pre") /\ ts["nat"].objects = ObjectsOf("nat")
  BY <1>7, <1>9 DEF TablesOf, Table, ObjectsOf
<1>11. ts = [table \in Table |-> [objects |-> ts[table].objects, rules |-> ts[table].rules]]
  BY DEF TablesOf
<1>12. PICK A : A = Deployed(ifs)["pre"] OBVIOUS
<1>13. PICK B : B = Deployed(ifs)["nat"] OBVIOUS
<1>14. /\ A.objects = ObjectsOf("pre") /\ A.rules = RulesMade(F)
       /\ B.objects = ObjectsOf("nat") /\ B.rules = RulesMade(<<R>>)
  BY <1>12, <1>13 DEF Deployed, ObjectsOf, F, R
<1>15. Outcome(ifs, ls) =
         [table \in Table |-> [objects |-> Deployed(ifs)[table].objects,
                               rules |-> ls[table] (+) Deployed(ifs)[table].rules]]
  BY DEF Outcome
<1>16. ASSUME NEW table \in Table
       PROVE  /\ ts[table].objects = Deployed(ifs)[table].objects
              /\ ts[table].rules = ls[table] (+) Deployed(ifs)[table].rules
  <2>1. CASE table = "pre"
    BY <2>1, <1>6, <1>10, <1>12, <1>14
  <2>2. CASE table = "nat"
    BY <2>2, <1>8, <1>10, <1>13, <1>14
  <2> QED BY <2>1, <2>2 DEF Table
<1> QED BY <1>11, <1>15, <1>16

\* A deployment for ifs that has the commands todo left, and has not been disturbed;
\* its failed flushes have left ls.
OnTheWay(todo, ifs, ls, ts) ==
  /\ Len(todo) <= Len(DeploySteps(ifs))
  /\ \A k \in 1..Len(todo) :
       todo[k] = DeploySteps(ifs)[Len(DeploySteps(ifs)) - Len(todo) + k]
  /\ DeployedUpTo(Len(DeploySteps(ifs)) - Len(todo), FilterRules(ifs),
                  Len(FilterRules(ifs)), RedirectRule(ifs), ls, ts)

\* Whatever the tables hold, a deployment that is about to start is on its way.
LEMMA DeploymentStarts ==
  ASSUME NEW ts, TablesOf(ts), NEW ifs \in Seq(Interface)
  PROVE  OnTheWay(DeploySteps(ifs), ifs, NoRules, ts)
<1>1. StepsOf(DeploySteps(ifs), FilterRules(ifs), RedirectRule(ifs))
  BY DeploymentSteps
<1>2. PICK D : D = DeploySteps(ifs) OBVIOUS
<1>3. PICK F : F = FilterRules(ifs) OBVIOUS
<1>4. F \in Seq(Command) BY <1>3, RulesOfFilter
<1>5. PICK n \in Nat : n = Len(D) BY <1>1, <1>2 DEF StepsOf
<1>6. PICK m \in Nat : m = Len(F) BY <1>4
<1>7. DeployedUpTo(0, F, m, RedirectRule(ifs), NoRules, ts)
  <2>1. NoRules["pre"] = EmptyBag /\ NoRules["nat"] = EmptyBag BY DEF NoRules, Table
  <2>2. \A table \in Table : Bagged(NoRules[table]) BY SomeBags DEF NoRules
  <2> QED BY <2>1, <2>2 DEF DeployedUpTo, FilterAfter, RedirectAfter
<1> QED BY <1>2, <1>3, <1>5, <1>6, <1>7 DEF OnTheWay

\* The next command of a deployment on its way is run, and keeps it on its way, and
\* so does a flush that fails.
LEMMA DeploymentGoesOn ==
  ASSUME NEW ts, TablesOf(ts), NEW ifs \in Seq(Interface),
         NEW ls, ls = [table \in Table |-> ls[table]],
         NEW todo \in Seq(Command), todo # << >>, OnTheWay(todo, ifs, ls, ts)
  PROVE  /\ Proceeds(ts, Head(todo))
         /\ OnTheWay(Tail(todo), ifs, ls, Execute(ts, Head(todo)))
         /\ Head(todo).do = "flush" =>
              OnTheWay(Tail(todo), ifs,
                       [ls EXCEPT ![Head(todo).table] = ts[Head(todo).table].rules], ts)
<1>1. StepsOf(DeploySteps(ifs), FilterRules(ifs), RedirectRule(ifs))
  BY DeploymentSteps
<1>2. PICK D : D = DeploySteps(ifs) OBVIOUS
<1>3. PICK F : F = FilterRules(ifs) OBVIOUS
<1>4. PICK R : R = RedirectRule(ifs) OBVIOUS
<1>5. F \in Seq(Command) /\ \A k \in 1..Len(F) : FilterRule(F[k])
  BY <1>3, RulesOfFilter
<1>6. R.do = "rule" /\ R.table = "nat"
  BY <1>4 DEF RedirectRule, Rule
<1>7. PICK d \in Nat : d = Len(D) BY <1>1, <1>2 DEF StepsOf
<1>8. PICK l \in Nat : l = Len(todo) /\ l >= 1 OBVIOUS
<1>9. l <= d BY <1>2, <1>7, <1>8 DEF OnTheWay
<1>10. PICK n \in Nat : n = d - l BY <1>9
<1>11. n < d BY <1>8, <1>10
<1>12. \A k \in 1..l : todo[k] = D[n + k]
  BY <1>2, <1>7, <1>8, <1>10 DEF OnTheWay
<1>13. DeployedUpTo(n, F, Len(F), R, ls, ts)
  BY <1>2, <1>3, <1>4, <1>7, <1>8, <1>10 DEF OnTheWay
<1>14. Head(todo) = D[n + 1]
  BY <1>8, <1>12
<1>15. StepsOf(D, F, R) BY <1>1, <1>2, <1>3, <1>4
<1>16. /\ Proceeds(ts, D[n + 1])
       /\ DeployedUpTo(n + 1, F, Len(F), R, ls, Execute(ts, D[n + 1]))
  BY <1>5, <1>6, <1>7, <1>11, <1>13, <1>15, OneCommandOn
<1>17. Len(Tail(todo)) = l - 1 /\ \A k \in 1..(l - 1) : Tail(todo)[k] = todo[k + 1]
  BY <1>8
<1>18. \A k \in 1..(l - 1) : Tail(todo)[k] = D[d - (l - 1) + k]
  <2> TAKE k \in 1..(l - 1)
  <2>1. Tail(todo)[k] = D[n + (k + 1)] BY <1>17, <1>12
  <2>2. n + (k + 1) = d - (l - 1) + k BY <1>10
  <2> QED BY <2>1, <2>2
<1>19. d - (l - 1) = n + 1 /\ l - 1 <= d BY <1>9, <1>10
<1>20. OnTheWay(Tail(todo), ifs, ls, Execute(ts, Head(todo)))
  BY <1>2, <1>3, <1>4, <1>7, <1>14, <1>16, <1>17, <1>18, <1>19 DEF OnTheWay
<1>21. ASSUME Head(todo).do = "flush"
       PROVE  OnTheWay(Tail(todo), ifs,
                       [ls EXCEPT ![Head(todo).table] = ts[Head(todo).table].rules], ts)
  <2>1. PICK new : new = [ls EXCEPT ![D[n + 1].table] = ts[D[n + 1].table].rules] OBVIOUS
  <2>2. D[n + 1].do = "flush" BY <1>14, <1>21
  <2>3. DeployedUpTo(n + 1, F, Len(F), R, new, ts)
    BY <1>5, <1>6, <1>7, <1>11, <1>13, <1>15, <2>1, <2>2, OneFlushFailed
  <2>4. OnTheWay(Tail(todo), ifs, new, ts)
    BY <1>2, <1>3, <1>4, <1>7, <1>17, <1>18, <1>19, <2>3 DEF OnTheWay
  <2> QED BY <1>14, <2>1, <2>4
<1> QED BY <1>14, <1>16, <1>20, <1>21

\* A deployment with nothing left has made the tables what they are to be.
LEMMA DeploymentIsDone ==
  ASSUME NEW ts, TablesOf(ts), NEW ifs \in Seq(Interface), NEW ls,
         OnTheWay(<< >>, ifs, ls, ts)
  PROVE  ts = Outcome(ifs, ls)
<1>1. StepsOf(DeploySteps(ifs), FilterRules(ifs), RedirectRule(ifs))
  BY DeploymentSteps
<1>2. PICK m \in Nat : m = Len(FilterRules(ifs)) BY RulesOfFilter
<1>3. Len(DeploySteps(ifs)) = m + 10 BY <1>1, <1>2 DEF StepsOf
<1>4. DeployedUpTo(m + 10, FilterRules(ifs), m, RedirectRule(ifs), ls, ts)
  <2>1. Len(DeploySteps(ifs)) - Len(<< >>) = m + 10 BY <1>3
  <2> QED BY <2>1, <1>2 DEF OnTheWay
<1>5. m + 10 \in Nat /\ m + 10 = Len(FilterRules(ifs)) + 10 BY <1>2
<1> QED BY <1>2, <1>4, <1>5, AllCommandsRun

\* A deployment that comes to the redirection has completed the filter.
LEMMA FilterIsFirst ==
  ASSUME NEW ts, TablesOf(ts), NEW ifs \in Seq(Interface),
         NEW todo \in Seq(Command), todo # << >>, NEW ls, OnTheWay(todo, ifs, ls, ts),
         Head(todo).table = "nat"
  PROVE  ts["pre"] = Outcome(ifs, ls)["pre"]
<1>1. StepsOf(DeploySteps(ifs), FilterRules(ifs), RedirectRule(ifs))
  BY DeploymentSteps
<1>2. PICK D : D = DeploySteps(ifs) OBVIOUS
<1>3. PICK F : F = FilterRules(ifs) OBVIOUS
<1>4. F \in Seq(Command) /\ \A k \in 1..Len(F) : FilterRule(F[k])
  BY <1>3, RulesOfFilter
<1>5. PICK m \in Nat : m = Len(F) BY <1>4
<1>6. PICK l \in Nat : l = Len(todo) /\ l >= 1 OBVIOUS
<1>7. Len(D) = m + 10 /\ l <= m + 10
  BY <1>1, <1>2, <1>3, <1>5, <1>6 DEF StepsOf, OnTheWay
<1>8. PICK n \in Nat : n = m + 10 - l BY <1>7
<1>9. Head(todo) = D[n + 1]
  <2>1. Head(todo) = todo[1] OBVIOUS
  <2>2. todo[1] = D[Len(D) - l + 1] BY <1>2, <1>6 DEF OnTheWay
  <2>3. Len(D) - l + 1 = n + 1 BY <1>7, <1>8
  <2> QED BY <2>1, <2>2, <2>3
<1>10. FilterAfter(n, F, m, ls["pre"], ts["pre"])
  <2>1. Len(D) - l = n BY <1>7, <1>8
  <2> QED BY <2>1, <1>2, <1>3, <1>5, <1>6 DEF OnTheWay, DeployedUpTo
<1>11. n >= m + 5
  <2>1. SUFFICES ASSUME n < m + 5 PROVE FALSE BY <1>8
  <2>2. CASE n < 5
    <3>1. n + 1 \in {1, 2, 3, 4, 5} BY <2>2
    <3>2. D[n + 1].table = "pre" BY <3>1, <1>1, <1>2 DEF StepsOf, Add, FlushChain
    <3> QED BY <3>2, <1>9
  <2>3. CASE n >= 5
    <3>1. PICK k \in 1..m : n + 1 = k + 5 BY <2>1, <2>3
    <3>2. D[n + 1] = F[k] BY <3>1, <1>1, <1>2, <1>3, <1>5 DEF StepsOf
    <3>3. F[k].table = "pre" BY <3>1, <1>4, <1>5 DEF FilterRule
    <3> QED BY <3>2, <3>3, <1>9
  <2> QED BY <2>2, <2>3
<1>12. RulesMade(F) = FirstMade(F, m)
  <2>1. DOMAIN F = 1..m BY <1>4, <1>5
  <2> QED BY <2>1, AllMade
<1>13. ts["pre"].rules = ls["pre"] (+) RulesMade(F)
  BY <1>5, <1>10, <1>11, <1>12 DEF FilterAfter
<1>14. ts["pre"].objects = ObjectsOf("pre")
  <2>1. {"table", "authorized_ips", "authorized_ips6", "chain"} \subseteq ts["pre"].objects
    BY <1>5, <1>10, <1>11 DEF FilterAfter
  <2> QED BY <2>1 DEF TablesOf, Table, ObjectsOf
<1>15. ts["pre"] = [objects |-> ts["pre"].objects, rules |-> ts["pre"].rules]
  BY DEF TablesOf, Table
<1>16. Outcome(ifs, ls)["pre"] =
         [objects |-> ObjectsOf("pre"), rules |-> ls["pre"] (+) RulesMade(F)]
  <2>1. "pre" \in Table BY DEF Table
  <2>2. /\ Deployed(ifs)["pre"].objects = ObjectsOf("pre")
        /\ Deployed(ifs)["pre"].rules = RulesMade(F)
    BY <1>3 DEF Deployed, ObjectsOf
  <2> QED BY <2>1, <2>2 DEF Outcome
<1> QED BY <1>13, <1>14, <1>15, <1>16

------------------------------------------------------------------------------
(* The inductive invariant                                                   *)

\* A server s that has been left alone has not failed; deploying, it is on its way,
\* and afterwards it has got there; ls is what its failed flushes have left.
Undisturbed(s, ls, ts) ==
  /\ s.phase # "failed"
  /\ s.phase = "deploying" => OnTheWay(s.todo, s.interfaces, ls, ts)
  /\ s.phase \in {"deployed", "listening"} => ts = Outcome(s.interfaces, ls)

DeployInv == \A p \in untouched : Undisturbed(server[p], kept[p], tables)

\* If the last server was started alone and no kill has failed since, whatever runs
\* either could write neither pid file, or has its pid in a file that `stop` is still
\* to look at; what `stop` has left running it has left because another pid was found.
StopInv ==
  alone /\ ~spared =>
    \A p \in Pid : Running(p) =>
      /\ stopping \in {Idle, <<"/tmp", "/var/run", "end">>} /\ ~unnamed =>
           \E path \in Path : pidFile[path] = p
      /\ stopping = <<"/var/run", "end">> /\ ~unnamed => pidFile["/var/run"] = p
      /\ stopping \in {<<"end">>, <<"done">>} => unnamed
      /\ stopping = <<"done">> => stopped

NodeInv == NodeTypes /\ DeployInv /\ StopInv

LEMMA ScriptTypes ==
  /\ SetupSteps \in Seq(Command) /\ TeardownSteps \in Seq(Command)
  /\ \A ifs \in Seq(Interface) : DeploySteps(ifs) \in Seq(Command)
<1>1. << >> \in Seq(Interface) OBVIOUS
<1>2. \A table \in Table : \A o \in ObjectsOf(table) : Add(table, o) \in Command
  BY DEF Add, Command, What, Table, ObjectsOf
<1>3. /\ Add("pre", "table") \in Command /\ Add("nat", "table") \in Command
      /\ Add("pre", "authorized_ips") \in Command /\ Add("pre", "authorized_ips6") \in Command
      /\ Add("pre", "chain") \in Command /\ Add("nat", "authorized_ips") \in Command
      /\ Add("nat", "chain") \in Command
  BY <1>2 DEF Table, ObjectsOf
<1>4. RedirectRule(<< >>) \in Command
  BY <1>1 DEF RedirectRule, Rule, Command, What, Table
<1>5. FilterRules(<< >>) \in Seq(Command) BY <1>1, RulesOfFilter
<1>6. FilterObjects \in Seq(Command) /\ NatObjects \in Seq(Command)
  BY <1>3 DEF FilterObjects, NatObjects
<1>7. <<Add("pre", "table")>> \in Seq(Command) /\ <<Add("nat", "table")>> \in Seq(Command)
      /\ <<RedirectRule(<< >>)>> \in Seq(Command)
  BY <1>3, <1>4
<1>8. SetupSteps \in Seq(Command)
  <2>1. <<Add("pre", "table")>> \o FilterObjects \in Seq(Command)
    BY <1>6, <1>7, ConcatProperties
  <2>2. <<Add("pre", "table")>> \o FilterObjects \o FilterRules(<< >>) \in Seq(Command)
    BY <2>1, <1>5, ConcatProperties
  <2>3. <<Add("pre", "table")>> \o FilterObjects \o FilterRules(<< >>)
          \o <<Add("nat", "table")>> \in Seq(Command)
    BY <2>2, <1>7, ConcatProperties
  <2>4. <<Add("pre", "table")>> \o FilterObjects \o FilterRules(<< >>)
          \o <<Add("nat", "table")>> \o NatObjects \in Seq(Command)
    BY <2>3, <1>6, ConcatProperties
  <2> QED BY <2>4, <1>7, ConcatProperties DEF SetupSteps
<1>9. TeardownSteps \in Seq(Command)
  <2>1. DeleteTable("pre") \in Command /\ DeleteTable("nat") \in Command
    BY DEF DeleteTable, Command, What, Table, ObjectsOf
  <2> QED BY <2>1 DEF TeardownSteps
<1>10. \A ifs \in Seq(Interface) : DeploySteps(ifs) \in Seq(Command)
  BY DeploymentSteps DEF StepsOf
<1> QED BY <1>8, <1>9, <1>10

LEMMA InitTypes ==
  TablesOf(NoTables) /\ Dead \in Servers
<1>1. TablesOf(NoTables) BY SomeBags DEF TablesOf, NoTables, NoTable, Table
<1>2. << >> \in Seq(Command) /\ << >> \in Seq(Interface) OBVIOUS
<1> QED BY <1>1, <1>2 DEF Dead, Servers

LEMMA NodeInit ==
  ASSUME Init PROVE NodeInv
<1> USE DEF Init
<1>1. NodeTypes
  <2>1. << >> \in Seq(Command) OBVIOUS
  <2>2. KeptTypes(kept) BY SomeBags DEF KeptTypes, NoRules
  <2> QED BY <2>1, <2>2, InitTypes DEF NodeTypes, Idle
<1>2. DeployInv BY DEF DeployInv
<1>3. StopInv BY DEF StopInv, Running, Dead
<1> QED BY <1>1, <1>2, <1>3 DEF NodeInv

\* A kill leaves every server as it is or dead, and none of its pids running.
LEMMA KilledTypes ==
  ASSUME NodeTypes, NEW pids
  PROVE  /\ Killed(pids) \in [Pid -> Servers]
         /\ \A p \in Pid : Killed(pids)[p] = Dead \/ Killed(pids)[p] = server[p]
         /\ \A p \in Pid : p \in pids => Killed(pids)[p] = Dead \/ ~Running(p)
<1>1. \A p \in Pid : Killed(pids)[p] = IF p \in pids /\ Running(p) THEN Dead ELSE server[p]
  BY DEF Killed
<1>2. \A p \in Pid : Killed(pids)[p] \in Servers
  BY <1>1, InitTypes DEF NodeTypes
<1>3. Killed(pids) \in [Pid -> Servers]
  BY <1>2 DEF Killed
<1> QED BY <1>1, <1>3

LEMMA DeadIsUndisturbed ==
  ASSUME NEW ls, NEW ts PROVE Undisturbed(Dead, ls, ts)
BY DEF Undisturbed, Dead

LEMMA TouchTypes ==
  ASSUME NodeTypes, NEW who, NEW cmd \in Command, Touch(who, cmd)
  PROVE  /\ TablesOf(tables')
         /\ untouched' \subseteq untouched
         /\ tables' = Execute(tables, cmd)
         /\ \A q \in untouched' : q = who \/ tables' = tables
<1>1. TablesOf(tables) BY DEF NodeTypes
<1>2. tables' = Execute(tables, cmd) BY DEF Touch
<1>3. TablesOf(Execute(tables, cmd)) BY <1>1, ExecuteTypes
<1>4. untouched' = IF tables' = tables THEN untouched ELSE untouched \cap {who}
  BY DEF Touch
<1> QED BY <1>2, <1>3, <1>4 DEF Touch

------------------------------------------------------------------------------
(* serve *)

LEMMA ServePreserves ==
  ASSUME NodeInv, NEW p \in Pid, Serve(p)
  PROVE  NodeInv'
<1> USE DEF NodeInv
<1>1. PICK ifs \in Configs, written \in SUBSET Path :
        /\ ~Running(p) /\ WritePidFiles(p, written)
        /\ server' = [server EXCEPT ![p] =
             [phase |-> "deploying", todo |-> DeploySteps(ifs), interfaces |-> ifs]]
        /\ unnamed' = (written = {})
  BY DEF Serve
<1>2. UNCHANGED <<tables, script, stopping, stopped>> BY DEF Serve
<1>3. untouched' = untouched \cup {p} /\ kept' = [kept EXCEPT ![p] = NoRules] BY DEF Serve
<1>4. alone' = (stopping = Idle /\ \A q \in Pid : ~Running(q)) /\ spared' = FALSE BY DEF Serve
<1>5. /\ pidFile' \in [Path -> Pid \cup {NoPid}]
      /\ \A path \in written : pidFile'[path] = p
  <2>1. PICK emptied \in SUBSET (Path \ written) :
          pidFile' = [path \in Path |->
                        IF path \in written THEN p
                        ELSE IF path \in emptied THEN NoPid ELSE pidFile[path]]
    BY <1>1 DEF WritePidFiles
  <2>2. \A path \in Path : pidFile[path] \in Pid \cup {NoPid} BY DEF NodeTypes
  <2> QED BY <2>1, <2>2
<1>6. ifs \in Seq(Interface) BY NodeAssumption
<1>7. DeploySteps(ifs) \in Seq(Command) BY <1>6, ScriptTypes
<1>8. server \in [Pid -> Servers] /\ KeptTypes(kept) BY DEF NodeTypes
<1> DEFINE s == [phase |-> "deploying", todo |-> DeploySteps(ifs), interfaces |-> ifs]
<1>9. s \in Servers BY <1>6, <1>7 DEF Servers
<1>10. server'[p] = s /\ \A q \in Pid \ {p} : server'[q] = server[q]
  BY <1>1, <1>8
<1>11. server' \in [Pid -> Servers] BY <1>1, <1>8, <1>9
<1>12. /\ kept'[p] = NoRules /\ \A q \in Pid \ {p} : kept'[q] = kept[q]
       /\ KeptTypes(kept')
  <2>1. kept'[p] = NoRules /\ \A q \in Pid \ {p} : kept'[q] = kept[q]
    BY <1>3, <1>8 DEF KeptTypes
  <2>2. \A table \in Table : Bagged(NoRules[table]) BY SomeBags DEF NoRules
  <2>3. kept' = [q \in Pid |-> kept'[q]] BY <1>3, <1>8 DEF KeptTypes
  <2>4. ASSUME NEW q \in Pid
        PROVE  /\ kept'[q] = [table \in Table |-> kept'[q][table]]
               /\ \A table \in Table : Bagged(kept'[q][table])
    <3>1. CASE q = p BY <3>1, <2>1, <2>2 DEF NoRules
    <3>2. CASE q # p
      <4>1. kept[q] = [table \in Table |-> kept[q][table]] BY <1>8 DEF KeptTypes
      <4> QED BY <3>2, <4>1, <2>1, <1>8 DEF KeptTypes
    <3> QED BY <3>1, <3>2
  <2> QED BY <2>1, <2>3, <2>4 DEF KeptTypes
<1>13. NodeTypes'
  BY <1>1, <1>2, <1>3, <1>4, <1>5, <1>11, <1>12 DEF NodeTypes
<1>14. DeployInv'
  <2>1. TablesOf(tables) BY DEF NodeTypes
  <2>2. OnTheWay(DeploySteps(ifs), ifs, NoRules, tables) BY <2>1, <1>6, DeploymentStarts
  <2>3. Undisturbed(s, NoRules, tables) BY <2>2 DEF Undisturbed
  <2>4. untouched \subseteq Pid BY DEF NodeTypes
  <2>5. \A q \in untouched' : Undisturbed(server'[q], kept'[q], tables')
    BY <1>2, <1>3, <1>10, <1>12, <2>3, <2>4 DEF DeployInv
  <2> QED BY <2>5 DEF DeployInv
<1>15. StopInv'
  <2>1. ASSUME alone', NEW q \in Pid, Running(q)'
        PROVE  /\ stopping' = Idle
               /\ ~unnamed' => \E path \in Path : pidFile'[path] = q
    <3>1. stopping = Idle /\ ~Running(q) BY <2>1, <1>4
    <3>2. q = p BY <2>1, <3>1, <1>10 DEF Running
    <3> QED BY <3>1, <3>2, <1>1, <1>2, <1>5
  <2>2. /\ Idle # <<"/var/run", "end">>
        /\ Idle \notin {<<"end">>, <<"done">>}
    BY DEF Idle
  <2> QED BY <2>1, <2>2 DEF StopInv
<1> QED BY <1>13, <1>14, <1>15

\* A server's step that writes no pid file and leaves `stop` alone: it is enough to
\* look at its own record, and at the tables if they change.
LEMMA ServerStep ==
  ASSUME NodeInv, NEW p \in Pid, Running(p),
         NEW s \in Servers, server' = [server EXCEPT ![p] = s],
         UNCHANGED <<pidFile, script, stopping, stopped, stopHistory>>,
         KeptTypes(kept'), \A q \in Pid \ {p} : kept'[q] = kept[q],
         untouched' \subseteq untouched,
         TablesOf(tables'),
         p \in untouched' => Undisturbed(s, kept'[p], tables'),
         \A q \in untouched' : q = p \/ tables' = tables
  PROVE  NodeInv'
<1> USE DEF NodeInv, stopHistory
<1>1. server \in [Pid -> Servers] BY DEF NodeTypes
<1>2. server'[p] = s /\ \A q \in Pid \ {p} : server'[q] = server[q] BY <1>1
<1>3. server' \in [Pid -> Servers] BY <1>1
<1>4. NodeTypes' BY <1>3 DEF NodeTypes
<1>5. DeployInv'
  <2>1. untouched \subseteq Pid BY DEF NodeTypes
  <2>2. \A q \in untouched' : Undisturbed(server'[q], kept'[q], tables')
    BY <1>2, <2>1 DEF DeployInv
  <2> QED BY <2>2 DEF DeployInv
<1>6. StopInv'
  <2>1. \A q \in Pid : Running(q)' => Running(q) BY <1>2 DEF Running
  <2> QED BY <2>1 DEF StopInv
<1> QED BY <1>4, <1>5, <1>6

LEMMA DeployCommandPreserves ==
  ASSUME NodeInv, NEW p \in Pid, DeployCommand(p)
  PROVE  NodeInv'
<1> USE DEF NodeInv
<1>1. Deploying(p) /\ server[p].todo # << >> BY DEF DeployCommand
<1>2. PICK todo \in Seq(Command) : todo = server[p].todo BY DEF NodeTypes, Servers
<1>3. PICK cmd \in Command : cmd = Head(todo) BY <1>1, <1>2
<1> DEFINE ok == Possible(tables, cmd) \/ cmd.do = "flush"
           s  == [server[p] EXCEPT !.todo = IF ok THEN Tail(todo) ELSE << >>,
                                   !.phase = IF ok THEN @ ELSE "failed"]
<1>4. Touch(p, cmd) BY <1>2, <1>3 DEF DeployCommand
<1>5. server' = [server EXCEPT ![p] = s]
  BY <1>2, <1>3 DEF DeployCommand, NodeTypes, Servers
<1>6. UNCHANGED <<pidFile, script, stopping, stopped, kept, stopHistory>>
  BY DEF DeployCommand, commands
<1>7. /\ TablesOf(tables') /\ untouched' \subseteq untouched
      /\ tables' = Execute(tables, cmd)
      /\ \A q \in untouched' : q = p \/ tables' = tables
  BY <1>4, TouchTypes
<1>8. server[p] \in Servers /\ KeptTypes(kept) BY DEF NodeTypes
<1>9. s \in Servers
  <2>1. Tail(todo) \in Seq(Command) /\ << >> \in Seq(Command) BY <1>1, <1>2
  <2> QED BY <2>1, <1>8 DEF Servers
<1>10. ASSUME p \in untouched' PROVE Undisturbed(s, kept'[p], tables')
  <2>1. Undisturbed(server[p], kept[p], tables) BY <1>7, <1>10 DEF DeployInv
  <2>2. PICK ifs \in Seq(Interface) : ifs = server[p].interfaces BY <1>8 DEF Servers
  <2>3. OnTheWay(todo, ifs, kept[p], tables)
    BY <2>1, <2>2, <1>1, <1>2 DEF Undisturbed, Deploying
  <2>4. TablesOf(tables) BY DEF NodeTypes
  <2>4a. kept[p] = [table \in Table |-> kept[p][table]] BY <1>8 DEF KeptTypes
  <2>5. Proceeds(tables, cmd) /\ OnTheWay(Tail(todo), ifs, kept[p], tables')
    BY <2>3, <2>4, <2>4a, <1>1, <1>2, <1>3, <1>7, DeploymentGoesOn
  <2>6. ok BY <2>5 DEF Proceeds
  <2>7. s = [server[p] EXCEPT !.todo = Tail(todo), !.phase = "deploying"]
    BY <2>6, <1>1, <1>8 DEF Deploying, Servers
  <2>8. s.todo = Tail(todo) /\ s.phase = "deploying" /\ s.interfaces = ifs
    BY <2>7, <2>2, <1>8 DEF Servers
  <2> HIDE DEF s
  <2> QED BY <2>5, <2>8, <1>6 DEF Undisturbed
<1>11. Running(p) BY <1>1 DEF Running, Deploying
<1> HIDE DEF s
<1> QED BY <1>5, <1>6, <1>7, <1>8, <1>9, <1>10, <1>11, ServerStep

LEMMA DeployFailsPreserves ==
  ASSUME NodeInv, NEW p \in Pid, DeployFails(p)
  PROVE  NodeInv'
<1> USE DEF NodeInv
<1>1. Running(p) BY DEF DeployFails, Running, Deploying
<1>2. server[p] \in Servers /\ KeptTypes(kept) /\ TablesOf(tables) BY DEF NodeTypes
<1> DEFINE s == [server[p] EXCEPT !.todo = << >>, !.phase = "failed"]
<1>3. server' = [server EXCEPT ![p] = s]
  BY DEF DeployFails, NodeTypes, Servers
<1>4. s \in Servers
  <2>1. << >> \in Seq(Command) OBVIOUS
  <2> QED BY <2>1, <1>2 DEF Servers
<1> HIDE DEF s
<1>5. UNCHANGED <<tables, pidFile, script, stopping, stopped, kept, stopHistory>>
  BY DEF DeployFails
<1>6. untouched' = untouched \ {p} BY DEF DeployFails
<1> QED BY <1>1, <1>2, <1>3, <1>4, <1>5, <1>6, ServerStep

LEMMA FlushFailsPreserves ==
  ASSUME NodeInv, NEW p \in Pid, FlushFails(p)
  PROVE  NodeInv'
<1> USE DEF NodeInv
<1>1. Deploying(p) /\ server[p].todo # << >> BY DEF FlushFails
<1>2. PICK todo \in Seq(Command) : todo = server[p].todo BY DEF NodeTypes, Servers
<1>3. server[p] \in Servers /\ KeptTypes(kept) /\ TablesOf(tables) BY DEF NodeTypes
<1>4. PICK cmd \in Command : cmd = Head(todo) BY <1>1, <1>2
<1>5. cmd.do = "flush" /\ cmd.table \in Table
  BY <1>2, <1>4 DEF FlushFails, Command
<1>6. PICK ls : ls = [kept[p] EXCEPT ![cmd.table] = tables[cmd.table].rules] OBVIOUS
<1>7. kept' = [kept EXCEPT ![p] = ls]
  BY <1>2, <1>3, <1>4, <1>6 DEF FlushFails, KeptTypes
<1>8. kept[p] = [table \in Table |-> kept[p][table]] BY <1>3 DEF KeptTypes
<1>9. /\ ls = [table \in Table |-> ls[table]]
      /\ \A table \in Table : Bagged(ls[table])
  BY <1>3, <1>5, <1>6, <1>8 DEF KeptTypes, TablesOf
<1>10. kept'[p] = ls /\ \A q \in Pid \ {p} : kept'[q] = kept[q]
  BY <1>3, <1>7 DEF KeptTypes
<1>11. KeptTypes(kept')
  <2>1. kept' = [q \in Pid |-> kept'[q]] BY <1>3, <1>7 DEF KeptTypes
  <2>2. ASSUME NEW q \in Pid
        PROVE  /\ kept'[q] = [table \in Table |-> kept'[q][table]]
               /\ \A table \in Table : Bagged(kept'[q][table])
    <3>1. CASE q = p BY <3>1, <1>9, <1>10
    <3>2. CASE q # p
      <4>1. kept[q] = [table \in Table |-> kept[q][table]] BY <1>3 DEF KeptTypes
      <4> QED BY <3>2, <4>1, <1>3, <1>10 DEF KeptTypes
    <3> QED BY <3>1, <3>2
  <2> QED BY <2>1, <2>2 DEF KeptTypes
<1> DEFINE s == [server[p] EXCEPT !.todo = Tail(todo)]
<1>12. server' = [server EXCEPT ![p] = s]
  BY <1>2 DEF FlushFails, NodeTypes, Servers
<1>13. s \in Servers
  <2>1. Tail(todo) \in Seq(Command) BY <1>1, <1>2
  <2> QED BY <2>1, <1>3 DEF Servers
<1>14. UNCHANGED <<tables, pidFile, script, stopping, stopped, untouched, stopHistory>>
  BY DEF FlushFails
<1>15. ASSUME p \in untouched PROVE Undisturbed(s, ls, tables)
  <2>1. Undisturbed(server[p], kept[p], tables) BY <1>15 DEF DeployInv
  <2>2. PICK ifs \in Seq(Interface) : ifs = server[p].interfaces BY <1>3 DEF Servers
  <2>3. OnTheWay(todo, ifs, kept[p], tables)
    BY <2>1, <2>2, <1>1, <1>2 DEF Undisturbed, Deploying
  <2>4. todo # << >> BY <1>1, <1>2
  <2>5. OnTheWay(Tail(todo), ifs, ls, tables)
    BY <2>3, <2>4, <1>3, <1>4, <1>5, <1>6, <1>8, DeploymentGoesOn
  <2>6. s.todo = Tail(todo) /\ s.phase = "deploying" /\ s.interfaces = ifs
    BY <2>2, <1>1, <1>3 DEF Servers, Deploying
  <2> HIDE DEF s
  <2> QED BY <2>5, <2>6 DEF Undisturbed
<1>16. Running(p) BY <1>1 DEF Running, Deploying
<1> HIDE DEF s
<1> QED BY <1>3, <1>10, <1>11, <1>12, <1>13, <1>14, <1>15, <1>16, ServerStep

\* A server's step from a record to the record s that disturbs nobody.
LEMMA QuietServerStep ==
  ASSUME NodeInv, NEW p \in Pid, Running(p),
         NEW s \in Servers, server' = [server EXCEPT ![p] = s],
         Undisturbed(server[p], kept[p], tables) => Undisturbed(s, kept[p], tables),
         UNCHANGED <<tables, pidFile, script, stopping, stopped, history>>
  PROVE  NodeInv'
<1> USE DEF history, deployHistory
<1>1. TablesOf(tables') /\ KeptTypes(kept') BY DEF NodeInv, NodeTypes
<1>2. p \in untouched' => Undisturbed(s, kept'[p], tables') BY DEF NodeInv, DeployInv
<1> QED BY <1>1, <1>2, ServerStep

LEMMA DeployEndsPreserves ==
  ASSUME NodeInv, NEW p \in Pid, DeployEnds(p)
  PROVE  NodeInv'
<1> USE DEF NodeInv
<1>1. Deploying(p) /\ server[p].todo = << >> BY DEF DeployEnds
<1>2. server[p] \in Servers BY DEF NodeTypes
<1> DEFINE s == [server[p] EXCEPT !.phase = "deployed"]
<1>3. s \in Servers /\ s.phase = "deployed" /\ s.interfaces = server[p].interfaces
  BY <1>2 DEF Servers
<1>4. server' = [server EXCEPT ![p] = s] BY DEF DeployEnds
<1>5. ASSUME Undisturbed(server[p], kept[p], tables) PROVE Undisturbed(s, kept[p], tables)
  <2>1. OnTheWay(<< >>, server[p].interfaces, kept[p], tables)
    BY <1>1, <1>5 DEF Undisturbed, Deploying
  <2>2. TablesOf(tables) BY DEF NodeTypes
  <2>3. server[p].interfaces \in Seq(Interface) BY <1>2 DEF Servers
  <2>4. tables = Outcome(server[p].interfaces, kept[p]) BY <2>1, <2>2, <2>3, DeploymentIsDone
  <2> HIDE DEF s
  <2> QED BY <2>4, <1>3 DEF Undisturbed
<1>6. UNCHANGED <<tables, pidFile, script, stopping, stopped, history>>
  BY DEF DeployEnds, commands
<1>7. Running(p) BY <1>1 DEF Running, Deploying
<1> HIDE DEF s
<1> QED BY <1>3, <1>4, <1>5, <1>6, <1>7, QuietServerStep

LEMMA BindPreserves ==
  ASSUME NodeInv, NEW p \in Pid, Bind(p)
  PROVE  NodeInv'
<1> USE DEF NodeInv
<1>1. server[p].phase \in {"deployed", "failed"} BY DEF Bind
<1>2. server[p] \in Servers BY DEF NodeTypes
<1> DEFINE t == [server[p] EXCEPT !.phase = "listening"]
<1>3. t \in Servers /\ t.phase = "listening" /\ t.interfaces = server[p].interfaces
  BY <1>2 DEF Servers
<1>4. server' = [server EXCEPT ![p] = Dead] \/ server' = [server EXCEPT ![p] = t]
  BY DEF Bind, NodeTypes
<1>5. UNCHANGED <<tables, pidFile, script, stopping, stopped, history>>
  BY DEF Bind, commands
<1>6. Running(p) BY <1>1 DEF Running
<1>7. ASSUME Undisturbed(server[p], kept[p], tables) PROVE Undisturbed(t, kept[p], tables)
  <2>1. tables = Outcome(server[p].interfaces, kept[p]) BY <1>1, <1>7 DEF Undisturbed
  <2> HIDE DEF t
  <2> QED BY <2>1, <1>3 DEF Undisturbed
<1> HIDE DEF t
<1>8. CASE server' = [server EXCEPT ![p] = Dead]
  BY <1>5, <1>6, <1>8, InitTypes, DeadIsUndisturbed, QuietServerStep
<1>9. CASE server' = [server EXCEPT ![p] = t]
  BY <1>3, <1>5, <1>6, <1>7, <1>9, QuietServerStep
<1> QED BY <1>4, <1>8, <1>9

LEMMA DiePreserves ==
  ASSUME NodeInv, NEW p \in Pid, Die(p)
  PROVE  NodeInv'
<1>1. Running(p) /\ server' = [server EXCEPT ![p] = Dead] BY DEF Die
<1>2. UNCHANGED <<tables, pidFile, script, stopping, stopped, history>>
  BY DEF Die
<1> QED BY <1>1, <1>2, InitTypes, DeadIsUndisturbed, QuietServerStep

------------------------------------------------------------------------------
(* Scripts, stop and reboot                                                  *)

\* A step that leaves the tables alone, and each server as it is or dead.
LEMMA KillingStep ==
  ASSUME NodeInv, NEW pids, server' = server \/ server' = Killed(pids),
         UNCHANGED <<tables, deployHistory>>, NodeTypes'
  PROVE  /\ DeployInv'
         /\ \A p \in Pid : Running(p)' => Running(p)
<1> USE DEF NodeInv, deployHistory
<1>1. \A p \in Pid : server'[p] = Dead \/ server'[p] = server[p]
  BY KilledTypes
<1>2. untouched \subseteq Pid BY DEF NodeTypes
<1>3. \A p \in untouched' : Undisturbed(server'[p], kept'[p], tables')
  BY <1>1, <1>2, DeadIsUndisturbed DEF DeployInv
<1>4. \A p \in Pid : Running(p)' => Running(p)
  BY <1>1 DEF Running, Dead
<1> QED BY <1>3, <1>4 DEF DeployInv

LEMMA StartScriptPreserves ==
  ASSUME NodeInv, StartScript
  PROVE  NodeInv'
<1> USE DEF NodeInv
<1>1. script' \in Seq(Command) BY ScriptTypes DEF StartScript
<1>2. UNCHANGED <<tables, server, pidFile, stopping, stopped, history>>
  BY DEF StartScript
<1> USE DEF history, deployHistory, stopHistory
<1>3. NodeTypes' BY <1>1, <1>2 DEF NodeTypes
<1>4. DeployInv' BY <1>2 DEF DeployInv
<1>5. StopInv' BY <1>2 DEF StopInv, Running
<1> QED BY <1>3, <1>4, <1>5

LEMMA ScriptCommandPreserves ==
  ASSUME NodeInv, ScriptCommand
  PROVE  NodeInv'
<1> USE DEF NodeInv
<1>1. script \in Seq(Command) /\ script # << >> BY DEF ScriptCommand, NodeTypes, Idle
<1>2. PICK cmd \in Command : cmd = Head(script) BY <1>1
<1>3. Tail(script) \in Seq(Command) BY <1>1
<1>4. Touch(NoPid, cmd) /\ script' = Tail(script) BY <1>2 DEF ScriptCommand
<1>5. UNCHANGED <<server, pidFile, stopping, stopped, kept, stopHistory>> BY DEF ScriptCommand
<1>6. /\ TablesOf(tables') /\ untouched' \subseteq untouched
      /\ \A q \in untouched' : q = NoPid \/ tables' = tables
  BY <1>4, TouchTypes
<1>7. NodeTypes' BY <1>3, <1>4, <1>5, <1>6 DEF NodeTypes, stopHistory
<1>8. \A q \in untouched' : q \in untouched /\ tables' = tables
  BY <1>6, NodeAssumption DEF NodeTypes
<1>9. DeployInv' BY <1>5, <1>8 DEF DeployInv
<1>10. StopInv' BY <1>5 DEF StopInv, Running, stopHistory
<1> QED BY <1>7, <1>9, <1>10

\* The states of `stop` are different ones.
LEMMA StopStates ==
  /\ <<"/tmp", "/var/run", "end">> \notin {Idle, <<"/var/run", "end">>, <<"end">>, <<"done">>}
  /\ <<"/var/run", "end">> \notin {Idle, <<"end">>, <<"done">>}
  /\ <<"end">> \notin {Idle, <<"done">>}
  /\ <<"done">> # Idle
BY DEF Idle

LEMMA StartStopPreserves ==
  ASSUME NodeInv, StartStop
  PROVE  NodeInv'
<1> USE DEF NodeInv, history, deployHistory, stopHistory
<1>1. stopping = Idle /\ stopping' = <<"/tmp", "/var/run", "end">>
  BY DEF StartStop
<1>2. UNCHANGED <<tables, server, pidFile, script, stopped, history>>
  BY DEF StartStop
<1>3. NodeTypes' BY <1>1, <1>2 DEF NodeTypes
<1>4. DeployInv' BY <1>2 DEF DeployInv
<1>5. StopInv' BY <1>1, <1>2, StopStates DEF StopInv, Running
<1> QED BY <1>3, <1>4, <1>5

LEMMA StopByFilePreserves ==
  ASSUME NodeInv, StopByFile
  PROVE  NodeInv'
<1> USE DEF NodeInv
<1>1. PICK path \in Path : path = Head(stopping) BY DEF StopByFile
<1>2. PICK pid \in Pid \cup {NoPid} : pid = pidFile[path] BY DEF NodeTypes
<1>3. PICK survivors \in SUBSET {p \in Pid : Running(p)}, removed \in BOOLEAN :
        /\ survivors \subseteq {pid}
        /\ Kill({pid}, survivors)
        /\ stopped' = (stopped \/ pid # NoPid)
        /\ pidFile' = IF removed THEN [pidFile EXCEPT ![path] = NoPid] ELSE pidFile
  BY <1>1, <1>2 DEF StopByFile
<1>4. PICK gone : gone = {pid} \ survivors OBVIOUS
<1>5. server' = Killed(gone) /\ spared' = (spared \/ survivors # {})
  BY <1>3, <1>4 DEF Kill
<1>6. stopping' = Tail(stopping) BY DEF StopByFile
<1>7. UNCHANGED <<tables, script, deployHistory, alone, unnamed>> BY DEF StopByFile
<1>8. \/ stopping = <<"/tmp", "/var/run", "end">> /\ path = "/tmp"
         /\ stopping' = <<"/var/run", "end">>
      \/ stopping = <<"/var/run", "end">> /\ path = "/var/run" /\ stopping' = <<"end">>
  <2>1. stopping \in {<<"/tmp", "/var/run", "end">>, <<"/var/run", "end">>}
    BY <1>1 DEF StopByFile, NodeTypes, Path, Idle
  <2>2. /\ Head(<<"/tmp", "/var/run", "end">>) = "/tmp"
        /\ Tail(<<"/tmp", "/var/run", "end">>) = <<"/var/run", "end">> OBVIOUS
  <2>3. Head(<<"/var/run", "end">>) = "/var/run" /\ Tail(<<"/var/run", "end">>) = <<"end">>
    OBVIOUS
  <2> QED BY <2>1, <2>2, <2>3, <1>1, <1>6
<1>9. server' \in [Pid -> Servers] BY <1>5, KilledTypes
<1>10. /\ pidFile' \in [Path -> Pid \cup {NoPid}]
       /\ \A other \in Path \ {path} : pidFile'[other] = pidFile[other]
  BY <1>3 DEF NodeTypes
<1>11. stopped' \in BOOLEAN /\ spared' \in BOOLEAN BY <1>3, <1>5
<1>12. NodeTypes' BY <1>7, <1>8, <1>9, <1>10, <1>11 DEF NodeTypes, deployHistory
<1>13. DeployInv' /\ \A p \in Pid : Running(p)' => Running(p)
  BY <1>5, <1>7, <1>12, KillingStep
<1>14. ASSUME alone', ~spared', NEW p \in Pid, Running(p)', ~unnamed'
       PROVE  stopping' = <<"/var/run", "end">> /\ pidFile'["/var/run"] = p
  <2>1. Running(p) /\ alone /\ ~spared /\ ~unnamed BY <1>5, <1>7, <1>13, <1>14
  <2>2. survivors = {} BY <1>5, <1>14
  <2>3. p # pid
    <3>1. SUFFICES ASSUME p = pid PROVE FALSE OBVIOUS
    <3>2. p \in gone BY <2>2, <3>1, <1>4
    <3>3. server'[p] = Dead BY <2>1, <3>2, <1>5, KilledTypes
    <3> QED BY <3>3, <1>14 DEF Running, Dead
  <2>4. pidFile[path] # p BY <2>3, <1>2
  <2>5. CASE stopping = <<"/tmp", "/var/run", "end">> /\ path = "/tmp"
    <3>1. PICK other \in Path : pidFile[other] = p BY <2>1, <2>5 DEF StopInv
    <3>2. other = "/var/run" BY <3>1, <2>4, <2>5 DEF Path
    <3>3. pidFile'["/var/run"] = p BY <3>1, <3>2, <2>5, <1>10
    <3>4. stopping' = <<"/var/run", "end">> BY <2>5, <1>8, StopStates
    <3> QED BY <3>3, <3>4
  <2>6. CASE stopping = <<"/var/run", "end">> /\ path = "/var/run"
    BY <2>1, <2>4, <2>6 DEF StopInv
  <2> QED BY <2>5, <2>6, <1>8
<1>15. StopInv' BY <1>8, <1>14, StopStates DEF StopInv
<1> QED BY <1>12, <1>13, <1>15

LEMMA StopEndsPreserves ==
  ASSUME NodeInv, StopEnds
  PROVE  NodeInv'
<1> USE DEF NodeInv
<1>1. stopping = <<"end">> /\ stopping' = <<"done">> BY DEF StopEnds
<1>2. PICK survivors \in SUBSET {p \in Pid : Running(p)} :
        /\ survivors # {} => ~stopped
        /\ Kill(IF stopped THEN {} ELSE Pid, survivors)
  BY DEF StopEnds
<1>3. PICK gone : gone = (IF stopped THEN {} ELSE Pid) \ survivors OBVIOUS
<1>4. server' = Killed(gone) /\ spared' = (spared \/ survivors # {})
  BY <1>2, <1>3 DEF Kill
<1>5. UNCHANGED <<tables, pidFile, script, stopped, deployHistory, alone, unnamed>>
  BY DEF StopEnds
<1>6. server' \in [Pid -> Servers] BY <1>4, KilledTypes
<1>7. NodeTypes' BY <1>1, <1>4, <1>5, <1>6 DEF NodeTypes, deployHistory
<1>8. DeployInv' /\ \A p \in Pid : Running(p)' => Running(p)
  BY <1>4, <1>5, <1>7, KillingStep
<1>9. ASSUME alone', ~spared', NEW p \in Pid, Running(p)'
      PROVE  unnamed' /\ stopped'
  <2>1. Running(p) /\ alone /\ ~spared /\ survivors = {} BY <1>4, <1>5, <1>8, <1>9
  <2>2. unnamed BY <2>1, <1>1 DEF StopInv
  <2>3. stopped
    <3>1. SUFFICES ASSUME ~stopped PROVE FALSE OBVIOUS
    <3>2. p \in gone BY <2>1, <3>1, <1>3
    <3>3. server'[p] = Dead BY <2>1, <3>2, <1>4, KilledTypes
    <3> QED BY <3>3, <1>9 DEF Running, Dead
  <2> QED BY <2>2, <2>3, <1>5
<1>10. StopInv' BY <1>1, <1>9, StopStates DEF StopInv
<1> QED BY <1>7, <1>8, <1>10

LEMMA StopReturnsPreserves ==
  ASSUME NodeInv, StopReturns
  PROVE  NodeInv'
<1> USE DEF NodeInv, history, deployHistory, stopHistory
<1>1. stopping = <<"done">> /\ stopping' = Idle /\ stopped' = FALSE BY DEF StopReturns
<1>2. UNCHANGED <<tables, server, pidFile, script, history>>
  BY DEF StopReturns
<1>3. NodeTypes' BY <1>1, <1>2 DEF NodeTypes
<1>4. DeployInv' BY <1>2 DEF DeployInv
<1>5. alone /\ ~spared => \A p \in Pid : Running(p) => unnamed
  BY <1>1 DEF StopInv
<1>6. StopInv' BY <1>1, <1>2, <1>5, StopStates DEF StopInv, Running
<1> QED BY <1>3, <1>4, <1>6

LEMMA RebootPreserves ==
  ASSUME NodeInv, Reboot
  PROVE  NodeInv'
<1> USE DEF NodeInv
<1>1. tables' = NoTables /\ server' = Killed(Pid) /\ script' = Idle /\ stopping' = Idle
  BY DEF Reboot
<1>2. /\ pidFile' = [path \in Path |-> NoPid] /\ untouched' = {} /\ kept' = kept
      /\ alone' = TRUE /\ unnamed' = FALSE /\ spared' = FALSE /\ stopped' = FALSE
  BY DEF Reboot
<1>3. server' \in [Pid -> Servers] BY <1>1, KilledTypes
<1>4. script' \in Seq(Command) BY <1>1 DEF Idle
<1>5. NodeTypes' BY <1>1, <1>2, <1>3, <1>4, InitTypes DEF NodeTypes
<1>6. DeployInv' BY <1>2 DEF DeployInv
<1>7. \A p \in Pid : ~Running(p)'
  <2> TAKE p \in Pid
  <2>1. server'[p] = Dead \/ (server'[p] = server[p] /\ ~Running(p)) BY <1>1, KilledTypes
  <2> QED BY <2>1 DEF Running, Dead
<1>8. StopInv' BY <1>7 DEF StopInv
<1> QED BY <1>5, <1>6, <1>8

------------------------------------------------------------------------------
(* The theorems                                                              *)

LEMMA NodeNext ==
  ASSUME NodeInv, [Next]_vars
  PROVE  NodeInv'
<1>1. ASSUME NEW p \in Pid, Server(p) PROVE NodeInv'
  BY <1>1, ServePreserves, DeployCommandPreserves, DeployFailsPreserves,
     FlushFailsPreserves, DeployEndsPreserves, BindPreserves, DiePreserves DEF Server
<1>2. ASSUME Administrator PROVE NodeInv'
  BY <1>2, StartScriptPreserves, ScriptCommandPreserves, StartStopPreserves,
     StopByFilePreserves, StopEndsPreserves, StopReturnsPreserves DEF Administrator
<1>3. ASSUME UNCHANGED vars PROVE NodeInv'
  BY <1>3 DEF NodeInv, NodeTypes, DeployInv, StopInv, Running, vars, commands, history,
     deployHistory, stopHistory
<1> QED BY <1>1, <1>2, <1>3, RebootPreserves DEF Next

\* Whatever servers, scripts, stops, crashes, reboots and failures of nft, kill and the
\* pid files do to each other on a router, its tables, processes and pid files have
\* their types, a deployment that has been left alone is exactly as far as the commands
\* it has run, upon what its failed flushes have left, and a server that was started
\* alone has its pid in a file that `stop` has yet to look at, but for a failed kill
\* and a server that could write neither file (deploy_with_interfaces, main.rs:53-79).
THEOREM NodeInvariance == Spec => []NodeInv
<1>1. Init => NodeInv BY NodeInit
<1>2. NodeInv /\ [Next]_vars => NodeInv' BY NodeNext
<1> QED BY <1>1, <1>2, PTL DEF Spec

\* The types of the router's state, and no rule without its chain (deploy_with_interfaces
\* and the scripts, `serve` and `stop` with their pid files).
THEOREM NodeHasTypes == Spec => []TypeOK
<1>1. NodeInv => TypeOK
  BY DEF NodeInv, NodeTypes, TablesOf, Servers, TypeOK
<1> QED BY <1>1, NodeInvariance, PTL

\* A deployment that reports success and was left alone has made exactly the rules of
\* its configuration, whatever the tables held when it started and whatever became of
\* the starts, scripts and boots before it; and where a flush failed, which it does not
\* report, those rules and every rule that was there (nft.rs:42-78).
THEOREM DeploysExactly == Spec => []DeploymentIsExact
<1>1. NodeInv => DeploymentIsExact
  BY DEF NodeInv, DeployInv, Undisturbed, DeploymentIsExact, Finished
<1> QED BY <1>1, NodeInvariance, PTL

\* A deployment left alone comes to its redirection only when its filter with its drop
\* policy is complete (nft.rs:42-76).
THEOREM FilterComesFirst == Spec => []FilterBeforeRedirect
<1>1. ASSUME NodeInv, NEW p \in untouched, Deploying(p), server[p].todo # << >>,
             Head(server[p].todo).table = "nat"
      PROVE  tables["pre"] = Outcome(server[p].interfaces, kept[p])["pre"]
  <2>1. TablesOf(tables) /\ server[p] \in Servers BY <1>1 DEF NodeInv, NodeTypes
  <2>2. server[p].todo \in Seq(Command) /\ server[p].interfaces \in Seq(Interface)
    BY <2>1 DEF Servers
  <2>3. OnTheWay(server[p].todo, server[p].interfaces, kept[p], tables)
    BY <1>1 DEF NodeInv, DeployInv, Undisturbed, Deploying
  <2> QED BY <1>1, <2>1, <2>2, <2>3, FilterIsFirst
<1>2. NodeInv => FilterBeforeRedirect BY <1>1 DEF FilterBeforeRedirect
<1> QED BY <1>2, NodeInvariance, PTL

\* When `stop` has returned no server is up, if the last one was started alone, but for
\* a kill that failed since and for a server that could write neither pid file when
\* another pid was found: whatever earlier boots, crashes and failed writes have left
\* in the files (main.rs:53-79).
THEOREM StopStopsTheServer == Spec => []StopFindsTheServer
<1>1. NodeInv => StopFindsTheServer
  BY StopStates DEF NodeInv, StopInv, StopFindsTheServer
<1> QED BY <1>1, NodeInvariance, PTL
==============================================================================
