--------------------------------- MODULE Node ---------------------------------
(***************************************************************************)
(* One router: the processes of `policy-gateway serve`, the two pid files, *)
(* the nftables rules in the kernel, and whoever works on them: a server   *)
(* that deploys at its start, a script that sets up or tears down, the     *)
(* init script's stop, and `policy-gateway stop`.  Nothing locks them out  *)
(* from each other: each nft command, each kill and each file operation of *)
(* `stop` is a step of its own.  A reboot empties the kernel and /tmp.     *)
(***************************************************************************)
EXTENDS NftTables, FiniteSets

CONSTANTS
  Pid,       \* processes; bound: so many run at once, the pid of a dead one is free again
  NoPid,     \* what is in a pid file that is not there; also who is no server
  Interface, \* network interfaces
  Configs,   \* values of monitor_interfaces
  Budgets    \* bounds: how often what may happen to a router happens, in each case

ASSUME NodeAssumption ==
  /\ NoPid \notin Pid
  /\ Configs \subseteq Seq(Interface)

VARIABLES
  tables,     \* the tables in the kernel
  server,     \* what each process has left to do
  pidFile,    \* the pid in each file, NoPid when there is none
  script,     \* commands the running script has left
  stopping,   \* the files `stop` has still to look at; it may be idle
  stopped,    \* `stop`: whether a file had a pid
  count,      \* how often each kind of thing has happened
  untouched,  \* history: servers whose deployment has not failed and since whose start
              \* nobody else has changed the tables
  kept,       \* history: the rules each server's flushes have failed to remove
  alone,      \* history: the last server was started when no other was up and no
              \* `stop` under way
  unnamed,    \* history: the last server could write neither of its pid files
  spared      \* history: since the last server was started, a kill has failed

Path == {"/tmp", "/var/run"}

commands == <<script, stopping, stopped, count>>
deployHistory == <<untouched, kept>>
stopHistory   == <<alone, unnamed, spared>>
history  == <<deployHistory, stopHistory>>
vars     == <<tables, server, pidFile, commands, history>>

\* A process is deploying what is in todo, then deployed, or failed to, and about to
\* bind; then listening, or dead: no process has that pid.
Dead == [phase |-> "dead", todo |-> << >>, interfaces |-> << >>]

Running(p)   == server[p].phase \in {"deploying", "deployed", "failed", "listening"}
Deploying(p) == server[p].phase = "deploying"
Finished(p)  == server[p].phase \in {"deployed", "listening"}

Idle == << >>

\* A script; a failure of nft; a `stop`; a crash or a reboot; a failure of kill or of
\* writing or removing a pid file.
Kind == {"script", "nft", "stop", "crash", "pid"}

Counted(kind) ==
  /\ count' = [count EXCEPT ![kind] = @ + 1]
  /\ \E budget \in Budgets : \A k \in Kind : count'[k] <= budget[k]

CountedIf(happens, kind) == IF happens THEN Counted(kind) ELSE UNCHANGED count

------------------------------------------------------------------------------
(* serve *)

\* Mutant: a pid file that is there is left alone.
WritePidFilesOnce(p, written) ==
  pidFile' = [path \in Path |->
                IF path \in written /\ pidFile[path] = NoPid THEN p ELSE pidFile[path]]

\* Whether a file could be written is not looked at: one that cannot be opened stays
\* as it is, one that is opened and not written has no pid.
WritePidFiles(p, written) ==
  \E emptied \in SUBSET (Path \ written) :
    pidFile' = [path \in Path |->
                  IF path \in written THEN p
                  ELSE IF path \in emptied THEN NoPid ELSE pidFile[path]]

Serve(p) ==
  \E interfaces \in Configs, written \in SUBSET Path :
    /\ ~Running(p)
    /\ WritePidFiles(p, written)
    /\ CountedIf(written # Path, "pid")
    /\ server' = [server EXCEPT ![p] =
         [phase |-> "deploying", todo |-> DeploySteps(interfaces), interfaces |-> interfaces]]
    /\ untouched' = untouched \cup {p}
    /\ kept' = [kept EXCEPT ![p] = NoRules]
    /\ alone' = (stopping = Idle /\ \A q \in Pid : ~Running(q))
    /\ unnamed' = (written = {})
    /\ spared' = FALSE
    /\ UNCHANGED <<tables, script, stopping, stopped>>

\* Whoever changes the tables disturbs every server but itself.
Touch(who, cmd) ==
  /\ tables' = Execute(tables, cmd)
  /\ untouched' = IF tables' = tables THEN untouched ELSE untouched \cap {who}

\* Goes on to the next command; with an error, out of deploy and on to bind.
DeployCommand(p) ==
  /\ Deploying(p)
  /\ server[p].todo # << >>
  /\ LET cmd == Head(server[p].todo)
         ok  == Possible(tables, cmd) \/ cmd.do = "flush"
     IN  /\ Touch(p, cmd)
         /\ server' = [server EXCEPT
              ![p].todo  = IF ok THEN Tail(@) ELSE << >>,
              ![p].phase = IF ok THEN @ ELSE "failed"]
  /\ UNCHANGED <<pidFile, commands, kept, stopHistory>>

\* nft cannot be run, or fails: deploy returns the error.
DeployFails(p) ==
  /\ Deploying(p)
  /\ server[p].todo # << >>
  /\ Head(server[p].todo).do # "flush"
  /\ Counted("nft")
  /\ server' = [server EXCEPT ![p].todo = << >>, ![p].phase = "failed"]
  /\ untouched' = untouched \ {p}
  /\ UNCHANGED <<tables, pidFile, script, stopping, stopped, kept, stopHistory>>

\* The two flushes are the commands whose result is not looked at: when one fails,
\* the deployment goes on, upon the rules that are there.
FlushFails(p) ==
  /\ Deploying(p)
  /\ server[p].todo # << >>
  /\ LET cmd == Head(server[p].todo)
     IN  /\ cmd.do = "flush"
         /\ kept' = [kept EXCEPT ![p][cmd.table] = tables[cmd.table].rules]
  /\ Counted("nft")
  /\ server' = [server EXCEPT ![p].todo = Tail(@)]
  /\ UNCHANGED <<tables, pidFile, script, stopping, stopped, untouched, stopHistory>>

DeployEnds(p) ==
  /\ Deploying(p)
  /\ server[p].todo = << >>
  /\ server' = [server EXCEPT ![p].phase = "deployed"]
  /\ UNCHANGED <<tables, pidFile, commands, history>>

\* The port is bound after the rules are deployed, successfully or not; a server
\* that finds it taken ends.
Bind(p) ==
  /\ server[p].phase \in {"deployed", "failed"}
  /\ server' = [server EXCEPT ![p] =
       IF \E q \in Pid : server[q].phase = "listening" THEN Dead
       ELSE [@ EXCEPT !.phase = "listening"]]
  /\ UNCHANGED <<tables, pidFile, commands, history>>

Die(p) ==
  /\ Running(p)
  /\ Counted("crash")
  /\ server' = [server EXCEPT ![p] = Dead]
  /\ UNCHANGED <<tables, pidFile, script, stopping, stopped, history>>

------------------------------------------------------------------------------
(* Scripts *)

StartScript ==
  \E steps \in {SetupSteps, TeardownSteps} :
    /\ script = Idle
    /\ script' = steps
    /\ Counted("script")
    /\ UNCHANGED <<tables, server, pidFile, stopping, stopped, history>>

\* Every command of a script ends in "|| true".
ScriptCommand ==
  /\ script # Idle
  /\ Touch(NoPid, Head(script))
  /\ script' = Tail(script)
  /\ UNCHANGED <<server, pidFile, stopping, stopped, count, kept, stopHistory>>

------------------------------------------------------------------------------
(* policy-gateway stop *)

StartStop ==
  /\ stopping = Idle
  /\ Counted("stop")
  /\ stopping' = <<"/tmp", "/var/run", "end">>
  /\ UNCHANGED <<tables, server, pidFile, script, stopped, history>>

\* The processes are gone, those of them that ran.
Killed(pids) ==
  [p \in Pid |-> IF p \in pids /\ Running(p) THEN Dead ELSE server[p]]

\* kill -9 a second after kill -15, or killall: whether they can be run and what they
\* return is not looked at.
Kill(pids, survivors) ==
  /\ server' = Killed(pids \ survivors)
  /\ spared' = (spared \/ survivors # {})

\* Neither is it looked at whether the file could be removed.
StopByFile ==
  \E survivors \in SUBSET {p \in Pid : Running(p)}, removed \in BOOLEAN :
    /\ stopping # Idle
    /\ Head(stopping) \in Path
    /\ LET pid == pidFile[Head(stopping)]
       IN  /\ survivors \subseteq {pid}
           /\ removed \/ pid # NoPid
           /\ Kill({pid}, survivors)
           /\ stopped' = (stopped \/ pid # NoPid)
    /\ pidFile' = IF removed THEN [pidFile EXCEPT ![Head(stopping)] = NoPid] ELSE pidFile
    /\ CountedIf(survivors # {} \/ ~removed, "pid")
    /\ stopping' = Tail(stopping)
    /\ UNCHANGED <<tables, script, deployHistory, alone, unnamed>>

\* killall, when no file had a pid.
StopEnds ==
  \E survivors \in SUBSET {p \in Pid : Running(p)} :
    /\ stopping = <<"end">>
    /\ survivors # {} => ~stopped
    /\ Kill(IF stopped THEN {} ELSE Pid, survivors)
    /\ CountedIf(survivors # {}, "pid")
    /\ stopping' = <<"done">>
    /\ UNCHANGED <<tables, pidFile, script, stopped, deployHistory, alone, unnamed>>

StopReturns ==
  /\ stopping = <<"done">>
  /\ stopping' = Idle
  /\ stopped' = FALSE
  /\ UNCHANGED <<tables, server, pidFile, script, count, history>>

------------------------------------------------------------------------------

Reboot ==
  /\ Counted("crash")
  /\ tables' = NoTables
  /\ server' = Killed(Pid)
  /\ pidFile' = [path \in Path |-> NoPid]
  /\ script' = Idle
  /\ stopping' = Idle
  /\ untouched' = {}
  /\ alone' = TRUE
  /\ unnamed' = FALSE
  /\ spared' = FALSE
  /\ stopped' = FALSE
  /\ UNCHANGED kept

Init ==
  /\ tables = NoTables
  /\ server = [p \in Pid |-> Dead]
  /\ pidFile = [path \in Path |-> NoPid]
  /\ script = Idle
  /\ stopping = Idle
  /\ stopped = FALSE
  /\ count = [kind \in Kind |-> 0]
  /\ untouched = {}
  /\ kept = [p \in Pid |-> NoRules]
  /\ alone = TRUE
  /\ unnamed = FALSE
  /\ spared = FALSE

Server(p) ==
  \/ Serve(p) \/ DeployCommand(p) \/ DeployFails(p) \/ FlushFails(p)
  \/ DeployEnds(p) \/ Bind(p) \/ Die(p)

Administrator ==
  StartScript \/ ScriptCommand \/ StartStop \/ StopByFile \/ StopEnds \/ StopReturns

Next == (\E p \in Pid : Server(p)) \/ Administrator \/ Reboot

Spec == Init /\ [][Next]_vars

------------------------------------------------------------------------------
(* Properties *)

\* Every variable has its type, and a table has no rule without its chain and
\* nothing without itself.
TypeOK ==
  /\ \A table \in Table :
       /\ tables[table].rules # EmptyBag => "chain" \in tables[table].objects
       /\ tables[table].objects # {} => "table" \in tables[table].objects
  /\ \A p \in Pid : server[p].phase \in
       {"deploying", "deployed", "failed", "listening", "dead"}
  /\ pidFile \in [Path -> Pid \cup {NoPid}]
  /\ stopped \in BOOLEAN
  /\ untouched \subseteq Pid

\* What a deployment comes to: the rules of its configuration, and those that were
\* left because its flushes have failed.
Outcome(interfaces, left) ==
  [table \in Table |->
     [objects |-> Deployed(interfaces)[table].objects,
      rules   |-> left[table] (+) Deployed(interfaces)[table].rules]]

\* Whatever an earlier start, a crash in the middle of one, a script or a reboot has
\* left, a deployment that reports success and was left alone has made exactly the
\* rules of its configuration, and none is there twice that is not there twice:
\* except that a table whose flush failed, which is no reason for it not to report
\* success, still has every rule that was in it.
DeploymentIsExact ==
  \A p \in untouched : Finished(p) => tables = Outcome(server[p].interfaces, kept[p])

\* A deployment that is left alone does not touch its redirection before its filter
\* with its drop policy is complete.  What an earlier start has left in the other
\* table is in force meanwhile.
FilterBeforeRedirect ==
  \A p \in untouched :
    Deploying(p) /\ server[p].todo # << >> /\ Head(server[p].todo).table = "nat" =>
      tables["pre"] = Outcome(server[p].interfaces, kept[p])["pre"]

\* When `stop` has returned, and reported success as it always does, no server is up,
\* if the last one was started alone: neither a stale pid of an earlier boot or
\* crash, nor one file that could not be written, misleads it.  Two things do, and no
\* third: a kill that failed, and a server that could write neither file while one of
\* them has another pid.  A server started beside another has put its own pid into
\* the files.
StopFindsTheServer ==
  stopping = <<"done">> /\ alone =>
    \A p \in Pid : Running(p) => spared \/ (unnamed /\ stopped)
==============================================================================
