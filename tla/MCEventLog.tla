----------------------------- MODULE MCEventLog ------------------------------
(***************************************************************************)
(* What is made of the decisions beside the permission table: the stream   *)
(* of approvals, the merge of event logs and the conflict rules of the     *)
(* synchronisation.  The three share no state, so in one behaviour one of  *)
(* them moves.                                                             *)
(***************************************************************************)
EXTENDS EventLogSync, SyncConflict, EventStream, TLC

CONSTANTS router, mirror, c1, r1, r2, r3, r4, h1, h2, s1

Symmetric == Permutations({router, mirror}) \cup Permutations(Request) \cup Permutations(Admin)

Init == LogSyncInit /\ ConflictInit /\ StreamInit

ConflictUnmoved == arrived = {} /\ entry = NoEntry

Next ==
  \/ /\ LogSyncNext /\ ConflictUnmoved /\ StreamInit
     /\ UNCHANGED <<conflictVars, streamVars>>
  \/ /\ ConflictNext /\ LogSyncInit /\ StreamInit
     /\ UNCHANGED <<logVars, streamVars>>
  \/ /\ StreamNext /\ LogSyncInit /\ ConflictUnmoved
     /\ UNCHANGED <<logVars, conflictVars>>

Spec == Init /\ [][Next]_<<logVars, conflictVars, streamVars>>

==============================================================================
