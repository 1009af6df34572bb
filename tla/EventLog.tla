------------------------------- MODULE EventLog -------------------------------
(***************************************************************************)
(* The append-only event log: push, the replay of one certificate's        *)
(* events, and the merge of another replica's events.  Operators and       *)
(* device ids are left out; the timestamp of an event is written but no    *)
(* operation of the log reads it.                                          *)
(***************************************************************************)
EXTENDS Integers, Sequences, FiniteSets, FiniteSetsExt

EmptyLog == [events |-> << >>, nextSeq |-> 0]

\* EventKind.  Only the first three are ever pushed by the program.
EventKind == {"Submitted", "Approved", "Rejected", "Confirmed", "Revoked",
              "Restored", "PermissionChanged"}

Push(log, cert, kind, bitmap) ==
  [events  |-> Append(log.events, [seq |-> log.nextSeq, cert |-> cert,
                                   kind |-> kind, bitmap |-> bitmap]),
   nextSeq |-> log.nextSeq + 1]

\* The state each kind of event leaves a certificate in.
StateAfter(kind) ==
  CASE kind = "Submitted" -> "Pending"
    [] kind = "Rejected"  -> "Rejected"
    [] kind = "Revoked"   -> "Compromised"
    [] OTHER              -> "Active"

\* The last event about a certificate decides its replayed state, and the
\* last event that carries a bitmap its replayed bitmap.
EventsOf(log, cert) == {i \in DOMAIN log.events : log.events[i].cert = cert}

CurrentState(log, cert) ==
  IF EventsOf(log, cert) = {} THEN "Unknown"
  ELSE StateAfter(log.events[Max(EventsOf(log, cert))].kind)

GrantsOf(log, cert) ==
  {i \in EventsOf(log, cert) :
     log.events[i].kind \in {"Approved", "PermissionChanged"}}

CurrentBitmap(log, cert) ==
  IF GrantsOf(log, cert) = {} THEN {}
  ELSE log.events[Max(GrantsOf(log, cert))].bitmap
==============================================================================
