----------------------------- MODULE SyncConflict -----------------------------
(***************************************************************************)
(* The conflict rules between the gateway and its remote version.  An      *)
(* event about a certificate is accepted or refused by looking at the      *)
(* entry there is; an accepted one sets the entry's status.  Events arrive *)
(* in any order and any number of times.  The rules have no caller yet.    *)
(***************************************************************************)
EXTENDS Integers, FiniteSets

VARIABLES
  entry,      \* the status of the entry, or NoEntry
  arrived     \* history: kinds of events that have arrived since the entry was new

conflictVars == <<entry, arrived>>

NoEntry == "none"

EntryStatus == {"pending", "pending_confirm", "active", "compromised", "rejected"}

SyncEvent == {"Signup", "Approve", "Reject", "Revoke", "Restore", "Heartbeat"}

\* Mutant: an approval is always accepted.
AcceptsAnyApproval(existing, event) ==
  CASE event = "Revoke"  -> existing # "compromised"
    [] event = "Restore" -> existing # "active"
    [] OTHER             -> TRUE

\* resolve_conflict
Accepts(existing, event) ==
  CASE event = "Revoke"  -> existing # "compromised"
    [] event = "Restore" -> existing # "active"
    [] event = "Approve" -> existing # "compromised"
    [] OTHER             -> TRUE

\* What an accepted event makes of the entry.
StatusFrom(existing, event) ==
  CASE event = "Signup"                 -> "pending"
    [] event \in {"Approve", "Restore"} -> "active"
    [] event = "Reject"                 -> "rejected"
    [] event = "Revoke"                 -> "compromised"
    [] OTHER                            -> existing

Applied(existing, event) ==
  IF Accepts(existing, event) THEN StatusFrom(existing, event) ELSE existing

Arrive(event) ==
  /\ entry' = Applied(entry, event)
  /\ arrived' = arrived \cup {event}

\* The table starts with the entry in some status, as a full state brought it.
ConflictInit == entry \in EntryStatus \cup {NoEntry} /\ arrived = {}
ConflictNext == \E event \in SyncEvent : Arrive(event)
ConflictSpec == ConflictInit /\ [][ConflictNext]_conflictVars

------------------------------------------------------------------------------
(* Properties *)

\* Among approvals and revocations the revocation wins in whatever order and
\* however often they arrive.  It does not win over a rejection or a signup,
\* which are always accepted and open the way for an approval.
RevocationWinsOverApproval ==
  "Revoke" \in arrived /\ arrived \subseteq {"Approve", "Revoke", "Heartbeat"} =>
    entry = "compromised"
==============================================================================
