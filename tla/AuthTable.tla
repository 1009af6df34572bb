------------------------------- MODULE AuthTable -------------------------------
(***************************************************************************)
(* The permission table: entries by certificate digest, and the map from   *)
(* the request ids that still wait for a decision to the digests they ask  *)
(* for.  Every operator is one method of AuthTable as a function from the  *)
(* table before the call to the table after it.  Host names, hardware ids  *)
(* and MAC addresses are left out: no rule of the table reads them.        *)
(***************************************************************************)
EXTENDS PermissionCatalog

CONSTANTS
  PendingRetention,  \* GC_RETAIN_PENDING_HOURS, in ticks of the clock
  DecidedRetention   \* GC_RETAIN_COMPROMISED_DAYS, in ticks of the clock

ASSUME RetentionAssumption ==
  /\ PendingRetention \in Nat
  /\ DecidedRetention \in Nat

Status == {"Active", "Pending", "PendingConfirm", "Compromised", "Rejected"}

\* The statuses an entry waits in, and those a decision leaves it in.
Waiting == {"Pending", "PendingConfirm"}
Decided == {"Active", "Rejected"}

Entry == [bitmap : Bitmap, requested : Bitmap, status : Status,
          createdAt : Nat, lastSeen : {"never", "seen"}]

EmptyTable == [entries |-> << >>, pending |-> << >>]

\* HashMap::insert and HashMap::remove.
Insert(f, k, v) == [x \in DOMAIN f \cup {k} |-> IF x = k THEN v ELSE f[x]]
Remove(f, K)    == [x \in DOMAIN f \ K |-> f[x]]

------------------------------------------------------------------------------
(* Queries *)

\* get_by_request_id finds a request only while its id is in the pending map.
FoundByRequestId(t, rid) ==
  rid \in DOMAIN t.pending /\ t.pending[rid] \in DOMAIN t.entries

------------------------------------------------------------------------------
(* Updates *)

AddPending(t, c, rid, requested, status, now) ==
  [pending |-> Insert(t.pending, rid, c),
   entries |-> Insert(t.entries, c,
                 [bitmap |-> {}, requested |-> requested, status |-> status,
                  createdAt |-> now, lastSeen |-> "never"])]

\* Mutant: the request id is looked up instead of removed.
LookUpPending(t, rid) == t

RemovePending(t, rid) == [t EXCEPT !.pending = Remove(@, {rid})]

\* The request id is used up first, then the entry it named is replaced if it
\* is still there.
Decide(t, rid, entry) ==
  IF FoundByRequestId(t, rid)
    THEN [RemovePending(t, rid) EXCEPT !.entries[t.pending[rid]] = entry]
    ELSE RemovePending(t, rid)

Requested(t, rid) == t.entries[t.pending[rid]]

Approve(t, rid, bitmap) ==
  Decide(t, rid, [Requested(t, rid) EXCEPT !.bitmap = bitmap,
                                           !.status = "Active"])

Reject(t, rid) ==
  Decide(t, rid, [Requested(t, rid) EXCEPT !.status = "Rejected"])

\* Mutant: the confirmation sets the bits and forgets the status.
ConfirmBitsOnly(t, rid) ==
  Decide(t, rid, [Requested(t, rid) EXCEPT !.bitmap = Requested(t, rid).requested])

\* What the confirm handler does to the table under its write lock: the device
\* gets the bits it asked for.
Confirm(t, rid) == Approve(t, rid, Requested(t, rid).requested)

------------------------------------------------------------------------------
(* Garbage collection: the four default rules, each the digests it picks. *)

Stale(t, now, retention) ==
  {c \in DOMAIN t.entries : t.entries[c].createdAt + retention < now}

CompromisedStale(t, now) ==
  {c \in Stale(t, now, DecidedRetention) : t.entries[c].status = "Compromised"}

RejectedStale(t, now) ==
  {c \in Stale(t, now, DecidedRetention) : t.entries[c].status = "Rejected"}

PendingStale(t, now) ==
  {c \in Stale(t, now, PendingRetention) : t.entries[c].status = "Pending"}

\* Mutant: active entries are spared.
NeverSeenInactive(t, now) ==
  {c \in Stale(t, now, PendingRetention) :
     t.entries[c].status \notin {"Pending", "Active"}
     /\ t.entries[c].lastSeen = "never"}

NeverSeen(t, now) ==
  {c \in Stale(t, now, PendingRetention) :
     t.entries[c].status # "Pending" /\ t.entries[c].lastSeen = "never"}

Collectable(t, now) ==
  CompromisedStale(t, now) \cup RejectedStale(t, now)
    \cup PendingStale(t, now) \cup NeverSeen(t, now)

\* Mutant: the collector forgets the request ids of the entries it drops.
GcEntriesOnly(t, now) == [t EXCEPT !.entries = Remove(@, Collectable(t, now))]

Gc(t, now) ==
  LET gone == Collectable(t, now)
  IN  [pending |-> Remove(t.pending,
                     {rid \in DOMAIN t.pending : t.pending[rid] \in gone}),
       entries |-> Remove(t.entries, gone)]
==============================================================================
