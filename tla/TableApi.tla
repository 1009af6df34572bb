------------------------------- MODULE TableApi -------------------------------
(***************************************************************************)
(* The permission table as its callers may use it.  Every module is given  *)
(* the table with CoreState and may call any public method, in any order;  *)
(* revoke, restore and put by hand have no caller in the server yet, so    *)
(* the unit tests are all that exercises them.  One action is one call,    *)
(* made under the table's lock.  Whoever is handed an entry by get_mut()   *)
(* may write it: here its status and its bits.                             *)
(***************************************************************************)
EXTENDS AuthTable

CONSTANTS
  Cert,            \* certificates
  RequestBitmaps,  \* bits that are asked for
  GrantBitmaps,    \* bits that are approved
  Archived,        \* entries a caller puts: rows read back from a store
  MaxRequests,     \* bound: request ids drawn
  MaxTime          \* bound: ticks of the clock

ASSUME TableApiAssumption ==
  /\ RequestBitmaps \subseteq Bitmap
  /\ GrantBitmaps \subseteq Bitmap
  /\ Archived \subseteq Entry
  /\ MaxRequests \in Nat
  /\ MaxTime \in Nat

VARIABLES
  table, now, nextRid,
  report,   \* what the last gc() returned
  granted   \* history variable: the bits last given to each certificate

vars == <<table, now, nextRid, report, granted>>

Rid == 1..MaxRequests

------------------------------------------------------------------------------
(* Queries *)

ValidBits == {p.bit : p \in Catalog}

IsActive(t, c) == c \in DOMAIN t.entries /\ t.entries[c].status = "Active"

EffectiveBitmap(t, c) ==
  IF IsActive(t, c) THEN t.entries[c].bitmap \cap ValidBits ELSE {}

\* Mutant: the shifted bitmap is the stored one.
HasStoredBit(t, c, bit) ==
  IF ~IsActive(t, c) THEN "none"
  ELSE IF bit \in t.entries[c].bitmap THEN "yes" ELSE "no"

HasBit(t, c, bit) ==
  IF ~IsActive(t, c) THEN "none"
  ELSE IF bit \in EffectiveBitmap(t, c) THEN "yes" ELSE "no"

\* The answer of /api/signup/status?sha256=.  It shows the bits of every entry,
\* whatever its status.
StatusAnswer(t, c) ==
  IF c \in DOMAIN t.entries
    THEN [status |-> t.entries[c].status,
          bitmap |-> t.entries[c].bitmap \cap ValidBits]
    ELSE [status |-> "not_found", bitmap |-> {}]

\* The rows of the administrator's list: ids whose entry is there.
ListPending(t) ==
  {rid \in DOMAIN t.pending : t.pending[rid] \in DOMAIN t.entries}

------------------------------------------------------------------------------
(* Updates that no handler makes *)

WithStatus(t, c, status) ==
  IF c \in DOMAIN t.entries THEN [t EXCEPT !.entries[c].status = status] ELSE t

RevokeEntry(t, c) == WithStatus(t, c, "Compromised")

\* Mutant: a restored device gets the bits it asked for.
RestoreRequested(t, c) ==
  IF c \in DOMAIN t.entries
    THEN [t EXCEPT !.entries[c].status = "Active",
                   !.entries[c].bitmap = t.entries[c].requested]
    ELSE t

RestoreEntry(t, c) == WithStatus(t, c, "Active")

WriteEntry(t, c, status, bitmap) ==
  [t EXCEPT !.entries[c] = [@ EXCEPT !.status = status, !.bitmap = bitmap]]

PutEntry(t, c, entry) == [t EXCEPT !.entries = Insert(@, c, entry)]

\* Mutant: an entry is listed under every rule that picked it.
ReportEveryRule(t, n) ==
  [compromised |-> CompromisedStale(t, n), rejected |-> RejectedStale(t, n),
   pending |-> PendingStale(t, n), unseen |-> NeverSeen(t, n)]

\* GcReport: an entry is listed under the first rule that picked it.
GcReport(t, n) ==
  [compromised |-> CompromisedStale(t, n), rejected |-> RejectedStale(t, n),
   pending |-> PendingStale(t, n),
   unseen |-> NeverSeen(t, n) \ (CompromisedStale(t, n) \cup RejectedStale(t, n))]

NoReport == [compromised |-> {}, rejected |-> {}, pending |-> {}, unseen |-> {}]

------------------------------------------------------------------------------
(* Calls *)

\* A call that only changes the table.
Call(t) == table' = t /\ UNCHANGED <<now, nextRid, report>>

SignUp(c) ==
  \E status \in Waiting, requested \in RequestBitmaps :
    /\ nextRid \in Rid
    /\ table' = AddPending(table, c, nextRid, requested, status, now)
    /\ nextRid' = nextRid + 1
    /\ granted' = [granted EXCEPT ![c] = {}]
    /\ UNCHANGED <<now, report>>

ApproveCall(rid) ==
  \E bitmap \in GrantBitmaps :
    /\ rid \in DOMAIN table.pending
    /\ Call(Approve(table, rid, bitmap))
    /\ granted' = [granted EXCEPT ![table.pending[rid]] = bitmap]

RejectCall(rid) ==
  /\ rid \in DOMAIN table.pending
  /\ Call(Reject(table, rid))
  /\ UNCHANGED granted

\* remove_pending() uses an id up and leaves its entry as it is.
RemovePendingCall(rid) == Call(RemovePending(table, rid)) /\ UNCHANGED granted

\* get_mut() and what its caller writes; bits written are bits given.
GetMutCall(c) ==
  \E status \in Status, bitmap \in GrantBitmaps :
    /\ c \in DOMAIN table.entries
    /\ Call(WriteEntry(table, c, status, bitmap))
    /\ granted' = [granted EXCEPT ![c] = bitmap]

RevokeCall(c)  == Call(RevokeEntry(table, c)) /\ UNCHANGED granted
RestoreCall(c) == Call(RestoreEntry(table, c)) /\ UNCHANGED granted

PutCall(c) ==
  \E entry \in Archived :
    /\ Call(PutEntry(table, c, entry))
    /\ granted' = [granted EXCEPT ![c] = entry.bitmap]

GcCall ==
  /\ table'  = Gc(table, now)
  /\ report' = GcReport(table, now)
  /\ UNCHANGED <<now, nextRid, granted>>

Tick == now < MaxTime /\ now' = now + 1 /\ UNCHANGED <<table, nextRid, report, granted>>

Init ==
  /\ table = EmptyTable
  /\ now = 0
  /\ nextRid = 1
  /\ report = NoReport
  /\ granted = [c \in Cert |-> {}]

Next ==
  \/ \E c \in Cert : \/ SignUp(c) \/ GetMutCall(c) \/ PutCall(c)
                    \/ RevokeCall(c) \/ RestoreCall(c)
  \/ \E rid \in Rid : ApproveCall(rid) \/ RejectCall(rid) \/ RemovePendingCall(rid)
  \/ GcCall
  \/ Tick

Spec == Init /\ [][Next]_vars

------------------------------------------------------------------------------
(* Properties *)

\* Every variable has its type.
TypeOK ==
  /\ DOMAIN table.entries \subseteq Cert
  /\ \A c \in DOMAIN table.entries : table.entries[c] \in Entry
  /\ DOMAIN table.pending \subseteq Rid
  /\ \A rid \in DOMAIN table.pending : table.pending[rid] \in Cert
  /\ now \in 0..MaxTime
  /\ nextRid \in 1..(MaxRequests + 1)
  /\ \A rule \in DOMAIN report : report[rule] \subseteq Cert
  /\ granted \in [Cert -> Bitmap]

\* No sequence of revocations, restorations, rejections, signups, used-up ids
\* and collections gives a certificate a bit that was not in the last grant it
\* received since it signed up (by approve(), put() or a write through
\* get_mut()): restore() only gives back.
NoBitsWithoutGrant ==
  \A c \in Cert : EffectiveBitmap(table, c) \subseteq granted[c]

\* For an active device the three ways of asking (has_bit, effective_bitmap and
\* the status page) agree, on bits the catalog has dropped too; and every id
\* that still waits is in the administrator's list, so that approve() and
\* reject() never use one up for nothing.
QueriesAgree ==
  /\ \A c \in DOMAIN table.entries :
       IsActive(table, c) =>
         /\ StatusAnswer(table, c).bitmap = EffectiveBitmap(table, c)
         /\ EffectiveBitmap(table, c) =
              {bit \in Bit : HasBit(table, c, bit) = "yes"}
  /\ ListPending(table) = DOMAIN table.pending

\* A revoked entry gets another status only by restore(), put(), a write
\* through get_mut(), a new signup of the certificate, or a decision that uses
\* up an id which was still waiting: nothing else undoes a revocation.
RevokedUntilLifted ==
  [][\A c \in DOMAIN table.entries :
       (/\ table.entries[c].status = "Compromised"
        /\ c \in DOMAIN table'.entries
        /\ table'.entries[c].status # "Compromised")
       => \/ RestoreCall(c) \/ PutCall(c) \/ GetMutCall(c) \/ SignUp(c)
          \/ \E rid \in DOMAIN table.pending \ DOMAIN table'.pending :
               table.pending[rid] = c]_vars

\* What gc() reports is what has gone: the four lists together are the entries
\* removed, and no entry is counted in two of them.
ReportIsWhatWent ==
  [][GcCall =>
       LET listed == {report'[rule] : rule \in DOMAIN report'}
       IN  /\ UNION listed = DOMAIN table.entries \ DOMAIN table'.entries
           /\ \A r, s \in DOMAIN report' : r # s => report'[r] \cap report'[s] = {}]_vars
==============================================================================
