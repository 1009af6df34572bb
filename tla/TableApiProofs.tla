---------------------------- MODULE TableApiProofs ----------------------------
(***************************************************************************)
(* Theorems about TableApi, for any certificates, bitmaps, archived rows   *)
(* and numbers of requests and hours.                                      *)
(***************************************************************************)
EXTENDS TableApi, TLAPS

\* The entries are entries of certificates, whose bits their last grant had.
EntriesInv(t, g) ==
  /\ DOMAIN t.entries \subseteq Cert
  /\ t.entries \in [DOMAIN t.entries -> Entry]
  /\ \A c \in DOMAIN t.entries : t.entries[c].bitmap \subseteq g[c]

\* Every id that waits names a certificate that has an entry.
PendingInv(t) == \A rid \in DOMAIN t.pending : t.pending[rid] \in DOMAIN t.entries

TableInv ==
  /\ table = [entries |-> table.entries, pending |-> table.pending]
  /\ granted \in [Cert -> Bitmap]
  /\ now \in Nat
  /\ EntriesInv(table, granted)
  /\ PendingInv(table)

------------------------------------------------------------------------------
(* What the table's methods do to its two maps. *)

\* add_pending_with_hw() inserts an entry without bits, and its id.
LEMMA AddPendingMaps ==
  ASSUME NEW t, NEW c, NEW rid, NEW b, NEW s, NEW n
  PROVE  LET u == AddPending(t, c, rid, b, s, n)
             e == [bitmap |-> {}, requested |-> b, status |-> s,
                   createdAt |-> n, lastSeen |-> "never"]
         IN  /\ u = [entries |-> u.entries, pending |-> u.pending]
             /\ DOMAIN u.entries = DOMAIN t.entries \cup {c}
             /\ \A x \in DOMAIN u.entries : u.entries[x] = IF x = c THEN e ELSE t.entries[x]
             /\ u.entries \in [DOMAIN u.entries -> {u.entries[x] : x \in DOMAIN u.entries}]
             /\ DOMAIN u.pending = DOMAIN t.pending \cup {rid}
             /\ \A x \in DOMAIN u.pending : u.pending[x] = IF x = rid THEN c ELSE t.pending[x]
BY DEF AddPending, Insert

\* approve() and reject() take the id away, and replace the entry it names if
\* there is one.
LEMMA DecideMaps ==
  ASSUME NEW t, t = [entries |-> t.entries, pending |-> t.pending],
         NEW rid, NEW e, t.entries \in [DOMAIN t.entries -> Entry]
  PROVE  LET u == Decide(t, rid, e)
         IN  /\ u = [entries |-> u.entries, pending |-> u.pending]
             /\ u.entries = IF FoundByRequestId(t, rid)
                              THEN [t.entries EXCEPT ![t.pending[rid]] = e]
                              ELSE t.entries
             /\ DOMAIN u.pending = DOMAIN t.pending \ {rid}
             /\ \A x \in DOMAIN u.pending : u.pending[x] = t.pending[x]
<1>1. /\ RemovePending(t, rid).entries = t.entries
      /\ RemovePending(t, rid).pending = Remove(t.pending, {rid})
      /\ RemovePending(t, rid) = [entries |-> t.entries, pending |-> Remove(t.pending, {rid})]
  BY DEF RemovePending
<1>2. /\ DOMAIN Remove(t.pending, {rid}) = DOMAIN t.pending \ {rid}
      /\ \A x \in DOMAIN t.pending \ {rid} : Remove(t.pending, {rid})[x] = t.pending[x]
  BY DEF Remove
<1>3. CASE FoundByRequestId(t, rid)
  <2>1. Decide(t, rid, e) = [entries |-> [t.entries EXCEPT ![t.pending[rid]] = e],
                             pending |-> Remove(t.pending, {rid})]
    BY <1>1, <1>3 DEF Decide
  <2> QED BY <1>2, <1>3, <2>1
<1>4. CASE ~FoundByRequestId(t, rid)
  <2>1. Decide(t, rid, e) = [entries |-> t.entries, pending |-> Remove(t.pending, {rid})]
    BY <1>1, <1>4 DEF Decide
  <2> QED BY <1>2, <1>4, <2>1
<1> QED BY <1>3, <1>4

\* gc() removes the entries it collects and the ids that name them.
LEMMA GcMaps ==
  ASSUME NEW t, NEW n
  PROVE  LET u    == Gc(t, n)
             gone == Collectable(t, n)
         IN  /\ u = [entries |-> u.entries, pending |-> u.pending]
             /\ DOMAIN u.entries = DOMAIN t.entries \ gone
             /\ \A x \in DOMAIN u.entries : u.entries[x] = t.entries[x]
             /\ u.entries = [x \in DOMAIN u.entries |-> t.entries[x]]
             /\ DOMAIN u.pending = {rid \in DOMAIN t.pending : t.pending[rid] \notin gone}
             /\ \A x \in DOMAIN u.pending : u.pending[x] = t.pending[x]
BY DEF Gc, Remove

------------------------------------------------------------------------------
(* The calls *)

\* A signup keeps the invariant: its entry has no bits yet.
LEMMA SignUpStep ==
  ASSUME TableInv, NEW c \in Cert, SignUp(c)
  PROVE  TableInv'
<1>1. PICK s \in Waiting, b \in RequestBitmaps :
        /\ nextRid \in Rid
        /\ table' = AddPending(table, c, nextRid, b, s, now)
        /\ nextRid' = nextRid + 1
        /\ granted' = [granted EXCEPT ![c] = {}]
        /\ now' = now
  BY DEF SignUp
<1> DEFINE e == [bitmap |-> {}, requested |-> b, status |-> s,
                 createdAt |-> now, lastSeen |-> "never"]
<1>2. e \in Entry
  BY TableApiAssumption DEF Entry, Bitmap, Waiting, Status, TableInv
<1>3. /\ table' = [entries |-> table.entries, pending |-> table.pending]'
      /\ DOMAIN table'.entries = DOMAIN table.entries \cup {c}
      /\ \A x \in DOMAIN table'.entries :
           table'.entries[x] = IF x = c THEN e ELSE table.entries[x]
      /\ table'.entries \in [DOMAIN table'.entries
                               -> {table'.entries[x] : x \in DOMAIN table'.entries}]
      /\ DOMAIN table'.pending = DOMAIN table.pending \cup {nextRid}
      /\ \A x \in DOMAIN table'.pending :
           table'.pending[x] = IF x = nextRid THEN c ELSE table.pending[x]
  BY <1>1, AddPendingMaps
<1>4. granted' \in [Cert -> Bitmap]
  BY <1>1 DEF TableInv, Bitmap
<1>5. EntriesInv(table', granted')
  <2>1. \A x \in DOMAIN table'.entries : table'.entries[x] \in Entry
    BY <1>2, <1>3 DEF TableInv, EntriesInv
  <2>2. table'.entries \in [DOMAIN table'.entries -> Entry]
    BY <1>3, <2>1
  <2>3. \A x \in DOMAIN table'.entries : table'.entries[x].bitmap \subseteq granted'[x]
    BY <1>1, <1>3 DEF TableInv, EntriesInv
  <2> QED BY <1>3, <2>2, <2>3 DEF TableInv, EntriesInv
<1>6. PendingInv(table')
  BY <1>1, <1>3 DEF TableInv, PendingInv
<1> QED BY <1>1, <1>3, <1>4, <1>5, <1>6 DEF TableInv

\* A decision keeps the invariant, if the bits it leaves are granted.
LEMMA DecisionStep ==
  ASSUME TableInv, NEW rid \in DOMAIN table.pending, NEW e \in Entry,
         table' = Decide(table, rid, e),
         granted' \in [Cert -> Bitmap],
         e.bitmap \subseteq granted'[table.pending[rid]],
         \A c \in Cert : c # table.pending[rid] => granted'[c] = granted[c],
         UNCHANGED now
  PROVE  TableInv'
<1> DEFINE c == table.pending[rid]
<1>1. FoundByRequestId(table, rid)
  BY DEF FoundByRequestId, TableInv, PendingInv
<1>2. /\ table' = [entries |-> table.entries, pending |-> table.pending]'
      /\ table'.entries = [table.entries EXCEPT ![c] = e]
      /\ DOMAIN table'.pending = DOMAIN table.pending \ {rid}
      /\ \A x \in DOMAIN table'.pending : table'.pending[x] = table.pending[x]
  BY <1>1, DecideMaps DEF TableInv, EntriesInv
<1>3. c \in DOMAIN table.entries
  BY <1>1 DEF FoundByRequestId
<1>4. EntriesInv(table', granted')
  BY <1>2, <1>3 DEF TableInv, EntriesInv
<1>5. PendingInv(table')
  BY <1>2, <1>3 DEF TableInv, PendingInv
<1> QED BY <1>2, <1>4, <1>5 DEF TableInv

\* approve() and reject() keep the invariant.
LEMMA ApproveStep ==
  ASSUME TableInv, NEW rid \in Rid, ApproveCall(rid) \/ RejectCall(rid)
  PROVE  TableInv'
<1>1. rid \in DOMAIN table.pending /\ table.pending[rid] \in DOMAIN table.entries
  BY DEF ApproveCall, RejectCall, TableInv, PendingInv
<1>2. Requested(table, rid) \in Entry /\ table.pending[rid] \in Cert
  BY <1>1 DEF Requested, TableInv, EntriesInv
<1>3. CASE ApproveCall(rid)
  <2>1. PICK b \in GrantBitmaps :
          /\ table' = Approve(table, rid, b)
          /\ granted' = [granted EXCEPT ![table.pending[rid]] = b]
          /\ UNCHANGED now
    BY <1>3 DEF ApproveCall, Call
  <2> DEFINE e == [Requested(table, rid) EXCEPT !.bitmap = b, !.status = "Active"]
  <2>2. b \in Bitmap
    BY TableApiAssumption
  <2>3. e \in Entry /\ e.bitmap = b
    BY <1>2, <2>2 DEF Entry, Status
  <2>4. table' = Decide(table, rid, e)
    BY <2>1 DEF Approve
  <2>5. /\ granted' \in [Cert -> Bitmap]
        /\ granted'[table.pending[rid]] = b
        /\ \A c \in Cert : c # table.pending[rid] => granted'[c] = granted[c]
    BY <1>2, <2>1, <2>2 DEF TableInv
  <2> QED BY <1>1, <2>1, <2>3, <2>4, <2>5, DecisionStep
<1>4. CASE RejectCall(rid)
  <2> DEFINE e == [Requested(table, rid) EXCEPT !.status = "Rejected"]
  <2>1. e \in Entry /\ e.bitmap = Requested(table, rid).bitmap
    BY <1>2 DEF Entry, Status
  <2>2. table' = Decide(table, rid, e) /\ UNCHANGED <<now, granted>>
    BY <1>4 DEF RejectCall, Call, Reject
  <2>3. e.bitmap \subseteq granted[table.pending[rid]]
    BY <1>1, <2>1 DEF Requested, TableInv, EntriesInv
  <2> QED BY <1>1, <2>1, <2>2, <2>3, DecisionStep DEF TableInv
<1> QED BY <1>3, <1>4

\* revoke(), restore() and put() keep the invariant: the first two leave the bits
\* alone, the third brings its own.
LEMMA StatusStep ==
  ASSUME TableInv, NEW c \in Cert, RevokeCall(c) \/ RestoreCall(c)
  PROVE  TableInv'
<1>1. PICK s \in Status :
        table' = WithStatus(table, c, s) /\ UNCHANGED <<now, granted>>
  BY DEF RevokeCall, RestoreCall, RevokeEntry, RestoreEntry, Call, Status
<1>2. CASE c \notin DOMAIN table.entries
  <2>1. UNCHANGED <<table, now, granted>>
    BY <1>1, <1>2 DEF WithStatus
  <2> QED BY <2>1 DEF TableInv
<1>3. CASE c \in DOMAIN table.entries
  <2> DEFINE e == [table.entries[c] EXCEPT !.status = s]
  <2>1. table' = [entries |-> [table.entries EXCEPT ![c] = e], pending |-> table.pending]
    BY <1>1, <1>3 DEF WithStatus, TableInv
  <2>2. e \in Entry /\ e.bitmap = table.entries[c].bitmap
    BY <1>3 DEF TableInv, EntriesInv, Entry
  <2>3. EntriesInv(table', granted)
    BY <1>3, <2>1, <2>2 DEF TableInv, EntriesInv
  <2>4. PendingInv(table')
    BY <1>3, <2>1 DEF TableInv, PendingInv, EntriesInv
  <2> QED BY <1>1, <2>1, <2>3, <2>4 DEF TableInv
<1> QED BY <1>2, <1>3

\* A write through get_mut() keeps the invariant: the bits it leaves are given.
LEMMA GetMutStep ==
  ASSUME TableInv, NEW c \in Cert, GetMutCall(c)
  PROVE  TableInv'
<1>1. PICK s \in Status, b \in GrantBitmaps :
        /\ c \in DOMAIN table.entries
        /\ table' = WriteEntry(table, c, s, b)
        /\ granted' = [granted EXCEPT ![c] = b]
        /\ UNCHANGED now
  BY DEF GetMutCall, Call
<1> DEFINE e == [table.entries[c] EXCEPT !.status = s, !.bitmap = b]
<1>2. b \in Bitmap
  BY TableApiAssumption
<1>3. e \in Entry /\ e.bitmap = b
  BY <1>1, <1>2 DEF TableInv, EntriesInv, Entry
<1>4. table' = [entries |-> [table.entries EXCEPT ![c] = e], pending |-> table.pending]
  BY <1>1 DEF WriteEntry, TableInv
<1>5. granted' \in [Cert -> Bitmap] /\ granted'[c] = b
      /\ \A x \in Cert : x # c => granted'[x] = granted[x]
  BY <1>1, <1>2 DEF TableInv
<1> HIDE DEF e
<1>6. EntriesInv(table', granted')
  BY <1>1, <1>3, <1>4, <1>5 DEF TableInv, EntriesInv
<1>7. PendingInv(table')
  BY <1>1, <1>4 DEF TableInv, PendingInv, EntriesInv
<1> QED BY <1>1, <1>4, <1>5, <1>6, <1>7 DEF TableInv

\* remove_pending() keeps the invariant: it touches no entry.
LEMMA RemovePendingStep ==
  ASSUME TableInv, NEW rid \in Rid, RemovePendingCall(rid)
  PROVE  TableInv'
<1>1. table' = [entries |-> table.entries, pending |-> Remove(table.pending, {rid})]
      /\ UNCHANGED <<now, granted>>
  BY DEF RemovePendingCall, Call, RemovePending, TableInv
<1>2. /\ DOMAIN Remove(table.pending, {rid}) \subseteq DOMAIN table.pending
      /\ \A x \in DOMAIN Remove(table.pending, {rid}) :
           Remove(table.pending, {rid})[x] = table.pending[x]
  BY DEF Remove
<1>3. EntriesInv(table', granted) /\ PendingInv(table')
  BY <1>1, <1>2 DEF TableInv, EntriesInv, PendingInv
<1> QED BY <1>1, <1>3 DEF TableInv

\* put() inserts an entry with the bits it brings, which are then granted.
LEMMA PutStep ==
  ASSUME TableInv, NEW c \in Cert, PutCall(c)
  PROVE  TableInv'
<1>1. PICK e \in Archived :
        /\ table' = [table EXCEPT !.entries = Insert(@, c, e)]
        /\ granted' = [granted EXCEPT ![c] = e.bitmap]
        /\ UNCHANGED now
  BY DEF PutCall, PutEntry, Call
<1>2. e \in Entry /\ e.bitmap \in Bitmap
  BY TableApiAssumption DEF Entry
<1>3. table' = [entries |-> Insert(table.entries, c, e), pending |-> table.pending]
  BY <1>1 DEF TableInv
<1>4. /\ DOMAIN Insert(table.entries, c, e) = DOMAIN table.entries \cup {c}
      /\ \A x \in DOMAIN table.entries \cup {c} :
           Insert(table.entries, c, e)[x] = IF x = c THEN e ELSE table.entries[x]
      /\ Insert(table.entries, c, e) \in [DOMAIN table.entries \cup {c} -> Entry]
  BY <1>2 DEF Insert, TableInv, EntriesInv
<1>5. granted' \in [Cert -> Bitmap]
  BY <1>1, <1>2 DEF TableInv
<1>6. EntriesInv(table', granted')
  BY <1>1, <1>3, <1>4 DEF TableInv, EntriesInv
<1>7. PendingInv(table')
  BY <1>3, <1>4 DEF TableInv, PendingInv
<1> QED BY <1>1, <1>3, <1>5, <1>6, <1>7 DEF TableInv

\* gc() keeps the invariant.
LEMMA GcStep ==
  ASSUME TableInv, GcCall
  PROVE  TableInv'
<1>1. /\ table' = [entries |-> table.entries, pending |-> table.pending]'
      /\ DOMAIN table'.entries = DOMAIN table.entries \ Collectable(table, now)
      /\ \A x \in DOMAIN table'.entries : table'.entries[x] = table.entries[x]
      /\ table'.entries = [x \in DOMAIN table'.entries |-> table.entries[x]]
      /\ DOMAIN table'.pending =
           {rid \in DOMAIN table.pending : table.pending[rid] \notin Collectable(table, now)}
      /\ \A x \in DOMAIN table'.pending : table'.pending[x] = table.pending[x]
      /\ UNCHANGED <<now, granted>>
  BY GcMaps DEF GcCall
<1>2. EntriesInv(table', granted)
  BY <1>1 DEF TableInv, EntriesInv
<1>3. PendingInv(table')
  BY <1>1 DEF TableInv, PendingInv
<1> QED BY <1>1, <1>2, <1>3 DEF TableInv

\* Every call keeps the invariant.
LEMMA CallStep ==
  ASSUME TableInv, [Next]_vars
  PROVE  TableInv'
<1>1. CASE UNCHANGED vars
  BY <1>1 DEF vars, TableInv
<1>2. CASE Tick
  BY <1>2 DEF Tick, TableInv
<1> QED BY <1>1, <1>2, SignUpStep, ApproveStep, StatusStep, GetMutStep,
          RemovePendingStep, PutStep, GcStep DEF Next

\* An empty table keeps it too.
LEMMA TableStart == Init => TableInv
BY DEF Init, TableInv, EntriesInv, PendingInv, EmptyTable, Bitmap

\* Whatever is called in whatever order, nobody effectively has a bit that the
\* last grant since the last signup did not have, where a write through
\* get_mut() counts as a grant (auth.rs:143-152, 215-248).
THEOREM BitsAreGranted == Spec => []NoBitsWithoutGrant
<1>1. TableInv => NoBitsWithoutGrant
  BY DEF TableInv, EntriesInv, NoBitsWithoutGrant, EffectiveBitmap, IsActive
<1> QED BY <1>1, TableStart, CallStep, PTL DEF Spec

\* The three ways of asking what an active device may do agree, and the
\* administrator's list misses no id that waits (auth.rs:130-152, 252-259,
\* status.rs:45-52).
THEOREM QueriesAreConsistent == Spec => []QueriesAgree
<1>1. TableInv => QueriesAgree
  <2> SUFFICES ASSUME TableInv
               PROVE  QueriesAgree
    OBVIOUS
  <2>1. ListPending(table) = DOMAIN table.pending
    BY DEF ListPending, TableInv, PendingInv
  <2>2. ASSUME NEW c \in DOMAIN table.entries, IsActive(table, c)
        PROVE  /\ StatusAnswer(table, c).bitmap = EffectiveBitmap(table, c)
               /\ EffectiveBitmap(table, c) = {bit \in Bit : HasBit(table, c, bit) = "yes"}
    <3>1. StatusAnswer(table, c).bitmap = EffectiveBitmap(table, c)
      BY <2>2 DEF StatusAnswer, EffectiveBitmap
    <3>2. EffectiveBitmap(table, c) \subseteq Bit
      BY <2>2 DEF EffectiveBitmap, TableInv, EntriesInv, Entry, Bitmap
    <3>3. \A bit \in Bit : (HasBit(table, c, bit) = "yes") <=> bit \in EffectiveBitmap(table, c)
      BY <2>2 DEF HasBit
    <3> QED BY <3>1, <3>2, <3>3
  <2> QED BY <2>1, <2>2 DEF QueriesAgree
<1> QED BY <1>1, TableStart, CallStep, PTL DEF Spec

------------------------------------------------------------------------------
(* What one call may not do *)

\* What the calls leave of the entries they are not about.
LEMMA OthersKept ==
  ASSUME TableInv, [Next]_vars, NEW c \in DOMAIN table.entries,
         ~SignUp(c), ~RestoreCall(c), ~PutCall(c), ~GetMutCall(c), c \in DOMAIN table'.entries,
         table'.entries[c] # table.entries[c]
  PROVE  \/ RevokeCall(c)
         \/ \E rid \in DOMAIN table.pending \ DOMAIN table'.pending : table.pending[rid] = c
<1>1. c \in Cert
  BY DEF TableInv, EntriesInv
<1>2. ASSUME NEW x \in Cert \ {c}, SignUp(x)
      PROVE  table'.entries[c] = table.entries[c]
  <2>1. PICK s \in Waiting, b \in RequestBitmaps : table' = AddPending(table, x, nextRid, b, s, now)
    BY <1>2 DEF SignUp
  <2>2. \E e : table'.entries = Insert(table.entries, x, e)
    BY <2>1 DEF AddPending
  <2> QED BY <1>2, <2>2 DEF Insert
<1>3. ASSUME NEW x \in Cert \ {c}, NEW s, table' = WithStatus(table, x, s)
      PROVE  table'.entries[c] = table.entries[c]
  <2>1. table.entries \in [DOMAIN table.entries -> Entry]
    BY DEF TableInv, EntriesInv
  <2>2. table' = table \/ table'.entries = [table.entries EXCEPT ![x].status = s]
    BY <1>3 DEF WithStatus, TableInv
  <2> QED BY <1>3, <2>1, <2>2
<1>4. ASSUME NEW x \in Cert \ {c}, RevokeCall(x) \/ RestoreCall(x)
      PROVE  table'.entries[c] = table.entries[c]
  BY <1>3, <1>4 DEF RevokeCall, RestoreCall, RevokeEntry, RestoreEntry, Call
<1>5. ASSUME NEW x \in Cert \ {c}, PutCall(x)
      PROVE  table'.entries[c] = table.entries[c]
  <2>1. PICK e \in Archived : table' = [table EXCEPT !.entries = Insert(@, x, e)]
    BY <1>5 DEF PutCall, PutEntry, Call
  <2>2. table'.entries = Insert(table.entries, x, e)
    BY <2>1 DEF TableInv
  <2> QED BY <1>5, <2>2 DEF Insert
<1>6. ASSUME NEW rid \in DOMAIN table.pending, NEW e, table' = Decide(table, rid, e)
      PROVE  \/ table'.entries[c] = table.entries[c]
             \/ rid \notin DOMAIN table'.pending /\ table.pending[rid] = c
  <2>1. table.entries \in [DOMAIN table.entries -> Entry]
        /\ table = [entries |-> table.entries, pending |-> table.pending]
    BY DEF TableInv, EntriesInv
  <2>2. FoundByRequestId(table, rid)
    BY DEF FoundByRequestId, TableInv, PendingInv
  <2>3. /\ table'.entries = [table.entries EXCEPT ![table.pending[rid]] = e]
        /\ DOMAIN table'.pending = DOMAIN table.pending \ {rid}
    BY <1>6, <2>1, <2>2, DecideMaps
  <2> QED BY <2>1, <2>3
<1>7. ASSUME NEW rid \in Rid, ApproveCall(rid) \/ RejectCall(rid)
      PROVE  \/ table'.entries[c] = table.entries[c]
             \/ rid \in DOMAIN table.pending \ DOMAIN table'.pending /\ table.pending[rid] = c
  <2>1. rid \in DOMAIN table.pending
    BY <1>7 DEF ApproveCall, RejectCall
  <2>2. \E e : table' = Decide(table, rid, e)
    BY <1>7 DEF ApproveCall, RejectCall, Call, Approve, Reject
  <2> QED BY <1>6, <2>1, <2>2
<1>8. ASSUME GcCall
      PROVE  table'.entries[c] = table.entries[c]
  <2>1. table'.entries = Remove(table.entries, Collectable(table, now))
    BY <1>8 DEF GcCall, Gc
  <2>2. c \notin Collectable(table, now)
    BY <2>1 DEF Remove
  <2> QED BY <2>1, <2>2 DEF Remove
<1>10. ASSUME NEW x \in Cert \ {c}, GetMutCall(x)
       PROVE  table'.entries[c] = table.entries[c]
  <2>1. \E e : table'.entries = [table.entries EXCEPT ![x] = e]
    BY <1>10 DEF GetMutCall, WriteEntry, Call, TableInv
  <2> QED BY <1>10, <2>1 DEF TableInv, EntriesInv
<1>11. ASSUME NEW rid \in Rid, RemovePendingCall(rid)
       PROVE  table'.entries[c] = table.entries[c]
  BY <1>11 DEF RemovePendingCall, Call, RemovePending, TableInv
<1>9. ASSUME Tick \/ UNCHANGED vars
      PROVE  table'.entries[c] = table.entries[c]
  BY <1>9 DEF Tick, vars
<1> QED BY <1>1, <1>2, <1>4, <1>5, <1>7, <1>8, <1>9, <1>10, <1>11 DEF Next

\* Nothing but restore(), put(), a write through get_mut(), a new signup or the
\* decision of a request that was still waiting undoes a revocation
\* (auth.rs:154-248, 268-300).
THEOREM RevocationsStand == Spec => RevokedUntilLifted
<1>1. ASSUME TableInv, [Next]_vars, NEW c \in DOMAIN table.entries,
             table.entries[c].status = "Compromised",
             c \in DOMAIN table'.entries,
             table'.entries[c].status # "Compromised"
      PROVE  \/ RestoreCall(c) \/ PutCall(c) \/ GetMutCall(c) \/ SignUp(c)
             \/ \E rid \in DOMAIN table.pending \ DOMAIN table'.pending : table.pending[rid] = c
  <2>1. ~RevokeCall(c)
    <3> SUFFICES ASSUME RevokeCall(c)
                 PROVE  FALSE
      OBVIOUS
    <3>1. table'.entries = [table.entries EXCEPT ![c].status = "Compromised"]
      BY <1>1 DEF RevokeCall, RevokeEntry, WithStatus, Call, TableInv
    <3>2. table.entries[c] \in Entry /\ table.entries \in [DOMAIN table.entries -> Entry]
      BY <1>1 DEF TableInv, EntriesInv
    <3>3. table'.entries[c] = [table.entries[c] EXCEPT !.status = "Compromised"]
      BY <3>1, <3>2
    <3>4. table'.entries[c].status = "Compromised"
      BY <3>2, <3>3 DEF Entry
    <3> QED BY <1>1, <3>4
  <2> QED BY <1>1, <2>1, OthersKept
<1>2. TableInv /\ [Next]_vars
        => [\A c \in DOMAIN table.entries :
              (/\ table.entries[c].status = "Compromised"
               /\ c \in DOMAIN table'.entries
               /\ table'.entries[c].status # "Compromised")
              => \/ RestoreCall(c) \/ PutCall(c) \/ GetMutCall(c) \/ SignUp(c)
                 \/ \E rid \in DOMAIN table.pending \ DOMAIN table'.pending :
                      table.pending[rid] = c]_vars
  BY <1>1
<1> QED BY <1>2, TableStart, CallStep, PTL DEF Spec, RevokedUntilLifted

\* gc() reports each entry it removes once and no other, though an entry may
\* come under two of its four rules (auth.rs:302-374).
THEOREM ReportIsExact == Spec => ReportIsWhatWent
<1>1. ASSUME GcCall
      PROVE  LET listed == {report'[rule] : rule \in DOMAIN report'}
             IN  /\ UNION listed = DOMAIN table.entries \ DOMAIN table'.entries
                 /\ \A r, s \in DOMAIN report' : r # s => report'[r] \cap report'[s] = {}
  <2> DEFINE compromised == CompromisedStale(table, now)
             rejected    == RejectedStale(table, now)
             pending     == PendingStale(table, now)
             unseen      == NeverSeen(table, now) \ (compromised \cup rejected)
  <2>1. report' = [compromised |-> compromised, rejected |-> rejected,
                   pending |-> pending, unseen |-> unseen]
    BY <1>1 DEF GcCall, GcReport
  <2>2. compromised \cup rejected \cup pending \cup unseen = Collectable(table, now)
    BY DEF Collectable
  <2>3. Collectable(table, now) \subseteq DOMAIN table.entries
    BY DEF Collectable, CompromisedStale, RejectedStale, PendingStale, NeverSeen, Stale
  <2>4. DOMAIN table'.entries = DOMAIN table.entries \ Collectable(table, now)
    BY <1>1, GcMaps DEF GcCall
  <2>5. /\ compromised \cap rejected = {}
        /\ compromised \cap pending = {}
        /\ rejected \cap pending = {}
        /\ NeverSeen(table, now) \cap pending = {}
    BY DEF CompromisedStale, RejectedStale, PendingStale, NeverSeen
  <2> HIDE DEF compromised, rejected, pending
  <2>6. /\ compromised \cap unseen = {} /\ rejected \cap unseen = {}
        /\ pending \cap unseen = {}
    BY <2>5
  <2> HIDE DEF unseen
  <2>7. DOMAIN report' = {"compromised", "rejected", "pending", "unseen"}
        /\ report'.compromised = compromised /\ report'.rejected = rejected
        /\ report'.pending = pending /\ report'.unseen = unseen
    BY <2>1
  <2>8. UNION {report'[rule] : rule \in DOMAIN report'}
          = compromised \cup rejected \cup pending \cup unseen
    BY <2>7
  <2>9. \A r, s \in DOMAIN report' : r # s => report'[r] \cap report'[s] = {}
    BY <2>5, <2>6, <2>7
  <2> QED BY <2>2, <2>3, <2>4, <2>8, <2>9
<1> QED BY <1>1, PTL DEF Spec, ReportIsWhatWent
==============================================================================
