---------------------------- MODULE GatewayProofs ----------------------------
(***************************************************************************)
(* Theorems about Gateway, for every set of certificates and handlers and  *)
(* every value of its bounds.                                              *)
(***************************************************************************)
EXTENDS GatewayInvariant, WellFoundedInduction, TLAPS

------------------------------------------------------------------------------
(* Types of what the operators of the table return. *)

TableType(t) ==
  /\ DOMAIN t = {"entries", "pending"}
  /\ PartialFunction(t.entries, Cert, Entry)
  /\ PartialFunction(t.pending, Rid, Cert)

\* The empty function is a partial function of every type.
LEMMA EmptyType ==
  ASSUME NEW S, NEW T
  PROVE  PartialFunction(<< >>, S, T)
BY DEF PartialFunction

\* HashMap::insert keeps a map's type.
LEMMA InsertType ==
  ASSUME NEW S, NEW T, NEW f, NEW k \in S, NEW v \in T, PartialFunction(f, S, T)
  PROVE  PartialFunction(Insert(f, k, v), S, T)
BY DEF PartialFunction, Insert

\* HashMap::remove keeps a map's type.
LEMMA RemoveType ==
  ASSUME NEW S, NEW T, NEW f, NEW K, PartialFunction(f, S, T)
  PROVE  PartialFunction(Remove(f, K), S, T)
BY DEF PartialFunction, Remove

\* add_pending_with_hw() keeps the table's type.
LEMMA AddPendingType ==
  ASSUME NEW t, TableType(t), NEW c \in Cert, NEW rid \in Rid, NEW b \in Bitmap,
         NEW s \in Status, NEW n \in Nat
  PROVE  TableType(AddPending(t, c, rid, b, s, n))
<1> DEFINE e == [bitmap |-> {}, requested |-> b, status |-> s,
                 createdAt |-> n, lastSeen |-> "never"]
<1>1. e \in Entry
  BY DEF Entry, Bitmap
<1>2. PartialFunction(Insert(t.entries, c, e), Cert, Entry)
  BY <1>1, InsertType DEF TableType
<1>3. PartialFunction(Insert(t.pending, rid, c), Rid, Cert)
  BY InsertType DEF TableType
<1> QED BY <1>2, <1>3 DEF TableType, AddPending

\* pending.remove() keeps the table's type.
LEMMA RemovePendingType ==
  ASSUME NEW t, TableType(t), NEW rid
  PROVE  TableType(RemovePending(t, rid))
<1>1. PartialFunction(Remove(t.pending, {rid}), Rid, Cert)
  BY RemoveType DEF TableType
<1> QED BY <1>1 DEF TableType, RemovePending

\* approve(), reject() and the confirmation keep the table's type.
LEMMA DecideType ==
  ASSUME NEW t, TableType(t), NEW rid, NEW e, FoundByRequestId(t, rid) => e \in Entry
  PROVE  TableType(Decide(t, rid, e))
<1> DEFINE u == RemovePending(t, rid)
<1>1. TableType(u)
  BY RemovePendingType
<1>2. u.entries = t.entries
  BY DEF RemovePending, TableType
<1>3. CASE FoundByRequestId(t, rid)
  <2> DEFINE c == t.pending[rid]
  <2>1. c \in DOMAIN t.entries
    BY <1>3 DEF FoundByRequestId
  <2>2. PartialFunction([u.entries EXCEPT ![c] = e], Cert, Entry)
    BY <1>1, <1>2, <1>3, <2>1 DEF TableType, PartialFunction
  <2>3. TableType([u EXCEPT !.entries[c] = e])
    BY <1>1, <2>2 DEF TableType
  <2> QED BY <1>3, <2>3 DEF Decide
<1>4. CASE ~FoundByRequestId(t, rid)
  BY <1>1, <1>4 DEF Decide
<1> QED BY <1>3, <1>4

\* The entry a request id stands for.
LEMMA RequestedType ==
  ASSUME NEW t, TableType(t), NEW rid, FoundByRequestId(t, rid)
  PROVE  t.pending[rid] \in Cert /\ Requested(t, rid) \in Entry
BY DEF TableType, PartialFunction, FoundByRequestId, Requested

\* The collector keeps the table's type.
LEMMA GcType ==
  ASSUME NEW t, TableType(t), NEW n
  PROVE  TableType(Gc(t, n))
BY RemoveType DEF TableType, Gc

\* push() keeps the log's type.
LEMMA PushType ==
  ASSUME NEW log, DOMAIN log = {"events", "nextSeq"}, log.events \in Seq(Event),
         log.nextSeq \in Nat, NEW c \in Cert, NEW k \in EventKind, NEW b \in Bitmap
  PROVE  /\ DOMAIN Push(log, c, k, b) = {"events", "nextSeq"}
         /\ Push(log, c, k, b).events \in Seq(Event)
         /\ Push(log, c, k, b).nextSeq \in Nat
<1> DEFINE e == [seq |-> log.nextSeq, cert |-> c, kind |-> k, bitmap |-> b]
<1>1. e \in Event
  BY DEF Event
<1>2. Append(log.events, e) \in Seq(Event)
  BY <1>1
<1> QED BY <1>2 DEF Push

\* The filters return bitmaps.
LEMMA FilterType ==
  ASSUME NEW b \in Bitmap
  PROVE  ParseRequested(b) \in Bitmap /\ FilterGrant(b) \in Bitmap
BY DEF ParseRequested, FilterGrant, Bitmap

------------------------------------------------------------------------------
(* Type correctness *)

\* What a request that arrives looks like.
SignupFor(r) ==
  /\ r.op \in {"csr", "pubkey", "cert"}
  /\ r.rid = nextRid
  /\ r.bitmap \subseteq RequestableBits
  /\ nextRid' = nextRid + 1
  /\ \/ /\ r.op = "cert" /\ r.cert \in Cert \ Issued
        /\ minted' = minted
     \/ /\ r.op # "cert" /\ r.cert \in Issued \ minted
        /\ minted' = minted \cup {r.cert}

DecisionOn(r) ==
  /\ r.op \in {"approve", "reject", "confirm"}
  /\ r.rid < nextRid
  /\ UNCHANGED idVars

\* A request is a signup with a fresh id or a decision about an earlier id.
LEMMA RequestShape ==
  ASSUME NEW h \in Handler, Request(h)
  PROVE  \E r \in Job : Arrive(h, r) /\ r.rid \in Rid /\ (SignupFor(r) \/ DecisionOn(r))
<1> USE GatewayAssumption
<1>1. CASE SubmitIssued(h)
  <2>1. PICK op \in {"csr", "pubkey"}, c \in Issued \ minted, raw \in RequestBitmaps :
          /\ nextRid \in Rid
          /\ Arrive(h, [op |-> op, rid |-> nextRid, cert |-> c,
                        bitmap |-> ParseRequested(raw)])
          /\ nextRid' = nextRid + 1
          /\ minted' = minted \cup {c}
    BY <1>1 DEF SubmitIssued
  <2> DEFINE r == [op |-> op, rid |-> nextRid, cert |-> c, bitmap |-> ParseRequested(raw)]
  <2>2. r.bitmap \in Bitmap /\ r.bitmap \subseteq RequestableBits
    BY FilterType DEF ParseRequested
  <2>3. r \in Job
    BY <2>1, <2>2 DEF Job, Operation, Cert
  <2> QED BY <2>1, <2>2, <2>3 DEF SignupFor
<1>2. CASE SubmitSelfSigned(h)
  <2>1. PICK c \in SelfSigned \cup Seeds, raw \in RequestBitmaps :
          /\ nextRid \in Rid
          /\ Arrive(h, [op |-> "cert", rid |-> nextRid, cert |-> c,
                        bitmap |-> ParseRequested(raw)])
          /\ nextRid' = nextRid + 1
          /\ UNCHANGED minted
    BY <1>2 DEF SubmitSelfSigned
  <2> DEFINE r == [op |-> "cert", rid |-> nextRid, cert |-> c, bitmap |-> ParseRequested(raw)]
  <2>2. r.bitmap \in Bitmap /\ r.bitmap \subseteq RequestableBits
    BY FilterType DEF ParseRequested
  <2>3. r \in Job /\ r.cert \in Cert \ Issued
    BY <2>1, <2>2 DEF Job, Operation, Cert
  <2> QED BY <2>1, <2>2, <2>3 DEF SignupFor
<1>3. CASE RequestDecision(h)
  <2>1. PICK op \in {"approve", "reject", "confirm"}, rid \in Rid, b \in Bitmap :
          rid < nextRid /\ Arrive(h, Decision(op, rid, b)) /\ UNCHANGED idVars
    <3>1. {} \in Bitmap
      BY DEF Bitmap
    <3> QED BY <1>3, <3>1 DEF RequestDecision
  <2> QED BY <2>1 DEF Decision, DecisionOn, Job, Operation
<1> QED BY <1>1, <1>2, <1>3 DEF Request

\* A request of the right type can arrive.
LEMMA ArriveType ==
  ASSUME TypeOK, NEW h \in Handler, NEW r \in Job, Arrive(h, r),
         nextRid' \in Nat \ {0}, minted' \subseteq Issued
  PROVE  TypeOK'
BY DEF TypeOK, Arrive, Goto, Location, tableVars, envVars

\* Every step of the gateway keeps every variable in its type.
LEMMA TypeStep == CoreInv /\ [Next]_vars => TypeOK'
<1> SUFFICES ASSUME CoreInv, [Next]_vars
             PROVE  TypeOK'
  OBVIOUS
<1> USE GatewayAssumption
<1>t. TypeOK /\ TableType(table)
  BY DEF CoreInv, TypeOK, TableType
<1>1. ASSUME NEW h \in Handler, Request(h)
      PROVE  TypeOK'
  <2>1. PICK r \in Job : Arrive(h, r) /\ (SignupFor(r) \/ DecisionOn(r))
    BY <1>1, RequestShape
  <2>2. nextRid' \in Nat \ {0} /\ minted' \subseteq Issued
    BY <1>t, <2>1 DEF SignupFor, DecisionOn, idVars, TypeOK
  <2> QED BY <1>t, <2>1, <2>2, ArriveType
<1>2. ASSUME NEW h \in Handler, SignupConflict(h)
      PROVE  TypeOK'
  BY <1>t, <1>2 DEF TypeOK, SignupConflict, Refuse, Finish, NoJob, Job, Operation, Location, Bitmap, tableVars, envVars, idVars
<1>3. ASSUME NEW h \in Handler, ConfirmRefused(h)
      PROVE  TypeOK'
  BY <1>t, <1>3 DEF TypeOK, ConfirmRefused, Refuse, Finish, NoJob, Job, Operation, Location, Bitmap, tableVars, envVars, idVars
<1>4. ASSUME NEW h \in Handler, ConfirmGone(h)
      PROVE  TypeOK'
  BY <1>t, <1>4 DEF TypeOK, ConfirmGone, Refuse, Finish, NoJob, Job, Operation, Location, Bitmap, tableVars, envVars, idVars
<1>5. ASSUME NEW h \in Handler, CsrLock(h)
      PROVE  TypeOK'
  BY <1>t, <1>5 DEF TypeOK, CsrLock, Goto, Location, tableVars, envVars, idVars
<1>6. ASSUME NEW h \in Handler, ConfirmRead(h)
      PROVE  TypeOK'
  BY <1>t, <1>6 DEF TypeOK, ConfirmRead, Goto, Location, tableVars, envVars, idVars
<1>7. ASSUME NEW h \in Handler, CsrLog(h)
      PROVE  TypeOK'
  <2>1. job[h].cert \in Cert /\ job[h].rid \in Rid
    BY <1>t, <1>7 DEF CsrLog, CoreInv, JobInv, FreshInv, Signing, TypeOK
  <2>2. TableType(table')
    BY <1>t, <1>7, <2>1, AddPendingType DEF CsrLog, TypeOK, Job, Status
  <2>3. /\ DOMAIN eventLog' = {"events", "nextSeq"}
        /\ eventLog'.events \in Seq(Event)
        /\ eventLog'.nextSeq \in Nat
    BY <1>t, <1>7, <2>1, PushType DEF CsrLog, TypeOK, Job, EventKind
  <2> QED BY <1>t, <1>7, <2>2, <2>3 DEF TypeOK, TableType, CsrLog, Finish, NoJob, Job, Operation, Location, Bitmap, tableVars, envVars, idVars
<1>8. ASSUME NEW h \in Handler, AddUnlogged(h)
      PROVE  TypeOK'
  <2>1. job[h].cert \in Cert /\ job[h].rid \in Rid
    BY <1>t, <1>8 DEF AddUnlogged, CoreInv, JobInv, FreshInv, Signing, TypeOK
  <2>2. TableType(table')
    BY <1>t, <1>8, <2>1, AddPendingType DEF AddUnlogged, InitialStatus, TypeOK, Job, Status
  <2> QED BY <1>t, <1>8, <2>2 DEF TypeOK, TableType, AddUnlogged, Finish, NoJob, Job, Operation, Location, Bitmap, tableVars, envVars, idVars
<1>9. ASSUME NEW h \in Handler, ApproveLock(h)
      PROVE  TypeOK'
  <2> DEFINE rid == job[h].rid
             b   == FilterGrant(job[h].bitmap)
             e   == [Requested(table, rid) EXCEPT !.bitmap = b, !.status = "Active"]
  <2>1. job[h].bitmap \in Bitmap /\ b \in Bitmap
    BY <1>t, <1>9, FilterType DEF TypeOK, Job
  <2>2. table.pending[rid] \in Cert /\ Requested(table, rid) \in Entry
    BY <1>t, <1>9, RequestedType DEF ApproveLock
  <2>3. e \in Entry
    BY <2>1, <2>2 DEF Entry, Status
  <2>4. TableType(table')
    BY <1>t, <1>9, <2>3, DecideType DEF ApproveLock, Approve
  <2> QED BY <1>t, <1>9, <2>1, <2>2, <2>4 DEF TypeOK, TableType, ApproveLock, Name, Goto, Job, Location, tableVars, envVars, idVars
<1>10. ASSUME NEW h \in Handler, RejectLock(h)
      PROVE  TypeOK'
  <2> DEFINE rid == job[h].rid
             e   == [Requested(table, rid) EXCEPT !.status = "Rejected"]
  <2>1. table.pending[rid] \in Cert /\ Requested(table, rid) \in Entry
    BY <1>t, <1>10, RequestedType DEF RejectLock
  <2>2. e \in Entry
    BY <2>1 DEF Entry, Status
  <2>3. TableType(table')
    BY <1>t, <1>10, <2>2, DecideType DEF RejectLock, Reject
  <2> QED BY <1>t, <1>10, <2>1, <2>3 DEF TypeOK, TableType, RejectLock, Name, Goto, Job, Location, tableVars, envVars, idVars
<1>11. ASSUME NEW h \in Handler, DecisionRefused(h)
      PROVE  TypeOK'
  <2>1. TableType(table')
    BY <1>t, <1>11, RemovePendingType DEF DecisionRefused
  <2> QED BY <1>t, <1>11, <2>1 DEF TypeOK, TableType, DecisionRefused, Finish, NoJob, Job, Operation, Location, Bitmap, tableVars, envVars, idVars
<1>12. ASSUME NEW h \in Handler, ConfirmLock(h)
      PROVE  TypeOK'
  <2> DEFINE rid == job[h].rid
             r   == Requested(table, rid)
             e   == [r EXCEPT !.bitmap = r.requested, !.status = "Active"]
  <2>1. FoundByRequestId(table, rid)
    BY <1>t, <1>12 DEF ConfirmLock, Confirmable
  <2>2. table.pending[rid] \in Cert /\ r \in Entry
    BY <1>t, <1>12, <2>1, RequestedType
  <2>3. e \in Entry
    BY <2>2 DEF Entry, Status
  <2>4. TableType(table')
    BY <1>t, <1>12, <2>3, DecideType DEF ConfirmLock, Confirm, Approve
  <2> QED BY <1>t, <1>12, <2>2, <2>4 DEF TypeOK, TableType, ConfirmLock, Name, Goto, Job, Location, tableVars, envVars, idVars
<1>13. ASSUME NEW h \in Handler, DecideLog(h)
      PROVE  TypeOK'
  <2>1. job[h].cert \in Cert /\ job[h].bitmap \in Bitmap /\ FilterGrant(job[h].bitmap) \in Bitmap
    BY <1>t, <1>13, FilterType DEF DecideLog, CoreInv, JobInv, TypeOK, Job
  <2>2. /\ DOMAIN eventLog' = {"events", "nextSeq"}
        /\ eventLog'.events \in Seq(Event)
        /\ eventLog'.nextSeq \in Nat
    <3>1. DecisionKind(job[h].op) \in EventKind /\ {} \in Bitmap
      BY DEF DecisionKind, EventKind, Bitmap
    <3> QED BY <1>t, <1>13, <2>1, <3>1, PushType DEF DecideLog, TypeOK
  <2> QED BY <1>t, <1>13, <2>2 DEF TypeOK, DecideLog, Goto, Location, tableVars, envVars, idVars
<1>14. ASSUME NEW h \in Handler, DecidePut(h)
      PROVE  TypeOK'
  <2>1. job[h].cert \in DOMAIN table.entries /\ job[h].cert \in Cert
    BY <1>t, <1>14 DEF DecidePut, CoreInv, PutWritesDecision, Known, TypeOK, PartialFunction
  <2>2. PartialFunction(store', Cert, Entry) /\ unsaved' \subseteq Cert
    <3>1. table.entries[job[h].cert] \in Entry
      BY <1>t, <1>14, <2>1 DEF TypeOK, PartialFunction
    <3> QED BY <1>t, <1>14, <2>1, <3>1, InsertType DEF DecidePut, Put, TypeOK
  <2> QED BY <1>t, <1>14, <2>2 DEF TypeOK, DecidePut, Finish, NoJob, Job, Operation, Location, Bitmap, tableVars, envVars, idVars
<1>15. ASSUME NEW h \in Handler, ConfirmPut(h)
      PROVE  TypeOK'
  <2>1. job[h].cert \in DOMAIN table.entries /\ job[h].cert \in Cert
    BY <1>t, <1>15 DEF ConfirmPut, CoreInv, PutWritesDecision, Known, TypeOK, PartialFunction
  <2>2. PartialFunction(store', Cert, Entry) /\ unsaved' \subseteq Cert
    <3>1. table.entries[job[h].cert] \in Entry
      BY <1>t, <1>15, <2>1 DEF TypeOK, PartialFunction
    <3> QED BY <1>t, <1>15, <2>1, <3>1, InsertType DEF ConfirmPut, Put, TypeOK
  <2> QED BY <1>t, <1>15, <2>2 DEF TypeOK, ConfirmPut, Finish, NoJob, Job, Operation, Location, Bitmap, tableVars, envVars, idVars
<1>16. ASSUME NEW h \in Handler, Disconnect(h)
      PROVE  TypeOK'
  <2>1. pc[h] \in Unfinished => job[h].cert \in Cert
    BY <1>t, <1>16 DEF Unfinished, CoreInv, JobInv, Cert, TypeOK
  <2> QED BY <1>t, <1>16, <2>1 DEF TypeOK, Disconnect, Finish, NoJob, Job, Operation, Location, Bitmap, tableVars, envVars, idVars
<1>17. ASSUME Collect
      PROVE  TypeOK'
  <2>1. TableType(table')
    BY <1>t, <1>17, GcType DEF Collect
  <2> QED BY <1>t, <1>17, <2>1 DEF TypeOK, TableType, Collect, jobVars, idVars
<1>18. ASSUME Tick
      PROVE  TypeOK'
  BY <1>t, <1>18 DEF TypeOK, Tick, tableVars, jobVars, idVars
<1>19. ASSUME Crash
      PROVE  TypeOK'
  <2>1. TableType(EmptyTable)
    BY EmptyType DEF EmptyTable, TableType
  <2>2. NoJob \in Job
    BY DEF NoJob, Job, Operation, Bitmap
  <2>3. EmptyLog.events \in Seq(Event) /\ EmptyLog.nextSeq \in Nat
         /\ DOMAIN EmptyLog = {"events", "nextSeq"}
    BY DEF EmptyLog
  <2>4. TableType(table') /\ pc' \in [Handler -> Location] /\ job' \in [Handler -> Job]
    BY <1>19, <2>1, <2>2 DEF Crash, Location
  <2> QED BY <1>t, <1>19, <2>3, <2>4 DEF TypeOK, TableType, Crash, idVars
<1>20. ASSUME Start
      PROVE  TypeOK'
  <2>1. PartialFunction(SeedEntries, Cert, Entry)
    BY <1>t, <1>20 DEF SeedEntries, PartialFunction, Entry, Status, Cert, TypeOK
  <2>2. PartialFunction(Restored, Cert, Entry)
    BY <1>t, <1>20, EmptyType DEF Restored, TypeOK
  <2>3. TableType(table')
    BY <1>t, <1>20, <2>1, <2>2, EmptyType DEF Start, TableType
  <2> QED BY <1>t, <1>20, <2>3 DEF TypeOK, TableType, Start, jobVars, idVars
<1>21. CASE UNCHANGED vars
  BY <1>t, <1>21 DEF TypeOK, vars
<1> QED
  BY <1>1, <1>2, <1>3, <1>4, <1>5, <1>6, <1>7, <1>8, <1>9, <1>10, <1>11, <1>12, <1>13, <1>14, <1>15, <1>16, <1>17, <1>18, <1>19, <1>20, <1>21
  DEF Next, Acquire, Proceed

------------------------------------------------------------------------------
(* Locks *)

\* No step breaks the mutual exclusion of the table lock.
LEMMA LockStep == CoreInv /\ [Next]_vars => LockInv'
<1> SUFFICES ASSUME CoreInv, [Next]_vars
             PROVE  LockInv'
  OBVIOUS
<1> USE GatewayAssumption
<1>t. TypeOK /\ LockInv
  BY DEF CoreInv
<1>1. ASSUME NEW h \in Handler, Request(h)
      PROVE  LockInv'
  <2>1. PICK r \in Job : Arrive(h, r) /\ r.rid \in Rid /\ (SignupFor(r) \/ DecisionOn(r))
    BY <1>1, RequestShape
  <2> QED BY <1>t, <2>1 DEF LockInv, Exclusive, TypeOK, Arrive, Goto, SignupFor, DecisionOn, tableVars, idVars, envVars
<1>2. ASSUME NEW h \in Handler, CsrLock(h)
      PROVE  LockInv'
  BY <1>t, <1>2 DEF LockInv, Exclusive, CanRead, CanWrite, TypeOK, CsrLock, Goto, tableVars, envVars, idVars
<1>3. ASSUME NEW h \in Handler, CsrLog(h)
      PROVE  LockInv'
  BY <1>t, <1>3 DEF LockInv, Exclusive, CanRead, CanWrite, TypeOK, CsrLog, Finish, tableVars, envVars, idVars
<1>4. ASSUME NEW h \in Handler, AddUnlogged(h)
      PROVE  LockInv'
  BY <1>t, <1>4 DEF LockInv, Exclusive, CanRead, CanWrite, TypeOK, AddUnlogged, Finish, tableVars, envVars, idVars
<1>5. ASSUME NEW h \in Handler, SignupConflict(h)
      PROVE  LockInv'
  BY <1>t, <1>5 DEF LockInv, Exclusive, CanRead, CanWrite, TypeOK, SignupConflict, Refuse, Finish, tableVars, envVars, idVars
<1>6. ASSUME NEW h \in Handler, ApproveLock(h)
      PROVE  LockInv'
  BY <1>t, <1>6 DEF LockInv, Exclusive, CanRead, CanWrite, TypeOK, ApproveLock, Name, Goto, tableVars, envVars, idVars
<1>7. ASSUME NEW h \in Handler, RejectLock(h)
      PROVE  LockInv'
  BY <1>t, <1>7 DEF LockInv, Exclusive, CanRead, CanWrite, TypeOK, RejectLock, Name, Goto, tableVars, envVars, idVars
<1>8. ASSUME NEW h \in Handler, DecisionRefused(h)
      PROVE  LockInv'
  BY <1>t, <1>8 DEF LockInv, Exclusive, CanRead, CanWrite, TypeOK, DecisionRefused, Finish, tableVars, envVars, idVars
<1>9. ASSUME NEW h \in Handler, ConfirmLock(h)
      PROVE  LockInv'
  BY <1>t, <1>9 DEF LockInv, Exclusive, CanRead, CanWrite, TypeOK, ConfirmLock, Name, Goto, tableVars, envVars, idVars
<1>10. ASSUME NEW h \in Handler, ConfirmRefused(h)
      PROVE  LockInv'
  BY <1>t, <1>10 DEF LockInv, Exclusive, CanRead, CanWrite, TypeOK, ConfirmRefused, Refuse, Finish, tableVars, envVars, idVars
<1>11. ASSUME NEW h \in Handler, ConfirmRead(h)
      PROVE  LockInv'
  BY <1>t, <1>11 DEF LockInv, Exclusive, CanRead, CanWrite, TypeOK, ConfirmRead, Goto, tableVars, envVars, idVars
<1>12. ASSUME NEW h \in Handler, ConfirmGone(h)
      PROVE  LockInv'
  BY <1>t, <1>12 DEF LockInv, Exclusive, CanRead, CanWrite, TypeOK, ConfirmGone, Refuse, Finish, tableVars, envVars, idVars
<1>13. ASSUME NEW h \in Handler, DecideLog(h)
      PROVE  LockInv'
  BY <1>t, <1>13 DEF LockInv, Exclusive, CanRead, CanWrite, TypeOK, DecideLog, Goto, tableVars, envVars, idVars
<1>14. ASSUME NEW h \in Handler, DecidePut(h)
      PROVE  LockInv'
  BY <1>t, <1>14 DEF LockInv, Exclusive, CanRead, CanWrite, TypeOK, DecidePut, Put, Finish, tableVars, envVars, idVars
<1>15. ASSUME NEW h \in Handler, ConfirmPut(h)
      PROVE  LockInv'
  BY <1>t, <1>15 DEF LockInv, Exclusive, CanRead, CanWrite, TypeOK, ConfirmPut, Put, Finish, tableVars, envVars, idVars
<1>16. ASSUME NEW h \in Handler, Disconnect(h)
      PROVE  LockInv'
  BY <1>t, <1>16 DEF LockInv, Exclusive, CanRead, CanWrite, TypeOK, Disconnect, Finish, tableVars, envVars, idVars
<1>17. ASSUME Collect
      PROVE  LockInv'
  BY <1>t, <1>17 DEF LockInv, Exclusive, CanRead, CanWrite, TypeOK, Collect, jobVars, idVars
<1>18. ASSUME Tick
      PROVE  LockInv'
  BY <1>t, <1>18 DEF LockInv, Exclusive, CanRead, CanWrite, TypeOK, Tick, tableVars, jobVars, idVars
<1>19. ASSUME Crash
      PROVE  LockInv'
  BY <1>t, <1>19 DEF LockInv, Exclusive, TypeOK, Crash, EmptyTable
<1>20. ASSUME Start
      PROVE  LockInv'
  BY <1>t, <1>20 DEF LockInv, Exclusive, CanRead, CanWrite, TypeOK, Start, jobVars, idVars
<1>21. CASE UNCHANGED vars
  BY <1>t, <1>21 DEF LockInv, Exclusive, CanRead, CanWrite, TypeOK, vars
<1> QED
  BY <1>1, <1>2, <1>3, <1>4, <1>5, <1>6, <1>7, <1>8, <1>9, <1>10, <1>11, <1>12, <1>13, <1>14, <1>15, <1>16, <1>17, <1>18, <1>19, <1>20, <1>21
  DEF Next, Acquire, Proceed

------------------------------------------------------------------------------
(* Jobs *)

\* No step takes a handler to a place its job does not fit.
LEMMA JobStep == CoreInv /\ [Next]_vars => JobInv'
<1> SUFFICES ASSUME CoreInv, [Next]_vars
             PROVE  JobInv'
  OBVIOUS
<1> USE GatewayAssumption
<1>t. TypeOK /\ LockInv /\ JobInv /\ EntryInv
  BY DEF CoreInv
<1>1. ASSUME NEW h \in Handler, Request(h)
      PROVE  JobInv'
  <2>1. PICK r \in Job : Arrive(h, r) /\ r.rid \in Rid /\ (SignupFor(r) \/ DecisionOn(r))
    BY <1>1, RequestShape
  <2>2. /\ r.rid < nextRid'
        /\ \A n \in Rid : n < nextRid => n < nextRid'
        /\ minted \subseteq minted'
    BY <1>t, <2>1 DEF SignupFor, DecisionOn, idVars, TypeOK, Rid
  <2>3. /\ pc' = [pc EXCEPT ![h] = "wait"]
        /\ job' = [job EXCEPT ![h] = r]
        /\ table' = table
    BY <2>1 DEF Arrive, Goto, tableVars
  <2>4. SUFFICES ASSUME NEW g \in Handler
                 PROVE  JobInv!(g)'
    BY DEF JobInv
  <2>5. CASE g = h
    BY <1>t, <2>1, <2>2, <2>3, <2>5 DEF TypeOK
  <2>6. CASE g # h
    BY <1>t, <2>2, <2>3, <2>6 DEF TypeOK, JobInv, Known
  <2> QED BY <2>5, <2>6
<1>2. ASSUME NEW h \in Handler, CsrLock(h)
      PROVE  JobInv'
  BY <1>t, <1>2 DEF JobInv, LockInv, Exclusive, CanWrite, CanRead, Known, TypeOK, CsrLock, Goto, tableVars, envVars, idVars
<1>3. ASSUME NEW h \in Handler, CsrLog(h)
      PROVE  JobInv'
  BY <1>t, <1>3 DEF JobInv, LockInv, Exclusive, CanWrite, CanRead, Known, TypeOK, CsrLog, Finish, tableVars, envVars, idVars
<1>4. ASSUME NEW h \in Handler, AddUnlogged(h)
      PROVE  JobInv'
  BY <1>t, <1>4 DEF JobInv, LockInv, Exclusive, CanWrite, CanRead, Known, TypeOK, AddUnlogged, Finish, tableVars, envVars, idVars
<1>5. ASSUME NEW h \in Handler, SignupConflict(h)
      PROVE  JobInv'
  BY <1>t, <1>5 DEF JobInv, LockInv, Exclusive, CanWrite, CanRead, Known, TypeOK, SignupConflict, Refuse, Finish, tableVars, envVars, idVars
<1>6. ASSUME NEW h \in Handler, ApproveLock(h)
      PROVE  JobInv'
  <2>1. table.pending[job[h].rid] \in Cert
    BY <1>t, <1>6 DEF ApproveLock, FoundByRequestId, TypeOK, PartialFunction
  <2> QED BY <1>t, <1>6, <2>1 DEF JobInv, LockInv, Exclusive, CanWrite, CanRead, Known, TypeOK, ApproveLock, Name, Goto, tableVars, envVars, idVars
<1>7. ASSUME NEW h \in Handler, RejectLock(h)
      PROVE  JobInv'
  <2>1. table.pending[job[h].rid] \in Cert
    BY <1>t, <1>7 DEF RejectLock, FoundByRequestId, TypeOK, PartialFunction
  <2> QED BY <1>t, <1>7, <2>1 DEF JobInv, LockInv, Exclusive, CanWrite, CanRead, Known, TypeOK, RejectLock, Name, Goto, tableVars, envVars, idVars
<1>8. ASSUME NEW h \in Handler, DecisionRefused(h)
      PROVE  JobInv'
  BY <1>t, <1>8 DEF JobInv, LockInv, Exclusive, CanWrite, CanRead, Known, TypeOK, DecisionRefused, Finish, tableVars, envVars, idVars
<1>9. ASSUME NEW h \in Handler, ConfirmLock(h)
      PROVE  JobInv'
  <2>1. table.pending[job[h].rid] \in minted
    BY <1>t, <1>9 DEF ConfirmLock, Confirmable, FoundByRequestId, Requested, EntryInv
  <2> QED BY <1>t, <1>9, <2>1 DEF JobInv, LockInv, Exclusive, CanWrite, CanRead, Known, TypeOK, ConfirmLock, Name, Goto, tableVars, envVars, idVars
<1>10. ASSUME NEW h \in Handler, ConfirmRefused(h)
      PROVE  JobInv'
  BY <1>t, <1>10 DEF JobInv, LockInv, Exclusive, CanWrite, CanRead, Known, TypeOK, ConfirmRefused, Refuse, Finish, tableVars, envVars, idVars
<1>11. ASSUME NEW h \in Handler, ConfirmRead(h)
      PROVE  JobInv'
  BY <1>t, <1>11 DEF JobInv, LockInv, Exclusive, CanWrite, CanRead, Known, TypeOK, ConfirmRead, Goto, tableVars, envVars, idVars
<1>12. ASSUME NEW h \in Handler, ConfirmGone(h)
      PROVE  JobInv'
  BY <1>t, <1>12 DEF JobInv, LockInv, Exclusive, CanWrite, CanRead, Known, TypeOK, ConfirmGone, Refuse, Finish, tableVars, envVars, idVars
<1>13. ASSUME NEW h \in Handler, DecideLog(h)
      PROVE  JobInv'
  BY <1>t, <1>13 DEF JobInv, LockInv, Exclusive, CanWrite, CanRead, Known, TypeOK, DecideLog, Goto, tableVars, envVars, idVars
<1>14. ASSUME NEW h \in Handler, DecidePut(h)
      PROVE  JobInv'
  BY <1>t, <1>14 DEF JobInv, LockInv, Exclusive, CanWrite, CanRead, Known, TypeOK, DecidePut, Put, Finish, tableVars, envVars, idVars
<1>15. ASSUME NEW h \in Handler, ConfirmPut(h)
      PROVE  JobInv'
  BY <1>t, <1>15 DEF JobInv, LockInv, Exclusive, CanWrite, CanRead, Known, TypeOK, ConfirmPut, Put, Finish, tableVars, envVars, idVars
<1>16. ASSUME NEW h \in Handler, Disconnect(h)
      PROVE  JobInv'
  BY <1>t, <1>16 DEF JobInv, LockInv, Exclusive, CanWrite, CanRead, Known, TypeOK, Disconnect, Finish, tableVars, envVars, idVars
<1>17. ASSUME Collect
      PROVE  JobInv'
  BY <1>t, <1>17 DEF JobInv, LockInv, Exclusive, CanWrite, CanRead, Known, TypeOK, Collect, jobVars, idVars
<1>18. ASSUME Tick
      PROVE  JobInv'
  BY <1>t, <1>18 DEF JobInv, LockInv, Exclusive, CanWrite, CanRead, Known, TypeOK, Tick, tableVars, jobVars, idVars
<1>19. ASSUME Crash
      PROVE  JobInv'
  BY <1>t, <1>19 DEF JobInv, LockInv, Exclusive, CanWrite, CanRead, Known, TypeOK, Crash, idVars
<1>20. ASSUME Start
      PROVE  JobInv'
  BY <1>t, <1>20 DEF JobInv, LockInv, Exclusive, CanWrite, CanRead, Known, TypeOK, Start, jobVars, idVars
<1>21. CASE UNCHANGED vars
  BY <1>t, <1>21 DEF JobInv, LockInv, Exclusive, CanWrite, CanRead, Known, TypeOK, vars
<1> QED
  BY <1>1, <1>2, <1>3, <1>4, <1>5, <1>6, <1>7, <1>8, <1>9, <1>10, <1>11, <1>12, <1>13, <1>14, <1>15, <1>16, <1>17, <1>18, <1>19, <1>20, <1>21
  DEF Next, Acquire, Proceed

------------------------------------------------------------------------------
(* What a step can do to the table: nothing, enter a signup, decide about a *)
(* request, or drop entries together with their request ids.                *)

TableSame ==
  table'.entries = table.entries /\ table'.pending = table.pending

TableAdds(h) ==
  LET c   == job[h].cert
      rid == job[h].rid
  IN  /\ ~Known(c)
      /\ DOMAIN table'.pending = DOMAIN table.pending \cup {rid}
      /\ table'.pending[rid] = c
      /\ \A r \in DOMAIN table.pending \ {rid} : table'.pending[r] = table.pending[r]
      /\ DOMAIN table'.entries = DOMAIN table.entries \cup {c}
      /\ \A d \in DOMAIN table.entries : table'.entries[d] = table.entries[d]
      /\ table'.entries[c].bitmap = {}
      /\ table'.entries[c].requested = job[h].bitmap
      /\ table'.entries[c].status \in Waiting
      /\ table'.entries[c].status = "PendingConfirm" => job[h].op # "cert"
      /\ table'.entries[c].createdAt = now
      /\ table'.entries[c].lastSeen = "never"

TableDecides(rid) ==
  LET c == table.pending[rid]
  IN  /\ FoundByRequestId(table, rid)
      /\ DOMAIN table'.pending = DOMAIN table.pending \ {rid}
      /\ \A r \in DOMAIN table'.pending : table'.pending[r] = table.pending[r]
      /\ DOMAIN table'.entries = DOMAIN table.entries
      /\ \A d \in DOMAIN table.entries \ {c} : table'.entries[d] = table.entries[d]
      /\ table'.entries[c].status \in Decided
      /\ table'.entries[c].createdAt = table.entries[c].createdAt
      /\ table'.entries[c].lastSeen = table.entries[c].lastSeen
      /\ c \notin Seeds \/ table'.entries[c].status = "Active" =>
           table'.entries[c].bitmap \subseteq GrantableBits(FALSE)

TableCollects ==
  /\ DOMAIN table'.entries = DOMAIN table.entries \ Collectable(table, now)
  /\ \A c \in DOMAIN table'.entries : table'.entries[c] = table.entries[c]
  /\ DOMAIN table'.pending =
       {rid \in DOMAIN table.pending : table.pending[rid] \notin Collectable(table, now)}
  /\ \A rid \in DOMAIN table'.pending : table'.pending[rid] = table.pending[rid]

\* What a device may ask for an administrator may give.
LEMMA RequestableGrantable == RequestableBits \subseteq GrantableBits(FALSE)
BY DEF RequestableBits, GrantableBits, Catalog

\* Table u is table t with the entry of request rid replaced by e and its id
\* used up.
DecidesTo(t, u, rid, e) ==
  LET c == t.pending[rid]
  IN  /\ DOMAIN u.pending = DOMAIN t.pending \ {rid}
      /\ \A r \in DOMAIN u.pending : u.pending[r] = t.pending[r]
      /\ DOMAIN u.entries = DOMAIN t.entries
      /\ \A d \in DOMAIN t.entries \ {c} : u.entries[d] = t.entries[d]
      /\ u.entries[c] = e

\* A decision replaces one entry and uses up one id.
LEMMA DecideEffect ==
  ASSUME NEW t, TableType(t), NEW rid, FoundByRequestId(t, rid), NEW e
  PROVE  DecidesTo(t, Decide(t, rid, e), rid, e)
BY DEF TableType, FoundByRequestId, Decide, RemovePending, Remove, DecidesTo

\* Table u is table t with entry e for certificate c and request rid.
AddsTo(t, u, c, rid, e) ==
  /\ DOMAIN u.pending = DOMAIN t.pending \cup {rid}
  /\ u.pending[rid] = c
  /\ \A r \in DOMAIN t.pending \ {rid} : u.pending[r] = t.pending[r]
  /\ DOMAIN u.entries = DOMAIN t.entries \cup {c}
  /\ \A d \in DOMAIN t.entries \ {c} : u.entries[d] = t.entries[d]
  /\ u.entries[c] = e

\* A signup adds one entry and one id.
LEMMA AddEffect ==
  ASSUME NEW t, NEW c, NEW rid, NEW b, NEW s, NEW n
  PROVE  AddsTo(t, AddPending(t, c, rid, b, s, n), c, rid,
                [bitmap |-> {}, requested |-> b, status |-> s,
                 createdAt |-> n, lastSeen |-> "never"])
BY DEF AddPending, Insert, AddsTo

\* The signup handlers enter the signup.
LEMMA AddStep ==
  ASSUME CoreInv, NEW h \in Handler, CsrLog(h) \/ AddUnlogged(h)
  PROVE  TableAdds(h) /\ Signing(h)
<1> DEFINE E(s) == [bitmap |-> {}, requested |-> job[h].bitmap, status |-> s,
                    createdAt |-> now, lastSeen |-> "never"]
<1>1. CASE CsrLog(h)
  <2>1. ~Known(job[h].cert) /\ job[h].op = "csr" /\ pc[h] = "csr_log"
    BY <1>1 DEF CoreInv, JobInv, CsrLog
  <2>2. AddsTo(table, table', job[h].cert, job[h].rid, E("PendingConfirm"))
    BY <1>1, AddEffect DEF CsrLog
  <2> QED BY <2>1, <2>2 DEF AddsTo, TableAdds, Known, Waiting, Signing
<1>2. CASE AddUnlogged(h)
  <2> DEFINE s == InitialStatus(job[h].op)
  <2>1. /\ ~Known(job[h].cert) /\ pc[h] = "wait"
        /\ job[h].op \in {"pubkey", "cert"}
    BY <1>2 DEF AddUnlogged
  <2>2. s \in Waiting /\ (s = "PendingConfirm" => job[h].op # "cert")
    BY <2>1 DEF InitialStatus, Waiting
  <2>3. AddsTo(table, table', job[h].cert, job[h].rid, E(s))
    BY <1>2, AddEffect DEF AddUnlogged
  <2> HIDE DEF s
  <2> QED BY <2>1, <2>2, <2>3 DEF AddsTo, TableAdds, Known, Signing
<1> QED BY <1>1, <1>2

\* The decision handlers decide.
LEMMA DecideStep ==
  ASSUME CoreInv, NEW h \in Handler, ApproveLock(h) \/ RejectLock(h) \/ ConfirmLock(h)
  PROVE  /\ TableDecides(job[h].rid)
         /\ job' = [job EXCEPT ![h].cert = table.pending[job[h].rid]]
<1> DEFINE rid == job[h].rid
           c   == table.pending[rid]
           r   == table.entries[c]
           Outcome(e) == /\ e.status \in Decided
                         /\ e.createdAt = r.createdAt
                         /\ e.lastSeen = r.lastSeen
                         /\ c \notin Seeds \/ e.status = "Active" =>
                              e.bitmap \subseteq GrantableBits(FALSE)
<1>t. TableType(table) /\ TypeOK
  BY DEF CoreInv, TypeOK, TableType
<1>f. FoundByRequestId(table, rid)
  BY DEF ApproveLock, RejectLock, ConfirmLock, Confirmable
<1>r. r \in Entry /\ c \in DOMAIN table.entries
  BY <1>t, <1>f, RequestedType DEF Requested, FoundByRequestId
<1>1. ASSUME ApproveLock(h)
      PROVE  \E e : table' = Decide(table, rid, e) /\ Outcome(e)
  <2> DEFINE e == [r EXCEPT !.bitmap = FilterGrant(job[h].bitmap), !.status = "Active"]
  <2>1. table' = Decide(table, rid, e)
    BY <1>1 DEF ApproveLock, Approve, Requested
  <2>2. Outcome(e)
    BY <1>r DEF Entry, Decided, FilterGrant
  <2> QED BY <2>1, <2>2
<1>2. ASSUME RejectLock(h)
      PROVE  \E e : table' = Decide(table, rid, e) /\ Outcome(e)
  <2> DEFINE e == [r EXCEPT !.status = "Rejected"]
  <2>1. table' = Decide(table, rid, e)
    BY <1>2 DEF RejectLock, Reject, Requested
  <2>2. c \notin Seeds => r.bitmap \subseteq GrantableBits(FALSE)
    BY <1>r DEF CoreInv, EntryInv
  <2>3. Outcome(e)
    BY <1>r, <2>2 DEF Entry, Decided
  <2> QED BY <2>1, <2>3
<1>3. ASSUME ConfirmLock(h)
      PROVE  \E e : table' = Decide(table, rid, e) /\ Outcome(e)
  <2> DEFINE e == [r EXCEPT !.bitmap = r.requested, !.status = "Active"]
  <2>1. table' = Decide(table, rid, e)
    BY <1>3 DEF ConfirmLock, Confirm, Approve, Requested
  <2>2. r.requested \subseteq GrantableBits(FALSE)
    BY <1>3, <1>r, RequestableGrantable
    DEF ConfirmLock, Confirmable, Requested, CoreInv, EntryInv, Waiting
  <2>3. Outcome(e)
    BY <1>r, <2>2 DEF Entry, Decided
  <2> QED BY <2>1, <2>3
<1>4. PICK e : table' = Decide(table, rid, e) /\ Outcome(e)
  BY <1>1, <1>2, <1>3
<1>5. TableDecides(rid)
  <2>1. DecidesTo(table, table', rid, e)
    BY <1>t, <1>f, <1>4, DecideEffect
  <2> QED BY <1>f, <1>4, <2>1 DEF DecidesTo, TableDecides
<1>6. job' = [job EXCEPT ![h].cert = table.pending[job[h].rid]]
  BY DEF ApproveLock, RejectLock, ConfirmLock, Name
<1> QED BY <1>5, <1>6

\* A refused decision finds no id to use up.
LEMMA RefusedStep ==
  ASSUME CoreInv, NEW h \in Handler, DecisionRefused(h)
  PROVE  TableSame
<1>1. CASE UNCHANGED table
  BY <1>1 DEF TableSame
<1>2. CASE /\ ~FoundByRequestId(table, job[h].rid)
           /\ table' = RemovePending(table, job[h].rid)
  <2>1. job[h].rid \notin DOMAIN table.pending
    BY <1>2 DEF CoreInv, PendingMatchesEntries, FoundByRequestId
  <2>2. Remove(table.pending, {job[h].rid}) = table.pending
    <3>1. table.pending = [r \in DOMAIN table.pending |-> table.pending[r]]
      BY DEF CoreInv, TypeOK, PartialFunction
    <3>2. DOMAIN table.pending \ {job[h].rid} = DOMAIN table.pending
      BY <2>1
    <3> QED BY <3>1, <3>2 DEF Remove
  <2>3. DOMAIN table = {"entries", "pending"}
    BY DEF CoreInv, TypeOK
  <2> QED BY <1>2, <2>2, <2>3 DEF RemovePending, TableSame
<1> QED BY <1>1, <1>2 DEF DecisionRefused

\* The collector collects.
LEMMA CollectStep ==
  ASSUME CoreInv, Collect
  PROVE  TableCollects
BY DEF Collect, Gc, Remove, TableCollects

\* The steps of a handler that leave the table alone.
QuietStep(h) ==
  \/ Request(h) \/ CsrLock(h) \/ SignupConflict(h) \/ ConfirmRefused(h)
  \/ ConfirmRead(h) \/ ConfirmGone(h) \/ DecideLog(h) \/ DecidePut(h)
  \/ ConfirmPut(h) \/ Disconnect(h)

\* A quiet step leaves the table alone.
LEMMA QuietStepTable ==
  ASSUME NEW h \in Handler, QuietStep(h)
  PROVE  table' = table
<1>1. CASE Request(h)
  <2>1. PICK r \in Job : Arrive(h, r)
    BY <1>1, RequestShape
  <2> QED BY <2>1 DEF Arrive, tableVars
<1>2. CASE ~Request(h)
  BY <1>2 DEF QuietStep, CsrLock, SignupConflict, ConfirmRefused, ConfirmRead, ConfirmGone,
     Refuse, DecideLog, DecidePut, ConfirmPut, Disconnect, tableVars
<1> QED BY <1>1, <1>2

\* Every step but a crash and a start does one of four things to the table.
LEMMA TableMoves ==
  ASSUME CoreInv, [Next]_vars
  PROVE  \/ TableSame
         \/ \E h \in Handler : Signing(h) /\ TableAdds(h)
         \/ \E h \in Handler : ApproveLock(h) \/ RejectLock(h) \/ ConfirmLock(h)
         \/ up /\ TableCollects
         \/ Crash
         \/ Start
<1>1. ASSUME NEW h \in Handler, QuietStep(h)
      PROVE  TableSame
  BY <1>1, QuietStepTable DEF TableSame
<1>2. CASE UNCHANGED vars
  BY <1>2 DEF vars, TableSame
<1>3. CASE Tick
  BY <1>3 DEF Tick, tableVars, TableSame
<1> QED
  BY <1>1, <1>2, <1>3, AddStep, RefusedStep, CollectStep
  DEF Next, Acquire, Proceed, QuietStep, Collect, CanWrite

\* The same, where only the decided request matters.
LEMMA TableShape ==
  ASSUME CoreInv, [Next]_vars
  PROVE  \/ TableSame
         \/ \E h \in Handler : Signing(h) /\ TableAdds(h)
         \/ \E rid \in Rid : TableDecides(rid)
         \/ TableCollects
         \/ Crash
         \/ Start
<1>1. ASSUME NEW h \in Handler, ApproveLock(h) \/ RejectLock(h) \/ ConfirmLock(h)
      PROVE  \E rid \in Rid : TableDecides(rid)
  <2>1. job[h].rid \in Rid
    BY <1>1 DEF ApproveLock, RejectLock, ConfirmLock, CoreInv, JobInv
  <2> QED BY <1>1, <2>1, DecideStep
<1> QED BY <1>1, TableMoves

\* Request ids are drawn upwards and minted certificates stay minted.
LEMMA Monotone ==
  ASSUME CoreInv, [Next]_vars
  PROVE  nextRid <= nextRid' /\ minted \subseteq minted'
<1>t. TypeOK
  BY DEF CoreInv
<1>1. ASSUME NEW h \in Handler, Request(h)
      PROVE  nextRid <= nextRid' /\ minted \subseteq minted'
  <2>1. PICK r \in Job : SignupFor(r) \/ DecisionOn(r)
    BY <1>1, RequestShape
  <2> QED BY <1>t, <2>1 DEF SignupFor, DecisionOn, idVars, TypeOK
<1>2. CASE UNCHANGED idVars
  BY <1>t, <1>2 DEF idVars, TypeOK
<1>3. ASSUME NEW h \in Handler, Acquire(h)
      PROVE  UNCHANGED idVars
  BY <1>3 DEF Acquire, CsrLock, AddUnlogged, SignupConflict, ApproveLock, RejectLock,
     DecisionRefused, ConfirmLock, ConfirmRefused, ConfirmRead, ConfirmGone, Refuse
<1>4. ASSUME NEW h \in Handler, Proceed(h) \/ Disconnect(h)
      PROVE  UNCHANGED idVars
  BY <1>4 DEF Proceed, CsrLog, DecideLog, DecidePut, ConfirmPut, Disconnect
<1>5. ASSUME Collect \/ Tick \/ Crash \/ Start \/ UNCHANGED vars
      PROVE  UNCHANGED idVars
  BY <1>5 DEF Collect, Tick, Crash, Start, vars, idVars
<1> QED BY <1>1, <1>2, <1>3, <1>4, <1>5 DEF Next

------------------------------------------------------------------------------
(* The table's own invariants *)

\* A restart fills the table with decided entries only, and no request ids.
LEMMA StartShape ==
  ASSUME CoreInv, Start
  PROVE  /\ DOMAIN table'.pending = {}
         /\ \A c \in DOMAIN table'.entries :
              /\ table'.entries[c].status \in Decided
              /\ table'.entries[c].lastSeen = "never"
              /\ c \notin Seeds => table'.entries[c].bitmap \subseteq GrantableBits(FALSE)
              /\ c \in Issued => c \in minted
<1>1. /\ table'.pending = << >>
      /\ table'.entries = IF DOMAIN Restored = {} THEN SeedEntries ELSE Restored
  BY DEF Start
<1>2. DOMAIN table'.pending = {}
  BY <1>1
<1>3. CASE DOMAIN Restored = {}
  <2>1. DOMAIN SeedEntries \subseteq Seeds
    BY DEF SeedEntries
  <2>2. \A c \in DOMAIN SeedEntries :
           SeedEntries[c].status = "Active" /\ SeedEntries[c].lastSeen = "never"
    BY <2>1 DEF SeedEntries
  <2> HIDE DEF SeedEntries
  <2>3. table'.entries = SeedEntries
    BY <1>1, <1>3
  <2>4. \A c \in Seeds : c \notin Issued
    BY GatewayAssumption
  <2> QED BY <1>2, <2>1, <2>2, <2>3, <2>4 DEF Decided
<1>4. CASE DOMAIN Restored # {}
  <2>1. Restored = store
    BY <1>4 DEF Restored
  <2>2. table'.entries = store
    BY <1>1, <1>4, <2>1
  <2> QED BY <1>2, <2>2 DEF CoreInv, StoreInv
<1> QED BY <1>3, <1>4

\* Every step keeps the pending map and the entries in agreement.
LEMMA PendingStep ==
  ASSUME CoreInv, [Next]_vars
  PROVE  PendingMatchesEntries'
<1>t. PendingMatchesEntries
  BY DEF CoreInv
<1>1. CASE TableSame
  BY <1>t, <1>1 DEF PendingMatchesEntries, TableSame
<1>2. ASSUME NEW h \in Handler, Signing(h), TableAdds(h)
      PROVE  PendingMatchesEntries'
  <2>1. job[h].rid \notin DOMAIN table.pending
    BY <1>2 DEF CoreInv, FreshInv
  <2>2. job[h].cert \notin DOMAIN table.entries
    BY <1>2 DEF TableAdds, Known
  <2> QED BY <1>t, <1>2, <2>1, <2>2 DEF PendingMatchesEntries, TableAdds
<1>3. ASSUME NEW rid \in Rid, TableDecides(rid)
      PROVE  PendingMatchesEntries'
  <2>1. rid \in DOMAIN table.pending
    BY <1>3 DEF TableDecides, FoundByRequestId
  <2> QED BY <1>t, <1>3, <2>1 DEF PendingMatchesEntries, TableDecides, Waiting, Decided
<1>4. CASE TableCollects
  BY <1>t, <1>4 DEF PendingMatchesEntries, TableCollects
<1>5. CASE Crash
  BY <1>5 DEF Crash, EmptyTable, PendingMatchesEntries
<1>6. CASE Start
  BY <1>6, StartShape DEF PendingMatchesEntries, Waiting, Decided
<1> QED BY <1>1, <1>2, <1>3, <1>4, <1>5, <1>6, TableShape

\* Every step keeps what is said of the entries.
LEMMA EntryStep ==
  ASSUME CoreInv, [Next]_vars
  PROVE  EntryInv'
<1>t. EntryInv /\ TypeOK
  BY DEF CoreInv
<1>m. nextRid <= nextRid' /\ minted \subseteq minted' /\ nextRid \in Nat /\ nextRid' \in Nat
  BY <1>t, Monotone, TypeStep DEF TypeOK
<1>p. \A rid \in DOMAIN table.pending : rid \in Rid
  BY <1>t DEF TypeOK, PartialFunction
<1>1. CASE TableSame
  <2>1. \A r \in DOMAIN table'.pending : r < nextRid'
    BY <1>t, <1>m, <1>p, <1>1 DEF TableSame, EntryInv, Rid
  <2>2. ASSUME NEW d \in DOMAIN table'.entries
        PROVE  EntryInv!2!(d)'
    BY <1>t, <1>m, <1>1 DEF TableSame, EntryInv
  <2> QED BY <2>1, <2>2 DEF EntryInv
<1>2. ASSUME NEW h \in Handler, Signing(h), TableAdds(h)
      PROVE  EntryInv'
  <2> DEFINE c   == job[h].cert
             rid == job[h].rid
  <2>1. rid \in Rid /\ rid < nextRid
    BY <1>2 DEF CoreInv, JobInv, Signing
  <2>2. /\ c \in Issued => c \in minted
        /\ job[h].op # "cert" => c \in Issued
        /\ job[h].bitmap \subseteq RequestableBits
    BY <1>t, <1>2 DEF CoreInv, FreshInv, Minting, TypeOK
  <2>3. \A r \in DOMAIN table'.pending : r < nextRid'
    BY <1>t, <1>m, <1>p, <1>2, <2>1 DEF TableAdds, EntryInv, Rid
  <2>4. ASSUME NEW d \in DOMAIN table'.entries
        PROVE  EntryInv!2!(d)'
    <3>1. CASE d = c
      BY <1>m, <1>2, <2>2, <3>1 DEF TableAdds
    <3>2. CASE d # c
      BY <1>t, <1>m, <1>2, <3>2 DEF TableAdds, EntryInv
    <3> QED BY <3>1, <3>2
  <2> QED BY <2>3, <2>4 DEF EntryInv
<1>3. ASSUME NEW rid \in Rid, TableDecides(rid)
      PROVE  EntryInv'
  <2> DEFINE c == table.pending[rid]
  <2>1. \A r \in DOMAIN table'.pending : r < nextRid'
    BY <1>t, <1>m, <1>p, <1>3 DEF TableDecides, EntryInv, Rid
  <2>2. ASSUME NEW d \in DOMAIN table'.entries
        PROVE  EntryInv!2!(d)'
    <3>1. CASE d = c
      BY <1>t, <1>m, <1>3, <3>1 DEF TableDecides, FoundByRequestId, EntryInv, Waiting, Decided
    <3>2. CASE d # c
      BY <1>t, <1>m, <1>3, <3>2 DEF TableDecides, EntryInv
    <3> QED BY <3>1, <3>2
  <2> QED BY <2>1, <2>2 DEF EntryInv
<1>4. CASE TableCollects
  <2>1. \A r \in DOMAIN table'.pending : r < nextRid'
    BY <1>t, <1>m, <1>p, <1>4 DEF TableCollects, EntryInv, Rid
  <2>2. ASSUME NEW d \in DOMAIN table'.entries
        PROVE  EntryInv!2!(d)'
    BY <1>t, <1>m, <1>4 DEF TableCollects, EntryInv
  <2> QED BY <2>1, <2>2 DEF EntryInv
<1>5. CASE Crash
  BY <1>5 DEF Crash, EmptyTable, EntryInv
<1>6. CASE Start
  BY <1>m, <1>6, StartShape DEF EntryInv, Waiting, Decided
<1> QED BY <1>1, <1>2, <1>3, <1>4, <1>5, <1>6, TableShape

------------------------------------------------------------------------------
(* The store *)

\* Every step keeps what is said of the store.
LEMMA StoreStep ==
  ASSUME CoreInv, [Next]_vars
  PROVE  StoreInv'
<1>t. StoreInv /\ TypeOK
  BY DEF CoreInv
<1>m. minted \subseteq minted'
  BY Monotone
<1>1. CASE store' = store
  BY <1>t, <1>m, <1>1 DEF StoreInv
<1>2. ASSUME NEW h \in Handler, DecidePut(h) \/ ConfirmPut(h), store' # store
      PROVE  StoreInv'
  <2> DEFINE c == job[h].cert
  <2>1. store' = Insert(store, c, table.entries[c])
    BY <1>2 DEF DecidePut, ConfirmPut, Put
  <2>2. c \in DOMAIN table.entries /\ table.entries[c].status \in Decided
    BY <1>2 DEF DecidePut, ConfirmPut, CoreInv, PutWritesDecision, Known
  <2>3. /\ table.entries[c].lastSeen = "never"
        /\ c \notin Seeds => table.entries[c].bitmap \subseteq GrantableBits(FALSE)
        /\ c \in Issued => c \in minted
    BY <2>2 DEF CoreInv, EntryInv
  <2>4. DOMAIN store' = DOMAIN store \cup {c} /\ store'[c] = table.entries[c]
        /\ \A d \in DOMAIN store \ {c} : store'[d] = store[d]
    BY <2>1 DEF Insert
  <2>5. ASSUME NEW d \in DOMAIN store'
        PROVE  StoreInv!(d)'
    <3>1. CASE d = c
      BY <1>m, <2>2, <2>3, <2>4, <3>1
    <3>2. CASE d # c
      BY <1>t, <1>m, <2>4, <3>2 DEF StoreInv
    <3> QED BY <3>1, <3>2
  <2> QED BY <2>5 DEF StoreInv
<1>3. ASSUME NEW h \in Handler, Request(h)
      PROVE  store' = store
  <2>1. PICK r \in Job : Arrive(h, r)
    BY <1>3, RequestShape
  <2> QED BY <2>1 DEF Arrive
<1>4. ASSUME NEW h \in Handler, Acquire(h) \/ CsrLog(h) \/ DecideLog(h) \/ Disconnect(h)
      PROVE  store' = store
  BY <1>4 DEF Acquire, CsrLock, AddUnlogged, SignupConflict, ApproveLock, RejectLock,
     DecisionRefused, ConfirmLock, ConfirmRefused, ConfirmRead, ConfirmGone, Refuse,
     CsrLog, DecideLog, Disconnect
<1>5. ASSUME Collect \/ Tick \/ Crash \/ Start \/ UNCHANGED vars
      PROVE  store' = store
  BY <1>5 DEF Collect, Tick, Crash, Start, vars
<1> QED BY <1>1, <1>2, <1>3, <1>4, <1>5 DEF Next, Proceed

------------------------------------------------------------------------------
(* The handlers *)

OthersKeep(h) ==
  \A g \in Handler \ {h} : pc'[g] = pc[g] /\ job'[g] = job[g]

\* What a handler's own step does to the handlers: no other is disturbed, and
\* the handler itself goes on signing up or confirming, starts confirming, or
\* does neither.
LEMMA HandlerShape ==
  ASSUME TypeOK, NEW h \in Handler, Acquire(h) \/ Proceed(h) \/ Disconnect(h)
  PROVE  /\ OthersKeep(h)
         /\ UNCHANGED idVars
         /\ Signing(h)' => Signing(h) /\ job'[h] = job[h] /\ table' = table
         /\ pc'[h] \in Confirming =>
              \/ pc[h] \in Confirming /\ job'[h] = job[h] /\ table' = table
              \/ ConfirmLock(h)
<1> USE DEF OthersKeep, TypeOK
<1>1. CASE CsrLock(h)
  BY <1>1 DEF CsrLock, Goto, Signing, Confirming, tableVars
<1>2. CASE ConfirmRead(h)
  BY <1>2 DEF ConfirmRead, Goto, Signing, Confirming, tableVars
<1>3. CASE ApproveLock(h) \/ RejectLock(h)
  BY <1>3 DEF ApproveLock, RejectLock, Goto, Name, Signing, Confirming
<1>4. CASE ConfirmLock(h)
  BY <1>4 DEF ConfirmLock, Goto, Name, Signing, Confirming
<1>5. CASE DecideLog(h)
  BY <1>5 DEF DecideLog, Goto, Signing, Confirming
<1>6. ASSUME Finish(h)
      PROVE  OthersKeep(h) /\ ~Signing(h)' /\ pc'[h] \notin Confirming
  BY <1>6 DEF Finish, Signing, Confirming
<1>7. CASE AddUnlogged(h) \/ SignupConflict(h) \/ DecisionRefused(h) \/ ConfirmRefused(h)
           \/ ConfirmGone(h)
  BY <1>6, <1>7 DEF AddUnlogged, SignupConflict, DecisionRefused, ConfirmRefused,
     ConfirmGone, Refuse
<1>8. CASE CsrLog(h) \/ DecidePut(h) \/ ConfirmPut(h) \/ Disconnect(h)
  BY <1>6, <1>8 DEF CsrLog, DecidePut, ConfirmPut, Disconnect
<1> QED BY <1>1, <1>2, <1>3, <1>4, <1>5, <1>7, <1>8 DEF Acquire, Proceed

\* What a handler's own step does to the table.
LEMMA HandlerTable ==
  ASSUME CoreInv, NEW h \in Handler, Acquire(h) \/ Proceed(h) \/ Disconnect(h)
  PROVE  TableSame \/ (Signing(h) /\ TableAdds(h)) \/ TableDecides(job[h].rid)
<1>1. CASE QuietStep(h)
  BY <1>1, QuietStepTable DEF TableSame
<1> QED BY <1>1, AddStep, DecideStep, RefusedStep DEF Acquire, Proceed, QuietStep

\* A request that arrives disturbs no other handler.
LEMMA RequestKeeps ==
  ASSUME TypeOK, NEW h \in Handler, NEW r \in Job, Arrive(h, r)
  PROVE  /\ OthersKeep(h)
         /\ pc'[h] = "wait" /\ job'[h] = r
         /\ table' = table
BY DEF TypeOK, Arrive, Goto, OthersKeep, tableVars

\* A request that arrives keeps fresh what is fresh.
LEMMA FreshRequest ==
  ASSUME CoreInv, NEW h \in Handler, Request(h)
  PROVE  FreshInv'
<1>t. FreshInv /\ TypeOK
  BY DEF CoreInv
<1>1. PICK r \in Job : Arrive(h, r) /\ r.rid \in Rid /\ (SignupFor(r) \/ DecisionOn(r))
  BY RequestShape
<1>2. OthersKeep(h) /\ pc'[h] = "wait" /\ job'[h] = r /\ table' = table
  BY <1>t, <1>1, RequestKeeps
<1>3. \A g \in Handler \ {h} : /\ Signing(g)' <=> Signing(g)
                               /\ Minting(g)' <=> Minting(g)
                               /\ job'[g] = job[g] /\ pc'[g] = pc[g]
  BY <1>2 DEF OthersKeep, Signing, Minting
<1>4. CASE DecisionOn(r)
  <2>1. ~Signing(h)' /\ ~Minting(h)' /\ minted' = minted
    BY <1>2, <1>4 DEF DecisionOn, Signing, Minting, idVars
  <2> QED BY <1>t, <1>2, <1>3, <2>1 DEF FreshInv, Known
<1>5. CASE SignupFor(r)
  <2>1. nextRid \notin DOMAIN table.pending
    BY DEF CoreInv, EntryInv, TypeOK
  <2>2. \A g \in Handler : Signing(g) => job[g].rid # nextRid
    BY DEF CoreInv, JobInv, TypeOK, Signing, Rid
  <2>3. \A g \in Handler : Minting(g) => job[g].cert \in minted
    BY <1>t DEF FreshInv
  <2>4. \A g \in Handler : pc[g] \in {"confirm_read", "confirm_put"} => job[g].cert \in minted
    BY DEF CoreInv, JobInv
  <2>5. /\ r.cert \in Cert
        /\ r.op = "cert" => r.cert \notin Issued
        /\ Minting(h)' => /\ r.cert \notin minted /\ r.cert \in minted'
                          /\ ~Known(r.cert)'
    <3>1. \A c \in Issued \ minted : c \notin DOMAIN table.entries
      BY DEF CoreInv, EntryInv
    <3> QED BY <1>2, <1>5, <3>1 DEF SignupFor, Minting, Cert, Known
  <2>6. minted \subseteq minted' /\ r.rid = nextRid /\ r.bitmap \subseteq RequestableBits
    BY <1>5 DEF SignupFor
  <2>7. FreshInv!1'
    BY <1>t, <1>2, <1>3, <2>1, <2>5, <2>6 DEF FreshInv
  <2>8. FreshInv!2'
    BY <1>t, <1>2, <1>3, <2>2, <2>6 DEF FreshInv
  <2>9. FreshInv!3'
    BY <1>t, <1>2, <1>3, <2>5, <2>6 DEF FreshInv, Known
  <2>10. FreshInv!4'
    BY <1>t, <1>2, <1>3, <2>3, <2>4, <2>5 DEF FreshInv
  <2> QED BY <2>7, <2>8, <2>9, <2>10 DEF FreshInv
<1> QED BY <1>1, <1>4, <1>5

\* So does a handler's own step.
LEMMA FreshHandler ==
  ASSUME CoreInv, NEW h \in Handler, Acquire(h) \/ Proceed(h) \/ Disconnect(h)
  PROVE  FreshInv'
<1>t. FreshInv /\ TypeOK
  BY DEF CoreInv
<1>1. /\ OthersKeep(h)
      /\ minted' = minted
      /\ Signing(h)' => Signing(h) /\ job'[h] = job[h] /\ table' = table
      /\ pc'[h] \in Confirming =>
           \/ pc[h] \in Confirming /\ job'[h] = job[h] /\ table' = table
           \/ ConfirmLock(h)
  BY <1>t, HandlerShape DEF idVars
<1>2. \A g \in Handler : Signing(g)' => Signing(g) /\ job'[g] = job[g]
  BY <1>1 DEF OthersKeep, Signing
<1>3. \A g \in Handler : Minting(g)' => Minting(g) /\ job'[g] = job[g]
  BY <1>2 DEF Minting
<1>4. \A f, g \in Handler :
        f # g /\ Minting(g)' /\ pc'[f] \in Confirming => job'[f].cert # job'[g].cert
  <2>1. SUFFICES ASSUME NEW f \in Handler, NEW g \in Handler, f # g,
                        Minting(g)', pc'[f] \in Confirming
                 PROVE  job'[f].cert # job'[g].cert
    OBVIOUS
  <2>2. Minting(g) /\ job'[g] = job[g] /\ ~Known(job[g].cert)
    BY <1>t, <1>3, <2>1 DEF FreshInv
  <2>3. CASE pc[f] \in Confirming /\ job'[f] = job[f]
    BY <1>t, <2>1, <2>2, <2>3 DEF FreshInv, Confirming
  <2>4. CASE f = h /\ ConfirmLock(h)
    <3>1. TableDecides(job[h].rid) /\ job' = [job EXCEPT ![h].cert = table.pending[job[h].rid]]
      BY <2>4, DecideStep
    <3>2. job'[f].cert = table.pending[job[h].rid]
      BY <1>t, <2>4, <3>1 DEF TypeOK, Job
    <3>3. Known(job'[f].cert)
      BY <3>1, <3>2 DEF TableDecides, FoundByRequestId, Known
    <3> QED BY <2>2, <3>3
  <2> QED BY <1>1, <2>1, <2>3, <2>4 DEF OthersKeep
<1>5. FreshInv!2'
  BY <1>t, <1>2 DEF FreshInv
<1>6. FreshInv!4'
  BY <1>t, <1>3, <1>4 DEF FreshInv, Confirming
<1>7. /\ \A g \in Handler : Signing(g)' => job[g].rid \notin DOMAIN table'.pending
      /\ \A g \in Handler : Minting(g)' => ~Known(job[g].cert)'
  <2>1. CASE TableSame
    BY <1>t, <1>2, <1>3, <2>1 DEF FreshInv, TableSame, Known
  <2>2. CASE TableDecides(job[h].rid)
    BY <1>t, <1>2, <1>3, <2>2 DEF FreshInv, TableDecides, Known
  <2>3. CASE Signing(h) /\ TableAdds(h)
    <3>1. ~Signing(h)'
      BY <1>1, <2>3 DEF TableAdds, Known
    <3>2. ASSUME NEW g \in Handler, Signing(g)'
          PROVE  job[g].rid \notin DOMAIN table'.pending
      BY <1>t, <1>2, <2>3, <3>1, <3>2 DEF FreshInv, TableAdds
    <3>3. ASSUME NEW g \in Handler, Minting(g)'
          PROVE  ~Known(job[g].cert)'
      <4>1. g # h /\ Minting(g)
        BY <1>3, <3>1, <3>3 DEF Minting
      <4>2. job[g].cert # job[h].cert
        BY <1>t, <2>3, <4>1 DEF FreshInv, Minting, TypeOK
      <4>3. ~Known(job[g].cert)
        BY <1>t, <4>1 DEF FreshInv
      <4> QED BY <1>3, <2>3, <3>3, <4>2, <4>3 DEF TableAdds, Known
    <3> QED BY <3>2, <3>3
  <2> QED BY <2>1, <2>2, <2>3, HandlerTable
<1>8. FreshInv!1'
  BY <1>t, <1>2, <1>7 DEF FreshInv
<1>9. FreshInv!3'
  BY <1>t, <1>1, <1>3, <1>7 DEF FreshInv, Known
<1> QED BY <1>5, <1>6, <1>8, <1>9 DEF FreshInv

\* Every step keeps fresh what is fresh.
LEMMA FreshStep ==
  ASSUME CoreInv, [Next]_vars
  PROVE  FreshInv'
<1>t. FreshInv /\ TypeOK
  BY DEF CoreInv
<1>1. CASE Collect
  <2>1. TableCollects /\ pc' = pc /\ job' = job /\ minted' = minted
    BY <1>1, CollectStep DEF Collect, jobVars, idVars
  <2>2. DOMAIN table'.pending \subseteq DOMAIN table.pending
        /\ DOMAIN table'.entries \subseteq DOMAIN table.entries
    BY <2>1 DEF TableCollects
  <2> QED BY <1>t, <2>1, <2>2 DEF FreshInv, Signing, Minting, Known
<1>2. CASE Tick \/ UNCHANGED vars
  BY <1>t, <1>2 DEF FreshInv, Signing, Minting, Known, Tick, vars, tableVars, jobVars, idVars
<1>3. ASSUME \A g \in Handler : pc'[g] = "idle"
      PROVE  FreshInv'
  BY <1>3 DEF FreshInv, Signing, Minting
<1>4. CASE Crash
  BY <1>3, <1>4 DEF Crash
<1>5. CASE Start
  BY <1>3, <1>5 DEF Start, jobVars, CoreInv, LockInv
<1> QED BY <1>1, <1>2, <1>4, <1>5, FreshRequest, FreshHandler DEF Next

------------------------------------------------------------------------------
(* What a handler has decided stays decided until it is through with it. *)

\* While a handler holds a lock across an await, nobody else changes the table.
LEMMA LockedTable ==
  ASSUME CoreInv, [Next]_vars, NEW g \in Handler, pc[g] \in {"decide_log", "decide_put", "confirm_put"}
  PROVE  TableSame \/ Crash
<1>t. LockInv
  BY DEF CoreInv
<1>1. ~CanWrite
  BY <1>t, GatewayAssumption DEF LockInv, Exclusive, CanWrite
<1>2. \A h \in Handler : ~CsrLog(h)
  BY <1>t, GatewayAssumption DEF LockInv, Exclusive, CsrLog
<1>3. ASSUME NEW h \in Handler, QuietStep(h)
      PROVE  TableSame
  BY <1>3, QuietStepTable DEF TableSame
<1>4. \A h \in Handler : ~AddUnlogged(h) /\ ~ApproveLock(h) /\ ~RejectLock(h)
                         /\ ~DecisionRefused(h) /\ ~ConfirmLock(h)
  BY <1>1 DEF AddUnlogged, ApproveLock, RejectLock, DecisionRefused, ConfirmLock
<1>5. ~Collect
  BY <1>1 DEF Collect
<1>6. ~Start
  BY <1>t DEF Start, LockInv
<1>7. Tick \/ UNCHANGED vars => TableSame
  BY DEF Tick, tableVars, vars, TableSame
<1> QED BY <1>2, <1>3, <1>4, <1>5, <1>6, <1>7 DEF Next, Acquire, Proceed, QuietStep

Deciding == {"decide_log", "decide_put", "confirm_put"}

\* How a handler gets to where it holds a lock across an await with a decision
\* made: it was there, it has just decided, or it reads its confirmation again.
LEMMA DecidingShape ==
  ASSUME CoreInv, [Next]_vars, NEW g \in Handler, pc'[g] \in Deciding
  PROVE  \/ pc[g] \in Deciding /\ job'[g] = job[g]
         \/ ApproveLock(g) \/ RejectLock(g)
         \/ ConfirmRead(g)
<1>t. TypeOK
  BY DEF CoreInv
<1>1. ASSUME NEW h \in Handler, Request(h)
      PROVE  pc[g] \in Deciding /\ job'[g] = job[g]
  <2>1. PICK r \in Job : Arrive(h, r)
    BY <1>1, RequestShape
  <2>2. OthersKeep(h) /\ pc'[h] = "wait"
    BY <1>t, <2>1, RequestKeeps
  <2> QED BY <2>2 DEF OthersKeep, Deciding
<1>2. ASSUME NEW h \in Handler \ {g}, Acquire(h) \/ Proceed(h) \/ Disconnect(h)
      PROVE  pc[g] \in Deciding /\ job'[g] = job[g]
  BY <1>t, <1>2, HandlerShape DEF OthersKeep
<1>3. ASSUME Finish(g)
      PROVE  FALSE
  BY <1>t, <1>3 DEF Finish, TypeOK, Deciding
<1>4. CASE Acquire(g) /\ ~ApproveLock(g) /\ ~RejectLock(g) /\ ~ConfirmRead(g)
  <2>1. ~CsrLock(g) /\ ~ConfirmLock(g)
    BY <1>t DEF CsrLock, ConfirmLock, Goto, TypeOK, Deciding
  <2> QED BY <1>3, <1>4, <2>1 DEF Acquire, AddUnlogged, SignupConflict, DecisionRefused,
          ConfirmRefused, ConfirmGone, Refuse
<1>5. CASE Proceed(g) \/ Disconnect(g)
  <2>1. DecideLog(g)
    BY <1>3, <1>5 DEF Proceed, CsrLog, DecidePut, ConfirmPut, Disconnect
  <2> QED BY <2>1 DEF DecideLog, Deciding
<1>6. CASE Collect \/ Tick \/ Start \/ UNCHANGED vars
  BY <1>6 DEF Collect, Tick, Start, jobVars, vars
<1>7. ~Crash
  BY DEF Crash, Deciding
<1> QED BY <1>1, <1>2, <1>4, <1>5, <1>6, <1>7 DEF Next

\* Every step leaves a decided entry to every handler that is about to store
\* one.
LEMMA PutStep ==
  ASSUME CoreInv, [Next]_vars
  PROVE  PutWritesDecision'
<1>t. TypeOK /\ PutWritesDecision
  BY DEF CoreInv
<1> SUFFICES ASSUME NEW g \in Handler, pc'[g] \in Deciding
             PROVE  Known(job[g].cert)' /\ table'.entries[job'[g].cert].status \in Decided
  BY DEF PutWritesDecision, Deciding
<1>1. CASE pc[g] \in Deciding /\ job'[g] = job[g]
  <2>1. ~Crash
    BY DEF Crash, Deciding
  <2>2. TableSame
    BY <1>1, <2>1, LockedTable DEF Deciding
  <2> QED BY <1>t, <1>1, <2>2 DEF PutWritesDecision, Deciding, TableSame, Known
<1>2. CASE ApproveLock(g) \/ RejectLock(g)
  <2>1. TableDecides(job[g].rid) /\ job' = [job EXCEPT ![g].cert = table.pending[job[g].rid]]
    BY <1>2, DecideStep
  <2>2. job'[g].cert = table.pending[job[g].rid]
    BY <1>t, <2>1 DEF TypeOK, Job
  <2> QED BY <2>1, <2>2 DEF TableDecides, FoundByRequestId, Known
<1>3. CASE ConfirmRead(g)
  <2>1. /\ pc[g] = "confirm_read" /\ Known(job[g].cert)
        /\ job' = job /\ table' = table
    BY <1>3 DEF ConfirmRead, tableVars
  <2> QED BY <2>1 DEF CoreInv, ConfirmInv, Known
<1> QED BY <1>1, <1>2, <1>3, DecidingShape

\* How a handler gets to where it has confirmed a request: it was there, or it
\* has just confirmed it.
LEMMA ConfirmingShape ==
  ASSUME CoreInv, [Next]_vars, NEW g \in Handler, pc'[g] \in Confirming
  PROVE  \/ pc[g] \in Confirming /\ job'[g] = job[g]
         \/ ConfirmLock(g)
<1>t. TypeOK
  BY DEF CoreInv
<1>1. ASSUME NEW h \in Handler, Request(h)
      PROVE  pc[g] \in Confirming /\ job'[g] = job[g]
  <2>1. PICK r \in Job : Arrive(h, r)
    BY <1>1, RequestShape
  <2>2. OthersKeep(h) /\ pc'[h] = "wait"
    BY <1>t, <2>1, RequestKeeps
  <2> QED BY <2>2 DEF OthersKeep, Confirming
<1>2. ASSUME NEW h \in Handler, Acquire(h) \/ Proceed(h) \/ Disconnect(h)
      PROVE  \/ pc[g] \in Confirming /\ job'[g] = job[g]
             \/ ConfirmLock(g)
  BY <1>t, <1>2, HandlerShape DEF OthersKeep
<1>3. CASE Collect \/ Tick \/ Start \/ UNCHANGED vars
  BY <1>3 DEF Collect, Tick, Start, jobVars, vars
<1>4. ~Crash
  BY DEF Crash, Confirming
<1> QED BY <1>1, <1>2, <1>3, <1>4 DEF Next

\* Every step keeps what is said of confirmations.
LEMMA ConfirmStep ==
  ASSUME CoreInv, [Next]_vars
  PROVE  ConfirmInv'
<1>t. TypeOK /\ ConfirmInv /\ PutWritesDecision
  BY DEF CoreInv
<1> SUFFICES ASSUME NEW g \in Handler, pc'[g] = "confirm_read", Known(job[g].cert)'
             PROVE  table'.entries[job'[g].cert].status \in Decided
  BY DEF ConfirmInv
<1>1. \/ pc[g] \in Confirming /\ job'[g] = job[g]
      \/ ConfirmLock(g)
  BY ConfirmingShape DEF Confirming
<1>2. CASE ConfirmLock(g)
  <2>1. TableDecides(job[g].rid) /\ job' = [job EXCEPT ![g].cert = table.pending[job[g].rid]]
    BY <1>2, DecideStep
  <2>2. job'[g].cert = table.pending[job[g].rid]
    BY <1>t, <2>1 DEF TypeOK, Job
  <2> QED BY <2>1, <2>2 DEF TableDecides
<1>3. CASE pc[g] \in Confirming /\ job'[g] = job[g]
  <2> DEFINE c == job[g].cert
  <2>1. c \in DOMAIN table.entries => table.entries[c].status \in Decided
    BY <1>t, <1>3 DEF ConfirmInv, PutWritesDecision, Confirming, Known
  <2>2. c \in DOMAIN table'.entries
    BY <1>3 DEF Known
  <2>3. CASE TableSame
    BY <1>3, <2>1, <2>2, <2>3 DEF TableSame
  <2>4. ASSUME NEW h \in Handler, Signing(h), TableAdds(h)
        PROVE  table'.entries[c].status \in Decided
    <3>1. c \in minted /\ c \in Issued
      BY <1>t, <1>3 DEF CoreInv, JobInv, Confirming, TypeOK
    <3>2. g # h
      BY <1>3, <2>4 DEF Signing, Confirming
    <3>3. c # job[h].cert
      BY <1>3, <2>4, <3>1, <3>2 DEF CoreInv, FreshInv, Minting, Confirming
    <3> QED BY <2>1, <2>2, <2>4, <3>3 DEF TableAdds
  <2>5. ASSUME NEW rid \in Rid, TableDecides(rid)
        PROVE  table'.entries[c].status \in Decided
    BY <2>1, <2>2, <2>5 DEF TableDecides
  <2>6. CASE TableCollects
    BY <1>3, <2>1, <2>2, <2>6 DEF TableCollects
  <2>7. ~Crash /\ ~Start
    BY <1>3 DEF Crash, Start, CoreInv, LockInv, Confirming
  <2> QED BY <1>3, <2>3, <2>4, <2>5, <2>6, <2>7, TableShape
<1> QED BY <1>1, <1>2, <1>3

------------------------------------------------------------------------------
(* The theorems *)

\* The invariant holds of the initial states.
LEMMA CoreInit == Init => CoreInv
<1> SUFFICES ASSUME Init
             PROVE  CoreInv
  OBVIOUS
<1> USE GatewayAssumption DEF Init
<1>1. TypeOK
  <2>1. PartialFunction(<< >>, Cert, Entry) /\ PartialFunction(<< >>, Rid, Cert)
    BY EmptyType
  <2>2. NoJob \in Job
    BY DEF NoJob, Job, Operation, Bitmap
  <2>3. EmptyLog.events \in Seq(Event) /\ EmptyLog.nextSeq \in Nat
         /\ DOMAIN EmptyLog = {"events", "nextSeq"}
    BY DEF EmptyLog
  <2>4. TableType(EmptyTable)
    BY <2>1 DEF EmptyTable, TableType
  <2>5. pc \in [Handler -> Location] /\ job \in [Handler -> Job]
    BY <2>2 DEF Location
  <2>6. TableType(table) /\ PartialFunction(store, Cert, Entry)
    BY <2>1, <2>4
  <2>7. /\ eventLog.events \in Seq(Event) /\ eventLog.nextSeq \in Nat
        /\ DOMAIN eventLog = {"events", "nextSeq"}
    BY <2>3
  <2>8. up \in BOOLEAN /\ gcDue \in BOOLEAN
    OBVIOUS
  <2>9. /\ now \in Nat /\ db \in Databases
        /\ sse \subseteq [cert : Cert, bitmap : Bitmap]
        /\ writer \in Handler \cup {NoHandler} /\ readers \subseteq Handler
        /\ nextRid \in Nat \ {0} /\ minted \subseteq Issued /\ unsaved \subseteq Cert
    OBVIOUS
  <2> QED BY ONLY <2>5, <2>6, <2>7, <2>8, <2>9 DEF TypeOK, TableType
<1>2. LockInv
  BY DEF LockInv, Exclusive, EmptyTable
<1>3. JobInv /\ FreshInv /\ ConfirmInv /\ PutWritesDecision
  BY DEF JobInv, FreshInv, ConfirmInv, PutWritesDecision, Signing, Minting
<1>4. EntryInv /\ PendingMatchesEntries /\ StoreInv
  BY DEF EntryInv, PendingMatchesEntries, StoreInv, EmptyTable
<1> QED BY <1>1, <1>2, <1>3, <1>4 DEF CoreInv

\* Every step preserves the invariant.
LEMMA CoreStep == CoreInv /\ [Next]_vars => CoreInv'
BY TypeStep, LockStep, JobStep, FreshStep, EntryStep, PendingStep, StoreStep, PutStep,
   ConfirmStep DEF CoreInv

\* The invariant holds of every reachable state of the gateway.
THEOREM CoreInvariance == Spec => []CoreInv
BY CoreInit, CoreStep, PTL DEF Spec

\* Every variable keeps its type, whatever handlers, collector, crashes and
\* restarts do.
THEOREM TypeCorrect == Spec => []TypeOK
BY CoreInvariance, PTL DEF CoreInv

\* The request ids that wait and the entries that wait for them always agree.
THEOREM PendingAgreement == Spec => []PendingMatchesEntries
BY CoreInvariance, PTL DEF CoreInv

\* A handler that is about to store a decision finds the decided entry.
THEOREM DecisionsReachTheStore == Spec => []PutWritesDecision
BY CoreInvariance, PTL DEF CoreInv

\* Nothing but decisions is ever stored.
THEOREM OnlyDecisionsStored == Spec => []StoreHoldsDecisions
<1>1. CoreInv => StoreHoldsDecisions
  BY DEF CoreInv, StoreInv, StoreHoldsDecisions
<1> QED BY <1>1, CoreInvariance, PTL

\* No certificate but a preset root ever gets a bit reserved for root.
THEOREM AdminIsPreset == Spec => []NoAdminGranted
<1>1. CoreInv => NoAdminGranted
  BY DEF CoreInv, EntryInv, StoreInv, NoAdminGranted, Known
<1> QED BY <1>1, CoreInvariance, PTL

\* No step revises a decision that has been made.
LEMMA DecisionStep ==
  ASSUME CoreInv, [Next]_vars,
         NEW c \in DOMAIN table.entries \cap DOMAIN table'.entries,
         table.entries[c].status \in Decided
  PROVE  table'.entries[c] = table.entries[c]
<1>1. CASE TableSame
  BY <1>1 DEF TableSame
<1>2. ASSUME NEW h \in Handler, TableAdds(h)
      PROVE  table'.entries[c] = table.entries[c]
  BY <1>2 DEF TableAdds
<1>3. ASSUME NEW rid \in Rid, TableDecides(rid)
      PROVE  table'.entries[c] = table.entries[c]
  <2>1. table.entries[table.pending[rid]].status \in Waiting
    BY <1>3 DEF TableDecides, FoundByRequestId, CoreInv, PendingMatchesEntries
  <2>2. c # table.pending[rid]
    BY <2>1 DEF Waiting, Decided
  <2> QED BY <1>3, <2>2 DEF TableDecides
<1>4. CASE TableCollects
  BY <1>4 DEF TableCollects
<1>5. ~Crash
  BY DEF Crash, EmptyTable
<1>6. ~Start
  BY DEF Start, CoreInv, LockInv
<1> QED BY <1>1, <1>2, <1>3, <1>4, <1>5, <1>6, TableShape

\* The first decision about an entry is the last one.
THEOREM FirstDecisionIsFinal == Spec => FirstDecisionStands
<1>1. CoreInv /\ [Next]_vars =>
        [\A c \in DOMAIN table.entries \cap DOMAIN table'.entries :
           table.entries[c].status \in Decided =>
             table'.entries[c] = table.entries[c]]_vars
  BY DecisionStep
<1> QED BY <1>1, CoreInvariance, PTL DEF Spec, FirstDecisionStands

\* The clock, the collector's interval and the process change in the steps
\* named after them only.
LEMMA ClockShape ==
  ASSUME CoreInv, [Next]_vars
  PROVE  \/ UNCHANGED <<now, gcDue, up>>
         \/ Tick \/ Collect \/ Crash \/ Start
<1>1. ASSUME NEW h \in Handler, Request(h)
      PROVE  UNCHANGED <<now, gcDue, up>>
  <2>1. PICK r \in Job : Arrive(h, r)
    BY <1>1, RequestShape
  <2> QED BY <2>1 DEF Arrive, envVars
<1>2. ASSUME NEW h \in Handler, Acquire(h) \/ Proceed(h) \/ Disconnect(h)
      PROVE  UNCHANGED <<now, gcDue, up>>
  BY <1>2 DEF Acquire, CsrLock, AddUnlogged, SignupConflict, ApproveLock, RejectLock,
     DecisionRefused, ConfirmLock, ConfirmRefused, ConfirmRead, ConfirmGone, Refuse,
     Proceed, CsrLog, DecideLog, DecidePut, ConfirmPut, Disconnect, envVars
<1> QED BY <1>1, <1>2 DEF Next, vars

\* Every step keeps the age bound.
LEMMA RetentionStep ==
  ASSUME CoreInv, CoreInv', NothingOutlivesRetention, [Next]_vars
  PROVE  NothingOutlivesRetention'
<1>t. TypeOK /\ TypeOK' /\ EntryInv
  BY DEF CoreInv
<1>1. CASE Tick \/ Crash \/ Start
  <2>1. up' => gcDue'
    <3>1. Tick => (up' => gcDue')
      <4>1. Tick => gcDue' = up'
        BY DEF Tick
      <4> QED BY <1>t, <4>1 DEF TypeOK
    <3>2. Crash \/ Start => (up' => gcDue')
      BY Zenon DEF Crash, Start
    <3> QED BY <1>1, <3>1, <3>2
  <2> QED BY <2>1, Zenon DEF NothingOutlivesRetention
<1>2. CASE Collect
  <2>1. TableCollects /\ now' = now
    BY <1>2, CollectStep DEF Collect
  <2> SUFFICES ASSUME NEW c \in DOMAIN table'.entries
               PROVE  now <= table'.entries[c].createdAt + PendingRetention
    BY <2>1 DEF NothingOutlivesRetention
  <2>2. c \in DOMAIN table.entries \ Collectable(table, now)
        /\ table'.entries[c] = table.entries[c]
    BY <2>1 DEF TableCollects
  <2>3. table.entries[c].lastSeen = "never"
    BY <1>t, <2>2 DEF EntryInv
  <2>4. ~(table.entries[c].createdAt + PendingRetention < now)
    BY <2>2, <2>3 DEF Collectable, PendingStale, NeverSeen, Stale
  <2>5. table.entries[c].createdAt \in Nat /\ now \in Nat
    BY <1>t, <2>2 DEF TypeOK, PartialFunction, Entry
  <2> QED BY <2>2, <2>4, <2>5, RetentionAssumption
<1>3. CASE UNCHANGED <<now, gcDue, up>>
  <2> SUFFICES ASSUME up, ~gcDue, NEW c \in DOMAIN table'.entries
               PROVE  now <= table'.entries[c].createdAt + PendingRetention
    BY <1>3 DEF NothingOutlivesRetention
  <2>0. \A d \in DOMAIN table.entries : now <= table.entries[d].createdAt + PendingRetention
    BY DEF NothingOutlivesRetention
  <2>1. CASE TableSame
    BY <2>0, <2>1 DEF TableSame
  <2>2. ASSUME NEW h \in Handler, TableAdds(h)
        PROVE  now <= table'.entries[c].createdAt + PendingRetention
    <3>1. c \in DOMAIN table.entries => table'.entries[c] = table.entries[c]
      BY <2>2 DEF TableAdds
    <3>2. c \notin DOMAIN table.entries => table'.entries[c].createdAt = now
      BY <2>2 DEF TableAdds
    <3> QED BY <1>t, <2>0, <3>1, <3>2, RetentionAssumption DEF TypeOK
  <2>3. ASSUME NEW rid \in Rid, TableDecides(rid)
        PROVE  now <= table'.entries[c].createdAt + PendingRetention
    <3>1. c \in DOMAIN table.entries /\ table'.entries[c].createdAt = table.entries[c].createdAt
      BY <2>3 DEF TableDecides
    <3> QED BY <2>0, <3>1
  <2>4. CASE TableCollects
    BY <2>0, <2>4 DEF TableCollects
  <2>5. ~Crash /\ ~Start
    BY DEF Crash, EmptyTable, Start
  <2> QED BY <2>1, <2>2, <2>3, <2>4, <2>5, TableShape
<1> QED BY <1>1, <1>2, <1>3, ClockShape

\* Between two collector passes no entry is older than the pending retention.
THEOREM RetentionBound == Spec => []NothingOutlivesRetention
<1>1. Init => NothingOutlivesRetention
  BY DEF Init, NothingOutlivesRetention
<1>2. CoreInv /\ CoreInv' /\ NothingOutlivesRetention /\ [Next]_vars => NothingOutlivesRetention'
  BY RetentionStep
<1> QED BY <1>1, <1>2, CoreInvariance, PTL DEF Spec

------------------------------------------------------------------------------
(* The store and the event log follow the table *)

\* A certificate that is decided about, with no handler still at work on the
\* decision and none that missed the store.
Settled(c) ==
  /\ c \in DOMAIN table.entries
  /\ table.entries[c].status \in Decided
  /\ ~InFlight(c)
  /\ c \notin unsaved

\* A handler stores its decision about c.
Puts(h, c) ==
  /\ DecidePut(h) \/ ConfirmPut(h)
  /\ job[h].cert = c

\* A step that decides about a certificate leaves a handler at work on it.
LEMMA DecideInFlight ==
  ASSUME CoreInv, NEW h \in Handler, ApproveLock(h) \/ RejectLock(h) \/ ConfirmLock(h),
         NEW c, c = table.pending[job[h].rid]
  PROVE  InFlight(c)'
<1>1. job' = [job EXCEPT ![h].cert = table.pending[job[h].rid]]
  BY DecideStep
<1>2. job'[h].cert = c
  BY <1>1 DEF CoreInv, TypeOK, Job
<1>3. pc'[h] \in Unfinished
  BY DEF ApproveLock, RejectLock, ConfirmLock, Goto, CoreInv, TypeOK, Unfinished
<1> QED BY <1>2, <1>3 DEF InFlight

\* A handler that is at work on a decision stays so, unless it stores it, its
\* client hangs up, or its entry is gone.
LEMMA InFlightStep ==
  ASSUME CoreInv, [Next]_vars, NEW c, InFlight(c)
  PROVE  \/ InFlight(c)'
         \/ \E h \in Handler : Puts(h, c)
         \/ \E h \in Handler : Disconnect(h) /\ c \in unsaved'
         \/ ~Known(c)'
<1>t. TypeOK
  BY DEF CoreInv
<1>1. PICK g \in Handler : pc[g] \in Unfinished /\ job[g].cert = c
  BY DEF InFlight
<1>2. CASE pc'[g] = pc[g] /\ job'[g] = job[g]
  BY <1>1, <1>2 DEF InFlight
<1>3. ASSUME NEW h \in Handler, Request(h)
      PROVE  pc'[g] = pc[g] /\ job'[g] = job[g]
  <2>1. PICK r \in Job : Arrive(h, r)
    BY <1>3, RequestShape
  <2>2. g # h
    BY <1>1, <2>1 DEF Arrive, Unfinished
  <2> QED BY <1>t, <2>1, <2>2, RequestKeeps DEF OthersKeep
<1>4. ASSUME NEW h \in Handler \ {g}, Acquire(h) \/ Proceed(h) \/ Disconnect(h)
      PROVE  pc'[g] = pc[g] /\ job'[g] = job[g]
  BY <1>t, <1>4, HandlerShape DEF OthersKeep
<1>5. CASE DecideLog(g) \/ ConfirmRead(g)
  <2>1. pc'[g] \in Unfinished /\ job'[g].cert = c
    BY <1>t, <1>1, <1>5 DEF DecideLog, ConfirmRead, Goto, TypeOK, Unfinished
  <2> QED BY <2>1 DEF InFlight
<1>6. CASE DecidePut(g) \/ ConfirmPut(g)
  BY <1>1, <1>6 DEF Puts
<1>7. CASE Disconnect(g)
  BY <1>1, <1>7 DEF Disconnect
<1>8. CASE ConfirmGone(g)
  BY <1>1, <1>8 DEF ConfirmGone, Refuse, tableVars, Known
<1>9. ~CsrLock(g) /\ ~AddUnlogged(g) /\ ~SignupConflict(g) /\ ~ApproveLock(g)
      /\ ~RejectLock(g) /\ ~DecisionRefused(g) /\ ~ConfirmLock(g) /\ ~ConfirmRefused(g)
      /\ ~CsrLog(g)
  BY <1>1 DEF CsrLock, AddUnlogged, SignupConflict, ApproveLock, RejectLock,
     DecisionRefused, ConfirmLock, ConfirmRefused, CsrLog, Unfinished
<1>10. CASE Collect \/ Tick \/ Start \/ UNCHANGED vars
  BY <1>2, <1>10 DEF Collect, Tick, Start, jobVars, vars
<1>11. CASE Crash
  BY <1>11 DEF Crash, EmptyTable, Known
<1> QED BY <1>2, <1>3, <1>4, <1>5, <1>6, <1>7, <1>8, <1>9, <1>10, <1>11 DEF Next, Acquire, Proceed

\* What was missed by the store is made up for by a later write or a restart
\* only.
LEMMA UnsavedStep ==
  ASSUME [Next]_vars, NEW c \in unsaved
  PROVE  c \in unsaved' \/ (\E h \in Handler : Puts(h, c)) \/ Start
<1>1. ASSUME NEW h \in Handler, Request(h)
      PROVE  unsaved' = unsaved
  <2>1. PICK r \in Job : Arrive(h, r)
    BY <1>1, RequestShape
  <2> QED BY <2>1 DEF Arrive
<1>2. ASSUME NEW h \in Handler, Acquire(h) \/ CsrLog(h) \/ DecideLog(h)
      PROVE  unsaved' = unsaved
  BY <1>2 DEF Acquire, CsrLock, AddUnlogged, SignupConflict, ApproveLock, RejectLock,
     DecisionRefused, ConfirmLock, ConfirmRefused, ConfirmRead, ConfirmGone, Refuse,
     CsrLog, DecideLog
<1>3. ASSUME NEW h \in Handler, Disconnect(h)
      PROVE  c \in unsaved'
  BY <1>3 DEF Disconnect
<1>4. ASSUME NEW h \in Handler, DecidePut(h) \/ ConfirmPut(h)
      PROVE  c \in unsaved' \/ Puts(h, c)
  BY <1>4 DEF DecidePut, ConfirmPut, Put, Puts
<1>5. CASE Collect \/ Tick \/ Crash \/ UNCHANGED vars
  BY <1>5 DEF Collect, Tick, Crash, vars
<1> QED BY <1>1, <1>2, <1>3, <1>4, <1>5 DEF Next, Proceed

\* How a certificate gets to be settled: it was, a handler has stored the
\* decision about it, or the process has just started.
LEMMA SettledShape ==
  ASSUME CoreInv, [Next]_vars, NEW c, Settled(c)'
  PROVE  \/ Settled(c) /\ table'.entries[c] = table.entries[c]
         \/ \E h \in Handler : Puts(h, c)
         \/ Start
<1> SUFFICES ASSUME ~\E h \in Handler : Puts(h, c), ~Start
             PROVE  Settled(c) /\ table'.entries[c] = table.entries[c]
  OBVIOUS
<1>1. c \notin unsaved
  BY UnsavedStep DEF Settled
<1>2. ~InFlight(c)
  BY InFlightStep DEF Settled, Known
<1>3. ASSUME NEW h \in Handler, Signing(h), TableAdds(h)
      PROVE  c \in DOMAIN table.entries /\ table'.entries[c] = table.entries[c]
  BY <1>3 DEF Settled, TableAdds, Waiting, Decided
<1>4. ASSUME NEW h \in Handler, ApproveLock(h) \/ RejectLock(h) \/ ConfirmLock(h)
      PROVE  c \in DOMAIN table.entries /\ table'.entries[c] = table.entries[c]
  <2>1. c # table.pending[job[h].rid]
    BY <1>4, DecideInFlight DEF Settled
  <2> QED BY <1>4, <2>1, DecideStep DEF TableDecides, Settled
<1>5. ASSUME TableSame
      PROVE  c \in DOMAIN table.entries /\ table'.entries[c] = table.entries[c]
  BY <1>5 DEF Settled, TableSame
<1>6. ASSUME TableCollects
      PROVE  c \in DOMAIN table.entries /\ table'.entries[c] = table.entries[c]
  BY <1>6 DEF Settled, TableCollects
<1>7. ~Crash
  BY DEF Crash, EmptyTable, Settled
<1>8. c \in DOMAIN table.entries /\ table'.entries[c] = table.entries[c]
  BY <1>3, <1>4, <1>5, <1>6, <1>7, TableMoves
<1> QED BY <1>1, <1>2, <1>8 DEF Settled

\* Nothing but startup decides which database is used.
LEMMA DbStep == [Next]_vars => db' = db
<1> SUFFICES ASSUME [Next]_vars
             PROVE  db' = db
  OBVIOUS
<1>1. ASSUME NEW h \in Handler, Request(h)
      PROVE  db' = db
  <2>1. PICK r \in Job : Arrive(h, r)
    BY <1>1, RequestShape
  <2> QED BY <2>1 DEF Arrive, envVars
<1>2. ASSUME NEW h \in Handler, Acquire(h) \/ Proceed(h) \/ Disconnect(h)
      PROVE  db' = db
  BY <1>2 DEF Acquire, CsrLock, AddUnlogged, SignupConflict, ApproveLock, RejectLock,
     DecisionRefused, ConfirmLock, ConfirmRefused, ConfirmRead, ConfirmGone, Refuse,
     Proceed, CsrLog, DecideLog, DecidePut, ConfirmPut, Disconnect, envVars
<1>3. Collect \/ Tick \/ Crash \/ Start \/ UNCHANGED vars => db' = db
  BY DEF Collect, Tick, Crash, Start, vars
<1> QED BY <1>1, <1>2, <1>3 DEF Next

\* The store changes only where a handler puts its decision there.
LEMMA StoreShape ==
  ASSUME [Next]_vars
  PROVE  store' = store \/ \E h \in Handler : DecidePut(h) \/ ConfirmPut(h)
<1>1. ASSUME NEW h \in Handler, Request(h)
      PROVE  store' = store
  <2>1. PICK r \in Job : Arrive(h, r)
    BY <1>1, RequestShape
  <2> QED BY <2>1 DEF Arrive
<1>2. ASSUME NEW h \in Handler, Acquire(h) \/ CsrLog(h) \/ DecideLog(h) \/ Disconnect(h)
      PROVE  store' = store
  BY <1>2 DEF Acquire, CsrLock, AddUnlogged, SignupConflict, ApproveLock, RejectLock,
     DecisionRefused, ConfirmLock, ConfirmRefused, ConfirmRead, ConfirmGone, Refuse,
     CsrLog, DecideLog, Disconnect
<1>3. Collect \/ Tick \/ Crash \/ Start \/ UNCHANGED vars => store' = store
  BY DEF Collect, Tick, Crash, Start, vars
<1> QED BY <1>1, <1>2, <1>3 DEF Next, Proceed

\* What a handler's write does: the entry of its certificate is stored as the
\* table has it, or the write fails and is noted.
LEMMA PutEffect ==
  ASSUME NEW h \in Handler, DecidePut(h) \/ ConfirmPut(h)
  PROVE  LET c == job[h].cert IN
         /\ table' = table
         /\ \/ store' = store /\ (db = "none" \/ c \in unsaved')
            \/ /\ DOMAIN store' = DOMAIN store \cup {c}
               /\ store'[c] = table.entries[c]
               /\ \A d \in DOMAIN store \ {c} : store'[d] = store[d]
BY DEF DecidePut, ConfirmPut, Put, Insert, tableVars

\* Every step leaves stored what is settled.
LEMMA StoredStep ==
  ASSUME CoreInv, DecisionStored, [Next]_vars
  PROVE  DecisionStored'
<1> SUFFICES ASSUME db # "none", NEW c, c \notin Seeds, Settled(c)'
             PROVE  c \in DOMAIN store' /\ store'[c] = table'.entries[c]
  BY DbStep DEF DecisionStored, Settled
<1>1. ASSUME NEW h \in Handler, Puts(h, c)
      PROVE  c \in DOMAIN store' /\ store'[c] = table'.entries[c]
  BY <1>1, PutEffect DEF Puts, Settled
<1>2. CASE Start
  <2>1. /\ table'.entries = IF DOMAIN Restored = {} THEN SeedEntries ELSE Restored
        /\ store' = store
    BY <1>2 DEF Start
  <2>2. DOMAIN SeedEntries \subseteq Seeds
    BY DEF SeedEntries
  <2>3. DOMAIN Restored # {} /\ table'.entries = Restored
    BY <2>1, <2>2 DEF Settled
  <2>4. Restored = store
    BY <2>3 DEF Restored
  <2> QED BY <2>1, <2>3, <2>4 DEF Settled
<1>3. ASSUME Settled(c), table'.entries[c] = table.entries[c]
      PROVE  c \in DOMAIN store' /\ store'[c] = table'.entries[c]
  <2>1. c \in DOMAIN store /\ store[c] = table.entries[c]
    BY <1>3 DEF Settled, DecisionStored
  <2>2. CASE store' = store
    BY <1>3, <2>1, <2>2
  <2>3. ASSUME NEW h \in Handler, DecidePut(h) \/ ConfirmPut(h)
        PROVE  c \in DOMAIN store' /\ store'[c] = table'.entries[c]
    BY <1>3, <2>1, <2>3, PutEffect
  <2> QED BY <2>2, <2>3, StoreShape
<1> QED BY <1>1, <1>2, <1>3, SettledShape

------------------------------------------------------------------------------
(* The event log *)

\* Every set of naturals has a least element, ...
LEMMA LeastNatural ==
  ASSUME NEW T, T \subseteq Nat, T # {}
  PROVE  \E x \in T : \A y \in T : x <= y
<1>1. PICK x \in T : \A y \in T : <<y, x>> \notin OpToRel(<, Nat)
  BY NatLessThanWellFounded, WFMin
<1>2. \A y \in T : ~(y < x)
  BY <1>1 DEF OpToRel
<1> QED BY <1>2

\* ... so that every bounded one has a greatest: Max is defined on it.
LEMMA MaxOfBounded ==
  ASSUME NEW n \in Nat, NEW S, S \subseteq 1..n, S # {}
  PROVE  Max(S) \in S /\ \A y \in S : Max(S) >= y
<1> DEFINE T == {n - i : i \in S}
<1>1. T \subseteq Nat /\ T # {}
  <2>1. \A i \in S : n - i \in Nat
    OBVIOUS
  <2> QED BY <2>1
<1>2. PICK t \in T : \A u \in T : t <= u
  BY <1>1, LeastNatural
<1>3. PICK x \in S : t = n - x
  OBVIOUS
<1>4. \A y \in S : n - x <= n - y
  BY <1>2, <1>3
<1>5. \A y \in S : x >= y
  BY <1>4
<1> QED BY <1>5 DEF Max

\* The greatest element of a set that is given by it.
LEMMA MaxIs ==
  ASSUME NEW n \in Nat, NEW S, S \subseteq 1..n, NEW x \in S, \A y \in S : x >= y
  PROVE  Max(S) = x
<1>1. Max(S) \in S /\ Max(S) >= x
  BY MaxOfBounded
<1>2. x >= Max(S)
  BY <1>1
<1>3. \A y \in S : y \in Int
  OBVIOUS
<1>4. Max(S) \in Int /\ x \in Int
  BY <1>1, <1>3
<1> QED BY <1>1, <1>2, <1>4

LogType(log) ==
  /\ DOMAIN log = {"events", "nextSeq"}
  /\ log.events \in Seq(Event)
  /\ log.nextSeq \in Nat

\* Pushing an event about one certificate changes nothing the log says about
\* any other.
LEMMA PushOthers ==
  ASSUME NEW log, LogType(log), NEW c \in Cert, NEW k \in EventKind, NEW b \in Bitmap,
         NEW d, d # c
  PROVE  /\ CurrentState(Push(log, c, k, b), d) = CurrentState(log, d)
         /\ CurrentBitmap(Push(log, c, k, b), d) = CurrentBitmap(log, d)
<1> DEFINE e == [seq |-> log.nextSeq, cert |-> c, kind |-> k, bitmap |-> b]
           n == Len(log.events)
           p == Push(log, c, k, b)
<1>1. /\ p.events = Append(log.events, e)
      /\ DOMAIN p.events = 1..n+1
      /\ DOMAIN log.events = 1..n
      /\ n \in Nat
      /\ \A i \in 1..n : p.events[i] = log.events[i]
      /\ p.events[n+1].cert = c
  <2>1. e \in Event
    BY DEF LogType, Event
  <2>2. p.events = Append(log.events, e)
    BY DEF Push
  <2> QED BY <2>1, <2>2 DEF LogType
<1> HIDE DEF n, p
<1>2. EventsOf(p, d) = EventsOf(log, d)
  BY <1>1 DEF EventsOf
<1>3. EventsOf(log, d) \subseteq 1..n
  BY <1>1 DEF EventsOf
<1>4. GrantsOf(p, d) = GrantsOf(log, d) /\ GrantsOf(log, d) \subseteq 1..n
  BY <1>1, <1>2, <1>3 DEF GrantsOf
<1>5. EventsOf(log, d) # {} => p.events[Max(EventsOf(log, d))] = log.events[Max(EventsOf(log, d))]
  BY <1>1, <1>3, MaxOfBounded
<1>6. GrantsOf(log, d) # {} => p.events[Max(GrantsOf(log, d))] = log.events[Max(GrantsOf(log, d))]
  BY <1>1, <1>4, MaxOfBounded
<1>7. CurrentState(p, d) = CurrentState(log, d)
  BY <1>2, <1>5 DEF CurrentState
<1>8. CurrentBitmap(p, d) = CurrentBitmap(log, d)
  BY <1>4, <1>6 DEF CurrentBitmap
<1> QED BY <1>7, <1>8 DEF p

\* The event pushed last about a certificate is the log's last word on it.
LEMMA PushOwn ==
  ASSUME NEW log, LogType(log), NEW c \in Cert, NEW k \in EventKind, NEW b \in Bitmap
  PROVE  /\ CurrentState(Push(log, c, k, b), c) = StateAfter(k)
         /\ k = "Approved" => CurrentBitmap(Push(log, c, k, b), c) = b
<1> DEFINE e == [seq |-> log.nextSeq, cert |-> c, kind |-> k, bitmap |-> b]
           n == Len(log.events)
           p == Push(log, c, k, b)
<1>1. /\ DOMAIN p.events = 1..n+1
      /\ n \in Nat
      /\ p.events[n+1] = e
  <2>1. e \in Event
    BY DEF LogType, Event
  <2>2. p.events = Append(log.events, e)
    BY DEF Push
  <2> QED BY <2>1, <2>2 DEF LogType
<1> HIDE DEF n, p
<1>2. EventsOf(p, c) \subseteq 1..n+1 /\ n+1 \in EventsOf(p, c)
  BY <1>1 DEF EventsOf
<1>3. Max(EventsOf(p, c)) = n+1
  BY <1>1, <1>2, MaxIs
<1>4. CurrentState(p, c) = StateAfter(k)
  BY <1>1, <1>2, <1>3 DEF CurrentState
<1>5. ASSUME k = "Approved"
      PROVE  CurrentBitmap(p, c) = b
  <2>1. GrantsOf(p, c) \subseteq 1..n+1 /\ n+1 \in GrantsOf(p, c)
    BY <1>1, <1>2, <1>5 DEF GrantsOf
  <2>2. Max(GrantsOf(p, c)) = n+1
    BY <1>1, <2>1, MaxIs
  <2> QED BY <1>1, <2>1, <2>2 DEF CurrentBitmap
<1> QED BY <1>4, <1>5 DEF p

\* The empty log says nothing about anybody.
LEMMA EmptyLogSilent ==
  ASSUME NEW c
  PROVE  CurrentState(EmptyLog, c) = "Unknown"
BY DEF EmptyLog, CurrentState, EventsOf


------------------------------------------------------------------------------
(* What the log's agreement with the table rests on *)

\* The log changes where a CSR or a decision is logged, and with a crash.
LEMMA LogShape ==
  ASSUME [Next]_vars
  PROVE  \/ eventLog' = eventLog
         \/ \E h \in Handler : CsrLog(h) \/ DecideLog(h)
         \/ Crash
<1>1. ASSUME NEW h \in Handler, Request(h)
      PROVE  eventLog' = eventLog
  <2>1. PICK r \in Job : Arrive(h, r)
    BY <1>1, RequestShape
  <2> QED BY <2>1 DEF Arrive, tableVars
<1>2. ASSUME NEW h \in Handler, Acquire(h) \/ DecidePut(h) \/ ConfirmPut(h) \/ Disconnect(h)
      PROVE  eventLog' = eventLog
  BY <1>2 DEF Acquire, CsrLock, AddUnlogged, SignupConflict, ApproveLock, RejectLock,
     DecisionRefused, ConfirmLock, ConfirmRefused, ConfirmRead, ConfirmGone, Refuse,
     DecidePut, ConfirmPut, Disconnect, tableVars
<1>3. Collect \/ Tick \/ Start \/ UNCHANGED vars => eventLog' = eventLog
  BY DEF Collect, Tick, Start, tableVars, vars
<1> QED BY <1>1, <1>2, <1>3 DEF Next, Proceed

\* How a handler gets to where its decision is logged, and from there to where
\* it is stored.
LEMMA LoggingShape ==
  ASSUME CoreInv, [Next]_vars, NEW g \in Handler, pc'[g] \in {"decide_log", "decide_put"}
  PROVE  \/ pc[g] = pc'[g] /\ job'[g] = job[g]
         \/ pc'[g] = "decide_log" /\ (ApproveLock(g) \/ RejectLock(g))
         \/ pc'[g] = "decide_put" /\ DecideLog(g)
<1>t. TypeOK
  BY DEF CoreInv
<1>1. ASSUME NEW h \in Handler, Request(h)
      PROVE  pc[g] = pc'[g] /\ job'[g] = job[g]
  <2>1. PICK r \in Job : Arrive(h, r)
    BY <1>1, RequestShape
  <2>2. OthersKeep(h) /\ pc'[h] = "wait"
    BY <1>t, <2>1, RequestKeeps
  <2> QED BY <2>2 DEF OthersKeep
<1>2. ASSUME NEW h \in Handler \ {g}, Acquire(h) \/ Proceed(h) \/ Disconnect(h)
      PROVE  pc[g] = pc'[g] /\ job'[g] = job[g]
  BY <1>t, <1>2, HandlerShape DEF OthersKeep
<1>3. ~Finish(g)
  BY <1>t DEF Finish, TypeOK
<1>4. /\ ~CsrLock(g) /\ ~ConfirmLock(g) /\ ~ConfirmRead(g)
      /\ ApproveLock(g) \/ RejectLock(g) => pc'[g] = "decide_log"
      /\ DecideLog(g) => pc'[g] = "decide_put"
  BY <1>t DEF CsrLock, ConfirmLock, ConfirmRead, ApproveLock, RejectLock, DecideLog, Goto, TypeOK
<1>5. ~AddUnlogged(g) /\ ~SignupConflict(g) /\ ~DecisionRefused(g) /\ ~ConfirmRefused(g)
      /\ ~ConfirmGone(g) /\ ~CsrLog(g) /\ ~DecidePut(g) /\ ~ConfirmPut(g) /\ ~Disconnect(g)
  BY <1>3 DEF AddUnlogged, SignupConflict, DecisionRefused, ConfirmRefused, ConfirmGone,
     Refuse, CsrLog, DecidePut, ConfirmPut, Disconnect
<1>6. CASE Collect \/ Tick \/ Start \/ UNCHANGED vars
  BY <1>6 DEF Collect, Tick, Start, jobVars, vars
<1>7. ~Crash
  BY DEF Crash
<1> QED BY <1>1, <1>2, <1>4, <1>5, <1>6, <1>7 DEF Next, Acquire, Proceed

\* The entry an approval or a rejection leaves, and the job it goes on with.
LEMMA DecideOutcome ==
  ASSUME CoreInv, NEW h \in Handler, ApproveLock(h) \/ RejectLock(h),
         NEW c, c = table.pending[job[h].rid]
  PROVE  /\ job'[h].op = job[h].op
         /\ job'[h].bitmap = job[h].bitmap
         /\ job'[h].cert = c
         /\ IF job[h].op = "approve"
              THEN /\ table'.entries[c].status = "Active"
                   /\ table'.entries[c].bitmap = FilterGrant(job[h].bitmap)
              ELSE table'.entries[c].status = "Rejected"
<1> DEFINE rid == job[h].rid
           r   == table.entries[c]
<1>t. TypeOK /\ TableType(table)
  BY DEF CoreInv, TypeOK, TableType
<1>1. job' = [job EXCEPT ![h].cert = c]
  BY DecideStep
<1>2. job'[h].op = job[h].op /\ job'[h].bitmap = job[h].bitmap /\ job'[h].cert = c
  BY <1>t, <1>1 DEF TypeOK, Job
<1>3. FoundByRequestId(table, rid)
  BY DEF ApproveLock, RejectLock
<1>4. r \in Entry
  BY <1>t, <1>3, RequestedType DEF Requested
<1>5. CASE ApproveLock(h)
  <2> DEFINE e == [r EXCEPT !.bitmap = FilterGrant(job[h].bitmap), !.status = "Active"]
  <2>1. table' = Decide(table, rid, e) /\ job[h].op = "approve"
    BY <1>5 DEF ApproveLock, Approve, Requested
  <2>2. table'.entries[c] = e
    <3>1. DecidesTo(table, table', rid, e)
      BY <1>t, <1>3, <2>1, DecideEffect
    <3> QED BY <3>1 DEF DecidesTo
  <2>3. e.status = "Active" /\ e.bitmap = FilterGrant(job[h].bitmap)
    BY <1>4 DEF Entry
  <2> QED BY <1>2, <2>1, <2>2, <2>3
<1>6. CASE RejectLock(h)
  <2> DEFINE e == [r EXCEPT !.status = "Rejected"]
  <2>1. table' = Decide(table, rid, e) /\ job[h].op = "reject"
    BY <1>6 DEF RejectLock, Reject, Requested
  <2>2. table'.entries[c] = e
    <3>1. DecidesTo(table, table', rid, e)
      BY <1>t, <1>3, <2>1, DecideEffect
    <3> QED BY <3>1 DEF DecidesTo
  <2>3. e.status = "Rejected"
    BY <1>4 DEF Entry
  <2> QED BY <1>2, <2>1, <2>2, <2>3
<1> QED BY <1>5, <1>6

\* A request that waits is not one that is being confirmed.
LEMMA WaitingNotConfirmed ==
  ASSUME CoreInv, CanWrite, NEW rid, FoundByRequestId(table, rid),
         NEW h \in Handler, pc[h] \in Confirming
  PROVE  job[h].cert # table.pending[rid]
<1>1. table.entries[table.pending[rid]].status \in Waiting
  BY DEF FoundByRequestId, CoreInv, PendingMatchesEntries
<1>2. pc[h] # "confirm_put"
  BY DEF CanWrite, CoreInv, LockInv
<1>3. Known(job[h].cert) => table.entries[job[h].cert].status \in Decided
  BY <1>2 DEF Confirming, CoreInv, ConfirmInv
<1> QED BY <1>1, <1>3 DEF FoundByRequestId, Known, Waiting, Decided

\* Every step keeps what is said of decisions about to be logged.
LEMMA DecidingStep ==
  ASSUME CoreInv, DecidingInv, [Next]_vars
  PROVE  DecidingInv'
<1>t. TypeOK
  BY DEF CoreInv
<1>1. ASSUME NEW g \in Handler, pc'[g] = "decide_log"
      PROVE  DecidingInv!1!(g)'
  <2>1. CASE pc[g] = "decide_log" /\ job'[g] = job[g]
    <3>1. ~Crash
      BY <1>1 DEF Crash
    <3>2. TableSame
      BY <2>1, <3>1, LockedTable
    <3> QED BY <2>1, <3>2 DEF DecidingInv, TableSame
  <2>2. CASE ApproveLock(g) \/ RejectLock(g)
    BY <2>2, DecideOutcome
  <2> QED BY <1>1, <2>1, <2>2, LoggingShape
<1>2. ASSUME NEW g \in Handler, NEW h \in Handler,
             pc'[g] \in {"decide_log", "decide_put"}, pc'[h] \in Confirming
      PROVE  job'[g].cert # job'[h].cert
  <2>1. CASE ApproveLock(g) \/ RejectLock(g)
    <3>1. g # h /\ OthersKeep(g)
      BY <1>t, <1>2, <2>1, HandlerShape DEF Acquire, Confirming
    <3>2. pc[h] \in Confirming /\ job'[h] = job[h]
      BY <1>2, <3>1 DEF OthersKeep
    <3>3. job[h].cert # table.pending[job[g].rid]
      BY <2>1, <3>2, WaitingNotConfirmed DEF ApproveLock, RejectLock
    <3>4. job'[g].cert = table.pending[job[g].rid]
      BY <2>1, DecideOutcome
    <3> QED BY <3>2, <3>3, <3>4
  <2>2. CASE pc[g] \in {"decide_log", "decide_put"} /\ job'[g].cert = job[g].cert
    <3>1. ~CanWrite
      BY <2>2, GatewayAssumption DEF CoreInv, LockInv, Exclusive, CanWrite
    <3>2. pc[h] \in Confirming /\ job'[h] = job[h]
      BY <1>2, <3>1, ConfirmingShape DEF ConfirmLock
    <3> QED BY <2>2, <3>2 DEF DecidingInv
  <2>3. DecideLog(g) => pc[g] = "decide_log" /\ job' = job
    BY DEF DecideLog
  <2> QED BY <1>2, <2>1, <2>2, <2>3, LoggingShape
<1> QED BY <1>1, <1>2 DEF DecidingInv


\* A handler that holds a certificate of the CA held it before, or the CA has
\* just minted it.
LEMMA MintingShape ==
  ASSUME CoreInv, [Next]_vars, NEW g \in Handler, Minting(g)'
  PROVE  (Minting(g) /\ job'[g] = job[g]) \/ job'[g].cert \notin minted
<1>t. TypeOK
  BY DEF CoreInv
<1>1. ASSUME NEW h \in Handler, Request(h)
      PROVE  (Minting(g) /\ job'[g] = job[g]) \/ job'[g].cert \notin minted
  <2>1. PICK r \in Job : Arrive(h, r) /\ (SignupFor(r) \/ DecisionOn(r))
    BY <1>1, RequestShape
  <2>2. OthersKeep(h) /\ job'[h] = r
    BY <1>t, <2>1, RequestKeeps
  <2>3. CASE g = h
    BY <2>1, <2>2, <2>3 DEF Minting, Signing, SignupFor, DecisionOn
  <2>4. CASE g # h
    BY <2>2, <2>4 DEF OthersKeep, Minting, Signing
  <2> QED BY <2>3, <2>4
<1>2. ASSUME NEW h \in Handler, Acquire(h) \/ Proceed(h) \/ Disconnect(h)
      PROVE  Minting(g) /\ job'[g] = job[g]
  BY <1>t, <1>2, HandlerShape DEF OthersKeep, Minting, Signing
<1>3. CASE Collect \/ Tick \/ UNCHANGED vars
  BY <1>3 DEF Collect, Tick, jobVars, vars, Minting, Signing
<1>4. ~Crash /\ ~Start
  BY DEF Crash, Start, jobVars, Minting, Signing, CoreInv, LockInv
<1> QED BY <1>1, <1>2, <1>3, <1>4 DEF Next

\* Every step keeps what is said of the log: a crash empties it, a CSR is about
\* a certificate that is new, and a decision is logged as the table has it.
LEMMA LogStep ==
  ASSUME CoreInv, DecidingInv, LogInv, [Next]_vars
  PROVE  LogInv'
<1>t. TypeOK /\ LogType(eventLog)
  BY DEF CoreInv, TypeOK, LogType
<1>1. ~up' => eventLog' = EmptyLog
  <2>1. CASE Crash
    BY <2>1 DEF Crash
  <2>2. CASE ~Crash
    <3>1. ~up' => ~up
      BY <2>2, ClockShape DEF Tick, Collect, Start
    <3>2. ~up => ~\E h \in Handler : CsrLog(h) \/ DecideLog(h)
      BY DEF CoreInv, LockInv, CsrLog, DecideLog
    <3> QED BY <2>2, <3>1, <3>2, LogShape DEF LogInv
  <2> QED BY <2>1, <2>2
<1>2. ASSUME NEW h \in Handler, pc'[h] = "decide_put"
      PROVE  Agrees(job[h].cert)'
  <2>1. CASE pc[h] = "decide_put" /\ job'[h] = job[h]
    <3>1. ~Crash
      BY <1>2 DEF Crash
    <3>2. TableSame
      BY <2>1, <3>1, LockedTable
    <3>3. \A g \in Handler : ~CsrLog(g) /\ ~DecideLog(g)
      BY <2>1, GatewayAssumption DEF CoreInv, LockInv, Exclusive, CsrLog, DecideLog
    <3> QED BY <2>1, <3>1, <3>2, <3>3, LogShape DEF LogInv, Agrees, TableSame
  <2>2. CASE DecideLog(h)
    <3> DEFINE c == job[h].cert
               b == IF job[h].op = "approve" THEN FilterGrant(job[h].bitmap) ELSE {}
               k == DecisionKind(job[h].op)
    <3>1. eventLog' = Push(eventLog, c, k, b) /\ table' = table /\ job' = job
      BY <2>2 DEF DecideLog
    <3>2. c \in Cert /\ k \in EventKind /\ b \in Bitmap /\ job[h].op \in {"approve", "reject"}
      BY <1>t, <2>2, FilterType
      DEF DecideLog, CoreInv, JobInv, TypeOK, Job, DecisionKind, EventKind, Bitmap
    <3>3. /\ CurrentState(eventLog', c) = StateAfter(k)
          /\ k = "Approved" => CurrentBitmap(eventLog', c) = b
      BY <1>t, <3>1, <3>2, PushOwn
    <3>4. IF job[h].op = "approve"
            THEN table.entries[c].status = "Active" /\ table.entries[c].bitmap = b
            ELSE table.entries[c].status = "Rejected"
      BY <2>2 DEF DecideLog, DecidingInv
    <3>5. IF job[h].op = "approve" THEN k = "Approved" ELSE k = "Rejected"
      BY DEF DecisionKind
    <3>6. StateAfter("Approved") = "Active" /\ StateAfter("Rejected") = "Rejected"
      BY DEF StateAfter
    <3> HIDE DEF b, k
    <3> QED BY <3>1, <3>2, <3>3, <3>4, <3>5, <3>6 DEF Agrees
  <2>3. (~ApproveLock(h) /\ ~RejectLock(h)) \/ pc'[h] # "decide_put"
    BY <1>t DEF ApproveLock, RejectLock, Goto, TypeOK
  <2> QED BY <1>2, <2>1, <2>2, <2>3, LoggingShape
<1>3. ASSUME NEW c \in Issued, CurrentState(eventLog', c) \in Decided
      PROVE  /\ c \in minted'
             /\ Known(c)' => table'.entries[c].status \in Decided
             /\ \A h \in Handler : Minting(h)' \/ pc'[h] \in Confirming => job'[h].cert # c
  <2> DEFINE Quiet == /\ c \in minted
                      /\ Known(c) => table.entries[c].status \in Decided
                      /\ \A h \in Handler : Minting(h) \/ pc[h] \in Confirming => job[h].cert # c
  <2>1. Quiet
    <3>1. CASE CurrentState(eventLog, c) \in Decided
      BY <3>1 DEF LogInv
    <3>2. ASSUME NEW h \in Handler, CsrLog(h), CurrentState(eventLog, c) \notin Decided
          PROVE  FALSE
      <4> DEFINE d == job[h].cert
      <4>1. eventLog' = Push(eventLog, d, "Submitted", job[h].bitmap)
        BY <3>2 DEF CsrLog
      <4>2. d \in Cert /\ job[h].bitmap \in Bitmap /\ "Submitted" \in EventKind
        BY <1>t, <3>2 DEF CsrLog, CoreInv, JobInv, FreshInv, Signing, TypeOK, Job, EventKind
      <4>3. d # c => CurrentState(eventLog', c) = CurrentState(eventLog, c)
        BY <1>t, <4>1, <4>2, PushOthers
      <4>4. d = c => CurrentState(eventLog', c) = "Pending"
        BY <1>t, <4>1, <4>2, PushOwn DEF StateAfter
      <4> QED BY <1>3, <3>2, <4>3, <4>4 DEF Decided
    <3>3. ASSUME NEW h \in Handler, DecideLog(h), CurrentState(eventLog, c) \notin Decided
          PROVE  Quiet
      <4> DEFINE d == job[h].cert
                 b == IF job[h].op = "approve" THEN FilterGrant(job[h].bitmap) ELSE {}
                 k == DecisionKind(job[h].op)
      <4>1. eventLog' = Push(eventLog, d, k, b) /\ pc[h] = "decide_log"
        BY <3>3 DEF DecideLog
      <4>2. d \in Cert /\ k \in EventKind /\ b \in Bitmap
        BY <1>t, <4>1, FilterType
        DEF CoreInv, JobInv, TypeOK, Job, DecisionKind, EventKind, Bitmap
      <4> HIDE DEF k, b
      <4>3. d # c => CurrentState(eventLog', c) = CurrentState(eventLog, c)
        BY <1>t, <4>1, <4>2, PushOthers
      <4>4. d = c
        BY <1>3, <3>3, <4>3
      <4>5. Known(c) /\ table.entries[c].status \in Decided
        BY <4>1, <4>4 DEF CoreInv, PutWritesDecision
      <4>6. c \in minted
        BY <4>5 DEF CoreInv, EntryInv, Known
      <4>7. \A g \in Handler : Minting(g) => job[g].cert # c
        BY <4>5 DEF CoreInv, FreshInv
      <4>8. \A g \in Handler : pc[g] \in Confirming => job[g].cert # c
        BY <4>1, <4>4 DEF DecidingInv
      <4> QED BY <4>5, <4>6, <4>7, <4>8
    <3>4. ~Crash
      BY <1>3, EmptyLogSilent DEF Crash, Decided
    <3> QED BY <1>3, <3>1, <3>2, <3>3, <3>4, LogShape
  <2>2. c \in minted'
    BY <2>1, Monotone
  <2>3. ASSUME c \in DOMAIN table'.entries
        PROVE  table'.entries[c].status \in Decided
    <3>1. CASE TableSame
      BY <2>1, <2>3, <3>1 DEF TableSame, Known
    <3>2. ASSUME NEW h \in Handler, Signing(h), TableAdds(h)
          PROVE  table'.entries[c].status \in Decided
      <4>1. c # job[h].cert
        BY <2>1, <3>2 DEF CoreInv, FreshInv, Minting
      <4> QED BY <2>1, <2>3, <3>2, <4>1 DEF TableAdds, Known
    <3>3. ASSUME NEW rid \in Rid, TableDecides(rid)
          PROVE  table'.entries[c].status \in Decided
      BY <2>1, <2>3, <3>3 DEF TableDecides, Known
    <3>4. CASE TableCollects
      BY <2>1, <2>3, <3>4 DEF TableCollects, Known
    <3>5. ~Crash
      BY <2>3 DEF Crash, EmptyTable
    <3>6. CASE Start
      BY <2>3, <3>6, StartShape
    <3> QED BY <3>1, <3>2, <3>3, <3>4, <3>5, <3>6, TableShape
  <2>4. ASSUME NEW h \in Handler, Minting(h)' \/ pc'[h] \in Confirming
        PROVE  job'[h].cert # c
    <3>1. CASE Minting(h)'
      BY <2>1, <3>1, MintingShape
    <3>2. CASE pc'[h] \in Confirming /\ ~ConfirmLock(h)
      BY <2>1, <3>2, ConfirmingShape
    <3>3. CASE ConfirmLock(h)
      <4>1. FoundByRequestId(table, job[h].rid)
        BY <3>3 DEF ConfirmLock, Confirmable
      <4>2. table.entries[table.pending[job[h].rid]].status \in Waiting
        BY <4>1 DEF FoundByRequestId, CoreInv, PendingMatchesEntries
      <4>3. job'[h].cert = table.pending[job[h].rid]
        BY <1>t, <3>3 DEF ConfirmLock, Name, TypeOK, Job
      <4> QED BY <2>1, <4>1, <4>2, <4>3 DEF FoundByRequestId, Known, Waiting, Decided
    <3> QED BY <2>4, <3>1, <3>2, <3>3
  <2> QED BY <2>2, <2>3, <2>4 DEF Known
<1> QED BY <1>1, <1>2, <1>3 DEF LogInv


------------------------------------------------------------------------------
(* The log agrees with the table *)

\* Every step keeps the last words of the log in agreement with what is settled.
LEMMA AgreementStep ==
  ASSUME CoreInv, DecidingInv, LogInv, LogAgreesOnDecisions, [Next]_vars
  PROVE  LogAgreesOnDecisions'
<1>t. TypeOK /\ LogType(eventLog)
  BY DEF CoreInv, TypeOK, LogType
<1> SUFFICES ASSUME NEW c, Settled(c)', CurrentState(eventLog', c) \in Decided
             PROVE  Agrees(c)'
  BY DEF LogAgreesOnDecisions, Settled, Agrees
<1>1. CASE Start
  <2>1. eventLog' = EmptyLog
    BY <1>1 DEF Start, LogInv
  <2> QED BY <2>1, EmptyLogSilent DEF Decided
<1>2. ASSUME NEW h \in Handler, Puts(h, c)
      PROVE  Agrees(c)'
  <2>1. eventLog' = eventLog /\ table' = table
    BY <1>2 DEF Puts, DecidePut, ConfirmPut, tableVars
  <2>2. CASE DecidePut(h)
    BY <1>2, <2>1, <2>2 DEF Puts, DecidePut, LogInv, Agrees
  <2>3. CASE ConfirmPut(h)
    <3>1. pc[h] \in Confirming /\ c \in Issued
      BY <1>t, <1>2, <2>3 DEF Puts, ConfirmPut, Confirming, CoreInv, JobInv, TypeOK
    <3>2. CurrentState(eventLog, c) \notin Decided
      BY <1>2, <3>1 DEF Puts, LogInv
    <3> QED BY <2>1, <3>2
  <2> QED BY <1>2, <2>2, <2>3 DEF Puts
<1>3. ASSUME Settled(c), table'.entries[c] = table.entries[c]
      PROVE  Agrees(c)'
  <2>1. CurrentState(eventLog, c) \in Decided => Agrees(c)
    BY <1>3 DEF LogAgreesOnDecisions, Settled, Agrees
  <2>2. CASE eventLog' = eventLog
    BY <1>3, <2>1, <2>2 DEF Agrees
  <2>3. ASSUME NEW h \in Handler, CsrLog(h) \/ DecideLog(h)
        PROVE  Agrees(c)'
    <3> DEFINE d == job[h].cert
    <3>1. c # d
      <4>1. CASE CsrLog(h)
        <5>1. ~Known(d)
          BY <4>1 DEF CsrLog, CoreInv, JobInv
        <5> QED BY <1>3, <5>1 DEF Settled, Known
      <4>2. CASE DecideLog(h)
        BY <1>3, <4>2 DEF DecideLog, Settled, InFlight, Unfinished
      <4> QED BY <2>3, <4>1, <4>2
    <3>2. \E k \in EventKind, b \in Bitmap : eventLog' = Push(eventLog, d, k, b)
      <4>1. CASE CsrLog(h)
        <5>1. job[h].bitmap \in Bitmap /\ "Submitted" \in EventKind
          BY <1>t DEF TypeOK, Job, EventKind
        <5> QED BY <4>1, <5>1 DEF CsrLog
      <4>2. CASE DecideLog(h)
        <5>1. DecisionKind(job[h].op) \in EventKind
          BY DEF DecisionKind, EventKind
        <5>2. (IF job[h].op = "approve" THEN FilterGrant(job[h].bitmap) ELSE {}) \in Bitmap
          BY <1>t, FilterType DEF TypeOK, Job, Bitmap
        <5> QED BY <4>2, <5>1, <5>2 DEF DecideLog
      <4> QED BY <2>3, <4>1, <4>2
    <3>3. d \in Cert
      BY <2>3 DEF CsrLog, DecideLog, CoreInv, JobInv, FreshInv, Signing
    <3>4. /\ CurrentState(eventLog', c) = CurrentState(eventLog, c)
          /\ CurrentBitmap(eventLog', c) = CurrentBitmap(eventLog, c)
      BY <1>t, <3>1, <3>2, <3>3, PushOthers
    <3> QED BY <1>3, <2>1, <3>4 DEF Agrees
  <2>4. ~Crash
    BY DEF Crash, EmptyTable, Settled
  <2> QED BY <2>2, <2>3, <2>4, LogShape
<1> QED BY <1>1, <1>2, <1>3, SettledShape

\* The whole invariant holds of the initial states, ...
LEMMA InvInit == Init => IInv
<1> SUFFICES ASSUME Init
             PROVE  IInv
  OBVIOUS
<1>1. DecisionStored /\ LogAgreesOnDecisions
  BY DEF Init, EmptyTable, DecisionStored, LogAgreesOnDecisions
<1>2. DecidingInv
  BY DEF Init, DecidingInv, Confirming
<1>3. LogInv
  BY EmptyLogSilent DEF Init, LogInv, Decided
<1> QED BY <1>1, <1>2, <1>3, CoreInit DEF IInv

\* ... and every step preserves it.
LEMMA InvStep == IInv /\ [Next]_vars => IInv'
BY CoreStep, StoredStep, DecidingStep, LogStep, AgreementStep DEF IInv

\* The invariant holds of every reachable state of the gateway.
THEOREM Invariance == Spec => []IInv
BY InvInit, InvStep, PTL DEF Spec

\* Once the handler that decided about a certificate is through, the store
\* holds what the table says of it.
THEOREM DecisionsAreStored == Spec => []DecisionStored
BY Invariance, PTL DEF IInv

\* Where the log's last word and the table are both decisions, they are the
\* same one, with the same bits.
THEOREM LogAgreement == Spec => []LogAgreesOnDecisions
BY Invariance, PTL DEF IInv

------------------------------------------------------------------------------
(* The gateway implements the permission ledger *)

\* What each certificate is to the running gateway, and what is on record.
Standing == [c \in Cert |-> StandingOf(table.entries, c)]
Archive  == [c \in Cert |-> StandingOf(store, c)]

\* The gateway starts as a ledger does, with nobody known and nothing recorded.
LEMMA LedgerStarts == Init => Ledger!LedgerInit
BY DEF Init, EmptyTable, Ledger!LedgerInit, Ledger!Nobody, Ledger!Unknown, StandingOf

\* A certificate whose entry does not change keeps its standing.
LEMMA SameStanding ==
  ASSUME NEW e, NEW f, NEW c,
         c \in DOMAIN e <=> c \in DOMAIN f,
         c \in DOMAIN e => e[c] = f[c]
  PROVE  StandingOf(e, c) = StandingOf(f, c)
BY DEF StandingOf

\* The standing each status gives.
LEMMA StandingByStatus ==
  ASSUME NEW e, NEW c, c \in DOMAIN e
  PROVE  /\ e[c].status = "Active" =>
              StandingOf(e, c) = [state |-> "active", bits |-> e[c].bitmap]
         /\ e[c].status = "Rejected" => StandingOf(e, c) = [state |-> "rejected", bits |-> {}]
         /\ e[c].status \in Waiting => StandingOf(e, c) = [state |-> "waiting", bits |-> {}]
BY DEF StandingOf, Waiting

\* While the process is up it serves, until it crashes.
LEMMA UpStep ==
  ASSUME CoreInv, [Next]_vars
  PROVE  up' = up \/ Crash \/ Start
BY ClockShape DEF Tick, Collect

\* Entering a signup is asking.
LEMMA AddAsks ==
  ASSUME CoreInv, NEW h \in Handler, Signing(h), TableAdds(h), up' = up, store' = store
  PROVE  Ledger!Ask(job[h].cert) /\ job[h].cert \in Cert
<1> DEFINE c == job[h].cert
<1>1. c \in Cert /\ up
  BY DEF CoreInv, FreshInv, LockInv, Signing
<1>2. Standing[c] = [state |-> "unknown", bits |-> {}]
  BY <1>1 DEF Standing, StandingOf, TableAdds, Known
<1>3. Standing'[c] = [state |-> "waiting", bits |-> {}]
  <2>1. c \in DOMAIN table'.entries /\ table'.entries[c].status \in Waiting
    BY DEF TableAdds
  <2> QED BY <1>1, <2>1 DEF Standing, StandingOf, Waiting
<1>4. \A d \in Cert \ {c} : Standing'[d] = Standing[d]
  <2>1. ASSUME NEW d \in Cert \ {c}
        PROVE  StandingOf(table'.entries, d) = StandingOf(table.entries, d)
    BY SameStanding DEF TableAdds
  <2> QED BY <2>1 DEF Standing
<1>5. Standing' = [Standing EXCEPT ![c] = [state |-> "waiting", bits |-> {}]]
  BY <1>1, <1>3, <1>4 DEF Standing
<1> QED BY <1>1, <1>2, <1>5 DEF Standing, Ledger!Ask, Ledger!Unknown, Ledger!Waits

\* Approving, rejecting and confirming settle what a certificate waits for.
LEMMA DecideSettles ==
  ASSUME CoreInv, NEW h \in Handler, ApproveLock(h) \/ RejectLock(h) \/ ConfirmLock(h),
         up' = up, store' = store, NEW c, c = table.pending[job[h].rid]
  PROVE  Ledger!Settle(c) /\ c \in Cert
<1>1. up /\ TableDecides(job[h].rid)
  BY DecideStep DEF ApproveLock, RejectLock, ConfirmLock, CanWrite
<1>2. c \in Cert /\ c \in DOMAIN table.entries /\ table.entries[c].status \in Waiting
  BY <1>1 DEF TableDecides, FoundByRequestId, CoreInv, PendingMatchesEntries, TypeOK, PartialFunction
<1>3. Standing[c] = [state |-> "waiting", bits |-> {}]
  BY <1>2 DEF Standing, StandingOf, Waiting
<1>4. \/ Standing'[c] = [state |-> "rejected", bits |-> {}]
      \/ /\ Standing'[c] = [state |-> "active", bits |-> table'.entries[c].bitmap]
         /\ table'.entries[c].bitmap \subseteq GrantableBits(FALSE)
  <2>1. /\ c \in DOMAIN table'.entries
        /\ table'.entries[c].status \in Decided
        /\ table'.entries[c].status = "Active" =>
             table'.entries[c].bitmap \subseteq GrantableBits(FALSE)
    BY <1>1, <1>2 DEF TableDecides
  <2>2. Standing'[c] = StandingOf(table'.entries, c)
    BY <1>2 DEF Standing
  <2> QED BY <2>1, <2>2, StandingByStatus DEF Decided
<1>5. \A d \in Cert \ {c} : Standing'[d] = Standing[d]
  <2>1. ASSUME NEW d \in Cert \ {c}
        PROVE  StandingOf(table'.entries, d) = StandingOf(table.entries, d)
    <3>1. DOMAIN table'.entries = DOMAIN table.entries
          /\ (d \in DOMAIN table'.entries => table'.entries[d] = table.entries[d])
      BY <1>1 DEF TableDecides
    <3> QED BY <3>1, SameStanding
  <2> QED BY <2>1 DEF Standing
<1>6. Standing' = [Standing EXCEPT ![c] = Standing'[c]]
  BY <1>2, <1>5 DEF Standing
<1>7. \/ Standing'[c] = Ledger!Refused
      \/ /\ Standing'[c] = Ledger!Active(Standing'[c].bits)
         /\ Standing'[c].bits \subseteq GrantableBits(FALSE)
  <2>1. CASE Standing'[c] = [state |-> "rejected", bits |-> {}]
    BY <2>1 DEF Ledger!Refused
  <2>2. CASE /\ Standing'[c] = [state |-> "active", bits |-> table'.entries[c].bitmap]
             /\ table'.entries[c].bitmap \subseteq GrantableBits(FALSE)
    <3>1. Standing'[c].bits = table'.entries[c].bitmap
      BY <2>2
    <3> QED BY <2>2, <3>1 DEF Ledger!Active
  <2> QED BY <1>4, <2>1, <2>2
<1> QED BY <1>1, <1>2, <1>3, <1>6, <1>7 DEF Standing, Ledger!Settle, Ledger!Waits

\* Storing a decision records it.
LEMMA PutRecords ==
  ASSUME CoreInv, NEW h \in Handler, DecidePut(h) \/ ConfirmPut(h), up' = up, store' # store
  PROVE  Ledger!Record(job[h].cert) /\ job[h].cert \in Cert
<1> DEFINE c == job[h].cert
<1>1. up /\ c \in DOMAIN table.entries /\ table.entries[c].status \in Decided /\ c \in Cert
  BY DEF DecidePut, ConfirmPut, CoreInv, LockInv, PutWritesDecision, Known, TypeOK, PartialFunction
<1>2. /\ table' = table
      /\ DOMAIN store' = DOMAIN store \cup {c}
      /\ store'[c] = table.entries[c]
      /\ \A d \in DOMAIN store \ {c} : store'[d] = store[d]
  <2>1. store' = Insert(store, c, table.entries[c]) /\ table' = table
    BY DEF DecidePut, ConfirmPut, Put, tableVars
  <2> QED BY <2>1 DEF Insert
<1>3. Standing[c].state \in {"active", "rejected"}
  <2>1. Standing[c] = StandingOf(table.entries, c)
    BY <1>1 DEF Standing
  <2> QED BY <1>1, <2>1, StandingByStatus DEF Decided
<1>4. Archive'[c] = Standing[c]
  <2>1. StandingOf(store', c) = StandingOf(table.entries, c)
    BY <1>1, <1>2, SameStanding
  <2> QED BY <1>1, <2>1 DEF Standing, Archive
<1>5. \A d \in Cert \ {c} : Archive'[d] = Archive[d]
  <2>1. ASSUME NEW d \in Cert \ {c}
        PROVE  StandingOf(store', d) = StandingOf(store, d)
    BY <1>2, SameStanding
  <2> QED BY <2>1 DEF Archive
<1>6. Archive' = [Archive EXCEPT ![c] = Standing[c]]
  BY <1>1, <1>4, <1>5 DEF Archive
<1> QED BY <1>1, <1>2, <1>3, <1>6 DEF Standing, Archive, Ledger!Record

\* The collector lets certificates expire.
LEMMA CollectExpires ==
  ASSUME up, up' = up, store' = store, TableCollects
  PROVE  Ledger!Expire
<1>1. ASSUME NEW c \in Cert
      PROVE  Standing'[c] \in {Standing[c], [state |-> "unknown", bits |-> {}]}
  <2>1. CASE c \in DOMAIN table'.entries
    <3>1. StandingOf(table'.entries, c) = StandingOf(table.entries, c)
      BY <2>1, SameStanding DEF TableCollects
    <3> QED BY <3>1 DEF Standing
  <2>2. CASE c \notin DOMAIN table'.entries
    BY <2>2 DEF Standing, StandingOf
  <2> QED BY <2>1, <2>2
<1>2. Standing' = [c \in Cert |-> Standing'[c]]
  BY DEF Standing
<1> QED BY <1>1, <1>2 DEF Standing, Ledger!Expire, Ledger!Unknown

\* A crash stops the service.
LEMMA CrashStops ==
  ASSUME Crash
  PROVE  Ledger!Stop
BY DEF Crash, EmptyTable, StandingOf, Ledger!Stop, Ledger!Nobody, Ledger!Unknown

\* A restart brings back the archive, the roots, or nobody.
LEMMA StartResumes ==
  ASSUME Start
  PROVE  Ledger!Resume
<1> DEFINE Unknown == [state |-> "unknown", bits |-> {}]
<1>1. /\ table'.entries = IF DOMAIN Restored = {} THEN SeedEntries ELSE Restored
      /\ store' = store /\ ~up /\ up' = TRUE
  BY DEF Start
<1>2. Standing' \in {Archive, Ledger!Roots, Ledger!Nobody}
  <2>1. CASE DOMAIN Restored # {}
    <3>1. table'.entries = store
      BY <1>1, <2>1 DEF Restored
    <3> QED BY <3>1 DEF Standing, Archive
  <2>2. CASE DOMAIN Restored = {} /\ SeedBitmap = {}
    <3>1. DOMAIN table'.entries = {}
      BY <1>1, <2>2 DEF SeedEntries
    <3> QED BY <3>1 DEF Standing, StandingOf, Ledger!Nobody, Ledger!Unknown
  <2>3. CASE DOMAIN Restored = {} /\ SeedBitmap # {}
    <3>1. table'.entries = SeedEntries /\ DOMAIN SeedEntries = Seeds
      BY <1>1, <2>3 DEF SeedEntries
    <3>2. \A c \in Seeds : SeedEntries[c].status = "Active" /\ SeedEntries[c].bitmap = SeedBitmap
      BY <2>3 DEF SeedEntries
    <3> HIDE DEF SeedEntries
    <3>3. ASSUME NEW c \in Cert
          PROVE  StandingOf(table'.entries, c) =
                   IF c \in Seeds THEN [state |-> "active", bits |-> SeedBitmap] ELSE Unknown
      <4>1. CASE c \in Seeds
        BY <3>1, <3>2, <4>1, StandingByStatus
      <4>2. CASE c \notin Seeds
        BY <3>1, <4>2 DEF StandingOf
      <4> QED BY <4>1, <4>2
    <3>4. Standing' = Ledger!Roots
      BY <3>3 DEF Standing, Ledger!Roots, Ledger!Active, Ledger!Unknown
    <3> QED BY <3>4
  <2> QED BY <2>1, <2>2, <2>3
<1> QED BY <1>1, <1>2 DEF Standing, Archive, Ledger!Resume

\* Every step of the gateway is a step of the ledger or leaves it alone.
LEMMA LedgerStep ==
  ASSUME CoreInv, [Next]_vars
  PROVE  [Ledger!LedgerNext]_(Ledger!ledger)
<1>1. CASE Crash
  BY <1>1, CrashStops DEF Ledger!LedgerNext
<1>2. CASE Start
  BY <1>2, StartResumes DEF Ledger!LedgerNext
<1>3. CASE up' = up /\ store' # store
  <2>1. PICK h \in Handler : DecidePut(h) \/ ConfirmPut(h)
    BY <1>3, StoreShape
  <2>2. Ledger!Record(job[h].cert) /\ job[h].cert \in Cert
    BY <1>3, <2>1, PutRecords
  <2> QED BY <2>2 DEF Ledger!LedgerNext
<1>4. CASE up' = up /\ store' = store /\ ~Crash /\ ~Start
  <2>1. CASE TableSame
    BY <1>4, <2>1 DEF TableSame, Ledger!ledger
  <2>2. ASSUME NEW h \in Handler, Signing(h), TableAdds(h)
        PROVE  Ledger!LedgerNext
    BY <1>4, <2>2, AddAsks DEF Ledger!LedgerNext
  <2>3. ASSUME NEW h \in Handler, ApproveLock(h) \/ RejectLock(h) \/ ConfirmLock(h)
        PROVE  Ledger!LedgerNext
    BY <1>4, <2>3, DecideSettles DEF Ledger!LedgerNext
  <2>4. CASE up /\ TableCollects
    BY <1>4, <2>4, CollectExpires DEF Ledger!LedgerNext
  <2> QED BY <1>4, <2>1, <2>2, <2>3, <2>4, TableMoves
<1> QED BY <1>1, <1>2, <1>3, <1>4, UpStep

\* The gateway implements the permission ledger: handlers, collector, store,
\* crashes and restarts together do nothing a ledger would not do.
THEOREM GatewayImplementsLedger == Spec => ImplementsLedger
<1>1. Init => Ledger!LedgerInit
  BY LedgerStarts
<1>2. CoreInv /\ [Next]_vars => [Ledger!LedgerNext]_(Ledger!ledger)
  BY LedgerStep
<1> QED BY <1>1, <1>2, CoreInvariance, PTL DEF Spec, ImplementsLedger, Ledger!LedgerSpec
==============================================================================
