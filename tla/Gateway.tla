------------------------------- MODULE Gateway -------------------------------
(***************************************************************************)
(* The running gateway: HTTP handlers, the hourly collector, the redb      *)
(* store, crashes and restarts.  tokio runs everything on one thread, so a *)
(* handler is interrupted only where it awaits; every action below is the  *)
(* code between two awaits.                                                *)
(*                                                                         *)
(* The event log's lock and the store's mutex are never held across an     *)
(* await, so acquiring one, using it and releasing it is one step.  The    *)
(* table's RwLock is held across awaits and is modelled as it is.          *)
(***************************************************************************)
EXTENDS AuthTable, EventLog

CONSTANTS
  SelfSigned,     \* certificates devices bring themselves
  Issued,         \* certificates the CA can mint; each is minted once
  Seeds,          \* root certificates of seed.json
  SeedBitmap,     \* the bitmap seed.json gives them
  Handler,        \* concurrent HTTP requests
  NoHandler,      \* nobody: the holder of a free lock
  NoCert,         \* the certificate of a job that has not found one yet
  RequestBitmaps, \* raw bitmaps signups ask for
  ApproveBitmaps, \* raw bitmaps administrators send
  Databases,      \* which redb file can be opened: "primary", "tmp", "none"
  MaxRequests,    \* bound: signups that get as far as drawing a request id
  MaxTime         \* bound: hours on the clock

Cert == SelfSigned \cup Issued \cup Seeds
Rid  == 1..MaxRequests

\* The CA mints a certificate with a serial of its own, and in an armour that
\* the check of self-signed certificates refuses: nobody brings one of them.
ASSUME GatewayAssumption ==
  /\ Issued \cap (SelfSigned \cup Seeds) = {}
  /\ NoCert \notin Cert
  /\ NoHandler \notin Handler
  /\ SeedBitmap \in Bitmap
  /\ RequestBitmaps \subseteq Bitmap
  /\ ApproveBitmaps \subseteq Bitmap
  /\ Databases \subseteq {"primary", "tmp", "none"}
  /\ MaxRequests \in Nat
  /\ MaxTime \in Nat

VARIABLES
  up,         \* the process is serving
  now,        \* the clock, in hours
  gcDue,      \* the collector's interval has ticked and it has not run since
  db,         \* the database file the process finds at startup
  store,      \* the contents of that file: entries by certificate
  table,      \* the permission table
  eventLog,   \* the event log
  sse,        \* "approved" messages broadcast on /api/events
  writer,     \* holder of the table's write lock
  readers,    \* holders of its read lock that are waiting for something else
  pc, job,    \* where each handler is, and what it works on
  nextRid,    \* the next request id to draw: a fresh UUID
  minted,     \* certificates the CA has signed
  unsaved     \* certificates whose last decision missed the store: the write
              \* failed, or the handler was dropped before it

tableVars == <<table, eventLog, sse>>
jobVars   == <<pc, job, writer, readers>>
envVars   == <<up, now, gcDue, db>>
idVars    == <<nextRid, minted>>
vars == <<up, now, gcDue, db, store, table, eventLog, sse, writer, readers,
          pc, job, nextRid, minted, unsaved>>

Location == {"idle", "wait", "csr_log", "decide_log", "decide_put",
             "confirm_read", "confirm_put"}
Operation == {"none", "csr", "pubkey", "cert", "approve", "reject", "confirm"}

NoJob == [op |-> "none", rid |-> 0, cert |-> NoCert, bitmap |-> {}]

------------------------------------------------------------------------------
(* The table's RwLock.  Readers that return before they wait for anything  *)
(* else hold it within a single step and do not appear in readers.         *)

CanRead  == up /\ writer = NoHandler
CanWrite == up /\ writer = NoHandler /\ readers = {}

Goto(h, loc) == pc' = [pc EXCEPT ![h] = loc]

\* The handler has answered its client.
Finish(h) ==
  /\ pc'  = [pc  EXCEPT ![h] = "idle"]
  /\ job' = [job EXCEPT ![h] = NoJob]

\* A handler that answers under the write lock without having changed anything:
\* a conflict, an unknown request id, nothing to grant.
Refuse(h) ==
  /\ Finish(h)
  /\ UNCHANGED <<tableVars, writer, readers, store, unsaved, envVars, idVars>>

------------------------------------------------------------------------------
(* Requests arrive.  A signup draws its request id, and for a CSR or a bare *)
(* public key mints the certificate, before it asks for the lock.  Requests *)
(* with a bad token or malformed fields are answered without touching any   *)
(* state and are left out.                                                  *)

Arrive(h, request) ==
  /\ up
  /\ pc[h] = "idle"
  /\ Goto(h, "wait")
  /\ job' = [job EXCEPT ![h] = request]
  /\ UNCHANGED <<tableVars, writer, readers, store, unsaved, envVars>>

SubmitIssued(h) ==
  \E op \in {"csr", "pubkey"}, c \in Issued \ minted, raw \in RequestBitmaps :
    /\ nextRid \in Rid
    /\ Arrive(h, [op |-> op, rid |-> nextRid, cert |-> c,
                  bitmap |-> ParseRequested(raw)])
    /\ nextRid' = nextRid + 1
    /\ minted' = minted \cup {c}

SubmitSelfSigned(h) ==
  \E c \in SelfSigned \cup Seeds, raw \in RequestBitmaps :
    /\ nextRid \in Rid
    /\ Arrive(h, [op |-> "cert", rid |-> nextRid, cert |-> c,
                  bitmap |-> ParseRequested(raw)])
    /\ nextRid' = nextRid + 1
    /\ UNCHANGED minted

\* Clients and administrators know the ids drawn so far.
Decision(op, rid, bitmap) ==
  [op |-> op, rid |-> rid, cert |-> NoCert, bitmap |-> bitmap]

RequestDecision(h) ==
  \E rid \in {r \in Rid : r < nextRid} :
    /\ \/ \E raw \in ApproveBitmaps : Arrive(h, Decision("approve", rid, raw))
       \/ Arrive(h, Decision("reject", rid, {}))
       \/ Arrive(h, Decision("confirm", rid, {}))
    /\ UNCHANGED idVars

------------------------------------------------------------------------------
(* POST /api/signup *)

\* Mutant: a rejected device may sign up again while its entry is still there.
KnownUnlessRejected(c) ==
  c \in DOMAIN table.entries /\ table.entries[c].status # "Rejected"

Known(c) == c \in DOMAIN table.entries

\* The write lock is taken and the duplicate check passed; the event log is
\* awaited next, the table lock still held.
CsrLock(h) ==
  /\ pc[h] = "wait" /\ job[h].op = "csr"
  /\ CanWrite
  /\ ~Known(job[h].cert)
  /\ writer' = h
  /\ Goto(h, "csr_log")
  /\ UNCHANGED <<job, readers, tableVars, store, unsaved, envVars, idVars>>

CsrLog(h) ==
  /\ pc[h] = "csr_log"
  /\ eventLog' = Push(eventLog, job[h].cert, "Submitted", job[h].bitmap)
  /\ table' = AddPending(table, job[h].cert, job[h].rid, job[h].bitmap,
                         "PendingConfirm", now)
  /\ writer' = NoHandler
  /\ Finish(h)
  /\ UNCHANGED <<readers, sse, store, unsaved, envVars, idVars>>

\* Mutant: the status is taken from the event of the same moment.
InitialStatusOfEvent(op) == IF op = "pubkey" THEN "PendingConfirm" ELSE "Submitted"

\* handle_pubkey and handle_self_signed do the same in one step, and neither
\* records an event.
InitialStatus(op) == IF op = "pubkey" THEN "PendingConfirm" ELSE "Pending"

AddUnlogged(h) ==
  /\ pc[h] = "wait" /\ job[h].op \in {"pubkey", "cert"}
  /\ CanWrite
  /\ ~Known(job[h].cert)
  /\ table' = AddPending(table, job[h].cert, job[h].rid, job[h].bitmap,
                         InitialStatus(job[h].op), now)
  /\ Finish(h)
  /\ UNCHANGED <<eventLog, sse, writer, readers, store, unsaved, envVars, idVars>>

SignupConflict(h) ==
  /\ pc[h] = "wait" /\ job[h].op \in {"csr", "pubkey", "cert"}
  /\ CanWrite
  /\ Known(job[h].cert)
  /\ Refuse(h)

------------------------------------------------------------------------------
(* POST /api/manager/approve: the write lock is held to the end. *)

\* From here on the job names the certificate its request id stood for.
Name(h) == job' = [job EXCEPT ![h].cert = table.pending[job[h].rid]]

\* The event an approval or a rejection is recorded as.
DecisionKind(op) == IF op = "approve" THEN "Approved" ELSE "Rejected"

\* table.approve() and the broadcast; the event log is awaited next.  The
\* message carries the bitmap the administrator sent, not the one granted.
ApproveLock(h) ==
  /\ pc[h] = "wait" /\ job[h].op = "approve"
  /\ CanWrite
  /\ FilterGrant(job[h].bitmap) # {}
  /\ FoundByRequestId(table, job[h].rid)
  /\ table' = Approve(table, job[h].rid, FilterGrant(job[h].bitmap))
  /\ sse' = sse \cup {[cert   |-> table.pending[job[h].rid],
                       bitmap |-> job[h].bitmap]}
  /\ writer' = h
  /\ Name(h)
  /\ Goto(h, "decide_log")
  /\ UNCHANGED <<eventLog, readers, store, unsaved, envVars, idVars>>

RejectLock(h) ==
  /\ pc[h] = "wait" /\ job[h].op = "reject"
  /\ CanWrite
  /\ FoundByRequestId(table, job[h].rid)
  /\ table' = Reject(table, job[h].rid)
  /\ writer' = h
  /\ Name(h)
  /\ Goto(h, "decide_log")
  /\ UNCHANGED <<eventLog, sse, readers, store, unsaved, envVars, idVars>>

\* Nothing to grant, or table.approve() / table.reject() found no entry: the
\* request id, if it was pending, is used up all the same.
DecisionRefused(h) ==
  /\ pc[h] = "wait" /\ job[h].op \in {"approve", "reject"}
  /\ CanWrite
  /\ \/ job[h].op = "approve" /\ FilterGrant(job[h].bitmap) = {} /\ UNCHANGED table
     \/ /\ job[h].op = "reject" \/ FilterGrant(job[h].bitmap) # {}
        /\ ~FoundByRequestId(table, job[h].rid)
        /\ table' = RemovePending(table, job[h].rid)
  /\ Finish(h)
  /\ UNCHANGED <<eventLog, sse, writer, readers, store, unsaved, envVars, idVars>>

\* Mutant: the event carries the bits the administrator sent.
DecideLogUnfiltered(h) ==
  /\ pc[h] = "decide_log"
  /\ eventLog' = Push(eventLog, job[h].cert, DecisionKind(job[h].op), job[h].bitmap)
  /\ Goto(h, "decide_put")
  /\ UNCHANGED <<job, table, sse, writer, readers, store, unsaved, envVars, idVars>>

DecideLog(h) ==
  /\ pc[h] = "decide_log"
  /\ eventLog' = Push(eventLog, job[h].cert, DecisionKind(job[h].op),
                      IF job[h].op = "approve" THEN FilterGrant(job[h].bitmap)
                                               ELSE {})
  /\ Goto(h, "decide_put")
  /\ UNCHANGED <<job, table, sse, writer, readers, store, unsaved, envVars, idVars>>

\* Mutant: a row the store already has is not overwritten.
PutIfAbsent(c) ==
  /\ store'   = IF c \in DOMAIN store THEN store ELSE Insert(store, c, table.entries[c])
  /\ unsaved' = unsaved \ {c}

\* store::put(): one redb transaction, whose error the handlers drop.
Put(c) ==
  \/ /\ store'   = IF db = "none" THEN store
                   ELSE Insert(store, c, table.entries[c])
     /\ unsaved' = unsaved \ {c}
  \/ /\ db # "none"
     /\ unsaved' = unsaved \cup {c}
     /\ UNCHANGED store

DecidePut(h) ==
  /\ pc[h] = "decide_put"
  /\ Put(job[h].cert)
  /\ writer' = NoHandler
  /\ Finish(h)
  /\ UNCHANGED <<tableVars, readers, envVars, idVars>>

------------------------------------------------------------------------------
(* POST /api/cert-confirm: the write lock is released before the entry is   *)
(* read again for the store, under the read lock.                           *)

Confirmable(rid) ==
  /\ FoundByRequestId(table, rid)
  /\ Requested(table, rid).status = "PendingConfirm"

\* Mutant: the write lock is still held when the read lock is asked for.
ConfirmLockHeld(h) ==
  /\ pc[h] = "wait" /\ job[h].op = "confirm"
  /\ CanWrite
  /\ Confirmable(job[h].rid)
  /\ table' = Confirm(table, job[h].rid)
  /\ writer' = h
  /\ Name(h)
  /\ Goto(h, "confirm_read")
  /\ UNCHANGED <<eventLog, sse, readers, store, unsaved, envVars, idVars>>

ConfirmLock(h) ==
  /\ pc[h] = "wait" /\ job[h].op = "confirm"
  /\ CanWrite
  /\ Confirmable(job[h].rid)
  /\ table' = Confirm(table, job[h].rid)
  /\ Name(h)
  /\ Goto(h, "confirm_read")
  /\ UNCHANGED <<eventLog, sse, writer, readers, store, unsaved, envVars, idVars>>

\* 404 for an unknown id, 409 for an entry in any other status.
ConfirmRefused(h) ==
  /\ pc[h] = "wait" /\ job[h].op = "confirm"
  /\ CanWrite
  /\ ~Confirmable(job[h].rid)
  /\ Refuse(h)

\* Mutant: the read lock is let go before the store is awaited.
ConfirmReadUnlocked(h) ==
  /\ pc[h] = "confirm_read"
  /\ CanRead
  /\ Known(job[h].cert)
  /\ Goto(h, "confirm_put")
  /\ UNCHANGED <<job, writer, readers, tableVars, store, unsaved, envVars, idVars>>

\* The read lock is taken; the store is awaited next.
ConfirmRead(h) ==
  /\ pc[h] = "confirm_read"
  /\ CanRead
  /\ Known(job[h].cert)
  /\ readers' = readers \cup {h}
  /\ Goto(h, "confirm_put")
  /\ UNCHANGED <<job, writer, tableVars, store, unsaved, envVars, idVars>>

\* The entry is gone by now: nothing is stored, and the answer is still
\* "active".
ConfirmGone(h) ==
  /\ pc[h] = "confirm_read"
  /\ CanRead
  /\ ~Known(job[h].cert)
  /\ Refuse(h)

ConfirmPut(h) ==
  /\ pc[h] = "confirm_put"
  /\ Put(job[h].cert)
  /\ readers' = readers \ {h}
  /\ Finish(h)
  /\ UNCHANGED <<tableVars, writer, envVars, idVars>>

------------------------------------------------------------------------------
(* The client hangs up: the HTTP server drops the handler where it awaits,  *)
(* and with it the locks it holds.                                          *)

\* Where the table has already been changed but the store has not.
Unfinished == {"decide_log", "decide_put", "confirm_read", "confirm_put"}

Disconnect(h) ==
  /\ pc[h] # "idle"
  /\ unsaved' = IF pc[h] \in Unfinished THEN unsaved \cup {job[h].cert}
                                        ELSE unsaved
  /\ writer'  = IF writer = h THEN NoHandler ELSE writer
  /\ readers' = readers \ {h}
  /\ Finish(h)
  /\ UNCHANGED <<tableVars, store, envVars, idVars>>

------------------------------------------------------------------------------
(* The collector's hourly pass, in one step under the write lock. *)

Collect ==
  /\ gcDue
  /\ CanWrite
  /\ table' = Gc(table, now)
  /\ gcDue' = FALSE
  /\ UNCHANGED <<eventLog, sse, up, now, db, store, jobVars, idVars, unsaved>>

\* An hour passes.  Locks are held for far less than an hour, so a collector
\* that is due has run before the next hour is over.
Tick ==
  /\ now < MaxTime
  /\ up => ~gcDue
  /\ now' = now + 1
  /\ gcDue' = up
  /\ UNCHANGED <<up, db, store, tableVars, jobVars, idVars, unsaved>>

------------------------------------------------------------------------------
(* Crash and startup *)

Crash ==
  /\ up
  /\ up'       = FALSE
  /\ gcDue'    = FALSE
  /\ table'    = EmptyTable
  /\ eventLog' = EmptyLog
  /\ sse'      = {}
  /\ writer'   = NoHandler
  /\ readers'  = {}
  /\ pc'       = [h \in Handler |-> "idle"]
  /\ job'      = [h \in Handler |-> NoJob]
  /\ UNCHANGED <<now, db, store, idVars, unsaved>>

\* Only the primary database is read back; /tmp/auth.redb is written to but
\* not restored from.
Restored == IF db = "primary" THEN store ELSE << >>

\* add_pending("__seed__") and approve("__seed__") for each root certificate:
\* the bitmap is not filtered, and no entry of seed.json is stored.
SeedEntries ==
  [c \in IF SeedBitmap = {} THEN {} ELSE Seeds |->
     [bitmap |-> SeedBitmap, requested |-> SeedBitmap, status |-> "Active",
      createdAt |-> now, lastSeen |-> "never"]]

\* start_server(): restore, seed a table that is still empty, start the
\* collector (whose interval ticks at once), serve.
Start ==
  /\ ~up
  /\ up'    = TRUE
  /\ gcDue' = TRUE
  /\ table' = [pending |-> << >>,
               entries |-> IF DOMAIN Restored = {} THEN SeedEntries ELSE Restored]
  /\ unsaved' = {}
  /\ UNCHANGED <<now, db, store, eventLog, sse, jobVars, idVars>>

------------------------------------------------------------------------------
Init ==
  /\ up = FALSE
  /\ now = 0
  /\ gcDue = FALSE
  /\ db \in Databases
  /\ store = << >>
  /\ table = EmptyTable
  /\ eventLog = EmptyLog
  /\ sse = {}
  /\ writer = NoHandler
  /\ readers = {}
  /\ pc = [h \in Handler |-> "idle"]
  /\ job = [h \in Handler |-> NoJob]
  /\ nextRid = 1
  /\ minted = {}
  /\ unsaved = {}

Request(h) == SubmitIssued(h) \/ SubmitSelfSigned(h) \/ RequestDecision(h)

\* The steps that need the table lock, and those of a handler that is past it.
Acquire(h) ==
  \/ CsrLock(h) \/ AddUnlogged(h) \/ SignupConflict(h)
  \/ ApproveLock(h) \/ RejectLock(h) \/ DecisionRefused(h)
  \/ ConfirmLock(h) \/ ConfirmRefused(h) \/ ConfirmRead(h) \/ ConfirmGone(h)

Proceed(h) == CsrLog(h) \/ DecideLog(h) \/ DecidePut(h) \/ ConfirmPut(h)

Next ==
  \/ \E h \in Handler : Request(h) \/ Acquire(h) \/ Proceed(h) \/ Disconnect(h)
  \/ Collect \/ Tick \/ Crash \/ Start

Spec == Init /\ [][Next]_vars

\* tokio's RwLock serves its waiters in the order they came, so a waiter that
\* finds the lock free again and again gets it: strong fairness.  A task that
\* waits for nothing is run: weak fairness.  Nothing is assumed of clients,
\* crashes or restarts.
Fairness ==
  /\ \A h \in Handler : SF_vars(Acquire(h)) /\ WF_vars(Proceed(h))
  /\ SF_vars(Collect)

FairSpec == Spec /\ Fairness
------------------------------------------------------------------------------
(* Types *)

PartialFunction(f, S, T) == DOMAIN f \subseteq S /\ f \in [DOMAIN f -> T]

Event == [seq : Nat, cert : Cert, kind : EventKind, bitmap : Bitmap]

Job == [op : Operation, rid : Rid \cup {0}, cert : Cert \cup {NoCert},
        bitmap : Bitmap]

\* Every variable holds a value of its type.
TypeOK ==
  /\ up \in BOOLEAN
  /\ now \in Nat
  /\ gcDue \in BOOLEAN
  /\ db \in Databases
  /\ PartialFunction(store, Cert, Entry)
  /\ DOMAIN table = {"entries", "pending"}
  /\ PartialFunction(table.entries, Cert, Entry)
  /\ PartialFunction(table.pending, Rid, Cert)
  /\ DOMAIN eventLog = {"events", "nextSeq"}
  /\ eventLog.events \in Seq(Event)
  /\ eventLog.nextSeq \in Nat
  /\ sse \subseteq [cert : Cert, bitmap : Bitmap]
  /\ writer \in Handler \cup {NoHandler}
  /\ readers \subseteq Handler
  /\ pc \in [Handler -> Location]
  /\ job \in [Handler -> Job]
  /\ nextRid \in Nat \ {0}
  /\ minted \subseteq Issued
  /\ unsaved \subseteq Cert

------------------------------------------------------------------------------
(* Safety *)

\* The pending map and the entries never disagree: an id waits for exactly
\* the certificates that have no decision yet, one id for each.  approve()
\* and reject() use up the id before they look for the entry, and three
\* handlers and the collector edit both maps; an id without an entry would be
\* answered "not found" for ever, an entry without an id could never be
\* decided.
PendingMatchesEntries ==
  /\ \A rid \in DOMAIN table.pending :
       /\ table.pending[rid] \in DOMAIN table.entries
       /\ table.entries[table.pending[rid]].status \in Waiting
  /\ \A c \in DOMAIN table.entries :
       table.entries[c].status \in Waiting =>
         \E rid \in DOMAIN table.pending : table.pending[rid] = c
  /\ \A r1, r2 \in DOMAIN table.pending :
       table.pending[r1] = table.pending[r2] => r1 = r2

\* No path - signup and confirm with the bits the device asked for, approval
\* with the bits the administrator sent, a restart with what was stored -
\* gives a certificate other than a preset root a bit the catalog reserves
\* for root.
NoAdminGranted ==
  \A c \in Cert \ Seeds :
    /\ Known(c) => table.entries[c].bitmap \subseteq GrantableBits(FALSE)
    /\ c \in DOMAIN store => store[c].bitmap \subseteq GrantableBits(FALSE)

\* A handler that is about to write its decision to the store finds the
\* decided entry of its certificate in the table: no collector pass and no
\* other request got between its decision and its write.
PutWritesDecision ==
  \A h \in Handler :
    pc[h] \in {"decide_log", "decide_put", "confirm_put"} =>
      /\ Known(job[h].cert)
      /\ table.entries[job[h].cert].status \in Decided

InFlight(c) == \E h \in Handler : pc[h] \in Unfinished /\ job[h].cert = c

\* Once the handler that decided about a certificate is through, what the
\* table says of it is what the store holds, so that a restart brings back
\* the decision and nothing else - unless the write failed or the client hung
\* up before it.  Preset roots are not stored.
DecisionStored ==
  db # "none" =>
    \A c \in DOMAIN table.entries \ Seeds :
      table.entries[c].status \in Decided /\ ~InFlight(c) /\ c \notin unsaved =>
        c \in DOMAIN store /\ store[c] = table.entries[c]

\* Only decisions are ever stored: a restart, which restores the entries but
\* not the request ids, cannot bring back a request nobody could decide.
StoreHoldsDecisions ==
  \A c \in DOMAIN store : store[c].status \in Decided

\* When the log's last word on a certificate is a decision and the table holds
\* a decision about it too, the two agree on it and on the bits: events are
\* pushed in the order the table changed.
LogAgreesOnDecisions ==
  \A c \in DOMAIN table.entries :
    LET e == table.entries[c] IN
      /\ e.status \in Decided /\ ~InFlight(c) /\ c \notin unsaved
      /\ CurrentState(eventLog, c) \in Decided
      => /\ e.status = CurrentState(eventLog, c)
         /\ e.status = "Active" => e.bitmap = CurrentBitmap(eventLog, c)

\* Between two collector passes no entry is older than the pending retention
\* and the hour since the last pass, whatever its status and however long the
\* process was down: nothing ever sets last_seen.
NothingOutlivesRetention ==
  up => \A c \in DOMAIN table.entries :
          ~gcDue => now <= table.entries[c].createdAt + PendingRetention

\* The first decision about an entry is the last one: no interleaving of
\* approvals, rejections, confirmations and signups changes it afterwards.
\* The entry can only be dropped.
FirstDecisionStands ==
  [][\A c \in DOMAIN table.entries \cap DOMAIN table'.entries :
       table.entries[c].status \in Decided =>
         table'.entries[c] = table.entries[c]]_vars

------------------------------------------------------------------------------
(* Liveness *)

\* Every request is answered or its connection is gone: no handler waits for
\* the table lock for ever.
EveryRequestAnswered ==
  \A h \in Handler : pc[h] # "idle" ~> pc[h] = "idle"

\* A collector pass that is due happens, unless the process dies first.
CollectorRuns == gcDue ~> ~gcDue

------------------------------------------------------------------------------
(* The promise the gateway implements *)

\* The standing an entry gives its certificate.
StandingOf(entries, c) ==
  IF c \notin DOMAIN entries THEN [state |-> "unknown", bits |-> {}]
  ELSE CASE entries[c].status = "Active" ->
              [state |-> "active", bits |-> entries[c].bitmap]
         [] entries[c].status = "Rejected" -> [state |-> "rejected", bits |-> {}]
         [] entries[c].status \in Waiting -> [state |-> "waiting", bits |-> {}]
         [] OTHER -> [state |-> "revoked", bits |-> {}]

Ledger == INSTANCE PermissionLedger WITH
            Subject   <- Cert,
            Root      <- Seeds,
            RootBits  <- SeedBitmap,
            Grantable <- GrantableBits(FALSE),
            serving   <- up,
            standing  <- [c \in Cert |-> StandingOf(table.entries, c)],
            archive   <- [c \in Cert |-> StandingOf(store, c)]

\* The whole system - handlers, collector, store, crashes and restarts - is a
\* ledger: access begins with a decision, the roots or the archive, a decision
\* is never revised, and the archive never runs ahead of the table.
ImplementsLedger == Ledger!LedgerSpec
==============================================================================
