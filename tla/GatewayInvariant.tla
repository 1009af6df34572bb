--------------------------- MODULE GatewayInvariant ---------------------------
(***************************************************************************)
(* The inductive invariant of Gateway: what its safety properties rest on. *)
(***************************************************************************)
EXTENDS Gateway

\* Where a handler holds the table's write lock across an await.
Exclusive == {"csr_log", "decide_log", "decide_put"}

\* Writers exclude each other and the readers, and a dead process has neither
\* handlers nor a table.
LockInv ==
  /\ \A h \in Handler : pc[h] \in Exclusive => writer = h
  /\ \A h \in Handler : pc[h] = "confirm_put" => h \in readers
  /\ writer # NoHandler => readers = {}
  /\ ~up => DOMAIN table.entries = {} /\ \A h \in Handler : pc[h] = "idle"

\* A handler that has signed up a device and not entered it in the table yet,
\* and among those one whose certificate the CA has just minted.
Signing(h) ==
  pc[h] \in {"wait", "csr_log"} /\ job[h].op \in {"csr", "pubkey", "cert"}

Minting(h) == Signing(h) /\ job[h].op # "cert"

\* What a handler works on fits the place it has reached.
JobInv ==
  \A h \in Handler :
    /\ pc[h] # "idle" => job[h].rid \in Rid /\ job[h].rid < nextRid
    /\ pc[h] = "csr_log" => job[h].op = "csr" /\ ~Known(job[h].cert)
    /\ pc[h] \in {"decide_log", "decide_put"} =>
         job[h].op \in {"approve", "reject"} /\ job[h].cert \in Cert
    /\ pc[h] \in {"confirm_read", "confirm_put"} => job[h].cert \in minted

\* A request id, and a certificate the CA mints, are new: nothing else in the
\* gateway carries them until the signup has entered them in the table.
FreshInv ==
  /\ \A h \in Handler :
       Signing(h) =>
         /\ job[h].cert \in Cert
         /\ job[h].bitmap \subseteq RequestableBits
         /\ job[h].rid \notin DOMAIN table.pending
         /\ job[h].op = "cert" => job[h].cert \notin Issued
  /\ \A g, h \in Handler :
       g # h /\ Signing(g) /\ Signing(h) => job[g].rid # job[h].rid
  /\ \A h \in Handler :
       Minting(h) => job[h].cert \in minted /\ ~Known(job[h].cert)
  /\ \A g, h \in Handler :
       g # h /\ Minting(h) /\ (Minting(g) \/ pc[g] \in {"confirm_read", "confirm_put"})
         => job[g].cert # job[h].cert

\* What the handlers, the collector and a restart leave in the table.
EntryInv ==
  /\ \A rid \in DOMAIN table.pending : rid < nextRid
  /\ \A c \in DOMAIN table.entries :
       /\ table.entries[c].status \in Waiting \cup Decided
       /\ table.entries[c].status = "PendingConfirm" => c \in Issued
       /\ table.entries[c].status \in Waiting =>
            table.entries[c].requested \subseteq RequestableBits
       /\ table.entries[c].lastSeen = "never"
       /\ c \notin Seeds => table.entries[c].bitmap \subseteq GrantableBits(FALSE)
       /\ c \in Issued => c \in minted

\* What is stored.
StoreInv ==
  \A c \in DOMAIN store :
    /\ store[c].status \in Decided
    /\ store[c].lastSeen = "never"
    /\ c \notin Seeds => store[c].bitmap \subseteq GrantableBits(FALSE)
    /\ c \in Issued => c \in minted

\* A confirmation that has not read its entry again yet: if the entry is still
\* there, it is the one it confirmed, because the certificate cannot have been
\* signed up a second time.
ConfirmInv ==
  \A h \in Handler :
    pc[h] = "confirm_read" /\ Known(job[h].cert) =>
      table.entries[job[h].cert].status \in Decided

\* The conjuncts the steps preserve together, none of them alone.
CoreInv ==
  /\ TypeOK
  /\ LockInv
  /\ JobInv
  /\ FreshInv
  /\ EntryInv
  /\ PendingMatchesEntries
  /\ StoreInv
  /\ PutWritesDecision
  /\ ConfirmInv

------------------------------------------------------------------------------
(* What the agreement of the event log with the table rests on *)

\* Where a handler has confirmed a request and not stored it yet.
Confirming == {"confirm_read", "confirm_put"}

\* An approval or a rejection that is about to be logged is the one the table
\* holds, and nobody confirms its certificate meanwhile.
DecidingInv ==
  /\ \A h \in Handler :
       pc[h] = "decide_log" =>
         LET e == table.entries[job[h].cert] IN
           IF job[h].op = "approve"
             THEN e.status = "Active" /\ e.bitmap = FilterGrant(job[h].bitmap)
             ELSE e.status = "Rejected"
  /\ \A g, h \in Handler :
       pc[g] \in {"decide_log", "decide_put"} /\ pc[h] \in Confirming =>
         job[g].cert # job[h].cert

\* The log's last word on a certificate is the table's.
Agrees(c) ==
  LET e == table.entries[c] IN
    /\ e.status = CurrentState(eventLog, c)
    /\ e.status = "Active" => e.bitmap = CurrentBitmap(eventLog, c)

\* A decision that has been logged agrees with the table when it is stored, and
\* a certificate of the CA about which one is logged can no longer wait for a
\* decision or for its confirmation.
LogInv ==
  /\ ~up => eventLog = EmptyLog
  /\ \A h \in Handler : pc[h] = "decide_put" => Agrees(job[h].cert)
  /\ \A c \in Issued :
       CurrentState(eventLog, c) \in Decided =>
         /\ c \in minted
         /\ Known(c) => table.entries[c].status \in Decided
         /\ \A h \in Handler :
              Minting(h) \/ pc[h] \in Confirming => job[h].cert # c

\* Everything that holds of the gateway's states together with what it rests on.
IInv ==
  /\ CoreInv
  /\ DecisionStored
  /\ DecidingInv
  /\ LogInv
  /\ LogAgreesOnDecisions
==============================================================================
