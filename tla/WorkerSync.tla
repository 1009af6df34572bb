------------------------------ MODULE WorkerSync ------------------------------
(***************************************************************************)
(* The remote Worker and the router's loop that pushes to it.  The loop    *)
(* waits for a tick of its interval, connects, does the TLS handshake      *)
(* (always: only a test address goes without), writes, and reads the       *)
(* answer; nothing in it has a timeout.  What it sends has no events, but  *)
(* the Worker takes batches of events from whoever has the sync token, and *)
(* keeps them under the millisecond in which they came.  The Worker also   *)
(* keeps the digest of the recovery code joined to a salt of its           *)
(* environment, with nothing between them: a code and a salt can join to   *)
(* what another code and another salt do.  SHA-256 is taken to tell any    *)
(* two strings apart, so the digest of a string is the string.             *)
(***************************************************************************)
EXTENDS Integers, SequencesExt

CONSTANTS
  Batch,      \* non-empty batches of events
  Char,       \* the characters of codes and salts
  Code,       \* recovery codes sent as strings
  Number,     \* recovery codes sent as numbers other than 0, by their digits
  MinLength,  \* the least number of characters of a string that is accepted
  Salt,       \* values RECOVERY_SALT has had
  MaxMillis   \* bound: milliseconds in which the Worker is asked something

ASSUME WorkerAssumption ==
  /\ Code \cup Number \cup Salt \subseteq Seq(Char)
  /\ <<>> \notin Number \cup Salt
  /\ MinLength \in Nat \ {0}
  /\ MaxMillis \in Nat

Empty  == "empty"
NoSalt == <<>>       \* an empty variable counts as none
NoHash == <<>>
NoBatch == "nothing"

Millis == 0..MaxMillis

VARIABLES
  loop,         \* where the router's loop is
  answer,       \* the status the loop read last; 0 when there was none to read
  millis,       \* the Worker's clock
  inbox,        \* KV: the batch under each key sync:router:<milliseconds>
  recoveryHash, \* KV: recovery_hash
  salt,         \* RECOVERY_SALT of this deployment
  taken,        \* history: batches acknowledged, with the millisecond they came in
  lastSetup,    \* history: the last code whose setup was acknowledged, and its salt
  admitted      \* history: the codes verify has given the recovery token for since,
                \* each with the salt of that deployment

loopVars    == <<loop, answer>>
kvVars      == <<inbox, recoveryHash>>
historyVars == <<taken, lastSetup, admitted>>
workerVars  == <<loop, answer, millis, inbox, recoveryHash, salt, historyVars>>

------------------------------------------------------------------------------
(* The router's loop: run, sync_once, raw_http *)

LoopState == {"waiting", "connecting", "handshaking", "writing", "reading"}

LoopStep(from, to) ==
  loop = from /\ loop' = to /\ UNCHANGED <<millis, kvVars, salt, historyVars>>

Tick      == LoopStep("waiting", "connecting") /\ UNCHANGED answer
Connect   == LoopStep("connecting", "handshaking") /\ UNCHANGED answer
Handshake == LoopStep("handshaking", "writing") /\ UNCHANGED answer

\* Mutant: the error ends the loop.
GiveUpForGood ==
  \E from \in {"connecting", "handshaking"} :
    LoopStep(from, "ended") /\ UNCHANGED answer

\* Connecting or the handshake fails: sync_once logs it, and the loop waits for
\* its next tick.
GiveUp ==
  \E from \in {"connecting", "handshaking"} :
    LoopStep(from, "waiting") /\ UNCHANGED answer

\* write_all: its result is not looked at.
Write == LoopStep("writing", "reading") /\ UNCHANGED answer

\* The answer arrives, or the connection ends without one, whether or not the
\* request had arrived: then 0 is what is parsed.
Read ==
  /\ LoopStep("reading", "waiting")
  /\ answer' \in {200, 401, 0}

------------------------------------------------------------------------------
(* The Worker: one action per request *)

\* Mutant: a batch is stored whether it has events or not.
StoreAny(batch) == inbox' = [inbox EXCEPT ![millis] = batch]

\* Two batches of one millisecond have one key: the later one replaces the other.
StoreBatch(batch) ==
  inbox' = IF batch = Empty THEN inbox ELSE [inbox EXCEPT ![millis] = batch]

Push(batch) ==
  /\ StoreBatch(batch)
  /\ taken' = IF batch = Empty THEN taken ELSE taken \cup {<<batch, millis>>}
  /\ UNCHANGED <<loopVars, millis, recoveryHash, salt, lastSetup, admitted>>

\* Mutant: the salt is left out.
DigestOfCode(pin, secret) == pin

Digest(pin, secret) == pin \o secret

\* 400 for a short code, 500 without a salt.  Only a string has a length that can
\* be below the least.
AcceptsCode(pin, isNumber) == (isNumber \/ Len(pin) >= MinLength) /\ salt # NoSalt

SetUpCode(pin, isNumber) ==
  /\ AcceptsCode(pin, isNumber)
  /\ recoveryHash' = Digest(pin, salt)
  /\ lastSetup' = [pin |-> pin, salt |-> salt]
  /\ admitted' = {}
  /\ UNCHANGED <<loopVars, millis, inbox, salt, taken>>

\* 404 while no code is set, 500 without a salt, 403 for another digest.
Matches(pin) ==
  /\ recoveryHash # NoHash
  /\ salt # NoSalt
  /\ Digest(pin, salt) = recoveryHash

\* Any code may be asked about, of any length and either type.
VerifyCode(pin) ==
  /\ Matches(pin)
  /\ admitted' = admitted \cup {[pin |-> pin, salt |-> salt]}
  /\ UNCHANGED <<loopVars, millis, kvVars, salt, taken, lastSetup>>

\* The Worker is deployed again, with another salt or without.
Deploy ==
  /\ salt' \in (Salt \cup {NoSalt}) \ {salt}
  /\ UNCHANGED <<loopVars, millis, kvVars, historyVars>>

NextMilli ==
  /\ millis < MaxMillis
  /\ millis' = millis + 1
  /\ UNCHANGED <<loopVars, kvVars, salt, historyVars>>

------------------------------------------------------------------------------

Init ==
  /\ loop = "waiting"
  /\ answer = 0
  /\ millis = 0
  /\ inbox = [t \in Millis |-> NoBatch]
  /\ recoveryHash = NoHash
  /\ salt \in Salt \cup {NoSalt}
  /\ taken = {}
  /\ lastSetup = [pin |-> <<>>, salt |-> NoSalt]
  /\ admitted = {}

RouterLoop == Tick \/ Connect \/ Handshake \/ GiveUp \/ Write \/ Read

Worker ==
  \/ \E batch \in Batch \cup {Empty} : Push(batch)
  \/ \E pin \in Code : SetUpCode(pin, FALSE) \/ VerifyCode(pin)
  \/ \E pin \in Number : SetUpCode(pin, TRUE) \/ VerifyCode(pin)
  \/ Deploy
  \/ NextMilli

Next == RouterLoop \/ Worker

\* The interval ticks and a write returns; what the peer does is left open.
Spec == Init /\ [][Next]_workerVars /\ WF_workerVars(Tick) /\ WF_workerVars(Write)

------------------------------------------------------------------------------
(* Properties *)

\* Every variable has its type; a digest that is kept is of a code and a salt.
TypeOK ==
  /\ loop \in LoopState
  /\ answer \in {200, 401, 0}
  /\ inbox \in [Millis -> Batch \cup {NoBatch}]
  /\ \/ recoveryHash = NoHash
     \/ \E pin \in Code \cup Number, secret \in Salt : recoveryHash = Digest(pin, secret)
  /\ salt \in Salt \cup {NoSalt}

\* A batch that was acknowledged is still there, unless another one came in its
\* millisecond: the pushes of the router's loop, which have no events, never
\* cost one.
BatchKeptOrCollided ==
  \A entry \in taken :
    \/ inbox[entry[2]] = entry[1]
    \/ \E other \in taken : other[2] = entry[2] /\ other[1] = inbox[entry[2]]

\* Since a code was last set, that code opens the way to the recovery token in
\* deployments with the salt it was set with, and no other code does while the
\* salt has that length: a new salt makes the code useless until it is set again
\* or the salt comes back.  A salt of another length can admit another code, for
\* code and salt are joined with nothing between them, but only one that begins
\* the code that was set or begins with it.
OnlyTheLastCodeAdmits ==
  \A entry \in admitted :
    \/ entry = lastSetup
    \/ /\ Len(entry.salt) # Len(lastSetup.salt)
       /\ IsPrefix(entry.pin, lastSetup.pin) \/ IsPrefix(lastSetup.pin, entry.pin)

\* The loop pushes again and again, whatever fails in an exchange and whatever
\* answer it cannot parse: only a peer that keeps it waiting, to connect, to
\* shake hands or to answer, can end it, for no such step has a timeout.
LoopGoesOn ==
  \/ []<>(loop = "connecting")
  \/ <>[](loop \in {"connecting", "handshaking", "reading"})
==============================================================================
