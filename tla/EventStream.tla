----------------------------- MODULE EventStream -----------------------------
(***************************************************************************)
(* The approvals announced on /api/events.  An approval is decided and     *)
(* announced in one go, then logged, then stored, all under the table's    *)
(* write lock; a rejection is announced to nobody.  While the handler      *)
(* waits for the log or for the store its client may hang up, which drops  *)
(* it and its lock; and the write to the store may fail, which it ignores. *)
(* The channel keeps the last Capacity messages.  A subscriber reads where *)
(* its cursor is, when it likes; if that message is gone the channel says  *)
(* so once and moves the cursor to the oldest message left, and the stream *)
(* drops the notice.  A crash loses the channel, the log, the subscribers. *)
(***************************************************************************)
EXTENDS Integers, Sequences, FiniteSets, SequencesExt, FiniteSetsExt

CONSTANTS
  Request,    \* requests the administrator decides, each once in a run
  Admin,      \* handlers of /api/manager/approve at work
  Subscriber,
  Capacity,   \* 256 in main.rs
  MaxCrashes  \* bound

ASSUME StreamAssumption == Capacity \in Nat \ {0} /\ MaxCrashes \in Nat

VARIABLES
  database,  \* whether init_store found one; put answers Ok without it
  waiting,   \* requests not decided
  deciding,  \* what each handler is at, and with which request
  sent,      \* messages sent since the start
  log,       \* approvals and rejections in the event log, in order
  stored,    \* requests whose decision is in the database
  cursor,    \* the next message of each subscriber, 0 without a subscription
  received,  \* positions of the messages each subscriber was given, in order
  since,     \* history: the first position a subscription could see
  passedBy,  \* history: positions that left the channel before they were read
  unlogged,  \* history: requests whose handler was dropped before it logged
  unsaved,   \* history: requests whose handler was dropped or put nothing
  lost,      \* history: requests announced, but not stored when a crash came
  crashes

streamVars == <<database, waiting, deciding, sent, log, stored, cursor, received,
                since, passedBy, unlogged, unsaved, lost, crashes>>
readers    == <<cursor, received, since, passedBy>>
decisions  == <<waiting, deciding, sent, log, stored, unlogged, unsaved>>

NoRequest == "no_request"
NotBusy   == [step |-> "idle", request |-> NoRequest]

Oldest(n) == Max({1, n - Capacity + 1})

------------------------------------------------------------------------------
(* handle_approve *)

\* Mutant: the lock is let go once the decision is made.
LockReleased == TRUE

\* The table's write lock is held from the decision to the end of the handler.
LockFree == \A h \in Admin : deciding[h].step = "idle"

\* Nothing is awaited between the decision and its announcement.
Decide(h, r) ==
  /\ LockFree
  /\ deciding[h].step = "idle"
  /\ r \in waiting
  /\ waiting' = waiting \ {r}
  /\ \/ /\ deciding' = [deciding EXCEPT ![h] = [step |-> "announced", request |-> r]]
        /\ sent' = Append(sent, r)
     \/ /\ deciding' = [deciding EXCEPT ![h] = [step |-> "rejecting", request |-> r]]
        /\ UNCHANGED sent
  /\ UNCHANGED <<database, log, stored, readers, unlogged, unsaved, lost, crashes>>

LogDecision(h) ==
  \E step \in {<<"announced", "approved">>, <<"rejecting", "rejected">>} :
    /\ deciding[h].step = step[1]
    /\ deciding' = [deciding EXCEPT ![h].step = step[2]]
    /\ log' = Append(log, [request |-> deciding[h].request, kind |-> step[2]])
    /\ UNCHANGED <<database, waiting, sent, stored, readers, unlogged, unsaved, lost, crashes>>

\* The result of put() is ignored: it may fail, and is Ok without a database.
StoreDecision(h) ==
  /\ deciding[h].step \in {"approved", "rejected"}
  /\ deciding' = [deciding EXCEPT ![h] = NotBusy]
  /\ \/ /\ database
        /\ stored' = stored \cup {deciding[h].request}
        /\ UNCHANGED unsaved
     \/ /\ unsaved' = unsaved \cup {deciding[h].request}
        /\ UNCHANGED stored
  /\ UNCHANGED <<database, waiting, sent, log, readers, unlogged, lost, crashes>>

\* The client hangs up while its handler waits for the log's lock or the store's:
\* the handler is gone and the table's lock is free.
HangUp(h) ==
  /\ deciding[h].step # "idle"
  /\ deciding' = [deciding EXCEPT ![h] = NotBusy]
  /\ unlogged' = unlogged \cup
       (IF deciding[h].step \in {"announced", "rejecting"} THEN {deciding[h].request} ELSE {})
  /\ unsaved' = unsaved \cup {deciding[h].request}
  /\ UNCHANGED <<database, waiting, sent, log, stored, readers, lost, crashes>>

------------------------------------------------------------------------------
(* /api/events *)

Subscribe(s) ==
  /\ cursor[s] = 0
  /\ cursor' = [cursor EXCEPT ![s] = Len(sent) + 1]
  /\ since' = [since EXCEPT ![s] = Len(sent) + 1]
  /\ received' = [received EXCEPT ![s] = << >>]
  /\ passedBy' = [passedBy EXCEPT ![s] = {}]
  /\ UNCHANGED <<database, decisions, lost, crashes>>

Unsubscribe(s) ==
  /\ cursor[s] # 0
  /\ cursor' = [cursor EXCEPT ![s] = 0]
  /\ UNCHANGED <<database, decisions, received, since, passedBy, lost, crashes>>

Receive(s) ==
  /\ cursor[s] \in Oldest(Len(sent))..Len(sent)
  /\ received' = [received EXCEPT ![s] = Append(@, cursor[s])]
  /\ cursor' = [cursor EXCEPT ![s] = @ + 1]
  /\ UNCHANGED <<database, decisions, since, passedBy, lost, crashes>>

\* Mutant: a subscriber that lags starts over with what comes next.
SkipAll == Len(sent) + 1

ResumeAt == Oldest(Len(sent))

\* The error of a lagging receiver is filtered out of the stream.
Lag(s) ==
  /\ cursor[s] \in 1..(Oldest(Len(sent)) - 1)
  /\ cursor' = [cursor EXCEPT ![s] = ResumeAt]
  /\ passedBy' = [passedBy EXCEPT ![s] = @ \cup (cursor[s]..(Oldest(Len(sent)) - 1))]
  /\ UNCHANGED <<database, decisions, received, since, lost, crashes>>

------------------------------------------------------------------------------

\* A request that waited is in no database; its device signs up again, and it is
\* decided after the restart.  One that was decided is not decided again.
Crash ==
  /\ crashes < MaxCrashes
  /\ crashes' = crashes + 1
  /\ lost' = lost \cup (ToSet(sent) \ stored)
  /\ deciding' = [h \in Admin |-> NotBusy]
  /\ sent' = << >>
  /\ log' = << >>
  /\ cursor' = [s \in Subscriber |-> 0]
  /\ received' = [s \in Subscriber |-> << >>]
  /\ since' = [s \in Subscriber |-> 0]
  /\ passedBy' = [s \in Subscriber |-> {}]
  /\ UNCHANGED <<database, waiting, stored, unlogged, unsaved>>

StreamInit ==
  /\ database \in BOOLEAN
  /\ waiting = Request
  /\ deciding = [h \in Admin |-> NotBusy]
  /\ sent = << >>
  /\ log = << >>
  /\ stored = {}
  /\ cursor = [s \in Subscriber |-> 0]
  /\ received = [s \in Subscriber |-> << >>]
  /\ since = [s \in Subscriber |-> 0]
  /\ passedBy = [s \in Subscriber |-> {}]
  /\ unlogged = {}
  /\ unsaved = {}
  /\ lost = {}
  /\ crashes = 0

StreamNext ==
  \/ \E h \in Admin :
       LogDecision(h) \/ StoreDecision(h) \/ HangUp(h) \/ \E r \in Request : Decide(h, r)
  \/ \E s \in Subscriber : Subscribe(s) \/ Unsubscribe(s) \/ Receive(s) \/ Lag(s)
  \/ Crash

StreamSpec == StreamInit /\ [][StreamNext]_streamVars

------------------------------------------------------------------------------
(* Properties *)

\* A subscriber misses a message only by being more than the capacity of the
\* channel behind when it was overwritten, and reads the others in order, each
\* once: dropping the notice of the loss costs nothing but the notice.
OnlyLaggardsMiss ==
  \A s \in Subscriber :
    /\ \A i \in 1..(Len(received[s]) - 1) : received[s][i] < received[s][i + 1]
    /\ cursor[s] # 0 =>
         since[s]..(cursor[s] - 1) = ToSet(received[s]) \cup passedBy[s]

\* The requests announced and about to be logged.
BeingLogged == {deciding[h].request : h \in {g \in Admin : deciding[g].step = "announced"}}

\* The approvals of the log.
LoggedApprovals == {log[i].request : i \in {j \in DOMAIN log : log[j].kind = "approved"}}

\* The stream and the log tell of the approvals in the same order, each of each
\* once; and the log lacks of the stream what is about to be logged and what its
\* handler was dropped over, not more and not less.
StreamIsTheLog ==
  /\ LoggedApprovals = ToSet(sent) \ (BeingLogged \cup unlogged)
  /\ \A i, j \in DOMAIN log : \A a, b \in DOMAIN sent :
       /\ i < j /\ log[i].kind = "approved" /\ log[j].kind = "approved"
       /\ sent[a] = log[i].request /\ sent[b] = log[j].request
       => a < b

\* An approval is announced before it is stored, so a crash can make the stream
\* wrong: about what nobody ever stored, because the client hung up, the write
\* failed or there is no database, and about one approval more for each crash.
OneLossPerCrash == Cardinality(lost \ unsaved) <= crashes

==============================================================================
