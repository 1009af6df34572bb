---------------------------- MODULE EventLogProofs ----------------------------
(***************************************************************************)
(* Theorems about what is made of the decisions beside the permission      *)
(* table: the conflict rules (SyncConflict), the stream of approvals       *)
(* (EventStream) and the merge of event logs (EventLogSync), for any       *)
(* requests, administrators, subscribers, replicas, capacity and bounds.   *)
(* The three modules share no state, and their proofs nothing but lemmas   *)
(* about sequences.                                                        *)
(***************************************************************************)
EXTENDS EventLogSync, SyncConflict, EventStream, FiniteSetTheorems, SequenceTheorems,
        TLAPS

------------------------------------------------------------------------------
(* The conflict rules have no constants: what TLC explores is all there is,  *)
(* and the proof says why it holds.                                          *)

\* The invariant is inductive as it stands: what has arrived only grows, so
\* before a step there was nothing but approvals, revocations and heartbeats
\* either; a revocation makes or leaves the entry compromised, an approval is
\* then refused, and a heartbeat leaves it (sync.rs:95-129).
THEOREM RevocationWins == ConflictSpec => []RevocationWinsOverApproval
<1>1. ConflictInit => RevocationWinsOverApproval
  BY DEF ConflictInit, RevocationWinsOverApproval
<1>2. RevocationWinsOverApproval /\ [ConflictNext]_conflictVars
        => RevocationWinsOverApproval'
  <2> SUFFICES ASSUME RevocationWinsOverApproval, [ConflictNext]_conflictVars,
                      "Revoke" \in arrived',
                      arrived' \subseteq {"Approve", "Revoke", "Heartbeat"}
               PROVE  entry' = "compromised"
    BY DEF RevocationWinsOverApproval
  <2>1. CASE UNCHANGED conflictVars
    BY <2>1 DEF conflictVars, RevocationWinsOverApproval
  <2>2. ASSUME NEW event \in SyncEvent, Arrive(event)
        PROVE  entry' = "compromised"
    <3>1. event \in {"Approve", "Revoke", "Heartbeat"}
      BY <2>2 DEF Arrive
    <3>2. CASE event = "Revoke"
      BY <2>2, <3>2 DEF Arrive, Applied, Accepts, StatusFrom
    <3>3. CASE event # "Revoke"
      <4>1. entry = "compromised"
        BY <2>2, <3>3 DEF Arrive, RevocationWinsOverApproval
      <4> QED BY <2>2, <3>1, <3>3, <4>1 DEF Arrive, Applied, Accepts, StatusFrom
    <3> QED BY <3>2, <3>3
  <2> QED BY <2>1, <2>2 DEF ConflictNext
<1> QED BY <1>1, <1>2, PTL DEF ConflictSpec

Step == {"idle", "announced", "approved", "rejecting", "rejected"}

Busy(h) == deciding[h].step # "idle"

\* The requests that are announced and on their way to the store.
UnderWay ==
  {deciding[h].request : h \in {g \in Admin : deciding[g].step \in {"announced", "approved"}}}

StreamTypes ==
  /\ deciding \in [Admin -> [step : Step, request : Request \cup {NoRequest}]]
  /\ sent \in Seq(Request)
  /\ crashes \in Nat

\* One handler is at work, and only what it is at work on is announced and has
\* neither been stored nor failed to be.
WorkInv ==
  /\ StreamTypes
  /\ \A g, h \in Admin : Busy(g) /\ Busy(h) => g = h
  /\ ToSet(sent) \ (stored \cup unsaved) \subseteq UnderWay

LossInv ==
  /\ IsFiniteSet(lost \ unsaved)
  /\ Cardinality(lost \ unsaved) <= crashes

\* Where there is one handler at work, what is under way is its request, from its
\* announcement to its end.
LEMMA UnderWayIsOne ==
  ASSUME WorkInv, NEW h \in Admin, Busy(h)
  PROVE  UnderWay = IF deciding[h].step \in {"announced", "approved"}
                      THEN {deciding[h].request} ELSE {}
BY DEF WorkInv, UnderWay, Busy

\* The same after a step of h, when nobody else was or comes to be at work.
LEMMA UnderWayAfter ==
  ASSUME NEW h \in Admin,
         deciding \in [Admin -> [step : Step, request : Request \cup {NoRequest}]],
         \A g \in Admin : g # h => ~Busy(g),
         NEW d, deciding' = [deciding EXCEPT ![h] = d]
  PROVE  /\ \A g \in Admin : g # h => ~Busy(g)'
         /\ UnderWay' = IF d.step \in {"announced", "approved"} THEN {d.request} ELSE {}
<1>1. /\ \A g \in Admin : g # h => deciding'[g].step = "idle"
      /\ deciding'[h] = d
  BY DEF Busy
<1> QED BY <1>1 DEF UnderWay, Busy

\* Sending adds the message to what was sent.
LEMMA SentAfter ==
  ASSUME NEW S, NEW q \in Seq(S), NEW r \in S
  PROVE  ToSet(Append(q, r)) = ToSet(q) \cup {r}
<1>1. DOMAIN Append(q, r) = 1..(Len(q) + 1) /\ DOMAIN q = 1..Len(q) /\ Len(q) \in Nat
  OBVIOUS
<1>2. /\ \A i \in 1..Len(q) : Append(q, r)[i] = q[i]
      /\ Append(q, r)[Len(q) + 1] = r
  OBVIOUS
<1> QED BY <1>1, <1>2 DEF ToSet

\* A decision is the only one under way, as the lock was free.
LEMMA DecideStep ==
  ASSUME WorkInv, NEW h \in Admin, NEW r \in Request, Decide(h, r)
  PROVE  WorkInv'
<1>1. PICK d \in [step : {"announced", "rejecting"}, request : {r}] :
        /\ \A g \in Admin : ~Busy(g)
        /\ deciding' = [deciding EXCEPT ![h] = d]
        /\ d.step = "announced" => sent' = Append(sent, r)
        /\ d.step = "rejecting" => sent' = sent
        /\ UNCHANGED <<stored, unsaved, crashes>>
  <2>1. CASE deciding' = [deciding EXCEPT ![h] = [step |-> "announced", request |-> r]]
               /\ sent' = Append(sent, r)
    BY <2>1 DEF Decide, LockFree, Busy
  <2>2. CASE deciding' = [deciding EXCEPT ![h] = [step |-> "rejecting", request |-> r]]
               /\ UNCHANGED sent
    BY <2>2 DEF Decide, LockFree, Busy
  <2> QED BY <2>1, <2>2 DEF Decide
<1>2. /\ d.step \in {"announced", "rejecting"} /\ d.request = r
      /\ d \in [step : Step, request : Request \cup {NoRequest}]
  BY DEF Step
<1>3. StreamTypes'
  BY <1>1, <1>2 DEF WorkInv, StreamTypes
<1>4. /\ \A g \in Admin : g # h => ~Busy(g)'
      /\ UnderWay' = IF d.step \in {"announced", "approved"} THEN {r} ELSE {}
  BY <1>1, <1>2, UnderWayAfter DEF WorkInv, StreamTypes
<1>5. UnderWay = {}
  BY <1>1 DEF UnderWay, Busy
<1>6. ToSet(sent') \ (stored' \cup unsaved') \subseteq UnderWay'
  <2>1. CASE d.step = "announced"
    <3>1. ToSet(sent') = ToSet(sent) \cup {r}
      <4>1. sent' = Append(sent, r) /\ sent \in Seq(Request)
        BY <1>1, <2>1 DEF WorkInv, StreamTypes
      <4> QED BY <4>1, SentAfter
    <3>2. ToSet(sent) \subseteq stored \cup unsaved
      BY <1>5 DEF WorkInv
    <3> QED BY <1>1, <1>4, <2>1, <3>1, <3>2
  <2>2. CASE d.step = "rejecting"
    BY <1>1, <1>4, <1>5, <2>2 DEF WorkInv
  <2> QED BY <1>2, <2>1, <2>2
<1> QED BY <1>3, <1>4, <1>6 DEF WorkInv

\* Logging leaves it under way.
LEMMA LogStep ==
  ASSUME WorkInv, NEW h \in Admin, LogDecision(h)
  PROVE  WorkInv'
<1>1. PICK step \in {<<"announced", "approved">>, <<"rejecting", "rejected">>} :
        /\ deciding[h].step = step[1]
        /\ deciding' = [deciding EXCEPT ![h] = [deciding[h] EXCEPT !.step = step[2]]]
        /\ UNCHANGED <<sent, stored, unsaved, crashes>>
  BY DEF LogDecision, WorkInv, StreamTypes
<1> DEFINE d == [deciding[h] EXCEPT !.step = step[2]]
<1>2. /\ d \in [step : Step, request : Request \cup {NoRequest}]
      /\ d.step = step[2] /\ d.request = deciding[h].request
  BY DEF WorkInv, StreamTypes, Step
<1>3. Busy(h) /\ \A g \in Admin : g # h => ~Busy(g)
  BY <1>1 DEF Busy, WorkInv
<1>4. StreamTypes'
  BY <1>1, <1>2 DEF WorkInv, StreamTypes
<1>5. /\ \A g \in Admin : g # h => ~Busy(g)'
      /\ UnderWay' = IF d.step \in {"announced", "approved"} THEN {d.request} ELSE {}
  BY <1>1, <1>3, UnderWayAfter DEF WorkInv, StreamTypes
<1>6. UnderWay' = UnderWay
  BY <1>1, <1>2, <1>3, <1>5, UnderWayIsOne
<1> QED BY <1>1, <1>4, <1>5, <1>6 DEF WorkInv

\* When the handler ends, one way or the other, its request is stored or unsaved.
LEMMA EndStep ==
  ASSUME WorkInv, NEW h \in Admin, StoreDecision(h) \/ HangUp(h)
  PROVE  WorkInv'
<1> DEFINE r == deciding[h].request
<1>1. /\ Busy(h)
      /\ deciding' = [deciding EXCEPT ![h] = NotBusy]
      /\ stored' \cup unsaved' = (stored \cup unsaved) \cup {r}
      /\ UNCHANGED <<sent, crashes>>
  BY DEF StoreDecision, HangUp, Busy
<1>2. NotBusy \in [step : Step, request : Request \cup {NoRequest}] /\ NotBusy.step = "idle"
  BY DEF NotBusy, Step
<1> HIDE DEF NotBusy
<1>3. \A g \in Admin : g # h => ~Busy(g)
  BY <1>1 DEF WorkInv
<1>4. StreamTypes'
  BY <1>1, <1>2 DEF WorkInv, StreamTypes
<1>5. (\A g \in Admin : g # h => ~Busy(g)') /\ UnderWay' = {}
  BY <1>1, <1>2, <1>3, UnderWayAfter DEF WorkInv, StreamTypes
<1>6. ToSet(sent) \ (stored \cup unsaved) \subseteq {r}
  BY <1>1, UnderWayIsOne DEF WorkInv
<1>7. ~Busy(h)'
  BY <1>1, <1>2 DEF Busy, WorkInv, StreamTypes
<1> QED BY <1>1, <1>4, <1>5, <1>6, <1>7 DEF WorkInv

\* A crash loses at most the request under way, beside what is unsaved.
LEMMA CrashStep ==
  ASSUME WorkInv, LossInv, Crash
  PROVE  WorkInv' /\ LossInv'
<1> DEFINE gone == ToSet(sent) \ (stored \cup unsaved)
           before == lost \ unsaved
<1>1. /\ crashes' = crashes + 1
      /\ lost' \ unsaved' = before \cup gone
      /\ deciding' = [h \in Admin |-> NotBusy]
      /\ sent' = << >>
  BY DEF Crash
<1>2. WorkInv'
  <2>1. ToSet(sent') = {}
    BY <1>1 DEF ToSet
  <2> QED BY <1>1, <2>1 DEF WorkInv, StreamTypes, Step, NotBusy, Busy
<1>3. gone = {} \/ \E r : gone = {r}
  <2>1. CASE \E h \in Admin : Busy(h)
    <3>1. PICK h \in Admin : Busy(h)
      BY <2>1
    <3> QED BY <3>1, UnderWayIsOne DEF WorkInv
  <2>2. CASE \A h \in Admin : ~Busy(h)
    <3>1. UnderWay = {}
      BY <2>2 DEF UnderWay, Busy
    <3> QED BY <3>1 DEF WorkInv
  <2> QED BY <2>1, <2>2
<1>4. LossInv'
  <2>1. IsFiniteSet(before) /\ Cardinality(before) \in Nat /\ crashes \in Nat
          /\ Cardinality(before) <= crashes
    BY FS_CardinalityType DEF LossInv, WorkInv, StreamTypes
  <2> HIDE DEF before, gone
  <2>2. CASE gone = {}
    <3>1. lost' \ unsaved' = before /\ crashes' = crashes + 1
      BY <1>1, <2>2
    <3>2. Cardinality(before) <= crashes + 1
      BY <2>1
    <3>3. IsFiniteSet(lost' \ unsaved') /\ Cardinality(lost' \ unsaved') <= crashes'
      <4>1. IsFiniteSet(lost' \ unsaved')
        BY <2>1, <3>1, Zenon
      <4>2. Cardinality(lost' \ unsaved') <= crashes'
        BY <3>1, <3>2, Zenon
      <4> QED BY <4>1, <4>2
    <3> QED BY <3>3 DEF LossInv
  <2>3. ASSUME NEW r, gone = {r}
        PROVE  LossInv'
    <3>1. lost' \ unsaved' = before \cup {r} /\ crashes' = crashes + 1
      BY <1>1, <2>3
    <3>2. /\ IsFiniteSet(before \cup {r})
          /\ Cardinality(before \cup {r}) <= Cardinality(before) + 1
      BY <2>1, FS_AddElement
    <3>3. Cardinality(before \cup {r}) \in Nat
      BY <3>2, FS_CardinalityType
    <3>4. Cardinality(lost' \ unsaved') <= crashes'
      BY <2>1, <3>1, <3>2, <3>3
    <3> QED BY <3>1, <3>2, <3>4 DEF LossInv
  <2> QED BY <1>3, <2>2, <2>3
<1> QED BY <1>2, <1>4

\* What becomes unsaved is not lost to a crash any more.
LEMMA LossStep ==
  ASSUME WorkInv, LossInv, UNCHANGED <<lost, crashes>>, unsaved \subseteq unsaved'
  PROVE  LossInv'
<1> DEFINE before == lost \ unsaved
           after  == lost' \ unsaved'
<1>1. after \subseteq before /\ IsFiniteSet(before) /\ Cardinality(before) <= crashes
        /\ crashes \in Nat /\ crashes' = crashes
  BY DEF LossInv, WorkInv, StreamTypes
<1> HIDE DEF before, after
<1>2. IsFiniteSet(after) /\ Cardinality(after) <= Cardinality(before)
  BY <1>1, FS_Subset
<1>3. Cardinality(after) \in Nat /\ Cardinality(before) \in Nat
  BY <1>1, <1>2, FS_CardinalityType
<1>4. Cardinality(after) <= crashes'
  BY <1>1, <1>2, <1>3
<1> QED BY <1>2, <1>4 DEF LossInv, after

\* Every step keeps both.
LEMMA StreamStep ==
  ASSUME WorkInv, LossInv, [StreamNext]_streamVars
  PROVE  WorkInv' /\ LossInv'
<1>1. ASSUME UNCHANGED <<deciding, sent, stored, unsaved, crashes, lost>>
      PROVE  WorkInv' /\ LossInv'
  BY <1>1 DEF WorkInv, StreamTypes, UnderWay, Busy, LossInv
<1>2. ASSUME NEW s \in Subscriber,
             Subscribe(s) \/ Unsubscribe(s) \/ Receive(s) \/ Lag(s)
      PROVE  WorkInv' /\ LossInv'
  BY <1>1, <1>2 DEF Subscribe, Unsubscribe, Receive, Lag, decisions
<1>3. ASSUME NEW h \in Admin,
             \/ LogDecision(h) \/ StoreDecision(h) \/ HangUp(h)
             \/ \E r \in Request : Decide(h, r)
      PROVE  WorkInv' /\ LossInv'
  <2>1. UNCHANGED <<lost, crashes>> /\ unsaved \subseteq unsaved'
    BY <1>3 DEF LogDecision, StoreDecision, HangUp, Decide
  <2>2. LossInv'
    BY <2>1, LossStep
  <2> QED BY <1>3, <2>2, LogStep, EndStep, DecideStep
<1>4. CASE UNCHANGED streamVars
  BY <1>1, <1>4 DEF streamVars
<1> QED BY <1>2, <1>3, <1>4, CrashStep DEF StreamNext

\* At the start nothing is at work and nothing is lost.
LEMMA StreamStarts ==
  ASSUME StreamInit
  PROVE  WorkInv /\ LossInv
<1>1. ToSet(<< >>) = {}
  BY DEF ToSet
<1>2. WorkInv
  BY <1>1 DEF StreamInit, WorkInv, StreamTypes, Step, NotBusy, Busy
<1>3. LossInv
  <2>1. lost \ unsaved = {} /\ crashes = 0
    BY DEF StreamInit
  <2> QED BY <2>1, FS_EmptySet DEF LossInv
<1> QED BY <1>2, <1>3

\* Beside what a hang-up, a failed write or a missing database kept from the store,
\* the stream and the database disagree about one approval for each crash at most,
\* as announcing and storing are one critical section (manager.rs:173-209).
THEOREM AtMostOneLossPerCrash == StreamSpec => []OneLossPerCrash
<1>1. LossInv => OneLossPerCrash
  BY DEF LossInv, OneLossPerCrash
<1> QED BY <1>1, StreamStarts, StreamStep, PTL DEF StreamSpec

------------------------------------------------------------------------------
(* Readers of the stream                                                     *)

ReaderTypes ==
  /\ cursor \in [Subscriber -> Nat] /\ since \in [Subscriber -> Nat]
  /\ received \in [Subscriber -> Seq(Nat)]
  /\ passedBy \in [Subscriber -> SUBSET Int]

Increasing(q) == \A i \in 1..(Len(q) - 1) : q[i] < q[i + 1]

\* A subscriber has read, or lost, what is behind its cursor, and nothing else.
Reader(c, from, q, missed) ==
  /\ Increasing(q)
  /\ c # 0 => /\ from <= c
              /\ \A i \in 1..Len(q) : q[i] < c
              /\ from..(c - 1) = ToSet(q) \cup missed

ReaderInv ==
  /\ ReaderTypes
  /\ \A s \in Subscriber : Reader(cursor[s], since[s], received[s], passedBy[s])

\* The oldest message the channel has is a number.
LEMMA OldestIsNumber ==
  ASSUME NEW n \in Nat
  PROVE  Oldest(n) \in Nat \ {0}
<1> DEFINE m == n - Capacity + 1
           x == IF m >= 1 THEN m ELSE 1
<1>1. x \in {1, m} /\ (\A y \in {1, m} : x >= y) /\ {1, m} \subseteq Int
  BY StreamAssumption
<1>2. Max({1, m}) \in {1, m} /\ \A y \in {1, m} : Max({1, m}) >= y
  BY <1>1 DEF Max
<1> QED BY <1>1, <1>2 DEF Oldest

\* Reading one more message.
LEMMA ReadOne ==
  ASSUME NEW c \in Nat, NEW from \in Nat, NEW q \in Seq(Nat), NEW missed \in SUBSET Int,
         Reader(c, from, q, missed), c # 0
  PROVE  Reader(c + 1, from, Append(q, c), missed)
<1> DEFINE p == Append(q, c)
<1>1. /\ Len(q) \in Nat /\ Len(p) = Len(q) + 1 /\ p[Len(q) + 1] = c
      /\ \A i \in 1..Len(q) : p[i] = q[i] /\ q[i] \in Nat
  OBVIOUS
<1>2. ToSet(p) = ToSet(q) \cup {c}
  BY SentAfter
<1> HIDE DEF p
<1>3. \A i \in 1..Len(p) : p[i] < c + 1
  BY <1>1 DEF Reader
<1>4. Increasing(p)
  <2> SUFFICES ASSUME NEW i \in 1..Len(q)
               PROVE  p[i] < p[i + 1]
    BY <1>1 DEF Increasing
  <2>1. CASE i < Len(q)
    <3>1. i \in 1..(Len(q) - 1) /\ i + 1 \in 1..Len(q)
      BY <1>1, <2>1
    <3> QED BY <1>1, <3>1 DEF Reader, Increasing
  <2>2. CASE i = Len(q)
    BY <1>1, <2>2 DEF Reader
  <2> QED BY <1>1, <2>1, <2>2
<1>5. from..((c + 1) - 1) = (from..(c - 1)) \cup {c}
  BY DEF Reader
<1>6. from..((c + 1) - 1) = ToSet(p) \cup missed
  BY <1>2, <1>5 DEF Reader
<1>7. c + 1 # 0 /\ from <= c + 1
  BY DEF Reader
<1> QED BY <1>3, <1>4, <1>6, <1>7 DEF Reader, p

\* Losing those that have left the channel.
LEMMA LoseSome ==
  ASSUME NEW c \in Nat, NEW from \in Nat, NEW q \in Seq(Nat), NEW missed \in SUBSET Int,
         Reader(c, from, q, missed), c # 0, NEW o \in Nat, c < o
  PROVE  Reader(o, from, q, missed \cup (c..(o - 1)))
<1>1. from..(o - 1) = (from..(c - 1)) \cup (c..(o - 1))
  BY DEF Reader
<1>2. from..(o - 1) = ToSet(q) \cup (missed \cup (c..(o - 1)))
  BY <1>1 DEF Reader
<1>3. \A i \in 1..Len(q) : q[i] < o
  <2> SUFFICES ASSUME NEW i \in 1..Len(q)
               PROVE  q[i] < o
    OBVIOUS
  <2>1. q[i] \in Nat /\ q[i] < c
    BY DEF Reader
  <2> QED BY <2>1
<1> QED BY <1>2, <1>3 DEF Reader

\* A subscription starts with nothing read and nothing lost.
LEMMA StartReading ==
  ASSUME NEW c \in Nat
  PROVE  Reader(c, c, << >>, {})
<1>1. ToSet(<< >>) = {} /\ Len(<< >>) = 0
  BY DEF ToSet
<1>2. c..(c - 1) = {}
  OBVIOUS
<1> QED BY <1>1, <1>2 DEF Reader, Increasing

\* Every step keeps the accounts of every subscriber.
LEMMA ReaderStep ==
  ASSUME WorkInv, ReaderInv, [StreamNext]_streamVars
  PROVE  ReaderInv'
<1>l. Len(sent) \in Nat
  BY DEF WorkInv, StreamTypes
<1>1. ASSUME UNCHANGED <<cursor, since, received, passedBy>>
      PROVE  ReaderInv'
  BY <1>1 DEF ReaderInv, ReaderTypes
<1>2. ASSUME NEW s \in Subscriber,
             NEW c \in Nat, NEW from \in Nat, NEW q \in Seq(Nat), NEW missed \in SUBSET Int,
             Reader(c, from, q, missed),
             cursor' = [cursor EXCEPT ![s] = c], since' = [since EXCEPT ![s] = from],
             received' = [received EXCEPT ![s] = q], passedBy' = [passedBy EXCEPT ![s] = missed]
      PROVE  ReaderInv'
  <2>1. ReaderTypes'
    BY <1>2 DEF ReaderInv, ReaderTypes
  <2>2. ASSUME NEW t \in Subscriber
        PROVE  Reader(cursor[t], since[t], received[t], passedBy[t])'
    <3>1. CASE t = s
      <4>1. cursor'[t] = c /\ since'[t] = from /\ received'[t] = q /\ passedBy'[t] = missed
        BY <1>2, <3>1 DEF ReaderInv, ReaderTypes
      <4> QED BY <1>2, <4>1 DEF Reader, Increasing
    <3>2. CASE t # s
      <4>1. /\ cursor'[t] = cursor[t] /\ since'[t] = since[t]
            /\ received'[t] = received[t] /\ passedBy'[t] = passedBy[t]
        BY <1>2, <3>2 DEF ReaderInv, ReaderTypes
      <4> QED BY <4>1 DEF ReaderInv, Reader, Increasing
    <3> QED BY <3>1, <3>2
  <2> QED BY <2>1, <2>2 DEF ReaderInv
<1>3. ASSUME NEW s \in Subscriber
      PROVE  /\ cursor[s] \in Nat /\ since[s] \in Nat /\ received[s] \in Seq(Nat)
             /\ passedBy[s] \in SUBSET Int
             /\ Reader(cursor[s], since[s], received[s], passedBy[s])
             /\ cursor = [cursor EXCEPT ![s] = cursor[s]]
             /\ since = [since EXCEPT ![s] = since[s]]
             /\ received = [received EXCEPT ![s] = received[s]]
             /\ passedBy = [passedBy EXCEPT ![s] = passedBy[s]]
  BY DEF ReaderInv, ReaderTypes
<1>4. ASSUME NEW s \in Subscriber, Subscribe(s)
      PROVE  ReaderInv'
  <2> DEFINE n == Len(sent) + 1
  <2>1. n \in Nat /\ << >> \in Seq(Nat) /\ {} \in SUBSET Int
    BY <1>l
  <2>2. /\ cursor' = [cursor EXCEPT ![s] = n] /\ since' = [since EXCEPT ![s] = n]
        /\ received' = [received EXCEPT ![s] = << >>] /\ passedBy' = [passedBy EXCEPT ![s] = {}]
    BY <1>4 DEF Subscribe
  <2> HIDE DEF n
  <2> QED BY <1>2, <2>1, <2>2, StartReading
<1>5. ASSUME NEW s \in Subscriber, Unsubscribe(s)
      PROVE  ReaderInv'
  <2>1. Reader(0, since[s], received[s], passedBy[s])
    BY <1>3 DEF Reader
  <2>2. /\ cursor' = [cursor EXCEPT ![s] = 0]
        /\ since' = [since EXCEPT ![s] = since[s]]
        /\ received' = [received EXCEPT ![s] = received[s]]
        /\ passedBy' = [passedBy EXCEPT ![s] = passedBy[s]]
    BY <1>3, <1>5 DEF Unsubscribe
  <2>3. /\ 0 \in Nat /\ since[s] \in Nat /\ received[s] \in Seq(Nat)
        /\ passedBy[s] \in SUBSET Int
    BY <1>3
  <2> QED BY <1>2, <2>1, <2>2, <2>3
<1>6. ASSUME NEW s \in Subscriber, Receive(s)
      PROVE  ReaderInv'
  <2>1. /\ cursor' = [cursor EXCEPT ![s] = cursor[s] + 1]
        /\ received' = [received EXCEPT ![s] = Append(received[s], cursor[s])]
        /\ UNCHANGED <<since, passedBy>>
    BY <1>6 DEF Receive
  <2>2. cursor[s] # 0
    BY <1>l, <1>6, OldestIsNumber DEF Receive
  <2>3. Reader(cursor[s] + 1, since[s], Append(received[s], cursor[s]), passedBy[s])
    BY <1>3, <2>2, ReadOne
  <2>4. cursor[s] + 1 \in Nat /\ Append(received[s], cursor[s]) \in Seq(Nat)
    BY <1>3
  <2> QED BY <1>2, <1>3, <2>1, <2>3, <2>4
<1>7. ASSUME NEW s \in Subscriber, Lag(s)
      PROVE  ReaderInv'
  <2> DEFINE o == Oldest(Len(sent))
             missed == passedBy[s] \cup (cursor[s]..(o - 1))
  <2>1. /\ cursor' = [cursor EXCEPT ![s] = o]
        /\ passedBy' = [passedBy EXCEPT ![s] = missed]
        /\ UNCHANGED <<since, received>>
    BY <1>7 DEF Lag, ResumeAt
  <2>2. o \in Nat /\ cursor[s] \in 1..(o - 1)
    BY <1>l, <1>7, OldestIsNumber DEF Lag
  <2>3. missed \in SUBSET Int
    BY <1>3, <2>2
  <2> HIDE DEF o
  <2>c. cursor[s] # 0 /\ cursor[s] < o
    BY <1>3, <2>2
  <2>4. Reader(o, since[s], received[s], missed)
    BY <1>3, <2>2, <2>c, LoseSome
  <2> HIDE DEF missed
  <2> QED BY <1>2, <1>3, <2>1, <2>2, <2>3, <2>4
<1>8. CASE Crash
  <2>1. /\ cursor' = [s \in Subscriber |-> 0] /\ since' = [s \in Subscriber |-> 0]
        /\ received' = [s \in Subscriber |-> << >>] /\ passedBy' = [s \in Subscriber |-> {}]
    BY <1>8 DEF Crash
  <2>2. Reader(0, 0, << >>, {})
    BY StartReading
  <2>3. ReaderTypes'
    BY <2>1 DEF ReaderTypes
  <2>4. ASSUME NEW s \in Subscriber
        PROVE  Reader(cursor[s], since[s], received[s], passedBy[s])'
    <3>1. cursor'[s] = 0 /\ since'[s] = 0 /\ received'[s] = << >> /\ passedBy'[s] = {}
      BY <2>1
    <3> QED BY <2>2, <3>1 DEF Reader, Increasing
  <2> QED BY <2>3, <2>4 DEF ReaderInv
<1>9. ASSUME NEW h \in Admin,
             \/ LogDecision(h) \/ StoreDecision(h) \/ HangUp(h)
             \/ \E r \in Request : Decide(h, r)
      PROVE  ReaderInv'
  BY <1>1, <1>9 DEF LogDecision, StoreDecision, HangUp, Decide, readers
<1>10. CASE UNCHANGED streamVars
  BY <1>1, <1>10 DEF streamVars
<1> QED BY <1>4, <1>5, <1>6, <1>7, <1>8, <1>9, <1>10 DEF StreamNext

\* A subscriber misses a message only by being more than the capacity of the
\* channel behind, and reads the others in order, each once (events.rs: the lagging
\* receiver's error is filtered out of the stream).
THEOREM SubscribersMissByLagging == StreamSpec => []OnlyLaggardsMiss
<1>1. StreamInit => WorkInv /\ LossInv /\ ReaderInv
  <2>1. StreamInit => ReaderInv
    <3> SUFFICES ASSUME StreamInit
                 PROVE  ReaderInv
      OBVIOUS
    <3>1. /\ cursor = [s \in Subscriber |-> 0] /\ since = [s \in Subscriber |-> 0]
          /\ received = [s \in Subscriber |-> << >>] /\ passedBy = [s \in Subscriber |-> {}]
      BY DEF StreamInit
    <3>2. ReaderTypes
      BY <3>1 DEF ReaderTypes
    <3>3. Reader(0, 0, << >>, {})
      BY StartReading
    <3> QED BY <3>1, <3>2, <3>3 DEF ReaderInv
  <2> QED BY <2>1, StreamStarts
<1>2. ReaderInv => OnlyLaggardsMiss
  BY DEF ReaderInv, Reader, Increasing, OnlyLaggardsMiss
<1> QED BY <1>1, <1>2, StreamStep, ReaderStep, PTL DEF StreamSpec

------------------------------------------------------------------------------
(* The stream and the log                                                    *)

Announcing(h) == deciding[h].step = "announced"

\* The events of two approvals and their messages are in the same order.
SameOrder ==
  \A i, j \in DOMAIN log : \A a, b \in DOMAIN sent :
    /\ i < j /\ log[i].kind = "approved" /\ log[j].kind = "approved"
    /\ sent[a] = log[i].request /\ sent[b] = log[j].request
    => a < b

LogEntry == [request : Request \cup {NoRequest}, kind : {"approved", "rejected"}]

\* No request is announced twice, and what is being logged is the last message.
FlowInv ==
  /\ log \in Seq(LogEntry)
  /\ waiting \cap (unlogged \cup ToSet(sent)) = {}
  /\ \A a, b \in DOMAIN sent : sent[a] = sent[b] => a = b
  /\ \A h \in Admin : Announcing(h) =>
       /\ Len(sent) > 0 /\ sent[Len(sent)] = deciding[h].request
       /\ deciding[h].request \notin unlogged
  /\ \A h \in Admin : deciding[h].step = "rejecting" =>
       deciding[h].request \notin waiting \cup ToSet(sent)
  /\ LoggedApprovals = ToSet(sent) \ (BeingLogged \cup unlogged)
  /\ SameOrder

\* What is being logged when h is the only handler that can be at it.
LEMMA BeingLoggedAfter ==
  ASSUME NEW h \in Admin,
         deciding \in [Admin -> [step : Step, request : Request \cup {NoRequest}]],
         \A g \in Admin : g # h => ~Busy(g),
         NEW d, deciding' = [deciding EXCEPT ![h] = d]
  PROVE  /\ BeingLogged = IF Announcing(h) THEN {deciding[h].request} ELSE {}
         /\ BeingLogged' = IF d.step = "announced" THEN {d.request} ELSE {}
         /\ \A g \in Admin : g # h => deciding'[g] = deciding[g] /\ deciding'[g].step = "idle"
         /\ deciding'[h] = d
<1>1. /\ \A g \in Admin : g # h => deciding'[g] = deciding[g] /\ deciding'[g].step = "idle"
      /\ deciding'[h] = d
  BY DEF Busy
<1>2. BeingLogged = IF Announcing(h) THEN {deciding[h].request} ELSE {}
  BY DEF BeingLogged, Announcing, Busy
<1>3. BeingLogged' = IF d.step = "announced" THEN {d.request} ELSE {}
  BY <1>1 DEF BeingLogged
<1> QED BY <1>1, <1>2, <1>3

\* An event adds its request to the approvals of the log, or nothing.
LEMMA LoggedAfter ==
  ASSUME log \in Seq(LogEntry), NEW e \in LogEntry, log' = Append(log, e)
  PROVE  LoggedApprovals' = LoggedApprovals \cup (IF e.kind = "approved" THEN {e.request} ELSE {})
<1>1. /\ DOMAIN log = 1..Len(log) /\ DOMAIN log' = 1..(Len(log) + 1) /\ Len(log) \in Nat
      /\ \A i \in 1..Len(log) : log'[i] = log[i]
      /\ log'[Len(log) + 1] = e
  OBVIOUS
<1> QED BY <1>1 DEF LoggedApprovals

\* A decision: the new message is of a request that no event and no message was about.
LEMMA FlowDecide ==
  ASSUME WorkInv, FlowInv, NEW h \in Admin, NEW r \in Request, Decide(h, r)
  PROVE  FlowInv'
<1>1. /\ r \in waiting /\ waiting' = waiting \ {r} /\ UNCHANGED <<log, unlogged>>
      /\ \A g \in Admin : ~Busy(g)
  BY DEF Decide, LockFree, Busy
<1>t. /\ deciding \in [Admin -> [step : Step, request : Request \cup {NoRequest}]]
      /\ sent \in Seq(Request) /\ Len(sent) \in Nat /\ DOMAIN sent = 1..Len(sent)
  BY DEF WorkInv, StreamTypes
<1>l. LoggedApprovals' = LoggedApprovals /\ ToSet(sent) = {sent[a] : a \in DOMAIN sent}
  BY <1>1 DEF LoggedApprovals, ToSet
<1>o. \A i \in DOMAIN log : log[i].kind = "approved" => log[i].request \in ToSet(sent)
  BY DEF FlowInv, LoggedApprovals
<1>n. r \notin ToSet(sent) /\ r \notin unlogged
  BY <1>1 DEF FlowInv
<1>2. ASSUME deciding' = [deciding EXCEPT ![h] = [step |-> "announced", request |-> r]],
             sent' = Append(sent, r)
      PROVE  FlowInv'
  <2> DEFINE d == [step |-> "announced", request |-> r]
  <2>1. /\ BeingLogged = {} /\ BeingLogged' = {r}
        /\ \A g \in Admin : g # h => deciding'[g].step = "idle"
        /\ deciding'[h] = d
    BY <1>1, <1>2, <1>t, BeingLoggedAfter DEF Busy, Announcing
  <2>2. /\ DOMAIN sent' = 1..(Len(sent) + 1) /\ Len(sent') = Len(sent) + 1
        /\ \A a \in 1..Len(sent) : sent'[a] = sent[a]
        /\ sent'[Len(sent) + 1] = r
        /\ ToSet(sent') = ToSet(sent) \cup {r}
    BY <1>2, <1>t, SentAfter
  <2>3. \A a, b \in DOMAIN sent' : sent'[a] = sent'[b] => a = b
    BY <1>t, <1>l, <1>n, <2>2 DEF FlowInv
  <2>4. LoggedApprovals' = ToSet(sent') \ (BeingLogged' \cup unlogged')
    BY <1>1, <1>l, <1>n, <2>1, <2>2 DEF FlowInv
  <2>5. SameOrder'
    <3> SUFFICES ASSUME NEW i \in DOMAIN log, NEW j \in DOMAIN log,
                        NEW a \in DOMAIN sent', NEW b \in DOMAIN sent',
                        i < j, log[i].kind = "approved", log[j].kind = "approved",
                        sent'[a] = log[i].request, sent'[b] = log[j].request
                 PROVE  a < b
      BY <1>1 DEF SameOrder
    <3>1. a \in 1..Len(sent) /\ b \in 1..Len(sent)
      BY <1>o, <1>n, <1>t, <2>2
    <3> QED BY <1>t, <2>2, <3>1 DEF FlowInv, SameOrder
  <2>6. \A g \in Admin : Announcing(g)' =>
          /\ Len(sent') > 0 /\ sent'[Len(sent')] = deciding'[g].request
          /\ deciding'[g].request \notin unlogged'
    BY <1>1, <1>n, <1>t, <2>1, <2>2 DEF Announcing
  <2>7. \A g \in Admin : deciding'[g].step # "rejecting"
    BY <2>1
  <2>8. waiting' \cap (unlogged' \cup ToSet(sent')) = {} /\ log' \in Seq(LogEntry)
    BY <1>1, <2>2 DEF FlowInv
  <2> QED BY <2>3, <2>4, <2>5, <2>6, <2>7, <2>8 DEF FlowInv
<1>3. ASSUME deciding' = [deciding EXCEPT ![h] = [step |-> "rejecting", request |-> r]],
             UNCHANGED sent
      PROVE  FlowInv'
  <2> DEFINE d == [step |-> "rejecting", request |-> r]
  <2>1. /\ BeingLogged = {} /\ BeingLogged' = {}
        /\ \A g \in Admin : g # h => deciding'[g].step = "idle"
        /\ deciding'[h] = d
    BY <1>1, <1>3, <1>t, BeingLoggedAfter DEF Busy, Announcing
  <2>2. \A g \in Admin : ~Announcing(g)'
    BY <2>1 DEF Announcing
  <2>3. \A g \in Admin : deciding'[g].step = "rejecting" =>
          deciding'[g].request \notin waiting' \cup ToSet(sent')
    BY <1>1, <1>3, <1>n, <2>1
  <2> QED BY <1>1, <1>3, <1>l, <2>1, <2>2, <2>3 DEF FlowInv, SameOrder
<1> QED BY <1>2, <1>3 DEF Decide

\* An event: an approval's is about the last message, which no event was about.
LEMMA FlowLog ==
  ASSUME WorkInv, FlowInv, NEW h \in Admin, LogDecision(h)
  PROVE  FlowInv'
<1>t. /\ deciding \in [Admin -> [step : Step, request : Request \cup {NoRequest}]]
      /\ sent \in Seq(Request) /\ Len(sent) \in Nat /\ DOMAIN sent = 1..Len(sent)
      /\ log \in Seq(LogEntry) /\ Len(log) \in Nat /\ DOMAIN log = 1..Len(log)
  BY DEF WorkInv, StreamTypes, FlowInv
<1> DEFINE r == deciding[h].request
<1>1. PICK step \in {<<"announced", "approved">>, <<"rejecting", "rejected">>} :
        /\ deciding[h].step = step[1]
        /\ deciding' = [deciding EXCEPT ![h] = [deciding[h] EXCEPT !.step = step[2]]]
        /\ log' = Append(log, [request |-> r, kind |-> step[2]])
        /\ UNCHANGED <<sent, waiting, unlogged>>
  BY <1>t DEF LogDecision
<1>s. \/ step[1] = "announced" /\ step[2] = "approved"
      \/ step[1] = "rejecting" /\ step[2] = "rejected"
  OBVIOUS
<1> DEFINE d == [deciding[h] EXCEPT !.step = step[2]]
           e == [request |-> r, kind |-> step[2]]
<1>2. d.step = step[2] /\ e \in LogEntry /\ e.kind = step[2] /\ e.request = r
  BY <1>t DEF LogEntry
<1>3. \A g \in Admin : g # h => ~Busy(g)
  BY <1>1 DEF Busy, WorkInv
<1>4. /\ BeingLogged = IF Announcing(h) THEN {r} ELSE {}
      /\ BeingLogged' = {}
      /\ \A g \in Admin : deciding'[g].step \notin {"announced", "rejecting"}
  <2>1. /\ BeingLogged = IF Announcing(h) THEN {r} ELSE {}
        /\ BeingLogged' = IF d.step = "announced" THEN {d.request} ELSE {}
        /\ \A g \in Admin : g # h => deciding'[g].step = "idle"
        /\ deciding'[h] = d
    BY <1>1, <1>3, <1>t, BeingLoggedAfter
  <2> HIDE DEF d
  <2>2. d.step \notin {"announced", "rejecting"}
    BY <1>2, <1>s
  <2> QED BY <2>1, <2>2
<1>5. LoggedApprovals' = LoggedApprovals \cup (IF e.kind = "approved" THEN {r} ELSE {})
  BY <1>1, <1>2, <1>t, LoggedAfter
<1>6. /\ DOMAIN log' = 1..(Len(log) + 1) /\ log'[Len(log) + 1] = e
      /\ \A i \in 1..Len(log) : log'[i] = log[i]
      /\ log' \in Seq(LogEntry)
  BY <1>1, <1>2, <1>t
<1> HIDE DEF e, d
<1>7. e.kind = "approved" <=> Announcing(h)
  BY <1>1, <1>2, <1>s DEF Announcing
<1>8. e.kind = "approved" => Announcing(h) /\ Len(sent) > 0 /\ sent[Len(sent)] = r /\ r \notin unlogged
  BY <1>7 DEF FlowInv
<1>9. LoggedApprovals' = ToSet(sent') \ (BeingLogged' \cup unlogged')
  <2>1. CASE e.kind = "approved"
    <3>1. r \in ToSet(sent)
      BY <1>8, <1>t, <2>1 DEF ToSet
    <3> QED BY <1>1, <1>4, <1>5, <1>8, <2>1, <3>1 DEF FlowInv
  <2>2. CASE e.kind # "approved"
    BY <1>1, <1>4, <1>5, <1>7, <2>2 DEF FlowInv
  <2> QED BY <2>1, <2>2
<1>10. SameOrder'
  <2> SUFFICES ASSUME NEW i \in DOMAIN log', NEW j \in DOMAIN log',
                      NEW a \in DOMAIN sent, NEW b \in DOMAIN sent,
                      i < j, log'[i].kind = "approved", log'[j].kind = "approved",
                      sent[a] = log'[i].request, sent[b] = log'[j].request
               PROVE  a < b
    BY <1>1 DEF SameOrder
  <2>1. i \in 1..Len(log) /\ log'[i] = log[i]
    BY <1>t, <1>6
  <2>2. CASE j \in 1..Len(log)
    BY <1>6, <1>t, <2>1, <2>2 DEF FlowInv, SameOrder
  <2>3. CASE j = Len(log) + 1
    <3>1. sent[b] = sent[Len(sent)] /\ Len(sent) \in DOMAIN sent /\ BeingLogged = {r}
      BY <1>2, <1>4, <1>6, <1>8, <1>t, <2>3
    <3>2. b = Len(sent)
      BY <3>1 DEF FlowInv
    <3>3. log[i].request \in LoggedApprovals
      BY <1>t, <2>1 DEF LoggedApprovals
    <3>4. sent[a] # r
      BY <2>1, <3>1, <3>3 DEF FlowInv
    <3>5. a # Len(sent)
      BY <1>2, <1>6, <1>8, <2>3, <3>4
    <3> QED BY <1>t, <3>2, <3>5
  <2> QED BY <1>6, <1>t, <2>2, <2>3
<1> QED BY <1>1, <1>4, <1>6, <1>9, <1>10 DEF FlowInv, Announcing

\* The end of a handler: if it had not logged yet, its request is unlogged now.
LEMMA FlowEnd ==
  ASSUME WorkInv, FlowInv, NEW h \in Admin, StoreDecision(h) \/ HangUp(h)
  PROVE  FlowInv'
<1>t. /\ deciding \in [Admin -> [step : Step, request : Request \cup {NoRequest}]]
      /\ sent \in Seq(Request) /\ Len(sent) \in Nat /\ DOMAIN sent = 1..Len(sent)
  BY DEF WorkInv, StreamTypes
<1> DEFINE r == deciding[h].request
           more == IF deciding[h].step \in {"announced", "rejecting"} THEN {r} ELSE {}
<1>1. /\ Busy(h) /\ deciding' = [deciding EXCEPT ![h] = NotBusy]
      /\ unlogged' = unlogged \cup more
      /\ UNCHANGED <<waiting, sent, log>>
  BY DEF StoreDecision, HangUp, Busy
<1>2. NotBusy.step = "idle"
  BY DEF NotBusy
<1> HIDE DEF NotBusy
<1>3. \A g \in Admin : g # h => ~Busy(g)
  BY <1>1 DEF WorkInv
<1>4. /\ BeingLogged = IF Announcing(h) THEN {r} ELSE {}
      /\ BeingLogged' = {}
      /\ \A g \in Admin : deciding'[g].step = "idle"
  BY <1>1, <1>2, <1>3, <1>t, BeingLoggedAfter
<1>5. LoggedApprovals' = LoggedApprovals
  BY <1>1 DEF LoggedApprovals
<1>6. deciding[h].step = "rejecting" => r \notin waiting \cup ToSet(sent)
  BY DEF FlowInv
<1>7. Announcing(h) => r \in ToSet(sent)
  BY <1>t DEF FlowInv, ToSet
<1>8. LoggedApprovals' = ToSet(sent') \ (BeingLogged' \cup unlogged')
  <2>1. CASE Announcing(h)
    BY <1>1, <1>4, <1>5, <2>1 DEF FlowInv, Announcing
  <2>2. CASE ~Announcing(h)
    BY <1>1, <1>4, <1>5, <1>6, <2>2 DEF FlowInv, Announcing
  <2> QED BY <2>1, <2>2
<1>9. waiting' \cap (unlogged' \cup ToSet(sent')) = {}
  BY <1>1, <1>6, <1>7 DEF FlowInv, Announcing
<1>10. (\A g \in Admin : ~Announcing(g)') /\ \A g \in Admin : deciding'[g].step # "rejecting"
  BY <1>4 DEF Announcing
<1>11. SameOrder'
  BY <1>1 DEF FlowInv, SameOrder
<1> QED BY <1>1, <1>8, <1>9, <1>10, <1>11 DEF FlowInv

\* With nothing sent and nothing logged there is nothing to compare.
LEMMA FlowStarts ==
  ASSUME sent = << >>, log = << >>, \A h \in Admin : deciding[h] = NotBusy,
         waiting \cap unlogged = {}
  PROVE  FlowInv
<1>1. ToSet(sent) = {} /\ DOMAIN sent = {} /\ DOMAIN log = {}
  BY DEF ToSet
<1>2. LoggedApprovals = {}
  BY <1>1 DEF LoggedApprovals
<1>3. log \in Seq(LogEntry)
  OBVIOUS
<1> QED BY <1>1, <1>2, <1>3 DEF FlowInv, SameOrder, Announcing, NotBusy

\* Every step keeps the log and the stream together.
LEMMA FlowStep ==
  ASSUME WorkInv, FlowInv, [StreamNext]_streamVars
  PROVE  FlowInv'
<1>1. ASSUME UNCHANGED decisions
      PROVE  FlowInv'
  BY <1>1 DEF decisions, FlowInv, SameOrder, Announcing, LoggedApprovals, BeingLogged
<1>2. CASE Crash
  <2>1. /\ sent' = << >> /\ log' = << >> /\ \A h \in Admin : deciding'[h] = NotBusy
        /\ waiting' \cap unlogged' = {}
    BY <1>2 DEF Crash, FlowInv
  <2>2. ToSet(sent') = {} /\ DOMAIN sent' = {} /\ DOMAIN log' = {}
    BY <2>1 DEF ToSet
  <2>3. LoggedApprovals' = {} /\ log' \in Seq(LogEntry)
    BY <2>1, <2>2 DEF LoggedApprovals
  <2> QED BY <2>1, <2>2, <2>3 DEF FlowInv, SameOrder, Announcing, NotBusy
<1>3. ASSUME NEW s \in Subscriber,
             Subscribe(s) \/ Unsubscribe(s) \/ Receive(s) \/ Lag(s)
      PROVE  FlowInv'
  BY <1>1, <1>3 DEF Subscribe, Unsubscribe, Receive, Lag
<1>4. CASE UNCHANGED streamVars
  BY <1>1, <1>4 DEF streamVars, decisions
<1> QED BY <1>2, <1>3, <1>4, FlowDecide, FlowLog, FlowEnd DEF StreamNext

\* The stream and the log tell of the approvals in the same order, each of each
\* once, and the log lacks what is being logged and what a hang-up between send and
\* push kept from it: the write lock is held from the decision to the last of its
\* consequences (manager.rs:173-209).
THEOREM StreamAndLogAgree == StreamSpec => []StreamIsTheLog
<1>1. StreamInit => FlowInv
  <2> SUFFICES ASSUME StreamInit
               PROVE  FlowInv
    OBVIOUS
  <2>1. /\ sent = << >> /\ log = << >> /\ waiting \cap unlogged = {}
        /\ \A h \in Admin : deciding[h] = NotBusy
    BY DEF StreamInit
  <2> QED BY <2>1, FlowStarts
<1>2. FlowInv => StreamIsTheLog
  BY DEF FlowInv, SameOrder, StreamIsTheLog
<1> QED BY <1>1, <1>2, StreamStarts, StreamStep, FlowStep, PTL DEF StreamSpec

------------------------------------------------------------------------------
(* Logs that are merged                                                      *)
(*                                                                           *)
(* Every list numbers its events from zero without a gap, so a merge keeps   *)
(* its own events where they are and takes what the other list has beyond    *)
(* them.                                                                     *)

LogEvent == [seq : Nat, cert : LogCert, kind : EventKind, bitmap : {{}}]

Numbered(events) ==
  /\ events \in Seq(LogEvent)
  /\ \A i \in 1..Len(events) : events[i].seq = i - 1

Beginning(s, t) == Len(s) <= Len(t) /\ \A i \in 1..Len(s) : s[i] = t[i]

\* What the community module's operator says of two lists.
LEMMA PrefixIsBeginning ==
  ASSUME NEW S, NEW s \in Seq(S), NEW t \in Seq(S)
  PROVE  IsPrefix(s, t) <=> Beginning(s, t)
<1>1. /\ Len(s) \in Nat /\ Len(t) \in Nat
  OBVIOUS
<1>2. SubSeq(s, 1, Len(s)) = s
  OBVIOUS
<1>3. CASE Len(s) <= Len(t)
  <2>1. /\ SubSeq(t, 1, Len(s)) \in Seq(S) /\ Len(SubSeq(t, 1, Len(s))) = Len(s)
        /\ \A i \in 1..Len(s) : SubSeq(t, 1, Len(s))[i] = t[i]
    BY <1>1, <1>3
  <2>2. s = SubSeq(t, 1, Len(s)) <=> \A i \in 1..Len(s) : s[i] = t[i]
    BY <1>1, <2>1, SeqEqual
  <2> QED BY <1>2, <1>3, <2>2 DEF IsPrefix, Beginning
<1>4. CASE ~(Len(s) <= Len(t))
  BY <1>4 DEF IsPrefix, Beginning
<1> QED BY <1>3, <1>4

\* The numbers below n are found in order.
LEMMA NthBelow ==
  ASSUME NEW n \in Nat, NEW k \in 1..n
  PROVE  Nth(k, 0..(n - 1)) = k - 1
<1> DEFINE S == 0..(n - 1)
           Rank(x) == Cardinality({m \in S : m < x})
<1>1. ASSUME NEW x \in S
      PROVE  Rank(x) = x
  <2>1. {m \in S : m < x} = 0..(x - 1)
    OBVIOUS
  <2>2. Cardinality(0..(x - 1)) = x
    <3>1. 0 \in Int /\ x - 1 \in Int
      OBVIOUS
    <3>2. Cardinality(0..(x - 1)) = IF 0 > x - 1 THEN 0 ELSE x - 1 - 0 + 1
      BY <3>1, FS_Interval
    <3> QED BY <3>2
  <2> QED BY <2>1, <2>2
<1>2. k - 1 \in S
  OBVIOUS
<1> HIDE DEF Rank
<1>3. \A x \in S : Rank(x) = k - 1 <=> x = k - 1
  BY <1>1, <1>2
<1>4. (CHOOSE x \in S : Rank(x) = k - 1) = k - 1
  BY <1>2, <1>3
<1> QED BY <1>4 DEF Nth, Rank

\* Two numbered lists of lengths a and b, one after the other.
Joined(own, external, a, b, both) ==
  /\ DOMAIN both = 1..(a + b)
  /\ \A i \in 1..a : both[i] = own[i] /\ both[i].seq = i - 1
  /\ \A i \in 1..b : both[a + i] = external[i] /\ both[a + i].seq = i - 1

\* Numbered lists are joined by appending one to the other.
LEMMA BothLists ==
  ASSUME NEW own, Numbered(own), NEW external, Numbered(external),
         NEW a \in Nat, a = Len(own), NEW b \in Nat, b = Len(external),
         NEW both, both = own \o external
  PROVE  Joined(own, external, a, b, both)
<1>1. /\ DOMAIN both = 1..(a + b)
      /\ \A i \in 1..(a + b) : both[i] = IF i <= a THEN own[i] ELSE external[i - a]
  BY DEF Numbered
<1>2. ASSUME NEW i \in 1..a
      PROVE  both[i] = own[i] /\ both[i].seq = i - 1
  BY <1>1 DEF Numbered
<1>3. ASSUME NEW i \in 1..b
      PROVE  both[a + i] = external[i] /\ both[a + i].seq = i - 1
  <2>1. a + i \in 1..(a + b) /\ ~(a + i <= a) /\ (a + i) - a = i
    OBVIOUS
  <2>2. both[a + i] = external[i]
    BY <1>1, <2>1
  <2> QED BY <2>2 DEF Numbered
<1> QED BY <1>1, <1>2, <1>3 DEF Joined

\* Their numbers are those below the length of the longer one.
LEMMA NumbersOfBoth ==
  ASSUME NEW own, NEW external, NEW a \in Nat, NEW b \in Nat, NEW both,
         Joined(own, external, a, b, both),
         NEW n \in Nat, n \in {a, b}, n >= a, n >= b
  PROVE  Seqs(both) = 0..(n - 1)
<1>1. /\ DOMAIN both = 1..(a + b)
      /\ \A i \in 1..a : both[i].seq = i - 1
      /\ \A i \in 1..b : both[a + i].seq = i - 1
  BY DEF Joined
<1>2. ASSUME NEW i \in 1..(a + b)
      PROVE  both[i].seq \in 0..(n - 1)
  <2>1. CASE i \in 1..a
    BY <1>1, <2>1
  <2>2. CASE i \notin 1..a
    <3>1. i - a \in 1..b /\ a + (i - a) = i
      BY <2>2
    <3>2. both[i].seq = i - a - 1
      BY <1>1, <3>1
    <3> QED BY <3>1, <3>2
  <2> QED BY <2>1, <2>2
<1>3. ASSUME NEW x \in 0..(n - 1)
      PROVE  \E i \in 1..(a + b) : both[i].seq = x
  <2>1. CASE x < a
    <3>1. x + 1 \in 1..a /\ x + 1 \in 1..(a + b) /\ both[x + 1].seq = x
      BY <1>1, <2>1
    <3> QED BY <3>1
  <2>2. CASE x >= a
    <3>1. x + 1 \in 1..b /\ a + (x + 1) \in 1..(a + b)
      BY <2>2
    <3>2. both[a + (x + 1)].seq = (x + 1) - 1
      BY <1>1, <3>1
    <3> QED BY <3>1, <3>2
  <2> QED BY <2>1, <2>2
<1>4. Seqs(both) = {both[i].seq : i \in 1..(a + b)}
  BY <1>1 DEF Seqs
<1>5. Seqs(both) \subseteq 0..(n - 1)
  BY <1>2, <1>4
<1>6. 0..(n - 1) \subseteq Seqs(both)
  BY <1>3, <1>4
<1> QED BY <1>5, <1>6

\* The event a merge keeps at position k.
Kept(own, external, a, k) == IF k <= a THEN own[k] ELSE external[k]

\* The first event of a number is the own one, if there is one.
LEMMA FirstOfBoth ==
  ASSUME NEW own, NEW external, NEW a \in Nat, NEW b \in Nat, NEW both,
         Joined(own, external, a, b, both),
         NEW k \in Nat \ {0}, k <= a \/ k <= b, NEW number, number = k - 1
  PROVE  FirstOf(number, both) = Kept(own, external, a, k)
<1>1. /\ DOMAIN both = 1..(a + b)
      /\ \A i \in 1..a : both[i] = own[i] /\ both[i].seq = i - 1
      /\ \A i \in 1..b : both[a + i] = external[i] /\ both[a + i].seq = i - 1
  BY DEF Joined
<1> DEFINE T == {i \in DOMAIN both : both[i].seq = number}
<1>2. PICK x \in Nat : x = IF k <= a THEN k ELSE a + k
  OBVIOUS
<1>3. x \in T /\ both[x] = Kept(own, external, a, k)
  BY <1>1, <1>2 DEF Kept
<1>4. ASSUME NEW i \in T
      PROVE  x =< i
  <2>1. i \in 1..(a + b) /\ both[i].seq = k - 1
    BY <1>1
  <2>2. CASE i \in 1..a
    BY <1>1, <1>2, <2>1, <2>2
  <2>3. CASE i \notin 1..a
    <3>1. i - a \in 1..b /\ a + (i - a) = i
      BY <2>1, <2>3
    <3>2. i - a - 1 = k - 1
      BY <1>1, <2>1, <3>1
    <3> QED BY <1>2, <2>1, <3>1, <3>2
  <2> QED BY <2>2, <2>3
<1>5. T \subseteq Int
  BY <1>1
<1> HIDE DEF T
<1>6. Min(T) \in T /\ \A i \in T : Min(T) =< i
  BY <1>3, <1>4 DEF Min
<1>7. Min(T) \in Int /\ Min(T) =< x /\ x =< Min(T)
  BY <1>3, <1>4, <1>5, <1>6
<1>8. Min(T) = x
  BY <1>7
<1> QED BY <1>3, <1>8 DEF FirstOf, T

\* A merge is the replica's own list, and what the other has beyond it.
Merged(own, external, events) ==
  /\ Numbered(events)
  /\ Len(events) \in {Len(own), Len(external)}
  /\ Len(events) >= Len(own) /\ Len(events) >= Len(external)
  /\ \A k \in 1..Len(events) : events[k] = Kept(own, external, Len(own), k)

\* That is what merge() returns.
LEMMA MergeIs ==
  ASSUME NEW own, Numbered(own), NEW external, Numbered(external), NEW l, l.events = own
  PROVE  \E events : /\ Merged(own, external, events)
                     /\ Merge(l, external) = [events |-> events, nextSeq |-> Len(events)]
<1>b. PICK both : both = own \o external
  OBVIOUS
<1>1. PICK a \in Nat, b \in Nat : a = Len(own) /\ b = Len(external)
  BY DEF Numbered
<1>2. PICK n \in Nat : n = IF a >= b THEN a ELSE b
  OBVIOUS
<1>m. n \in {a, b} /\ n >= a /\ n >= b
  BY <1>2
<1>j. Joined(own, external, a, b, both)
  BY <1>b, <1>1, BothLists
<1>3. Seqs(both) = 0..(n - 1)
  BY <1>j, <1>m, NumbersOfBoth
<1>4. Cardinality(0..(n - 1)) = n
  <2>1. 0 \in Int /\ n - 1 \in Int
    OBVIOUS
  <2>2. Cardinality(0..(n - 1)) = IF 0 > n - 1 THEN 0 ELSE n - 1 - 0 + 1
    BY <2>1, FS_Interval
  <2> QED BY <2>2
<1>5. SortedUnique(both) = [k \in 1..n |-> Kept(own, external, a, k)]
  <2>1. SortedUnique(both) = [k \in 1..n |-> FirstOf(Nth(k, 0..(n - 1)), both)]
    BY <1>3, <1>4 DEF SortedUnique
  <2>2. ASSUME NEW k \in 1..n
        PROVE  FirstOf(Nth(k, 0..(n - 1)), both) = Kept(own, external, a, k)
    <3>1. PICK number : number = Nth(k, 0..(n - 1))
      OBVIOUS
    <3>2. number = k - 1
      BY <3>1, NthBelow
    <3>3. k \in Nat \ {0} /\ (k <= a \/ k <= b)
      BY <1>2
    <3>4. FirstOf(number, both) = Kept(own, external, a, k)
      <4>1. k \in Nat \ {0}
        OBVIOUS
      <4>2. k <= a \/ k <= b
        BY <3>3
      <4> HIDE <3>3
      <4> QED BY <1>j, <3>2, <4>1, <4>2, FirstOfBoth
    <3> QED BY <3>1, <3>4
  <2> QED BY <2>1, <2>2
<1> DEFINE all == [k \in 1..n |-> Kept(own, external, a, k)]
<1>6. Merge(l, external) = [events |-> all, nextSeq |-> Len(all)]
  BY <1>b, <1>5 DEF Merge
<1>7. ASSUME NEW k \in 1..n
      PROVE  all[k] \in LogEvent /\ all[k].seq = k - 1 /\ all[k] = Kept(own, external, a, k)
  <2>1. all[k] = Kept(own, external, a, k)
    OBVIOUS
  <2>2. (own[k] \in LogEvent /\ own[k].seq = k - 1) \/ k > a
    BY <1>1 DEF Numbered
  <2>3. (external[k] \in LogEvent /\ external[k].seq = k - 1) \/ k <= a
    BY <1>1, <1>2 DEF Numbered
  <2> QED BY <2>1, <2>2, <2>3 DEF Kept
<1>8. all \in Seq(LogEvent) /\ Len(all) = n
  BY <1>7
<1> HIDE DEF all
<1>9. Numbered(all)
  BY <1>7, <1>8 DEF Numbered
<1>10. Merged(own, external, all)
  BY <1>1, <1>m, <1>7, <1>8, <1>9 DEF Merged
<1> QED BY <1>6, <1>10

\* A list is a beginning of itself.
LEMMA BeginningItself ==
  ASSUME NEW s, Numbered(s)
  PROVE  Beginning(s, s)
BY DEF Numbered, Beginning

\* A beginning of a beginning is one.
LEMMA BeginningThrough ==
  ASSUME NEW s, Numbered(s), NEW t, Numbered(t), NEW u, Numbered(u),
         Beginning(s, t), Beginning(t, u)
  PROVE  Beginning(s, u)
<1>1. Len(s) \in Nat /\ Len(t) \in Nat /\ Len(u) \in Nat
  BY DEF Numbered
<1> QED BY <1>1 DEF Beginning

\* A log is the beginning of what it is after a push.
LEMMA BeginningPushed ==
  ASSUME NEW s, Numbered(s), NEW e \in LogEvent, e.seq = Len(s)
  PROVE  Numbered(Append(s, e)) /\ Beginning(s, Append(s, e))
<1> DEFINE t == Append(s, e)
<1>1. /\ s \in Seq(LogEvent) /\ Len(s) \in Nat
      /\ t \in Seq(LogEvent) /\ Len(t) = Len(s) + 1 /\ t[Len(s) + 1] = e
      /\ \A i \in 1..Len(s) : t[i] = s[i]
  BY DEF Numbered
<1> HIDE DEF t
<1>2. \A i \in 1..Len(t) : t[i].seq = i - 1
  BY <1>1 DEF Numbered
<1> QED BY <1>1, <1>2 DEF Numbered, Beginning, t

\* The own list is the beginning of a merge, which is the beginning of whatever both
\* lists are.
LEMMA BeginningMerged ==
  ASSUME NEW own, Numbered(own), NEW external, Numbered(external),
         NEW events, Merged(own, external, events)
  PROVE  /\ Numbered(events)
         /\ Beginning(own, events)
         /\ \A u : Numbered(u) /\ Beginning(own, u) /\ Beginning(external, u)
                     => Beginning(events, u)
<1>1. Len(own) \in Nat /\ Len(external) \in Nat /\ Len(events) \in Nat
  BY DEF Numbered, Merged
<1>2. Beginning(own, events)
  BY <1>1 DEF Merged, Kept, Beginning
<1>3. ASSUME NEW u, Beginning(own, u), Beginning(external, u)
      PROVE  Beginning(events, u)
  <2>1. Len(events) <= Len(u)
    BY <1>1, <1>3 DEF Merged, Beginning
  <2>2. ASSUME NEW k \in 1..Len(events)
        PROVE  events[k] = u[k]
    <3>1. events[k] = Kept(own, external, Len(own), k)
      BY DEF Merged
    <3>2. CASE k <= Len(own)
      BY <1>1, <1>3, <3>1, <3>2 DEF Kept, Beginning
    <3>3. CASE ~(k <= Len(own))
      <4>1. k \in 1..Len(external)
        BY <1>1, <3>3 DEF Merged
      <4> QED BY <1>3, <3>1, <3>3, <4>1 DEF Kept, Beginning
    <3> QED BY <3>2, <3>3
  <2> QED BY <2>1, <2>2 DEF Beginning
<1> QED BY <1>2, <1>3 DEF Merged

LogSyncTypes ==
  /\ logs \in [Replica -> [events : Seq(LogEvent), nextSeq : Nat]]
  /\ handedOut \in [Replica -> SUBSET Seq(LogEvent)]
  /\ restarts \in [Replica -> Nat]
  /\ forked \in BOOLEAN

\* Every log and every list on its way is numbered: a restart, and a list from
\* before one, leave no gap either.
NumberedInv ==
  /\ \A r \in Replica : /\ Numbered(logs[r].events)
                        /\ logs[r].nextSeq = Len(logs[r].events)
  /\ \A r \in Replica : \A l \in handedOut[r] : Numbered(l)

\* As long as every push went to the end of the history, there is nothing but
\* beginnings of it.
HistoryInv ==
  ~forked =>
    /\ Numbered(history)
    /\ \A r \in Replica : /\ Beginning(logs[r].events, history)
                          /\ \A l \in handedOut[r] : Beginning(l, history)

LogSyncInv == LogSyncTypes /\ NumberedInv /\ HistoryInv

Grown ==
  \A r \in Replica :
    restarts'[r] = restarts[r] => Beginning(logs[r].events, logs'[r].events)

\* A replica whose log has grown, by a push or a merge, while the others' stay, and
\* whose log is within a history that may have grown with it.
LEMMA OneGrows ==
  ASSUME LogSyncInv, NEW r \in Replica,
         NEW events, Numbered(events), Beginning(logs[r].events, events),
         logs' = [logs EXCEPT ![r] = [events |-> events, nextSeq |-> Len(events)]],
         UNCHANGED <<handedOut, restarts>>, forked' \in BOOLEAN,
         ~forked' => /\ ~forked
                     /\ Numbered(history') /\ Beginning(history, history')
                     /\ Beginning(events, history')
  PROVE  LogSyncInv' /\ Grown
<1>1. /\ logs'[r].events = events /\ logs'[r].nextSeq = Len(events)
      /\ \A q \in Replica : q # r => logs'[q] = logs[q]
  BY DEF LogSyncInv, LogSyncTypes
<1>2. LogSyncTypes'
  <2>1. events \in Seq(LogEvent) /\ Len(events) \in Nat
    BY DEF Numbered
  <2> QED BY <2>1 DEF LogSyncInv, LogSyncTypes
<1>3. \A q \in Replica : Numbered(logs[q].events) /\ Numbered(logs'[q].events)
  BY <1>1 DEF LogSyncInv, NumberedInv
<1>4. Grown
  BY <1>1, <1>3, BeginningItself DEF Grown
<1>5. NumberedInv'
  <2>1. \A q \in Replica : logs'[q].nextSeq = Len(logs'[q].events)
    BY <1>1 DEF LogSyncInv, NumberedInv
  <2>2. \A q \in Replica : \A l \in handedOut'[q] : Numbered(l)
    BY DEF LogSyncInv, NumberedInv
  <2> QED BY <1>3, <2>1, <2>2 DEF NumberedInv, Numbered
<1>6. ASSUME ~forked'
      PROVE  /\ \A q \in Replica : Beginning(logs'[q].events, history')
             /\ \A q \in Replica : \A l \in handedOut'[q] : Beginning(l, history')
  <2>1. Numbered(history) /\ Numbered(history') /\ Beginning(history, history')
    BY <1>6 DEF LogSyncInv, HistoryInv
  <2>2. ASSUME NEW q \in Replica
        PROVE  Beginning(logs'[q].events, history')
    <3>1. CASE q = r
      BY <1>1, <1>6, <3>1
    <3>2. CASE q # r
      <4>1. Beginning(logs[q].events, history)
        BY <1>6 DEF LogSyncInv, HistoryInv
      <4>2. Beginning(logs[q].events, history')
        BY <1>3, <2>1, <4>1, BeginningThrough
      <4> QED BY <1>1, <3>2, <4>2
    <3> QED BY <3>1, <3>2
  <2>3. ASSUME NEW q \in Replica, NEW l \in handedOut[q]
        PROVE  Beginning(l, history')
    <3>1. Numbered(l) /\ Beginning(l, history)
      BY <1>6 DEF LogSyncInv, NumberedInv, HistoryInv
    <3> QED BY <2>1, <3>1, BeginningThrough
  <2> QED BY <2>2, <2>3
<1>7. HistoryInv'
  BY <1>6 DEF HistoryInv, Numbered, Beginning
<1> QED BY <1>2, <1>4, <1>5, <1>7 DEF LogSyncInv

\* A push goes to the end of the log, which is the end of the history or a fork.
LEMMA PushStep ==
  ASSUME LogSyncInv, NEW r \in Replica, PushOwn(r)
  PROVE  LogSyncInv' /\ Grown
<1>1. PICK cert \in LogCert, kind \in {"Approved", "Revoked"} :
        /\ logs' = [logs EXCEPT ![r] = Push(logs[r], cert, kind, {})]
        /\ forked' = (forked \/ logs[r].events # history)
        /\ history' = IF forked' THEN history ELSE logs'[r].events
        /\ UNCHANGED <<handedOut, restarts>>
  BY DEF PushOwn
<1> DEFINE own == logs[r].events
           e == [seq |-> logs[r].nextSeq, cert |-> cert, kind |-> kind, bitmap |-> {}]
           events == Append(own, e)
<1>2. Numbered(own) /\ logs[r].nextSeq = Len(own) /\ Len(own) \in Nat
  BY DEF LogSyncInv, NumberedInv, Numbered
<1>3. e \in LogEvent /\ e.seq = Len(own)
  BY <1>2 DEF LogEvent, EventKind
<1> HIDE DEF e
<1>4. Numbered(events) /\ Beginning(own, events)
  BY <1>2, <1>3, BeginningPushed
<1>5. Len(events) = logs[r].nextSeq + 1
  BY <1>2, <1>3 DEF Numbered
<1>6. Push(logs[r], cert, kind, {}) = [events |-> events, nextSeq |-> Len(events)]
  BY <1>5 DEF Push, e
<1> HIDE DEF events
<1>7. logs' = [logs EXCEPT ![r] = [events |-> events, nextSeq |-> Len(events)]]
  BY <1>1, <1>6
<1>8. logs'[r].events = events
  BY <1>7 DEF LogSyncInv, LogSyncTypes
<1>9. forked' \in BOOLEAN
  BY <1>1
<1>10. ASSUME ~forked'
       PROVE  /\ ~forked
              /\ Numbered(history') /\ Beginning(history, history')
              /\ Beginning(events, history')
  <2>1. ~forked /\ own = history /\ history' = events
    BY <1>1, <1>8, <1>10
  <2> QED BY <1>4, <2>1, BeginningItself
<1> QED BY <1>1, <1>4, <1>7, <1>9, <1>10, OneGrows

\* What is handed out is the log as it is.
LEMMA HandOutStep ==
  ASSUME LogSyncInv, NEW r \in Replica, HandOut(r)
  PROVE  LogSyncInv' /\ Grown
<1>1. /\ handedOut' = [handedOut EXCEPT ![r] = handedOut[r] \cup {logs[r].events}]
      /\ UNCHANGED <<logs, restarts, history, forked>>
  BY DEF HandOut
<1>2. \A q \in Replica : Numbered(logs[q].events) /\ Beginning(logs[q].events, logs[q].events)
  BY BeginningItself DEF LogSyncInv, NumberedInv
<1>3. \A q \in Replica : \A l \in handedOut'[q] : l \in handedOut[q] \/ l = logs[r].events
  BY <1>1 DEF LogSyncInv, LogSyncTypes
<1>4. LogSyncTypes'
  BY <1>1 DEF LogSyncInv, LogSyncTypes
<1>5. NumberedInv'
  BY <1>1, <1>2, <1>3 DEF LogSyncInv, NumberedInv, Numbered
<1>6. HistoryInv'
  BY <1>1, <1>3 DEF LogSyncInv, HistoryInv, Numbered, Beginning
<1>7. Grown
  BY <1>1, <1>2 DEF Grown
<1> QED BY <1>4, <1>5, <1>6, <1>7 DEF LogSyncInv

\* A merge of two beginnings of the history is one.
LEMMA MergeStep ==
  ASSUME LogSyncInv, NEW r \in Replica, NEW s \in Replica, MergeFrom(r, s)
  PROVE  LogSyncInv' /\ Grown
<1>1. PICK external \in handedOut[s] :
        /\ logs' = [logs EXCEPT ![r] = Merge(logs[r], external)]
        /\ UNCHANGED <<handedOut, restarts, history, forked>>
  BY DEF MergeFrom
<1> DEFINE own == logs[r].events
<1>2. Numbered(own) /\ Numbered(external)
  BY DEF LogSyncInv, NumberedInv
<1>3. PICK events : /\ Merged(own, external, events)
                    /\ Merge(logs[r], external) = [events |-> events, nextSeq |-> Len(events)]
  BY <1>2, MergeIs
<1>4. Numbered(events) /\ Beginning(own, events)
  BY <1>2, <1>3, BeginningMerged
<1>5. ASSUME ~forked'
      PROVE  /\ ~forked
             /\ Numbered(history') /\ Beginning(history, history')
             /\ Beginning(events, history')
  <2>1. ~forked /\ history' = history
    BY <1>1, <1>5
  <2>2. Numbered(history) /\ Beginning(own, history) /\ Beginning(external, history)
    BY <2>1 DEF LogSyncInv, HistoryInv
  <2>3. Beginning(events, history)
    BY <1>2, <1>3, <2>2, BeginningMerged
  <2> QED BY <2>1, <2>2, <2>3, BeginningItself
<1>6. /\ logs' = [logs EXCEPT ![r] = [events |-> events, nextSeq |-> Len(events)]]
      /\ forked' \in BOOLEAN
  BY <1>1, <1>3 DEF LogSyncInv, LogSyncTypes
<1> QED BY <1>1, <1>4, <1>5, <1>6, OneGrows

\* A restart leaves the beginning of length zero.
LEMMA RestartStep ==
  ASSUME LogSyncInv, NEW r \in Replica, Restart(r)
  PROVE  LogSyncInv' /\ Grown
<1>1. /\ logs' = [logs EXCEPT ![r] = [events |-> << >>, nextSeq |-> 0]]
      /\ restarts' = [restarts EXCEPT ![r] = restarts[r] + 1]
      /\ UNCHANGED <<handedOut, history, forked>>
  BY DEF Restart, EmptyLog
<1>2. /\ Numbered(<< >>) /\ << >> \in Seq(LogEvent) /\ Len(<< >>) = 0
      /\ \A u : Numbered(u) => Beginning(<< >>, u)
  BY DEF Numbered, Beginning
<1>3. /\ logs'[r].events = << >> /\ logs'[r].nextSeq = 0
      /\ \A q \in Replica : q # r => logs'[q] = logs[q] /\ restarts'[q] = restarts[q]
      /\ restarts'[r] # restarts[r]
  BY <1>1 DEF LogSyncInv, LogSyncTypes
<1>4. LogSyncTypes'
  BY <1>1, <1>2 DEF LogSyncInv, LogSyncTypes
<1>5. NumberedInv'
  BY <1>1, <1>2, <1>3 DEF LogSyncInv, NumberedInv, Numbered
<1>6. HistoryInv'
  <2>1. ASSUME ~forked, NEW q \in Replica
        PROVE  Beginning(logs'[q].events, history)
    BY <1>2, <1>3, <2>1 DEF LogSyncInv, HistoryInv
  <2> QED BY <1>1, <2>1 DEF LogSyncInv, HistoryInv, Numbered, Beginning
<1>7. Grown
  BY <1>3, BeginningItself DEF LogSyncInv, NumberedInv, Grown
<1> QED BY <1>4, <1>5, <1>6, <1>7 DEF LogSyncInv

\* Every step keeps the invariant, and lets logs grow.
LEMMA LogSyncStep ==
  ASSUME LogSyncInv, [LogSyncNext]_logVars
  PROVE  LogSyncInv' /\ Grown
<1>1. CASE UNCHANGED logVars
  <2>1. LogSyncInv'
    BY <1>1 DEF logVars, LogSyncInv, LogSyncTypes, NumberedInv, HistoryInv
  <2>2. Grown
    BY <1>1, BeginningItself DEF logVars, LogSyncInv, NumberedInv, Grown
  <2> QED BY <2>1, <2>2
<1> QED BY <1>1, PushStep, HandOutStep, MergeStep, RestartStep DEF LogSyncNext

\* At the start all logs are empty, and so is the history.
LEMMA LogSyncStarts ==
  ASSUME LogSyncInit
  PROVE  LogSyncInv
<1>1. Numbered(<< >>) /\ Beginning(<< >>, << >>) /\ << >> \in Seq(LogEvent) /\ Len(<< >>) = 0
  BY DEF Numbered, Beginning
<1>2. \A r \in Replica : /\ logs[r] = [events |-> << >>, nextSeq |-> 0]
                         /\ handedOut[r] = {}
  BY DEF LogSyncInit, EmptyLog
<1>3. LogSyncTypes
  BY <1>1 DEF LogSyncInit, EmptyLog, LogSyncTypes
<1>4. NumberedInv
  BY <1>1, <1>2 DEF NumberedInv
<1>5. HistoryInv
  BY <1>1, <1>2 DEF HistoryInv, LogSyncInit
<1> QED BY <1>3, <1>4, <1>5 DEF LogSyncInv

\* A log is append-only across merges too: late, repeated or conflicting lists
\* never replace, drop or move an event a replica already has, as no log has a gap
\* in its numbers and the own event of a number is kept (event_log.rs:111-118).  A
\* restart empties it (main.rs:104).
THEOREM MergeOnlyAppends == LogSyncSpec => LogsOnlyGrow
<1>1. ASSUME LogSyncInv, [LogSyncNext]_logVars
      PROVE  [\A r \in Replica : restarts'[r] = restarts[r] =>
                IsPrefix(logs[r].events, logs'[r].events)]_logVars
  <2>1. Grown /\ LogSyncInv'
    BY <1>1, LogSyncStep
  <2>2. \A r \in Replica : logs[r].events \in Seq(LogEvent) /\ logs'[r].events \in Seq(LogEvent)
    BY <1>1, <2>1 DEF LogSyncInv, NumberedInv, Numbered
  <2> QED BY <2>1, <2>2, PrefixIsBeginning DEF Grown
<1>2. LogSyncInv /\ [LogSyncNext]_logVars => LogSyncInv'
  BY LogSyncStep
<1> QED BY <1>1, <1>2, LogSyncStarts, PTL DEF LogSyncSpec, LogsOnlyGrow

\* As long as nobody pushes without having all that was pushed, every log and every
\* list on its way is a beginning of one history, through lost, late and repeated
\* lists and through restarts.
THEOREM OneHistory == LogSyncSpec => []OneHistoryUntilStalePush
<1>1. LogSyncInv => OneHistoryUntilStalePush
  <2> SUFFICES ASSUME LogSyncInv, ~forked, NEW r \in Replica
               PROVE  /\ IsPrefix(logs[r].events, history)
                      /\ \A list \in handedOut[r] : IsPrefix(list, history)
    BY DEF OneHistoryUntilStalePush
  <2>1. history \in Seq(LogEvent) /\ logs[r].events \in Seq(LogEvent)
    BY DEF LogSyncInv, NumberedInv, HistoryInv, Numbered
  <2>2. IsPrefix(logs[r].events, history)
    BY <2>1, PrefixIsBeginning DEF LogSyncInv, HistoryInv
  <2>3. ASSUME NEW list \in handedOut[r]
        PROVE  IsPrefix(list, history)
    <3>1. list \in Seq(LogEvent) /\ Beginning(list, history)
      BY DEF LogSyncInv, NumberedInv, HistoryInv, Numbered
    <3> QED BY <2>1, <3>1, PrefixIsBeginning
  <2> QED BY <2>2, <2>3
<1>2. LogSyncInv /\ [LogSyncNext]_logVars => LogSyncInv'
  BY LogSyncStep
<1> QED BY <1>1, <1>2, LogSyncStarts, PTL DEF LogSyncSpec
==============================================================================
