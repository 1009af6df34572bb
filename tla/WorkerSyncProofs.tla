--------------------------- MODULE WorkerSyncProofs ---------------------------
(***************************************************************************)
(* Theorems about WorkerSync: what the Worker keeps and whom it admits,    *)
(* for any batches, codes, salts and number of milliseconds.               *)
(***************************************************************************)
EXTENDS WorkerSync, SequenceTheorems, TLAPS

\* What is acknowledged, and what the inbox has under each key.
InboxInv ==
  /\ millis \in Millis
  /\ inbox \in [Millis -> Batch \cup {NoBatch}]
  /\ taken \subseteq Batch \X Millis
  /\ \A entry \in taken : <<inbox[entry[2]], entry[2]>> \in taken

\* What was admitted was joined to the salt of its deployment as the code that is
\* set was to its own; that code is the one last acknowledged.
CodeInv ==
  /\ salt \in Salt \cup {NoSalt}
  /\ recoveryHash # NoHash => lastSetup \in [pin : Code \cup Number, salt : Salt]
  /\ recoveryHash # NoHash => recoveryHash = Digest(lastSetup.pin, lastSetup.salt)
  /\ \A entry \in admitted :
       /\ recoveryHash # NoHash
       /\ entry \in [pin : Code \cup Number, salt : Salt]
       /\ Digest(entry.pin, entry.salt) = recoveryHash

\* The requests that leave the inbox alone, and those that leave the code alone.
OffInbox == UNCHANGED <<millis, inbox, taken>>
OffCode  == UNCHANGED <<salt, recoveryHash, lastSetup, admitted>>

\* The router's loop touches nothing of the Worker.
LEMMA LoopIsApart ==
  ASSUME RouterLoop
  PROVE  OffInbox /\ OffCode
BY DEF RouterLoop, Tick, Connect, Handshake, GiveUp, Write, Read, LoopStep, OffInbox,
       OffCode, kvVars, historyVars

\* The invariant of the inbox is inductive: a batch replaces only what has its
\* key, and is then itself acknowledged under that key.
LEMMA InboxStep ==
  ASSUME InboxInv, [Next]_workerVars
  PROVE  InboxInv'
<1>1. ASSUME OffInbox
      PROVE  InboxInv'
  BY <1>1 DEF OffInbox, InboxInv
<1>2. ASSUME NEW batch \in Batch \cup {Empty}, Push(batch)
      PROVE  InboxInv'
  <2>1. CASE batch = Empty
    BY <1>2, <2>1, <1>1 DEF Push, StoreBatch, OffInbox
  <2>2. CASE batch # Empty
    <3>1. batch \in Batch
      BY <2>2
    <3>2. /\ inbox' = [inbox EXCEPT ![millis] = batch]
          /\ taken' = taken \cup {<<batch, millis>>}
          /\ millis' = millis
      BY <1>2, <2>2 DEF Push, StoreBatch
    <3>3. /\ inbox' \in [Millis -> Batch \cup {NoBatch}]
          /\ taken' \subseteq Batch \X Millis
      BY <3>1, <3>2 DEF InboxInv
    <3>4. ASSUME NEW entry \in taken'
          PROVE  <<inbox'[entry[2]], entry[2]>> \in taken'
      <4>1. entry[2] \in Millis
        BY <3>3, <3>4
      <4>2. CASE entry[2] = millis
        <5>1. inbox'[entry[2]] = batch
          BY <3>2, <4>1, <4>2 DEF InboxInv
        <5> QED BY <3>2, <4>2, <5>1
      <4>3. CASE entry[2] # millis
        <5>1. entry \in taken
          BY <3>2, <3>4, <4>3
        <5>2. inbox'[entry[2]] = inbox[entry[2]]
          BY <3>2, <4>1, <4>3 DEF InboxInv
        <5> QED BY <3>2, <5>1, <5>2 DEF InboxInv
      <4> QED BY <4>2, <4>3
    <3> QED BY <3>2, <3>3, <3>4 DEF InboxInv
  <2> QED BY <2>1, <2>2
<1>3. ASSUME NextMilli
      PROVE  InboxInv'
  BY <1>3, WorkerAssumption
  DEF NextMilli, InboxInv, Millis, kvVars, historyVars
<1>4. ASSUME NEW pin, NEW isNumber, SetUpCode(pin, isNumber) \/ VerifyCode(pin)
      PROVE  OffInbox
  BY <1>4 DEF SetUpCode, VerifyCode, OffInbox, kvVars
<1>5. ASSUME Deploy
      PROVE  OffInbox
  BY <1>5 DEF Deploy, OffInbox, kvVars, historyVars
<1>6. ASSUME UNCHANGED workerVars
      PROVE  OffInbox
  BY <1>6 DEF workerVars, OffInbox, kvVars, historyVars
<1> QED BY <1>1, <1>2, <1>3, <1>4, <1>5, <1>6, LoopIsApart DEF Next, Worker

\* Of two pairs that join to the same string, the shorter first part begins the
\* longer one.
LEMMA ShorterBegins ==
  ASSUME NEW S, NEW p \in Seq(S), NEW s \in Seq(S), NEW q \in Seq(S), NEW t \in Seq(S),
         p \o s = q \o t, Len(p) <= Len(q)
  PROVE  IsPrefix(p, q) /\ \A i \in 1..Len(p) : p[i] = q[i]
<1>1. Len(p) \in Nat /\ Len(s) \in Nat /\ Len(q) \in Nat /\ Len(t) \in Nat
  OBVIOUS
<1>2. ASSUME NEW i \in 1..Len(p)
      PROVE  p[i] = q[i]
  <2>1. /\ i \in 1..(Len(p) + Len(s)) /\ i <= Len(p)
        /\ i \in 1..(Len(q) + Len(t)) /\ i <= Len(q)
    BY <1>1
  <2>2. (p \o s)[i] = p[i]
    BY <2>1, ConcatProperties
  <2>3. (q \o t)[i] = q[i]
    BY <2>1, ConcatProperties
  <2> QED BY <2>2, <2>3
<1>3. SubSeq(p, 1, Len(p)) = SubSeq(q, 1, Len(p))
  <2>1. /\ SubSeq(p, 1, Len(p)) \in Seq(S) /\ Len(SubSeq(p, 1, Len(p))) = Len(p)
        /\ \A i \in 1..Len(p) : SubSeq(p, 1, Len(p))[i] = p[i]
    BY <1>1
  <2>2. /\ SubSeq(q, 1, Len(p)) \in Seq(S) /\ Len(SubSeq(q, 1, Len(p))) = Len(p)
        /\ \A i \in 1..Len(p) : SubSeq(q, 1, Len(p))[i] = q[i]
    BY <1>1
  <2> QED BY <1>2, <2>1, <2>2, SeqEqual
<1> QED BY <1>2, <1>3 DEF IsPrefix

\* Two pairs that join to the same string are one pair when their second parts
\* have one length; in any case one of the first parts begins the other.
LEMMA JoinedStrings ==
  ASSUME NEW S, NEW p \in Seq(S), NEW s \in Seq(S), NEW q \in Seq(S), NEW t \in Seq(S),
         p \o s = q \o t
  PROVE  /\ Len(s) = Len(t) => p = q /\ s = t
         /\ IsPrefix(p, q) \/ IsPrefix(q, p)
<1>1. Len(p) \in Nat /\ Len(s) \in Nat /\ Len(q) \in Nat /\ Len(t) \in Nat
  OBVIOUS
<1>2. ASSUME Len(s) = Len(t)
      PROVE  p = q /\ s = t
  <2>1. Len(p) + Len(s) = Len(q) + Len(t)
    <3>1. Len(p \o s) = Len(p) + Len(s)
      BY ConcatProperties
    <3>2. Len(q \o t) = Len(q) + Len(t)
      BY ConcatProperties
    <3> QED BY <3>1, <3>2
  <2>2. Len(p) = Len(q)
    BY <1>1, <1>2, <2>1
  <2>3. \A i \in 1..Len(p) : p[i] = q[i]
    BY <1>1, <2>2, ShorterBegins
  <2>4. p = q
    BY <2>2, <2>3, SeqEqual
  <2>5. p \o s = p \o t
    BY <2>4
  <2> QED BY <2>4, <2>5, ConcatSimplifications, Zenon
<1>3. IsPrefix(p, q) \/ IsPrefix(q, p)
  <2>1. CASE Len(p) <= Len(q)
    BY <2>1, ShorterBegins
  <2>2. CASE Len(q) <= Len(p)
    BY <2>2, ShorterBegins
  <2> QED BY <1>1, <2>1, <2>2
<1> QED BY <1>2, <1>3

\* The invariant of the recovery code is inductive: setting one up forgets whom
\* the one before admitted, and nothing else writes the hash.
LEMMA CodeStep ==
  ASSUME CodeInv, [Next]_workerVars
  PROVE  CodeInv'
<1>1. ASSUME OffCode
      PROVE  CodeInv'
  BY <1>1 DEF OffCode, CodeInv
<1>2. ASSUME NEW pin \in Code \cup Number, NEW isNumber, SetUpCode(pin, isNumber)
      PROVE  CodeInv'
  <2>1. salt \in Salt
    BY <1>2 DEF SetUpCode, AcceptsCode, CodeInv
  <2> QED BY <1>2, <2>1 DEF SetUpCode, CodeInv, Digest
<1>3. ASSUME NEW pin \in Code \cup Number, VerifyCode(pin)
      PROVE  CodeInv'
  <2>1. salt \in Salt /\ recoveryHash # NoHash /\ Digest(pin, salt) = recoveryHash
    BY <1>3 DEF VerifyCode, Matches, CodeInv
  <2>2. UNCHANGED <<salt, recoveryHash, lastSetup>>
    BY <1>3 DEF VerifyCode, kvVars
  <2>3. admitted' = admitted \cup {[pin |-> pin, salt |-> salt]}
    BY <1>3 DEF VerifyCode
  <2>4. ASSUME NEW entry \in admitted'
        PROVE  /\ recoveryHash # NoHash
               /\ entry \in [pin : Code \cup Number, salt : Salt]
               /\ Digest(entry.pin, entry.salt) = recoveryHash
    <3>1. CASE entry \in admitted
      BY <3>1 DEF CodeInv
    <3>2. CASE entry = [pin |-> pin, salt |-> salt]
      BY <2>1, <3>2
    <3> QED BY <2>3, <2>4, <3>1, <3>2
  <2> QED BY <2>2, <2>4 DEF CodeInv, Digest
<1>4. ASSUME NEW batch \in Batch \cup {Empty}, Push(batch)
      PROVE  OffCode
  BY <1>4 DEF Push, OffCode
<1>5. ASSUME NextMilli
      PROVE  OffCode
  BY <1>5 DEF NextMilli, OffCode, kvVars, historyVars
<1>6. ASSUME UNCHANGED workerVars
      PROVE  OffCode
  BY <1>6 DEF workerVars, OffCode, kvVars, historyVars
<1>7. ASSUME Deploy
      PROVE  CodeInv'
  BY <1>7 DEF Deploy, CodeInv, kvVars, historyVars
<1> QED BY <1>1, <1>2, <1>3, <1>4, <1>5, <1>6, <1>7, LoopIsApart DEF Next, Worker

\* A batch the Worker has acknowledged is there, or another acknowledged batch of
\* the same millisecond is (index.ts:87-99).
THEOREM BatchesAreKept == Spec => []BatchKeptOrCollided
<1>1. Init => InboxInv
  BY WorkerAssumption DEF Init, InboxInv, Millis
<1>2. InboxInv => BatchKeptOrCollided
  <2> SUFFICES ASSUME InboxInv, NEW entry \in taken
               PROVE  \E other \in taken :
                        other[2] = entry[2] /\ other[1] = inbox[entry[2]]
    BY DEF BatchKeptOrCollided
  <2>1. <<inbox[entry[2]], entry[2]>> \in taken
    BY DEF InboxInv
  <2> QED BY <2>1
<1> QED BY <1>1, <1>2, InboxStep, PTL DEF Spec

\* Nobody is admitted but with the last code that was set and the salt it was set
\* with, or with a code and a salt of another length that join to the same string
\* and of which one code begins the other, through any number of deployments and
\* for codes of any length and either type (index.ts:54-84).
THEOREM LastCodeAdmits == Spec => []OnlyTheLastCodeAdmits
<1>1. Init => CodeInv
  BY DEF Init, CodeInv, NoHash
<1>2. CodeInv => OnlyTheLastCodeAdmits
  <2> SUFFICES ASSUME CodeInv, NEW entry \in admitted
               PROVE  \/ entry = lastSetup
                      \/ /\ Len(entry.salt) # Len(lastSetup.salt)
                         /\ \/ IsPrefix(entry.pin, lastSetup.pin)
                            \/ IsPrefix(lastSetup.pin, entry.pin)
    BY DEF OnlyTheLastCodeAdmits
  <2>1. /\ entry \in [pin : Code \cup Number, salt : Salt]
        /\ lastSetup \in [pin : Code \cup Number, salt : Salt]
        /\ entry.pin \o entry.salt = lastSetup.pin \o lastSetup.salt
    BY DEF CodeInv, Digest
  <2>2. /\ entry.pin \in Seq(Char) /\ entry.salt \in Seq(Char)
        /\ lastSetup.pin \in Seq(Char) /\ lastSetup.salt \in Seq(Char)
    BY <2>1, WorkerAssumption
  <2>3. /\ Len(entry.salt) = Len(lastSetup.salt) =>
             entry.pin = lastSetup.pin /\ entry.salt = lastSetup.salt
        /\ IsPrefix(entry.pin, lastSetup.pin) \/ IsPrefix(lastSetup.pin, entry.pin)
    BY <2>1, <2>2, JoinedStrings
  <2>4. entry.pin = lastSetup.pin /\ entry.salt = lastSetup.salt => entry = lastSetup
    BY <2>1
  <2> QED BY <2>3, <2>4
<1> QED BY <1>1, <1>2, CodeStep, PTL DEF Spec
==============================================================================
