---------------------------- MODULE ServicesProofs ----------------------------
(***************************************************************************)
(* Theorems about the anti-abuse limiter (AntiAbuse), for any certificates *)
(* and devices and any number of dates and of visits to them, and about    *)
(* the module registry (ModuleRegistry), for any set of declarations and   *)
(* of releases.                                                            *)
(***************************************************************************)
EXTENDS ModuleRegistry, AntiAbuse, FiniteSetTheorems, TLAPS

------------------------------------------------------------------------------
(* The daily limit *)

CountersType ==
  /\ restoreCount \in [Holder -> 0..MaxRestorePerDay]
  /\ lastResetDate \in 0..MaxDate
  /\ today \in Today
  /\ given \in [Holder -> [Today -> Nat]]
  /\ visits \in [Today -> Nat]

\* What c was given on date d.  The counter of the date it was last reset for
\* counts the restores since that reset; the clock has come to that date and to
\* today at least once, and the visit that is on has its two restores still to
\* give, unless the counter counts it already.
Account(c, d) ==
  /\ d = lastResetDate =>
       /\ visits[d] >= 1
       /\ restoreCount[c] <= given[c][d]
       /\ given[c][d] <= 2 * (visits[d] - 1) + restoreCount[c]
  /\ d # lastResetDate /\ d = today =>
       visits[d] >= 1 /\ given[c][d] <= 2 * (visits[d] - 1)
  /\ d # lastResetDate /\ d # today => given[c][d] <= 2 * visits[d]

RestoreInv ==
  /\ CountersType
  /\ visits[today] >= 1
  /\ \A c \in Holder, d \in Today : Account(c, d)

\* maybe_reset_date() gives counters between zero and the limit: none, or those
\* there are.
LEMMA CountsType ==
  ASSUME CountersType
  PROVE  Counts \in [Holder -> 0..MaxRestorePerDay]
BY DEF CountersType, Counts, NoRestores, MaxRestorePerDay

\* The accounts are right at the start.
LEMMA RestoreInit == LimiterInit => RestoreInv
BY LimiterAssumption
DEF LimiterInit, RestoreInv, CountersType, Account, NoRestores, Today, MaxRestorePerDay

\* try_restore() that only resets the counters keeps the accounts right.
LEMMA ResetStep ==
  ASSUME RestoreInv, restoreCount' = Counts, lastResetDate' = today,
         UNCHANGED <<today, given, visits>>
  PROVE  RestoreInv'
<1>1. CountersType'
  BY CountsType DEF RestoreInv, CountersType, Today
<1>2. ASSUME NEW c \in Holder, NEW d \in Today
      PROVE  Account(c, d)'
  <2>1. /\ given[c][d] \in Nat
        /\ visits[d] \in Nat
        /\ restoreCount[c] \in 0..2
        /\ Account(c, d)
    BY DEF RestoreInv, CountersType, MaxRestorePerDay
  <2>2. Counts[c] = IF lastResetDate # today THEN 0 ELSE restoreCount[c]
    BY DEF Counts, NoRestores
  <2> QED BY <2>1, <2>2 DEF Account, RestoreInv
<1> QED BY <1>1, <1>2 DEF RestoreInv

\* try_restore() that gives a restore keeps the accounts right.
LEMMA GiveStep ==
  ASSUME RestoreInv, NEW h \in Holder, ~Exceeded(h),
         restoreCount' = [Counts EXCEPT ![h] = @ + 1], lastResetDate' = today,
         given' = [given EXCEPT ![h][today] = @ + 1],
         UNCHANGED <<today, visits>>
  PROVE  RestoreInv'
<1>1. Counts[h] \in 0..1
  BY CountsType DEF RestoreInv, Exceeded, MaxRestorePerDay
<1>2. restoreCount' \in [Holder -> 0..MaxRestorePerDay]
  BY <1>1, CountsType DEF RestoreInv, MaxRestorePerDay
<1>3. /\ given' \in [Holder -> [Today -> Nat]]
      /\ \A c \in Holder, d \in Today :
           given'[c][d] = IF c = h /\ d = today THEN given[c][d] + 1 ELSE given[c][d]
  BY DEF RestoreInv, CountersType
<1>4. CountersType'
  BY <1>2, <1>3 DEF RestoreInv, CountersType, Today
<1>5. ASSUME NEW c \in Holder, NEW d \in Today
      PROVE  Account(c, d)'
  <2>1. /\ given[c][d] \in Nat
        /\ visits[d] \in Nat
        /\ restoreCount[c] \in 0..2
        /\ Account(c, d)
    BY DEF RestoreInv, CountersType, MaxRestorePerDay
  <2>2. Counts[c] = IF lastResetDate # today THEN 0 ELSE restoreCount[c]
    BY DEF Counts, NoRestores
  <2>3. restoreCount'[c] = IF c = h THEN Counts[c] + 1 ELSE Counts[c]
    BY CountsType DEF RestoreInv
  <2>4. given'[c][d] = IF c = h /\ d = today THEN given[c][d] + 1 ELSE given[c][d]
    BY <1>3
  <2> QED BY <1>1, <2>1, <2>2, <2>3, <2>4 DEF Account, RestoreInv
<1> QED BY <1>4, <1>5 DEF RestoreInv

\* Setting the clock keeps the accounts right: the date it comes to has one more
\* visit, whose two restores are still to be given.
LEMMA ClockStep ==
  ASSUME RestoreInv, SetClock
  PROVE  RestoreInv'
<1>1. PICK e \in Today \ {today} :
        /\ today' = e
        /\ visits' = [visits EXCEPT ![e] = @ + 1]
        /\ UNCHANGED <<restoreCount, lastResetDate, given>>
  BY DEF SetClock, limiterState
<1>2. CountersType'
  BY <1>1 DEF RestoreInv, CountersType
<1>3. visits'[today'] >= 1
  BY <1>1 DEF RestoreInv, CountersType
<1>4. ASSUME NEW c \in Holder, NEW d \in Today
      PROVE  Account(c, d)'
  <2>1. /\ given[c][d] \in Nat
        /\ visits[d] \in Nat
        /\ restoreCount[c] \in 0..2
        /\ Account(c, d)
    BY DEF RestoreInv, CountersType, MaxRestorePerDay
  <2>2. visits'[d] = IF d = e THEN visits[d] + 1 ELSE visits[d]
    BY <1>1 DEF RestoreInv, CountersType
  <2> QED BY <1>1, <2>1, <2>2 DEF Account, RestoreInv
<1> QED BY <1>2, <1>3, <1>4 DEF RestoreInv

\* Every call, and the clock, keep the accounts right.
LEMMA RestoreStep ==
  ASSUME RestoreInv, [LimiterNext]_limiterVars
  PROVE  RestoreInv'
<1>1. ASSUME UNCHANGED <<restoreCount, lastResetDate, today, given, visits>>
      PROVE  RestoreInv'
  BY <1>1 DEF RestoreInv, CountersType, Account
<1>2. ASSUME NEW c \in Holder, NEW d \in Device, CheckReuse(c, d)
      PROVE  RestoreInv'
  BY <1>1, <1>2 DEF CheckReuse
<1>3. ASSUME NEW c \in Holder, NEW isRoot \in BOOLEAN, GiveRestore(c, isRoot)
      PROVE  RestoreInv'
  <2>1. CASE isRoot
    BY <1>3, <2>1, ResetStep DEF GiveRestore
  <2>2. CASE ~isRoot
    BY <1>3, <2>2, GiveStep DEF GiveRestore
  <2> QED BY <2>1, <2>2
<1>4. ASSUME NEW c \in Holder, RefuseRestore(c)
      PROVE  RestoreInv'
  BY <1>4, ResetStep DEF RefuseRestore, limiterHistory
<1>5. ASSUME UNCHANGED limiterVars
      PROVE  RestoreInv'
  BY <1>1, <1>5 DEF limiterVars, limiterState, limiterHistory
<1> QED BY <1>2, <1>3, <1>4, <1>5, ClockStep DEF LimiterNext

\* A certificate is restored at most twice for each time the clock comes to a
\* date, however it is set (anti_abuse.rs:39-58).
THEOREM DailyLimit == LimiterSpec => []TwoRestoresPerDate
<1>1. RestoreInv => TwoRestoresPerDate
  <2> SUFFICES ASSUME RestoreInv, NEW c \in Holder, NEW d \in Today
               PROVE  given[c][d] <= 2 * visits[d]
    BY DEF TwoRestoresPerDate, MaxRestorePerDay
  <2>1. /\ given[c][d] \in Nat
        /\ visits[d] \in Nat
        /\ restoreCount[c] \in 0..2
        /\ Account(c, d)
    BY DEF RestoreInv, CountersType, MaxRestorePerDay
  <2> QED BY <2>1 DEF Account
<1> QED BY <1>1, RestoreInit, RestoreStep, PTL DEF LimiterSpec

\* Whoever is refused has had two restores on the date the clock shows
\* (anti_abuse.rs:42, 52-58).
THEOREM RefusalsAreDeserved == LimiterSpec => []RefusalIsDeserved
<1>1. RestoreInv => RefusalIsDeserved
  <2> SUFFICES ASSUME RestoreInv, NEW c \in Holder, Exceeded(c)
               PROVE  given[c][today] >= 2
    BY DEF RefusalIsDeserved, MaxRestorePerDay
  <2>1. today \in Today /\ given[c][today] \in Nat /\ restoreCount[c] \in 0..2
    BY DEF RestoreInv, CountersType, MaxRestorePerDay
  <2>2. Account(c, today)
    BY <2>1 DEF RestoreInv
  <2>3. lastResetDate = today /\ restoreCount[c] = 2
    BY <2>1 DEF Exceeded, Counts, NoRestores, MaxRestorePerDay
  <2> QED BY <2>1, <2>2, <2>3 DEF Account
<1> QED BY <1>1, RestoreInit, RestoreStep, PTL DEF LimiterSpec

------------------------------------------------------------------------------
(* Concurrent use *)

\* What has been reported of certificate c: nothing of a device it was not used
\* with, and of those it was used with every one once but the first.
Reports(c) ==
  /\ IsFiniteSet(knownDevices[c])
  /\ \A d \in Device \ knownDevices[c] : flagged[c][d] = 0
  /\ knownDevices[c] # {} =>
       \E first \in knownDevices[c] :
         \A d \in knownDevices[c] : flagged[c][d] = IF d = first THEN 0 ELSE 1

DeviceInv ==
  /\ knownDevices \in [Holder -> SUBSET Device]
  /\ flagged \in [Holder -> [Device -> Nat]]
  /\ \A c \in Holder : Reports(c)

\* A device is reported exactly when it is new and not the first.
LEMMA ReportedIfNotFirst ==
  ASSUME DeviceInv, NEW c \in Holder, NEW d \in Device
  PROVE  ConcurrentUse(c, d) <=> (d \notin knownDevices[c] /\ knownDevices[c] # {})
<1> DEFINE S == knownDevices[c]
<1>1. IsFiniteSet(S)
  BY DEF DeviceInv, Reports
<1>2. Cardinality(S) \in Nat /\ (Cardinality(S) = 0 <=> S = {})
  BY <1>1, FS_CardinalityType, FS_EmptySet
<1>3. d \notin S => Cardinality(S \cup {d}) = Cardinality(S) + 1
  BY <1>1, FS_AddElement
<1>4. d \notin S => (Cardinality(S \cup {d}) >= 2 <=> S # {})
  BY <1>2, <1>3
<1> QED BY <1>4 DEF ConcurrentUse

\* check_reuse() keeps what has been reported right.
LEMMA ReuseStep ==
  ASSUME DeviceInv, NEW h \in Holder, NEW e \in Device, CheckReuse(h, e)
  PROVE  DeviceInv'
<1> DEFINE n == IF e \notin knownDevices[h] /\ knownDevices[h] # {}
                  THEN flagged[h][e] + 1 ELSE flagged[h][e]
<1>1. /\ knownDevices' = [knownDevices EXCEPT ![h] = @ \cup {e}]
      /\ flagged' = [flagged EXCEPT ![h][e] = n]
  BY ReportedIfNotFirst DEF CheckReuse
<1>2. n \in Nat
  BY DEF DeviceInv
<1>3. /\ knownDevices' \in [Holder -> SUBSET Device]
      /\ flagged' \in [Holder -> [Device -> Nat]]
  BY <1>1, <1>2 DEF DeviceInv
<1>4. ASSUME NEW c \in Holder, c # h
      PROVE  Reports(c)'
  <2>1. knownDevices'[c] = knownDevices[c] /\ flagged'[c] = flagged[c]
    BY <1>1, <1>4 DEF DeviceInv
  <2> QED BY <2>1 DEF DeviceInv, Reports
<1>5. Reports(h)'
  <2>1. /\ knownDevices'[h] = knownDevices[h] \cup {e}
        /\ \A d \in Device : flagged'[h][d] = IF d = e THEN n ELSE flagged[h][d]
    BY <1>1 DEF DeviceInv
  <2>2. Reports(h) /\ knownDevices[h] \subseteq Device
    BY DEF DeviceInv
  <2>3. IsFiniteSet(knownDevices'[h])
    BY <2>1, <2>2, FS_AddElement DEF Reports
  <2>4. \A d \in Device \ knownDevices'[h] : flagged'[h][d] = 0
    BY <2>1, <2>2 DEF Reports
  <2>5. \E first \in knownDevices'[h] :
          \A d \in knownDevices'[h] : flagged'[h][d] = IF d = first THEN 0 ELSE 1
    <3>1. CASE knownDevices[h] = {}
      <4>1. knownDevices'[h] = {e} /\ flagged'[h][e] = 0
        BY <2>1, <2>2, <3>1 DEF Reports
      <4> QED BY <4>1
    <3>2. CASE knownDevices[h] # {}
      <4>1. PICK first \in knownDevices[h] :
              \A d \in knownDevices[h] : flagged[h][d] = IF d = first THEN 0 ELSE 1
        BY <2>2, <3>2 DEF Reports
      <4>2. \A d \in knownDevices'[h] : flagged'[h][d] = IF d = first THEN 0 ELSE 1
        <5>1. e \notin knownDevices[h] => flagged'[h][e] = 1
          BY <2>1, <2>2, <3>2 DEF Reports
        <5>2. e \in knownDevices[h] => flagged'[h][e] = flagged[h][e]
          BY <2>1, <3>2
        <5>3. \A d \in knownDevices[h] \ {e} : flagged'[h][d] = flagged[h][d]
          BY <2>1, <2>2
        <5> QED BY <2>1, <4>1, <5>1, <5>2, <5>3
      <4> QED BY <2>1, <4>2
    <3> QED BY <3>1, <3>2
  <2> QED BY <2>3, <2>4, <2>5 DEF Reports
<1> QED BY <1>3, <1>4, <1>5 DEF DeviceInv

\* Of the devices a certificate was used with, the first one was accepted in
\* silence and each of the others was reported once (anti_abuse.rs:25-37).
THEOREM OneReportPerDevice == LimiterSpec => []EachNewDeviceReportedOnce
<1>1. LimiterInit => DeviceInv
  BY FS_EmptySet DEF LimiterInit, DeviceInv, Reports
<1>2. DeviceInv /\ [LimiterNext]_limiterVars => DeviceInv'
  <2> SUFFICES ASSUME DeviceInv, [LimiterNext]_limiterVars
               PROVE  DeviceInv'
    OBVIOUS
  <2>1. ASSUME UNCHANGED <<knownDevices, flagged>>
        PROVE  DeviceInv'
    BY <2>1 DEF DeviceInv, Reports
  <2>2. ASSUME NEW c \in Holder, NEW isRoot \in BOOLEAN, GiveRestore(c, isRoot)
        PROVE  DeviceInv'
    BY <2>1, <2>2 DEF GiveRestore
  <2>3. ASSUME NEW c \in Holder, RefuseRestore(c)
        PROVE  DeviceInv'
    BY <2>1, <2>3 DEF RefuseRestore, limiterHistory
  <2>4. ASSUME SetClock \/ UNCHANGED limiterVars
        PROVE  DeviceInv'
    BY <2>1, <2>4 DEF SetClock, limiterVars, limiterState, limiterHistory
  <2> QED BY <2>2, <2>3, <2>4, ReuseStep DEF LimiterNext
<1>3. DeviceInv => EachNewDeviceReportedOnce
  <2> SUFFICES ASSUME DeviceInv, NEW c \in Holder
               PROVE  LET silent == {d \in knownDevices[c] : flagged[c][d] = 0}
                      IN  /\ Cardinality(silent) = (IF knownDevices[c] = {} THEN 0 ELSE 1)
                          /\ \A d \in knownDevices[c] \ silent : flagged[c][d] = 1
    BY DEF EachNewDeviceReportedOnce
  <2> DEFINE silent == {d \in knownDevices[c] : flagged[c][d] = 0}
  <2>1. CASE knownDevices[c] = {}
    <3>1. silent = {}
      BY <2>1
    <3> QED BY <2>1, <3>1, FS_EmptySet
  <2>2. CASE knownDevices[c] # {}
    <3>1. PICK first \in knownDevices[c] :
            \A d \in knownDevices[c] : flagged[c][d] = IF d = first THEN 0 ELSE 1
      BY <2>2 DEF DeviceInv, Reports
    <3>2. silent = {first}
      BY <3>1
    <3>3. Cardinality(silent) = 1
      BY <3>2, FS_Singleton
    <3> QED BY <2>2, <3>1, <3>3
  <2> QED BY <2>1, <2>2
<1> QED BY <1>1, <1>2, <1>3, PTL DEF LimiterSpec

\* Bits that module i of ms has claimed, or the core when i is 0.
OwnBits(ms, i) == IF i = 0 THEN ToSet(CoreBits) ELSE ToSet(ms[i].bits)

Owners == 0..Len(modules)

\* The claimed bits are those of the core and of the modules loaded, and no two
\* of these share one.
BitsInv ==
  /\ modules \in Seq(Declared)
  /\ claimedBits \in Seq(0..63)
  /\ ActiveBits = UNION {OwnBits(modules, i) : i \in Owners}
  /\ \A i, j \in Owners : i # j => OwnBits(modules, i) \cap OwnBits(modules, j) = {}

\* The elements of a concatenation are those of its parts.
LEMMA ElementsOfBoth ==
  ASSUME NEW S, NEW s \in Seq(S), NEW t \in Seq(S)
  PROVE  ToSet(s \o t) = ToSet(s) \cup ToSet(t)
<1>1. /\ Len(s) \in Nat /\ Len(t) \in Nat
      /\ DOMAIN s = 1..Len(s) /\ DOMAIN t = 1..Len(t)
      /\ DOMAIN (s \o t) = 1..(Len(s) + Len(t))
  OBVIOUS
<1>2. \A i \in 1..Len(s) : (s \o t)[i] = s[i]
  OBVIOUS
<1>3. \A i \in 1..Len(t) : (s \o t)[Len(s) + i] = t[i] /\ Len(s) + i \in 1..(Len(s) + Len(t))
  OBVIOUS
<1>4. \A i \in 1..(Len(s) + Len(t)) :
        i \in 1..Len(s) \/ (i - Len(s) \in 1..Len(t) /\ i = Len(s) + (i - Len(s)))
  BY <1>1
<1>5. ToSet(s) \subseteq ToSet(s \o t)
  BY <1>1, <1>2 DEF ToSet
<1>6. ToSet(t) \subseteq ToSet(s \o t)
  BY <1>1, <1>3 DEF ToSet
<1>7. ToSet(s \o t) \subseteq ToSet(s) \cup ToSet(t)
  <2> SUFFICES ASSUME NEW i \in 1..(Len(s) + Len(t))
               PROVE  (s \o t)[i] \in ToSet(s) \cup ToSet(t)
    BY <1>1 DEF ToSet
  <2>1. CASE i \in 1..Len(s)
    BY <1>1, <1>2, <2>1 DEF ToSet
  <2>2. CASE i - Len(s) \in 1..Len(t) /\ i = Len(s) + (i - Len(s))
    <3>1. (s \o t)[i] = t[i - Len(s)]
      BY <1>3, <2>2
    <3> QED BY <1>1, <2>2, <3>1 DEF ToSet
  <2> QED BY <1>4, <2>1, <2>2
<1> QED BY <1>5, <1>6, <1>7

\* A registry starts with the core's bits, which three elements hold.
LEMMA FreshRegistry ==
  ASSUME modules = << >>, claimedBits = CoreBits
  PROVE  BitsInv
<1>1. Owners = {0}
  BY DEF Owners
<1>2. claimedBits \in Seq(0..63)
  BY DEF CoreBits
<1> QED BY <1>1, <1>2 DEF BitsInv, ActiveBits, OwnBits

\* register() that loads a module adds its bits, none of which was taken.
LEMMA LoadStep ==
  ASSUME BitsInv, NEW m \in Declared, Load(m)
  PROVE  BitsInv'
<1> DEFINE n == Len(modules)
<1>1. m.bits \in Seq(0..63)
  BY RegistryAssumption
<1>2. /\ modules' = Append(modules, m)
      /\ claimedBits' = claimedBits \o m.bits
      /\ ToSet(m.bits) \cap ActiveBits = {}
  BY DEF Load, TakesClaimedBit, ToSet
<1>3. /\ modules' \in Seq(Declared)
      /\ claimedBits' \in Seq(0..63)
  BY <1>1, <1>2 DEF BitsInv
<1>4. n \in Nat /\ Owners = 0..n /\ Owners' = 0..(n + 1)
  BY <1>2 DEF Owners, BitsInv
<1>5. (\A i \in 0..n : OwnBits(modules', i) = OwnBits(modules, i)) /\ OwnBits(modules', n + 1) = ToSet(m.bits)
  <2>1. \A i \in 1..n : modules'[i] = modules[i]
    BY <1>2 DEF BitsInv
  <2>2. modules'[n + 1] = m /\ n + 1 # 0
    BY <1>2, <1>4 DEF BitsInv
  <2> QED BY <1>4, <2>1, <2>2 DEF OwnBits
<1>6. ActiveBits' = ActiveBits \cup ToSet(m.bits)
  BY <1>1, <1>2, ElementsOfBoth DEF BitsInv, ActiveBits
<1>7. 0..(n + 1) = 0..n \cup {n + 1} /\ n + 1 \notin 0..n
  BY <1>4
<1>8. ActiveBits' = UNION {OwnBits(modules', i) : i \in 0..(n + 1)}
  <2>1. ActiveBits = UNION {OwnBits(modules, i) : i \in 0..n}
    BY <1>4 DEF BitsInv
  <2> QED BY <1>5, <1>6, <1>7, <2>1
<1>9. ASSUME NEW i \in 0..(n + 1), NEW j \in 0..(n + 1), i # j
      PROVE  OwnBits(modules', i) \cap OwnBits(modules', j) = {}
  <2>1. \A k \in 0..n : OwnBits(modules, k) \subseteq ActiveBits
    BY <1>4 DEF BitsInv
  <2>2. CASE i \in 0..n /\ j \in 0..n
    BY <1>4, <1>5, <1>9, <2>2 DEF BitsInv
  <2>3. CASE i = n + 1 /\ j \in 0..n
    BY <1>2, <1>5, <2>1, <2>3
  <2>4. CASE i \in 0..n /\ j = n + 1
    BY <1>2, <1>5, <2>1, <2>4
  <2> QED BY <1>7, <1>9, <2>2, <2>3, <2>4
<1> QED BY <1>3, <1>4, <1>8, <1>9 DEF BitsInv

\* No bit has two owners, and the locked bits are those without one, whatever is
\* registered in whatever order (modules/mod.rs:75-116).
THEOREM OneOwnerPerBit == RegistrySpec => []BitsHaveOneOwner
<1>1. RegistryInit => BitsInv
  BY FreshRegistry DEF RegistryInit
<1>2. BitsInv /\ [RegistryNext]_registryVars => BitsInv'
  <2> SUFFICES ASSUME BitsInv, [RegistryNext]_registryVars
               PROVE  BitsInv'
    OBVIOUS
  <2>1. ASSUME UNCHANGED registryVars
        PROVE  BitsInv'
    BY <2>1 DEF registryVars, BitsInv, Owners, OwnBits, BitsOf, ActiveBits
  <2>2. ASSUME NewRegistry
        PROVE  BitsInv'
    <3>1. modules' = << >> /\ claimedBits' = CoreBits
      BY <2>2 DEF NewRegistry
    <3>2. Owners' = {0} /\ claimedBits' \in Seq(0..63)
      BY <3>1 DEF Owners, CoreBits
    <3> QED BY <3>1, <3>2 DEF BitsInv, ActiveBits, OwnBits
  <2>3. ASSUME NEW m \in Declared, Register(m)
        PROVE  BitsInv'
    BY <2>1, <2>3, LoadStep DEF Register, Skip
  <2> QED BY <2>1, <2>2, <2>3 DEF RegistryNext
<1>3. BitsInv => BitsHaveOneOwner
  <2> SUFFICES ASSUME BitsInv
               PROVE  BitsHaveOneOwner
    OBVIOUS
  <2>1. Len(modules) \in Nat /\ DOMAIN modules = 1..Len(modules)
    BY DEF BitsInv
  <2>2. \A i \in DOMAIN modules : i \in Owners /\ i # 0 /\ OwnBits(modules, i) = BitsOf(i)
    BY <2>1 DEF Owners, OwnBits, BitsOf
  <2>3. 0 \in Owners /\ OwnBits(modules, 0) = ToSet(CoreBits)
    BY <2>1 DEF Owners, OwnBits
  <2>4. Owners = {0} \cup DOMAIN modules
    BY <2>1 DEF Owners
  <2>5. ActiveBits = ToSet(CoreBits) \cup UNION {BitsOf(i) : i \in DOMAIN modules}
    BY <2>2, <2>3, <2>4 DEF BitsInv
  <2>6. \A i, j \in DOMAIN modules : i # j => BitsOf(i) \cap BitsOf(j) = {}
    BY <2>2 DEF BitsInv
  <2>7. \A i \in DOMAIN modules : BitsOf(i) \cap ToSet(CoreBits) = {}
    BY <2>2, <2>3 DEF BitsInv
  <2> QED BY <2>5, <2>6, <2>7 DEF BitsHaveOneOwner, LockedBits
<1> QED BY <1>1, <1>2, <1>3, PTL DEF RegistrySpec

------------------------------------------------------------------------------
(* The order of versions *)

Versions == {v \in Seq(Dot..9) : OneDigitEach(v)}

\* The positions of a version: digits at 1, 3 and 5, full stops between them.
LEMMA VersionShape ==
  ASSUME NEW v \in Versions
  PROVE  /\ Len(v) = 5
         /\ v[2] = Dot /\ v[4] = Dot
         /\ v[1] \in 0..9 /\ v[3] \in 0..9 /\ v[5] \in 0..9
         /\ Numbers(v)[1] = v[1] /\ Numbers(v)[2] = v[3] /\ Numbers(v)[3] = v[5]
<1>1. Len(v) = 5 /\ \A i \in 1..5 : v[i] \in Dot..9 /\ ((v[i] = Dot) <=> (i % 2 = 0))
  <2>1. v \in Seq(Dot..9) /\ Len(v) = 5
    BY DEF Versions, OneDigitEach
  <2>2. DOMAIN v = 1..5 /\ \A i \in 1..5 : v[i] \in Dot..9
    <3>1. \A S : v \in Seq(S) => DOMAIN v = 1..Len(v) /\ \A i \in 1..Len(v) : v[i] \in S
      OBVIOUS
    <3> HIDE DEF Dot
    <3>2. DOMAIN v = 1..Len(v) /\ \A i \in 1..Len(v) : v[i] \in Dot..9
      BY <2>1, <3>1
    <3> QED BY <2>1, <3>2
  <2>3. \A i \in DOMAIN v : (v[i] = Dot) <=> (i % 2 = 0)
    BY DEF Versions, OneDigitEach
  <2> QED BY <2>1, <2>2, <2>3
<1>2. 1 % 2 = 1 /\ 2 % 2 = 0 /\ 3 % 2 = 1 /\ 4 % 2 = 0 /\ 5 % 2 = 1
  OBVIOUS
<1>3. v[2] = Dot /\ v[4] = Dot /\ v[1] # Dot /\ v[3] # Dot /\ v[5] # Dot
  BY <1>1, <1>2
<1>4. v[1] \in 0..9 /\ v[3] \in 0..9 /\ v[5] \in 0..9
  BY <1>1, <1>3 DEF Dot
<1>5. \A k \in 1..3 : Numbers(v)[k] = v[2 * k - 1]
  BY DEF Numbers
<1> QED BY <1>1, <1>3, <1>4, <1>5

\* Versions of three one-digit numbers compare as strings the way their numbers
\* do, so there a module is too new exactly when the core is older.
LEMMA StringOrderIsVersionOrder ==
  ASSUME NEW v \in Versions, NEW w \in Versions
  PROVE  StringLess(v, w) <=> Older(v, w)
<1>v. /\ Len(v) = 5 /\ v[2] = Dot /\ v[4] = Dot
      /\ v[1] \in 0..9 /\ v[3] \in 0..9 /\ v[5] \in 0..9
      /\ Numbers(v)[1] = v[1] /\ Numbers(v)[2] = v[3] /\ Numbers(v)[3] = v[5]
  BY VersionShape
<1>w. /\ Len(w) = 5 /\ w[2] = Dot /\ w[4] = Dot
      /\ w[1] \in 0..9 /\ w[3] \in 0..9 /\ w[5] \in 0..9
      /\ Numbers(w)[1] = w[1] /\ Numbers(w)[2] = w[3] /\ Numbers(w)[3] = w[5]
  BY VersionShape
<1> DEFINE less == \/ v[1] < w[1]
                   \/ v[1] = w[1] /\ v[3] < w[3]
                   \/ v[1] = w[1] /\ v[3] = w[3] /\ v[5] < w[5]
<1>1. StringLess(v, w) <=> less
  <2>1. ASSUME StringLess(v, w)
        PROVE  less
    <3>1. PICK n \in 1..5 : /\ \A i \in 1..(n - 1) : v[i] = w[i]
                            /\ v[n] < w[n]
      BY <1>v, <1>w, <2>1 DEF StringLess
    <3>2. n # 2 /\ n # 4
      BY <1>v, <1>w, <3>1 DEF Dot
    <3>3. CASE n = 1
      BY <3>1, <3>3
    <3>4. CASE n = 3
      BY <3>1, <3>4
    <3>5. CASE n = 5
      BY <3>1, <3>5
    <3> QED BY <3>2, <3>3, <3>4, <3>5
  <2>2. ASSUME less
        PROVE  StringLess(v, w)
    <3>1. \A n \in {1, 3, 5} :
            (\A i \in 1..(n - 1) : v[i] = w[i]) /\ v[n] < w[n] => StringLess(v, w)
      BY <1>v, <1>w DEF StringLess
    <3>2. CASE v[1] < w[1]
      BY <3>1, <3>2
    <3>3. CASE v[1] = w[1] /\ v[3] < w[3]
      <4>1. \A i \in 1..2 : v[i] = w[i]
        BY <1>v, <1>w, <3>3
      <4> QED BY <3>1, <3>3, <4>1
    <3>4. CASE v[1] = w[1] /\ v[3] = w[3] /\ v[5] < w[5]
      <4>1. \A i \in 1..4 : v[i] = w[i]
        BY <1>v, <1>w, <3>4
      <4> QED BY <3>1, <3>4, <4>1
    <3> QED BY <2>2, <3>2, <3>3, <3>4
  <2> QED BY <2>1, <2>2
<1>2. Older(v, w) <=> less
  <2> DEFINE a == Numbers(v)
             b == Numbers(w)
  <2>1. /\ a[1] = v[1] /\ a[2] = v[3] /\ a[3] = v[5]
        /\ b[1] = w[1] /\ b[2] = w[3] /\ b[3] = w[5]
    BY <1>v, <1>w
  <2>2. Older(v, w) <=> \E k \in 1..3 : (\A i \in 1..(k - 1) : a[i] = b[i]) /\ a[k] < b[k]
    BY DEF Older
  <2> HIDE DEF a, b
  <2>3. (\E k \in 1..3 : (\A i \in 1..(k - 1) : a[i] = b[i]) /\ a[k] < b[k])
          <=> \/ a[1] < b[1]
              \/ a[1] = b[1] /\ a[2] < b[2]
              \/ a[1] = b[1] /\ a[2] = b[2] /\ a[3] < b[3]
    OBVIOUS
  <2> QED BY <2>1, <2>2, <2>3
<1> QED BY <1>1, <1>2

\* What is loaded was not too new for the core that runs.
ReleaseInv ==
  /\ coreVersion \in Seq(Dot..9)
  /\ modules \in Seq(Declared)
  /\ \A i \in 1..Len(modules) : ~TooNew(modules[i])

\* A start empties the list, and within a run the core stays the same.
LEMMA ReleaseStep == ReleaseInv /\ [RegistryNext]_registryVars => ReleaseInv'
<1> SUFFICES ASSUME ReleaseInv, [RegistryNext]_registryVars
             PROVE  ReleaseInv'
  OBVIOUS
<1>1. ASSUME UNCHANGED registryVars
      PROVE  ReleaseInv'
  BY <1>1 DEF registryVars, ReleaseInv, TooNew
<1>2. ASSUME NewRegistry
      PROVE  ReleaseInv'
  <2>1. modules' = << >> /\ coreVersion' \in Seq(Dot..9)
    BY <1>2, RegistryAssumption DEF NewRegistry
  <2>2. modules' \in Seq(Declared) /\ Len(modules') = 0
    BY <2>1
  <2> QED BY <2>1, <2>2 DEF ReleaseInv
<1>3. ASSUME NEW m \in Declared, Load(m)
      PROVE  ReleaseInv'
  <2>1. /\ modules' = Append(modules, m) /\ coreVersion' = coreVersion
        /\ ~StringLess(coreVersion, m.minCore)
    BY <1>3 DEF Load, TooNew
  <2>2. /\ modules' \in Seq(Declared) /\ Len(modules') = Len(modules) + 1
        /\ modules'[Len(modules) + 1] = m
        /\ \A i \in 1..Len(modules) : modules'[i] = modules[i]
        /\ Len(modules) \in Nat
    BY <2>1 DEF ReleaseInv
  <2>3. \A i \in 1..Len(modules') : ~StringLess(coreVersion, modules'[i].minCore)
    BY <2>1, <2>2 DEF ReleaseInv, TooNew
  <2> QED BY <2>1, <2>2, <2>3 DEF ReleaseInv, TooNew
<1>4. ASSUME NEW m \in Declared, Register(m)
      PROVE  ReleaseInv'
  BY <1>1, <1>3, <1>4 DEF Register, Skip
<1> QED BY <1>1, <1>2, <1>4 DEF RegistryNext

\* No core loads a module that needs a newer one, and none refuses a module for
\* its release that is new enough, as long as versions are three one-digit
\* numbers, compared as the strings they are (modules/mod.rs:75-89).
THEOREM OldCoresSkipModules == RegistrySpec => []OldCoresSkip
<1>1. RegistryInit => ReleaseInv
  <2> SUFFICES ASSUME RegistryInit
               PROVE  ReleaseInv
    OBVIOUS
  <2>1. modules = << >> /\ coreVersion \in Seq(Dot..9)
    BY RegistryAssumption DEF RegistryInit
  <2>2. modules \in Seq(Declared) /\ Len(modules) = 0
    BY <2>1
  <2> QED BY <2>1, <2>2 DEF ReleaseInv
<1>2. ReleaseInv => OldCoresSkip
  <2> SUFFICES ASSUME ReleaseInv, NEW m \in Declared,
                      OneDigitEach(m.minCore), OneDigitEach(coreVersion)
               PROVE  IF Older(coreVersion, m.minCore) THEN ~Contains(modules, m)
                      ELSE Contains(modules, m) \/ TakesClaimedBit(m) \/ ~TooNew(m)
    BY DEF OldCoresSkip
  <2>1. coreVersion \in Versions /\ m.minCore \in Versions
    BY RegistryAssumption DEF ReleaseInv, Versions
  <2>2. TooNew(m) <=> Older(coreVersion, m.minCore)
    BY <2>1, StringOrderIsVersionOrder DEF TooNew
  <2>3. Contains(modules, m) => ~TooNew(m)
    BY DEF Contains, ReleaseInv
  <2> QED BY <2>2, <2>3
<1> QED BY <1>1, <1>2, ReleaseStep, PTL DEF RegistrySpec
==============================================================================
