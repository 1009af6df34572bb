------------------------------- MODULE AntiAbuse -------------------------------
(***************************************************************************)
(* The anti-abuse limiter: the device ids a certificate was used with, and *)
(* how often it was restored today.  It is built at startup and handed to  *)
(* every module with CoreState; no handler of the server consults it.  One *)
(* action is one call, under the limiter's lock.  The router's clock is    *)
(* set from outside and may go back.                                       *)
(***************************************************************************)
EXTENDS Integers, FiniteSets

CONSTANTS
  Holder,    \* certificates
  Device,    \* device ids; a call without one counts as the device "unknown"
  MaxDate,   \* bound: dates the clock can show
  MaxVisits  \* bound: times the clock comes to one date

ASSUME LimiterAssumption == MaxDate \in Nat \ {0} /\ MaxVisits \in Nat

MaxRestorePerDay == 2

Today == 1..MaxDate

VARIABLES
  knownDevices, restoreCount, lastResetDate,
  today,      \* the clock
  flagged,    \* history: how often each device id was reported for each holder
  given,      \* history: restores given to each holder on each date
  visits      \* history: how often the clock has come to each date

limiterState   == <<knownDevices, restoreCount, lastResetDate>>
limiterHistory == <<flagged, given, visits>>
limiterVars    == <<limiterState, limiterHistory, today>>

------------------------------------------------------------------------------
(* check_reuse *)

\* Mutant: every call is reported once there are two device ids.
Suspicious(c, d) == Cardinality(knownDevices[c] \cup {d}) >= 2

ConcurrentUse(c, d) ==
  d \notin knownDevices[c] /\ Cardinality(knownDevices[c] \cup {d}) >= 2

CheckReuse(c, d) ==
  /\ knownDevices' = [knownDevices EXCEPT ![c] = @ \cup {d}]
  /\ flagged' = [flagged EXCEPT ![c][d] = IF ConcurrentUse(c, d) THEN @ + 1 ELSE @]
  /\ UNCHANGED <<restoreCount, lastResetDate, today, given, visits>>

------------------------------------------------------------------------------
(* try_restore *)

NoRestores == [c \in Holder |-> 0]

\* Mutant: the counters are cleared only when the date has moved on.
CountsIfLater == IF lastResetDate < today THEN NoRestores ELSE restoreCount

\* maybe_reset_date: the counters as the call finds them.
Counts == IF lastResetDate # today THEN NoRestores ELSE restoreCount

\* Mutant: the limit is what may not be passed.
ExceededAfter(c) == Counts[c] > MaxRestorePerDay

Exceeded(c) == Counts[c] >= MaxRestorePerDay

GiveRestore(c, isRoot) ==
  /\ isRoot \/ ~Exceeded(c)
  /\ lastResetDate' = today
  /\ IF isRoot
       THEN restoreCount' = Counts /\ UNCHANGED given
       ELSE /\ restoreCount' = [Counts EXCEPT ![c] = @ + 1]
            /\ given' = [given EXCEPT ![c][today] = @ + 1]
  /\ UNCHANGED <<knownDevices, today, flagged, visits>>

RefuseRestore(c) ==
  /\ Exceeded(c)
  /\ lastResetDate' = today
  /\ restoreCount' = Counts
  /\ UNCHANGED <<knownDevices, today, limiterHistory>>

------------------------------------------------------------------------------

SetClock ==
  \E d \in Today \ {today} :
    /\ visits[d] < MaxVisits
    /\ today' = d
    /\ visits' = [visits EXCEPT ![d] = @ + 1]
    /\ UNCHANGED <<limiterState, flagged, given>>

LimiterInit ==
  /\ knownDevices = [c \in Holder |-> {}]
  /\ restoreCount = NoRestores
  /\ lastResetDate = 0
  /\ today = 1
  /\ flagged = [c \in Holder |-> [d \in Device |-> 0]]
  /\ given = [c \in Holder |-> [d \in Today |-> 0]]
  /\ visits = [d \in Today |-> IF d = 1 THEN 1 ELSE 0]

LimiterNext ==
  \/ \E c \in Holder, d \in Device : CheckReuse(c, d)
  \/ \E c \in Holder, isRoot \in BOOLEAN : GiveRestore(c, isRoot)
  \/ \E c \in Holder : RefuseRestore(c)
  \/ SetClock

LimiterSpec == LimiterInit /\ [][LimiterNext]_limiterVars

------------------------------------------------------------------------------
(* Properties *)

\* A certificate is restored at most twice for each time the clock comes to a
\* date.  With a clock that never goes back this is the limit of two a day; a
\* clock set back and forth again gives two more.
TwoRestoresPerDate ==
  \A c \in Holder, d \in Today : given[c][d] <= MaxRestorePerDay * visits[d]

\* Nobody is refused for yesterday's restores: whoever would be refused now has
\* used up the limit on the date the clock shows.
RefusalIsDeserved ==
  \A c \in Holder : Exceeded(c) => given[c][today] >= MaxRestorePerDay

\* Of the device ids a certificate was used with, exactly one was accepted in
\* silence and every other one was reported once, a call without an id being one
\* more device: nobody who asks later hears of it again.
EachNewDeviceReportedOnce ==
  \A c \in Holder :
    LET silent == {d \in knownDevices[c] : flagged[c][d] = 0}
    IN  /\ Cardinality(silent) = (IF knownDevices[c] = {} THEN 0 ELSE 1)
        /\ \A d \in knownDevices[c] \ silent : flagged[c][d] = 1
==============================================================================
