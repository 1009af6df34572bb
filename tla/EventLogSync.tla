----------------------------- MODULE EventLogSync -----------------------------
(***************************************************************************)
(* Replicas of the event log that exchange their lists.  Each replica      *)
(* numbers its own events from its next_seq; merge() takes the other list  *)
(* in, sorts by sequence number and keeps one event per number.  A list    *)
(* may arrive late and more than once: what is merged is a list the other  *)
(* replica once had, before a restart even.  Nothing in the program calls  *)
(* merge() yet, apart from its unit test.                                  *)
(***************************************************************************)
EXTENDS EventLog, SequencesExt

CONSTANTS
  Replica,
  LogCert,     \* certificates the events are about
  MaxPushes,   \* bound: events pushed altogether
  MaxRestarts  \* bound: restarts of each replica

VARIABLES
  logs,      \* the log of each replica
  handedOut, \* lists of each replica that may arrive, late or twice, or never
  pushes,    \* how many events were pushed
  restarts,  \* how often each replica was started again
  history,   \* history: what was pushed, as long as every push went to the end of it
  forked     \* history: some replica pushed without having all of that

logVars == <<logs, handedOut, pushes, restarts, history, forked>>

------------------------------------------------------------------------------
(* EventLog::merge *)

Seqs(events) == {events[i].seq : i \in DOMAIN events}

\* A stable sort keeps the order of equal numbers, and dedup_by_key the first
\* event of each: the replica's own one, if it has one of that number.
FirstOf(seq, events) ==
  events[Min({i \in DOMAIN events : events[i].seq = seq})]

\* The k-th smallest of a set of numbers.
Nth(k, S) == CHOOSE n \in S : Cardinality({m \in S : m < n}) = k - 1

SortedUnique(events) ==
  [k \in 1..Cardinality(Seqs(events)) |-> FirstOf(Nth(k, Seqs(events)), events)]

\* Mutant: the other replica's event replaces the own one of the same number.
MergeTheirs(log, external) ==
  LET all == SortedUnique(external \o log.events)
  IN  [events |-> all, nextSeq |-> Len(all)]

\* Mutant: the lists are sorted but not de-duplicated.
MergeWithRepeats(log, external) ==
  LET all == SortSeq(log.events \o external, LAMBDA e, f : e.seq < f.seq)
  IN  [events |-> all, nextSeq |-> Len(all)]

Merge(log, external) ==
  LET all == SortedUnique(log.events \o external)
  IN  [events |-> all, nextSeq |-> Len(all)]

------------------------------------------------------------------------------

PushOwn(r) ==
  \E cert \in LogCert, kind \in {"Approved", "Revoked"} :
    /\ pushes < MaxPushes
    /\ logs' = [logs EXCEPT ![r] = Push(@, cert, kind, {})]
    /\ pushes' = pushes + 1
    /\ forked' = (forked \/ logs[r].events # history)
    /\ history' = IF forked' THEN history ELSE logs'[r].events
    /\ UNCHANGED <<handedOut, restarts>>

\* all_events()
HandOut(r) ==
  /\ handedOut' = [handedOut EXCEPT ![r] = @ \cup {logs[r].events}]
  /\ UNCHANGED <<logs, pushes, restarts, history, forked>>

MergeFrom(r, s) ==
  \E external \in handedOut[s] :
    /\ r # s
    /\ logs' = [logs EXCEPT ![r] = Merge(@, external)]
    /\ UNCHANGED <<handedOut, pushes, restarts, history, forked>>

\* The log is in memory only: a replica that is started again has none and numbers
\* from zero, while its lists may still be on their way.
Restart(r) ==
  /\ restarts[r] < MaxRestarts
  /\ logs' = [logs EXCEPT ![r] = EmptyLog]
  /\ restarts' = [restarts EXCEPT ![r] = @ + 1]
  /\ UNCHANGED <<handedOut, pushes, history, forked>>

LogSyncInit ==
  /\ logs = [r \in Replica |-> EmptyLog]
  /\ handedOut = [r \in Replica |-> {}]
  /\ pushes = 0
  /\ restarts = [r \in Replica |-> 0]
  /\ history = << >>
  /\ forked = FALSE

LogSyncNext ==
  \E r \in Replica :
    \/ PushOwn(r) \/ HandOut(r) \/ Restart(r)
    \/ \E s \in Replica : MergeFrom(r, s)

LogSyncSpec == LogSyncInit /\ [][LogSyncNext]_logVars

------------------------------------------------------------------------------
(* Properties *)

\* A log is append-only across merges too: late, repeated or conflicting lists
\* never replace, drop or move an event a replica already has.  Only a restart
\* takes events away, and it takes them all.
LogsOnlyGrow ==
  [][\A r \in Replica :
       restarts'[r] = restarts[r] => IsPrefix(logs[r].events, logs'[r].events)]_logVars

\* There is one history, of which every replica has a beginning and every list
\* on its way is one, whatever is lost, delayed or repeated and whoever restarts,
\* until a replica pushes while it lacks a part of it: a second writer that has
\* not merged, or a writer that was started again and pushes before it has its
\* own events back.
OneHistoryUntilStalePush ==
  ~forked =>
    \A r \in Replica :
      /\ IsPrefix(logs[r].events, history)
      /\ \A list \in handedOut[r] : IsPrefix(list, history)

==============================================================================
