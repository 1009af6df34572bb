# Policy-Gateway: a TLA+ model

Policy-Gateway is a captive portal for a small router. A device signs up with a
certificate, an administrator (or the device itself, for certificates the
gateway's own CA has minted) turns the request into an *active* entry of the
permission table, and the entry's bitmap says what the device may do. This
directory holds the TLA+ modules that model it, the TLC configurations that
check them, and the theorems proved about them with TLAPS.

Paths below are relative to `src/policy-gateway/`.

## 1. Inventory

### The server (`src/`)

| Part | State it keeps | Operations | Modelled in |
|---|---|---|---|
| Permission catalog (`auth.rs:11-71`) | none: a table of 7 bits | which bits a request may name, which an administrator may grant | `PermissionCatalog` |
| Permission table (`auth.rs:118-349`) | `entries` by SHA-256, `pending`: request id to SHA-256 | add_pending, approve, reject, confirm (inlined in its handler), get, get_by_request_id, gc; revoke and restore have no caller in the server | `AuthTable`; all public methods in any order: `TableApi` |
| Event log (`event_log.rs`) | `events`, `next_seq`, in memory only | push, current_state, current_bitmap; merge has no caller | `EventLog`; merge on replicas: `EventLogSync` |
| Store (`store.rs`) | one redb file of entries | init_store, put, iter; get and delete have no caller | `Gateway` (`store`, `db`, `Put`, `Restored`) |
| HTTP handlers (`api/signup.rs`, `api/manager.rs`, `api/confirm.rs`) | the table lock, while they run | sign up (CSR, public key, own certificate), approve, reject, confirm | `Gateway` |
| Collector (`main.rs:289-299`) | an hourly interval | one `gc()` per tick | `Gateway` (`Collect`, `Tick`) |
| Startup (`main.rs:84-299`) | none | open the database, restore, seed an empty table, start the collector | `Gateway` (`Start`) |
| Queries (`api/status.rs`, `api/permissions.rs`, pending list) | none | read the table | `FoundByRequestId`, `StatusAnswer`, `ListPending` |
| Event stream (`api/events.rs`) | broadcast channel of 256 messages | subscribe, forward, skip what was lost | `EventStream` |
| Module registry (`modules/mod.rs`) | loaded modules, claimed bits | register, active and locked bits | `ModuleRegistry` |
| Anti-abuse (`anti_abuse.rs`) | device ids by certificate, restores per day | check_reuse, try_restore; no handler calls them | `AntiAbuse` |
| nftables (`nft.rs`) | kernel tables | deploy, cleanup (no caller) | `NftTables`, `Node` |
| Process life (`main.rs:52-81`, `306-356`) | two pid files, the bound port | serve, stop | `Node` |
| Conflict rules (`api/sync.rs`) | none | resolve_conflict (no caller) | `SyncConflict` |
| Push loop (`modules/worker_sync`) | its place in an exchange | tick, connect, handshake, write, read | `WorkerSync` |
| Configuration and manager token (`config.rs`, `manager.rs:21-40`, `main.rs:384-616`) | `config.toml`, `seed.json`, the token read at the first request | load, environment overrides, edit, save; init, config, reset | `Credentials` |
| Recovery (`recovery.rs`), TLS and CA (`tls.rs`), pages, help, translations | keys | cryptography, encodings, text | left out, see section 8 |

### Beside the server

| Part | State | Modelled in |
|---|---|---|
| Version manager (`vm/src/main.rs`) | program file, snapshots, watchdog, record of the last hot update | `VersionManager`; the maintenance window is planned |
| Worker (`worker/vm-worker/index.ts`) | key-value store: snapshot name, recovery hash, sync inbox | `WorkerSync`, without the snapshot name |
| `deploy/policy-gateway.init`, `deploy/pg-nftables.sh` | what procd remembers | `Credentials` (start, respawn), `Node`, `NftTables` (setup, teardown) |
| `cli/`, `vm-mod/`, the other scripts | none of their own | left out, see section 8 |

### How the parts interact

The server is one process on tokio's `current_thread` runtime. Its parts share
memory behind three locks: a tokio `RwLock` around the table, another around the
event log, a tokio `Mutex` around the database. A handler runs until it awaits;
another task may run there. The table's lock is held across awaits (for the
log's lock and the store's mutex); those two are held only between awaits. The
collector and the handlers meet at the table lock only. The store is written by
approve, reject and confirm, and read once, at startup. Messages of the event
stream are broadcast from within approve, before the log and the store are
written. The registry and the limiter sit beside the table in `CoreState`, behind
locks of their own; no handler asks them anything.

Around the server, processes meet in files and in the kernel without any lock:
the server, `policy-gateway stop`, the init script and `pg-nftables.sh` share the
pid files and the nftables tables; `init`, `config` and the server share
`config.toml` and `seed.json`; the server and the version manager share the
program file. The Worker is reached over the network by the push loop.

### What is hard, and what makes it correct

* **Three copies of one decision.** Approve and reject write the table, then the
  event log, then the database, with an await before each of the last two;
  confirm even lets go of the lock in between. A crash, a failed write, a client
  that hangs up, another handler or the collector may come between any two.
  Correct means: outside of these failures the copies agree, and a restart
  brings back decisions and nothing else.
* **Two maps for one request.** `pending` and `entries` are edited by four
  handlers and the collector. Correct means: an id waits for exactly the entries
  without a decision, one id each.
* **Decisions are final.** Nothing but the collector and a crash may change a
  decided entry: no second decision, no repeated signup.
* **Root's bits.** Four paths set a bitmap and only two filter it. Correct
  means: no path but the preset of a root gives a bit reserved for root.
* **Expiry.** Correct means: what is too old goes, at every pass, after any
  downtime; what the comments promise to keep stays. The second half does not
  hold (section 5).
* **Locks.** Correct means: no handler waits for ever, and the collector gets
  its turn.
* **What others are told.** The event stream is ahead of log and store, forgets
  all but its last messages, and dies with the process; so does the log, and the
  logs of two replicas number independently, from 0 after each start. A client
  that hangs up ends its handler between announcing and logging, or logging and
  storing; a write that fails is ignored. Correct means: the stream orders
  approvals as the log does, and the log lacks of them those whose handler was
  dropped and no other; only a laggard misses a message; a crash makes one
  announced decision wrong, beside those that were never going to be stored; a
  merge never rewrites a replica's past.
* **Leftovers.** A start finds rules, pid files and temporary files of any
  earlier process, whole or half made, and several results are not looked at: of
  the two flushes, of writing and removing the pid files, of the kill. Correct
  means: a start that reports success has made exactly its own rules, and what
  an ignored failure leaves beside them is what was in that table and nothing
  else; a stop that reports success has stopped the server, unless one of two
  named failures came between; nothing torn becomes the program.
* **The token's way.** The manager token is written by one process in two files
  and read lazily by another, which procd restarts with an old environment. The
  commands that write `config.toml` load it, change it and write it back without
  a lock. Correct means: an overlap undoes what was saved between a command's
  load and its save and nothing more; a server holds to the token that was in the
  file at its first manager request; and one mishap does not leave it without a
  token. That last is no lock-out but the opposite: a server without a token
  compares with the hash of the empty string and lets in everybody who sends none
  (`api/manager.rs:32`, `76`, `166`).

`PROJECT.json` lists every hazard at its line, with the properties that would
catch it going wrong.

## 2. Modules

```
PermissionCatalog        bits, filters
  AuthTable              the table's methods, as functions of the table
    Gateway  (+ EventLog)   handlers, collector, store, crashes: the system
      GatewayInvariant      its inductive invariant
        GatewayProofs       theorems (TLAPS)
      GatewayClaims         what comments and messages say and the code does not do
      MCGateway             constants for TLC (extends Claims and Invariant)
PermissionLedger         the abstract promise, instantiated by Gateway

  TableApi               AuthTable's public methods in any order (MCTableApi)

EventLog
  EventLogSync           merge, on replicas ---.
SyncConflict             resolve_conflict -----+-- MCEventLog
EventStream              announce, log, store, hang up, subscribe -'

ModuleRegistry           registration ---.
AntiAbuse                the limiter ----+-- MCServices

NftTables                nft commands as functions of the kernel's tables
  Node                   servers, stop, script, pid files (MCNode)

Credentials              config.toml, seed.json, init, config, the service (MCCredentials)
WorkerSync               the push loop and the Worker (MCWorkerSync)
VersionManager           its commands, one file operation a step (MCVersionManager)
```

`MCEventLog` and `MCServices` put components side by side that share no state; a
behaviour of `MCEventLog` moves one of its three, which loses nothing and keeps
the product small. The theorems about a component are in a module of their own
that extends its modules:

| Proof module | About |
|---|---|
| `GatewayProofs` | `Gateway`, with `GatewayInvariant`, and its refinement of `PermissionLedger` |
| `TableApiProofs` | `TableApi` |
| `EventLogProofs` | `EventLogSync`, `SyncConflict`, `EventStream` |
| `ServicesProofs` | `AntiAbuse`, `ModuleRegistry` |
| `CredentialsProofs` | `Credentials` |
| `VersionManagerProofs` | `VersionManager` |
| `WorkerSyncProofs` | `WorkerSync` |
| `NodeProofs` | `Node`, with `NftTables` |

Some definitions have the form they have because proofs reason about them.
`Nth` numbers a log's events without an operator that the provers cannot expand,
`StreamIsTheLog` compares the stream and the log message by message instead of
selecting the approvals from the log, and the
rules a deployment is to make (`Deployed`) are a bag made of the commands that
make them, so that an interface that is named twice has its rules twice.

`AuthTable`, `EventLog` and `NftTables` are pure: every method is an operator from the state
before the call to the state after it. `Gateway` holds all the variables and
has one action for each stretch of code between two awaits.

### Gateway and the code

| Variable | Code |
|---|---|
| `table` | `CoreState.auth_table` |
| `eventLog` | `CoreState.event_log` |
| `sse` | what `CoreState.event_tx` has broadcast |
| `writer`, `readers` | the state of the `RwLock` around the table |
| `pc`, `job` | where each handler's future is suspended, and its local variables |
| `store`, `db` | the redb file's contents, and which file could be opened: the configured one, `/tmp/auth.redb`, or none |
| `now`, `gcDue` | the wall clock in hours, and the collector's interval |
| `nextRid`, `minted` | UUIDs and CA serials drawn so far |
| `unsaved` | history variable: certificates whose last decision missed the store because the write failed or the client hung up |

| Action | Code |
|---|---|
| `SubmitIssued`, `SubmitSelfSigned`, `RequestDecision` | a request arrives and is validated; a signup mints its certificate and draws its id |
| `CsrLock`, `CsrLog` | `handle_csr`: lock and duplicate check; push `Submitted` and add the entry |
| `AddUnlogged` | `handle_pubkey`, `handle_self_signed`: one step, no event |
| `SignupConflict` | 409 of the three |
| `ApproveLock`, `RejectLock` | `table.approve()` / `table.reject()` and the broadcast |
| `DecideLog`, `DecidePut` | the push to the log; `store::put` and the release of the lock |
| `DecisionRefused` | nothing to grant, unknown id |
| `ConfirmLock`, `ConfirmRead`, `ConfirmPut` | confirm's write lock, its read lock, its `store::put` |
| `ConfirmRefused`, `ConfirmGone` | 404 / 409; the entry vanished between the locks |
| `Disconnect` | hyper drops the handler's future, with its locks, where it is suspended |
| `Collect`, `Tick` | `gc()` under the write lock; the hourly interval |
| `Crash`, `Start` | the process dies; restore, seeding, first tick |

An await whose lock is free usually does not suspend; tokio's cooperative
scheduling may suspend it all the same, so every await is a place where others
may run.

### What is abstracted

Certificates are model values (their SHA-256); the bitmap is the set of its
bits; time is counted in hours with retentions as constants; host names,
hardware ids, MAC addresses, operators and event timestamps are left out, as no
rule of the table or the log reads them. Requests with a bad token or malformed
fields change nothing and are left out. The assumption that the CA mints a fresh
certificate each time, which nobody can bring as a certificate of their own
(`GatewayAssumption`), stands for the serial numbers of `tls.rs` and for the PEM
check of `signup.rs:242-251`, which refuses the CA's own text format.

### VersionManager and the code

`VersionManager` shares nothing with the server but the program file. A command
is a sequence of file operations (`InstallSteps`, `SnapshotSteps`,
`RollbackSteps`, `RecoverSteps`, the bodies of `install_src`, `snapshot`,
`rollback`, `restore`); `Install`, `HotUpdate`, `TakeSnapshot`, `Rollback` and
`AutoRecover` load one into `todo`, `Operate` executes its head. Each operation
says what its failure does: nothing (`let _ =`), the end of the command, or the
removal of the target and the end. `epilogue` is what `hot_update` does after
`install_src` has returned, however it returned. A copy takes two steps, as
`std::fs::copy` truncates its target before it writes: in between, and after a
death or a failure there, the target holds `Torn`. A rename is one step. `Kill`
and `Reboot` may come between any two operations; a reboot empties `/tmp`, and
with it the watchdog file. `disk` maps each file to the build it holds; hashes
are left out because `sha256_file` compares them with nothing: it fails only
when a file cannot be read, and then nothing has happened yet. Data that power
loss takes from a file whose writing had returned (nothing calls `fsync`) is
left out, as are two invocations at the same time.

### TableApi and the code

Modules are handed the table with `CoreState` and may call its public methods in
any order; `gc_with_rules` with rules of their own is left out.
One action is one call under the lock: `SignUp`, `ApproveCall`, `RejectCall`,
`RemovePendingCall`, `RevokeCall`, `RestoreCall`, `PutCall`, `GetMutCall`,
`GcCall`. What is done with the entry that `get_mut()` hands out is its caller's
choice: `GetMutCall` writes any status and any of the bits that are granted, and
counts as a grant. The caller's other choices (requested bits, times) are left
out: nothing checked here reads the first, and the times would only change when
`gc()` picks the entry. `report` is what the last
`gc()` returned, each entry under the first rule that picked it (`GcReport`);
`granted` is a history variable. `HasBit`, `EffectiveBitmap`, `StatusAnswer` and
`ListPending` are the queries. `Archived` are rows a caller may put, one with a
bit the catalog no longer has.

### EventStream, EventLogSync, SyncConflict and the code

`EventStream` is the part of `handle_approve` that others see: `Decide` takes the
write lock, decides and broadcasts, in one stretch without an await, as
`ApproveLock` does in `Gateway`; `LogDecision` pushes, `StoreDecision` puts and
lets go; a rejection is not announced. `HangUp` is `Gateway`'s `Disconnect`: the
handler is dropped, with its lock, while it waits for the log's lock or for the
store's. `StoreDecision` goes on whatever `put` answers: it may have failed, and
without a database (`database` is FALSE) it never stores. `unlogged` and
`unsaved` are history variables: what a dropped handler did not log, what a
dropped handler or an ignored error did not store. A subscriber is a cursor into
what was sent (`broadcast::Receiver`), `Lag` the error of a receiver that was overtaken, which
`filter_map` drops. `sent` keeps every message; only the last `Capacity` can be
read. In `EventLogSync` a replica hands out `all_events()`, and a list once
handed out may be merged late, again, or never. `Restart` empties a replica's
log and its numbering starts at 0 (`main.rs:104`), while its lists may still be on
their way. `history` is what was pushed, as long as every push went to its end;
`forked` says that one did not. `SyncConflict` applies an
accepted event's status, which the code leaves to its future caller; the map
marks that part external.

### ModuleRegistry, AntiAbuse and the code

`Register` is `register`, with its two early returns (`TooNew`,
`TakesClaimedBit`); a version is the sequence of its characters and compares as
`&str` does. `CheckReuse`, `GiveRestore` and `RefuseRestore` are the limiter's
methods, `Counts` is `maybe_reset_date`. `SetClock` moves the date either way;
`flagged`, `given` and `visits` are history variables.

### WorkerSync and the code

`loop` is where the push loop is suspended (`Tick`, `Connect`, `Handshake`,
`Write`, `Read`, and `GiveUp` for the error returns). The Worker's endpoints are
one action each (`Push`, `SetUpCode`, `VerifyCode`), as one request runs without
interruption between its key-value operations on one key. Codes and salts are
sequences of characters, and a digest is the two joined with nothing between them,
as `index.ts:64` and `79` digest `pin + salt`; that SHA-256 tells two strings apart
is assumed, and nothing else about it. A code may be a JSON number, which has no
`length` and passes the check of `index.ts:56` however short it is: `Number` has
those, by their digits. `Deploy` changes the environment's salt.

### NftTables, Node and the code

A table is the set of its objects and the bag of its chain's rules.
`DeploySteps`, `SetupSteps` and `TeardownSteps` are the nft commands in the order
of `deploy_with_interfaces` and `pg-nftables.sh`; `Possible` says which fail on
which kernel state (adding what exists is overlooked, as in `nft()`). In `Node`
every process has its list of commands to do: `Serve` writes the pid files and
loads it, `DeployCommand` runs its head, `Bind` comes after it and ends the
process if the port is taken. `DeployFails` is an nft whose failure `deploy`
returns; `FlushFails` is one of the two flushes (`nft.rs:44`, `67`), whose failure
is ignored: the deployment goes on upon the rules that are there and may report
success, and `kept` remembers which rules those were. `WritePidFiles` writes each
file or fails to, which leaves it as it was or empty (`main.rs:56-57`). `stop`
reads one file a step and kills (`StopByFile`), then falls back to `killall`
(`StopEnds`); each kill may leave its process running, and a file may stay, and
neither is noticed (`main.rs:66-68`). `Die`, `Reboot` and the script come at any
step. `untouched`, `kept`, `alone`, `unnamed` and `spared` are history variables.

### Credentials and the code

`config` and `seed` are the two files, whole, empty or cut short. A command runs
through `at`: init truncates and writes `seed.json`, loads `config.toml`, and
saves; config loads when it is typed and saves when the prompts are answered. A
save empties the file and fills it in a later step; where two overlap, a tail may
be left behind. A save that cannot open the file leaves it as it was, one that
cannot fill it leaves it empty (`SaveFails`). `env` has the variables exported in
the shell: `PG_MANAGER_TOKEN` is unset, or has a token, or is empty, and an empty
one overrides the file's token with none (`config.rs:158`). `service` is the
process and what procd remembers; `FirstCheck` is the `Lazy` that reads the token. `rest` is one setting standing for all the
others. `want`, `faults`, `announced`, `service.owed` and a command's `promise`,
`drops` and `fresh` are history: what the saves asked the file to hold, how many
mishaps there were, whether an init finished, which token was due when the
process read it; what is promised of the copy a command has loaded, whether it
was told to have no token, and whether nobody has saved since it loaded.
Assumed: the shell and the service have the same `HOME`, and the init script's `jsonfilter` is
there and finds no token in a `seed.json` that was cut short.

## 3. The abstract specification

`PermissionLedger` says what the gateway promises, without tables, ids, locks or
handlers: a certificate is unknown, waiting, active with some bits, or rejected;
it asks, is decided about once, and keeps that standing until it expires or the
service stops; an archive takes down decisions, and a restart may bring back the
archive, the preset roots, or nobody. `Gateway` instantiates it with
`standing` computed from the table and `archive` from the store, and
`ImplementsLedger` says that every step of the gateway is a step of the ledger
or a stutter.

## 4. Runs

| Run | Checks | Bounds |
|---|---|---|
| `gateway_safety` | types; `PendingMatchesEntries`, `NoAdminGranted`, `PutWritesDecision`, `DecisionStored`, `StoreHoldsDecisions`, `LogAgreesOnDecisions`, `NothingOutlivesRetention`; the inductive invariant `IInv`; the action property `FirstDecisionStands` | 2 handlers, 1 minted and 1 self-signed certificate, 2 request ids, 2 hours, 1 raw bitmap for requests and 2 for approvals |
| `gateway_ledger` | `ImplementsLedger` | 2 handlers, 1 minted certificate, 1 preset root, 2 request ids, 1 hour, all three databases |
| `gateway_liveness` | `EveryRequestAnswered`, `CollectorRuns` | 2 handlers, 1 certificate, 1 hour; no symmetry |
| `vm_safety` | `TornOnlyFromTorn`, `ProgramIsTheGoal`, `BackupBeforeReplace` | 2 builds, 1 snapshot name of the operator's beside the program's 5, 3 commands, 2 faults, any number of reboots |
| `table_api` | `QueriesAgree`, `NoBitsWithoutGrant`, `RevokedUntilLifted`, `ReportIsWhatWent` | 2 certificates, 2 request ids, 2 hours, 1 bitmap asked for, 2 granted, 2 archived rows |
| `event_log` | `OneHistoryUntilStalePush`, `LogsOnlyGrow`; `RevocationWinsOverApproval`; `OnlyLaggardsMiss`, `StreamIsTheLog`, `OneLossPerCrash` | 2 replicas, 3 pushes, 1 restart each; all events and statuses; 4 requests, 2 administrators, any number of hang-ups and failed writes, with and without a database, 1 subscriber, a channel of 2 messages, 1 crash |
| `services` | `BitsHaveOneOwner`, `OldCoresSkip`; `TwoRestoresPerDate`, `RefusalIsDeserved`, `EachNewDeviceReportedOnce` | 5 modules, 2 releases; 1 certificate, 3 device ids, 2 dates, each visited twice |
| `worker_sync` | `BatchKeptOrCollided`, `OnlyTheLastCodeAdmits`, `LoopGoesOn` | 2 batches, 2 milliseconds, 4 codes of 1 to 3 characters and a number of 1 digit, 3 salts of 1 or 2 characters; 2 characters, 2 of them the least length of a code |
| `node` | `DeploymentIsExact`, `FilterBeforeRedirect`, `StopFindsTheServer` | 2 processes at a time, 1 monitored interface, any number of starts beside one of these: a script and a crash or reboot; a script and an nft failure; an nft failure and a crash or reboot; a stop, a crash or reboot and a failure of a kill or a pid file |
| `credentials` | `FileHoldsWhatWasAsked`, `AnnouncedTokenAdmits`, `TokenOutlivesOneFault` | 2 terminals, 3 commands, 2 inits, 2 faults, 2 settings, any number of starts, stops and crashes of the service |
| `claim_*` | one claim each (section 5) | as `gateway_safety`, with one bitmap each |

What the runs beside the gateway's show:

* **Table.** `restore()` gives back and never adds; a revocation is lifted by
  nothing but restore, put, a write through `get_mut()`, a new signup or a decision
  on an id that still waits, and that last one is possible; the report of `gc()`
  counts each entry it removes once.
* **Stream and log.** The stream never disagrees with the log on the order of
  approvals. It has approvals the log lacks: the one about to be logged, and those
  whose client hung up in between, exactly. Announced approvals that no database
  has are those whose client hung up, whose write failed, or all of them without a
  database, and one for each crash.
* **Replicas.** All logs are beginnings of one history until somebody pushes
  without having all of it. That is a second writer that has not merged, but also
  a single one that was restarted and pushes before it has merged its own events
  back: from then on the histories differ for good. What each replica has
  only grows, until it is restarted.
* **Limiter and registry.** Dates visited again give two more restores each,
  never more.
* **Push loop and Worker.** The loop survives every error and every answer, but
  not a peer that keeps silent. A code that was set admits under its own salt; under
  another salt of the same length nothing does; under one of another length
  another code may, one that begins the code that was set or begins with it.
* **Rules.** A deployment that reports success and was left alone has made exactly
  the rules of its configuration, whatever it found, but for a table whose flush
  failed: that one keeps all it had, so that its rules are doubled or stale, and
  success is reported. A deployment makes its own redirect only when its filter is
  complete. While it replaces the filter of an earlier start, that start's redirect
  is in force.
* **stop.** When it has returned, the server that was started alone is not up,
  unless a kill failed or that server could write neither pid file while one of
  them has another pid: then `stop` kills that other pid, does without `killall`,
  and reports success.
* **Token.** An overlap of two commands undoes what was saved between the load
  and the save of the later one, and no more. One fault (a kill, a failed write, a
  reset, a save from an outdated copy or under an empty `PG_MANAGER_TOKEN`) never
  costs both copies of the token; the copy that is left may be of an older token
  than the last one announced.

Why the bounds are enough: every conflict in the code is between two parties
(two decisions about one id, a signup and a decision, a handler and the
collector), and there are two handlers beside the collector. Two ids are needed
to sign one certificate up twice; two certificates, one of each kind, for the
two ways into the table. `PendingRetention = 0` and `DecidedRetention = 2` with
two hours make entries expire by the 24-hour rules before the 7-day rules, as in
the code, at every place an entry can be in. What is asked for and what is
approved differ, so that a decision shows where its bits are from; both kinds of
raw bitmap contain the admin bit, one of them nothing else. `MaxRequests` and `MaxTime` bound
the ids drawn and the clock; nothing else is bounded. The handlers are
interchangeable and are declared symmetric in the safety runs.

Three commands of the version manager are what it takes for the leftover of one,
interrupted, to reach a third through a second; two faults allow one in each of
two commands. The counters are in `MCVersionManager`, not in the model. The
same reasoning sets the bounds of `node` and `credentials`: a leftover takes one
event and a second one comes on top of it, and a pid that misleads `stop` takes a
crash, a failed write and the `stop`; a third command lets a save based on
an outdated copy be followed by another command. One push before a restart, one
after it and one of the other replica make every kind of divergence, and a list from
before the restart can come back after it. Salts of one and of two characters are
what it takes for two codes to join to one string. Four messages pass a channel of
two twice over. Two releases of three one-digit numbers are all that
`OldCoresSkip` speaks of: its premise leaves out the versions that strings compare
wrongly. A
third visit to a date would only repeat the second.

**Fairness.** `FairSpec` assumes that a task that waits for nothing is run (weak
fairness of `Proceed`), and that a task that waits for the table lock and finds
it free again and again gets it (strong fairness of `Acquire` and `Collect`):
tokio's `RwLock` is a FIFO queue, and the current-thread scheduler runs every
ready task. Clients, crashes, restarts and the clock are not assumed to do
anything. `WorkerSync` assumes weak fairness of `Tick` (tokio's interval) and of
`Write` (whose result is not looked at, and which a full socket buffer cannot
hold up for a request of one line of JSON); nothing of `Connect`, `Handshake` and
`Read`, for a peer may keep each of them waiting, and nothing of the Worker.

**Deadlock** is checked in every run; the system never stops, as a process can
always crash and start, a router reboot, a replica hand out its log, a limiter
be asked.

## 5. Where the code and its documentation disagree

Two are definitions of `GatewayClaims` that quote their source, each with a run
that shows the behaviour.

| Claim | Where it is made | What happens |
|---|---|---|
| `ActiveNeverCollected` | `auth.rs:291`: active entries are never deleted (also the test `test_gc_never_removes_active`, `auth.rs:509`) | the rule never-seen drops them after 24 hours: nothing sets `last_seen` |
| `ConfirmedIsUsable` | `api/confirm.rs:86`: the certificate is confirmed and can be used | the collector may drop the entry between confirm's two locks |

Others are plain from the code, or were met while modelling it, and have no run:

* **Table and log.** Rejected entries go after 24 hours as well (`auth.rs:289`
  says 7 days). A status query by id finds nothing once the request is decided
  (`api/help.rs:82`: refresh it until it says active). Confirmations and two of
  the three signups push no event, so replaying the log does not give the table
  (`event_log.rs:4`), and the log is in memory only (`event_log.rs:7`: persisted
  as soon as it is written). Two replicas that both write keep different
  histories after merging both ways (`event_log.rs:9`: consistent), and so do
  two of which one writes, is started again, and writes before it has its own
  events back: a merge keeps the own event of a number and drops the other one.
  Nothing in the server calls `merge`.
* **Restart.** Preset roots are seeded into an empty table only and are never
  stored: a restart that restores any decision has no roots (`main.rs:233`); the
  ledger allows it. `Database::open` does not create its file, so a fresh
  installation runs without a database, `put` answers Ok, and every decision is
  gone at the next start (`store.rs:20`). Where a write fails or the client hangs
  up between the table and the store, the administrator has been answered
  'approved', or is not there to be answered, and the database does not know
  (`manager.rs:204`); a subscriber has been told of an approval the log may never
  have.
* **Conflict rules.** A reject or a signup replaces a revocation, after which an
  approve is accepted (`api/sync.rs:14`, `98`: revoke always wins).
  `RevocationWinsOverApproval` leaves both out, so it does not cover this.
* **Version manager.** Install and rollback copy straight onto four of the
  snapshots (`vm/src/main.rs:4`: temp file and rename); every install overwrites
  last-good (`vm/src/main.rs:7`: never overwritten automatically); the hash of a
  snapshot is compared with nothing, so the automatic recovery puts a torn
  last-good over a whole program (`vm/src/main.rs:5`: a damaged one is not
  restored); a rollback to pre-rollback overwrites that snapshot first and says
  it went back (`vm/src/main.rs:235`); a hot update is recorded and reported as
  finished when its installation failed (`vm/src/main.rs:369-384`). The watchdog
  file is in `/tmp`, so that after a reboot the first start without arguments
  restores last-good over the program, with no backup (`vm/src/main.rs:44`); and
  as an install makes its build last-good before it has ever run, the recovery of
  a broken build restores the broken build (`vm/src/main.rs:145`). The three
  properties exempt the snapshots that are copied over in place, the rollback to
  pre-rollback, and what a restored torn snapshot does to the program.
* **nftables.** A flush that fails is ignored (`nft.rs:44`, `67`): the start goes
  on and reports success with doubled or stale rules. While a start replaces the
  filter, an earlier one's redirect is in force. The QUIC drop comes after the accepts, so authorised devices keep
  QUIC, though `main.rs:328` logs that it is blocked. `nft.rs:3` speaks of
  cleanup on drop; `cleanup()` has no caller, so a server that ends leaves its
  policy in force. No code adds an address to the authorised sets (`PLAN.md`
  §12 describes it).
* **Process life.** A server killed by `policy-gateway stop` under procd is
  respawned. A second `serve` overwrites the pid files before it fails to bind;
  `stop` then kills nobody and reports success. So it does when a kill fails, and
  when neither pid file could be written and one of them has an old pid, which it
  signals, whoever has it now (`main.rs:56-57`, `66-68`). `install.sh:24` installs to
  `/usr/sbin`, the init script starts `/usr/bin/policy-gateway`.
* **Registry and limiter.** Versions compare as strings: 0.10.0 is older than
  0.3.6, and 0.3 older than 0.3.0; `OldCoresSkip` leaves these out. Locked bits are
  granted all the same, the storage bits without storage-more among them, as no
  handler asks the registry (`modules/mod.rs:113`).
  `restore_count()` does not reset the date, so it answers yesterday's count.
* **Configuration.** A server without a token, in the file and in its environment,
  is open to everybody who sends none (`unwrap_or("")`, `api/manager.rs:32`, `76`,
  `166`). A `PG_MANAGER_TOKEN` that is exported but empty takes the file's token
  away, for good with the next save (`config.rs:158`). The token is read once, so
  a running server that has read it knows nothing of a new one, and after a fault
  the token that is left may be an older one than `init` announced. Two commands
  at once undo each other's settings. `init`, `config tls` and `config reset`
  report success when the save failed (`save().ok()`). A `config.toml` that does not parse is
  silently replaced by the defaults, and the next command writes them back.
  `PG_*` variables of the shell become permanent with the next save. A
  `MANAGER_TOKEN` that is set but empty disables the `seed.json` of the service.
  Nothing writes the `ca.key` whose existence is to end a second `init`, so each
  run mints a new token (and a root the server loads only into an empty table).
* **Push loop.** No timeout anywhere: a peer that accepts the connection and says
  nothing stops the loop for good; an interval of 0 panics the task; the
  router's pushes carry no events and it pulls none.
* **Worker.** Of two batches of one millisecond the first is lost though it was
  acknowledged (`index.ts:95`). Code and salt are digested with nothing between
  them (`index.ts:64`, `79`): after a change to a salt of another length another
  code can be admitted. A code sent as a number passes the check of its length
  (`index.ts:56`).
* **TLS.** The CA key is made anew at every start (`tls.rs:4`: generated at the
  first one and stored encrypted).

## 6. What is proved

Every invariant and every action property that a run checks is proved as well,
and so is the refinement of the ledger: the runs show them on small instances,
the theorems for every value of the constants, that is for any numbers of
handlers, certificates, requests, hours, administrators, subscribers, replicas,
terminals, builds, processes and interfaces, and for every bound. The theorems
assume only the named assumptions of the modules, which say of which types the
constants are, with one of substance, `GatewayAssumption` (section 2: the CA's
certificates are new).

All the proofs have one shape. The property is not inductive as it stands; a
named invariant that is stronger holds initially and survives each action, one
lemma per action or per conjunct; the property follows from it.

### The gateway (`GatewayProofs`)

| Theorem | States |
|---|---|
| `CoreInvariance`, `Invariance` | `[]CoreInv`, `[]IInv` |
| `TypeCorrect` | `[]TypeOK` |
| `PendingAgreement` | `[]PendingMatchesEntries` |
| `DecisionsReachTheStore` | `[]PutWritesDecision` |
| `DecisionsAreStored` | `[]DecisionStored` |
| `OnlyDecisionsStored` | `[]StoreHoldsDecisions` |
| `LogAgreement` | `[]LogAgreesOnDecisions` |
| `AdminIsPreset` | `[]NoAdminGranted` |
| `FirstDecisionIsFinal` | `FirstDecisionStands` |
| `RetentionBound` | `[]NothingOutlivesRetention` |
| `GatewayImplementsLedger` | `ImplementsLedger` |

**`CoreInv`.** That a confirming handler finds the entry it decided about
(`PutWritesDecision`) needs to know that it holds the read lock and that writers
exclude readers (`LockInv`); that the entry it finds *before* it has the read lock
is still the one it confirmed (`ConfirmInv`), because the certificate is a minted
one (`EntryInv`: only those are ever `PendingConfirm`) and no signup in flight
carries it (`FreshInv`). That an id and its entry agree (`PendingMatchesEntries`)
needs the id a handler is about to enter to be new (`FreshInv`), and the
certificate of a signup past its duplicate check to be absent still (`JobInv`,
with `LockInv`). That nothing undecided is stored (`StoreInv`) needs
`PutWritesDecision`. The proof has a lemma for what each table operator does to the
two maps, a lemma for the shape of every step (which variables it may change, and
how), and one lemma per conjunct that goes through the actions that can disturb
it. `FirstDecisionIsFinal` and `RetentionBound` follow from `CoreInv` and the
shape of a step.

**`IInv`: the three copies of a decision.** That the store has what the table
decided (`DecisionStored`) once the handler is through is inductive over
`CoreInv`: a decided entry never changes, so what `PutWritesDecision` finds is what
was decided. That the log agrees (`LogAgreesOnDecisions`) needs more, as confirm
decides without logging, and a decision is in the table before it is in the log.
`DecidingInv`: what a handler is about to log is what the table holds, and nobody
confirms that certificate meanwhile. `LogInv`: what has been logged and not stored
yet agrees with the table; and a minted certificate whose decision is logged
neither waits nor is being confirmed any more, so that no later confirmation
contradicts the log.

**The refinement.** Under the mapping `standing`, `archive` each action is the
ledger's action or a stutter: entering a signup is `Ask` (the duplicate check
makes the certificate unknown), `ApproveLock`, `RejectLock` and `ConfirmLock` are
`Settle` (`PendingMatchesEntries`: what an id names waits), `DecidePut` and
`ConfirmPut` are `Record` (`PutWritesDecision`: what they store is a decision that
stands), a collection is `Expire`, `Crash` is `Stop`, `Start` is `Resume`
(the table becomes the archive, the roots, or empty). `CoreInv` is all it needs.

### The modules around the gateway

| Theorem | States | Rests on |
|---|---|---|
| `TableApiProofs!BitsAreGranted` | `[]NoBitsWithoutGrant` | `TableApiAssumption` |
| `TableApiProofs!QueriesAreConsistent` | `[]QueriesAgree` | `TableApiAssumption` |
| `TableApiProofs!RevocationsStand` | `RevokedUntilLifted` | `TableApiAssumption` |
| `TableApiProofs!ReportIsExact` | `ReportIsWhatWent` | `TableApiAssumption` |
| `EventLogProofs!RevocationWins` | `[]RevocationWinsOverApproval` | nothing |
| `EventLogProofs!AtMostOneLossPerCrash` | `[]OneLossPerCrash` | `StreamAssumption` |
| `EventLogProofs!SubscribersMissByLagging` | `[]OnlyLaggardsMiss` | `StreamAssumption` |
| `EventLogProofs!StreamAndLogAgree` | `[]StreamIsTheLog` | `StreamAssumption` |
| `EventLogProofs!MergeOnlyAppends` | `LogsOnlyGrow` | nothing |
| `EventLogProofs!OneHistory` | `[]OneHistoryUntilStalePush` | nothing |
| `WorkerSyncProofs!BatchesAreKept` | `[]BatchKeptOrCollided` | `WorkerAssumption` |
| `WorkerSyncProofs!LastCodeAdmits` | `[]OnlyTheLastCodeAdmits` | `WorkerAssumption` |
| `ServicesProofs!DailyLimit` | `[]TwoRestoresPerDate` | `LimiterAssumption` |
| `ServicesProofs!RefusalsAreDeserved` | `[]RefusalIsDeserved` | `LimiterAssumption` |
| `ServicesProofs!OneReportPerDevice` | `[]EachNewDeviceReportedOnce` | `LimiterAssumption` |
| `ServicesProofs!OneOwnerPerBit` | `[]BitsHaveOneOwner` | `RegistryAssumption` |
| `ServicesProofs!OldCoresSkipModules` | `[]OldCoresSkip` | `RegistryAssumption` |

The strengthening each proof needs:

* **TableApi** (`TableInv`): an id that waits names a certificate with an entry,
  and an entry's bits are within its last grant, *whatever its status*. A revoked
  or rejected entry keeps its bits, so the property for active entries alone would
  not survive `restore()`; a write through `get_mut()` sets both and keeps that.
  The action properties follow from `TableInv` and one
  lemma per method.
* **EventStream** (`WorkInv`, `LossInv`): at most one handler is between its lock
  and its store, and what is announced, not stored and not given up (by a hang-up, a
  failed write, or for want of a database) is its request. A crash therefore adds
  at most one such request to the lost ones. This is where holding the table's lock
  across the awaits matters. `FlowInv`: no request is announced twice, what is about
  to be logged is the last message, the logged approvals are the messages but for
  that one and those a hang-up left unlogged, and the two are in one order.
  `ReaderInv`: what a subscriber has received and what passed it by are, together,
  all the numbers from its first message to its cursor.
* **EventLogSync** (`NumberedInv`, `HistoryInv`): event k of a log has number
  k - 1, after a restart too, which is why keeping the own event of a number keeps
  the log's beginning; as long as every push went to the end of the history, every
  log and every list on its way, from before a restart too, is a beginning of it,
  and so is a merge of two of them (`BeginningMerged`).
* **WorkerSync** (`InboxInv`, `CodeInv`): what the inbox has under a key was
  itself acknowledged under that key; the hash that is stored is of the last code
  and its salt, and what was admitted joins to the same string. `JoinedStrings`:
  two pairs of strings that join to one string are the same pair, or have second
  parts of different lengths and one first part begins the other.
* **AntiAbuse** (`RestoreInv`, `DeviceInv`): the counter is that of the date of the
  last reset, not of today. `Account` relates it to what was given on each date and
  how often the clock came there: the visit that is on has its two restores still
  to give, unless the counter counts them already. Of the devices a certificate was
  used with, one was never reported and each of the others once.
* **ModuleRegistry** (`BitsInv`, `ReleaseInv`): the claimed bits are the union of
  their owners' bits, without which nothing says that a bit that is not in the list
  has no owner. `StringOrderIsVersionOrder` is where versions of two or four
  numbers, or of two digits, had to be excluded.
* **SyncConflict**: inductive as it stands.

### The files and the kernel

| Theorem | States | Rests on |
|---|---|---|
| `CredentialsProofs!FileKeepsItsPromises` | `[]FileHoldsWhatWasAsked` | `CredentialsAssumption` |
| `CredentialsProofs!AnnouncedTokenWorks` | `[]AnnouncedTokenAdmits` | `CredentialsAssumption` |
| `CredentialsProofs!OneFaultLeavesAToken` | `[]TokenOutlivesOneFault` | `CredentialsAssumption` |
| `VersionManagerProofs!InstallsWhatWasNamed` | `ProgramIsTheGoal` | `VersionManagerAssumption` |
| `VersionManagerProofs!RenamingNeverTears` | `TornOnlyFromTorn` | `VersionManagerAssumption` |
| `VersionManagerProofs!ReplacedProgramIsSaved` | `BackupBeforeReplace` | `VersionManagerAssumption` |
| `NodeProofs!DeploysExactly` | `[]DeploymentIsExact` | `NodeAssumption` |
| `NodeProofs!FilterComesFirst` | `[]FilterBeforeRedirect` | `NodeAssumption` |
| `NodeProofs!StopStopsTheServer` | `[]StopFindsTheServer` | `NodeAssumption` |

* **Credentials** (`CredInv`). The file: a command that loads its copy while nobody
  is writing loads what was asked of the file so far, and the promise of its copy
  is that, changed as it was told; `CopyInv` carries the promise from the load to
  the save, through whatever others save meanwhile, and the save makes it what is
  asked of the file. So the promise is never withdrawn for an overlap; it says what
  the overlap undoes. The token: it is in two files, and each fault touches one of
  them; `FaultInv` says that both are sound before the first fault (`FileSound`,
  `SeedSound`) and one of them before the second. `FileSound` has to speak of
  copies in memory that will replace the file, not of the file alone, and of no
  copy that is out of date or was told to have no token (`DropsToken`).
* **VersionManager** (`ManagerInv`). What is left of a command is in the order of
  its kind (`InOrder`), which says it without counting: what may follow what. `Ready`
  is what the next operation relies on: the fetch finds the new program where the
  command found it; the rename finds it whole under the temporary name; where
  saving has not failed, the backup is the program still in place. The exception
  of `ProgramIsTheGoal`, a rollback to pre-rollback, is the one command whose
  backup overwrites what it is about to fetch.
* **Node** (`NodeInv`). Nothing relates a list of commands to the tables, so the
  invariant does: a deployment left alone has the last commands of `DeploySteps`
  to go (`OnTheWay`), and the tables are what the commands before them make
  (`DeployedUpTo`), whatever was there when it started; from the flush on the chain
  holds, as a bag, what the flush has kept if it failed, and the rules of the commands
  run so far (`FirstMade`). So each next
  command is possible, an undisturbed deployment fails only with an nft that does,
  and after the last one the tables are the `Outcome` of its configuration and of
  what its flushes have kept. `StopInv`: if the last server was started
  alone and no kill has failed since, whatever runs has its pid in one of the
  files until `stop` has looked at it, or could write neither; and what still runs
  when `stop` ends was spared because of another pid.

Proving showed two places where the model was not what it seemed: an order of
`CASE` arms that TLC follows and TLA+ does not give (`Execute`, `HasBit`, now
conditionals), and version strings of unequal length (`OneDigitEach`).

## 7. Model-checked only

* Liveness (`EveryRequestAnswered`, `CollectorRuns`, `LoopGoesOn`): the proof
  system has no rule for fairness.
* The two claims of section 5, which are refuted by a run each.

`TypeOK` of `Credentials`, `VersionManager` and `Node` is proved, not run: the runs
check the one of the gateway and spend the others' time on what could go wrong.

## 8. Not modelled

* `tls.rs`, `recovery.rs`: cryptography and encodings. What the gateway needs of
  them is `GatewayAssumption`; that the CA is a new one in every process is a
  fact of one line without a behaviour to explore.
* `gc_with_rules` with rules of the caller's own, and writes through `get_mut()`
  to an entry's times and names.
* `lang.rs`, `api/help.rs`, `modules/portal.rs`, HTML pages, `cli/`, `vm-mod/`:
  parsing, text and routing, no state that lives on.
* `config.rs` setting by setting: `Credentials` has the token and one setting
  for the others, which are all loaded, overridden and saved alike.
* The Worker's snapshot switch (`__snapshot`), one value written and read.
* `deploy/install.sh`, `deploy/bootstrap.sh`, `build.sh`: file copies and service
  registration.
* The elements of the nftables sets: nothing in the repository adds one.
* One database file for the life of the model: that the configured file can be
  opened at one start and not at the next is left out.

## 9. Plan

1. `VersionManager`, the rest: the maintenance window, and two invocations at
   once, which share temporary files and snapshots; how far `ProgramIsTheGoal` and
   `BackupBeforeReplace` survive the second invocation.
2. The theorems about `EventLogSync` beyond the fork: what the logs of two
   replicas that have exchanged everything still agree on.
3. The setting-by-setting part of `config.rs`.
