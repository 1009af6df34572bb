---------------------------- MODULE Credentials ----------------------------
(***************************************************************************)
(* The manager token on its way from the command that makes it to the      *)
(* server that checks it: the configuration file ~/.policy-gateway/        *)
(* config.toml, the seed.json of first installation, the command line's    *)
(* "init" and "config" commands, each of which loads the file, changes its *)
(* copy and writes it back without a lock, and the service, whose process  *)
(* reads the file only when the first manager request arrives.             *)
(*                                                                         *)
(* A write truncates the file before it fills it; a command may be killed  *)
(* between any two steps, and a write may fail.  One setting, rest, stands *)
(* for every setting but the token.                                        *)
(***************************************************************************)
EXTENDS Integers, FiniteSets

CONSTANTS Shells,       \* the terminals commands are typed in
          Settings,     \* the values of the settings other than the token
          DefaultRest,  \* the compiled default of those settings
          MaxInits,     \* bound: how many times init mints a token
          MaxFaults,    \* bound: kills and failed writes
          MaxCommands   \* bound: commands typed

ASSUME CredentialsAssumption ==
    /\ DefaultRest \in Settings
    /\ {MaxInits, MaxFaults, MaxCommands} \subseteq Nat

VARIABLES
    config,     \* config.toml: missing, emptied, garbled or whole
    seed,       \* seed.json's manager_token, NoToken if missing or cut short
    cmd,        \* shell -> the command it runs
    service,    \* the service: its environment and its process
    minted,     \* how many tokens init has minted
    typed,      \* how many commands were typed (bound)
    want,       \* history: what the saves asked the file to hold
    faults,     \* history: kills, failed writes and saves that drop a token
    announced   \* history: has an init finished?

vars == <<config, seed, cmd, service, minted, typed, want, faults, announced>>

NoToken == 0                 \* the hash of the empty string
Typed   == MaxInits + 1      \* the token an operator types or exports
Token   == NoToken .. Typed
Unread  == -1
Unset   == -1                \* PG_MANAGER_TOKEN is not exported
Unknown == "unknown"         \* nothing is promised about a setting
NoPromise == -1              \* nothing is promised about the token

Setup   == [hash : Token, rest : Settings]
Default == [hash |-> NoToken, rest |-> DefaultRest]
File    == [text : {"none", "empty", "torn", "whole"}, cfg : Setup]
Whole(cfg)     == [text |-> "whole", cfg |-> cfg]
Broken(text)   == [text |-> text, cfg |-> Default]
Wish    == [hash : Token \union {NoPromise}, rest : Settings \union {Unknown}]
Nothing == [hash |-> NoPromise, rest |-> Unknown]

\* PG_* variables of a shell: a field of this record overrides the file's, and
\* PG_MANAGER_TOKEN does so even when it is exported empty.
NoExports == [hash |-> Unset, rest |-> Unknown]
Exports == {NoExports}
             \union {[NoExports EXCEPT !.hash = t] : t \in {NoToken, Typed}}
             \union {[NoExports EXCEPT !.rest = x] : x \in Settings \ {DefaultRest}}

\* A command: an init, before it loads the file, with its environment and the
\* token it minted; then the copy to be written, what is promised of it, and
\* whether it may lack the token: drops, for what was typed, or a stale copy.
Command == [kind : {"none", "init", "edit", "tls", "reset"},
            at : {"start", "seeding", "load", "save", "saving"},
            env : Exports, token : Token,
            cfg : Setup, promise : Wish, drops : BOOLEAN, fresh : BOOLEAN]
NoCommand == [kind |-> "none", at |-> "start", env |-> NoExports,
              token |-> NoToken, cfg |-> Default, promise |-> Nothing,
              drops |-> FALSE, fresh |-> TRUE]

-----------------------------------------------------------------------------
\* What toml::from_str makes of the file: a file cut short misses fields, and
\* one that does not parse leaves the defaults in force.
Parse(file) == IF file.text = "whole" THEN file.cfg ELSE Default

Override(env, cfg) ==
    [hash |-> IF env.hash = Unset THEN cfg.hash ELSE env.hash,
     rest |-> IF env.rest = Unknown THEN cfg.rest ELSE env.rest]

\* Mutant: a command starts from the defaults.
LoadDefaults(env) == Override(env, Default)

Load(env) == Override(env, Parse(config))

\* A copy of the settings after a command: init and an answered prompt set the
\* token, "config tls" and the prompts set settings, reset goes to the defaults.
Changed(kind, token, set, cfg) ==
    IF kind = "reset" THEN Default
    ELSE [hash |-> IF token = NoToken THEN cfg.hash ELSE token,
          rest |-> IF set = Unknown THEN cfg.rest ELSE set]

\* Mutant: the environment goes before the file.
EnvironmentFirst(cfg, env) == IF env # NoToken THEN env ELSE cfg.hash

\* Mutant: the environment is not asked.
FileOnly(cfg, env) == cfg.hash

\* Which token a fresh process holds itself to: the file's, or else the one of
\* its environment.
Adopted(cfg, env) == IF cfg.hash # NoToken THEN cfg.hash ELSE env

\* No command is between its truncation and its write.
Quiet == \A s \in Shells : cmd[s].at # "saving"

\* What a command's copy is promised to hold when it loads the file: what was
\* asked of the file so far, unless a save is under way, and its exports.
Promised(env) == Override(env, IF Quiet THEN want ELSE Nothing)

\* A command that has loaded its copy and changed it.  What is saved between
\* now and its own save is neither in the copy nor in the promise.
Ready(kind, env, token, set) ==
    [NoCommand EXCEPT
        !.kind = kind, !.at = "save",
        !.cfg = Changed(kind, token, set, Load(env)),
        !.promise = Changed(kind, token, set, Promised(env)),
        !.drops = kind = "reset" \/ (env.hash = NoToken /\ token = NoToken),
        !.fresh = Quiet]

\* What the command c writes may lack the token the file has: after a reset,
\* with PG_MANAGER_TOKEN exported empty, or when its copy is out of date.
DropsToken(c) == c.drops \/ ~c.fresh

-----------------------------------------------------------------------------
Init ==
    /\ config = Broken("none")
    /\ seed = NoToken
    /\ cmd = [s \in Shells |-> NoCommand]
    /\ service = [up |-> FALSE, running |-> FALSE, env |-> NoToken,
                  token |-> Unread, owed |-> NoPromise]
    /\ minted = 0
    /\ typed = 0
    /\ want = Default
    /\ faults = 0
    /\ announced = FALSE

\* "policy-gateway config [edit]" with the answers at the prompts, or
\* "config tls enable|disable|edit": the file is loaded first.
BeginConfig(s, kind, token, set, env) ==
    /\ cmd[s].kind = "none"
    /\ typed < MaxCommands
    /\ kind = "tls" => token = NoToken /\ set # Unknown
    /\ cmd' = [cmd EXCEPT ![s] = Ready(kind, env, token, set)]
    /\ typed' = typed + 1
    /\ UNCHANGED <<config, seed, service, minted, want, faults, announced>>

\* "config reset" saves the defaults and looks at nothing.
BeginReset(s) ==
    /\ cmd[s].kind = "none"
    /\ typed < MaxCommands
    /\ cmd' = [cmd EXCEPT ![s] = Ready("reset", NoExports, NoToken, Unknown)]
    /\ typed' = typed + 1
    /\ UNCHANGED <<config, seed, service, minted, want, faults, announced>>

\* "policy-gateway init" mints a token and truncates seed.json.  Nothing in
\* the repository writes the ca.key whose existence would end a second run.
BeginInit(s, env) ==
    /\ cmd[s].kind = "none"
    /\ typed < MaxCommands
    /\ minted < MaxInits
    /\ minted' = minted + 1
    /\ seed' = NoToken
    /\ cmd' = [cmd EXCEPT ![s] = [NoCommand EXCEPT !.kind = "init",
                                                   !.at = "seeding",
                                                   !.token = minted + 1,
                                                   !.env = env]]
    /\ typed' = typed + 1
    /\ UNCHANGED <<config, service, want, faults, announced>>

WriteSeed(s) ==
    /\ cmd[s].at = "seeding"
    /\ seed' = cmd[s].token
    /\ cmd' = [cmd EXCEPT ![s].at = "load"]
    /\ UNCHANGED <<config, service, minted, typed, want, faults, announced>>

\* The write fails (a full disk): init says so and goes on.
SeedFails(s) ==
    /\ cmd[s].at = "seeding"
    /\ faults < MaxFaults
    /\ faults' = faults + 1
    /\ cmd' = [cmd EXCEPT ![s].at = "load"]
    /\ UNCHANGED <<config, seed, service, minted, typed, want, announced>>

InitLoads(s) ==
    /\ cmd[s].at = "load"
    /\ cmd' = [cmd EXCEPT ![s] = Ready("init", cmd[s].env, cmd[s].token,
                                       Unknown)]
    /\ UNCHANGED <<config, seed, service, minted, typed, want, faults,
                   announced>>

\* save() opens config.toml, which empties it.
BeginSave(s) ==
    /\ cmd[s].at = "save"
    /\ config' = Broken("empty")
    /\ cmd' = [x \in Shells |->
                  IF x = s THEN [cmd[s] EXCEPT !.at = "saving"]
                           ELSE [cmd[x] EXCEPT !.fresh = FALSE]]
    /\ UNCHANGED <<seed, service, minted, typed, want, faults, announced>>

Finish(s) ==
    /\ cmd' = [cmd EXCEPT ![s] = NoCommand]
    /\ announced' = (announced \/ cmd[s].kind = "init")

\* save() fills the file.  Where another save wrote after this one emptied the
\* file, its tail may be left behind the new text.
EndSave(s) ==
    /\ cmd[s].at = "saving"
    /\ LET new == Whole(cmd[s].cfg) IN
       IF config.text = "empty"
       THEN config' = new /\ want' = cmd[s].promise
       ELSE /\ config' \in {new, Broken("torn")}
            /\ want' = Nothing
    /\ faults' = IF DropsToken(cmd[s]) THEN faults + 1 ELSE faults
    /\ Finish(s)
    /\ UNCHANGED <<seed, service, minted, typed>>

\* create_dir_all or the opening fails and the file stays as it was, or the
\* writing fails in the emptied file: init, "config tls" and reset print their
\* success all the same (save().ok()).
SaveFails(s) ==
    /\ cmd[s].at \in {"save", "saving"}
    /\ faults < MaxFaults
    /\ faults' = faults + 1
    /\ want' = IF cmd[s].at = "saving" THEN Nothing ELSE want
    /\ Finish(s)
    /\ UNCHANGED <<config, seed, service, minted, typed>>

\* The command is killed, or the router loses power, where it stands.
Killed(s) ==
    /\ cmd[s].kind # "none"
    /\ faults < MaxFaults
    /\ faults' = faults + 1
    /\ cmd' = [cmd EXCEPT ![s] = NoCommand]
    /\ want' = IF cmd[s].at = "saving" THEN Nothing ELSE want
    /\ UNCHANGED <<config, seed, service, minted, typed, announced>>

-----------------------------------------------------------------------------
\* "service policy-gateway start|restart": procd remembers the environment
\* start_service gave it, with the token get_manager_token found.
StartService ==
    /\ service' = [up |-> TRUE, running |-> TRUE, env |-> seed,
                   token |-> Unread, owed |-> NoPromise]
    /\ UNCHANGED <<config, seed, cmd, minted, typed, want, faults, announced>>

StopService ==
    /\ service.up
    /\ service' = [service EXCEPT !.up = FALSE, !.running = FALSE,
                                  !.token = Unread, !.owed = NoPromise]
    /\ UNCHANGED <<config, seed, cmd, minted, typed, want, faults, announced>>

ServerCrashes ==
    /\ service.running
    /\ service' = [service EXCEPT !.running = FALSE, !.token = Unread,
                                  !.owed = NoPromise]
    /\ UNCHANGED <<config, seed, cmd, minted, typed, want, faults, announced>>

\* procd starts the process again with the environment it remembers.
Respawn ==
    /\ service.up /\ ~service.running
    /\ service' = [service EXCEPT !.running = TRUE]
    /\ UNCHANGED <<config, seed, cmd, minted, typed, want, faults, announced>>

\* The first manager request of the process forces MANAGER_TOKEN_HASH, which
\* keeps its value until the process ends.
FirstCheck ==
    /\ service.running
    /\ service.token = Unread
    /\ service' = [service EXCEPT
                      !.token = Adopted(Parse(config), service.env),
                      !.owed = IF Quiet THEN want.hash ELSE NoPromise]
    /\ UNCHANGED <<config, seed, cmd, minted, typed, want, faults, announced>>

-----------------------------------------------------------------------------
Next ==
    \/ \E s \in Shells :
          \/ \E kind \in {"edit", "tls"}, token \in {NoToken, Typed},
                set \in Settings \union {Unknown}, env \in Exports :
                    BeginConfig(s, kind, token, set, env)
          \/ BeginReset(s)
          \/ \E env \in Exports : BeginInit(s, env)
          \/ WriteSeed(s) \/ SeedFails(s) \/ InitLoads(s)
          \/ BeginSave(s) \/ EndSave(s) \/ SaveFails(s) \/ Killed(s)
    \/ StartService \/ StopService
    \/ ServerCrashes \/ Respawn \/ FirstCheck

Spec == Init /\ [][Next]_vars

-----------------------------------------------------------------------------
\* The variables have their types.
TypeOK ==
    /\ config \in File
    /\ seed \in Token
    /\ cmd \in [Shells -> Command]
    /\ service.env \in Token
    /\ service.token \in Token \union {Unread}
    /\ want \in Wish

\* When no save is under way, config.toml holds what the command that saved
\* last loaded, changed as that command was told: every setting it was not told
\* about is as it was when it loaded its copy.  Where commands overlap, the last
\* to save so undoes what the others saved since it loaded, that and no more.
\* Nothing is promised after a write that was cut short, that failed in the
\* emptied file or that ran into another, nor of what a command loaded in the
\* middle of another's write (main.rs 418-484 and 579-585, config.rs 135-194).
FileHoldsWhatWasAsked ==
    Quiet => /\ want.hash # NoPromise => Parse(config).hash = want.hash
             /\ want.rest # Unknown => Parse(config).rest = want.rest

\* Whichever way the process came to run (service start, restart, respawn with
\* an old environment), its first manager request makes it hold to the token
\* the last completed save put in the file, where it put one there: the token
\* of the environment never goes before it (manager.rs 22-35).  The token stays
\* what it was then until the process ends, whatever is saved afterwards.
AnnouncedTokenAdmits ==
    service.token # Unread /\ service.owed \notin {NoPromise, NoToken}
        => service.token = service.owed

\* Once an init has finished, a restart of the service finds a token to hold
\* to, in the file or in the seed, though perhaps an older one than the last
\* announced, unless two things went wrong: of the two copies, one kill, failed
\* write or save that drops the token spoils only one.  A service without a
\* token lets everybody in who sends none (main.rs 540-585, manager.rs 22-40).
TokenOutlivesOneFault ==
    announced /\ faults < 2 /\ (\A s \in Shells : cmd[s].kind = "none")
        => Adopted(Parse(config), seed) # NoToken

=============================================================================
