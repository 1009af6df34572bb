-------------------------- MODULE CredentialsProofs --------------------------
(***************************************************************************)
(* Theorems about Credentials, for any number of terminals, any settings   *)
(* and every value of the bounds.                                          *)
(***************************************************************************)
EXTENDS Credentials, TLAPS

------------------------------------------------------------------------------
(* The inductive invariant *)

\* The variables the arguments rest on hold values of their types.
Types ==
  /\ config \in File
  /\ seed \in Token
  /\ cmd \in [Shells -> Command]
  /\ service \in [up : BOOLEAN, running : BOOLEAN, env : Token,
                  token : Token \union {Unread}, owed : Token \union {NoPromise}]
  /\ want \in Wish
  /\ minted \in 0 .. MaxInits
  /\ faults \in Nat
  /\ announced \in BOOLEAN

\* A command has loaded its copy of the file and not written it back yet.
Holds(s) == cmd[s].at \in {"save", "saving"}

\* What a command of each kind carries.
KindInv ==
  \A s \in Shells :
    /\ Holds(s) => cmd[s].kind # "none"
    /\ cmd[s].at = "seeding" \/ cmd[s].at = "load" =>
         cmd[s].kind = "init" /\ cmd[s].token # NoToken
    /\ cmd[s].kind = "init" => minted > 0

\* A command whose copy is up to date is not overtaken: nobody else writes.
FreshInv ==
  \A s, x \in Shells :
    s # x /\ Holds(s) /\ cmd[s].fresh => cmd[x].at # "saving"

\* The settings cfg are what was asked for, as far as anything is promised.
Matches(cfg, wish) ==
  /\ wish.hash # NoPromise => cfg.hash = wish.hash
  /\ wish.rest # Unknown => cfg.rest = wish.rest

\* A command's copy holds what is promised of it.
CopyInv == \A s \in Shells : Holds(s) => Matches(cmd[s].cfg, cmd[s].promise)

\* What the file's agreement with the finished commands rests on.
FileInv == KindInv /\ FreshInv /\ CopyInv /\ FileHoldsWhatWasAsked

\* No fault has touched the file: once an init has finished the file holds a
\* token, and so does every copy that will replace it.
FileSound ==
  /\ announced /\ Quiet => Parse(config).hash # NoToken
  /\ \A s \in Shells :
       Holds(s) /\ ~DropsToken(cmd[s]) /\ (announced \/ cmd[s].kind = "init") =>
         cmd[s].cfg.hash # NoToken
  /\ \A s \in Shells :
       cmd[s].at = "saving" /\ cmd[s].fresh => config.text = "empty"

\* No fault has touched the seed: it holds a token, or an init is writing one.
SeedSound == seed # NoToken \/ \E s \in Shells : cmd[s].at = "seeding"

\* A fault touches one of the two copies.
FaultInv ==
  /\ announced => minted > 0
  /\ faults = 0 => FileSound /\ (minted > 0 => SeedSound)
  /\ faults = 1 => FileSound \/ (minted > 0 => SeedSound)

CredInv ==
  /\ Types
  /\ FileInv
  /\ AnnouncedTokenAdmits
  /\ FaultInv

------------------------------------------------------------------------------
(* Types *)

\* What the exported variables may be.
LEMMA ExportsType ==
  \A env \in Exports : /\ env.hash \in Token \union {Unset}
                       /\ env.rest \in Settings \union {Unknown}
BY CredentialsAssumption DEF Exports, NoExports, Token, Typed, NoToken

\* The tokens that are ever named are tokens.
LEMMA TokenType ==
  /\ NoToken \in Token
  /\ Typed \in Token
  /\ \A n \in 0 .. MaxInits : n < MaxInits => n + 1 \in Token /\ n + 1 # NoToken
BY CredentialsAssumption DEF Token, Typed, NoToken

\* The defaults are settings.
LEMMA DefaultType == Default \in Setup
BY CredentialsAssumption, TokenType DEF Default, Setup

\* What is read from a file, with the exported variables in force, is a
\* configuration.
LEMMA LoadType ==
  ASSUME Types, NEW env \in Exports
  PROVE  /\ Parse(config) \in Setup /\ Load(env) \in Setup
         /\ Promised(env) \in Wish
<1>1. Parse(config) \in Setup
  BY DefaultType DEF Parse, Types, File
<1>2. Load(env) \in Setup
  BY <1>1, ExportsType DEF Load, Override, Setup
<1>3. want \in Wish /\ Nothing \in Wish
  BY DEF Types, Nothing, Wish
<1>4. \A w \in Wish : Override(env, w) \in Wish
  BY ExportsType DEF Override, Wish
<1> QED BY <1>1, <1>2, <1>3, <1>4 DEF Promised

\* A change of settings leaves settings, and of a wish a wish.
LEMMA ChangedType ==
  ASSUME NEW kind, NEW token \in Token, NEW set \in Settings \union {Unknown}
  PROVE  /\ \A cfg \in Setup : Changed(kind, token, set, cfg) \in Setup
         /\ \A wish \in Wish : Changed(kind, token, set, wish) \in Wish
<1>1. Default \in Setup /\ Default \in Wish
  BY DefaultType DEF Default, Setup, Wish
<1> QED BY <1>1 DEF Changed, Setup, Wish

\* The command of an idle terminal.
LEMMA NoCommandType == NoCommand \in Command
<1>1. NoExports \in Exports
  BY DEF Exports
<1> QED BY <1>1, TokenType, DefaultType DEF NoCommand, Command, Nothing, Wish

\* What a command carries when it has loaded its copy.
LEMMA ReadyShape ==
  ASSUME NEW kind, NEW env, NEW token, NEW set
  PROVE  LET c == Ready(kind, env, token, set) IN
         /\ c.kind = kind /\ c.at = "save"
         /\ c.cfg = Changed(kind, token, set, Load(env))
         /\ c.promise = Changed(kind, token, set, Promised(env))
         /\ c.drops = (kind = "reset" \/ (env.hash = NoToken /\ token = NoToken))
         /\ c.fresh = Quiet
BY DEF Ready, NoCommand

\* A command that has loaded its copy is a command.
LEMMA ReadyType ==
  ASSUME Types, NEW kind \in {"init", "edit", "tls", "reset"}, NEW env \in Exports,
         NEW token \in Token, NEW set \in Settings \union {Unknown}
  PROVE  Ready(kind, env, token, set) \in Command
<1> DEFINE cfg == Changed(kind, token, set, Load(env))
           promise == Changed(kind, token, set, Promised(env))
           drops == kind = "reset" \/ (env.hash = NoToken /\ token = NoToken)
<1>1. cfg \in Setup /\ promise \in Wish
  BY ChangedType, LoadType
<1>2. drops \in BOOLEAN /\ Quiet \in BOOLEAN
  BY DEF Quiet
<1>3. Ready(kind, env, token, set) =
        [NoCommand EXCEPT !.kind = kind, !.at = "save", !.cfg = cfg, !.promise = promise,
                          !.drops = drops, !.fresh = Quiet]
  BY DEF Ready
<1> HIDE DEF cfg, promise, drops
<1> QED BY <1>1, <1>2, <1>3, NoCommandType DEF Command

\* Every step keeps the variables in their types.
LEMMA TypesStep ==
  ASSUME Types, KindInv, [Next]_vars
  PROVE  Types'
<1> USE DEF Types
<1>1. ASSUME NEW s \in Shells, NEW kind \in {"edit", "tls"}, NEW token \in {NoToken, Typed},
             NEW set \in Settings \union {Unknown}, NEW env \in Exports,
             BeginConfig(s, kind, token, set, env)
      PROVE  Types'
  <2>1. Ready(kind, env, token, set) \in Command
    BY ReadyType, TokenType
  <2>2. /\ cmd' = [cmd EXCEPT ![s] = Ready(kind, env, token, set)]
        /\ UNCHANGED <<config, seed, service, minted, want, faults, announced>>
    BY <1>1 DEF BeginConfig
  <2> QED BY <2>1, <2>2
<1>2. ASSUME NEW s \in Shells, BeginReset(s)
      PROVE  Types'
  <2>1. NoExports \in Exports
    BY DEF Exports
  <2>2. Ready("reset", NoExports, NoToken, Unknown) \in Command
    BY <2>1, ReadyType, TokenType
  <2>3. /\ cmd' = [cmd EXCEPT ![s] = Ready("reset", NoExports, NoToken, Unknown)]
        /\ UNCHANGED <<config, seed, service, minted, want, faults, announced>>
    BY <1>2 DEF BeginReset
  <2> QED BY <2>2, <2>3
<1>3. ASSUME NEW s \in Shells, NEW env \in Exports, BeginInit(s, env)
      PROVE  Types'
  <2>1. minted \in 0 .. MaxInits /\ minted < MaxInits /\ minted + 1 \in Token
    BY <1>3, TokenType DEF BeginInit
  <2>2. minted + 1 \in 0 .. MaxInits
    BY <2>1, CredentialsAssumption
  <2> QED BY <1>3, <2>1, <2>2, NoCommandType, TokenType DEF BeginInit, Command
<1>4. ASSUME NEW s \in Shells, WriteSeed(s)
      PROVE  Types'
  BY <1>4 DEF WriteSeed, Command
<1>5. ASSUME NEW s \in Shells, SeedFails(s)
      PROVE  Types'
  BY <1>5 DEF SeedFails, Command
<1>6. ASSUME NEW s \in Shells, InitLoads(s)
      PROVE  Types'
  <2>1. cmd[s].env \in Exports /\ cmd[s].token \in Token
    BY DEF Command
  <2>2. Ready("init", cmd[s].env, cmd[s].token, Unknown) \in Command
    BY <2>1, ReadyType
  <2>3. /\ cmd' = [cmd EXCEPT ![s] = Ready("init", cmd[s].env, cmd[s].token, Unknown)]
        /\ UNCHANGED <<config, seed, service, minted, want, faults, announced>>
    BY <1>6 DEF InitLoads
  <2> QED BY <2>2, <2>3
<1>7. ASSUME NEW s \in Shells, BeginSave(s)
      PROVE  Types'
  <2>1. Broken("empty") \in File
    BY DefaultType DEF Broken, File
  <2>2. \A x \in Shells : [cmd[x] EXCEPT !.fresh = FALSE] \in Command
    BY DEF Command
  <2>3. [cmd[s] EXCEPT !.at = "saving"] \in Command
    BY DEF Command
  <2>4. cmd' \in [Shells -> Command]
    BY <1>7, <2>2, <2>3 DEF BeginSave
  <2>5. /\ config' = Broken("empty")
        /\ UNCHANGED <<seed, service, minted, want, faults, announced>>
    BY <1>7 DEF BeginSave
  <2> QED BY <2>1, <2>4, <2>5
<1>8. ASSUME NEW s \in Shells, EndSave(s)
      PROVE  Types'
  <2>1. cmd[s].cfg \in Setup /\ cmd[s].promise \in Wish
    BY DEF Command
  <2>2. config' \in File
    BY <1>8, <2>1, DefaultType DEF EndSave, Whole, Broken, File
  <2>3. want' \in Wish
    BY <1>8, <2>1 DEF EndSave, Wish, Nothing
  <2> QED BY <1>8, <2>2, <2>3, NoCommandType DEF EndSave, Finish
<1>9. ASSUME NEW s \in Shells, SaveFails(s)
      PROVE  Types'
  BY <1>9, NoCommandType DEF SaveFails, Finish, Wish, Nothing
<1>10. ASSUME NEW s \in Shells, Killed(s)
       PROVE  Types'
  BY <1>10, NoCommandType DEF Killed, Wish, Nothing
<1>11. CASE StartService
  BY <1>11 DEF StartService
<1>12. CASE StopService
  BY <1>12 DEF StopService
<1>13. CASE ServerCrashes
  BY <1>13 DEF ServerCrashes
<1>14. CASE Respawn
  BY <1>14 DEF Respawn
<1>15. CASE FirstCheck
  <2>1. Adopted(Parse(config), service.env) \in Token
    BY DefaultType DEF Adopted, Parse, File, Setup
  <2>2. want.hash \in Token \union {NoPromise}
    BY DEF Wish
  <2> QED BY <1>15, <2>1, <2>2 DEF FirstCheck
<1>16. CASE UNCHANGED vars
  BY <1>16 DEF vars
<1> QED
  BY <1>1, <1>2, <1>3, <1>4, <1>5, <1>6, <1>7, <1>8, <1>9, <1>10, <1>11, <1>12, <1>13,
     <1>14, <1>15, <1>16 DEF Next

------------------------------------------------------------------------------
(* What a step does to the commands *)

Step(s) ==
  \/ \E kind \in {"edit", "tls"}, token \in {NoToken, Typed},
        set \in Settings \union {Unknown}, env \in Exports :
       BeginConfig(s, kind, token, set, env)
  \/ BeginReset(s)
  \/ \E env \in Exports : BeginInit(s, env)
  \/ WriteSeed(s) \/ SeedFails(s) \/ InitLoads(s)
  \/ BeginSave(s) \/ EndSave(s) \/ SaveFails(s) \/ Killed(s)

\* The service reads the file and the seed; it changes nothing but itself.
ServiceStep ==
  UNCHANGED <<config, seed, cmd, minted, want, faults, announced>>

\* A step is one of a command, or of the service.
LEMMA StepShape ==
  ASSUME [Next]_vars
  PROVE  (\E s \in Shells : Step(s)) \/ ServiceStep
<1>1. StartService \/ StopService \/ ServerCrashes \/ Respawn \/ FirstCheck \/ UNCHANGED vars
        => ServiceStep
  BY DEF StartService, StopService, ServerCrashes, Respawn, FirstCheck, vars, ServiceStep
<1> QED BY <1>1 DEF Next, Step

\* A command that has ended.
Ends(s) == cmd'[s] = NoCommand

\* A command loads its copy and changes it; an init has minted its token.
Loads(s) ==
  /\ \E kind \in {"init", "edit", "tls", "reset"}, env \in Exports, token \in Token,
        set \in Settings \union {Unknown} :
       /\ cmd'[s] = Ready(kind, env, token, set)
       /\ kind = "init" => cmd[s].kind = "init" /\ token = cmd[s].token
                           /\ cmd[s].at = "load"
  /\ UNCHANGED <<config, want>>

\* A command that has just loaded its copy has not emptied the file.
LEMMA LoadsShape ==
  ASSUME NEW s \in Shells, Loads(s)
  PROVE  cmd'[s].at = "save" /\ cmd'[s].fresh = Quiet
<1>1. PICK kind, env, token, set : cmd'[s] = Ready(kind, env, token, set)
  BY DEF Loads
<1> QED BY <1>1, ReadyShape

\* What the step of a command does to the commands: the others go on as they
\* were, or know that their copies are out of date.
LEMMA CommandShape ==
  ASSUME Types, KindInv, NEW s \in Shells, Step(s)
  PROVE  /\ \A x \in Shells \ {s} :
              cmd'[x] = cmd[x] \/ (BeginSave(s) /\ cmd'[x] = [cmd[x] EXCEPT !.fresh = FALSE])
         /\ \/ Loads(s)
            \/ cmd'[s].at \in {"seeding", "load"} /\ UNCHANGED <<config, want>>
            \/ BeginSave(s) /\ cmd'[s] = [cmd[s] EXCEPT !.at = "saving"]
            \/ Ends(s) /\ (EndSave(s) \/ SaveFails(s) \/ Killed(s))
<1>t. cmd \in [Shells -> Command]
  BY DEF Types
<1>1. ASSUME NEW kind \in {"edit", "tls"}, NEW token \in {NoToken, Typed},
             NEW set \in Settings \union {Unknown}, NEW env \in Exports,
             BeginConfig(s, kind, token, set, env)
      PROVE  (\A x \in Shells \ {s} : cmd'[x] = cmd[x]) /\ Loads(s)
  <2>1. cmd' = [cmd EXCEPT ![s] = Ready(kind, env, token, set)] /\ UNCHANGED <<config, want>>
    BY <1>1 DEF BeginConfig
  <2>2. token \in Token /\ cmd'[s] = Ready(kind, env, token, set)
    BY <1>t, <2>1, TokenType
  <2> QED BY <1>t, <2>1, <2>2 DEF Loads
<1>2. CASE BeginReset(s)
  <2>1. cmd' = [cmd EXCEPT ![s] = Ready("reset", NoExports, NoToken, Unknown)]
        /\ UNCHANGED <<config, want>>
    BY <1>2 DEF BeginReset
  <2>2. NoExports \in Exports /\ cmd'[s] = Ready("reset", NoExports, NoToken, Unknown)
    BY <1>t, <2>1 DEF Exports
  <2>3. (\A x \in Shells \ {s} : cmd'[x] = cmd[x]) /\ Loads(s)
    BY <1>t, <2>1, <2>2, TokenType DEF Loads
  <2> QED BY <2>3
<1>3. ASSUME NEW env \in Exports, BeginInit(s, env)
      PROVE  /\ \A x \in Shells \ {s} : cmd'[x] = cmd[x]
             /\ cmd'[s].at \in {"seeding", "load"} /\ UNCHANGED <<config, want>>
  BY <1>t, <1>3 DEF BeginInit, NoCommand
<1>4. CASE WriteSeed(s) \/ SeedFails(s)
  <2>1. /\ \A x \in Shells \ {s} : cmd'[x] = cmd[x]
        /\ cmd'[s].at \in {"seeding", "load"} /\ UNCHANGED <<config, want>>
    BY <1>t, <1>4 DEF WriteSeed, SeedFails, Command
  <2> QED BY <2>1
<1>5. CASE InitLoads(s)
  <2>1. /\ cmd' = [cmd EXCEPT ![s] = Ready("init", cmd[s].env, cmd[s].token, Unknown)]
        /\ cmd[s].at = "load" /\ UNCHANGED <<config, want>>
    BY <1>5 DEF InitLoads
  <2>2. cmd[s].env \in Exports /\ cmd[s].token \in Token /\ cmd[s].kind = "init"
    BY <1>t, <2>1 DEF Command, KindInv
  <2>3. (\A x \in Shells \ {s} : cmd'[x] = cmd[x]) /\ Loads(s)
    BY <1>t, <2>1, <2>2 DEF Loads
  <2> QED BY <2>3
<1>6. CASE BeginSave(s)
  BY <1>t, <1>6 DEF BeginSave
<1>7. CASE EndSave(s) \/ SaveFails(s) \/ Killed(s)
  <2>1. cmd' = [cmd EXCEPT ![s] = NoCommand]
    BY <1>7 DEF EndSave, SaveFails, Killed, Finish
  <2>2. (\A x \in Shells \ {s} : cmd'[x] = cmd[x]) /\ Ends(s)
    BY <1>t, <2>1 DEF Ends
  <2> QED BY <1>7, <2>2
<1> QED BY <1>1, <1>2, <1>3, <1>4, <1>5, <1>6, <1>7 DEF Step


------------------------------------------------------------------------------
(* The file holds what was asked for *)

\* Tokens are only ever minted.
LEMMA MintedStep ==
  ASSUME Types, [Next]_vars
  PROVE  minted > 0 => minted' > 0
<1>1. ASSUME NEW s \in Shells, Step(s)
      PROVE  minted' = minted \/ minted' = minted + 1
  BY <1>1 DEF Step, BeginConfig, BeginReset, BeginInit, WriteSeed, SeedFails, InitLoads,
     BeginSave, EndSave, SaveFails, Killed
<1> QED BY <1>1, StepShape DEF ServiceStep, Types

\* Every step leaves each command with what its kind carries.
LEMMA KindStep ==
  ASSUME Types, KindInv, [Next]_vars
  PROVE  KindInv'
<1> DEFINE Kind(c, m) ==
             /\ c.at \in {"save", "saving"} => c.kind # "none"
             /\ c.at = "seeding" \/ c.at = "load" => c.kind = "init" /\ c.token # NoToken
             /\ c.kind = "init" => m
<1>m. minted > 0 => minted' > 0
  BY MintedStep
<1>k. \A s \in Shells : Kind(cmd[s], minted > 0)
  BY DEF KindInv, Holds
<1>1. SUFFICES ASSUME NEW x \in Shells
               PROVE  Kind(cmd'[x], minted' > 0)
  BY DEF KindInv, Holds
<1>t. cmd[x] \in Command /\ cmd \in [Shells -> Command]
  BY DEF Types
<1>2. CASE cmd'[x] = cmd[x] \/ cmd'[x] = [cmd[x] EXCEPT !.fresh = FALSE]
  BY <1>m, <1>k, <1>t, <1>2 DEF Command
<1>3. CASE Step(x)
  <2>1. ASSUME NEW kind \in {"edit", "tls"}, NEW token \in {NoToken, Typed},
               NEW set \in Settings \union {Unknown}, NEW env \in Exports,
               BeginConfig(x, kind, token, set, env)
        PROVE  Kind(cmd'[x], minted' > 0)
    <3>1. cmd'[x] = Ready(kind, env, token, set)
      BY <1>t, <2>1 DEF BeginConfig
    <3>2. cmd'[x].kind = kind /\ cmd'[x].at = "save"
      BY <3>1, ReadyShape
    <3> QED BY <3>2
  <2>2. CASE BeginReset(x)
    <3>1. cmd'[x] = Ready("reset", NoExports, NoToken, Unknown)
      BY <1>t, <2>2 DEF BeginReset
    <3>2. cmd'[x].kind = "reset" /\ cmd'[x].at = "save"
      BY <3>1, ReadyShape
    <3> QED BY <3>2
  <2>3. ASSUME NEW env \in Exports, BeginInit(x, env)
        PROVE  Kind(cmd'[x], minted' > 0)
    <3>1. minted \in 0 .. MaxInits /\ minted < MaxInits /\ minted + 1 # NoToken /\ minted' > 0
      BY <2>3, TokenType, CredentialsAssumption DEF BeginInit, Types
    <3> QED BY <1>t, <2>3, <3>1 DEF BeginInit, NoCommand
  <2>4. CASE WriteSeed(x) \/ SeedFails(x)
    BY <1>m, <1>k, <1>t, <2>4 DEF WriteSeed, SeedFails, Command
  <2>5. CASE InitLoads(x)
    <3>1. cmd'[x] = Ready("init", cmd[x].env, cmd[x].token, Unknown) /\ cmd[x].at = "load"
      BY <1>t, <2>5 DEF InitLoads
    <3>2. cmd'[x].kind = "init" /\ cmd'[x].at = "save"
      BY <3>1, ReadyShape
    <3> QED BY <1>m, <1>k, <3>1, <3>2
  <2>6. CASE BeginSave(x)
    <3>1. cmd'[x] = [cmd[x] EXCEPT !.at = "saving"] /\ cmd[x].at = "save"
      BY <1>t, <2>6 DEF BeginSave
    <3> QED BY <1>m, <1>k, <1>t, <3>1 DEF Command
  <2>7. CASE Ends(x)
    BY <2>7 DEF Ends, NoCommand
  <2>8. CASE EndSave(x) \/ SaveFails(x) \/ Killed(x)
    <3>1. Ends(x)
      BY <1>t, <2>8 DEF EndSave, SaveFails, Killed, Finish, Ends
    <3> QED BY <2>7, <3>1
  <2> QED BY <1>3, <2>1, <2>2, <2>3, <2>4, <2>5, <2>6, <2>8 DEF Step
<1>4. ASSUME NEW s \in Shells \ {x}, Step(s)
      PROVE  cmd'[x] = cmd[x] \/ cmd'[x] = [cmd[x] EXCEPT !.fresh = FALSE]
  BY <1>4, CommandShape
<1>5. ServiceStep => cmd' = cmd
  BY DEF ServiceStep
<1> QED BY <1>2, <1>3, <1>4, <1>5, StepShape

\* A command that empties the file makes every other copy out of date.
LEMMA FreshStep ==
  ASSUME Types, KindInv, FreshInv, [Next]_vars
  PROVE  FreshInv'
<1> SUFFICES ASSUME NEW f \in Shells, NEW x \in Shells, f # x,
                    Holds(f)', cmd'[f].fresh
             PROVE  cmd'[x].at # "saving"
  BY DEF FreshInv
<1>t. \A s \in Shells : cmd[s] \in Command
  BY DEF Types
<1>1. CASE ServiceStep
  BY <1>1 DEF ServiceStep, FreshInv, Holds
<1>2. ASSUME NEW s \in Shells, Step(s)
      PROVE  cmd'[x].at # "saving"
  <2>1. CASE s = f
    <3>0. cmd'[x] = cmd[x] \/ cmd'[x] = [cmd[x] EXCEPT !.fresh = FALSE]
      BY <1>2, <2>1, CommandShape
    <3>1. cmd'[x].at = cmd[x].at
      BY <1>t, <3>0 DEF Command
    <3>2. CASE Loads(f)
      <4>1. Quiet
        BY <3>2, LoadsShape
      <4> QED BY <3>1, <4>1 DEF Quiet
    <3>3. CASE BeginSave(f) /\ cmd'[f] = [cmd[f] EXCEPT !.at = "saving"]
      <4>1. Holds(f) /\ cmd[f].fresh
        BY <1>t, <3>3 DEF BeginSave, Holds, Command
      <4> QED BY <3>1, <4>1 DEF FreshInv
    <3>4. ~Ends(f) /\ cmd'[f].at \notin {"seeding", "load"}
      BY DEF Ends, NoCommand, Holds
    <3> QED BY <1>2, <2>1, <3>2, <3>3, <3>4, CommandShape
  <2>2. CASE s # f
    <3>1. cmd'[f] = cmd[f] /\ ~(BeginSave(s) /\ cmd'[f] = [cmd[f] EXCEPT !.fresh = FALSE])
      BY <1>t, <1>2, <2>2, CommandShape DEF Command
    <3>2. Holds(f) /\ cmd[f].fresh
      BY <3>1 DEF Holds
    <3>3. ~BeginSave(s)
      BY <1>t, <2>2, <3>2 DEF BeginSave, Types, Command
    <3>4. CASE s = x
      <4>1. Loads(x) \/ cmd'[x].at \in {"seeding", "load"} \/ Ends(x)
        BY <1>2, <3>3, <3>4, CommandShape
      <4> QED BY <4>1, LoadsShape DEF Ends, NoCommand
    <3>5. CASE s # x
      <4>1. cmd'[x] = cmd[x]
        BY <1>2, <3>3, <3>5, CommandShape
      <4> QED BY <3>2, <4>1 DEF FreshInv
    <3> QED BY <3>4, <3>5
  <2> QED BY <2>1, <2>2
<1> QED BY <1>1, <1>2, StepShape


\* A file that holds what was asked for is loaded with the same promises, the
\* exported variables being promises of their own.
LEMMA MatchesLoaded ==
  ASSUME NEW cfg, NEW wish, NEW env, Matches(cfg, wish)
  PROVE  Matches(Override(env, cfg), Override(env, wish))
BY DEF Matches, Override

\* Settings and promises changed by one command agree as they did before.
LEMMA MatchesChanged ==
  ASSUME NEW cfg, NEW wish, NEW kind, NEW token, NEW set, Matches(cfg, wish)
  PROVE  Matches(Changed(kind, token, set, cfg), Changed(kind, token, set, wish))
BY DEF Matches, Changed

\* What is asked for changes where a save ends, or all promises are off.
LEMMA WantShape ==
  ASSUME NEW s \in Shells, Step(s)
  PROVE  want' = want \/ want' = Nothing \/ EndSave(s)
BY DEF Step, BeginConfig, BeginReset, BeginInit, WriteSeed, SeedFails, InitLoads, BeginSave,
   SaveFails, Killed, Nothing

\* Every step leaves each copy with what was asked for when it was loaded.
LEMMA CopyStep ==
  ASSUME Types, FileInv, [Next]_vars
  PROVE  CopyInv'
<1> SUFFICES ASSUME NEW f \in Shells, Holds(f)'
             PROVE  Matches(cmd'[f].cfg, cmd'[f].promise)
  BY DEF CopyInv
<1>t. \A s \in Shells : cmd[s] \in Command
  BY DEF Types
<1>k. KindInv
  BY DEF FileInv
<1>i. Holds(f) => Matches(cmd[f].cfg, cmd[f].promise)
  BY DEF FileInv, CopyInv
<1>1. CASE ServiceStep
  BY <1>i, <1>1 DEF ServiceStep, Holds
<1>2. ASSUME Loads(f)
      PROVE  Matches(cmd'[f].cfg, cmd'[f].promise)
  <2>1. PICK kind, env, token, set : cmd'[f] = Ready(kind, env, token, set)
    BY <1>2 DEF Loads
  <2>2. Matches(Parse(config), IF Quiet THEN want ELSE Nothing)
    BY DEF FileInv, FileHoldsWhatWasAsked, Matches, Nothing
  <2>3. Matches(Load(env), Promised(env))
    BY <2>2, MatchesLoaded DEF Load, Promised
  <2>4. Matches(Changed(kind, token, set, Load(env)), Changed(kind, token, set, Promised(env)))
    BY <2>3, MatchesChanged
  <2> QED BY <2>1, <2>4, ReadyShape
<1>3. CASE cmd'[f] = [cmd[f] EXCEPT !.at = "saving"] /\ BeginSave(f)
  BY <1>t, <1>i, <1>3 DEF BeginSave, Holds, Command
<1>4. ASSUME NEW s \in Shells \ {f}, Step(s)
      PROVE  Matches(cmd'[f].cfg, cmd'[f].promise)
  <2>1. cmd'[f] = cmd[f] \/ cmd'[f] = [cmd[f] EXCEPT !.fresh = FALSE]
    BY <1>k, <1>4, CommandShape
  <2>2. cmd'[f].cfg = cmd[f].cfg /\ cmd'[f].promise = cmd[f].promise /\ cmd'[f].at = cmd[f].at
    BY <1>t, <2>1 DEF Command
  <2> QED BY <1>i, <2>2 DEF Holds
<1>5. cmd'[f].at \notin {"seeding", "load"} /\ ~Ends(f)
  BY DEF Holds, Ends, NoCommand
<1> QED BY <1>k, <1>1, <1>2, <1>3, <1>4, <1>5, StepShape, CommandShape

\* A command between its truncation and its write ends its save, in one way or
\* another.
LEMMA SavingEnds ==
  ASSUME KindInv, NEW s \in Shells, Step(s), cmd[s].at = "saving"
  PROVE  EndSave(s) \/ SaveFails(s) \/ Killed(s)
BY DEF Step, KindInv, Holds, BeginConfig, BeginReset, BeginInit, WriteSeed, SeedFails, InitLoads,
   BeginSave

\* Saves end in no other way.
LEMMA QuietStep ==
  ASSUME Types, KindInv, NEW s \in Shells, Step(s), Quiet'
  PROVE  \/ Quiet \/ EndSave(s)
         \/ (SaveFails(s) \/ Killed(s)) /\ cmd[s].at = "saving"
<1>1. ASSUME NEW x \in Shells \ {s}
      PROVE  cmd[x].at # "saving"
  <2>1. cmd'[x] = cmd[x] \/ cmd'[x] = [cmd[x] EXCEPT !.fresh = FALSE]
    BY CommandShape
  <2>2. cmd'[x].at = cmd[x].at
    BY <2>1 DEF Types, Command
  <2> QED BY <2>2 DEF Quiet
<1> QED BY <1>1, SavingEnds DEF Quiet

\* The file changes only where it is emptied and where it is filled.
LEMMA ConfigShape ==
  ASSUME NEW s \in Shells, Step(s)
  PROVE  config' = config \/ BeginSave(s) \/ EndSave(s)
BY DEF Step, BeginConfig, BeginReset, BeginInit, WriteSeed, SeedFails, InitLoads,
   SaveFails, Killed

\* Every step leaves the file with what the finished commands asked for.
LEMMA FileStep ==
  ASSUME Types, FileInv, [Next]_vars
  PROVE  FileHoldsWhatWasAsked'
<1> SUFFICES ASSUME Quiet'
             PROVE  Matches(Parse(config'), want')
  BY DEF FileHoldsWhatWasAsked, Matches, Parse
<1>i. Quiet => Matches(Parse(config), want)
  BY DEF FileInv, FileHoldsWhatWasAsked, Matches
<1>n. ASSUME want' = Nothing
      PROVE  Matches(Parse(config'), want')
  BY <1>n DEF Matches, Nothing
<1>1. CASE ServiceStep
  BY <1>i, <1>1 DEF ServiceStep, Quiet
<1>2. ASSUME NEW s \in Shells, Step(s)
      PROVE  Matches(Parse(config'), want')
  <2>1. CASE EndSave(s)
    <3> DEFINE c == cmd[s]
    <3>1. CASE config.text = "empty"
      <4>1. config' = Whole(c.cfg) /\ want' = c.promise /\ c.at = "saving"
        BY <2>1, <3>1 DEF EndSave
      <4>2. Parse(config') = c.cfg
        BY <4>1 DEF Parse, Whole
      <4>3. Matches(c.cfg, c.promise)
        BY <4>1 DEF FileInv, CopyInv, Holds
      <4> QED BY <4>1, <4>2, <4>3
    <3>2. CASE config.text # "empty"
      BY <1>n, <2>1, <3>2 DEF EndSave, Nothing
    <3> QED BY <3>1, <3>2
  <2>2. CASE (SaveFails(s) \/ Killed(s)) /\ cmd[s].at = "saving"
    BY <1>n, <2>2 DEF SaveFails, Killed, Nothing
  <2>3. CASE BeginSave(s)
    <3>1. cmd'[s].at = "saving"
      BY <1>2, <2>3 DEF BeginSave, Types, Command
    <3> QED BY <3>1 DEF Quiet
  <2>4. CASE Quiet /\ ~EndSave(s) /\ ~BeginSave(s)
    <3>1. config' = config
      BY <1>2, <2>4, ConfigShape
    <3> QED BY <1>i, <1>n, <1>2, <2>4, <3>1, WantShape
  <2> QED BY <1>2, <2>1, <2>2, <2>3, <2>4, QuietStep DEF FileInv
<1> QED BY <1>1, <1>2, StepShape

------------------------------------------------------------------------------
(* The token a process holds itself to *)

\* A process reads the file once, when the file holds what was asked for, and
\* keeps what it read until it ends.
LEMMA AnnouncedStep ==
  ASSUME Types, FileInv, AnnouncedTokenAdmits, [Next]_vars
  PROVE  AnnouncedTokenAdmits'
<1>1. ASSUME NEW s \in Shells, Step(s)
      PROVE  service' = service
  BY <1>1 DEF Step, BeginConfig, BeginReset, BeginInit, WriteSeed, SeedFails, InitLoads,
     BeginSave, EndSave, SaveFails, Killed
<1>2. CASE service' = service
  BY <1>2 DEF AnnouncedTokenAdmits
<1>3. CASE StartService \/ StopService \/ ServerCrashes
  <2>1. CASE StartService
    BY <2>1 DEF StartService, AnnouncedTokenAdmits
  <2>2. CASE StopService
    <3>1. service'.token = Unread
      BY <2>2 DEF StopService, Types
    <3> QED BY <3>1 DEF AnnouncedTokenAdmits
  <2>3. CASE ServerCrashes
    <3>1. service'.token = Unread
      BY <2>3 DEF ServerCrashes, Types
    <3> QED BY <3>1 DEF AnnouncedTokenAdmits
  <2> QED BY <1>3, <2>1, <2>2, <2>3
<1>4. CASE Respawn
  <2>1. service'.token = service.token /\ service'.owed = service.owed
    BY <1>4 DEF Respawn, Types
  <2> QED BY <2>1 DEF AnnouncedTokenAdmits
<1>5. CASE FirstCheck
  <2>1. /\ service'.token = Adopted(Parse(config), service.env)
        /\ service'.owed = IF Quiet THEN want.hash ELSE NoPromise
    BY <1>5 DEF FirstCheck, Types
  <2>2. Quiet /\ want.hash # NoPromise => Parse(config).hash = want.hash
    BY DEF FileInv, FileHoldsWhatWasAsked
  <2> QED BY <2>1, <2>2 DEF AnnouncedTokenAdmits, Adopted
<1>6. CASE UNCHANGED vars
  BY <1>2, <1>6 DEF vars
<1> QED BY <1>1, <1>2, <1>3, <1>4, <1>5, <1>6 DEF Next, Step

------------------------------------------------------------------------------
(* One fault spoils one of the two copies *)

\* The ways the copy in the file goes wrong.
FileFault(s) ==
  \/ SaveFails(s)
  \/ Killed(s) /\ cmd[s].at = "saving"
  \/ EndSave(s) /\ DropsToken(cmd[s])

\* The ways the copy in the seed goes wrong.
SeedFault(s) == SeedFails(s) \/ (Killed(s) /\ cmd[s].at = "seeding")

\* No step spoils both copies.
LEMMA OneFaultOneCopy ==
  ASSUME Types, NEW s \in Shells
  PROVE  ~(FileFault(s) /\ SeedFault(s))
BY DEF FileFault, SeedFault, SaveFails, Killed, EndSave, SeedFails

\* Whatever spoils a copy is counted.
LEMMA FaultsCounted ==
  ASSUME Types, NEW s \in Shells, Step(s)
  PROVE  /\ faults' = faults \/ faults' = faults + 1
         /\ FileFault(s) \/ SeedFault(s) => faults' = faults + 1
BY DEF Step, BeginConfig, BeginReset, BeginInit, WriteSeed, SeedFails, InitLoads, BeginSave,
   EndSave, SaveFails, Killed, FileFault, SeedFault, Types

\* The seed is emptied by the init that is about to fill it.
LEMMA SeedStep ==
  ASSUME Types, KindInv, minted > 0 => SeedSound, NEW s \in Shells, Step(s), ~SeedFault(s),
         minted' > 0
  PROVE  SeedSound'
<1>t. cmd \in [Shells -> Command]
  BY DEF Types
<1>1. ASSUME NEW env \in Exports, BeginInit(s, env)
      PROVE  SeedSound'
  BY <1>t, <1>1 DEF BeginInit, NoCommand, SeedSound
<1>2. CASE WriteSeed(s)
  BY <1>2 DEF WriteSeed, KindInv, SeedSound
<1>3. CASE minted' = minted /\ seed' = seed /\ cmd[s].at # "seeding"
  <2>1. \A x \in Shells \ {s} : cmd'[x].at = cmd[x].at
    <3>1. ASSUME NEW x \in Shells \ {s}
          PROVE  cmd'[x].at = cmd[x].at
      <4>1. cmd'[x] = cmd[x] \/ cmd'[x] = [cmd[x] EXCEPT !.fresh = FALSE]
        BY CommandShape
      <4> QED BY <1>t, <4>1 DEF Command
    <3> QED BY <3>1
  <2> QED BY <1>3, <2>1 DEF SeedSound
<1>4. CASE ~WriteSeed(s) /\ ~\E env \in Exports : BeginInit(s, env)
  <2>1. minted' = minted /\ seed' = seed
    BY <1>4 DEF Step, BeginConfig, BeginReset, SeedFails, InitLoads, BeginSave, EndSave,
       SaveFails, Killed
  <2>2. cmd[s].at # "seeding"
    BY <1>4 DEF Step, BeginConfig, BeginReset, SeedFails, InitLoads, BeginSave, EndSave,
       SaveFails, Killed, SeedFault, KindInv
  <2> QED BY <1>3, <2>1, <2>2
<1> QED BY <1>1, <1>2, <1>4

\* A command that mints a token, is told one or starts from one writes one,
\* unless it resets or PG_MANAGER_TOKEN is exported empty.
LEMMA TokenKept ==
  ASSUME NEW kind, NEW env, NEW token, NEW set,
         ~DropsToken(Ready(kind, env, token, set)),
         token # NoToken \/ Parse(config).hash # NoToken
  PROVE  Ready(kind, env, token, set).cfg.hash # NoToken
<1>1. kind # "reset" /\ ~(env.hash = NoToken /\ token = NoToken)
  <2> DEFINE c == Ready(kind, env, token, set)
  <2>1. c.drops = (kind = "reset" \/ (env.hash = NoToken /\ token = NoToken))
    BY ReadyShape
  <2>2. ~c.drops
    BY DEF DropsToken
  <2> HIDE DEF c
  <2> QED BY <2>1, <2>2
<1>2. Ready(kind, env, token, set).cfg = Changed(kind, token, set, Load(env))
  BY ReadyShape
<1>3. Changed(kind, token, set, Load(env)).hash =
        IF token = NoToken THEN Load(env).hash ELSE token
  BY <1>1 DEF Changed
<1>4. token = NoToken => Load(env).hash # NoToken
  BY <1>1 DEF Load, Override
<1> QED BY <1>2, <1>3, <1>4

\* An init is announced where a save ends, well or badly.
LEMMA AnnouncedShape ==
  ASSUME NEW s \in Shells, Step(s)
  PROVE  \/ announced' = announced
         \/ (EndSave(s) \/ SaveFails(s)) /\ announced' = (announced \/ cmd[s].kind = "init")
BY DEF Step, BeginConfig, BeginReset, BeginInit, WriteSeed, SeedFails, InitLoads, BeginSave,
   EndSave, SaveFails, Killed, Finish

\* The file keeps its token, and each up-to-date copy its own, as long as no
\* fault touches it.
LEMMA SoundStep ==
  ASSUME Types, FileInv, FileSound, NEW s \in Shells, Step(s), ~FileFault(s)
  PROVE  FileSound'
<1>t. /\ cmd \in [Shells -> Command]
      /\ \A x \in Shells : cmd[x] \in Command
      /\ \A x \in Shells : cmd'[x] \in Command
  BY TypesStep DEF Types, FileInv, Next, Step
<1>k. KindInv /\ KindInv'
  BY KindStep DEF FileInv, Next, Step
<1>i. ASSUME announced' = announced, config' = config, Quiet' => Quiet
      PROVE  (announced /\ Quiet => Parse(config).hash # NoToken)'
  BY <1>i DEF FileSound, Parse
<1>o. ASSUME NEW x \in Shells \ {s}
      PROVE  \/ cmd'[x] = cmd[x]
             \/ cmd'[x].fresh = FALSE
  <2>1. cmd'[x] = cmd[x] \/ cmd'[x] = [cmd[x] EXCEPT !.fresh = FALSE]
    BY <1>k, CommandShape
  <2> QED BY <1>t, <2>1 DEF Command
<1>1. CASE EndSave(s)
  <2>1. cmd[s].at = "saving" /\ ~DropsToken(cmd[s]) /\ cmd[s].fresh
    BY <1>1 DEF EndSave, FileFault, DropsToken
  <2>2. config' = Whole(cmd[s].cfg)
    BY <1>1, <2>1 DEF EndSave, FileSound
  <2>3. announced' => Parse(config').hash # NoToken
    <3>1. announced' = (announced \/ cmd[s].kind = "init")
      BY <1>1 DEF EndSave, Finish
    <3> QED BY <2>1, <2>2, <3>1 DEF FileSound, Holds, Parse, Whole
  <2>4. \A x \in Shells : ~(Holds(x)' /\ cmd'[x].fresh)
    <3>1. cmd'[s] = NoCommand
      BY <1>t, <1>1 DEF EndSave, Finish
    <3>2. ASSUME NEW x \in Shells \ {s}
          PROVE  ~(Holds(x)' /\ cmd'[x].fresh)
      BY <1>o, <2>1, <3>2 DEF Holds, FileInv, FreshInv
    <3> QED BY <3>1, <3>2 DEF NoCommand, Holds
  <2> QED BY <2>3, <2>4 DEF FileSound, Parse, Holds, DropsToken
<1>2. CASE ~EndSave(s)
  <2>1. announced' = announced
    BY <1>2, AnnouncedShape DEF FileFault
  <2>2. CASE BeginSave(s)
    <3>1. cmd'[s] = [cmd[s] EXCEPT !.at = "saving"] /\ cmd[s].at = "save"
          /\ config' = Broken("empty")
          /\ \A x \in Shells \ {s} : ~cmd'[x].fresh
      BY <1>t, <2>2 DEF BeginSave, Command
    <3>2. ~Quiet'
      BY <1>t, <3>1 DEF Quiet, Command
    <3>3. /\ cmd'[s].kind = cmd[s].kind /\ cmd'[s].cfg = cmd[s].cfg
          /\ DropsToken(cmd'[s]) = DropsToken(cmd[s])
      BY <1>t, <3>1 DEF Command, DropsToken
    <3>4. Holds(s)
      BY <3>1 DEF Holds
    <3>5. ~DropsToken(cmd'[s]) /\ (announced \/ cmd'[s].kind = "init")
            => cmd'[s].cfg.hash # NoToken
      BY <3>3, <3>4 DEF FileSound
    <3>6. config'.text = "empty"
      BY <3>1 DEF Broken
    <3> QED BY <2>1, <3>1, <3>2, <3>5, <3>6 DEF FileSound, Holds, DropsToken
  <2>3. CASE ~BeginSave(s)
    <3>1. config' = config
      BY <1>2, <2>3, ConfigShape
    <3>2. Quiet' => Quiet
      BY <1>2, <1>k, QuietStep DEF FileFault
    <3>3. \A x \in Shells \ {s} : cmd'[x] = cmd[x]
      BY <1>k, <2>3, CommandShape
    <3>4. (announced /\ Quiet => Parse(config).hash # NoToken)'
      BY <1>i, <2>1, <3>1, <3>2
    <3>e. Loads(s) \/ cmd'[s].at \in {"seeding", "load"} \/ cmd'[s].at = "start"
      <4>1. Loads(s) \/ cmd'[s].at \in {"seeding", "load"} \/ Ends(s)
        BY <1>k, <2>3, CommandShape
      <4>2. Ends(s) => cmd'[s].at = "start"
        BY DEF Ends, NoCommand
      <4> QED BY <4>1, <4>2
    <3>5. cmd'[s].at # "saving"
      BY <3>e, LoadsShape
    <3>6. Holds(s)' /\ ~DropsToken(cmd'[s]) /\ (announced \/ cmd'[s].kind = "init")
            => cmd'[s].cfg.hash # NoToken
      <4>1. SUFFICES ASSUME Holds(s)', ~DropsToken(cmd'[s]), announced \/ cmd'[s].kind = "init"
                     PROVE  cmd'[s].cfg.hash # NoToken
        OBVIOUS
      <4>2. Loads(s)
        BY <3>e, <4>1 DEF Holds
      <4>3. PICK kind, env, token, set :
              /\ cmd'[s] = Ready(kind, env, token, set)
              /\ kind = "init" => cmd[s].kind = "init" /\ token = cmd[s].token
                                  /\ cmd[s].at = "load"
        BY <4>2 DEF Loads
      <4>4. Quiet /\ cmd'[s].kind = kind
        BY <4>1, <4>3, ReadyShape DEF DropsToken
      <4>5. kind = "init" => token # NoToken
        BY <1>k, <4>3 DEF KindInv
      <4>6. announced => Parse(config).hash # NoToken
        BY <4>4 DEF FileSound
      <4> QED BY <4>1, <4>3, <4>4, <4>5, <4>6, TokenKept
    <3>7. \A x \in Shells :
            Holds(x)' /\ ~DropsToken(cmd'[x]) /\ (announced \/ cmd'[x].kind = "init")
              => cmd'[x].cfg.hash # NoToken
      BY <3>3, <3>6 DEF FileSound, Holds
    <3>8. \A x \in Shells : cmd'[x].at = "saving" /\ cmd'[x].fresh => config'.text = "empty"
      BY <3>1, <3>3, <3>5 DEF FileSound
    <3> QED BY <2>1, <3>4, <3>7, <3>8 DEF FileSound, Holds
  <2> QED BY <2>2, <2>3
<1> QED BY <1>1, <1>2

\* Every step leaves at least one copy sound until a second fault.
LEMMA FaultStep ==
  ASSUME Types, FileInv, FaultInv, [Next]_vars
  PROVE  FaultInv'
<1>m. minted > 0 => minted' > 0
  BY MintedStep
<1>1. CASE ServiceStep
  BY <1>1 DEF ServiceStep, FaultInv, FileSound, SeedSound, Holds, Quiet, Parse
<1>2. ASSUME NEW s \in Shells, Step(s)
      PROVE  FaultInv'
  <2>1. announced' => minted' > 0
    <3>1. cmd[s].kind = "init" => minted > 0
      BY DEF FileInv, KindInv
    <3>2. announced' => announced \/ cmd[s].kind = "init"
      BY <1>2, AnnouncedShape
    <3> QED BY <1>m, <3>1, <3>2 DEF FaultInv
  <2>2. FileSound /\ ~FileFault(s) => FileSound'
    BY <1>2, SoundStep
  <2>3. (minted > 0 => SeedSound) /\ ~SeedFault(s) => (minted' > 0 => SeedSound')
    BY <1>2, SeedStep DEF FileInv
  <2>4. ~(FileFault(s) /\ SeedFault(s))
    BY OneFaultOneCopy
  <2>5. /\ faults' = faults \/ faults' = faults + 1
        /\ FileFault(s) \/ SeedFault(s) => faults' = faults + 1
        /\ faults \in Nat
    BY <1>2, FaultsCounted DEF Types
  <2>6. CASE faults' = 0
    <3>1. faults = 0 /\ ~FileFault(s) /\ ~SeedFault(s)
      BY <2>5, <2>6
    <3> QED BY <2>1, <2>2, <2>3, <2>6, <3>1 DEF FaultInv
  <2>7. CASE faults' = 1
    <3>1. \/ faults = 0
          \/ faults = 1 /\ ~FileFault(s) /\ ~SeedFault(s)
      BY <2>5, <2>7
    <3>2. FileSound' \/ (minted' > 0 => SeedSound')
      BY <2>2, <2>3, <2>4, <3>1 DEF FaultInv
    <3> QED BY <2>1, <2>7, <3>2 DEF FaultInv
  <2> QED BY <2>1, <2>6, <2>7 DEF FaultInv
<1> QED BY <1>1, <1>2, StepShape

------------------------------------------------------------------------------
(* The theorems *)

\* The invariant holds before the first command is typed.
LEMMA CredInit == Init => CredInv
<1> SUFFICES ASSUME Init
             PROVE  CredInv
  OBVIOUS
<1>1. \A s \in Shells : cmd[s] = NoCommand
  BY DEF Init
<1>2. Types
  <2>1. config \in File
    BY DefaultType DEF Init, Broken, File
  <2>2. cmd \in [Shells -> Command]
    BY NoCommandType DEF Init
  <2>3. service \in [up : BOOLEAN, running : BOOLEAN, env : Token,
                     token : Token \union {Unread}, owed : Token \union {NoPromise}]
    BY TokenType DEF Init
  <2>4. want \in Wish
    BY CredentialsAssumption, TokenType DEF Init, Default, Wish
  <2>5. seed \in Token /\ minted \in 0 .. MaxInits /\ faults \in Nat /\ announced \in BOOLEAN
    <3>1. MaxInits \in Nat /\ NoToken \in Token
      BY CredentialsAssumption, TokenType
    <3>2. seed = NoToken /\ minted = 0 /\ faults = 0
      BY DEF Init
    <3>3. minted \in 0 .. MaxInits /\ faults \in Nat
      BY <3>1, <3>2
    <3>4. announced \in BOOLEAN
      BY Zenon DEF Init
    <3> QED BY <3>1, <3>2, <3>3, <3>4
  <2> QED BY <2>1, <2>2, <2>3, <2>4, <2>5 DEF Types
<1>3. \A s \in Shells : ~Holds(s) /\ cmd[s].at = "start" /\ cmd[s].kind = "none"
  BY <1>1 DEF Holds, NoCommand
<1>4. FileHoldsWhatWasAsked
  BY DEF Init, FileHoldsWhatWasAsked, Parse, Broken, Default
<1>5. FileInv
  BY <1>3, <1>4 DEF FileInv, KindInv, FreshInv, CopyInv
<1>6. FaultInv
  BY <1>3 DEF Init, FaultInv, FileSound
<1>7. AnnouncedTokenAdmits
  BY DEF Init, AnnouncedTokenAdmits
<1> QED BY <1>2, <1>5, <1>6, <1>7 DEF CredInv

\* Every step keeps the invariant.
LEMMA CredStep == CredInv /\ [Next]_vars => CredInv'
<1> SUFFICES ASSUME CredInv, [Next]_vars
             PROVE  CredInv'
  OBVIOUS
<1> USE DEF CredInv
<1>1. Types' /\ KindInv' /\ FreshInv'
  BY TypesStep, KindStep, FreshStep DEF FileInv
<1>2. CopyInv' /\ FileHoldsWhatWasAsked'
  BY CopyStep, FileStep
<1>3. AnnouncedTokenAdmits' /\ FaultInv'
  BY AnnouncedStep, FaultStep
<1> QED BY <1>1, <1>2, <1>3 DEF FileInv

\* The inductive invariant holds: types, what commands carry, the freshness of
\* their copies, the file against what was asked, and the copies of the token.
THEOREM CredentialsInvariance == Spec => []CredInv
BY CredInit, CredStep, PTL DEF Spec

\* The variables have their types.
THEOREM CredentialsTypes == Spec => []TypeOK
<1>1. CredInv => TypeOK
  BY DEF CredInv, Types, TypeOK
<1> QED BY <1>1, CredentialsInvariance, PTL

\* Between saves config.toml holds what the command that saved last loaded,
\* changed as that command was told, however many commands overlap: what such
\* an overlap undoes is what was saved between a command's load and its save,
\* and no more.  Writes that were cut short or ran into another are exempt.
THEOREM FileKeepsItsPromises == Spec => []FileHoldsWhatWasAsked
<1>1. CredInv => FileHoldsWhatWasAsked
  BY DEF CredInv, FileInv
<1> QED BY <1>1, CredentialsInvariance, PTL

\* However the process came to run, its first manager request makes it hold to
\* the token the last completed save put in the file.
THEOREM AnnouncedTokenWorks == Spec => []AnnouncedTokenAdmits
<1>1. CredInv => AnnouncedTokenAdmits
  BY DEF CredInv
<1> QED BY <1>1, CredentialsInvariance, PTL

\* One kill, failed write or save that drops the token never leaves the service
\* without one, open to everybody: of the two copies one is left.
THEOREM OneFaultLeavesAToken == Spec => []TokenOutlivesOneFault
<1>1. ASSUME CredInv
      PROVE  TokenOutlivesOneFault
  <2> SUFFICES ASSUME announced, faults < 2, \A s \in Shells : cmd[s].kind = "none"
               PROVE  Adopted(Parse(config), seed) # NoToken
    BY DEF TokenOutlivesOneFault
  <2>1. \A s \in Shells : cmd[s].at \notin {"seeding", "saving"}
    BY <1>1 DEF CredInv, FileInv, KindInv, Holds
  <2>2. minted > 0 /\ faults \in Nat
    BY <1>1 DEF CredInv, FaultInv, Types
  <2>3. FileSound \/ SeedSound
    BY <1>1, <2>2 DEF CredInv, FaultInv
  <2>4. Parse(config).hash # NoToken \/ seed # NoToken
    BY <2>1, <2>3 DEF FileSound, SeedSound, Quiet
  <2> QED BY <2>4 DEF Adopted
<1> QED BY <1>1, CredentialsInvariance, PTL
==============================================================================
