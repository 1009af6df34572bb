------------------------------ MODULE MCServices ------------------------------
(***************************************************************************)
(* What the core state and the start of the server hold beside the         *)
(* permission table: the module registry and the anti-abuse limiter, which *)
(* share no state, with the constants of the run.                          *)
(***************************************************************************)
EXTENDS ModuleRegistry, AntiAbuse, TLC

CONSTANTS holder, laptop, phone, unknown

\* Two releases of the core; a module of the repository with bits and one without;
\* and one module each that asks for the next release, and for bits that overlap
\* with storage-more's or with the core's.
MCReleases == {<<0, Dot, 3, Dot, 6>>, <<0, Dot, 4, Dot, 0>>}

Module(name, bits, minCore) == [name |-> name, bits |-> bits, minCore |-> minCore]

MCDeclared ==
  { Module("storage-more", <<3, 4>>, <<0, Dot, 3, Dot, 3>>),
    Module("auto-heal", << >>, <<0, Dot, 3, Dot, 6>>),
    Module("next", <<5>>, <<0, Dot, 4, Dot, 0>>),
    Module("overlapping", <<5, 4>>, <<0, Dot, 3, Dot, 3>>),
    Module("core-bit", <<2>>, <<0, Dot, 3, Dot, 3>>) }

Symmetric == Permutations({laptop, phone, unknown})

Init == RegistryInit /\ LimiterInit

Next ==
  \/ RegistryNext /\ UNCHANGED limiterVars
  \/ LimiterNext /\ UNCHANGED registryVars

Spec == Init /\ [][Next]_<<registryVars, limiterVars>>

==============================================================================
