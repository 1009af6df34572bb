------------------------------ MODULE MCTableApi ------------------------------
(***************************************************************************)
(* TableApi with the constants of the run.                                 *)
(***************************************************************************)
EXTENDS TableApi, TLC

CONSTANTS c1, c2

\* Devices ask for connector with device; connector or admin is approved.
MCRequests == {{0, 2}}
MCGrants   == {{0}, {1}}

\* Rows of an older store: an active device that has been seen and holds bit 40,
\* which the catalog no longer has, and a revoked one.
MCArchived ==
  { [bitmap |-> {2, 40}, requested |-> {2, 40}, status |-> "Active",
     createdAt |-> 0, lastSeen |-> "seen"],
    [bitmap |-> {0}, requested |-> {0}, status |-> "Compromised",
     createdAt |-> 0, lastSeen |-> "never"] }

Symmetric == Permutations({c1, c2})
==============================================================================
