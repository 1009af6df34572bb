--------------------------- MODULE MCCredentials ---------------------------
(***************************************************************************)
(* An instance of Credentials: two terminals, two values of the settings.  *)
(***************************************************************************)
EXTENDS Credentials, TLC

\* The terminals are alike.
CONSTANTS t1, t2
ShellSymmetry == Permutations(Shells)
=============================================================================
