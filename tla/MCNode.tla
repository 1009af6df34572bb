-------------------------------- MODULE MCNode --------------------------------
(***************************************************************************)
(* Node with the constants of the run.                                     *)
(***************************************************************************)
EXTENDS Node, TLC

CONSTANTS p1, p2

\* The server is told to monitor one interface; the script's rules are for all.
MCInterface == {"lan"}
MCConfigs   == {<<"lan">>}

None == [kind \in Kind |-> 0]

MCBudgets ==
  {[None EXCEPT !["script"] = 1, !["crash"] = 1],
   [None EXCEPT !["script"] = 1, !["nft"] = 1],
   [None EXCEPT !["nft"] = 1, !["crash"] = 1],
   [None EXCEPT !["stop"] = 1, !["crash"] = 1, !["pid"] = 1]}

Symmetric == Permutations(Pid)
==============================================================================
