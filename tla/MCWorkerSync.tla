---------------------------- MODULE MCWorkerSync -----------------------------
(***************************************************************************)
(* WorkerSync with the constants of the run.  A string of two characters   *)
(* or more is accepted as a code, and the codes and salts are such that    *)
(* two of them join to the same string: 11 and 22, 112 and 2.  The number  *)
(* 1 is a code too, short as it is: 1 and 22 join to what 12 and 2 do.     *)
(***************************************************************************)
EXTENDS WorkerSync

CONSTANTS b1, b2

MCChar   == {1, 2}
MCCode   == {<<1, 1>>, <<1, 1, 2>>, <<1>>, <<1, 2>>}
MCNumber == {<<1>>}
MCSalt   == {<<1>>, <<2>>, <<2, 2>>}
==============================================================================
