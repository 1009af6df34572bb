------------------------------- MODULE MCGateway -------------------------------
(***************************************************************************)
(* Gateway with the constants of the runs.                                 *)
(***************************************************************************)
EXTENDS GatewayClaims, GatewayInvariant, TLC

CONSTANTS s1, i1, root, h1, h2

\* A device may ask for anything: here for device, with the admin bit the
\* parser drops.  An administrator may send anything: here connector with admin,
\* and admin alone, of which nothing is left.
MCRequest   == {{1, 2}}
MCApprovals == {{0, 1}, {1}}

\* One of each, where the bits make no difference.
MCApproval == {{0, 1}}

\* The bitmap 255 of the generated seed.json.
MCSeedBitmap == 0..7

Symmetric == Permutations({h1, h2})
==============================================================================
