---------------------------- MODULE MCVersionManager ----------------------------
(***************************************************************************)
(* VersionManager with the constants of the runs, and with the number of   *)
(* commands and of faults bounded.  Reboots are not counted.               *)
(***************************************************************************)
EXTENDS VersionManager, Naturals, TLC

CONSTANTS v1, v2, MaxCommands, MaxFaults

VARIABLES commands, faults

MCInit == Init /\ commands = 0 /\ faults = 0

MCNext ==
  \/ Command /\ commands < MaxCommands /\ commands' = commands + 1 /\ UNCHANGED faults
  \/ Fault /\ faults < MaxFaults /\ faults' = faults + 1 /\ UNCHANGED commands
  \/ (Operate \/ Reboot) /\ UNCHANGED <<commands, faults>>

MCSpec == MCInit /\ [][MCNext]_<<vars, commands, faults>>

MCUserSnapshot == {"pre-upgrade"}

Symmetric == Permutations({v1, v2})
==============================================================================
