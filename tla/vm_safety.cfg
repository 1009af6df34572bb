SPECIFICATION MCSpec
CONSTANTS
  v1 = v1
  v2 = v2
  Version = {v1, v2}
  UserSnapshot <- MCUserSnapshot
  Absent = Absent
  Torn = Torn
  MaxCommands = 3
  MaxFaults = 2
SYMMETRY Symmetric
PROPERTIES
  TornOnlyFromTorn
  ProgramIsTheGoal
  BackupBeforeReplace
