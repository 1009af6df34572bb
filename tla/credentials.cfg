SPECIFICATION Spec
CONSTANTS
  t1 = t1
  t2 = t2
  Shells = {t1, t2}
  Settings = {"plain", "tuned"}
  DefaultRest = "plain"
  MaxInits = 2
  MaxFaults = 2
  MaxCommands = 3
SYMMETRY ShellSymmetry
INVARIANTS
  FileHoldsWhatWasAsked
  AnnouncedTokenAdmits
  TokenOutlivesOneFault
