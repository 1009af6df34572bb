SPECIFICATION Spec
CONSTANTS
  p1 = p1
  p2 = p2
  Pid = {p1, p2}
  NoPid = NoPid
  Interface <- MCInterface
  Configs <- MCConfigs
  Budgets <- MCBudgets
SYMMETRY Symmetric
INVARIANTS
  DeploymentIsExact
  FilterBeforeRedirect
  StopFindsTheServer
