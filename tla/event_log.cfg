SPECIFICATION Spec
CONSTANTS
  router = router
  mirror = mirror
  c1 = c1
  r1 = r1
  r2 = r2
  r3 = r3
  r4 = r4
  h1 = h1
  h2 = h2
  s1 = s1
  Request = {r1, r2, r3, r4}
  Admin = {h1, h2}
  Subscriber = {s1}
  Capacity = 2
  MaxCrashes = 1
  Replica = {router, mirror}
  LogCert = {c1}
  MaxPushes = 3
  MaxRestarts = 1
SYMMETRY Symmetric
INVARIANTS
  OneHistoryUntilStalePush
  RevocationWinsOverApproval
  OnlyLaggardsMiss
  StreamIsTheLog
  OneLossPerCrash
PROPERTIES
  LogsOnlyGrow
