SPECIFICATION Spec
CONSTANTS
  c1 = c1
  c2 = c2
  Cert = {c1, c2}
  RequestBitmaps <- MCRequests
  GrantBitmaps <- MCGrants
  Archived <- MCArchived
  MaxRequests = 2
  MaxTime = 2
  PendingRetention = 0
  DecidedRetention = 1
SYMMETRY Symmetric
INVARIANTS
  NoBitsWithoutGrant
  QueriesAgree
PROPERTIES
  RevokedUntilLifted
  ReportIsWhatWent
