SPECIFICATION Spec
CONSTANTS
  s1 = s1
  i1 = i1
  root = root
  h1 = h1
  h2 = h2
  SelfSigned = {}
  Issued = {i1}
  Seeds = {root}
  Handler = {h1, h2}
  NoHandler = NoHandler
  NoCert = NoCert
  SeedBitmap <- MCSeedBitmap
  RequestBitmaps <- MCRequest
  ApproveBitmaps <- MCApproval
  Databases = {"primary", "tmp", "none"}
  MaxRequests = 2
  MaxTime = 1
  PendingRetention = 0
  DecidedRetention = 2
SYMMETRY Symmetric
PROPERTIES
  ImplementsLedger
