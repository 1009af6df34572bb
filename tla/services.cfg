SPECIFICATION Spec
CONSTANTS
  holder = holder
  laptop = laptop
  phone = phone
  unknown = unknown
  Holder = {holder}
  Device = {laptop, phone, unknown}
  MaxDate = 2
  MaxVisits = 2
  Declared <- MCDeclared
  Releases <- MCReleases
SYMMETRY Symmetric
INVARIANTS
  BitsHaveOneOwner
  TwoRestoresPerDate
  EachNewDeviceReportedOnce
  OldCoresSkip
  RefusalIsDeserved
