SPECIFICATION DelegatedSpec
CONSTANTS
  MAX_RUNTIME_AUDIT_ITEMS = 2
  MaxU64 = 3
  MaxI64 = 4
  MaskInputs <- MCMasks
  ActionInputs = {0}
  MaxRequestsInputs = {1}
  WindowInputs = {1}
  MaxTime = 2
INVARIANTS
  DelegatedTypeOK
  FlagMatchesOwner
  CopiesNotAhead
  LiveWellFormed
  NoFalseAllClear
  DriftIsLowerBound
PROPERTIES
  RevocationHolds
  LiveWindowNeverRefunds
  ImplementsLiveLedger
