SPECIFICATION HistorySpec
CONSTANTS
  MAX_RUNTIME_AUDIT_ITEMS = 2
  MaxU64 = 5
  MaxI64 = 5
  MaskInputs <- MCMasks
  ActionInputs <- MCActions
  MaxRequestsInputs = {0, 1, 2}
  WindowInputs = {0, 2, 3}
  MaxTime = 4
INVARIANTS
  TypeOK
  AuditIsUnsettledSuffix
  CheckpointMirrorsRuntime
  AuditExplainsTotals
  SlidingWindowBound
  CountersAgreeWithHistory
PROPERTIES
  RevokedKeyAdmitsNothing
  WindowNeverRefunds
  ImplementsLedger
