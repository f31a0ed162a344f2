SPECIFICATION DelegatedSpec
CONSTANTS
  MAX_RUNTIME_AUDIT_ITEMS = 1
  MaxU64 = 2
  MaxI64 = 4
  MaskInputs <- MCMasks
  ActionInputs = {0}
  MaxRequestsInputs = {1}
  WindowInputs = {1}
  MaxTime = 2
INVARIANT
  EvictionNoteTrue
