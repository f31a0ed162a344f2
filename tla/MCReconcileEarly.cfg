SPECIFICATION ReconcileSpec
CONSTANTS
  MAX_RUNTIME_AUDIT_ITEMS = 1
  MaxU64 = 2
  MaxI64 = 3
  MaskInputs = {}
  ActionInputs = {0}
  MaxRequestsInputs = {1}
  WindowInputs = {1}
  MaxTime = 1
  ModeInputs = {"status", "commit-only", "undelegate-and-settle", "settle-if-safe"}
  MaxKills = 1
INVARIANT
  SettlesOnlyWhenBack
