SPECIFICATION DemoSpec
CONSTANTS
  first = first
  second = second
  NoWallet = NoWallet
  NoRun = NoRun
  MaxOutside = 2
  Runs = {first, second}
  Wallets = {"reviewer", "operator"}
  MAX_RUNTIME_AUDIT_ITEMS = 8
  MaxU64 = 15
  MaxI64 = 4
  MaxTime = 2
SYMMETRY MCSymmetry
CHECK_DEADLOCK FALSE
INVARIANTS
  ReportIsOwn
  SetUpUnderOwnWallet
PROPERTY SetUpKeepsWhatIsThere
