SPECIFICATION DemoSpec
CONSTANTS
  first = first
  second = second
  NoWallet = NoWallet
  NoRun = NoRun
  MaxOutside = 1
  Runs = {first, second}
  Wallets = {"reviewer", "operator"}
  MAX_RUNTIME_AUDIT_ITEMS = 8
  MaxU64 = 15
  MaxI64 = 4
  MaxTime = 2
CHECK_DEADLOCK FALSE
INVARIANT OwnWalletSuffices
