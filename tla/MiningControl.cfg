SPECIFICATION MiningFairSpec
CONSTANTS
  WalletNames = {w1}
  Null = Null
  MaxCalls = 3
  MaxTimers = 2
INVARIANTS PolledWhileActive
PROPERTY StopIsNoticed
