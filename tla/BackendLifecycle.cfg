SPECIFICATION BackendFairSpec
CONSTANTS
  Procs = {1, 2}
  MaxTries = 2
  MaxLaunches = 2
  NoProc = NoProc
INVARIANTS EndedStopsWalletRpc
PROPERTIES StartupEnds CloseQuits
CHECK_DEADLOCK FALSE
