SPECIFICATION FairSpec
CONSTANTS
  a = a
  b = b
  Conn = {a, b}
  Tree <- MCTree
  GENESIS = "g"
  BAD = {"w2"}
  Peers <- MCPeers
  LIMIT = 2
  IDS = 4
  NSPANS = 1
  SIZE = 1
  NEAR = 1
  CALLS = 1
INVARIANTS ReservationsCovered SpansServed HonestNotBlamed HeightsRight StrandedByFailure
PROPERTIES CaughtUp Synchronises
