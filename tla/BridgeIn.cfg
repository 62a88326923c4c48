SPECIFICATION BridgeSpec
CONSTANTS
  Sessions = {s1, s2}
  Wallets = {w1, w2}
  Amounts = {4, 44, 74, 86, 121}
  MaxPayments = 3
  MaxClearing = 1
  ChunkSize = 4
  Limit = 12
  Plain = 2
  NoOne = NoOne
SYMMETRY BridgeSymmetry
INVARIANTS NeverOverpays DoneIsWhole CompletedIsMinted
