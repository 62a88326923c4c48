CONSTANTS
  FULL_REWARD_ZONE = 10
  REWARD_BLOCKS_WINDOW = 3
  LONG_TERM_WINDOW = 5
  SURGE_FACTOR = 2
  HF_VERSION_2021_SCALING = 20
  VersionAt <- MCVersionAt
  GENESIS_WEIGHT = 1
  Weights = {1, 40}
  MaxHeight = 6
  Unwritten = Unwritten
SPECIFICATION MCSpec
INVARIANTS
  EstimateWindow
  HeapAgrees
PROPERTIES
  ImplementsLongTermMedian
