CONSTANTS
  MONEY_SUPPLY = 3000
  CRYLO_START_REWARD = 1200
  CRYLO_MIN_REWARD = 400
  CRYLO_EMISSION_BLOCKS = 3
  FULL_REWARD_ZONE = 10
  FEE_BASE = 400
  DEV_FUND_FEE_BPS = 3
  LIQUIDITY_FUND_FEE_BPS = 1
  GAS_TREASURY_FEE_BPS = 2
  HF_VERSION_VESTING = 19
  HF_VERSION_2021_SCALING = 20
  REWARD_BLOCKS_WINDOW = 3
  LONG_TERM_WINDOW = 4
  SURGE_FACTOR = 2
  VersionAt <- MCVersionAt
  GENESIS_AMOUNT = 1500
  GENESIS_WEIGHT = 1
  Coinbases <- MCCoinbases
  Fees = {0, 401}
  Weights = {1, 15, 25}
  MaxHeight = 7
SPECIFICATION SupplySpec
INVARIANTS
  GeneratedWithinSupply
  EveryCoinCounted
  PenaltyCosts
  WithinLimitWhileEmitting
