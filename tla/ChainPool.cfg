SPECIFICATION Spec
CONSTANTS
  Tree <- MCTree
  Spends <- MCSpends
  Needs <- MCNeeds
  FeeOrder <- MCFeeOrder
  HashOrder <- MCHashOrder
  MAX_WEIGHT = 2
  WEIGHT_BOUND = 4
  GENESIS = "g"
  MAX_STUCK = 1
  AFTER_ABORT = 0
INVARIANTS
  IndexesMatch
  StartsAgain
  ChainValid
  VerdictsRight
  TemplateMinable
  NoAltOnTip
PROPERTY NeverLighter
CHECK_DEADLOCK FALSE
