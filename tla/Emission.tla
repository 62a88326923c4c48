------------------------------ MODULE Emission ------------------------------
(***************************************************************************)
(* The coin emission of a CryLo chain and the coinbase transaction that    *)
(* pays it: get_block_reward, construct_miner_tx and                       *)
(* validate_miner_transaction as pure operators.  Amounts are atomic       *)
(* units.  A coinbase is the sequence of its outputs, each an amount and   *)
(* the party whose address it is derived from; the rest of the keys, tx    *)
(* extra and view tags are left out.  The hard fork table of every network *)
(* starts at version 17, so the branches for versions below 16 are         *)
(* unreachable and left out too.  A coinbase has at most five outputs, the *)
(* most that construct_miner_tx makes.                                     *)
(***************************************************************************)
EXTENDS Integers, Sequences, BlockWeight

CONSTANTS
  MONEY_SUPPLY,           \* coins the schedule may generate
  CRYLO_START_REWARD,     \* reward of block 0
  CRYLO_MIN_REWARD,       \* reward once the linear part is over
  CRYLO_EMISSION_BLOCKS,  \* length of the linear part
  FEE_BASE,               \* 10000 in the code: one basis point is 1/FEE_BASE
  DEV_FUND_FEE_BPS,
  LIQUIDITY_FUND_FEE_BPS,
  GAS_TREASURY_FEE_BPS,
  HF_VERSION_VESTING      \* version from which a coinbase is split in five

ASSUME SupplyAssumption ==
  /\ MONEY_SUPPLY \in Nat \ {0}
  /\ CRYLO_START_REWARD \in Nat
  /\ CRYLO_MIN_REWARD \in Nat \ {0}
  /\ CRYLO_MIN_REWARD <= CRYLO_START_REWARD
  /\ CRYLO_START_REWARD <= MONEY_SUPPLY
  /\ CRYLO_EMISSION_BLOCKS \in Nat \ {0}

ASSUME FeeAssumption ==
  /\ FEE_BASE \in Nat \ {0}
  /\ DEV_FUND_FEE_BPS \in Nat \ {0}
  /\ LIQUIDITY_FUND_FEE_BPS \in Nat \ {0}
  /\ GAS_TREASURY_FEE_BPS \in Nat \ {0}
  /\ DEV_FUND_FEE_BPS + LIQUIDITY_FUND_FEE_BPS + GAS_TREASURY_FEE_BPS <= FEE_BASE

ASSUME VersionAssumption == HF_VERSION_VESTING \in Nat

-----------------------------------------------------------------------------
(* Reward of a block at this height before the supply cap and the penalty. *)
ScheduledReward(height) ==
  IF height < CRYLO_EMISSION_BLOCKS
  THEN CRYLO_START_REWARD
         - ((CRYLO_START_REWARD - CRYLO_MIN_REWARD) * height) \div CRYLO_EMISSION_BLOCKS
  ELSE CRYLO_MIN_REWARD

(* Mutant: the reward is not capped at what the supply has left. *)
BaseRewardUncapped(height, generated) ==
  IF generated >= MONEY_SUPPLY THEN 0 ELSE ScheduledReward(height)

(* The reward capped at what the supply has left. *)
BaseReward(height, generated) ==
  IF generated >= MONEY_SUPPLY
  THEN 0
  ELSE AtMost(ScheduledReward(height), MONEY_SUPPLY - generated)

(* Mutant: no penalty. *)
PenalisedNot(base, median, weight) == base

(* The quadratic penalty of a block heavier than the median. *)
Penalised(base, median, weight) ==
  ((base * ((2 * median - weight) * weight)) \div median) \div median

(* Mutant: a block that is too heavy gets no reward but is accepted. *)
GetBlockRewardNoLimit(height, median_weight, weight, generated) ==
  LET base   == BaseReward(height, generated)
      median == AtLeast(median_weight, FULL_REWARD_ZONE)
  IN  [ok |-> TRUE,
       reward |-> IF weight <= median THEN base
                  ELSE IF weight > 2 * median THEN 0
                  ELSE Penalised(base, median, weight)]

(* ok is the boolean result, reward the value returned by reference. *)
GetBlockReward(height, median_weight, weight, generated) ==
  LET base   == BaseReward(height, generated)
      median == AtLeast(median_weight, FULL_REWARD_ZONE)
  IN  IF generated >= MONEY_SUPPLY \/ weight <= median
      THEN [ok |-> TRUE, reward |-> base]
      ELSE IF weight > 2 * median
           THEN [ok |-> FALSE, reward |-> 0]
           ELSE [ok |-> TRUE, reward |-> Penalised(base, median, weight)]
-----------------------------------------------------------------------------
(* A coinbase output, and what the fund with this many basis points gets.  *)
Out(to, amount) == [to |-> to, amount |-> amount]
FundAmount(bps, total) == (total * bps) \div FEE_BASE

DevAmount(total) == FundAmount(DEV_FUND_FEE_BPS, total)
LiquidityAmount(total) == FundAmount(LIQUIDITY_FUND_FEE_BPS, total)
GasAmount(total) == FundAmount(GAS_TREASURY_FEE_BPS, total)

(* What the miner gets of reward plus fees, in two halves. *)
MinerAmount(total) ==
  total - DevAmount(total) - LiquidityAmount(total) - GasAmount(total)
InstantAmount(total) == MinerAmount(total) \div 2
VestedAmount(total) == MinerAmount(total) - InstantAmount(total)

(* A fund whose amount is zero has no output. *)
FundOut(to, amount) == IF amount > 0 THEN <<Out(to, amount)>> ELSE <<>>

MinerOuts(total, version) ==
  IF version >= HF_VERSION_VESTING
  THEN <<Out("miner", InstantAmount(total)), Out("miner", VestedAmount(total))>>
  ELSE FundOut("miner", MinerAmount(total))

(* construct_miner_tx at a height above 0, with the max_outs that          *)
(* create_block_template passes; outs is empty when it fails.              *)
ConstructMinerTx(height, median_weight, weight, generated, fee, version) ==
  LET r     == GetBlockReward(height, median_weight, weight, generated)
      total == r.reward + fee
  IN  [ok   |-> r.ok,
       outs |-> IF r.ok
                THEN MinerOuts(total, version)
                       \o FundOut("dev", DevAmount(total))
                       \o FundOut("liquidity", LiquidityAmount(total))
                       \o FundOut("gas", GasAmount(total))
                ELSE <<>>]

(* Sum of the outputs of a coinbase of at most five. *)
AmountAt(outs, i) == IF i <= Len(outs) THEN outs[i].amount ELSE 0
MoneyInUse(outs) ==
  AmountAt(outs, 1) + AmountAt(outs, 2) + AmountAt(outs, 3)
    + AmountAt(outs, 4) + AmountAt(outs, 5)

(* The five outputs demanded from version HF_VERSION_VESTING on; only the  *)
(* key of the dev fund output is verified.                                 *)
VestingSplitOk(outs, total) ==
  /\ Len(outs) = 5
  /\ outs[1].amount = InstantAmount(total)
  /\ outs[2].amount = VestedAmount(total)
  /\ outs[3].amount = DevAmount(total)
  /\ outs[4].amount = LiquidityAmount(total)
  /\ outs[5].amount = GasAmount(total)
  /\ outs[3].to = "dev"

(* validate_miner_transaction for the block that would be at this height. *)
ValidateMinerTx(outs, height, median_weight, weight, generated, fee, version) ==
  LET r     == GetBlockReward(height, median_weight, weight, generated)
      total == r.reward + fee
  IN  /\ r.ok
      /\ height > 0 => MoneyInUse(outs) = total
      /\ (height > 0 /\ version >= HF_VERSION_VESTING /\ Len(outs) > 0)
           => VestingSplitOk(outs, total)

(* The already_generated_coins stored with a block that adds this reward. *)
NextGenerated(generated, reward) ==
  IF reward < MONEY_SUPPLY - generated THEN generated + reward ELSE MONEY_SUPPLY
=============================================================================
