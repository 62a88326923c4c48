---------------------------- MODULE ChainSupply -----------------------------
(***************************************************************************)
(* The coins a main chain issues.  A block is added at the tip, by any     *)
(* miner and with any coinbase, if handle_block_to_main_chain accepts its  *)
(* coinbase; it is stored with its weight, its long term weight and the    *)
(* coins generated so far; blocks are popped from the tip.  Proof of work, *)
(* timestamps and transactions other than the coinbase are left out: of    *)
(* the transactions only the sum of their fees and the block's weight      *)
(* count here.  Block height h is ledger[h + 1].                           *)
(***************************************************************************)
EXTENDS Emission, WeightedChain

CONSTANTS
  GENESIS_AMOUNT, \* what the coinbase of the genesis block pays
  Coinbases(_),   \* coinbases a miner may submit for reward plus fees
  Fees            \* fee totals of the transactions of a block

ASSUME ChainAssumption ==
  /\ GENESIS_AMOUNT \in Nat
  /\ Fees \subseteq Nat

VARIABLES
  ledger,  \* blocks with what BlockchainDB stores beside them
  median   \* m_current_block_cumul_weight_median

supplyVars == <<ledger, median>>

(* Whose address an output is derived from; any other key is the miner's.  *)
Party == {"genesis", "miner", "dev", "liquidity", "gas"}
Coinbase == {outs \in Seq([to : Party, amount : Nat]) : Len(outs) <= 5}
MinedBlock == [outs : Coinbase, fee : Nat, reward : Nat,
               generated : Nat, weight : Nat, longWeight : Nat]

Height == Len(ledger)
Generated == ledger[Height].generated
LongMedianOf(c) == Median(LongWindow(c))
MedianOf(c) == LimitsFor(c, LongMedianOf(c)).median

(* The genesis block's reward is the schedule's, whatever it really pays. *)
GenesisBlock ==
  LET reward == GetBlockReward(0, FULL_REWARD_ZONE, GENESIS_WEIGHT, 0).reward
  IN  [outs |-> <<Out("genesis", GENESIS_AMOUNT)>>, fee |-> 0, reward |-> reward,
       generated |-> NextGenerated(0, reward),
       weight |-> GENESIS_WEIGHT, longWeight |-> GENESIS_WEIGHT]
-----------------------------------------------------------------------------
SupplyInit ==
  /\ ledger = <<GenesisBlock>>
  /\ median = MedianOf(<<GenesisBlock>>)

(* Mutant: the coins generated are what the coinbase pays, fees included,  *)
(* as handle_alternative_block counts them for blocks off the main chain.  *)
ConnectCountingFees(outs, fee, weight) ==
  LET reward == GetBlockReward(Height, median, weight, Generated).reward
  IN  /\ Height < MaxHeight
      /\ outs \in Coinbase
      /\ ValidateMinerTx(outs, Height, median, weight, Generated, fee,
                         VersionAt(Height))
      /\ ledger' = Append(ledger,
           [outs |-> outs, fee |-> fee, reward |-> reward,
            generated |-> Generated + MoneyInUse(outs),
            weight |-> weight, longWeight |-> weight])
      /\ median' = MedianOf(ledger')

(* The part of handle_block_to_main_chain that follows the checks of the   *)
(* header and the transactions.                                            *)
ConnectBlock(outs, fee, weight) ==
  LET reward == GetBlockReward(Height, median, weight, Generated).reward
      block  == [outs |-> outs, fee |-> fee, reward |-> reward,
                 generated |-> NextGenerated(Generated, reward),
                 weight |-> weight,
                 longWeight |-> NextLongTermWeight(weight, LongMedianOf(ledger),
                                                   VersionAt(Height))]
  IN  /\ Height < MaxHeight
      /\ outs \in Coinbase
      /\ ValidateMinerTx(outs, Height, median, weight, Generated, fee,
                         VersionAt(Height))
      /\ ledger' = Append(ledger, block)
      /\ median' = MedianOf(ledger')

(* pop_blocks and the pops of a chain switch; the genesis block stays. *)
DisconnectBlocks(n) ==
  /\ n < Height
  /\ ledger' = SubSeq(ledger, 1, Height - n)
  /\ median' = MedianOf(ledger')

SupplyNext ==
  \/ \E fee \in Fees, weight \in Weights :
       \E outs \in Coinbases(GetBlockReward(Height, median, weight, Generated).reward + fee) :
         ConnectBlock(outs, fee, weight)
  \/ \E n \in 1..MaxHeight : DisconnectBlocks(n)

SupplySpec == SupplyInit /\ [][SupplyNext]_supplyVars
-----------------------------------------------------------------------------
(* Type invariant: the chain holds at least the genesis block. *)
SupplyTypeOK ==
  /\ ledger \in Seq(MinedBlock)
  /\ Height >= 1
  /\ median \in Nat

(* No run of legal blocks and pops makes the stored already_generated_coins *)
(* exceed the supply, although rewards are penalised, capped and re-added. *)
GeneratedWithinSupply == \A i \in 1..Height : ledger[i].generated <= MONEY_SUPPLY

(* Every coin a coinbase pays beyond the fees of its block is one that     *)
(* already_generated_coins counts: the saturating update of                *)
(* handle_block_to_main_chain never hides a coin.  The genesis block is    *)
(* exempt from the reward checks.                                          *)
EveryCoinCounted ==
  \A i \in 2..Height :
    MoneyInUse(ledger[i].outs) - ledger[i].fee = ledger[i].generated - ledger[i - 1].generated

(* The assertion reward_lo < base_reward of get_block_reward: a block      *)
(* heavier than the median it was checked against gets strictly less than  *)
(* the base reward, so padding a block never pays.                         *)
PenaltyCosts ==
  \A i \in 2..Height :
    LET base == BaseReward(i - 1, ledger[i - 1].generated)
    IN  (base > 0 /\ ledger[i].weight > MedianOf(SubSeq(ledger, 1, i - 1)))
          => ledger[i].reward < base

(* While coins remain to be generated no block exceeds twice the median of *)
(* the chain below it (m_current_block_cumul_weight_limit).                *)
WithinLimitWhileEmitting ==
  \A i \in 2..Height :
    ledger[i - 1].generated < MONEY_SUPPLY
      => ledger[i].weight <= 2 * MedianOf(SubSeq(ledger, 1, i - 1))
=============================================================================
