--------------------------- MODULE WeightedChain ----------------------------
(***************************************************************************)
(* A main chain seen through its block weights, and the limits that        *)
(* update_next_cumulative_weight_limit derives from it.  Block height h is *)
(* c[h + 1].                                                               *)
(***************************************************************************)
EXTENDS BlockWeight

CONSTANTS
  VersionAt(_),   \* hard fork version in force for a block at this height
  GENESIS_WEIGHT,
  Weights,        \* block weights
  MaxHeight       \* bound: blocks on the chain

ASSUME WeightedChainAssumption ==
  /\ \A h \in 0..MaxHeight : VersionAt(h) \in Nat
  /\ GENESIS_WEIGHT \in Nat
  /\ Weights \subseteq Nat
  /\ MaxHeight \in Nat \ {0}

Block == [weight : Nat, longWeight : Nat]
Genesis == [weight |-> GENESIS_WEIGHT, longWeight |-> GENESIS_WEIGHT]

WeightsOf(c) == [i \in 1..Len(c) |-> c[i].weight]
LongWeightsOf(c) == [i \in 1..Len(c) |-> c[i].longWeight]

(* The long term weights of the window that ends at the tip of c. *)
LongWindow(c) == LastN(LongWeightsOf(c), LONG_TERM_WINDOW)

(* The block of this weight put on c, stored with its long term weight. *)
Stored(c, weight, longMedian) ==
  [weight |-> weight,
   longWeight |-> NextLongTermWeight(weight, longMedian, VersionAt(Len(c)))]

(* m_long_term_effective_median_block_weight and                           *)
(* m_current_block_cumul_weight_median for the block that follows c.       *)
LimitsFor(c, longMedian) ==
  [effective |-> LongTermEffective(longMedian),
   median |-> EffectiveMedian(Median(LastN(WeightsOf(c), REWARD_BLOCKS_WINDOW)),
                              longMedian, VersionAt(Len(c)))]
=============================================================================
