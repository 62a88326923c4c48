---------------------------- MODULE BlockWeight -----------------------------
(***************************************************************************)
(* The dynamic block weight rules: the long term weight a block is stored  *)
(* with and the effective median that bounds the next block.  Operators    *)
(* take the weights of the blocks in chain order.  The windows are 100 and *)
(* 100000 blocks in the code.                                              *)
(***************************************************************************)
EXTENDS Integers, Sequences, FiniteSets

CONSTANTS
  FULL_REWARD_ZONE,        \* block weight that is never penalised
  REWARD_BLOCKS_WINDOW,    \* blocks of the short term median
  LONG_TERM_WINDOW,        \* blocks of the long term median
  SURGE_FACTOR,            \* most the short term median may exceed the long one
  HF_VERSION_2021_SCALING

ASSUME WeightAssumption ==
  /\ FULL_REWARD_ZONE \in Nat \ {0}
  /\ REWARD_BLOCKS_WINDOW \in Nat \ {0}
  /\ LONG_TERM_WINDOW \in Nat \ {0}
  /\ SURGE_FACTOR \in Nat \ {0}
  /\ HF_VERSION_2021_SCALING \in Nat

AtMost(a, b) == IF a <= b THEN a ELSE b
AtLeast(a, b) == IF a >= b THEN a ELSE b

(* The last n elements of s, all of them when there are fewer. *)
LastN(s, n) == SubSeq(s, AtLeast(1, Len(s) - n + 1), Len(s))

(* The element that is k-th in the sorted order of s. *)
KthSmallest(s, k) ==
  CHOOSE x \in {s[i] : i \in DOMAIN s} :
    /\ Cardinality({i \in DOMAIN s : s[i] < x}) < k
    /\ Cardinality({i \in DOMAIN s : s[i] <= x}) >= k

Median(s) ==
  LET n == Len(s) \div 2
  IN  IF s = <<>> THEN 0
      ELSE IF Len(s) % 2 = 1 THEN KthSmallest(s, n + 1)
      ELSE (KthSmallest(s, n) + KthSmallest(s, n + 1)) \div 2

(* m_long_term_effective_median_block_weight for this long term median. *)
LongTermEffective(longMedian) == AtLeast(FULL_REWARD_ZONE, longMedian)

(* The long term weight of a block of this weight put on a non-empty chain *)
(* whose long term median is longMedian.                                   *)
NextLongTermWeight(weight, longMedian, version) ==
  LET eff == LongTermEffective(longMedian)
  IN  IF version >= HF_VERSION_2021_SCALING
      THEN AtMost(AtLeast(weight, (eff * 10) \div 17), eff + (eff * 7) \div 10)
      ELSE AtMost(weight, eff + (eff * 2) \div 5)

(* m_current_block_cumul_weight_median after a block. *)
EffectiveMedian(shortMedian, longMedian, version) ==
  LET eff == LongTermEffective(longMedian)
      low == IF version >= HF_VERSION_2021_SCALING THEN eff ELSE FULL_REWARD_ZONE
  IN  AtLeast(AtMost(AtLeast(low, shortMedian), SURGE_FACTOR * eff), FULL_REWARD_ZONE)
=============================================================================
