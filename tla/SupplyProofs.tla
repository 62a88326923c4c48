---------------------------- MODULE SupplyProofs -----------------------------
(***************************************************************************)
(* Proofs about block weights and the coins they earn.                     *)
(*                                                                         *)
(* The median of a sequence of weights is well defined and a natural, and  *)
(* so is the effective median built from it.                               *)
(*                                                                         *)
(* About WeightCache: the cached long term median is the median of the     *)
(* chain for every window, every sequence of additions, pops, aborts and   *)
(* restarts: the cache implements LongTermMedian.  The heart is            *)
(* RequestRight: from a cache whose contents belong to the block it is     *)
(* filed under, a request yields the window at the tip, by a hit, a shift  *)
(* or a refill.                                                            *)
(*                                                                         *)
(* About ChainSupply, for every schedule, every hard fork table, every     *)
(* window and every chain: the coins counted are the coins paid and stay   *)
(* within the supply.  They rest on facts about the block reward and the   *)
(* coinbase, which hold for every schedule, every weight and every split   *)
(* in basis points.                                                        *)
(***************************************************************************)
EXTENDS WeightCache, ChainSupply, FiniteSetTheorems, WellFoundedInduction, SequenceTheorems, TLAPS

-----------------------------------------------------------------------------
(* Medians. *)
(* A non-empty set of naturals has a least element. *)
LEMMA LeastNatural ==
  ASSUME NEW T, T \subseteq Nat, T # {}
  PROVE  \E x \in T : \A y \in T : x <= y
<1> DEFINE R == OpToRel(<, Nat)
<1>1. R = {p \in Nat \X Nat : p[1] < p[2]}
  BY ZenonT(30) DEF OpToRel
<1>2. IsWellFoundedOn(R, Nat)
  BY ZenonT(30), NatLessThanWellFounded
<1> HIDE DEF R
<1>3. PICK x \in T : \A y \in T : ~ (<<y, x>> \in R)
  BY ZenonT(30), <1>2, WFMin
<1>4. ASSUME NEW y \in T
      PROVE  x <= y
  <2>1. x \in Nat /\ y \in Nat
    OBVIOUS
  <2>2. ~ (<<y, x>> \in {p \in Nat \X Nat : p[1] < p[2]})
    BY <1>1, <1>3
  <2> QED
    BY <2>1, <2>2
<1> QED
  BY <1>4

(* A finite non-empty set of indices has one with the greatest value. *)
LEMMA GreatestIndex ==
  ASSUME NEW I, IsFiniteSet(I), I # {}, NEW s, \A i \in I : s[i] \in Nat
  PROVE  \E j \in I : \A i \in I : s[i] <= s[j]
<1> DEFINE Above(j) == {i \in I : s[i] > s[j]}
<1> DEFINE T == {Cardinality(Above(j)) : j \in I}
<1>1. \A j \in I : IsFiniteSet(Above(j)) /\ Cardinality(Above(j)) \in Nat
  BY FS_Subset, FS_CardinalityType
<1>2. T \subseteq Nat /\ T # {}
  BY ZenonT(30), <1>1
<1>3. PICK j \in I : \A k \in I : Cardinality(Above(j)) <= Cardinality(Above(k))
  <2> HIDE DEF Above
  <2>1. PICK n \in T : \A m \in T : n <= m
    BY ZenonT(30), <1>2, LeastNatural
  <2> QED
    BY <2>1
<1>4. ASSUME NEW k \in I, s[k] > s[j]
      PROVE  FALSE
  <2>1. Above(k) \in SUBSET Above(j) /\ k \in Above(j) /\ k \notin Above(k)
    BY <1>4
  <2> HIDE DEF Above
  <2>2. Cardinality(Above(k)) <= Cardinality(Above(j)) /\ Cardinality(Above(j)) # Cardinality(Above(k))
    BY <2>1, <1>1, FS_Subset
  <2> QED
    BY <2>2, <1>1, <1>3
<1> QED
  BY <1>4

(* The k-th smallest element exists: it is an element of the sequence. *)
LEMMA KthSmallestType ==
  ASSUME NEW s \in Seq(Nat), NEW k \in 1..Len(s)
  PROVE  KthSmallest(s, k) \in Nat
<1> DEFINE Upto(x)  == {i \in DOMAIN s : s[i] <= x}
<1> DEFINE Below(x) == {i \in DOMAIN s : s[i] < x}
<1> DEFINE V == {s[i] : i \in DOMAIN s}
<1> DEFINE T == {x \in V : Cardinality(Upto(x)) >= k}
<1>1. /\ DOMAIN s = 1..Len(s) /\ Len(s) \in Nat
      /\ IsFiniteSet(DOMAIN s) /\ Cardinality(DOMAIN s) = Len(s)
      /\ \A i \in DOMAIN s : s[i] \in Nat
  <2>1. DOMAIN s = 1..Len(s) /\ Len(s) \in Nat /\ \A i \in DOMAIN s : s[i] \in Nat
    BY LenProperties, ElementOfSeq
  <2>2. IsFiniteSet(1..Len(s)) /\ Cardinality(1..Len(s)) = Len(s)
    BY SMTT(40), <2>1, FS_Interval
  <2> QED
    BY <2>1, <2>2
<1>2. PICK j \in DOMAIN s : \A i \in DOMAIN s : s[i] <= s[j]
  BY ZenonT(30), <1>1, GreatestIndex
<1>3. Upto(s[j]) = DOMAIN s
  BY ZenonT(30), <1>2
<1>4. T \subseteq Nat /\ T # {}
  <2>1. V \subseteq Nat /\ s[j] \in V
    BY <1>1
  <2>2. Cardinality(Upto(s[j])) >= k
    <3> HIDE DEF Upto
    <3> QED  BY <1>3, <1>1
  <2> QED
    BY ZenonT(30), <2>1, <2>2
<1>5. PICK x \in T : \A y \in T : x <= y
  <2> HIDE DEF T
  <2> QED  BY ZenonT(30), <1>4, LeastNatural
<1>6. Cardinality(Below(x)) < k
  <2>1. SUFFICES ASSUME ~ (Cardinality(Below(x)) < k)
                 PROVE  FALSE
    OBVIOUS
  <2>2. IsFiniteSet(Below(x)) /\ Cardinality(Below(x)) \in Nat
    BY <1>1, FS_Subset, FS_CardinalityType
  <2>3. Below(x) # {}
    <3>1. Cardinality(Below(x)) # 0
      BY <2>1, <2>2
    <3> QED
      BY <3>1, FS_EmptySet, ZenonT(30)
  <2>4. PICK m \in Below(x) : \A i \in Below(x) : s[i] <= s[m]
    BY ZenonT(30), <2>2, <2>3, <1>1, GreatestIndex
  <2>5. s[m] \in V /\ s[m] < x /\ s[m] \in Nat
    BY <2>4, <1>1
  <2>6. Below(x) \in SUBSET Upto(s[m]) /\ IsFiniteSet(Upto(s[m]))
    BY <2>4, <1>1, FS_Subset
  <2>7. Cardinality(Upto(s[m])) >= k
    <3>1. Cardinality(Below(x)) <= Cardinality(Upto(s[m]))
      <4> HIDE DEF Upto, Below
      <4> QED  BY <2>6, FS_Subset
    <3>2. Cardinality(Upto(s[m])) \in Nat
      BY <2>6, FS_CardinalityType
    <3> QED
      BY <3>1, <3>2, <2>1, <2>2
  <2>8. s[m] \in T
    BY <2>5, <2>7
  <2>9. x \in Nat /\ x <= s[m]
    BY ZenonT(30), <2>8, <1>5, <1>4
  <2> QED
    BY <2>9, <2>5
<1>7. \E v \in V : Cardinality(Below(v)) < k /\ Cardinality(Upto(v)) >= k
  BY ZenonT(30), <1>5, <1>6
<1>8. KthSmallest(s, k) \in V
  BY ZenonT(30), <1>7 DEF KthSmallest
<1> QED
  BY <1>8, <1>1

(* The median of any sequence of weights is a natural. *)
LEMMA MedianType ==
  ASSUME NEW s \in Seq(Nat)
  PROVE  Median(s) \in Nat
<1>1. Len(s) \in Nat /\ (s = <<>> <=> Len(s) = 0)
  BY EmptySeq, LenProperties
<1>2. CASE s = <<>>
  BY <1>2 DEF Median
<1>3. CASE s # <<>> /\ Len(s) % 2 = 1
  <2>1. Len(s) \div 2 + 1 \in 1..Len(s)
    BY <1>1, <1>3
  <2> QED
    BY <2>1, <1>3, KthSmallestType DEF Median
<1>4. CASE s # <<>> /\ Len(s) % 2 # 1
  <2>1. Len(s) \div 2 \in 1..Len(s) /\ Len(s) \div 2 + 1 \in 1..Len(s)
    BY <1>1, <1>4
  <2>2. KthSmallest(s, Len(s) \div 2) \in Nat /\ KthSmallest(s, Len(s) \div 2 + 1) \in Nat
    BY <2>1, KthSmallestType
  <2> QED
    BY <2>2, <1>4 DEF Median
<1> QED
  BY <1>2, <1>3, <1>4

LEMMA LastNType ==
  ASSUME NEW S, NEW s \in Seq(S), NEW n \in Nat
  PROVE  LastN(s, n) \in Seq(S)
<1>1. Len(s) \in Nat /\ AtLeast(1, Len(s) - n + 1) \in Int /\ AtLeast(1, Len(s) - n + 1) >= 1
  BY LenProperties DEF AtLeast
<1> QED
  BY <1>1, SubSeqProperties, ElementOfSeq DEF LastN

(* The effective median never falls below the full reward zone. *)
LEMMA EffectiveMedianType ==
  ASSUME NEW a \in Nat, NEW b \in Nat, NEW v \in Nat
  PROVE  EffectiveMedian(a, b, v) \in Nat /\ EffectiveMedian(a, b, v) >= FULL_REWARD_ZONE
  BY WeightAssumption DEF EffectiveMedian, LongTermEffective, AtLeast, AtMost

LEMMA NextLongTermWeightType ==
  ASSUME NEW w \in Nat, NEW b \in Nat, NEW v \in Nat
  PROVE  NextLongTermWeight(w, b, v) \in Nat
  BY WeightAssumption DEF NextLongTermWeight, LongTermEffective, AtLeast, AtMost

-----------------------------------------------------------------------------
(* The weight cache. *)
CacheType == [tip : Seq(Block), window : Seq(Nat)]

(* The contents of k belong to the block it is filed under. *)
Keyed(k) == k.tip # NoTip => k.window = LongWindow(k.tip)

LEMMA FunctionIsSeq ==
  ASSUME NEW S, NEW n \in Nat, NEW f \in [1..n -> S]
  PROVE  f \in Seq(S)
  BY SeqDef, ZenonT(30)

LEMMA MapType ==
  ASSUME NEW c \in Seq(Block)
  PROVE  /\ WeightsOf(c) \in Seq(Nat)
         /\ LongWeightsOf(c) \in Seq(Nat)
         /\ Len(LongWeightsOf(c)) = Len(c)
         /\ \A i \in 1..Len(c) : LongWeightsOf(c)[i] = c[i].longWeight
<1>1. Len(c) \in Nat /\ \A i \in 1..Len(c) : c[i] \in Block
  BY LenProperties, ElementOfSeq
<1>2. \A i \in 1..Len(c) : c[i].weight \in Nat /\ c[i].longWeight \in Nat
  BY <1>1 DEF Block
<1>3. /\ WeightsOf(c) \in [1..Len(c) -> Nat]
      /\ LongWeightsOf(c) \in [1..Len(c) -> Nat]
  BY <1>2 DEF WeightsOf, LongWeightsOf
<1>4. WeightsOf(c) \in Seq(Nat) /\ LongWeightsOf(c) \in Seq(Nat)
  BY <1>1, <1>3, FunctionIsSeq, ZenonT(30)
<1>5. Len(LongWeightsOf(c)) = Len(c)
  <2>1. DOMAIN LongWeightsOf(c) = 1..Len(c)
    BY DEF LongWeightsOf
  <2>2. DOMAIN LongWeightsOf(c) = 1..Len(LongWeightsOf(c)) /\ Len(LongWeightsOf(c)) \in Nat
    BY <1>4, LenProperties
  <2> QED
    BY <2>1, <2>2, <1>1
<1>6. \A i \in 1..Len(c) : LongWeightsOf(c)[i] = c[i].longWeight
  BY DEF LongWeightsOf
<1> QED
  BY <1>4, <1>5, <1>6

(* Where the last n of l elements begin. *)
LEMMA LastNStart ==
  ASSUME NEW l \in Nat, NEW n \in Nat, n > 0
  PROVE  /\ AtLeast(1, l - n + 1) \in 1..(l + 1)
         /\ l - AtLeast(1, l - n + 1) + 1 = AtMost(n, l)
         /\ AtMost(n, l) \in 0..l
  BY SMTT(30) DEF AtLeast, AtMost

(* What LastN returns, element by element. *)
LEMMA LastNElements ==
  ASSUME NEW s \in Seq(Nat), NEW n \in Nat \ {0}
  PROVE  /\ LastN(s, n) \in Seq(Nat)
         /\ Len(LastN(s, n)) = AtMost(n, Len(s))
         /\ \A i \in 1..Len(LastN(s, n)) :
              LastN(s, n)[i] = s[i + (Len(s) - AtMost(n, Len(s)))]
<1> DEFINE a == AtLeast(1, Len(s) - n + 1)
<1>1. Len(s) \in Nat /\ \A i \in 1..Len(s) : s[i] \in Nat
  BY LenProperties, ElementOfSeq
<1>2. /\ a \in Nat /\ a >= 1 /\ a <= Len(s) + 1
      /\ Len(s) - a + 1 = AtMost(n, Len(s))
      /\ a - 1 = Len(s) - AtMost(n, Len(s))
  <2>1. a \in 1..(Len(s) + 1) /\ Len(s) - a + 1 = AtMost(n, Len(s)) /\ AtMost(n, Len(s)) \in 0..Len(s)
    <3>1. n \in Nat /\ n > 0
      OBVIOUS
    <3> QED
      BY ZenonT(30), <3>1, <1>1, LastNStart
  <2> HIDE DEF a
  <2> QED
    BY <2>1, <1>1
<1>3. LastN(s, n) = SubSeq(s, a, Len(s))
  BY DEF LastN
<1> HIDE DEF a
<1>4. \A i \in a..Len(s) : s[i] \in Nat
  BY <1>1, <1>2
<1>5. /\ SubSeq(s, a, Len(s)) \in Seq(Nat)
      /\ Len(SubSeq(s, a, Len(s))) = IF a <= Len(s) THEN Len(s) - a + 1 ELSE 0
      /\ \A i \in 1..(Len(s) - a + 1) : SubSeq(s, a, Len(s))[i] = s[a + i - 1]
  BY <1>1, <1>2, <1>4, SubSeqProperties
<1>6. Len(SubSeq(s, a, Len(s))) = Len(s) - a + 1
  BY <1>1, <1>2, <1>5
<1>7. \A i \in 1..(Len(s) - a + 1) : a + i - 1 = i + (Len(s) - AtMost(n, Len(s)))
  <2>1. AtMost(n, Len(s)) \in Int
    BY <1>1, <1>2
  <2> QED
    BY <1>1, <1>2, <2>1
<1> QED
  BY <1>2, <1>3, <1>5, <1>6, <1>7

LEMMA LongWindowElements ==
  ASSUME NEW c \in Seq(Block)
  PROVE  /\ LongWindow(c) \in Seq(Nat)
         /\ Len(LongWindow(c)) = AtMost(LONG_TERM_WINDOW, Len(c))
         /\ \A i \in 1..Len(LongWindow(c)) :
              LongWindow(c)[i] = c[i + (Len(c) - AtMost(LONG_TERM_WINDOW, Len(c)))].longWeight
<1>1. /\ LongWeightsOf(c) \in Seq(Nat)
      /\ Len(LongWeightsOf(c)) = Len(c)
      /\ \A i \in 1..Len(c) : LongWeightsOf(c)[i] = c[i].longWeight
  BY MapType
<1>2. Len(c) \in Nat
  BY LenProperties
<1>3. /\ LongWindow(c) \in Seq(Nat)
      /\ Len(LongWindow(c)) = AtMost(LONG_TERM_WINDOW, Len(c))
      /\ \A i \in 1..Len(LongWindow(c)) :
           LongWindow(c)[i] = LongWeightsOf(c)[i + (Len(c) - AtMost(LONG_TERM_WINDOW, Len(c)))]
  BY <1>1, LastNElements, WeightAssumption DEF LongWindow
<1>4. \A i \in 1..Len(LongWindow(c)) :
        i + (Len(c) - AtMost(LONG_TERM_WINDOW, Len(c))) \in 1..Len(c)
  BY <1>2, <1>3, WeightAssumption DEF AtMost
<1> QED
  BY ZenonT(30), <1>1, <1>3, <1>4

(* A full window moved up by one block. *)
LEMMA ShiftedWindow ==
  ASSUME NEW c \in Seq(Block), Len(c) > 1,
         NEW p \in Seq(Block), p = SubSeq(c, 1, Len(c) - 1),
         AtMost(LONG_TERM_WINDOW, Len(c)) = Len(LongWindow(p))
  PROVE  LastN(Append(LongWindow(p), c[Len(c)].longWeight), LONG_TERM_WINDOW) = LongWindow(c)
<1> DEFINE W == LONG_TERM_WINDOW
<1> DEFINE x == c[Len(c)].longWeight
<1> DEFINE a == Append(LongWindow(p), x)
<1>1. Len(c) \in Nat /\ \A i \in 1..Len(c) : c[i] \in Block
  BY LenProperties, ElementOfSeq
<1>2. x \in Nat
  BY <1>1 DEF Block
<1>3. Len(p) = Len(c) - 1 /\ \A i \in 1..(Len(c) - 1) : p[i] = c[i]
  BY <1>1, SubSeqProperties
<1>4. W \in Nat \ {0}
  BY WeightAssumption
<1>5. Len(LongWindow(p)) = W /\ W <= Len(c) - 1
  <2>1. Len(LongWindow(p)) = AtMost(W, Len(p))
    BY ZenonT(30), LongWindowElements
  <2> QED
    BY <2>1, <1>1, <1>3, <1>4 DEF AtMost
<1>6. \A i \in 1..W : LongWindow(p)[i] = c[i + (Len(c) - 1 - W)].longWeight
  <2>1. \A i \in 1..W : LongWindow(p)[i] = p[i + (Len(p) - W)].longWeight
    BY ZenonT(30), <1>5, <1>3, <1>1, <1>4, LongWindowElements DEF AtMost
  <2>2. \A i \in 1..W : i + (Len(p) - W) \in 1..(Len(c) - 1)
    BY <1>1, <1>3, <1>4, <1>5
  <2> QED
    BY <2>1, <2>2, <1>3
<1>7. /\ a \in Seq(Nat) /\ Len(a) = W + 1
      /\ \A i \in 1..W : a[i] = LongWindow(p)[i]
      /\ a[W + 1] = x
  <2>1. LongWindow(p) \in Seq(Nat)
    BY ZenonT(30), LongWindowElements
  <2> HIDE DEF x
  <2>2. W \in Nat
    BY <1>4
  <2> QED
    BY <2>1, <2>2, <1>2, <1>5, AppendProperties
<1> HIDE DEF a
<1>8. /\ LastN(a, W) \in Seq(Nat)
      /\ Len(LastN(a, W)) = W
      /\ \A i \in 1..W : LastN(a, W)[i] = a[i + 1]
  <2>1. AtMost(W, Len(a)) = W /\ Len(a) - W = 1
    BY <1>4, <1>7 DEF AtMost
  <2>2. /\ LastN(a, W) \in Seq(Nat)
        /\ Len(LastN(a, W)) = AtMost(W, Len(a))
        /\ \A i \in 1..Len(LastN(a, W)) : LastN(a, W)[i] = a[i + (Len(a) - AtMost(W, Len(a)))]
    <3> HIDE DEF W
    <3> QED
      BY ZenonT(30), <1>4, <1>7, LastNElements
  <2> QED
    BY <2>1, <2>2
<1>9. /\ LongWindow(c) \in Seq(Nat)
      /\ Len(LongWindow(c)) = W
      /\ \A i \in 1..W : LongWindow(c)[i] = c[i + (Len(c) - W)].longWeight
  <2>1. AtMost(W, Len(c)) = W
    BY <1>1, <1>4, <1>5 DEF AtMost
  <2> QED
    BY <2>1, LongWindowElements
<1>10. \A i \in 1..W : LastN(a, W)[i] = LongWindow(c)[i]
  <2> SUFFICES ASSUME NEW i \in 1..W
               PROVE  LastN(a, W)[i] = LongWindow(c)[i]
    OBVIOUS
  <2>1. CASE i = W
    <3>1. i + (Len(c) - W) = Len(c)
      BY <2>1, <1>1, <1>4
    <3> QED
      BY <2>1, <3>1, <1>7, <1>8, <1>9
  <2>2. CASE i # W
    <3>1. i + 1 \in 1..W /\ i + 1 + (Len(c) - 1 - W) = i + (Len(c) - W)
      BY <2>2, <1>1, <1>4
    <3> QED
      BY ZenonT(40), <3>1, <1>6, <1>7, <1>8, <1>9
  <2> QED
    BY <2>1, <2>2
<1>11. LastN(a, W) = LongWindow(c)
  BY <1>8, <1>9, <1>10, SeqEqual
<1> QED
  BY <1>11 DEF a

(* A request yields the window at the tip and leaves the cache keyed. *)
LEMMA RequestRight ==
  ASSUME NEW c \in Seq(Block), Len(c) >= 1,
         NEW k \in CacheType, Keyed(k)
  PROVE  /\ Request(c, k) \in CacheType
         /\ Request(c, k).window = LongWindow(c)
         /\ Keyed(Request(c, k))
<1>1. k.tip \in Seq(Block) /\ k.window \in Seq(Nat)
  BY DEF CacheType
<1>2. LongWindow(c) \in Seq(Nat)
  BY LongWindowElements
<1>3. c # <<>> /\ <<>> \in Seq(Block)
  BY EmptySeq
<1>4. CASE Hit(c, k)
  BY <1>4, <1>3 DEF Request, Hit, Keyed, NoTip
<1>5. CASE ~Hit(c, k) /\ Shift(c, k)
  <2> DEFINE w == LastN(Append(k.window, c[Len(c)].longWeight), LONG_TERM_WINDOW)
  <2>1. k.tip # NoTip
    <3>1. Len(c) \in Nat /\ Len(c) > 1 /\ \A i \in 1..(Len(c) - 1) : c[i] \in Block
      BY <1>5, LenProperties, ElementOfSeq DEF Shift
    <3>2. Len(SubSeq(c, 1, Len(c) - 1)) = Len(c) - 1
      BY <3>1, SubSeqProperties
    <3>3. Len(k.tip) # 0
      BY <3>1, <3>2, <1>5 DEF Shift
    <3> QED
      BY <3>3, <1>1, EmptySeq DEF NoTip
  <2>2. k.window = LongWindow(k.tip)
    BY <2>1 DEF Keyed
  <2>3. w = LongWindow(c)
    BY ZenonT(30), <2>2, <1>1, <1>5, ShiftedWindow DEF Shift, SameCount
  <2>4. Request(c, k) = [tip |-> c, window |-> w]
    BY <1>5 DEF Request
  <2> HIDE DEF w
  <2> QED
    BY <2>3, <2>4, <1>2 DEF CacheType, Keyed
<1>6. CASE ~Hit(c, k) /\ ~Shift(c, k)
  <2>1. Request(c, k) = [tip |-> IF SameCount(c, k) THEN c ELSE NoTip,
                         window |-> LongWindow(c)]
    BY <1>6 DEF Request
  <2> QED
    BY <2>1, <1>2, <1>3 DEF CacheType, Keyed, NoTip
<1> QED
  BY <1>4, <1>5, <1>6
-----------------------------------------------------------------------------
(* The median of any chain is a natural, and so are the limits from it. *)
LEMMA LimitsType ==
  ASSUME NEW c \in Seq(Block), Len(c) \in 1..MaxHeight
  PROVE  /\ Median(LongWindow(c)) \in Nat
         /\ LimitsFor(c, Median(LongWindow(c))) \in [effective : Nat, median : Nat]
<1>1. /\ LongWindow(c) \in Seq(Nat)
      /\ LastN(WeightsOf(c), REWARD_BLOCKS_WINDOW) \in Seq(Nat)
  BY LongWindowElements, MapType, LastNType, WeightAssumption
<1>2. /\ Median(LongWindow(c)) \in Nat
      /\ Median(LastN(WeightsOf(c), REWARD_BLOCKS_WINDOW)) \in Nat
  BY <1>1, MedianType
<1>3. VersionAt(Len(c)) \in Nat
  BY WeightedChainAssumption
<1>4. LongTermEffective(Median(LongWindow(c))) \in Nat
  BY <1>2, WeightAssumption DEF LongTermEffective, AtLeast
<1> QED
  BY ZenonT(30), <1>2, <1>3, <1>4, EffectiveMedianType DEF LimitsFor

LEMMA StoredType ==
  ASSUME NEW c \in Seq(Block), Len(c) \in 1..MaxHeight, NEW w \in Weights
  PROVE  Stored(c, w, Median(LongWindow(c))) \in Block
<1>1. w \in Nat /\ VersionAt(Len(c)) \in Nat
  BY WeightedChainAssumption
<1>2. Median(LongWindow(c)) \in Nat
  BY LimitsType
<1> QED
  BY <1>1, <1>2, NextLongTermWeightType DEF Stored, Block

(* The inductive invariant: besides the properties themselves nothing is   *)
(* needed, because a keyed cache is all that a request relies on.          *)
Inv ==
  /\ TypeOK
  /\ CacheKeyed
  /\ EstimateWindow
  /\ LimitsCurrent

(* After update_next_cumulative_weight_limit for the chain it leaves, the  *)
(* cache and the limits are those of that chain.                           *)
LEMMA UpdateRight ==
  ASSUME NEW k \in CacheType, Keyed(k),
         chain' \in Seq(Block), Len(chain') \in 1..MaxHeight,
         onDisk' \in Seq(Block), Len(onDisk') \in 0..MaxHeight,
         UpdateLimits(chain', k)
  PROVE  Inv' /\ limits' = LimitsFor(chain', Median(LongWindow(chain')))
<1>1. /\ cache' \in CacheType
      /\ cache'.window = LongWindow(chain')
      /\ Keyed(cache')
  BY RequestRight DEF UpdateLimits
<1>2. limits' = LimitsFor(chain', Median(LongWindow(chain')))
  BY <1>1 DEF UpdateLimits
<1>3. limits' \in [effective : Nat, median : Nat]
  BY <1>2, LimitsType
<1>4. stale' = FALSE
  BY DEF UpdateLimits
<1> QED
  BY ZenonT(30), <1>1, <1>2, <1>3, <1>4
  DEF Inv, TypeOK, CacheKeyed, EstimateWindow, LimitsCurrent, CacheType, Keyed

LEMMA InitInv ==
  Init => Inv
<1> SUFFICES ASSUME Init
             PROVE  Inv
  OBVIOUS
<1>1. Genesis \in Block
  BY WeightedChainAssumption DEF Genesis, Block
<1>2. chain \in Seq(Block) /\ Len(chain) = 1 /\ 1 \in 1..MaxHeight
  BY <1>1, WeightedChainAssumption DEF Init
<1>3. NoCache \in CacheType /\ Keyed(NoCache)
  BY EmptySeq DEF NoCache, CacheType, Keyed, NoTip
<1>4. /\ cache \in CacheType
      /\ cache.window = LongWindow(chain)
      /\ Keyed(cache)
  <2>1. cache = Request(chain, NoCache) /\ Len(chain) >= 1
    BY <1>2 DEF Init
  <2> QED
    BY <1>2, <1>3, <2>1, RequestRight
<1>5. limits = LimitsFor(chain, Median(LongWindow(chain)))
  BY <1>4 DEF Init
<1>6. limits \in [effective : Nat, median : Nat]
  BY ZenonT(30), <1>2, <1>5, LimitsType
<1>7. onDisk \in Seq(Block) /\ Len(onDisk) \in 0..MaxHeight
  BY WeightedChainAssumption, EmptySeq DEF Init
<1> QED
  BY ZenonT(30), <1>2, <1>4, <1>5, <1>6, <1>7
  DEF Init, Inv, TypeOK, CacheKeyed, EstimateWindow, LimitsCurrent, CacheType, Keyed

(* The operators of the abstract specification are those of this one. *)
LEMMA SameMedianOf ==
  ASSUME NEW s
  PROVE  Ideal!Median(s) = Median(s)
<1>1. ASSUME NEW k
      PROVE  Ideal!KthSmallest(s, k) = KthSmallest(s, k)
  BY ZenonT(30) DEF Ideal!KthSmallest, KthSmallest, Ideal!Cardinality, Cardinality
<1> QED
  BY <1>1 DEF Ideal!Median, Median

LEMMA SameLastN ==
  ASSUME NEW s, NEW n
  PROVE  Ideal!LastN(s, n) = LastN(s, n)
  BY ZenonT(30) DEF Ideal!LastN, LastN, Ideal!AtLeast, AtLeast

LEMMA SameMedian ==
  ASSUME NEW c
  PROVE  Ideal!LongMedian(c) = Median(LongWindow(c))
<1>1. Ideal!LongWindow(c) = LongWindow(c)
  BY SameLastN, ZenonT(30) DEF Ideal!LongWindow, LongWindow, Ideal!LongWeightsOf, LongWeightsOf
<1> QED
  BY <1>1, SameMedianOf, ZenonT(30) DEF Ideal!LongMedian

LEMMA SameBlock ==
  ASSUME NEW c, NEW w, NEW m
  PROVE  Ideal!Stored(c, w, m) = Stored(c, w, m)
  BY ZenonT(30)
  DEF Ideal!Stored, Stored, Ideal!NextLongTermWeight, NextLongTermWeight,
      Ideal!LongTermEffective, LongTermEffective, Ideal!AtLeast, AtLeast, Ideal!AtMost, AtMost

LEMMA SameLimits ==
  ASSUME NEW c, NEW m
  PROVE  Ideal!LimitsFor(c, m) = LimitsFor(c, m)
<1> DEFINE short == Median(LastN(WeightsOf(c), REWARD_BLOCKS_WINDOW))
<1>1. Ideal!Median(Ideal!LastN(Ideal!WeightsOf(c), REWARD_BLOCKS_WINDOW)) = short
  BY SameLastN, SameMedianOf, ZenonT(30) DEF Ideal!WeightsOf, WeightsOf
<1> HIDE DEF short
<1>2. Ideal!LongTermEffective(m) = LongTermEffective(m)
  BY ZenonT(30) DEF Ideal!LongTermEffective, LongTermEffective, Ideal!AtLeast, AtLeast
<1>3. Ideal!EffectiveMedian(short, m, VersionAt(Len(c))) = EffectiveMedian(short, m, VersionAt(Len(c)))
  BY <1>2, ZenonT(30) DEF Ideal!EffectiveMedian, EffectiveMedian, Ideal!AtLeast, AtLeast, Ideal!AtMost, AtMost
<1>4. /\ Ideal!LimitsFor(c, m) =
           [effective |-> Ideal!LongTermEffective(m),
            median |-> Ideal!EffectiveMedian(short, m, VersionAt(Len(c)))]
      /\ LimitsFor(c, m) =
           [effective |-> LongTermEffective(m),
            median |-> EffectiveMedian(short, m, VersionAt(Len(c)))]
  BY <1>1, ZenonT(30) DEF Ideal!LimitsFor, LimitsFor, short
<1> QED
  BY <1>2, <1>3, <1>4, ZenonT(30)

(* From a state of the invariant, each action that calls update_next_...   *)
(* or asks for a window does what LongTermMedian asks of it and keeps the  *)
(* invariant.                                                              *)
LEMMA CacheOk ==
  ASSUME Inv
  PROVE  /\ cache \in CacheType /\ Keyed(cache)
         /\ Request(chain, cache) \in CacheType
         /\ Request(chain, cache).window = LongWindow(chain)
         /\ Keyed(Request(chain, cache))
<1>1. cache \in CacheType /\ Keyed(cache) /\ chain \in Seq(Block) /\ Len(chain) >= 1
  BY DEF Inv, TypeOK, CacheKeyed, CacheType, Keyed
<1> QED
  BY <1>1, RequestRight

LEMMA AddBlockStep ==
  ASSUME Inv, NEW w \in Weights, AddBlock(w)
  PROVE  Inv' /\ Ideal!AddBlock(w)
<1> DEFINE k == Request(chain, cache)
<1>1. k \in CacheType /\ k.window = LongWindow(chain) /\ Keyed(k)
  BY CacheOk
<1>2. /\ chain \in Seq(Block) /\ Len(chain) \in 1..MaxHeight
      /\ onDisk \in Seq(Block) /\ Len(onDisk) \in 0..MaxHeight
  BY DEF Inv, TypeOK
<1>3. /\ onDisk # <<>> /\ Len(chain) < MaxHeight
      /\ chain' = Append(chain, Stored(chain, w, Median(k.window)))
      /\ UpdateLimits(chain', k)
      /\ onDisk' = onDisk
  BY DEF AddBlock
<1> HIDE DEF k
<1>4. chain' = Append(chain, Stored(chain, w, Median(LongWindow(chain))))
  BY <1>1, <1>3
<1>5. chain' \in Seq(Block) /\ Len(chain') \in 1..MaxHeight
  <2>1. Stored(chain, w, Median(LongWindow(chain))) \in Block
    BY <1>2, StoredType
  <2>2. chain' \in Seq(Block) /\ Len(chain') = Len(chain) + 1
    BY <1>2, <1>4, <2>1, AppendProperties
  <2> QED
    BY <2>2, <1>2, <1>3, WeightedChainAssumption
<1>6. Inv' /\ limits' = LimitsFor(chain', Median(LongWindow(chain')))
  BY <1>1, <1>2, <1>3, <1>5, UpdateRight
<1> QED
  BY <1>3, <1>4, <1>6, SameMedian, SameBlock, SameLimits DEF Ideal!AddBlock

LEMMA PopBlocksStep ==
  ASSUME Inv, NEW n \in 1..MaxHeight, PopBlocks(n)
  PROVE  Inv' /\ Ideal!PopBlocks(n)
<1>1. /\ chain \in Seq(Block) /\ Len(chain) \in 1..MaxHeight
      /\ onDisk \in Seq(Block) /\ Len(onDisk) \in 0..MaxHeight
  BY DEF Inv, TypeOK
<1>2. /\ n < Len(chain)
      /\ chain' = SubSeq(chain, 1, Len(chain) - n)
      /\ UpdateLimits(chain', cache)
      /\ onDisk' = onDisk
  BY DEF PopBlocks
<1>3. Len(chain) - n \in 1..Len(chain) /\ \A i \in 1..(Len(chain) - n) : chain[i] \in Block
  BY <1>1, <1>2, ElementOfSeq
<1>4. chain' \in Seq(Block) /\ Len(chain') \in 1..MaxHeight
  <2>1. chain' \in Seq(Block) /\ Len(chain') = Len(chain) - n
    BY <1>1, <1>2, <1>3, SubSeqProperties
  <2> QED
    BY <2>1, <1>1, <1>3, WeightedChainAssumption
<1>5. Inv' /\ limits' = LimitsFor(chain', Median(LongWindow(chain')))
  BY <1>1, <1>2, <1>4, CacheOk, UpdateRight
<1> QED
  BY <1>2, <1>5, SameMedian, SameLimits DEF Ideal!PopBlocks

LEMMA RestartStep ==
  ASSUME Inv, Restart
  PROVE  Inv' /\ Ideal!Restart
<1>1. /\ chain' = chain /\ onDisk' = onDisk /\ onDisk = <<>>
      /\ UpdateLimits(chain', NoCache)
  BY DEF Restart
<1>2. NoCache \in CacheType /\ Keyed(NoCache)
  BY EmptySeq DEF NoCache, CacheType, Keyed, NoTip
<1>3. /\ chain' \in Seq(Block) /\ Len(chain') \in 1..MaxHeight
      /\ onDisk' \in Seq(Block) /\ Len(onDisk') \in 0..MaxHeight
  BY <1>1 DEF Inv, TypeOK
<1>4. Inv' /\ limits' = LimitsFor(chain', Median(LongWindow(chain')))
  BY <1>1, <1>2, <1>3, UpdateRight
<1> QED
  BY <1>1, <1>4, SameMedian, SameLimits DEF Ideal!Restart

LEMMA AbortBatchStep ==
  ASSUME Inv, AbortBatch
  PROVE  Inv' /\ Ideal!AbortBatch
<1>1. /\ onDisk # <<>> /\ chain' = onDisk /\ onDisk' = <<>>
      /\ cache' = Request(chain, cache) /\ stale' = TRUE /\ limits' = limits
  BY DEF AbortBatch
<1>2. cache' \in CacheType /\ Keyed(cache')
  BY <1>1, CacheOk
<1>3. Len(onDisk) # 0 /\ Len(onDisk) \in 1..MaxHeight /\ onDisk \in Seq(Block)
  BY <1>1, EmptySeq DEF Inv, TypeOK
<1>4. onDisk' \in Seq(Block) /\ Len(onDisk') \in 0..MaxHeight
  BY <1>1, EmptySeq, WeightedChainAssumption
<1> QED
  BY <1>1, <1>2, <1>3, <1>4
  DEF Inv, TypeOK, CacheKeyed, EstimateWindow, LimitsCurrent, CacheType, Keyed, Ideal!AbortBatch

LEMMA BatchStep ==
  ASSUME Inv, StartBatch \/ CommitBatch
  PROVE  Inv' /\ (Ideal!StartBatch \/ Ideal!CommitBatch)
<1>1. /\ chain' = chain /\ limits' = limits /\ cache' = cache /\ stale' = stale
      /\ onDisk' = chain \/ onDisk' = <<>>
  BY DEF StartBatch, CommitBatch
<1>2. onDisk' \in Seq(Block) /\ Len(onDisk') \in 0..MaxHeight
  <2>1. chain \in Seq(Block) /\ Len(chain) \in 1..MaxHeight
    BY DEF Inv, TypeOK
  <2>2. <<>> \in Seq(Block) /\ Len(<<>>) = 0 /\ MaxHeight \in Nat
    BY EmptySeq, WeightedChainAssumption
  <2>3. CASE onDisk' = chain
    BY <2>1, <2>2, <2>3
  <2>4. CASE onDisk' = <<>>
    BY <2>2, <2>4
  <2> QED
    BY <1>1, <2>3, <2>4
<1>3. Inv'
  BY <1>1, <1>2 DEF Inv, TypeOK, CacheKeyed, EstimateWindow, LimitsCurrent
<1> QED
  BY <1>3 DEF StartBatch, CommitBatch, Ideal!StartBatch, Ideal!CommitBatch

(* Every step keeps the invariant and is a step of LongTermMedian. *)
LEMMA StepOk ==
  Inv /\ [Next]_vars => Inv' /\ [Ideal!Next]_(Ideal!vars)
<1> SUFFICES ASSUME Inv, [Next]_vars
             PROVE  Inv' /\ [Ideal!Next]_(Ideal!vars)
  OBVIOUS
<1>1. CASE UNCHANGED vars
  BY <1>1 DEF vars, Inv, TypeOK, CacheKeyed, EstimateWindow, LimitsCurrent, Ideal!vars
<1>2. CASE StartBatch \/ CommitBatch
  BY <1>2, BatchStep DEF Ideal!Next
<1>3. CASE AbortBatch
  BY <1>3, AbortBatchStep DEF Ideal!Next
<1>4. CASE Restart
  BY <1>4, RestartStep DEF Ideal!Next
<1>5. ASSUME NEW w \in Weights, AddBlock(w)
      PROVE  Inv' /\ Ideal!Next
  BY <1>5, AddBlockStep DEF Ideal!Next
<1>6. ASSUME NEW n \in 1..MaxHeight, PopBlocks(n)
      PROVE  Inv' /\ Ideal!Next
  BY <1>6, PopBlocksStep DEF Ideal!Next
<1> QED
  BY <1>1, <1>2, <1>3, <1>4, <1>5, <1>6 DEF Next

(* The invariant holds throughout. *)
THEOREM CacheInvariant ==
  Spec => []Inv
  BY InitInv, StepOk, PTL DEF Spec

(* The cache is always filed under the block its contents end at. *)
THEOREM CacheFiledRight ==
  Spec => []CacheKeyed
<1>1. Inv => CacheKeyed
  BY DEF Inv
<1> QED
  BY <1>1, CacheInvariant, PTL

(* A fee estimate that copies the cache finds the window at the tip there, *)
(* unless a batch was just aborted.                                        *)
THEOREM EstimateReadsTip ==
  Spec => []EstimateWindow
<1>1. Inv => EstimateWindow
  BY DEF Inv
<1> QED
  BY <1>1, CacheInvariant, PTL

(* The next block is checked against the medians of the chain it extends,  *)
(* unless a batch was just aborted.                                        *)
THEOREM LimitsOfTheChain ==
  Spec => []LimitsCurrent
<1>1. Inv => LimitsCurrent
  BY DEF Inv
<1> QED
  BY <1>1, CacheInvariant, PTL

(* Answering from the cache implements LongTermMedian, for every window    *)
(* and every history of the chain.                                         *)
THEOREM CacheImplementsMedian ==
  Spec => ImplementsLongTermMedian
<1>1. Init => Ideal!Init
  <2> SUFFICES ASSUME Init
               PROVE  Ideal!Init
    OBVIOUS
  <2>1. limits = LimitsFor(chain, Median(LongWindow(chain)))
    BY InitInv DEF Inv, LimitsCurrent, Init
  <2> QED
    BY <2>1, SameMedian, SameLimits DEF Init, Ideal!Init, Genesis, Ideal!Genesis
<1> QED
  BY <1>1, StepOk, CacheInvariant, PTL DEF Spec, Ideal!Spec, ImplementsLongTermMedian

-----------------------------------------------------------------------------
(* The supply. *)
(* The schedule falls from CRYLO_START_REWARD to CRYLO_MIN_REWARD and never *)
(* leaves that range: reward_drop cannot underflow base_reward.            *)
LEMMA ScheduledRewardBounds ==
  ASSUME NEW h \in Nat
  PROVE  /\ ScheduledReward(h) \in Nat
         /\ CRYLO_MIN_REWARD <= ScheduledReward(h)
         /\ ScheduledReward(h) <= CRYLO_START_REWARD
  BY SupplyAssumption DEF ScheduledReward

LEMMA BaseRewardBounds ==
  ASSUME NEW h \in Nat, NEW g \in Nat, g <= MONEY_SUPPLY
  PROVE  /\ BaseReward(h, g) \in Nat
         /\ BaseReward(h, g) <= MONEY_SUPPLY - g
         /\ g < MONEY_SUPPLY => BaseReward(h, g) > 0
  BY ScheduledRewardBounds, SupplyAssumption DEF BaseReward, AtMost

(* Dividing what is below q * d by d gives less than q. *)
LEMMA DivBelow ==
  ASSUME NEW x \in Nat, NEW q \in Nat, NEW d \in Nat \ {0}, x < q * d
  PROVE  x \div d \in Nat /\ x \div d < q
  OBVIOUS

(* The assertion reward_lo < base_reward of get_block_reward: a block      *)
(* heavier than the median gets strictly less than the base reward.        *)
THEOREM PenaltyIsStrict ==
  ASSUME NEW base \in Nat, base > 0, NEW m \in Nat \ {0}, NEW w \in Nat,
         w > m, w <= 2 * m
  PROVE  Penalised(base, m, w) \in Nat /\ Penalised(base, m, w) < base
<1> DEFINE x == (2 * m - w) * w
<1>1. x \in Nat
  BY SMTT(30)
<1>2. x < m * m
  <2> DEFINE d == w - m
  <2>1. d \in Nat /\ d > 0 /\ w = m + d
    OBVIOUS
  <2> HIDE DEF d
  <2>2. x = (m - d) * (m + d)
    BY <2>1
  <2>3. (m - d) * (m + d) = m * m - d * d
    BY <2>1
  <2>4. d * d > 0
    BY <2>1
  <2>5. m * m \in Int /\ d * d \in Int
    BY <2>1
  <2> HIDE DEF x
  <2> QED
    BY <2>2, <2>3, <2>4, <2>5, <1>1
<1> HIDE DEF x
<1>3. base * x \in Nat /\ base * x < base * (m * m)
  BY <1>1, <1>2
<1>4. base * (m * m) = (base * m) * m
  OBVIOUS
<1>5. (base * x) \div m \in Nat /\ (base * x) \div m < base * m
  <2>1. base * m \in Nat /\ base * x < (base * m) * m
    BY <1>3, <1>4
  <2> HIDE DEF x
  <2> DEFINE y == base * x
             q == base * m
  <2>2. y \in Nat /\ q \in Nat /\ y < q * m
    BY <1>3, <2>1
  <2> HIDE DEF y, q
  <2>3. y \div m \in Nat /\ y \div m < q
    BY <2>2, DivBelow
  <2> QED
    BY <2>3 DEF y, q
<1>6. ((base * x) \div m) \div m \in Nat /\ ((base * x) \div m) \div m < base
  BY <1>5, DivBelow
<1> QED
  BY <1>6 DEF Penalised, x

(* An accepted reward is a natural within what the supply has left, for    *)
(* every weight and median; a block above the median gets less than base.  *)
LEMMA GetBlockRewardBounds ==
  ASSUME NEW h \in Nat, NEW m \in Nat, NEW w \in Nat, NEW g \in Nat, g <= MONEY_SUPPLY,
         GetBlockReward(h, m, w, g).ok
  PROVE  LET r == GetBlockReward(h, m, w, g).reward
         IN  /\ r \in Nat
             /\ r <= MONEY_SUPPLY - g
             /\ (g < MONEY_SUPPLY /\ w > AtLeast(m, FULL_REWARD_ZONE))
                  => r < BaseReward(h, g) /\ w <= 2 * AtLeast(m, FULL_REWARD_ZONE)
<1> DEFINE base == BaseReward(h, g)
           med  == AtLeast(m, FULL_REWARD_ZONE)
           r    == GetBlockReward(h, m, w, g).reward
<1>1. med \in Nat \ {0}
  BY WeightAssumption DEF AtLeast
<1>2. base \in Nat /\ base <= MONEY_SUPPLY - g /\ (g < MONEY_SUPPLY => base > 0)
  BY BaseRewardBounds
<1>3. CASE g >= MONEY_SUPPLY \/ w <= med
  <2>1. r = base
    BY <1>3 DEF GetBlockReward
  <2> QED
    BY <2>1, <1>1, <1>2, <1>3, SupplyAssumption
<1>4. CASE ~(g >= MONEY_SUPPLY \/ w <= med)
  <2>1. w <= 2 * med
    BY <1>4, <1>1 DEF GetBlockReward
  <2>2. r = Penalised(base, med, w)
    BY <1>4, <2>1, <1>1 DEF GetBlockReward
  <2>3. base > 0 /\ w > med
    BY <1>4, <1>2, <1>1, SupplyAssumption
  <2> HIDE DEF base, med, r
  <2>4. r \in Nat /\ r < base
    BY <2>1, <2>2, <2>3, <1>1, <1>2, PenaltyIsStrict
  <2>5. r <= MONEY_SUPPLY - g
    BY <2>4, <1>2, SupplyAssumption
  <2> QED
    BY <2>1, <2>4, <2>5 DEF base, med, r
<1> QED
  BY <1>3, <1>4

(* Saturation never happens: the counter advances by exactly the reward. *)
LEMMA NextGeneratedIsSum ==
  ASSUME NEW g \in Nat, NEW r \in Nat, g <= MONEY_SUPPLY, r <= MONEY_SUPPLY - g
  PROVE  NextGenerated(g, r) = g + r
  BY SupplyAssumption DEF NextGenerated

(* A fund never takes more than its share, whatever the rounding. *)
LEMMA FundAmountBound ==
  ASSUME NEW t \in Nat, NEW b \in Nat, b <= FEE_BASE
  PROVE  /\ FundAmount(b, t) \in Nat
         /\ FundAmount(b, t) * FEE_BASE <= t * b
<1> DEFINE x == t * b
<1>1. x \in Nat /\ FEE_BASE \in Nat \ {0}
  BY FeeAssumption
<1> HIDE DEF x
<1>2. x \div FEE_BASE \in Nat /\ (x \div FEE_BASE) * FEE_BASE <= x
  BY <1>1
<1> QED
  BY <1>2 DEF FundAmount, x

(* The three funds never exceed reward plus fees, so the miner's share and *)
(* both its halves are naturals: no unsigned subtraction wraps.            *)
LEMMA SharesAreNaturals ==
  ASSUME NEW t \in Nat
  PROVE  /\ DevAmount(t) \in Nat
         /\ LiquidityAmount(t) \in Nat
         /\ GasAmount(t) \in Nat
         /\ MinerAmount(t) \in Nat
         /\ InstantAmount(t) \in Nat
         /\ VestedAmount(t) \in Nat
         /\ InstantAmount(t) + VestedAmount(t) = MinerAmount(t)
         /\ DevAmount(t) + LiquidityAmount(t) + GasAmount(t) + MinerAmount(t) = t
<1> DEFINE d == DevAmount(t)
           l == LiquidityAmount(t)
           g == GasAmount(t)
<1>1. /\ DEV_FUND_FEE_BPS \in Nat /\ LIQUIDITY_FUND_FEE_BPS \in Nat
      /\ GAS_TREASURY_FEE_BPS \in Nat /\ FEE_BASE \in Nat \ {0}
      /\ DEV_FUND_FEE_BPS + LIQUIDITY_FUND_FEE_BPS + GAS_TREASURY_FEE_BPS <= FEE_BASE
  BY FeeAssumption
<1>2. /\ d \in Nat /\ d * FEE_BASE <= t * DEV_FUND_FEE_BPS
      /\ l \in Nat /\ l * FEE_BASE <= t * LIQUIDITY_FUND_FEE_BPS
      /\ g \in Nat /\ g * FEE_BASE <= t * GAS_TREASURY_FEE_BPS
  <2>1. DEV_FUND_FEE_BPS <= FEE_BASE /\ LIQUIDITY_FUND_FEE_BPS <= FEE_BASE
          /\ GAS_TREASURY_FEE_BPS <= FEE_BASE
    BY <1>1
  <2>2. d \in Nat /\ d * FEE_BASE <= t * DEV_FUND_FEE_BPS
    BY <1>1, <2>1, FundAmountBound DEF DevAmount
  <2>3. l \in Nat /\ l * FEE_BASE <= t * LIQUIDITY_FUND_FEE_BPS
    BY <1>1, <2>1, FundAmountBound DEF LiquidityAmount
  <2>4. g \in Nat /\ g * FEE_BASE <= t * GAS_TREASURY_FEE_BPS
    BY <1>1, <2>1, FundAmountBound DEF GasAmount
  <2> QED
    BY <2>2, <2>3, <2>4
<1> HIDE DEF d, l, g
<1>3. (d + l + g) * FEE_BASE <= t * FEE_BASE
  <2>1. (d + l + g) * FEE_BASE = d * FEE_BASE + l * FEE_BASE + g * FEE_BASE
    BY <1>1, <1>2
  <2>2. t * (DEV_FUND_FEE_BPS + LIQUIDITY_FUND_FEE_BPS + GAS_TREASURY_FEE_BPS)
          = t * DEV_FUND_FEE_BPS + t * LIQUIDITY_FUND_FEE_BPS + t * GAS_TREASURY_FEE_BPS
    BY <1>1
  <2>3. t * (DEV_FUND_FEE_BPS + LIQUIDITY_FUND_FEE_BPS + GAS_TREASURY_FEE_BPS) <= t * FEE_BASE
    BY <1>1
  <2> QED
    BY <2>1, <2>2, <2>3, <1>1, <1>2
<1>4. d + l + g <= t
  BY <1>1, <1>2, <1>3
<1>5. MinerAmount(t) \in Nat /\ MinerAmount(t) = t - d - l - g
  BY <1>2, <1>4 DEF MinerAmount, d, l, g
<1>6. /\ InstantAmount(t) \in Nat /\ InstantAmount(t) <= MinerAmount(t)
      /\ VestedAmount(t) = MinerAmount(t) - InstantAmount(t)
  BY <1>5 DEF InstantAmount, VestedAmount
<1> QED
  BY <1>2, <1>5, <1>6 DEF d, l, g

(* A sequence of outputs with one more. *)
AndThen(s, x) == s \o <<x>>

OneMoreThan(t, S, s, x) ==
  /\ t \in Seq(S)
  /\ Len(t) = Len(s) + 1
  /\ t[Len(s) + 1] = x
  /\ \A i \in 1..Len(s) : t[i] = s[i]

LEMMA OneMore ==
  ASSUME NEW S, NEW s \in Seq(S), NEW x \in S
  PROVE  OneMoreThan(AndThen(s, x), S, s, x)
<1> DEFINE n == Len(s)
<1>0. n \in Nat
  OBVIOUS
<1>1. <<x>> \in Seq(S) /\ Len(<<x>>) = 1 /\ <<x>>[1] = x
  OBVIOUS
<1>2. /\ s \o <<x>> \in Seq(S)
      /\ Len(s \o <<x>>) = n + 1
      /\ \A i \in 1..(n + 1) : (s \o <<x>>)[i] = IF i <= n THEN s[i] ELSE <<x>>[i - n]
  BY <1>1, ConcatProperties
<1> HIDE DEF n
<1>3. n + 1 \in 1..(n + 1) /\ ~(n + 1 <= n) /\ (n + 1) - n = 1
  BY <1>0
<1>4. (s \o <<x>>)[n + 1] = x
  BY <1>1, <1>2, <1>3, ZenonT(30)
<1>5. \A i \in 1..n : i \in 1..(n + 1) /\ i <= n
  BY <1>0
<1>6. \A i \in 1..n : (s \o <<x>>)[i] = s[i]
  BY <1>2, <1>5, ZenonT(30)
<1> QED
  BY <1>2, <1>4, <1>6, ZenonT(30) DEF n, AndThen, OneMoreThan

IsFive(t, a, b, c, d, e) ==
  Len(t) = 5 /\ t[1] = a /\ t[2] = b /\ t[3] = c /\ t[4] = d /\ t[5] = e

(* The coinbase of two miner outputs followed by those of the funds. *)
LEMMA FiveOutputs ==
  ASSUME NEW S, NEW a \in S, NEW b \in S, NEW c \in S, NEW d \in S, NEW e \in S
  PROVE  IsFive(AndThen(AndThen(AndThen(<<a, b>>, c), d), e), a, b, c, d, e)
<1> DEFINE s2 == <<a, b>>
           s3 == AndThen(s2, c)
           s4 == AndThen(s3, d)
           s5 == AndThen(s4, e)
<1>1. s2 \in Seq(S) /\ Len(s2) = 2 /\ s2[1] = a /\ s2[2] = b
  OBVIOUS
<1> HIDE DEF s2
<1>2. s3 \in Seq(S) /\ Len(s3) = 3 /\ s3[3] = c /\ \A i \in 1..2 : s3[i] = s2[i]
  <2>0. s2 \in Seq(S)
    BY <1>1
  <2>1. OneMoreThan(s3, S, s2, c)
    BY <2>0, OneMore, ZenonT(30)
  <2> HIDE DEF s3
  <2> QED
    BY <1>1, <2>1 DEF OneMoreThan
<1> HIDE DEF s3
<1>3. s4 \in Seq(S) /\ Len(s4) = 4 /\ s4[4] = d /\ \A i \in 1..3 : s4[i] = s3[i]
  <2>0. s3 \in Seq(S)
    BY <1>2
  <2>1. OneMoreThan(s4, S, s3, d)
    BY <2>0, OneMore, ZenonT(30)
  <2> HIDE DEF s4
  <2> QED
    BY <1>2, <2>1 DEF OneMoreThan
<1> HIDE DEF s4
<1>4. s5 \in Seq(S) /\ Len(s5) = 5 /\ s5[5] = e /\ \A i \in 1..4 : s5[i] = s4[i]
  <2>0. s4 \in Seq(S)
    BY <1>3
  <2>1. OneMoreThan(s5, S, s4, e)
    BY <2>0, OneMore, ZenonT(30)
  <2> HIDE DEF s5
  <2> QED
    BY <1>3, <2>1 DEF OneMoreThan
<1> HIDE DEF s5
<1>5. s3[1] = a /\ s3[2] = b
  BY <1>1, <1>2
<1>6. s4[1] = a /\ s4[2] = b /\ s4[3] = c
  BY <1>2, <1>3, <1>5
<1>7. s5[1] = a /\ s5[2] = b /\ s5[3] = c /\ s5[4] = d
  BY <1>3, <1>4, <1>6
<1>8. /\ s5 \in Seq(S) /\ Len(s5) = 5
      /\ s5[1] = a /\ s5[2] = b /\ s5[3] = c /\ s5[4] = d /\ s5[5] = e
  BY <1>4, <1>7
<1> QED
  BY <1>8, ZenonT(30) DEF s2, s3, s4, s5, IsFive

LEMMA FewOutputs ==
  ASSUME NEW S, NEW a \in S, NEW b \in S,
         NEW s1 \in Seq(S), NEW s2 \in Seq(S), NEW s3 \in Seq(S),
         Len(s1) + Len(s2) + Len(s3) < 3
  PROVE  LET outs == ((<<a, b>> \o s1) \o s2) \o s3
         IN  outs \in Seq(S) /\ Len(outs) \in 2..4
<1> DEFINE t == <<a, b>>
<1>1. t \in Seq(S) /\ Len(t) = 2
  OBVIOUS
<1> HIDE DEF t
<1>2. t \o s1 \in Seq(S) /\ Len(t \o s1) = 2 + Len(s1)
  <2>1. t \o s1 \in Seq(S) /\ Len(t \o s1) = Len(t) + Len(s1)
    BY <1>1, ConcatProperties, ZenonT(30)
  <2> QED
    BY <1>1, <2>1 DEF OneMoreThan
<1>3. (t \o s1) \o s2 \in Seq(S) /\ Len((t \o s1) \o s2) = 2 + Len(s1) + Len(s2)
  BY <1>2, ConcatProperties
<1>4. /\ ((t \o s1) \o s2) \o s3 \in Seq(S)
      /\ Len(((t \o s1) \o s2) \o s3) = 2 + Len(s1) + Len(s2) + Len(s3)
  BY ZenonT(30), <1>3, ConcatProperties
<1>5. Len(s1) \in Nat /\ Len(s2) \in Nat /\ Len(s3) \in Nat
  BY LenProperties
<1> QED
  BY <1>4, <1>5 DEF t

(* The node's own coinbase, built for the block the validator will see at  *)
(* a height above 0, passes validate_miner_transaction exactly when all    *)
(* three funds get at least one unit: construct_miner_tx leaves an empty   *)
(* fund out while the validator asks for five outputs.                     *)
THEOREM OwnCoinbaseAccepted ==
  ASSUME NEW h \in Nat, h > 0, NEW m \in Nat, NEW w \in Nat,
         NEW g \in Nat, g <= MONEY_SUPPLY, NEW fee \in Nat,
         NEW v \in Nat, v >= HF_VERSION_VESTING
  PROVE  LET total == GetBlockReward(h, m, w, g).reward + fee
         IN  ConstructMinerTx(h, m, w, g, fee, v).ok =>
             (ValidateMinerTx(ConstructMinerTx(h, m, w, g, fee, v).outs, h, m, w, g, fee, v)
               <=> DevAmount(total) > 0 /\ LiquidityAmount(total) > 0 /\ GasAmount(total) > 0)
<1> DEFINE r == GetBlockReward(h, m, w, g)
           total == r.reward + fee
           outs == ConstructMinerTx(h, m, w, g, fee, v).outs
           S == [to : {"miner", "dev", "liquidity", "gas"}, amount : Nat]
           a == Out("miner", InstantAmount(total))
           b == Out("miner", VestedAmount(total))
           c == Out("dev", DevAmount(total))
           d == Out("liquidity", LiquidityAmount(total))
           e == Out("gas", GasAmount(total))
<1>0. SUFFICES ASSUME ConstructMinerTx(h, m, w, g, fee, v).ok
               PROVE  ValidateMinerTx(outs, h, m, w, g, fee, v)
                        <=> DevAmount(total) > 0 /\ LiquidityAmount(total) > 0
                              /\ GasAmount(total) > 0
  OBVIOUS
<1>1. r.ok
  BY <1>0 DEF ConstructMinerTx
<1>2. total \in Nat
  BY <1>1, GetBlockRewardBounds
<1>3. outs = ((<<a, b>> \o FundOut("dev", DevAmount(total)))
               \o FundOut("liquidity", LiquidityAmount(total)))
               \o FundOut("gas", GasAmount(total))
  BY <1>1 DEF ConstructMinerTx, MinerOuts
<1>4. ValidateMinerTx(outs, h, m, w, g, fee, v)
        <=> MoneyInUse(outs) = total /\ (Len(outs) > 0 => VestingSplitOk(outs, total))
  BY <1>1 DEF ValidateMinerTx
<1> HIDE DEF total, outs
<1>5. /\ DevAmount(total) \in Nat /\ LiquidityAmount(total) \in Nat
      /\ GasAmount(total) \in Nat
      /\ InstantAmount(total) \in Nat /\ VestedAmount(total) \in Nat
      /\ InstantAmount(total) + VestedAmount(total) + DevAmount(total)
           + LiquidityAmount(total) + GasAmount(total) = total
  <2>1. /\ DevAmount(total) \in Nat /\ LiquidityAmount(total) \in Nat
        /\ GasAmount(total) \in Nat /\ MinerAmount(total) \in Nat
        /\ InstantAmount(total) \in Nat /\ VestedAmount(total) \in Nat
        /\ InstantAmount(total) + VestedAmount(total) = MinerAmount(total)
        /\ DevAmount(total) + LiquidityAmount(total) + GasAmount(total)
             + MinerAmount(total) = total
    BY <1>2, SharesAreNaturals, ZenonT(30)
  <2> QED
    BY <2>1
<1>6. a \in S /\ b \in S /\ c \in S /\ d \in S /\ e \in S
  <2>1. \A n \in Nat : /\ Out("miner", n) \in S /\ Out("dev", n) \in S
                       /\ Out("liquidity", n) \in S /\ Out("gas", n) \in S
    BY DEF Out
  <2> HIDE DEF S
  <2> QED
    BY <1>5, <2>1, ZenonT(30)
<1>7. CASE DevAmount(total) > 0 /\ LiquidityAmount(total) > 0 /\ GasAmount(total) > 0
  <2>1. outs = AndThen(AndThen(AndThen(<<a, b>>, c), d), e)
    BY <1>3, <1>7 DEF FundOut, AndThen
  <2> HIDE DEF a, b, c, d, e
  <2>2. /\ Len(outs) = 5 /\ outs[1] = a /\ outs[2] = b /\ outs[3] = c /\ outs[4] = d
        /\ outs[5] = e
    <3> HIDE DEF S
    <3>1. IsFive(AndThen(AndThen(AndThen(<<a, b>>, c), d), e), a, b, c, d, e)
      BY <1>6, FiveOutputs, ZenonT(30)
    <3> QED
      BY <2>1, <3>1, ZenonT(30) DEF IsFive
  <2>3. VestingSplitOk(outs, total)
    BY <2>2 DEF VestingSplitOk, a, b, c, d, e, Out
  <2>4. MoneyInUse(outs) = total
    BY <2>2, <1>5 DEF MoneyInUse, AmountAt, a, b, c, d, e, Out
  <2> QED
    BY <2>3, <2>4, <1>4, <1>7
<1>8. CASE ~(DevAmount(total) > 0 /\ LiquidityAmount(total) > 0 /\ GasAmount(total) > 0)
  <2> DEFINE s1 == FundOut("dev", DevAmount(total))
             s2 == FundOut("liquidity", LiquidityAmount(total))
             s3 == FundOut("gas", GasAmount(total))
  <2>0. \A x \in S : <<x>> \in Seq(S) /\ Len(<<x>>) = 1
    OBVIOUS
  <2> HIDE DEF S, a, b
  <2>1. s1 \in Seq(S) /\ Len(s1) = IF DevAmount(total) > 0 THEN 1 ELSE 0
    BY <1>6, <2>0 DEF FundOut
  <2>2. s2 \in Seq(S) /\ Len(s2) = IF LiquidityAmount(total) > 0 THEN 1 ELSE 0
    BY <1>6, <2>0 DEF FundOut
  <2>3. s3 \in Seq(S) /\ Len(s3) = IF GasAmount(total) > 0 THEN 1 ELSE 0
    BY <1>6, <2>0 DEF FundOut
  <2>4. Len(s1) + Len(s2) + Len(s3) < 3
    <3> HIDE DEF s1, s2, s3
    <3> QED
      BY <2>1, <2>2, <2>3, <1>8, <1>5
  <2> HIDE DEF s1, s2, s3
  <2>5. Len(outs) \in 2..4
    BY <1>3, <1>6, <2>1, <2>2, <2>3, <2>4, FewOutputs DEF s1, s2, s3
  <2>6. ~ VestingSplitOk(outs, total) /\ Len(outs) > 0
    <3>1. \A n \in 2..4 : n # 5 /\ n > 0
      OBVIOUS
    <3>2. Len(outs) # 5 /\ Len(outs) > 0
      BY <2>5, <3>1, ZenonT(30)
    <3> QED
      BY <3>2, ZenonT(30) DEF VestingSplitOk
  <2> QED
    BY <2>6, <1>4, <1>8
<1> QED
  BY <1>7, <1>8

-----------------------------------------------------------------------------
(* The chain. *)

LEMMA LedgerWeights ==
  ASSUME NEW c \in Seq(MinedBlock)
  PROVE  WeightsOf(c) \in Seq(Nat) /\ LongWeightsOf(c) \in Seq(Nat)
<1>1. Len(c) \in Nat /\ \A i \in 1..Len(c) : c[i] \in MinedBlock
  BY LenProperties, ElementOfSeq
<1>2. \A i \in 1..Len(c) : c[i].weight \in Nat /\ c[i].longWeight \in Nat
  BY ZenonT(30), <1>1 DEF MinedBlock
<1>3. /\ WeightsOf(c) \in [1..Len(c) -> Nat]
      /\ LongWeightsOf(c) \in [1..Len(c) -> Nat]
  BY <1>2 DEF WeightsOf, LongWeightsOf
<1> QED
  BY <1>1, <1>3, FunctionIsSeq, ZenonT(30)

(* The median of any chain is a natural no smaller than the full reward    *)
(* zone, so the clamp of get_block_reward never changes it.                *)
LEMMA MedianOfType ==
  ASSUME NEW c \in Seq(MinedBlock), Len(c) \in 1..MaxHeight
  PROVE  /\ LongMedianOf(c) \in Nat
         /\ MedianOf(c) \in Nat
         /\ MedianOf(c) >= FULL_REWARD_ZONE
<1>1. /\ LastN(WeightsOf(c), REWARD_BLOCKS_WINDOW) \in Seq(Nat)
      /\ LastN(LongWeightsOf(c), LONG_TERM_WINDOW) \in Seq(Nat)
  BY ZenonT(30), LedgerWeights, LastNType, WeightAssumption
<1>2. /\ Median(LastN(WeightsOf(c), REWARD_BLOCKS_WINDOW)) \in Nat
      /\ LongMedianOf(c) \in Nat
  BY <1>1, MedianType DEF LongMedianOf, LongWindow
<1>3. VersionAt(Len(c)) \in Nat
  BY ChainAssumption, WeightedChainAssumption
<1> QED
  BY ZenonT(30), <1>2, <1>3, EffectiveMedianType DEF MedianOf, LimitsFor

-----------------------------------------------------------------------------
(* Prefixes of a chain are not touched by an append and are prefixes of    *)
(* its prefixes.                                                           *)
LEMMA WholePrefix ==
  ASSUME NEW S, NEW c \in Seq(S)
  PROVE  SubSeq(c, 1, Len(c)) = c
<1>1. Len(c) \in Nat /\ \A i \in 1..Len(c) : c[i] \in S
  BY LenProperties, ElementOfSeq
<1>2. /\ SubSeq(c, 1, Len(c)) \in Seq(S)
      /\ Len(SubSeq(c, 1, Len(c))) = Len(c)
      /\ \A i \in 1..Len(c) : SubSeq(c, 1, Len(c))[i] = c[i]
  BY <1>1, SubSeqProperties
<1> QED
  BY <1>2, SeqEqual

LEMMA PrefixType ==
  ASSUME NEW S, NEW c \in Seq(S), NEW n \in 0..Len(c)
  PROVE  /\ SubSeq(c, 1, n) \in Seq(S)
         /\ Len(SubSeq(c, 1, n)) = n
         /\ \A i \in 1..n : SubSeq(c, 1, n)[i] = c[i]
<1>1. n \in Nat /\ \A i \in 1..n : c[i] \in S
  BY LenProperties, ElementOfSeq
<1> QED
  BY <1>1, SubSeqProperties

LEMMA PrefixOfAppend ==
  ASSUME NEW S, NEW c \in Seq(S), NEW x \in S, NEW n \in 0..Len(c)
  PROVE  SubSeq(Append(c, x), 1, n) = SubSeq(c, 1, n)
<1> DEFINE d == Append(c, x)
<1>1. d \in Seq(S) /\ Len(d) = Len(c) + 1 /\ \A i \in 1..Len(c) : d[i] = c[i]
  BY AppendProperties
<1> HIDE DEF d
<1>2. Len(c) \in Nat
  BY LenProperties
<1>3. n \in 0..Len(d) /\ n \in Nat
  BY <1>1, <1>2
<1>4. /\ SubSeq(d, 1, n) \in Seq(S) /\ Len(SubSeq(d, 1, n)) = n
      /\ \A i \in 1..n : SubSeq(d, 1, n)[i] = d[i]
  BY <1>1, <1>3, PrefixType
<1>5. /\ SubSeq(c, 1, n) \in Seq(S) /\ Len(SubSeq(c, 1, n)) = n
      /\ \A i \in 1..n : SubSeq(c, 1, n)[i] = c[i]
  BY PrefixType
<1>6. \A i \in 1..n : SubSeq(d, 1, n)[i] = SubSeq(c, 1, n)[i]
  BY <1>1, <1>2, <1>3, <1>4, <1>5
<1> QED
  BY <1>4, <1>5, <1>6, SeqEqual DEF d

LEMMA PrefixOfPrefix ==
  ASSUME NEW S, NEW c \in Seq(S), NEW k \in 0..Len(c), NEW n \in 0..k
  PROVE  SubSeq(SubSeq(c, 1, k), 1, n) = SubSeq(c, 1, n)
<1> DEFINE d == SubSeq(c, 1, k)
<1>1. d \in Seq(S) /\ Len(d) = k /\ \A i \in 1..k : d[i] = c[i]
  BY PrefixType
<1> HIDE DEF d
<1>2. Len(c) \in Nat
  BY LenProperties
<1>3. n \in 0..Len(d) /\ n \in 0..Len(c) /\ n \in Nat /\ k \in Nat /\ n <= k
  BY <1>1, <1>2
<1>4. /\ SubSeq(d, 1, n) \in Seq(S) /\ Len(SubSeq(d, 1, n)) = n
      /\ \A i \in 1..n : SubSeq(d, 1, n)[i] = d[i]
  BY <1>1, <1>3, PrefixType
<1>5. /\ SubSeq(c, 1, n) \in Seq(S) /\ Len(SubSeq(c, 1, n)) = n
      /\ \A i \in 1..n : SubSeq(c, 1, n)[i] = c[i]
  BY <1>3, PrefixType
<1>6. \A i \in 1..n : SubSeq(d, 1, n)[i] = SubSeq(c, 1, n)[i]
  BY <1>1, <1>3, <1>4, <1>5
<1> QED
  BY <1>4, <1>5, <1>6, SeqEqual DEF d
-----------------------------------------------------------------------------
(* What a stored block owes to the chain below it, whose last block has    *)
(* this many coins generated.                                              *)
Sound(before, generated, height, block) ==
  /\ block.generated <= MONEY_SUPPLY
  /\ MoneyInUse(block.outs) - block.fee = block.generated - generated
  /\ (BaseReward(height, generated) > 0 /\ block.weight > MedianOf(before))
       => block.reward < BaseReward(height, generated)
  /\ generated < MONEY_SUPPLY => block.weight <= 2 * MedianOf(before)

(* The inductive invariant: the stored median is that of the stored chain, *)
(* and every block but the genesis block is sound for the blocks below it. *)
IInv ==
  /\ ledger \in Seq(MinedBlock)
  /\ Len(ledger) \in 1..MaxHeight
  /\ median = MedianOf(ledger)
  /\ ledger[1].generated <= MONEY_SUPPLY
  /\ \A i \in 2..Len(ledger) :
       Sound(SubSeq(ledger, 1, i - 1), ledger[i - 1].generated, i - 1, ledger[i])

LEMMA IInvImplies ==
  ASSUME IInv
  PROVE  /\ SupplyTypeOK /\ GeneratedWithinSupply /\ EveryCoinCounted
         /\ PenaltyCosts /\ WithinLimitWhileEmitting
<1>1. ledger \in Seq(MinedBlock) /\ Len(ledger) \in Nat /\ Len(ledger) >= 1
  BY ChainAssumption, WeightedChainAssumption DEF IInv
<1>2. SupplyTypeOK
  BY <1>1, MedianOfType DEF IInv, SupplyTypeOK, Height
<1>3. GeneratedWithinSupply
  <2>1. \A i \in 1..Len(ledger) : i = 1 \/ i \in 2..Len(ledger)
    BY <1>1
  <2> QED
    BY <2>1 DEF IInv, Sound, GeneratedWithinSupply, Height
<1>4. EveryCoinCounted
  BY DEF IInv, Sound, EveryCoinCounted, Height
<1>5. PenaltyCosts
  BY DEF IInv, Sound, PenaltyCosts, Height
<1>6. WithinLimitWhileEmitting
  BY DEF IInv, Sound, WithinLimitWhileEmitting, Height
<1> QED
  BY <1>2, <1>3, <1>4, <1>5, <1>6

(* The reward of a block that validate_miner_transaction accepts: its      *)
(* coinbase pays the reward and the fees, and the counter moves by the     *)
(* reward.                                                                 *)
LEMMA AcceptedReward ==
  ASSUME NEW h \in Nat \ {0}, NEW m \in Nat, m >= FULL_REWARD_ZONE, NEW w \in Nat,
         NEW g \in Nat, g <= MONEY_SUPPLY, NEW fee \in Nat, NEW v \in Nat,
         NEW outs, ValidateMinerTx(outs, h, m, w, g, fee, v)
  PROVE  LET r == GetBlockReward(h, m, w, g).reward
         IN  /\ r \in Nat
             /\ MoneyInUse(outs) = r + fee
             /\ NextGenerated(g, r) = g + r
             /\ g + r <= MONEY_SUPPLY
             /\ (BaseReward(h, g) > 0 /\ w > m) => r < BaseReward(h, g)
             /\ g < MONEY_SUPPLY => w <= 2 * m
<1> DEFINE r == GetBlockReward(h, m, w, g).reward
<1>1. GetBlockReward(h, m, w, g).ok /\ MoneyInUse(outs) = r + fee
  BY DEF ValidateMinerTx
<1>2. AtLeast(m, FULL_REWARD_ZONE) = m
  BY WeightAssumption DEF AtLeast
<1>3. /\ r \in Nat
      /\ r <= MONEY_SUPPLY - g
      /\ (g < MONEY_SUPPLY /\ w > m) => r < BaseReward(h, g) /\ w <= 2 * m
  BY <1>1, <1>2, GetBlockRewardBounds
<1> HIDE DEF r
<1>4. BaseReward(h, g) > 0 => g < MONEY_SUPPLY
  BY SupplyAssumption DEF BaseReward
<1>5. NextGenerated(g, r) = g + r
  BY <1>3, NextGeneratedIsSum
<1>6. g + r <= MONEY_SUPPLY
  BY <1>3, SupplyAssumption
<1>7. g < MONEY_SUPPLY => w <= 2 * m
  BY <1>3
<1>8. (BaseReward(h, g) > 0 /\ w > m) => r < BaseReward(h, g)
  BY <1>3, <1>4
<1> QED
  BY <1>1, <1>3, <1>5, <1>6, <1>7, <1>8 DEF r

LEMMA GenesisType == GenesisBlock \in MinedBlock /\ GenesisBlock.generated <= MONEY_SUPPLY
<1> DEFINE r == GetBlockReward(0, FULL_REWARD_ZONE, GENESIS_WEIGHT, 0).reward
<1>1. r \in Nat /\ r <= MONEY_SUPPLY
  <2>1. CASE GetBlockReward(0, FULL_REWARD_ZONE, GENESIS_WEIGHT, 0).ok
    BY <2>1, GetBlockRewardBounds, SupplyAssumption, WeightAssumption, ChainAssumption, WeightedChainAssumption
  <2>2. CASE ~GetBlockReward(0, FULL_REWARD_ZONE, GENESIS_WEIGHT, 0).ok
    BY <2>2, SupplyAssumption DEF GetBlockReward
  <2> QED
    BY <2>1, <2>2
<1> HIDE DEF r
<1>2. NextGenerated(0, r) \in Nat /\ NextGenerated(0, r) <= MONEY_SUPPLY
  BY <1>1, SupplyAssumption DEF NextGenerated
<1>3. Out("genesis", GENESIS_AMOUNT) \in [to : Party, amount : Nat]
  BY ChainAssumption, WeightedChainAssumption DEF Out, Party
<1>4. <<Out("genesis", GENESIS_AMOUNT)>> \in Coinbase
  <2> DEFINE o == Out("genesis", GENESIS_AMOUNT)
             S == [to : Party, amount : Nat]
  <2>1. o \in S
    BY <1>3
  <2> HIDE DEF o, S
  <2>2. <<o>> \in Seq(S) /\ Len(<<o>>) <= 5
    BY <2>1
  <2> QED
    BY <2>2 DEF Coinbase, o, S
<1>5. GenesisBlock = [outs |-> <<Out("genesis", GENESIS_AMOUNT)>>, fee |-> 0, reward |-> r,
                 generated |-> NextGenerated(0, r),
                 weight |-> GENESIS_WEIGHT, longWeight |-> GENESIS_WEIGHT]
  BY DEF GenesisBlock, r
<1> QED
  BY <1>1, <1>2, <1>4, <1>5, ChainAssumption, WeightedChainAssumption DEF MinedBlock

LEMMA SupplyInitInv == SupplyInit => IInv
<1> SUFFICES ASSUME SupplyInit PROVE IInv
  OBVIOUS
<1>1. /\ <<GenesisBlock>> \in Seq(MinedBlock) /\ Len(<<GenesisBlock>>) = 1 /\ <<GenesisBlock>>[1] = GenesisBlock
  BY GenesisType
<1>2. ledger = <<GenesisBlock>> /\ median = MedianOf(ledger)
  BY DEF SupplyInit
<1>3. ledger \in Seq(MinedBlock) /\ Len(ledger) = 1 /\ ledger[1] = GenesisBlock
  BY <1>1, <1>2
<1>4. 1 \in 1..MaxHeight /\ 2..1 = {}
  BY ChainAssumption, WeightedChainAssumption
<1> QED
  BY <1>2, <1>3, <1>4, GenesisType DEF IInv

LEMMA AddBlockInv ==
  ASSUME IInv, NEW fee \in Fees, NEW weight \in Weights, NEW outs, ConnectBlock(outs, fee, weight)
  PROVE  IInv'
<1> DEFINE n == Len(ledger)
           g == ledger[n].generated
           r == GetBlockReward(n, median, weight, g).reward
           b == [outs |-> outs, fee |-> fee, reward |-> r,
                 generated |-> NextGenerated(g, r), weight |-> weight,
                 longWeight |-> NextLongTermWeight(weight, LongMedianOf(ledger), VersionAt(n))]
<1>1. /\ ledger \in Seq(MinedBlock) /\ n \in Nat \ {0} /\ n < MaxHeight
      /\ median = MedianOf(ledger) /\ n \in 1..MaxHeight
  <2>1. ledger \in Seq(MinedBlock) /\ Len(ledger) \in 1..MaxHeight /\ median = MedianOf(ledger)
    BY DEF IInv
  <2>2. Len(ledger) < MaxHeight
    BY DEF ConnectBlock, Height
  <2>3. Len(ledger) \in Nat \ {0}
    BY <2>1, WeightedChainAssumption
  <2> QED
    BY <2>1, <2>2, <2>3
<1>2. /\ median \in Nat /\ median >= FULL_REWARD_ZONE /\ LongMedianOf(ledger) \in Nat
  BY <1>1, MedianOfType
<1>3. fee \in Nat /\ weight \in Nat /\ VersionAt(n) \in Nat
  BY <1>1, ChainAssumption, WeightedChainAssumption
<1>4. g \in Nat /\ g <= MONEY_SUPPLY
  <2>1. ledger[n] \in MinedBlock
    BY <1>1, ElementOfSeq
  <2>2. GeneratedWithinSupply
    BY IInvImplies
  <2> QED
    BY <1>1, <2>1, <2>2 DEF MinedBlock, GeneratedWithinSupply, Height
<1>5. /\ outs \in Coinbase
      /\ ValidateMinerTx(outs, n, median, weight, g, fee, VersionAt(n))
      /\ ledger' = Append(ledger, b) /\ median' = MedianOf(ledger')
  BY DEF ConnectBlock, Height, Generated
<1>6. /\ r \in Nat
      /\ MoneyInUse(outs) = r + fee
      /\ NextGenerated(g, r) = g + r
      /\ g + r <= MONEY_SUPPLY
      /\ (BaseReward(n, g) > 0 /\ weight > median) => r < BaseReward(n, g)
      /\ g < MONEY_SUPPLY => weight <= 2 * median
  <2>1. /\ n \in Nat \ {0}
        /\ ValidateMinerTx(outs, n, median, weight, g, fee, VersionAt(n))
    BY <1>1, <1>5
  <2> HIDE DEF n, g
  <2> QED
    BY <2>1, <1>2, <1>3, <1>4, AcceptedReward
<1>7. NextLongTermWeight(weight, LongMedianOf(ledger), VersionAt(n)) \in Nat
  BY <1>2, <1>3, NextLongTermWeightType
<1> HIDE DEF g, r
<1>8. b \in MinedBlock /\ Sound(ledger, g, n, b)
  <2>1. b \in MinedBlock
    BY <1>3, <1>4, <1>5, <1>6, <1>7 DEF MinedBlock
  <2>2. /\ b.generated = g + r /\ b.outs = outs /\ b.fee = fee /\ b.reward = r
        /\ b.weight = weight
    BY <1>6
  <2> HIDE DEF b
  <2>3. MoneyInUse(b.outs) - b.fee = b.generated - g
    BY <2>2, <1>3, <1>4, <1>6
  <2> QED
    BY <2>1, <2>2, <2>3, <1>1, <1>6 DEF Sound
<1> HIDE DEF b, n
<1>9. /\ ledger' \in Seq(MinedBlock) /\ Len(ledger') = n + 1
      /\ \A i \in 1..n : ledger'[i] = ledger[i]
      /\ ledger'[n + 1] = b
  <2>1. ledger \in Seq(MinedBlock) /\ b \in MinedBlock /\ n = Len(ledger)
    BY <1>1, <1>8 DEF n
  <2>2. /\ Append(ledger, b) \in Seq(MinedBlock) /\ Len(Append(ledger, b)) = n + 1
        /\ \A i \in 1..n : Append(ledger, b)[i] = ledger[i]
        /\ Append(ledger, b)[n + 1] = b
    BY <2>1, AppendProperties
  <2>3. ledger' = Append(ledger, b)
    BY <1>5
  <2> QED
    BY ZenonT(30), <2>2, <2>3
<1>10. \A i \in 0..n : SubSeq(ledger', 1, i) = SubSeq(ledger, 1, i)
  BY <1>1, <1>5, <1>8, PrefixOfAppend DEF n
<1>11. SubSeq(ledger', 1, n) = ledger
  BY <1>1, <1>10, WholePrefix DEF n
<1>12. ASSUME NEW i \in 2..(n + 1)
       PROVE  Sound(SubSeq(ledger', 1, i - 1), ledger'[i - 1].generated, i - 1, ledger'[i])
  <2>1. CASE i = n + 1
    <3>1. i - 1 = n /\ n \in 1..n
      BY <1>1, <2>1
    <3>2. ledger'[i - 1].generated = g /\ ledger'[i] = b /\ SubSeq(ledger', 1, i - 1) = ledger
      BY <1>9, <1>11, <2>1, <3>1 DEF g
    <3> QED
      BY ZenonT(30), <1>8, <3>1, <3>2
  <2>2. CASE i # n + 1
    <3>1. i \in 2..n /\ i \in 1..n /\ i - 1 \in 1..n /\ i - 1 \in 0..n
      BY <1>1, <2>2
    <3>2. Sound(SubSeq(ledger, 1, i - 1), ledger[i - 1].generated, i - 1, ledger[i])
      BY <3>1 DEF IInv, n
    <3>3. /\ ledger'[i] = ledger[i] /\ ledger'[i - 1] = ledger[i - 1]
          /\ SubSeq(ledger', 1, i - 1) = SubSeq(ledger, 1, i - 1)
      BY <1>9, <1>10, <3>1
    <3> QED
      BY ZenonT(30), <3>2, <3>3
  <2> QED
    BY <2>1, <2>2
<1>13. Len(ledger') \in 1..MaxHeight
  BY <1>1, <1>9, ChainAssumption, WeightedChainAssumption
<1>14. ledger'[1].generated <= MONEY_SUPPLY
  BY <1>1, <1>9 DEF IInv
<1> QED
  BY <1>5, <1>9, <1>12, <1>13, <1>14 DEF IInv

LEMMA PopBlocksInv ==
  ASSUME IInv, NEW n \in 1..MaxHeight, DisconnectBlocks(n)
  PROVE  IInv'
<1> DEFINE k == Len(ledger) - n
<1>1. /\ ledger \in Seq(MinedBlock) /\ Len(ledger) \in Nat /\ Len(ledger) <= MaxHeight
      /\ k \in 1..Len(ledger) /\ k \in 0..Len(ledger) /\ k \in Nat
  BY ChainAssumption, WeightedChainAssumption DEF IInv, DisconnectBlocks, Height
<1>2. ledger' = SubSeq(ledger, 1, k) /\ median' = MedianOf(ledger')
  BY DEF DisconnectBlocks, Height
<1> HIDE DEF k
<1>3. /\ ledger' \in Seq(MinedBlock) /\ Len(ledger') = k
      /\ \A i \in 1..k : ledger'[i] = ledger[i]
  BY <1>1, <1>2, PrefixType
<1>4. \A i \in 0..k : SubSeq(ledger', 1, i) = SubSeq(ledger, 1, i)
  BY <1>1, <1>2, PrefixOfPrefix
<1>5. ASSUME NEW i \in 2..k
      PROVE  Sound(SubSeq(ledger', 1, i - 1), ledger'[i - 1].generated, i - 1, ledger'[i])
  <2>1. i \in 2..Len(ledger) /\ i \in 1..k /\ i - 1 \in 1..k /\ i - 1 \in 0..k
    BY <1>1
  <2>2. Sound(SubSeq(ledger, 1, i - 1), ledger[i - 1].generated, i - 1, ledger[i])
    BY <2>1 DEF IInv
  <2>3. /\ ledger'[i] = ledger[i] /\ ledger'[i - 1] = ledger[i - 1]
        /\ SubSeq(ledger', 1, i - 1) = SubSeq(ledger, 1, i - 1)
    BY <1>3, <1>4, <2>1
  <2> QED
    BY ZenonT(30), <2>2, <2>3
<1>6. Len(ledger') \in 1..MaxHeight
  BY <1>1, <1>3, ChainAssumption, WeightedChainAssumption
<1>7. ledger'[1].generated <= MONEY_SUPPLY
  BY <1>1, <1>3 DEF IInv
<1> QED
  BY <1>2, <1>3, <1>5, <1>6, <1>7 DEF IInv

LEMMA NextInv == IInv /\ [SupplyNext]_supplyVars => IInv'
<1> SUFFICES ASSUME IInv, [SupplyNext]_supplyVars PROVE IInv'
  OBVIOUS
<1>1. CASE \E fee \in Fees, weight \in Weights :
             \E outs \in Coinbases(GetBlockReward(Height, median, weight, Generated).reward + fee) :
               ConnectBlock(outs, fee, weight)
  BY <1>1, AddBlockInv
<1>2. CASE \E n \in 1..MaxHeight : DisconnectBlocks(n)
  BY <1>2, PopBlocksInv
<1>3. CASE UNCHANGED supplyVars
  BY <1>3 DEF IInv, supplyVars
<1> QED
  BY <1>1, <1>2, <1>3 DEF SupplyNext

-----------------------------------------------------------------------------
(* IInv is an invariant of the chain under any blocks and any pops. *)
THEOREM Invariant == SupplySpec => []IInv
  BY SupplyInitInv, NextInv, PTL DEF SupplySpec

(* Type correctness: the stored chain never loses its genesis block and    *)
(* the median that handle_block_to_main_chain reads is always a natural.   *)
THEOREM TypeCorrect == SupplySpec => []SupplyTypeOK
  BY Invariant, IInvImplies, PTL

(* No sequence of accepted blocks and pops takes already_generated_coins   *)
(* above MONEY_SUPPLY.                                                     *)
THEOREM SupplyBounded == SupplySpec => []GeneratedWithinSupply
  BY Invariant, IInvImplies, PTL

(* Every accepted coinbase pays its block's fees and exactly the coins     *)
(* that already_generated_coins counts for it.                             *)
THEOREM CoinsCounted == SupplySpec => []EveryCoinCounted
  BY Invariant, IInvImplies, PTL

(* A stored block heavier than the median it was checked against earned    *)
(* strictly less than the base reward.                                     *)
THEOREM WeightCostsReward == SupplySpec => []PenaltyCosts
  BY Invariant, IInvImplies, PTL

(* While coins remain, no stored block exceeds twice the median below it. *)
THEOREM LimitHoldsWhileEmitting == SupplySpec => []WithinLimitWhileEmitting
  BY Invariant, IInvImplies, PTL
=============================================================================
