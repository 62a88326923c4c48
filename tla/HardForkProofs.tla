--------------------------- MODULE HardForkProofs ---------------------------
(***************************************************************************)
(* Hard fork voting for every table of forks, every window and every       *)
(* sequence of blocks, pops, switches, rollbacks and restarts.             *)
(***************************************************************************)
EXTENDS HardFork, FiniteSetTheorems, NaturalsInduction, WellFoundedInduction, TLAPS

(* Leaves are for Zenon unless they say SMT. *)
USE ZenonT(30)

(* Sequences. *)
LEMMA LenNat ==
  ASSUME NEW S, NEW s \in Seq(S)
  PROVE  Len(s) \in Nat
  BY SMTT(30)

LEMMA ElementIs ==
  ASSUME NEW S, NEW s \in Seq(S), NEW n \in 1 .. Len(s)
  PROVE  s[n] \in S
  BY SMTT(30)

LEMMA EmptyIs ==
  ASSUME NEW S
  PROVE  <<>> \in Seq(S) /\ Len(<<>>) = 0
  BY SMTT(30)

LEMMA SameElements ==
  ASSUME NEW S, NEW s \in Seq(S), NEW t \in Seq(S), Len(s) = Len(t), \A i \in 1 .. Len(s) : s[i] = t[i]
  PROVE  s = t
  BY SMTT(30)

(* Induction over the naturals, for a set. *)
LEMMA Induction ==
  ASSUME NEW S, 0 \in S, \A n \in Nat : n \in S => n + 1 \in S
  PROVE  Nat \subseteq S
  <1> SUFFICES ASSUME ~(Nat \subseteq S) PROVE FALSE
    OBVIOUS
  <1> DEFINE T == Nat \ S
             R == OpToRel(<, Nat)
  <1>1. R = {p \in Nat \X Nat : p[1] < p[2]} /\ IsWellFoundedOn(R, Nat)
    BY NatLessThanWellFounded DEF OpToRel
  <1>2. T \subseteq Nat /\ T # {}
    OBVIOUS
  <1> HIDE DEF R
  <1>3. PICK x \in T : \A y \in T : <<y, x>> \notin R
    BY <1>1, <1>2, WFMin
  <1>4. x \in Nat /\ x - 1 \in Nat /\ x # 0 /\ (x - 1) + 1 = x
    BY SMTT(30)
  <1>5. <<x - 1, x>> \in {p \in Nat \X Nat : p[1] < p[2]}
    BY SMTT(30), <1>4
  <1>6. x - 1 \in S
    BY <1>1, <1>3, <1>4, <1>5
  <1> QED BY <1>4, <1>6

LEMMA LeastIn ==
  ASSUME NEW S, S \subseteq Nat, S # {}
  PROVE  \E x \in S : \A y \in S : x <= y
  <1> DEFINE R == OpToRel(<, Nat)
  <1>1. R = {p \in Nat \X Nat : p[1] < p[2]} /\ IsWellFoundedOn(R, Nat)
    BY NatLessThanWellFounded DEF OpToRel
  <1> HIDE DEF R
  <1>2. PICK x \in S : \A y \in S : <<y, x>> \notin R
    BY <1>1, WFMin
  <1>3. ASSUME NEW y \in S PROVE x <= y
    <2>1. <<y, x>> \notin {p \in Nat \X Nat : p[1] < p[2]}
      BY <1>1, <1>2
    <2> QED BY SMTT(30), <2>1
  <1> QED BY <1>3

LEMMA MinIs ==
  ASSUME NEW S, S \subseteq Nat, S # {}
  PROVE  Min(S) \in S /\ \A y \in S : Min(S) <= y
  BY LeastIn DEF Min

LEMMA MaxIs ==
  ASSUME NEW k \in Nat, NEW S, S \subseteq 0 .. k, S # {}
  PROVE  Max(S) \in S /\ \A y \in S : Max(S) >= y
  <1> DEFINE T == {k - x : x \in S}
  <1>1. T \subseteq Nat /\ T # {}
    BY SMTT(30)
  <1>2. PICK t \in T : \A u \in T : t <= u
    <2> HIDE DEF T
    <2> QED BY <1>1, LeastIn
  <1>3. PICK x \in S : t = k - x
    BY <1>2
  <1>4. ASSUME NEW y \in S PROVE x >= y
    <2>1. k - x <= k - y
      BY <1>2, <1>3
    <2>2. x \in 0 .. k /\ y \in 0 .. k
      OBVIOUS
    <2> QED BY SMTT(30), <2>1, <2>2
  <1> QED BY <1>4 DEF Max

LEMMA MaxOfTwo ==
  ASSUME NEW a \in Int, NEW b \in Int
  PROVE  Max({a, b}) = IF a >= b THEN a ELSE b
  <1>1. CASE a >= b
    BY SMTT(30), <1>1 DEF Max
  <1>2. CASE ~(a >= b)
    BY SMTT(30), <1>2 DEF Max
  <1> QED BY <1>1, <1>2

LEMMA MinOfTwo ==
  ASSUME NEW a \in Int, NEW b \in Int
  PROVE  Min({a, b}) = IF a <= b THEN a ELSE b
  <1>1. CASE a <= b
    BY SMTT(30), <1>1 DEF Min
  <1>2. CASE ~(a <= b)
    BY SMTT(30), <1>2 DEF Min
  <1> QED BY <1>1, <1>2

-----------------------------------------------------------------------------
(* The table of forks.                                                     *)

LEMMA Bounds == WINDOW \in Nat /\ WINDOW > 0 /\ MaxHeight \in Nat /\ MaxHeight > 0 /\ Votes \subseteq Nat
  BY ForksAssumption

LEMMA Table ==
  /\ Len(Forks) \in Nat /\ Len(Forks) > 0 /\ LastVersion \in Nat
  /\ \A n \in 1 .. Len(Forks) : Forks[n].version \in Nat /\ Forks[n].height \in Nat
  /\ Forks[1].height = 0 /\ 1 \in 1 .. Len(Forks)
  <1>1. Len(Forks) \in Nat /\ Len(Forks) > 0
    BY ForksAssumption, LenNat
  <1>2. 1 \in 1 .. Len(Forks) /\ Len(Forks) \in 1 .. Len(Forks)
    BY SMTT(30), <1>1
  <1>3. \A n \in 1 .. Len(Forks) : Forks[n] \in [version : Nat, height : Nat, threshold : 0 .. 100]
    BY ForksAssumption, ElementIs
  <1>4. \A n \in 1 .. Len(Forks) : Forks[n].version \in Nat /\ Forks[n].height \in Nat
    BY SMTT(30), <1>3
  <1> QED BY <1>1, <1>2, <1>4, ForksAssumption DEF LastVersion

(* Later forks have greater versions. *)
LEMMA VersionsRise ==
  ASSUME NEW m \in 1 .. Len(Forks), NEW n \in 1 .. Len(Forks), m < n
  PROVE  Forks[m].version < Forks[n].version
  <1> DEFINE S == {k \in Nat : m + k + 1 <= Len(Forks) => Forks[m].version < Forks[m + k + 1].version}
  <1>1. 0 \in S
    BY SMTT(30), Table, ForksAssumption
  <1>2. ASSUME NEW k \in Nat, k \in S PROVE k + 1 \in S
    <2> SUFFICES ASSUME m + (k + 1) + 1 <= Len(Forks)
                 PROVE  Forks[m].version < Forks[m + (k + 1) + 1].version
      BY SMTT(30)
    <2>1. Forks[m].version < Forks[m + k + 1].version
      BY SMTT(30), <1>2, Table
    <2>2. m + k + 1 \in 1 .. Len(Forks) - 1 /\ m + (k + 1) + 1 = (m + k + 1) + 1
          /\ m + (k + 1) + 1 \in 1 .. Len(Forks) /\ m + k + 1 \in 1 .. Len(Forks)
      BY SMTT(30), Table
    <2>3. Forks[m + k + 1].version < Forks[(m + k + 1) + 1].version
      BY <2>2, ForksAssumption
    <2>4. Forks[m].version \in Nat /\ Forks[m + k + 1].version \in Nat /\ Forks[(m + k + 1) + 1].version \in Nat
      BY <2>2, Table
    <2> QED BY SMTT(30), <2>1, <2>2, <2>3, <2>4
  <1> HIDE DEF S
  <1>3. n - m - 1 \in Nat /\ m + (n - m - 1) + 1 = n /\ n <= Len(Forks)
    BY SMTT(30), Table
  <1>4. n - m - 1 \in S
    BY <1>1, <1>2, <1>3, Induction
  <1> QED BY <1>3, <1>4 DEF S

(* A fork whose version is no greater than another's does not come later. *)
LEMMA VersionOrder ==
  ASSUME NEW m \in 1 .. Len(Forks), NEW n \in 1 .. Len(Forks)
  PROVE  Forks[m].version <= Forks[n].version <=> m <= n
  <1>1. Forks[m].version \in Nat /\ Forks[n].version \in Nat
    BY Table
  <1>2. CASE m < n
    BY SMTT(30), <1>1, <1>2, VersionsRise, Table
  <1>3. CASE n < m
    BY SMTT(30), <1>1, <1>3, VersionsRise, Table
  <1>4. CASE m = n
    BY SMTT(30), <1>1, <1>4, Table
  <1> QED BY SMTT(30), <1>2, <1>3, <1>4, Table

LEMMA SelfLess == \A x \in Nat : x <= x
  BY SMTT(30)

(* ForkAt is the last fork whose height was reached. *)
LEMMA ForkAtIs ==
  ASSUME NEW h \in Nat
  PROVE  /\ ForkAt(h) \in 1 .. Len(Forks)
         /\ h >= Forks[ForkAt(h)].height
         /\ \A n \in 1 .. Len(Forks) : h >= Forks[n].height => n <= ForkAt(h)
  <1> DEFINE S == {n \in 1 .. Len(Forks) : n = 1 \/ h >= Forks[n].height}
  <1>1. S \subseteq 0 .. Len(Forks) /\ 1 \in S
    BY SMTT(30), Table
  <1>2. ForkAt(h) = Max(S)
    BY DEF ForkAt
  <1>3. Max(S) \in S /\ \A y \in S : Max(S) >= y
    <2> HIDE DEF S
    <2>1. S # {}
      BY <1>1
    <2> QED BY <1>1, <2>1, Table, MaxIs
  <1>4. h >= Forks[1].height
    BY SMTT(30), Table
  <1> QED BY SMTT(30), <1>2, <1>3, <1>4, Table

LEMMA ForkAtRises ==
  ASSUME NEW g \in Nat, NEW h \in Nat, g <= h
  PROVE  ForkAt(g) <= ForkAt(h)
  <1>1. ForkAt(g) \in 1 .. Len(Forks) /\ g >= Forks[ForkAt(g)].height /\ Forks[ForkAt(g)].height \in Nat
    BY ForkAtIs, Table
  <1>2. h >= Forks[ForkAt(g)].height
    BY SMTT(30), <1>1
  <1> QED BY <1>1, <1>2, ForkAtIs

-----------------------------------------------------------------------------
(* The states of the operations.                                           *)

Block == [version : Nat, vote : Nat]
States == [chain : Seq(Block), stored : [0 .. MaxHeight - 1 -> Nat],
           window : Seq(Nat), index : 1 .. Len(Forks)]

(* Every block has the version stored for its height, and it is the        *)
(* version of a fork whose height was reached.                             *)
Checked(s) ==
  \A h \in 1 .. Len(s.chain) :
    /\ s.stored[h - 1] = s.chain[h].version
    /\ \E n \in 1 .. ForkAt(h - 1) : s.chain[h].version = Forks[n].version

Sound == {s \in States : Len(s.chain) \in 0 .. MaxHeight /\ Checked(s)}

(* One vote brings a fork into force, as in every table of hardforks.cpp,  *)
(* and the block after genesis can still cast it.                          *)
OneVote ==
  /\ \A n \in 1 .. Len(Forks) : Threshold(n) <= 1
  /\ Len(Forks) > 1 => Forks[2].height > 1

(* Every block has the version of its height and votes for the last fork.  *)
Timely(c) ==
  \A h \in 1 .. Len(c) :
    /\ c[h].version = get_ideal_version(h - 1)
    /\ h > 1 => c[h].vote >= LastVersion

HasVote(w) == \E i \in 1 .. Len(w) : w[i] = LastVersion

LEMMA Fields ==
  ASSUME NEW s \in States
  PROVE  /\ s.chain \in Seq(Block) /\ Len(s.chain) \in Nat
         /\ s.stored \in [0 .. MaxHeight - 1 -> Nat]
         /\ s.window \in Seq(Nat) /\ s.index \in 1 .. Len(Forks)
  <1>1. s.chain \in Seq(Block) /\ s.stored \in [0 .. MaxHeight - 1 -> Nat]
        /\ s.window \in Seq(Nat) /\ s.index \in 1 .. Len(Forks)
    BY SMTT(30) DEF States
  <1> QED BY <1>1, LenNat

LEMMA StoredChange ==
  ASSUME NEW A, NEW B, NEW C, NEW D, NEW s \in [chain : A, stored : B, window : C, index : D],
         NEW h, NEW x, NEW t, t = [s EXCEPT !.stored[h] = x]
  PROVE  t = [chain |-> s.chain, stored |-> [s.stored EXCEPT ![h] = x], window |-> s.window, index |-> s.index]
  BY SMTT(30)

LEMMA WindowChange ==
  ASSUME NEW A, NEW B, NEW C, NEW D, NEW s \in [chain : A, stored : B, window : C, index : D],
         NEW w, NEW t, t = [s EXCEPT !.window = w]
  PROVE  t = [chain |-> s.chain, stored |-> s.stored, window |-> w, index |-> s.index]
  BY SMTT(30)

LEMMA TwoChanges ==
  ASSUME NEW A, NEW B, NEW C, NEW D, NEW s \in [chain : A, stored : B, window : C, index : D],
         NEW h, NEW x, NEW v, NEW t, t = [s EXCEPT !.stored[h] = x, !.window = Slide(@, v)],
         NEW u, u = [s EXCEPT !.stored[h] = x]
  PROVE  t = [u EXCEPT !.window = Slide(s.window, v)]
  BY SMTT(30)

LEMMA TwoMoreChanges ==
  ASSUME NEW A, NEW B, NEW C, NEW D, NEW s \in [chain : A, stored : B, window : C, index : D],
         NEW w, NEW k, NEW t, t = [s EXCEPT !.window = w, !.index = k], NEW u, u = [s EXCEPT !.window = w]
  PROVE  t = [u EXCEPT !.index = k]
  BY SMTT(30)

Reindexed(s, k, t) ==
  t \in States /\ t.chain = s.chain /\ t.stored = s.stored /\ t.window = s.window /\ t.index = k

LEMMA WithIndex ==
  ASSUME NEW s \in States, NEW k \in 1 .. Len(Forks), NEW t, t = [s EXCEPT !.index = k]
  PROVE  Reindexed(s, k, t)
  <1>1. ASSUME NEW A, NEW B, NEW C, NEW D, NEW r \in [chain : A, stored : B, window : C, index : D],
               NEW j \in D, NEW q, q = [r EXCEPT !.index = j]
        PROVE  q = [chain |-> r.chain, stored |-> r.stored, window |-> r.window, index |-> j]
    BY SMTT(30), <1>1
  <1>2. t = [chain |-> s.chain, stored |-> s.stored, window |-> s.window, index |-> k]
    BY <1>1 DEF States
  <1>3. t \in States
    BY <1>2, Fields DEF States
  <1> QED BY SMTT(30), <1>2, <1>3 DEF Reindexed

LEMMA EffectiveVoteIs ==
  ASSUME NEW b \in Block
  PROVE  EffectiveVote(b) \in Nat /\ (b.vote >= LastVersion => EffectiveVote(b) = LastVersion)
  <1>1. b.vote \in Nat /\ b.vote \in Int /\ LastVersion \in Int /\ LastVersion \in Nat
    BY SMTT(30), Table DEF Block
  <1>2. EffectiveVote(b) = IF b.vote <= LastVersion THEN b.vote ELSE LastVersion
    BY <1>1, MinOfTwo DEF EffectiveVote
  <1> QED BY SMTT(30), <1>1, <1>2

(* One vote for the last fork counts for all. *)
LEMMA OneVoteCounts ==
  ASSUME NEW w \in Seq(Nat), HasVote(w), NEW n \in 1 .. Len(Forks)
  PROVE  VotesFor(w, n) >= 1
  <1> DEFINE F == {i \in 1 .. Len(w) : w[i] \in {Forks[k].version : k \in n .. Len(Forks)}}
  <1>1. Len(w) \in Nat
    BY LenNat
  <1>2. IsFiniteSet(1 .. Len(w))
    <2>1. 1 \in Int /\ Len(w) \in Int
      BY SMTT(30), <1>1
    <2> QED BY <2>1, FS_Interval
  <1>3. Len(Forks) \in n .. Len(Forks)
    BY SMTT(30), Table
  <1>4. F # {} /\ F \in SUBSET (1 .. Len(w))
    BY <1>3 DEF HasVote, LastVersion
  <1>5. VotesFor(w, n) = Cardinality(F)
    BY DEF VotesFor
  <1> HIDE DEF F
  <1>6. IsFiniteSet(F)
    BY <1>2, <1>4, FS_Subset
  <1>7. Cardinality(F) \in Nat /\ Cardinality(F) # 0
    BY <1>4, <1>6, FS_CardinalityType, FS_EmptySet
  <1> QED BY SMTT(30), <1>5, <1>7

LEMMA VotesInt ==
  ASSUME NEW w \in Seq(Nat), NEW n
  PROVE  VotesFor(w, n) \in Int
  <1> DEFINE F == {i \in 1 .. Len(w) : w[i] \in {Forks[k].version : k \in n .. Len(Forks)}}
  <1>1. Len(w) \in Nat
    BY LenNat
  <1>2. 1 \in Int /\ Len(w) \in Int
    BY SMTT(30), <1>1
  <1>3. IsFiniteSet(1 .. Len(w)) /\ F \in SUBSET (1 .. Len(w))
    BY <1>2, FS_Interval
  <1>4. VotesFor(w, n) = Cardinality(F)
    BY DEF VotesFor
  <1> HIDE DEF F
  <1>5. Cardinality(F) \in Nat
    BY <1>3, FS_Subset, FS_CardinalityType
  <1> QED BY SMTT(30), <1>4, <1>5

(* Raise never goes beyond the forks whose height was reached, and with    *)
(* one vote for the last fork it goes as far.                              *)
LEMMA RaiseIs ==
  ASSUME NEW s \in States, NEW h \in Nat, NEW t, t = Raise(s, h)
  PROVE  /\ t \in States /\ t.chain = s.chain /\ t.stored = s.stored
         /\ t.index >= s.index
         /\ t.index = s.index \/ t.index <= ForkAt(h)
         /\ OneVote /\ HasVote(s.window) => t.index >= ForkAt(h)
  <1> DEFINE V == {n \in 1 .. Len(Forks) : h >= Forks[n].height /\ VotesFor(s.window, n) >= Threshold(n)}
             v == get_voted_fork_index(s, h)
  <1>1. s.index \in 1 .. Len(Forks) /\ s.window \in Seq(Nat)
    BY Fields
  <1>2. v = IF V = {} THEN s.index ELSE Max(V)
    BY DEF get_voted_fork_index
  <1>3. V # {} => Max(V) \in V /\ \A y \in V : Max(V) >= y
    <2>1. V \subseteq 0 .. Len(Forks)
      BY SMTT(30), Table
    <2> HIDE DEF V
    <2> QED BY <2>1, Table, MaxIs
  <1>4. v \in 1 .. Len(Forks) /\ (v = s.index \/ v <= ForkAt(h))
    <2>1. CASE V = {}
      BY <1>1, <1>2, <2>1
    <2>2. CASE V # {}
      <3>1. v \in V
        BY <1>2, <1>3, <2>2
      <3> QED BY <3>1, ForkAtIs
    <2> QED BY <2>1, <2>2
  <1>5. OneVote /\ HasVote(s.window) => v >= ForkAt(h)
    <2> SUFFICES ASSUME OneVote, HasVote(s.window) PROVE v >= ForkAt(h)
      OBVIOUS
    <2>1. ForkAt(h) \in 1 .. Len(Forks) /\ h >= Forks[ForkAt(h)].height
      BY ForkAtIs
    <2>2. VotesFor(s.window, ForkAt(h)) >= 1 /\ Threshold(ForkAt(h)) <= 1
      BY <1>1, <2>1, OneVoteCounts DEF OneVote
    <2>3. VotesFor(s.window, ForkAt(h)) \in Int /\ Threshold(ForkAt(h)) \in Int
      <3>1. Forks[ForkAt(h)] \in [version : Nat, height : Nat, threshold : 0 .. 100]
        BY <2>1, ForksAssumption, ElementIs
      <3>2. Threshold(ForkAt(h)) \in Int
        <4>1. Forks[ForkAt(h)].threshold \in Int /\ WINDOW \in Int
          <5>1. Forks[ForkAt(h)].threshold \in 0 .. 100
            BY <3>1
          <5> QED BY SMTT(30), <5>1, Bounds
        <4>2. WINDOW * Forks[ForkAt(h)].threshold \in Int
          BY SMTT(30), <4>1
        <4> QED BY SMTT(30), <4>2 DEF Threshold
      <3>3. VotesFor(s.window, ForkAt(h)) \in Int
        BY <1>1, VotesInt
      <3> QED BY <3>2, <3>3
    <2>4. ForkAt(h) \in V
      BY SMTT(30), <2>1, <2>2, <2>3
    <2> QED BY <1>2, <1>3, <2>4
  <1> DEFINE k == Max({s.index, v})
  <1>6. Raise(s, h) = [s EXCEPT !.index = k]
    BY SMTT(30) DEF Raise
  <1> HIDE DEF v
  <1>7. s.index \in Int /\ v \in Int /\ ForkAt(h) \in Int
    <2>1. ForkAt(h) \in 1 .. Len(Forks)
      BY ForkAtIs
    <2> QED BY SMTT(30), <1>1, <1>4, <2>1
  <1>8. k = IF s.index >= v THEN s.index ELSE v
    BY <1>7, MaxOfTwo
  <1> HIDE DEF k
  <1>9. /\ k \in 1 .. Len(Forks) /\ k >= s.index /\ (k = s.index \/ k <= ForkAt(h))
        /\ (OneVote /\ HasVote(s.window) => k >= ForkAt(h))
    BY SMTT(30), <1>1, <1>4, <1>5, <1>7, <1>8
  <1>10. t = [s EXCEPT !.index = k]
    BY <1>6
  <1>11. t \in States /\ t.chain = s.chain /\ t.stored = s.stored /\ t.index = k
    BY SMTT(30), <1>9, <1>10, WithIndex DEF Reindexed
  <1> QED BY <1>9, <1>11

(* A vote that enters the window is in it. *)
LEMMA SlideIs ==
  ASSUME NEW w \in Seq(Nat), NEW v \in Nat
  PROVE  Slide(w, v) \in Seq(Nat) /\ (v = LastVersion => HasVote(Slide(w, v)))
  <1> DEFINE m == Max({1, Len(w) - WINDOW + 2})
             u == SubSeq(w, m, Len(w))
  <1>1. Len(w) \in Nat
    BY LenNat
  <1>2. 1 \in Int /\ Len(w) - WINDOW + 2 \in Int
    BY SMTT(30), <1>1, Bounds
  <1>3. m = IF 1 >= Len(w) - WINDOW + 2 THEN 1 ELSE Len(w) - WINDOW + 2
    BY <1>2, MaxOfTwo
  <1>4. m \in Nat /\ m >= 1
    BY SMTT(30), <1>2, <1>3
  <1> HIDE DEF m
  <1>5. u \in Seq(Nat)
    BY SMTT(30), <1>1, <1>4
  <1>6. Slide(w, v) = Append(u, v)
    BY DEF Slide, m
  <1> HIDE DEF u
  <1>7. Append(u, v) \in Seq(Nat) /\ Len(Append(u, v)) = Len(u) + 1 /\ Append(u, v)[Len(u) + 1] = v /\ Len(u) \in Nat
    BY SMTT(30), <1>5
  <1>8. Len(u) + 1 \in 1 .. Len(Append(u, v))
    BY SMTT(30), <1>7
  <1> QED BY <1>6, <1>7, <1>8 DEF HasVote

(* t is s after add of block b, which passes the check, at height h. *)
Added(s, b, h, t) ==
  /\ t \in States /\ t.chain = s.chain
  /\ \A g \in 0 .. MaxHeight - 1 : t.stored[g] = IF g = h THEN b.version ELSE s.stored[g]
  /\ t.index >= s.index
  /\ t.index = s.index \/ t.index <= ForkAt(h + 1)
  /\ OneVote /\ b.vote >= LastVersion => t.index >= ForkAt(h + 1)

LEMMA AddIs ==
  ASSUME NEW s \in States, NEW b \in Block, NEW h \in 0 .. MaxHeight - 1, do_check(s, b), NEW t, t = add(s, b, h)
  PROVE  Added(s, b, h, t)
  <1>1. /\ s.chain \in Seq(Block) /\ s.stored \in [0 .. MaxHeight - 1 -> Nat]
        /\ s.window \in Seq(Nat) /\ s.index \in 1 .. Len(Forks)
    BY Fields
  <1>2. PICK v \in Nat : v = EffectiveVote(b) /\ (b.vote >= LastVersion => v = LastVersion)
    BY EffectiveVoteIs
  <1>3. PICK w \in Seq(Nat) : w = Slide(s.window, v) /\ (v = LastVersion => HasVote(w))
    BY <1>1, SlideIs
  <1>4. PICK d \in [0 .. MaxHeight - 1 -> Nat] : d = [s.stored EXCEPT ![h] = Forks[s.index].version]
    <2>1. Forks[s.index].version \in Nat
      BY <1>1, Table
    <2> QED BY <1>1, <2>1
  <1>5. PICK r : r = [s EXCEPT !.stored[h] = Forks[s.index].version, !.window = Slide(@, EffectiveVote(b))]
    OBVIOUS
  <1>6. PICK q : q = [s EXCEPT !.stored[h] = Forks[s.index].version]
    OBVIOUS
  <1>7. r = [q EXCEPT !.window = w]
    BY <1>2, <1>3, <1>5, <1>6, TwoChanges DEF States
  <1>8. r \in States /\ r.chain = s.chain /\ r.stored = d /\ r.window = w /\ r.index = s.index
    <2>1. q = [chain |-> s.chain, stored |-> d, window |-> s.window, index |-> s.index]
      BY <1>4, <1>6, StoredChange DEF States
    <2>2. q \in States
      BY <1>1, <2>1 DEF States
    <2>3. r = [chain |-> q.chain, stored |-> q.stored, window |-> w, index |-> q.index]
      BY <1>7, <2>2, WindowChange DEF States
    <2>4. q.chain = s.chain /\ q.stored = d /\ q.index = s.index
      BY SMTT(30), <2>1
    <2>5. r = [chain |-> s.chain, stored |-> d, window |-> w, index |-> s.index]
      BY <2>3, <2>4
    <2>6. r \in States
      BY <1>1, <2>5 DEF States
    <2> QED BY SMTT(30), <2>5, <2>6
  <1>9. t = Raise(r, h + 1) /\ h + 1 \in Nat
    <2>1. h + 1 \in Nat
      BY SMTT(30), Bounds
    <2> QED BY <1>5, <2>1 DEF add
  <1>10. /\ t \in States /\ t.chain = r.chain /\ t.stored = r.stored
         /\ t.index >= r.index
         /\ t.index = r.index \/ t.index <= ForkAt(h + 1)
         /\ OneVote /\ HasVote(r.window) => t.index >= ForkAt(h + 1)
    BY <1>8, <1>9, RaiseIs
  <1>11. Forks[s.index].version = b.version
    BY DEF do_check
  <1>12. \A g \in 0 .. MaxHeight - 1 : t.stored[g] = IF g = h THEN b.version ELSE s.stored[g]
    <2>1. t.stored = d
      BY <1>8, <1>10
    <2>2. d = [s.stored EXCEPT ![h] = b.version]
      BY <1>4, <1>11
    <2>3. \A g \in 0 .. MaxHeight - 1 : d[g] = IF g = h THEN b.version ELSE s.stored[g]
      BY <1>1, <2>2
    <2> QED BY <2>1, <2>3
  <1> QED BY <1>2, <1>3, <1>8, <1>10, <1>12 DEF Added

(* Adding a block of the chain again keeps the state sound. *)
LEMMA AddAgain ==
  ASSUME NEW s \in Sound, NEW h \in 0 .. Len(s.chain) - 1, s.index <= ForkAt(h),
         NEW t, t = add(s, s.chain[h + 1], h)
  PROVE  /\ t \in Sound /\ t.chain = s.chain /\ t.index <= ForkAt(h + 1)
         /\ OneVote /\ Timely(s.chain) /\ h > 0 /\ s.index >= ForkAt(h) => t.index >= ForkAt(h + 1)
  <1>1. s \in States /\ Len(s.chain) \in 0 .. MaxHeight /\ Checked(s)
    BY DEF Sound
  <1>2. /\ s.chain \in Seq(Block) /\ s.stored \in [0 .. MaxHeight - 1 -> Nat] /\ s.index \in 1 .. Len(Forks)
    BY <1>1, Fields
  <1>3. /\ h \in Nat /\ h + 1 \in Nat /\ h + 1 \in 1 .. Len(s.chain) /\ h \in 0 .. MaxHeight - 1
        /\ (h + 1) - 1 = h /\ h <= h + 1
    BY SMTT(30), <1>1, Bounds
  <1>4. PICK b \in Block : b = s.chain[h + 1]
    BY <1>2, <1>3, ElementIs
  <1>5. s.stored[h] = b.version
    BY <1>1, <1>3, <1>4 DEF Checked
  <1>6. ForkAt(h) \in 1 .. Len(Forks) /\ ForkAt(h + 1) \in 1 .. Len(Forks) /\ ForkAt(h) <= ForkAt(h + 1)
    BY <1>3, ForkAtIs, ForkAtRises
  <1>7. CASE do_check(s, b)
    <2>1. /\ t \in States /\ t.chain = s.chain
          /\ \A g \in 0 .. MaxHeight - 1 : t.stored[g] = IF g = h THEN b.version ELSE s.stored[g]
          /\ t.index >= s.index /\ (t.index = s.index \/ t.index <= ForkAt(h + 1))
          /\ (OneVote /\ b.vote >= LastVersion => t.index >= ForkAt(h + 1))
      <3>1. t = add(s, b, h)
        BY <1>4
      <3>2. s \in States /\ h \in 0 .. MaxHeight - 1
        BY <1>1, <1>3
      <3>3. Added(s, b, h, t)
        BY <1>7, <3>1, <3>2, AddIs
      <3> QED BY <3>3 DEF Added
    <2>2. \A g \in 0 .. MaxHeight - 1 : t.stored[g] = s.stored[g]
      BY <1>5, <2>1
    <2>3. t \in Sound
      <3>1. \A k \in 1 .. Len(s.chain) : k - 1 \in 0 .. MaxHeight - 1
        BY SMTT(30), <1>1, Bounds
      <3>2. \A k \in 1 .. Len(t.chain) : t.stored[k - 1] = s.stored[k - 1]
        BY <2>1, <2>2, <3>1
      <3>3. Checked(t)
        BY <1>1, <2>1, <3>2 DEF Checked
      <3> QED BY <1>1, <2>1, <3>3 DEF Sound
    <2>4. t.index <= ForkAt(h + 1)
      BY SMTT(30), <1>2, <1>6, <2>1
    <2>5. h > 0 /\ Timely(s.chain) => b.vote >= LastVersion
      <3>1. h > 0 => h + 1 > 1
        BY SMTT(30), <1>3
      <3> QED BY <1>3, <1>4, <3>1 DEF Timely
    <2> QED BY <2>1, <2>3, <2>4, <2>5
  <1>8. CASE ~do_check(s, b)
    <2>1. t = s
      BY <1>4, <1>8 DEF add
    <2>2. s.index <= ForkAt(h + 1)
      BY SMTT(30), <1>2, <1>6
    <2>3. ASSUME Timely(s.chain), h > 0, s.index >= ForkAt(h) PROVE FALSE
      <3>1. s.index = ForkAt(h)
        BY SMTT(30), <1>2, <1>6, <2>3
      <3>2. b.version = Forks[s.index].version
        BY <1>3, <1>4, <2>3, <3>1 DEF Timely, get_ideal_version
      <3>3. b.vote >= LastVersion
        <4>1. h + 1 > 1
          BY SMTT(30), <1>3, <2>3
        <4> QED BY <1>3, <1>4, <2>3, <4>1 DEF Timely
      <3>4. Forks[s.index].version <= LastVersion
        <4>1. Len(Forks) \in 1 .. Len(Forks) /\ s.index <= Len(Forks)
          BY SMTT(30), <1>2, Table
        <4> QED BY <1>2, <4>1, VersionOrder DEF LastVersion
      <3>5. b.vote \in Nat /\ LastVersion \in Nat /\ Forks[s.index].version \in Nat
        BY <1>2, <1>4, Table DEF Block
      <3>6. b.vote >= Forks[s.index].version
        BY SMTT(30), <3>3, <3>4, <3>5
      <3> QED BY <1>8, <3>2, <3>6 DEF do_check
    <2> QED BY <2>1, <2>2, <2>3
  <1> QED BY <1>7, <1>8

-----------------------------------------------------------------------------
(* Loops.  T[i] holds the states after i rounds and g[i] is round i.       *)

IsFold(f, b, g, T, n) ==
  /\ f = [i \in 0 .. n |-> IF i = 0 THEN b ELSE g[i][f[i - 1]]]
  /\ \A i \in 0 .. n : f[i] \in T[i]

LEMMA FoldExists ==
  ASSUME NEW n \in Nat, NEW T, NEW b \in T[0], NEW g, \A i \in 1 .. n : \A t \in T[i - 1] : g[i][t] \in T[i]
  PROVE  \E f : IsFold(f, b, g, T, n)
  <1> DEFINE S == {k \in Nat : k <= n => \E f : IsFold(f, b, g, T, k)}
  <1>1. 0 \in S
    <2> DEFINE f == [i \in 0 .. 0 |-> b]
    <2>1. \A i \in 0 .. 0 : i = 0
      BY SMTT(30)
    <2>2. f = [i \in 0 .. 0 |-> IF i = 0 THEN b ELSE g[i][f[i - 1]]]
      BY <2>1
    <2>3. IsFold(f, b, g, T, 0)
      BY <2>1, <2>2 DEF IsFold
    <2>4. 0 \in Nat
      BY SMTT(30)
    <2> QED BY <2>3, <2>4
  <1>2. ASSUME NEW k \in Nat, k \in S PROVE k + 1 \in S
    <2> SUFFICES ASSUME k + 1 <= n PROVE \E f : IsFold(f, b, g, T, k + 1)
      BY SMTT(30)
    <2>1. k <= n /\ k + 1 \in 1 .. n /\ (k + 1) - 1 = k /\ k \in 0 .. k /\ k + 1 # 0
      BY SMTT(30)
    <2>2. PICK f : IsFold(f, b, g, T, k)
      BY <1>2, <2>1
    <2> DEFINE e == [i \in 0 .. k + 1 |-> IF i = k + 1 THEN g[k + 1][f[k]] ELSE f[i]]
    <2>3. \A i \in 0 .. k + 1 : i = k + 1 \/ (i \in 0 .. k /\ i # k + 1 /\ i - 1 # k + 1)
      BY SMTT(30)
    <2>4. \A i \in 0 .. k : i # 0 => i - 1 \in 0 .. k + 1
      BY SMTT(30)
    <2>5. \A i \in 0 .. k : f[i] = (IF i = 0 THEN b ELSE g[i][f[i - 1]]) /\ f[i] \in T[i]
      BY <2>2 DEF IsFold
    <2>6. k \in 0 .. k + 1 /\ k # k + 1
      BY SMTT(30)
    <2>7. e[k] = f[k]
      BY <2>6
    <2>8. ASSUME NEW i \in 0 .. k + 1 PROVE e[i] = (IF i = 0 THEN b ELSE g[i][e[i - 1]]) /\ e[i] \in T[i]
      <3>1. CASE i = k + 1
        <4>1. e[i] = g[i][e[i - 1]]
          BY <2>1, <2>7, <3>1
        <4>2. f[k] \in T[k]
          BY <2>1, <2>5
        <4>3. g[k + 1][f[k]] \in T[k + 1]
          BY <2>1, <4>2
        <4> QED BY <2>1, <3>1, <4>1, <4>3
      <3>2. CASE i # k + 1
        <4>1. i \in 0 .. k /\ i - 1 # k + 1 /\ e[i] = f[i]
          BY <2>3, <3>2
        <4>2. i # 0 => e[i - 1] = f[i - 1]
          BY <2>4, <4>1
        <4> QED BY <2>5, <4>1, <4>2
      <3> QED BY <3>1, <3>2
    <2>9. e = [i \in 0 .. k + 1 |-> e[i]]
      OBVIOUS
    <2> HIDE DEF e
    <2>10. IsFold(e, b, g, T, k + 1)
      BY <2>8, <2>9 DEF IsFold
    <2> QED BY <2>10
  <1> HIDE DEF S
  <1>3. n \in S /\ n <= n
    <2>1. n <= n
      BY SMTT(30)
    <2> QED BY <1>1, <1>2, <2>1, Induction
  <1> QED BY <1>3 DEF S

LEMMA AddAboveIs ==
  ASSUME NEW s \in Sound, NEW h \in 0 .. Len(s.chain) - 1, s.index <= ForkAt(h + 1),
         NEW t, t = AddAbove(s, h)
  PROVE  /\ t \in Sound /\ t.chain = s.chain /\ t.index <= ForkAt(Len(s.chain))
         /\ OneVote /\ Timely(s.chain) /\ s.index >= ForkAt(h + 1) => t.index >= ForkAt(Len(s.chain))
  <1> DEFINE n == Len(s.chain) - 1 - h
             Early == OneVote /\ Timely(s.chain) /\ s.index >= ForkAt(h + 1)
             After(i) == {r \in Sound : /\ r.chain = s.chain /\ r.index <= ForkAt(h + i + 1)
                                        /\ Early => r.index >= ForkAt(h + i + 1)}
             T == [i \in 0 .. n |-> After(i)]
             round(i, r) == add(r, s.chain[h + i + 1], h + i)
             g == [i \in 1 .. n |-> [r \in After(i - 1) |-> round(i, r)]]
             body(f) == [i \in 0 .. n |-> IF i = 0 THEN s ELSE round(i, f[i - 1])]
             up == CHOOSE f : f = body(f)
  <1>1. Len(s.chain) \in 0 .. MaxHeight
    BY DEF Sound
  <1>2. n \in Nat /\ h + n + 1 = Len(s.chain) /\ n \in 0 .. n /\ 0 \in 0 .. n /\ h + 0 + 1 = h + 1
    BY SMTT(30), <1>1, Bounds
  <1>3. ASSUME NEW i \in 1 .. n, NEW r \in After(i - 1) PROVE round(i, r) \in After(i)
    <2>1. h + i \in 0 .. Len(s.chain) - 1 /\ h + (i - 1) + 1 = h + i /\ h + i > 0
      BY SMTT(30), <1>1, <1>2, Bounds
    <2>2. r \in Sound /\ r.chain = s.chain /\ r.index <= ForkAt(h + i) /\ (Early => r.index >= ForkAt(h + i))
      <3> HIDE DEF n, Early
      <3>1. /\ r \in Sound /\ r.chain = s.chain /\ r.index <= ForkAt(h + (i - 1) + 1)
            /\ Early => r.index >= ForkAt(h + (i - 1) + 1)
        BY <1>3
      <3> QED BY <2>1, <3>1
    <2>3. PICK x : x = round(i, r)
      OBVIOUS
    <2>4. x = add(r, r.chain[(h + i) + 1], h + i)
      BY <2>2, <2>3
    <2>5. PICK j \in 0 .. Len(r.chain) - 1 : j = h + i
      BY <2>1, <2>2
    <2>6. /\ x \in Sound /\ x.chain = r.chain /\ x.index <= ForkAt(j + 1)
          /\ OneVote /\ Timely(r.chain) /\ j > 0 /\ r.index >= ForkAt(j) => x.index >= ForkAt(j + 1)
      BY <2>2, <2>4, <2>5, AddAgain
    <2> QED BY <2>1, <2>2, <2>3, <2>5, <2>6
  <1>4. s \in T[0]
    BY <1>2
  <1>5. \A i \in 1 .. n : i \in 0 .. n /\ i - 1 \in 0 .. n
    BY SMTT(30), <1>2
  <1>6. \A i \in 1 .. n : \A r \in T[i - 1] : g[i][r] = round(i, r) /\ round(i, r) \in T[i]
    BY <1>3, <1>5
  <1>7. PICK f : IsFold(f, s, g, T, n)
    <2> HIDE DEF T, g, n, round
    <2>1. \A i \in 1 .. n : \A r \in T[i - 1] : g[i][r] \in T[i]
      BY <1>6
    <2> QED BY <1>2, <1>4, <2>1, FoldExists
  <1>8. f = body(f) /\ f[n] \in T[n]
    <2> HIDE DEF T, g, n, round
    <2>1. \A i \in 0 .. n : i = 0 \/ (i \in 1 .. n /\ i - 1 \in 0 .. n)
      BY SMTT(30), <1>2
    <2> QED BY <1>2, <1>6, <1>7, <2>1 DEF IsFold
  <1>9. t = up[n]
    BY DEF AddAbove
  <1>10. up = body(up)
    <2> HIDE DEF body
    <2> QED BY <1>8
  <1>11. \A i \in 0 .. n : up[i] \in T[i]
    <2> HIDE DEF T, g, n, round, up
    <2> DEFINE S == {i \in Nat : i <= n => up[i] \in T[i]}
    <2>1. \A i \in 0 .. n : up[i] = IF i = 0 THEN s ELSE round(i, up[i - 1])
      BY <1>10
    <2>2. 0 \in S
      BY SMTT(30), <1>2, <1>4, <2>1
    <2>3. ASSUME NEW i \in Nat, i \in S PROVE i + 1 \in S
      <3> SUFFICES ASSUME i + 1 <= n PROVE up[i + 1] \in T[i + 1]
        BY SMTT(30)
      <3>1. i <= n /\ i + 1 \in 1 .. n /\ i + 1 \in 0 .. n /\ (i + 1) - 1 = i /\ i + 1 # 0
        BY SMTT(30), <1>2
      <3>2. up[i] \in T[i] /\ up[i + 1] = round(i + 1, up[i])
        BY <2>1, <2>3, <3>1
      <3> QED BY <1>6, <3>1, <3>2
    <2> HIDE DEF S
    <2>4. Nat \subseteq S
      BY <2>2, <2>3, Induction
    <2> QED BY SMTT(30), <1>2, <2>4 DEF S
  <1>12. t \in After(n)
    BY <1>2, <1>9, <1>11
  <1> HIDE DEF n
  <1>13. /\ t \in Sound /\ t.chain = s.chain /\ t.index <= ForkAt(h + n + 1)
         /\ Early => t.index >= ForkAt(h + n + 1)
    BY <1>12
  <1> QED BY <1>2, <1>13

-----------------------------------------------------------------------------
(* The operations.                                                         *)

(* Later forks have greater heights, so with OneVote the first fork is in  *)
(* force for genesis and the block after it.                               *)
LEMMA HeightsRise ==
  ASSUME Len(Forks) > 1, NEW n \in 2 .. Len(Forks)
  PROVE  Forks[2].height <= Forks[n].height
  <1> DEFINE S == {k \in Nat : k + 2 <= Len(Forks) => Forks[2].height <= Forks[k + 2].height}
  <1>1. 2 \in 1 .. Len(Forks) /\ Forks[2].height \in Nat
    <2>1. 2 \in 1 .. Len(Forks)
      BY SMTT(30), Table
    <2> QED BY <2>1, Table
  <1>2. 0 \in S
    <2>1. 0 + 2 = 2 /\ 0 \in Nat /\ Forks[2].height <= Forks[2].height
      BY SMTT(30), <1>1
    <2> QED BY <2>1
  <1>3. ASSUME NEW k \in Nat, k \in S PROVE k + 1 \in S
    <2> SUFFICES ASSUME (k + 1) + 2 <= Len(Forks) PROVE Forks[2].height <= Forks[(k + 1) + 2].height
      BY SMTT(30)
    <2>1. k + 2 <= Len(Forks) /\ k + 2 \in 1 .. Len(Forks) - 1 /\ (k + 1) + 2 = (k + 2) + 1
          /\ (k + 1) + 2 \in 1 .. Len(Forks) /\ k + 2 \in 1 .. Len(Forks)
      BY SMTT(30), Table
    <2>2. Forks[2].height <= Forks[k + 2].height
      BY <1>3, <2>1
    <2>3. Forks[k + 2].height < Forks[(k + 2) + 1].height
      BY <2>1, ForksAssumption
    <2>4. Forks[k + 2].height \in Nat /\ Forks[(k + 2) + 1].height \in Nat
      BY <2>1, Table
    <2> QED BY SMTT(30), <1>1, <2>1, <2>2, <2>3, <2>4
  <1> HIDE DEF S
  <1>4. n - 2 \in Nat /\ (n - 2) + 2 = n /\ n <= Len(Forks)
    BY SMTT(30), Table
  <1>5. n - 2 \in S
    BY <1>2, <1>3, <1>4, Induction
  <1> QED BY <1>4, <1>5 DEF S

LEMMA FirstFork ==
  ASSUME OneVote, NEW h \in {0, 1}
  PROVE  ForkAt(h) = 1
  <1>1. h \in Nat
    BY SMTT(30)
  <1>2. ForkAt(h) \in 1 .. Len(Forks) /\ h >= Forks[ForkAt(h)].height /\ Forks[ForkAt(h)].height \in Nat
    BY <1>1, ForkAtIs, Table
  <1>3. ASSUME ForkAt(h) # 1 PROVE FALSE
    <2>1. ForkAt(h) \in 2 .. Len(Forks) /\ Len(Forks) > 1
      BY SMTT(30), <1>2, <1>3, Table
    <2>2. Forks[2].height <= Forks[ForkAt(h)].height /\ Forks[2].height > 1
      BY <2>1, HeightsRise DEF OneVote
    <2>3. Forks[2].height \in Nat
      <3>1. 2 \in 1 .. Len(Forks)
        BY SMTT(30), <2>1, Table
      <3> QED BY <3>1, Table
    <2> QED BY SMTT(30), <1>2, <2>2, <2>3
  <1> QED BY <1>3

(* The window of the blocks' own votes. *)
LEMMA VotesOfBlocksIs ==
  ASSUME NEW c \in Seq(Block), NEW from \in Nat, NEW to \in Nat, from <= to, to < Len(c),
         NEW w, w = VotesOfBlocks(c, from, to)
  PROVE  w \in Seq(Nat) /\ (c[to + 1].vote >= LastVersion => HasVote(w))
  <1> DEFINE n == to - from + 1
  <1>1. Len(c) \in Nat
    BY LenNat
  <1>2. n \in Nat /\ n \in 1 .. n /\ from + n = to + 1
    BY SMTT(30)
  <1>3. \A i \in 1 .. n : from + i \in 1 .. Len(c)
    BY SMTT(30), <1>1
  <1>4. \A i \in 1 .. n : c[from + i] \in Block
    BY <1>3, ElementIs
  <1>5. w = [i \in 1 .. n |-> EffectiveVote(c[from + i])]
    BY DEF VotesOfBlocks
  <1> HIDE DEF n
  <1>6. w \in [1 .. n -> Nat]
    BY <1>4, <1>5, EffectiveVoteIs
  <1>7. w \in Seq(Nat) /\ Len(w) = n
    <2>1. w \in Seq(Nat)
      BY SMTT(30), <1>2, <1>6
    <2>2. DOMAIN w = 1 .. Len(w) /\ Len(w) \in Nat /\ DOMAIN w = 1 .. n
      BY SMTT(30), <1>6, <2>1
    <2>3. Len(w) = n
      BY SMTT(30), <1>2, <1>6
    <2> QED BY <2>1, <2>3
  <1>8. c[to + 1].vote >= LastVersion => w[n] = LastVersion
    BY <1>2, <1>4, <1>5, EffectiveVoteIs
  <1> QED BY <1>2, <1>7, <1>8 DEF HasVote

WithVotes(s, w, k, t) ==
  t \in States /\ t.chain = s.chain /\ t.stored = s.stored /\ t.window = w /\ t.index = k

LEMMA Counted ==
  ASSUME NEW s \in States, NEW w \in Seq(Nat), NEW k \in 1 .. Len(Forks),
         NEW t, t = [s EXCEPT !.window = w, !.index = k]
  PROVE  WithVotes(s, w, k, t)
  <1>1. PICK u : u = [s EXCEPT !.window = w]
    OBVIOUS
  <1>2. u = [chain |-> s.chain, stored |-> s.stored, window |-> w, index |-> s.index]
    BY <1>1, WindowChange DEF States
  <1>3. u \in States
    BY <1>2, Fields DEF States
  <1>4. t = [u EXCEPT !.index = k]
    BY <1>1, TwoMoreChanges DEF States
  <1>5. t \in States /\ t.chain = u.chain /\ t.stored = u.stored /\ t.window = u.window /\ t.index = k
    <2>1. Reindexed(u, k, t)
      BY <1>3, <1>4, WithIndex
    <2> QED BY <2>1 DEF Reindexed
  <1>6. u.chain = s.chain /\ u.stored = s.stored /\ u.window = w
    BY SMTT(30), <1>2
  <1> QED BY <1>5, <1>6 DEF WithVotes

Good == {s \in Sound : s.index <= ForkAt(Len(s.chain))}
OnTime(s) == OneVote /\ Timely(s.chain) /\ s.index >= ForkAt(Len(s.chain))

(* t is s with the version in force counted anew: never one too early, and *)
(* with timely blocks never one too late.                                  *)
Recounted(s, t) ==
  t \in Good /\ t.chain = s.chain /\ (OnTime(s) => OnTime(t))

(* A state that differs from a sound one in the window and the index. *)
LEMMA StaysSound ==
  ASSUME NEW s \in Sound, NEW t \in States, t.chain = s.chain, t.stored = s.stored
  PROVE  t \in Sound
  BY DEF Sound, Checked

(* The version stored for a height is the one of a fork that was due. *)
LEMMA StoredFork ==
  ASSUME NEW s \in Sound, NEW h \in 0 .. Len(s.chain) - 1
  PROVE  /\ \E n \in 1 .. ForkAt(h) : n \in 1 .. Len(Forks) /\ s.stored[h] = Forks[n].version
         /\ Timely(s.chain) => s.stored[h] = Forks[ForkAt(h)].version
  <1>1. Len(s.chain) \in 0 .. MaxHeight /\ Checked(s)
    BY DEF Sound
  <1>2. h + 1 \in 1 .. Len(s.chain) /\ (h + 1) - 1 = h /\ h \in Nat
    BY SMTT(30), <1>1, Bounds
  <1>3. PICK n \in 1 .. ForkAt(h) : s.chain[h + 1].version = Forks[n].version
    BY <1>1, <1>2 DEF Checked
  <1>4. ForkAt(h) \in 1 .. Len(Forks)
    BY <1>2, ForkAtIs
  <1>5. n \in 1 .. Len(Forks)
    BY SMTT(30), <1>4, Table
  <1>6. s.stored[h] = s.chain[h + 1].version
    BY <1>1, <1>2 DEF Checked
  <1> QED BY <1>2, <1>3, <1>5, <1>6 DEF Timely, get_ideal_version

LEMMA ReorganizeIs ==
  ASSUME NEW s \in Sound, NEW h \in 0 .. Len(s.chain) - 1,
         NEW t, t = reorganize_from_block_height(s, h)
  PROVE  Recounted(s, t)
  <1> DEFINE start == IF h = 0 THEN Forks[1].version ELSE s.stored[h]
             L == {n \in 1 .. s.index : n = 1 \/ Forks[n].version <= start}
  <1>1. s \in States /\ Len(s.chain) \in 0 .. MaxHeight
    BY DEF Sound
  <1>2. s.chain \in Seq(Block) /\ s.index \in 1 .. Len(Forks)
    BY <1>1, Fields
  <1>3. h \in Nat /\ h + 1 \in Nat /\ h < Len(s.chain) /\ h + 1 \in 1 .. Len(s.chain) /\ h <= h + 1
    BY SMTT(30), <1>1, Bounds
  <1>4. ForkAt(h) \in 1 .. Len(Forks) /\ ForkAt(h + 1) \in 1 .. Len(Forks) /\ ForkAt(h) <= ForkAt(h + 1)
    BY <1>3, ForkAtIs, ForkAtRises
  <1>5. OnTime(s) => OneVote /\ Timely(s.chain) /\ s.index >= ForkAt(h)
    <2>1. OnTime(s) => OneVote /\ Timely(s.chain) /\ s.index >= ForkAt(Len(s.chain))
      BY DEF OnTime
    <2>2. Len(s.chain) \in Nat /\ h <= Len(s.chain)
      BY SMTT(30), <1>1, Bounds
    <2>3. ForkAt(h) <= ForkAt(Len(s.chain)) /\ ForkAt(Len(s.chain)) \in 1 .. Len(Forks)
      BY <1>3, <2>2, ForkAtIs, ForkAtRises
    <2>4. s.index >= ForkAt(Len(s.chain)) => s.index >= ForkAt(h)
      BY SMTT(30), <1>2, <1>4, <2>3, Table
    <2> QED BY <2>1, <2>4
  <1>6. PICK m \in 1 .. ForkAt(h) : /\ m \in 1 .. Len(Forks) /\ start = Forks[m].version
                                    /\ OnTime(s) => m = ForkAt(h)
    <2>1. CASE h = 0
      <3>1. 1 \in 1 .. ForkAt(h)
        BY SMTT(30), <1>4, Table
      <3> QED BY <1>5, <2>1, <3>1, Table, FirstFork
    <2>2. CASE h # 0
      <3>1. PICK m \in 1 .. ForkAt(h) : m \in 1 .. Len(Forks) /\ s.stored[h] = Forks[m].version
        BY StoredFork
      <3>2. CASE OnTime(s)
        <4>1. ForkAt(h) \in 1 .. ForkAt(h)
          BY SMTT(30), <1>4, Table
        <4>2. s.stored[h] = Forks[ForkAt(h)].version
          BY <1>5, <3>2, StoredFork
        <4> QED BY <1>4, <2>2, <4>1, <4>2
      <3>3. CASE ~(OnTime(s))
        BY <2>2, <3>1, <3>3
      <3> QED BY <3>2, <3>3
    <2> QED BY <2>1, <2>2
  <1>7. PICK low : low = Max(L)
    OBVIOUS
  <1>8. low \in L /\ \A y \in L : low >= y
    <2>1. L \subseteq 0 .. Len(Forks) /\ 1 \in L
      BY SMTT(30), <1>2, Table
    <2> HIDE DEF L
    <2>2. L # {}
      BY <2>1
    <2> QED BY <1>7, <2>1, <2>2, Table, MaxIs
  <1>9. low \in 1 .. Len(Forks) /\ low <= ForkAt(h)
    <2>1. low \in 1 .. Len(Forks)
      BY SMTT(30), <1>2, <1>8, Table
    <2>2. low = 1 \/ low <= m
      BY <1>6, <1>8, <2>1, VersionOrder
    <2> QED BY SMTT(30), <1>4, <1>6, <2>1, <2>2, Table
  <1>10. OnTime(s) => low >= ForkAt(h)
    <2> SUFFICES ASSUME OnTime(s) PROVE low >= ForkAt(h)
      OBVIOUS
    <2>1. ForkAt(h) \in 1 .. s.index
      BY SMTT(30), <1>2, <1>4, <1>5, Table
    <2>2. Forks[ForkAt(h)].version <= start
      <3>1. start = Forks[ForkAt(h)].version
        BY <1>6
      <3>2. start \in Nat
        BY <1>4, <3>1, Table
      <3> QED BY <3>1, <3>2, SelfLess
    <2> QED BY <1>8, <2>1, <2>2
  <1>11. PICK from \in Nat : from = Max({h - (WINDOW - 1), 0}) /\ from <= h
    <2>1. h - (WINDOW - 1) \in Int /\ 0 \in Int
      BY SMTT(30), <1>3, Bounds
    <2>2. Max({h - (WINDOW - 1), 0}) = IF h - (WINDOW - 1) >= 0 THEN h - (WINDOW - 1) ELSE 0
      BY <2>1, MaxOfTwo
    <2> QED BY SMTT(30), <1>3, <2>2, Bounds
  <1>12. PICK w \in Seq(Nat) : /\ w = VotesOfBlocks(s.chain, from, h)
                               /\ s.chain[h + 1].vote >= LastVersion => HasVote(w)
    BY <1>2, <1>3, <1>11, VotesOfBlocksIs
  <1>13. PICK c : c = [s EXCEPT !.window = w, !.index = low]
    OBVIOUS
  <1>14. c \in States /\ c.chain = s.chain /\ c.stored = s.stored /\ c.window = w /\ c.index = low
    <2>1. WithVotes(s, w, low, c)
      BY <1>1, <1>9, <1>12, <1>13, Counted
    <2> QED BY <2>1 DEF WithVotes
  <1>15. PICK r : r = Raise(c, h + 1)
    OBVIOUS
  <1>16. t = AddAbove(r, h)
    BY <1>7, <1>11, <1>12, <1>13, <1>15 DEF reorganize_from_block_height
  <1>17. /\ r \in States /\ r.chain = s.chain /\ r.stored = s.stored /\ r.index >= low
         /\ r.index = low \/ r.index <= ForkAt(h + 1)
         /\ OneVote /\ HasVote(w) => r.index >= ForkAt(h + 1)
    BY <1>3, <1>14, <1>15, RaiseIs
  <1>18. r \in Sound
    BY <1>17, StaysSound
  <1>19. r.index \in Int /\ r.index <= ForkAt(h + 1)
    <2>1. r.index \in 1 .. Len(Forks)
      BY <1>17, Fields
    <2> QED BY SMTT(30), <1>4, <1>9, <1>17, <2>1, Table
  <1>20. OnTime(s) => r.index >= ForkAt(h + 1)
    <2> SUFFICES ASSUME OnTime(s) PROVE r.index >= ForkAt(h + 1)
      OBVIOUS
    <2>1. CASE h = 0
      <3>1. ForkAt(h) = 1 /\ ForkAt(h + 1) = 1
        <4>1. h \in {0, 1} /\ h + 1 \in {0, 1}
          BY SMTT(30), <2>1
        <4> QED BY <1>5, <4>1, FirstFork
      <3> QED BY SMTT(30), <1>9, <1>10, <1>17, <1>19, <3>1, Table
    <2>2. CASE h # 0
      <3>1. h + 1 > 1
        BY SMTT(30), <1>3, <2>2
      <3> QED BY <1>3, <1>12, <1>17, <1>5, <3>1 DEF Timely
    <2> QED BY <2>1, <2>2
  <1>21. h \in 0 .. Len(r.chain) - 1
    BY <1>17
  <1>22. /\ t \in Sound /\ t.chain = r.chain /\ t.index <= ForkAt(Len(r.chain))
         /\ OneVote /\ Timely(r.chain) /\ r.index >= ForkAt(h + 1) => t.index >= ForkAt(Len(r.chain))
    BY <1>16, <1>18, <1>19, <1>21, AddAboveIs
  <1> QED BY <1>17, <1>20, <1>22, <1>5 DEF Recounted, Good, OnTime

LEMMA AppendIs ==
  ASSUME NEW S, NEW c \in Seq(S), NEW b \in S
  PROVE  /\ Append(c, b) \in Seq(S) /\ Len(Append(c, b)) = Len(c) + 1 /\ Append(c, b)[Len(c) + 1] = b
         /\ \A k \in 1 .. Len(c) : Append(c, b)[k] = c[k]
  BY SMTT(30)

LEMMA ChainChange ==
  ASSUME NEW A, NEW B, NEW C, NEW D, NEW s \in [chain : A, stored : B, window : C, index : D],
         NEW c, NEW t, t = [s EXCEPT !.chain = c]
  PROVE  t = [chain |-> c, stored |-> s.stored, window |-> s.window, index |-> s.index]
  BY SMTT(30)

WithChain(s, c, t) ==
  t \in States /\ t.chain = c /\ t.stored = s.stored /\ t.window = s.window /\ t.index = s.index

LEMMA Rechained ==
  ASSUME NEW s \in States, NEW c \in Seq(Block), NEW t, t = [s EXCEPT !.chain = c]
  PROVE  WithChain(s, c, t)
  <1>1. t = [chain |-> c, stored |-> s.stored, window |-> s.window, index |-> s.index]
    BY ChainChange DEF States
  <1>2. t \in States
    BY <1>1, Fields DEF States
  <1> QED BY SMTT(30), <1>1, <1>2 DEF WithChain

Connected(s, b, t) ==
  /\ t \in Good /\ t.chain = Append(s.chain, b)
  /\ OnTime(s) /\ (Len(s.chain) = 0 \/ b.vote >= LastVersion) => OnTime(t)

LEMMA ConnectIs ==
  ASSUME NEW s \in Good, Len(s.chain) < MaxHeight, NEW b \in Block, do_check(s, b),
         NEW t, t = Connect(s, b)
  PROVE  Connected(s, b, t)
  <1>1. s \in States /\ Len(s.chain) \in 0 .. MaxHeight /\ Checked(s) /\ s.index <= ForkAt(Len(s.chain))
    BY DEF Good, Sound
  <1>2. s.chain \in Seq(Block) /\ s.stored \in [0 .. MaxHeight - 1 -> Nat] /\ s.index \in 1 .. Len(Forks)
    BY <1>1, Fields
  <1>3. PICK n \in 0 .. MaxHeight - 1 : /\ n = Len(s.chain) /\ n \in Nat /\ n + 1 \in Nat /\ n <= n + 1
                                       /\ n + 1 \in 0 .. MaxHeight
    BY SMTT(30), <1>1, Bounds
  <1>4. PICK c \in Seq(Block) : /\ c = Append(s.chain, b) /\ Len(c) = n + 1 /\ c[n + 1] = b
                               /\ \A k \in 1 .. n : c[k] = s.chain[k]
    <2>1. s.chain \in Seq(Block) /\ b \in Block
      BY <1>2
    <2>2. Append(s.chain, b) \in Seq(Block)
      BY <2>1, AppendIs
    <2>3. Len(Append(s.chain, b)) = Len(s.chain) + 1 /\ Append(s.chain, b)[Len(s.chain) + 1] = b
      BY <2>1, AppendIs
    <2>4. \A k \in 1 .. Len(s.chain) : Append(s.chain, b)[k] = s.chain[k]
      BY SMTT(30), <2>1
    <2> QED BY <1>3, <2>2, <2>3, <2>4
  <1>5. PICK p : p = [s EXCEPT !.chain = c]
    OBVIOUS
  <1>6. p \in States /\ p.chain = c /\ p.stored = s.stored /\ p.window = s.window /\ p.index = s.index
    <2>1. WithChain(s, c, p)
      BY <1>1, <1>4, <1>5, Rechained
    <2> QED BY <2>1 DEF WithChain
  <1>7. t = add(p, b, n)
    BY <1>3, <1>4, <1>5 DEF Connect
  <1>8. do_check(p, b)
    BY <1>6 DEF do_check
  <1>9. Added(p, b, n, t)
    BY <1>6, <1>7, <1>8, AddIs
  <1>10. /\ t \in States /\ t.chain = c
         /\ \A g \in 0 .. MaxHeight - 1 : t.stored[g] = IF g = n THEN b.version ELSE s.stored[g]
         /\ t.index >= s.index /\ (t.index = s.index \/ t.index <= ForkAt(n + 1))
         /\ (OneVote /\ b.vote >= LastVersion => t.index >= ForkAt(n + 1))
    BY <1>6, <1>9 DEF Added
  <1>11. ForkAt(n) \in 1 .. Len(Forks) /\ ForkAt(n + 1) \in 1 .. Len(Forks) /\ ForkAt(n) <= ForkAt(n + 1)
    BY <1>3, ForkAtIs, ForkAtRises
  <1>12. t.index \in 1 .. Len(Forks)
    BY <1>10, Fields
  <1>13. t.index <= ForkAt(n + 1)
    BY SMTT(30), <1>1, <1>2, <1>3, <1>10, <1>11
  <1>14. \A k \in 1 .. n + 1 : k = n + 1 \/ (k \in 1 .. n /\ k - 1 \in 0 .. MaxHeight - 1 /\ k - 1 # n)
    BY SMTT(30), <1>3, Bounds
  <1>15. (n + 1) - 1 = n
    BY SMTT(30), <1>3
  <1>16. b.version = Forks[s.index].version
    BY DEF do_check
  <1>17. Checked(t)
    <2>1. ASSUME NEW k \in 1 .. n + 1
          PROVE  t.stored[k - 1] = c[k].version /\ \E m \in 1 .. ForkAt(k - 1) : c[k].version = Forks[m].version
      <3>1. CASE k = n + 1
        <4>1. s.index \in 1 .. ForkAt(n)
          BY SMTT(30), <1>1, <1>2, <1>3, <1>11
        <4> QED BY <1>3, <1>4, <1>10, <1>15, <1>16, <3>1, <4>1
      <3>2. CASE k # n + 1
        <4>1. k \in 1 .. n /\ k - 1 \in 0 .. MaxHeight - 1 /\ k - 1 # n
          BY <1>14, <3>2
        <4>2. s.stored[k - 1] = s.chain[k].version
              /\ \E m \in 1 .. ForkAt(k - 1) : s.chain[k].version = Forks[m].version
          BY <1>1, <1>3, <4>1 DEF Checked
        <4> QED BY <1>4, <1>10, <4>1, <4>2
      <3> QED BY <3>1, <3>2
    <2> QED BY <1>4, <1>10, <2>1 DEF Checked
  <1>18. t \in Good
    BY <1>3, <1>4, <1>10, <1>13, <1>17 DEF Good, Sound
  <1>19. ASSUME OnTime(s), n = 0 \/ b.vote >= LastVersion PROVE OnTime(t)
    <2>1. OneVote /\ Timely(s.chain) /\ s.index >= ForkAt(n)
      BY <1>3, <1>19 DEF OnTime
    <2>2. s.index = ForkAt(n)
      BY SMTT(30), <1>1, <1>2, <1>3, <1>11, <2>1
    <2>3. t.index >= ForkAt(n + 1)
      <3>1. CASE n = 0
        <4>1. n + 1 \in {0, 1}
          BY SMTT(30), <3>1
        <4>2. ForkAt(n + 1) = 1
          BY <2>1, <4>1, FirstFork
        <4> QED BY SMTT(30), <1>12, <4>2, Table
      <3>2. CASE b.vote >= LastVersion
        BY <1>10, <2>1, <3>2
      <3> QED BY <1>19, <3>1, <3>2
    <2>4. ASSUME NEW k \in 1 .. n + 1
          PROVE  c[k].version = get_ideal_version(k - 1) /\ (k > 1 => c[k].vote >= LastVersion)
      <3>1. CASE k = n + 1
        <4>1. n = 0 => ~(k > 1)
          BY SMTT(30), <1>3, <3>1
        <4> QED BY <1>4, <1>15, <1>16, <1>19, <2>2, <3>1, <4>1 DEF get_ideal_version
      <3>2. CASE k # n + 1
        <4>1. k \in 1 .. n
          BY <1>14, <3>2
        <4> QED BY <1>3, <1>4, <2>1, <4>1 DEF Timely
      <3> QED BY <3>1, <3>2
    <2>5. Timely(t.chain)
      BY <1>4, <1>10, <2>4 DEF Timely
    <2> QED BY <1>4, <1>10, <2>1, <2>3, <2>5 DEF OnTime
  <1> QED BY <1>3, <1>4, <1>10, <1>18, <1>19 DEF Connected

(* A block that is on time and votes for the last fork passes the check. *)
LEMMA Passes ==
  ASSUME NEW s \in Good, OnTime(s), NEW b \in Block,
         b.version = get_ideal_version(Len(s.chain)), b.vote >= LastVersion
  PROVE  do_check(s, b)
  <1>1. s \in States /\ s.index <= ForkAt(Len(s.chain)) /\ s.index >= ForkAt(Len(s.chain))
    BY DEF Good, Sound, OnTime
  <1>2. s.index \in 1 .. Len(Forks) /\ Len(s.chain) \in Nat
    BY <1>1, Fields
  <1>3. ForkAt(Len(s.chain)) \in 1 .. Len(Forks)
    BY <1>2, ForkAtIs
  <1>4. s.index = ForkAt(Len(s.chain))
    BY SMTT(30), <1>1, <1>2, <1>3
  <1>5. Forks[s.index].version <= LastVersion
    <2>1. Len(Forks) \in 1 .. Len(Forks) /\ s.index <= Len(Forks)
      BY SMTT(30), <1>2, Table
    <2> QED BY <1>2, <2>1, VersionOrder DEF LastVersion
  <1>6. b.vote \in Nat /\ LastVersion \in Nat /\ Forks[s.index].version \in Nat
    BY <1>2, Table DEF Block
  <1>7. b.vote >= Forks[s.index].version
    BY SMTT(30), <1>5, <1>6
  <1> QED BY <1>4, <1>7 DEF do_check, get_ideal_version

Willing(blocks) == \A i \in 1 .. Len(blocks) : blocks[i].vote >= LastVersion
Ideal(blocks, n) == \A i \in 1 .. Len(blocks) : blocks[i].version = get_ideal_version(n + (i - 1))

(* The chain is c and the first of the blocks. *)
Joined(c, blocks, d) ==
  \A k \in 1 .. Len(d) : d[k] = IF k <= Len(c) THEN c[k] ELSE blocks[k - Len(c)]

Reached(s, blocks, i) ==
  {r \in [ok : BOOLEAN, state : Good] :
     /\ Len(r.state.chain) \in Len(s.chain) .. Len(s.chain) + i
     /\ r.ok => Len(r.state.chain) = Len(s.chain) + i
     /\ Joined(s.chain, blocks, r.state.chain)
     /\ OnTime(s) /\ Willing(blocks) =>
          OnTime(r.state) /\ (Ideal(blocks, Len(s.chain)) => r.ok)}

LEMMA Results ==
  ASSUME NEW S, NEW u \in S
  PROVE  /\ \A t : t = [ok |-> TRUE, state |-> u] => t \in [ok : BOOLEAN, state : S] /\ t.ok /\ t.state = u
         /\ \A t : t = [ok |-> FALSE, state |-> u] => t \in [ok : BOOLEAN, state : S] /\ ~t.ok /\ t.state = u
  <1>1. ASSUME NEW t, t = [ok |-> TRUE, state |-> u]
        PROVE  t \in [ok : BOOLEAN, state : S] /\ t.ok /\ t.state = u
    BY <1>1
  <1>2. ASSUME NEW o, o = FALSE, NEW t, t = [ok |-> o, state |-> u]
        PROVE  t \in [ok : BOOLEAN, state : S] /\ ~t.ok /\ t.state = u
    <2>1. o \in BOOLEAN
      BY <1>2
    <2>2. t.ok = o /\ t.state = u
      BY <1>2
    <2>3. t \in [ok : BOOLEAN, state : S]
      BY <1>2, <2>1
    <2>4. ~o
      BY <1>2
    <2> QED BY <2>2, <2>3, <2>4
  <1> QED BY <1>1, <1>2

LEMMA Outcomes ==
  ASSUME NEW u, NEW l
  PROVE  /\ [ok |-> TRUE, letin |-> l, state |-> u].ok /\ [ok |-> TRUE, letin |-> l, state |-> u].state = u
         /\ [ok |-> FALSE, letin |-> l, state |-> u].state = u
  BY SMTT(30)

LEMMA RoundIs ==
  ASSUME NEW s \in Good, NEW blocks \in Seq(Block), Len(s.chain) + Len(blocks) <= MaxHeight,
         NEW i \in 1 .. Len(blocks), NEW r \in Reached(s, blocks, i - 1), NEW t, t = ConnectNext(r, blocks[i])
  PROVE  t \in Reached(s, blocks, i)
  <1>1. s \in States /\ s.chain \in Seq(Block)
    BY Fields DEF Good, Sound
  <1>2. PICK L \in Nat : L = Len(s.chain)
    BY <1>1, LenNat
  <1>3. PICK u \in Good : u = r.state
    BY DEF Reached
  <1>4. /\ r.ok \in BOOLEAN /\ Len(u.chain) \in L .. L + (i - 1)
        /\ (r.ok => Len(u.chain) = L + (i - 1)) /\ Joined(s.chain, blocks, u.chain)
        /\ (OnTime(s) /\ Willing(blocks) => OnTime(u) /\ (Ideal(blocks, L) => r.ok))
    BY <1>2, <1>3 DEF Reached
  <1>5. PICK b \in Block : b = blocks[i]
    BY ElementIs
  <1>6. Len(blocks) \in Nat
    BY LenNat
  <1>7. u.chain \in Seq(Block)
    BY Fields DEF Good, Sound
  <1>8. CASE r.ok /\ do_check(u, b)
    <2>1. PICK v : v = Connect(u, b)
      OBVIOUS
    <2>2. t = [ok |-> TRUE, state |-> v]
      BY <1>3, <1>5, <1>8, <2>1 DEF ConnectNext
    <2>3. Len(u.chain) = L + (i - 1)
      BY <1>4, <1>8
    <2>4. Len(u.chain) < MaxHeight
      BY SMTT(30), <1>2, <1>6, <2>3, Bounds
    <2>5. Connected(u, b, v)
      BY <1>8, <2>1, <2>4, ConnectIs
    <2>6. v \in Good /\ v.chain = Append(u.chain, b) /\ (OnTime(u) /\ b.vote >= LastVersion => OnTime(v))
      BY <2>5 DEF Connected
    <2>7. Len(v.chain) = Len(u.chain) + 1 /\ v.chain[Len(u.chain) + 1] = b
      BY SMTT(30), <1>7, <2>6
    <2>8. \A k \in 1 .. Len(u.chain) : v.chain[k] = u.chain[k]
      BY SMTT(30), <1>7, <2>6
    <2>9. Len(v.chain) = L + i /\ L + i \in L .. L + i /\ ~(L + i <= L) /\ (L + i) - L = i /\ Len(u.chain) + 1 = L + i
      BY SMTT(30), <1>2, <1>6, <2>3, <2>7
    <2>10. \A k \in 1 .. L + i : k = L + i \/ k \in 1 .. Len(u.chain)
      BY SMTT(30), <1>2, <1>6, <2>3
    <2>11. Joined(s.chain, blocks, v.chain)
      <3> SUFFICES ASSUME NEW k \in 1 .. L + i
                   PROVE  v.chain[k] = IF k <= L THEN s.chain[k] ELSE blocks[k - L]
        BY <1>2, <2>9 DEF Joined
      <3>1. CASE k = L + i
        BY <1>5, <2>7, <2>9, <3>1
      <3>2. CASE k \in 1 .. Len(u.chain)
        BY <1>2, <1>4, <2>8, <3>2 DEF Joined
      <3> QED BY <2>10, <3>1, <3>2
    <2>12. OnTime(s) /\ Willing(blocks) => OnTime(v)
      BY <1>4, <1>5, <2>6 DEF Willing
    <2>13. t \in [ok : BOOLEAN, state : Good] /\ t.ok /\ t.state = v
      BY <2>2, <2>6, Results
    <2> QED BY <1>2, <2>9, <2>11, <2>12, <2>13 DEF Reached
  <1>9. CASE ~(r.ok /\ do_check(u, b))
    <2>1. t = [ok |-> FALSE, state |-> u]
      BY <1>3, <1>5, <1>9 DEF ConnectNext
    <2>2. t \in [ok : BOOLEAN, state : Good] /\ ~t.ok /\ t.state = u
      BY <2>1, Results
    <2>3. Len(u.chain) \in L .. L + i
      BY SMTT(30), <1>2, <1>4, <1>6
    <2>4. ~(OnTime(s) /\ Willing(blocks) /\ Ideal(blocks, L))
      <3> SUFFICES ASSUME OnTime(s), Willing(blocks), Ideal(blocks, L) PROVE FALSE
        OBVIOUS
      <3>1. r.ok /\ OnTime(u)
        BY <1>4
      <3>2. Len(u.chain) = L + (i - 1)
        BY <1>4, <3>1
      <3>3. b.version = get_ideal_version(Len(u.chain)) /\ b.vote >= LastVersion
        BY <1>5, <3>2 DEF Willing, Ideal
      <3>4. do_check(u, b)
        BY <3>1, <3>3, Passes
      <3> QED BY <1>9, <3>1, <3>4
    <2> QED BY <1>2, <1>4, <2>2, <2>3, <2>4 DEF Reached
  <1> QED BY <1>8, <1>9

LEMMA ConnectAllIs ==
  ASSUME NEW s \in Good, NEW blocks \in Seq(Block), Len(s.chain) + Len(blocks) <= MaxHeight,
         NEW t, t = ConnectAll(s, blocks)
  PROVE  t \in Reached(s, blocks, Len(blocks))
  <1> DEFINE n == Len(blocks)
             first == [ok |-> TRUE, state |-> s]
             T == [i \in 0 .. n |-> Reached(s, blocks, i)]
             round(i, r) == ConnectNext(r, blocks[i])
             g == [i \in 1 .. n |-> [r \in Reached(s, blocks, i - 1) |-> round(i, r)]]
             body(f) == [i \in 0 .. n |-> IF i = 0 THEN first ELSE round(i, f[i - 1])]
             up == CHOOSE f : f = body(f)
  <1>1. n \in Nat /\ Len(s.chain) \in Nat /\ s.chain \in Seq(Block)
    <2>1. s \in States
      BY DEF Good, Sound
    <2> QED BY <2>1, Fields, LenNat
  <1>2. n \in 0 .. n /\ 0 \in 0 .. n
    BY SMTT(30), <1>1
  <1>3. ASSUME NEW i \in 1 .. n, NEW r \in Reached(s, blocks, i - 1) PROVE round(i, r) \in Reached(s, blocks, i)
    <2>1. PICK x : x = ConnectNext(r, blocks[i])
      OBVIOUS
    <2>2. x \in Reached(s, blocks, i)
      BY <2>1, RoundIs
    <2> QED BY <2>1, <2>2
  <1>4. first \in T[0]
    <2>1. Len(s.chain) \in Len(s.chain) .. Len(s.chain) + 0 /\ Len(s.chain) = Len(s.chain) + 0
      BY SMTT(30), <1>1
    <2>2. \A k \in 1 .. Len(s.chain) : k <= Len(s.chain)
      BY SMTT(30), <1>1
    <2>3. Joined(s.chain, blocks, s.chain)
      BY <2>2 DEF Joined
    <2>4. PICK r : r = first
      OBVIOUS
    <2>5. r \in [ok : BOOLEAN, state : Good] /\ r.ok /\ r.state = s
      BY <2>4, Results
    <2>6. r \in Reached(s, blocks, 0)
      BY <2>1, <2>3, <2>5 DEF Reached
    <2> QED BY <1>2, <2>4, <2>6
  <1> HIDE DEF first
  <1>5. \A i \in 1 .. n : i \in 0 .. n /\ i - 1 \in 0 .. n
    BY SMTT(30), <1>1
  <1>6. \A i \in 1 .. n : \A r \in T[i - 1] : g[i][r] = round(i, r) /\ round(i, r) \in T[i]
    <2> HIDE DEF n, round
    <2> QED BY <1>3, <1>5
  <1>7. PICK f : IsFold(f, first, g, T, n)
    <2> HIDE DEF T, g, n, round
    <2>1. \A i \in 1 .. n : \A r \in T[i - 1] : g[i][r] \in T[i]
      BY <1>6
    <2> QED BY <1>1, <1>4, <2>1, FoldExists
  <1>8. f = body(f) /\ f[n] \in T[n]
    <2> HIDE DEF T, g, n, round
    <2>1. \A i \in 0 .. n : i = 0 \/ (i \in 1 .. n /\ i - 1 \in 0 .. n)
      BY SMTT(30), <1>1
    <2> QED BY <1>2, <1>6, <1>7, <2>1 DEF IsFold
  <1>9. t = up[n]
    BY DEF ConnectAll, first
  <1>10. up = body(up)
    <2> HIDE DEF body
    <2> QED BY <1>8
  <1>11. \A i \in 0 .. n : up[i] \in T[i]
    <2> HIDE DEF T, g, n, round, up
    <2> DEFINE S == {i \in Nat : i <= n => up[i] \in T[i]}
    <2>1. \A i \in 0 .. n : up[i] = IF i = 0 THEN first ELSE round(i, up[i - 1])
      BY <1>10
    <2>2. 0 \in S
      <3>1. up[0] = first
        BY <1>2, <2>1
      <3> QED BY SMTT(30), <1>4, <3>1
    <2>3. ASSUME NEW i \in Nat, i \in S PROVE i + 1 \in S
      <3> SUFFICES ASSUME i + 1 <= n PROVE up[i + 1] \in T[i + 1]
        BY SMTT(30)
      <3>1. i <= n /\ i + 1 \in 1 .. n /\ i + 1 \in 0 .. n /\ (i + 1) - 1 = i /\ i + 1 # 0
        BY SMTT(30), <1>1
      <3>2. up[i] \in T[i] /\ up[i + 1] = round(i + 1, up[i])
        BY <2>1, <2>3, <3>1
      <3> QED BY <1>6, <3>1, <3>2
    <2> HIDE DEF S
    <2>4. Nat \subseteq S
      BY <2>2, <2>3, Induction
    <2> QED BY SMTT(30), <1>1, <2>4 DEF S
  <1> QED BY <1>2, <1>9, <1>11

LEMMA Prefix ==
  ASSUME NEW S, NEW c \in Seq(S), NEW h \in 0 .. Len(c), NEW d, d = SubSeq(c, 1, h)
  PROVE  d \in Seq(S) /\ Len(d) = h /\ \A k \in 1 .. h : d[k] = c[k]
  BY SMTT(30)

Shortened(s, h, t) ==
  /\ Len(t.chain) = h /\ \A k \in 1 .. h : t.chain[k] = s.chain[k]
  /\ Timely(s.chain) => Timely(t.chain)

(* Fewer blocks of a sound state are sound. *)
LEMMA CutIs ==
  ASSUME NEW s \in Sound, NEW h \in 0 .. Len(s.chain), NEW t \in States,
         t.stored = s.stored, t.chain = SubSeq(s.chain, 1, h)
  PROVE  t \in Sound /\ Shortened(s, h, t)
  <1>1. s \in States /\ Len(s.chain) \in 0 .. MaxHeight /\ Checked(s)
    BY DEF Sound
  <1>2. s.chain \in Seq(Block)
    BY <1>1, Fields
  <1>3. Len(t.chain) = h /\ \A k \in 1 .. h : t.chain[k] = s.chain[k]
    BY SMTT(30), <1>2
  <1>4. (\A k \in 1 .. h : k \in 1 .. Len(s.chain)) /\ h \in 0 .. MaxHeight
    BY SMTT(30), <1>1, Bounds
  <1>5. Checked(t)
    BY <1>1, <1>3, <1>4 DEF Checked
  <1>6. Timely(s.chain) => Timely(t.chain)
    BY <1>3, <1>4 DEF Timely
  <1> QED BY <1>3, <1>4, <1>5, <1>6 DEF Sound, Shortened

LEMMA ThreeChanges ==
  ASSUME NEW A, NEW B, NEW C, NEW D, NEW s \in [chain : A, stored : B, window : C, index : D],
         NEW c, NEW w, NEW k, NEW t, t = [s EXCEPT !.chain = c, !.window = w, !.index = k],
         NEW u, u = [s EXCEPT !.chain = c]
  PROVE  t = [u EXCEPT !.window = w, !.index = k]
  BY SMTT(30)

Popped(s, h, t) ==
  /\ t \in Good /\ Shortened(s, h, t)
  /\ OnTime(s) => OnTime(t)

LEMMA PopIs ==
  ASSUME NEW s \in Good, NEW h \in 0 .. Len(s.chain), NEW t, t = PopTo(s, h)
  PROVE  Popped(s, h, t)
  <1>1. s \in Sound /\ s \in States
    BY DEF Good, Sound
  <1>2. s.chain \in Seq(Block) /\ s.window \in Seq(Nat) /\ s.stored \in [0 .. MaxHeight - 1 -> Nat]
    BY <1>1, Fields
  <1>3. Len(s.chain) \in 0 .. MaxHeight /\ Len(s.window) \in Nat /\ h \in Nat
    <2>1. Len(s.chain) \in 0 .. MaxHeight /\ Len(s.window) \in Nat
      BY <1>1, <1>2, LenNat DEF Sound
    <2> QED BY SMTT(30), <2>1, Bounds
  <1>4. CASE h = Len(s.chain)
    <2>1. t = s
      BY <1>4 DEF PopTo
    <2> QED BY <1>4, <2>1 DEF Popped, Shortened
  <1>5. CASE h # Len(s.chain)
    <2>1. PICK c \in Seq(Block) : c = SubSeq(s.chain, 1, h)
      BY <1>2, Prefix
    <2>2. PICK a : a = StoredAbove(s, h)
      OBVIOUS
    <2>3. a \in Seq(Nat)
      <3>1. PICK n \in Nat : n = Len(s.chain) - h
        <4>1. Len(s.chain) - h \in Nat
          BY SMTT(30), <1>3
        <4> QED BY <4>1
      <3>2. \A i \in 1 .. n : h + i - 1 \in 0 .. MaxHeight - 1
        BY SMTT(30), <1>3, <3>1, Bounds
      <3>3. a = [i \in 1 .. n |-> s.stored[h + i - 1]]
        BY <2>2, <3>1 DEF StoredAbove
      <3>4. \A i \in 1 .. n : s.stored[h + i - 1] \in Nat
        BY <1>2, <3>2
      <3>5. a \in [1 .. n -> Nat]
        BY <3>3, <3>4
      <3> QED BY SMTT(30), <3>5
    <2>4. PICK w \in Seq(Nat) : w = SubSeq(a \o s.window, 1, Len(s.window))
      <3>1. PICK e : e = a \o s.window
        OBVIOUS
      <3>2. e \in Seq(Nat) /\ Len(s.window) \in 0 .. Len(e)
        BY SMTT(30), <1>2, <2>3, <3>1
      <3> QED BY <3>1, <3>2, Prefix
    <2>5. PICK k \in 1 .. Len(Forks) : k = ForkAt(h)
      BY <1>3, ForkAtIs
    <2>6. t = [s EXCEPT !.chain = c, !.window = w, !.index = k]
      BY <1>5, <2>1, <2>2, <2>4, <2>5 DEF PopTo
    <2>7. PICK u : u = [s EXCEPT !.chain = c]
      OBVIOUS
    <2>8. t = [u EXCEPT !.window = w, !.index = k]
      BY <1>1, <2>6, <2>7, ThreeChanges DEF States
    <2>9. WithChain(s, c, u)
      BY <1>1, <2>1, <2>7, Rechained
    <2>10. u \in States /\ u.chain = c /\ u.stored = s.stored
      BY <2>9 DEF WithChain
    <2>11. WithVotes(u, w, k, t)
      BY <2>4, <2>5, <2>8, <2>10, Counted
    <2>12. t \in States /\ t.chain = SubSeq(s.chain, 1, h) /\ t.stored = s.stored /\ t.index = ForkAt(h)
      BY <2>1, <2>5, <2>10, <2>11 DEF WithVotes
    <2>13. t \in Sound /\ Shortened(s, h, t)
      BY <1>1, <2>12, CutIs
    <2>14. t.index <= ForkAt(Len(t.chain)) /\ t.index >= ForkAt(Len(t.chain))
      <3>1. Len(t.chain) = h
        BY <2>13 DEF Shortened
      <3>2. t.index = k /\ ForkAt(Len(t.chain)) = k
        BY <2>5, <2>12, <3>1
      <3> QED BY SMTT(30), <3>2, Table
    <2> QED BY <2>13, <2>14 DEF Popped, Good, OnTime, Shortened
  <1> QED BY <1>4, <1>5

LEMMA RescanIs ==
  ASSUME NEW s \in Good, Len(s.chain) >= 1, NEW t, t = rescan(s)
  PROVE  Recounted(s, t) /\ t.stored = s.stored
  <1> DEFINE K(tip) == {n \in 1 .. Len(Forks) : Forks[n].version = s.stored[tip]}
  <1>1. s \in Sound /\ s \in States /\ Len(s.chain) \in 0 .. MaxHeight
    BY DEF Good, Sound
  <1>2. s.chain \in Seq(Block) /\ s.index \in 1 .. Len(Forks)
    BY <1>1, Fields
  <1>3. PICK h \in 0 .. Len(s.chain) - 1 :
          /\ h = Len(s.chain) - 1 /\ h \in Nat /\ h + 1 \in Nat /\ h + 1 = Len(s.chain) /\ h <= h + 1
          /\ h + 1 \in 1 .. Len(s.chain)
    BY SMTT(30), <1>1, Bounds
  <1>4. ForkAt(h) \in 1 .. Len(Forks) /\ ForkAt(h + 1) \in 1 .. Len(Forks) /\ ForkAt(h) <= ForkAt(h + 1)
    BY <1>3, ForkAtIs, ForkAtRises
  <1>5. PICK m \in 1 .. ForkAt(h) : m \in 1 .. Len(Forks) /\ s.stored[h] = Forks[m].version
    BY <1>1, <1>3, StoredFork
  <1>6. K(h) # {} /\ K(h) \subseteq Nat
    <2>1. 1 .. Len(Forks) \subseteq Nat
      BY SMTT(30), Table
    <2> QED BY <1>5, <2>1
  <1>7. PICK k : k = Min(K(h))
    OBVIOUS
  <1>8. k \in K(h)
    <2> HIDE DEF K
    <2> QED BY <1>6, <1>7, MinIs
  <1>9. k = m
    <2>1. k \in 1 .. Len(Forks) /\ Forks[k].version = Forks[m].version /\ Forks[m].version \in Nat
      BY <1>5, <1>8, Table
    <2>2. Forks[k].version <= Forks[m].version /\ Forks[m].version <= Forks[k].version
      BY <2>1, SelfLess
    <2>3. k <= m /\ m <= k
      BY <1>5, <2>1, <2>2, VersionOrder
    <2> QED BY SMTT(30), <1>5, <2>1, <2>3, Table
  <1>10. OnTime(s) => k = ForkAt(h)
    <2> SUFFICES ASSUME OnTime(s) PROVE k = ForkAt(h)
      OBVIOUS
    <2>1. s.stored[h] = Forks[ForkAt(h)].version
      BY <1>1, StoredFork DEF OnTime
    <2>2. Forks[k].version = Forks[ForkAt(h)].version /\ k \in 1 .. Len(Forks) /\ Forks[k].version \in Nat
      BY <1>8, <2>1, Table
    <2>3. Forks[k].version <= Forks[ForkAt(h)].version /\ Forks[ForkAt(h)].version <= Forks[k].version
      BY <2>2, SelfLess
    <2>4. k <= ForkAt(h) /\ ForkAt(h) <= k
      BY <1>4, <2>2, <2>3, VersionOrder
    <2> QED BY SMTT(30), <1>4, <2>2, <2>4, Table
  <1>11. PICK from \in Nat : from = Max({Len(s.chain) - WINDOW, 0}) /\ from <= h
    <2>1. Len(s.chain) - WINDOW \in Int /\ 0 \in Int
      BY SMTT(30), <1>1, Bounds
    <2>2. Max({Len(s.chain) - WINDOW, 0}) = IF Len(s.chain) - WINDOW >= 0 THEN Len(s.chain) - WINDOW ELSE 0
      BY <2>1, MaxOfTwo
    <2> QED BY SMTT(30), <1>3, <2>2, Bounds
  <1>12. h < Len(s.chain)
    BY SMTT(30), <1>1, <1>3, Bounds
  <1>13. PICK w \in Seq(Nat) : /\ w = VotesOfBlocks(s.chain, from, h)
                               /\ s.chain[h + 1].vote >= LastVersion => HasVote(w)
    BY <1>2, <1>3, <1>11, <1>12, VotesOfBlocksIs
  <1>14. PICK c : c = [s EXCEPT !.window = w, !.index = k]
    OBVIOUS
  <1>15. k \in 1 .. Len(Forks)
    BY <1>8
  <1>16. c \in States /\ c.chain = s.chain /\ c.stored = s.stored /\ c.window = w /\ c.index = k
    <2>1. WithVotes(s, w, k, c)
      BY <1>1, <1>13, <1>14, <1>15, Counted
    <2> QED BY <2>1 DEF WithVotes
  <1>17. t = Raise(c, h + 1)
    <2>1. t = Raise([s EXCEPT !.window = VotesOfBlocks(s.chain, from, h),
                              !.index = IF K(h) = {} THEN Len(Forks) ELSE Min(K(h))], Len(s.chain))
      BY <1>3, <1>11 DEF rescan
    <2>2. (IF K(h) = {} THEN Len(Forks) ELSE Min(K(h))) = k
      BY <1>6, <1>7
    <2> QED BY <1>3, <1>13, <1>14, <2>1, <2>2
  <1>18. /\ t \in States /\ t.chain = s.chain /\ t.stored = s.stored /\ t.index >= k
         /\ t.index = k \/ t.index <= ForkAt(h + 1)
         /\ OneVote /\ HasVote(w) => t.index >= ForkAt(h + 1)
    <2>1. h + 1 \in Nat
      BY <1>3
    <2>2. /\ t \in States /\ t.chain = c.chain /\ t.stored = c.stored /\ t.index >= c.index
          /\ t.index = c.index \/ t.index <= ForkAt(h + 1)
          /\ OneVote /\ HasVote(c.window) => t.index >= ForkAt(h + 1)
      BY <1>16, <1>17, <2>1, RaiseIs
    <2> QED BY <1>16, <2>2
  <1>19. t \in Sound
    BY <1>1, <1>18, StaysSound
  <1>20. t.index \in 1 .. Len(Forks)
    BY <1>18, Fields
  <1>21. t.index <= ForkAt(h + 1)
    BY SMTT(30), <1>4, <1>5, <1>9, <1>18, <1>20, Table
  <1>22. OnTime(s) => t.index >= ForkAt(h + 1)
    <2> SUFFICES ASSUME OnTime(s) PROVE t.index >= ForkAt(h + 1)
      OBVIOUS
    <2>1. OneVote /\ Timely(s.chain)
      BY DEF OnTime
    <2>2. CASE h = 0
      <3>1. h + 1 \in {0, 1}
        BY SMTT(30), <2>2
      <3>2. ForkAt(h + 1) = 1
        BY <2>1, <3>1, FirstFork
      <3> QED BY SMTT(30), <1>20, <3>2, Table
    <2>3. CASE h # 0
      <3>1. h + 1 > 1
        <4>1. h \in Nat
          BY <1>3
        <4> QED BY SMTT(30), <2>3, <4>1
      <3> QED BY <1>3, <1>13, <1>18, <2>1, <3>1 DEF Timely
    <2> QED BY <2>2, <2>3
  <1> QED BY <1>3, <1>18, <1>19, <1>21, <1>22 DEF Recounted, Good, OnTime

LEMMA KeptIs ==
  ASSUME NEW s \in States, Len(s.chain) >= 1
  PROVE  /\ KeptAtInit(s) \in 1 .. Len(s.chain)
         /\ Timely(s.chain) => KeptAtInit(s) = Len(s.chain)
  <1> DEFINE n == Len(s.chain)
             Fits(h) == h = 1 \/ s.chain[h].version = get_ideal_version(h - 1)
             H == {h \in 1 .. n : Fits(h)}
             K == {h \in 1 .. n : /\ Fits(h)
                                  /\ \A k \in h + 1 .. n : s.chain[k].version # get_ideal_version(k - 1)}
  <1>1. n \in Nat /\ n >= 1
    BY Fields
  <1>2. 1 \in 1 .. n /\ n \in 1 .. n /\ 1 .. n \subseteq 0 .. n
    BY SMTT(30), <1>1
  <1>3. PICK m : m = Max(H)
    OBVIOUS
  <1>4. m \in H /\ \A y \in H : m >= y
    <2>1. H # {} /\ H \subseteq 0 .. n
      BY <1>2
    <2> HIDE DEF H, n
    <2> QED BY <1>1, <1>3, <2>1, MaxIs
  <1>5. \A k \in m + 1 .. n : k \in 1 .. n /\ ~(m >= k)
    <2>1. m \in 1 .. n
      BY <1>4
    <2> QED BY SMTT(30), <1>1, <2>1
  <1>6. m \in K
    BY <1>4, <1>5
  <1>7. KeptAtInit(s) = Max(K)
    BY DEF KeptAtInit
  <1>8. K \subseteq 0 .. n /\ K # {}
    BY <1>2, <1>6
  <1>9. Max(K) \in K /\ \A y \in K : Max(K) >= y
    <2> HIDE DEF K, n
    <2> QED BY <1>1, <1>8, MaxIs
  <1>10. Max(K) \in 1 .. n
    BY <1>9
  <1>11. Timely(s.chain) => n \in K
    <2>1. n + 1 .. n = {}
      BY SMTT(30), <1>1
    <2> QED BY <1>2, <2>1 DEF Timely
  <1>12. Timely(s.chain) => Max(K) = n
    <2>1. Timely(s.chain) => Max(K) >= n
      BY <1>9, <1>11
    <2> HIDE DEF K
    <2> QED BY SMTT(30), <1>1, <1>10, <2>1
  <1> QED BY <1>7, <1>10, <1>12

Restarted(s, t) ==
  t \in Good /\ Len(t.chain) >= 1 /\ (OnTime(s) => OnTime(t) /\ t.chain = s.chain)

LEMMA StartIs ==
  ASSUME NEW s \in Good, Len(s.chain) >= 1, NEW t, t = Start(s)
  PROVE  Restarted(s, t)
  <1>1. s \in States /\ s.chain \in Seq(Block) /\ Len(s.chain) \in Nat
    BY Fields DEF Good, Sound
  <1>2. PICK kept \in 1 .. Len(s.chain) : kept = KeptAtInit(s) /\ (Timely(s.chain) => kept = Len(s.chain))
    BY <1>1, KeptIs
  <1>3. PICK r : r = rescan(s)
    OBVIOUS
  <1>4. Recounted(s, r) /\ r.stored = s.stored
    BY <1>3, RescanIs
  <1>5. r \in Good /\ r.chain = s.chain /\ (OnTime(s) => OnTime(r))
    BY <1>4 DEF Recounted
  <1>6. CASE kept = Len(s.chain)
    <2>1. t = r
      BY <1>2, <1>3, <1>6 DEF Start
    <2> QED BY <1>5, <2>1 DEF Restarted
  <1>7. CASE kept # Len(s.chain)
    <2>1. PICK c : c = [r EXCEPT !.chain = SubSeq(r.chain, 1, kept)]
      OBVIOUS
    <2>2. t = reorganize_from_block_height(c, kept - 1)
      BY <1>2, <1>3, <1>7, <2>1 DEF Start
    <2>3. kept \in 0 .. Len(r.chain) /\ kept >= 1 /\ kept - 1 \in 0 .. kept - 1
      BY SMTT(30), <1>1, <1>5
    <2>4. r \in Sound /\ r \in States
      BY <1>5 DEF Good, Sound
    <2>5. PICK d \in Seq(Block) : d = SubSeq(r.chain, 1, kept)
      BY <1>1, <1>5, <2>3, Prefix
    <2>6. WithChain(r, d, c)
      BY <2>1, <2>4, <2>5, Rechained
    <2>7. c \in States /\ c.stored = r.stored /\ c.chain = SubSeq(r.chain, 1, kept)
      BY <2>5, <2>6 DEF WithChain
    <2>8. c \in Sound /\ Shortened(r, kept, c)
      BY <2>3, <2>4, <2>7, CutIs
    <2>9. Len(c.chain) = kept
      BY <2>8 DEF Shortened
    <2>10. Recounted(c, t)
      BY <2>2, <2>3, <2>8, <2>9, ReorganizeIs
    <2>11. t \in Good /\ t.chain = c.chain
      BY <2>10 DEF Recounted
    <2>12. ~OnTime(s)
      BY <1>2, <1>7 DEF OnTime
    <2> QED BY <2>3, <2>9, <2>11, <2>12 DEF Restarted
  <1> QED BY <1>6, <1>7

RolledBack(r, original, split, t) ==
  /\ t \in Good /\ Len(t.chain) >= 1
  /\ OnTime(r) /\ Willing(original) /\ Ideal(original, split) =>
       /\ OnTime(t) /\ Len(t.chain) = split + Len(original)
       /\ \A k \in 1 .. Len(t.chain) : t.chain[k] = IF k <= split THEN r.chain[k] ELSE original[k - split]

LEMMA RollbackIs ==
  ASSUME NEW r \in Good, NEW split \in 1 .. Len(r.chain), NEW original \in Seq(Block),
         split + Len(original) <= MaxHeight, NEW t, t = rollback_blockchain_switching(r, original, split)
  PROVE  RolledBack(r, original, split, t)
  <1>1. r \in States /\ Len(r.chain) \in Nat
    BY Fields DEF Good, Sound
  <1>2. split \in 0 .. Len(r.chain) /\ split \in Nat /\ split >= 1 /\ split - 1 \in 0 .. split - 1
    BY SMTT(30), <1>1
  <1>3. PICK p : p = PopTo(r, split)
    OBVIOUS
  <1>4. Popped(r, split, p)
    BY <1>2, <1>3, PopIs
  <1>5. /\ p \in Good /\ p \in Sound /\ Len(p.chain) = split
        /\ (\A k \in 1 .. split : p.chain[k] = r.chain[k]) /\ (OnTime(r) => OnTime(p))
    BY <1>4 DEF Popped, Shortened, Good
  <1>6. PICK q : q = reorganize_from_block_height(p, split - 1)
    OBVIOUS
  <1>7. Recounted(p, q)
    BY <1>2, <1>5, <1>6, ReorganizeIs
  <1>8. q \in Good /\ q.chain = p.chain /\ Len(q.chain) = split /\ (OnTime(r) => OnTime(q))
    BY <1>5, <1>7 DEF Recounted
  <1>9. PICK back : back = ConnectAll(q, original)
    OBVIOUS
  <1>10. back \in Reached(q, original, Len(original))
    BY <1>8, <1>9, ConnectAllIs
  <1>11. PICK u \in Good : u = back.state
    BY <1>10 DEF Reached
  <1>12. /\ Len(u.chain) \in split .. split + Len(original)
         /\ (back.ok => Len(u.chain) = split + Len(original))
         /\ Joined(q.chain, original, u.chain)
         /\ (OnTime(q) /\ Willing(original) => OnTime(u) /\ (Ideal(original, split) => back.ok))
    BY <1>8, <1>10, <1>11 DEF Reached
  <1>13. Len(original) \in Nat
    BY LenNat
  <1>14. Len(u.chain) >= 1 /\ split - 1 \in 0 .. Len(u.chain) - 1
    BY SMTT(30), <1>2, <1>12, <1>13
  <1>15. t \in Good /\ t.chain = u.chain /\ (OnTime(u) => OnTime(t))
    <2>1. CASE back.ok
      <3>1. t = reorganize_from_block_height(u, split - 1)
        BY <1>3, <1>6, <1>9, <1>11, <2>1 DEF rollback_blockchain_switching
      <3>2. u \in Sound
        BY DEF Good
      <3>3. Recounted(u, t)
        BY <1>14, <3>1, <3>2, ReorganizeIs
      <3> QED BY <3>3 DEF Recounted
    <2>2. CASE ~back.ok
      <3>1. t = u
        BY <1>3, <1>6, <1>9, <1>11, <2>2 DEF rollback_blockchain_switching
      <3> QED BY <3>1
    <2> QED BY <2>1, <2>2
  <1>16. t \in Good /\ t.chain = u.chain
    BY <1>15
  <1>17. ASSUME OnTime(r), Willing(original), Ideal(original, split)
         PROVE  /\ OnTime(t) /\ Len(t.chain) = split + Len(original)
                /\ \A k \in 1 .. Len(t.chain) : t.chain[k] = IF k <= split THEN r.chain[k] ELSE original[k - split]
    <2>1. OnTime(u) /\ back.ok
      BY <1>8, <1>12, <1>17
    <2>2. Len(t.chain) = split + Len(original) /\ OnTime(t)
      BY <1>12, <1>15, <1>16, <2>1
    <2>3. ASSUME NEW k \in 1 .. Len(t.chain)
          PROVE  t.chain[k] = IF k <= split THEN r.chain[k] ELSE original[k - split]
      <3>1. t.chain[k] = IF k <= split THEN p.chain[k] ELSE original[k - split]
        BY <1>8, <1>12, <1>16 DEF Joined
      <3>2. k <= split => k \in 1 .. split
        BY SMTT(30), <1>2
      <3> QED BY <1>5, <3>1, <3>2
    <2> QED BY <2>2, <2>3
  <1> QED BY <1>14, <1>16, <1>17 DEF RolledBack

Switched(s, blocks, t) ==
  /\ t.state \in Good /\ Len(t.state.chain) >= 1
  /\ OnTime(s) /\ Willing(blocks) => OnTime(t.state) /\ (t.ok \/ t.state.chain = s.chain)

LEMMA SwitchIs ==
  ASSUME NEW s \in Good, NEW split \in 1 .. Len(s.chain) - 1, NEW blocks \in Seq(Block),
         split + Len(blocks) <= MaxHeight, NEW all, NEW t,
         t = switch_to_alternative_blockchain(s, split, blocks, all)
  PROVE  Switched(s, blocks, t)
  <1>1. s \in States /\ Len(s.chain) \in 0 .. MaxHeight /\ s.chain \in Seq(Block)
    BY Fields DEF Good, Sound
  <1>2. /\ split \in 0 .. Len(s.chain) /\ split \in Nat /\ split - 1 \in 0 .. split - 1
        /\ split >= 1 /\ Len(s.chain) \in Nat
    BY SMTT(30), <1>1, Bounds
  <1>3. PICK original : original = SubSeq(s.chain, split + 1, Len(s.chain))
    OBVIOUS
  <1>4. original \in Seq(Block) /\ Len(original) = Len(s.chain) - split /\ Len(original) \in Nat
    <2>1. original \in Seq(Block) /\ Len(original) = Len(s.chain) - split
      BY SMTT(30), <1>1, <1>2, <1>3
    <2> QED BY <2>1, LenNat
  <1>5. \A k \in 1 .. Len(original) : original[k] = s.chain[split + k]
    BY SMTT(30), <1>1, <1>2, <1>3
  <1>6. split + Len(original) = Len(s.chain) /\ split + Len(original) <= MaxHeight
    BY SMTT(30), <1>1, <1>2, <1>4, Bounds
  <1>7. Timely(s.chain) => Willing(original) /\ Ideal(original, split)
    <2> SUFFICES ASSUME Timely(s.chain), NEW i \in 1 .. Len(original)
                 PROVE  original[i].vote >= LastVersion /\ original[i].version = get_ideal_version(split + (i - 1))
      BY DEF Willing, Ideal
    <2>1. split + i \in 1 .. Len(s.chain) /\ split + i > 1 /\ (split + i) - 1 = split + (i - 1)
      BY SMTT(30), <1>2, <1>4
    <2> QED BY <1>5, <2>1 DEF Timely
  <1>8. PICK p : p = PopTo(s, split)
    OBVIOUS
  <1>9. Popped(s, split, p)
    BY <1>2, <1>8, PopIs
  <1>10. /\ p \in Good /\ Len(p.chain) = split
         /\ (\A k \in 1 .. split : p.chain[k] = s.chain[k]) /\ (OnTime(s) => OnTime(p))
    BY <1>9 DEF Popped, Shortened
  <1>11. PICK r : r = ConnectAll(p, blocks)
    OBVIOUS
  <1>12. r \in Reached(p, blocks, Len(blocks))
    BY <1>10, <1>11, ConnectAllIs
  <1>13. PICK u \in Good : u = r.state
    BY <1>12 DEF Reached
  <1>14. /\ Len(u.chain) \in split .. split + Len(blocks)
         /\ Joined(p.chain, blocks, u.chain)
         /\ (OnTime(p) /\ Willing(blocks) => OnTime(u))
    BY <1>10, <1>12, <1>13 DEF Reached
  <1>15. Len(blocks) \in Nat
    BY LenNat
  <1>16. Len(u.chain) >= 1 /\ split - 1 \in 0 .. Len(u.chain) - 1 /\ split \in 1 .. Len(u.chain)
    BY SMTT(30), <1>2, <1>14, <1>15
  <1>17. CASE r.ok /\ all
    <2>1. PICK v : v = reorganize_from_block_height(u, split - 1)
      OBVIOUS
    <2>2. t = [ok |-> TRUE, letin |-> LetIn(u), state |-> v]
      BY <1>8, <1>11, <1>13, <1>17, <2>1 DEF switch_to_alternative_blockchain
    <2>3. u \in Sound
      BY DEF Good
    <2>4. Recounted(u, v)
      BY <1>16, <2>1, <2>3, ReorganizeIs
    <2>5. v \in Good /\ v.chain = u.chain /\ (OnTime(u) => OnTime(v))
      BY <2>4 DEF Recounted
    <2>6. t.ok /\ t.state = v
      BY <2>2, Outcomes
    <2> QED BY <1>10, <1>14, <1>16, <2>5, <2>6 DEF Switched
  <1>18. CASE ~(r.ok /\ all)
    <2>1. PICK v : v = rollback_blockchain_switching(u, original, split)
      OBVIOUS
    <2>2. t = [ok |-> FALSE, letin |-> {}, state |-> v]
      BY <1>3, <1>8, <1>11, <1>13, <1>18, <2>1 DEF switch_to_alternative_blockchain
    <2>3. RolledBack(u, original, split, v)
      BY <1>4, <1>6, <1>16, <2>1, RollbackIs
    <2>4. v \in Good /\ Len(v.chain) >= 1
      BY <2>3 DEF RolledBack
    <2>5. t.state = v
      BY <2>2, Outcomes
    <2>6. ASSUME OnTime(s), Willing(blocks) PROVE OnTime(v) /\ v.chain = s.chain
      <3>1. OnTime(u) /\ Willing(original) /\ Ideal(original, split)
        BY <1>7, <1>10, <1>14, <2>6 DEF OnTime
      <3>2. /\ OnTime(v) /\ Len(v.chain) = Len(s.chain)
            /\ \A k \in 1 .. Len(v.chain) : v.chain[k] = IF k <= split THEN u.chain[k] ELSE original[k - split]
        BY <1>6, <2>3, <3>1 DEF RolledBack
      <3>3. ASSUME NEW k \in 1 .. Len(s.chain) PROVE v.chain[k] = s.chain[k]
        <4>1. CASE k <= split
          <5>1. k \in 1 .. split /\ k \in 1 .. Len(u.chain)
            BY SMTT(30), <1>2, <1>14, <1>15, <4>1
          <5>2. u.chain[k] = p.chain[k]
            BY <1>10, <1>14, <4>1, <5>1 DEF Joined
          <5> QED BY <1>10, <3>2, <4>1, <5>1, <5>2
        <4>2. CASE ~(k <= split)
          <5>1. k - split \in 1 .. Len(original) /\ split + (k - split) = k
            BY SMTT(30), <1>2, <1>4, <4>2
          <5> QED BY <1>5, <3>2, <4>2, <5>1
        <4> QED BY <4>1, <4>2
      <3>4. v.chain \in Seq(Block)
        BY <2>4, Fields DEF Good, Sound
      <3>5. v.chain = s.chain
        BY <1>1, <3>2, <3>3, <3>4, SameElements
      <3> QED BY <3>2, <3>5
    <2> QED BY <2>4, <2>5, <2>6 DEF Switched
  <1> QED BY <1>17, <1>18

-----------------------------------------------------------------------------
(* The invariant: the state of the operations is good and, with OneVote    *)
(* and only votes for the last fork, on time.                              *)
ForkInv ==
  /\ State \in Good /\ Len(chain) >= 1
  /\ OneVote /\ unanimous => OnTime(State)

LEMMA Whole ==
  ASSUME NEW A, NEW B, NEW C, NEW D, NEW s \in [chain : A, stored : B, window : C, index : D]
  PROVE  s = [chain |-> s.chain, stored |-> s.stored, window |-> s.window, index |-> s.index]
  BY SMTT(30)

LEMMA BecomesIs ==
  ASSUME NEW s \in States, Becomes(s)
  PROVE  State' = s
  <1>1. s = [chain |-> s.chain, stored |-> s.stored, window |-> s.window, index |-> s.index]
    BY Whole DEF States
  <1> QED BY <1>1 DEF Becomes, State

LEMMA ChainOfState == State.chain = chain /\ State.stored = stored /\ State.index = index
  BY DEF State

LEMMA BlocksAre ==
  /\ Blocks \subseteq Block /\ Genesis \in Block
  /\ Genesis.version = Forks[1].version /\ Genesis.vote = Forks[1].version
  <1>1. Versions \subseteq Nat /\ Votes \subseteq Nat
    BY Table, ForksAssumption DEF Versions
  <1>2. Forks[1].version \in Nat
    BY Table
  <1> QED BY <1>1, <1>2 DEF Blocks, Block, Genesis

LEMMA ForkInit == Init => ForkInv
  <1> SUFFICES ASSUME Init PROVE ForkInv
    OBVIOUS
  <1>1. PICK e : e = [chain |-> <<>>, window |-> <<>>, index |-> 1,
                      stored |-> [h \in 0 .. MaxHeight - 1 |-> NotStored]]
    OBVIOUS
  <1>2. /\ e \in States /\ e.chain = <<>> /\ e.index = 1 /\ Len(e.chain) = 0
    <2>1. PICK d \in [0 .. MaxHeight - 1 -> Nat] : d = [h \in 0 .. MaxHeight - 1 |-> NotStored]
      <3>1. NotStored \in Nat
        BY SMTT(30) DEF NotStored
      <3> QED BY <3>1
    <2>2. PICK c \in Seq(Block) : c = <<>> /\ Len(c) = 0
      BY EmptyIs
    <2>3. PICK w \in Seq(Nat) : w = <<>>
      BY EmptyIs
    <2>4. e = [chain |-> c, stored |-> d, window |-> w, index |-> 1]
      BY <1>1, <2>1, <2>2, <2>3
    <2>5. e \in States
      BY <2>4, Table DEF States
    <2>6. e.chain = c /\ e.index = 1
      BY <2>4
    <2> QED BY <2>2, <2>5, <2>6
  <1>3. 0 \in 0 .. MaxHeight /\ 0 < MaxHeight /\ 1 .. 0 = {} /\ 0 \in Nat /\ 0 \in {0, 1}
    BY SMTT(30), Bounds
  <1>4. ForkAt(0) \in 1 .. Len(Forks)
    BY <1>3, ForkAtIs
  <1>5. 1 <= ForkAt(0)
    BY SMTT(30), <1>4, Table
  <1>6. e \in Good
    BY <1>2, <1>3, <1>5 DEF Good, Sound, Checked
  <1>7. OneVote => OnTime(e)
    <2> SUFFICES ASSUME OneVote PROVE OnTime(e)
      OBVIOUS
    <2>1. ForkAt(0) = 1
      BY <1>3, FirstFork
    <2>2. 1 >= 1
      BY SMTT(30)
    <2> QED BY <1>2, <1>3, <2>1, <2>2 DEF OnTime, Timely
  <1>8. do_check(e, Genesis)
    <2>1. Forks[1].version >= Forks[1].version
      BY SMTT(30), Table
    <2> QED BY <1>2, <2>1, BlocksAre DEF do_check
  <1>9. PICK s : s = Connect(e, Genesis)
    OBVIOUS
  <1>10. Connected(e, Genesis, s)
    BY <1>2, <1>3, <1>6, <1>8, <1>9, BlocksAre, ConnectIs
  <1>11. s \in Good /\ s.chain = Append(e.chain, Genesis) /\ (OnTime(e) => OnTime(s))
    BY <1>2, <1>10 DEF Connected
  <1>12. s \in States
    BY <1>11 DEF Good, Sound
  <1>13. State = s
    <2>1. s = [chain |-> s.chain, stored |-> s.stored, window |-> s.window, index |-> s.index]
      BY <1>12, Whole DEF States
    <2>2. chain = s.chain /\ stored = s.stored /\ window = s.window /\ index = s.index
      BY <1>1, <1>9 DEF Init
    <2> QED BY <2>1, <2>2 DEF State
  <1>14. Len(chain) >= 1
    <2>1. chain = Append(<<>>, Genesis)
      BY <1>2, <1>11, <1>13, ChainOfState
    <2> QED BY SMTT(30), <2>1
  <1> QED BY <1>7, <1>11, <1>13, <1>14 DEF ForkInv

(* Every step keeps the invariant, and one that rolls back or restarts     *)
(* keeps the chain when every block voted for the last fork.               *)
GivenBack == OneVote /\ unanimous' /\ last' \in {"rollback", "start"} => chain' = chain

LEMMA AddBlockKeeps ==
  ASSUME ForkInv, AddBlock
  PROVE  ForkInv' /\ GivenBack
  <1>1. PICK b \in Blocks : do_check(State, b) /\ Becomes(Connect(State, b))
                            /\ unanimous' = (unanimous /\ AllForLast(<<b>>))
    BY DEF AddBlock
  <1>2. PICK s : s = State
    OBVIOUS
  <1>3. s \in Good /\ Len(s.chain) >= 1 /\ (OneVote /\ unanimous => OnTime(s)) /\ Len(s.chain) < MaxHeight
    BY <1>2, ChainOfState DEF ForkInv, AddBlock
  <1>4. PICK t : t = Connect(s, b)
    OBVIOUS
  <1>5. b \in Block
    BY BlocksAre
  <1>6. Connected(s, b, t)
    BY <1>1, <1>2, <1>3, <1>4, <1>5, ConnectIs
  <1>7. t \in Good /\ t.chain = Append(s.chain, b) /\ (OnTime(s) /\ b.vote >= LastVersion => OnTime(t))
    BY <1>6 DEF Connected
  <1>8. t \in States /\ s.chain \in Seq(Block)
    BY <1>3, <1>7, Fields DEF Good, Sound
  <1>9. State' = t
    BY <1>1, <1>2, <1>4, <1>8, BecomesIs
  <1>10. chain' = t.chain
    BY <1>9 DEF State
  <1>11. Len(chain') >= 1
    BY SMTT(30), <1>5, <1>7, <1>8, <1>10
  <1>12. unanimous' => unanimous /\ b.vote >= LastVersion
    <2>1. unanimous' => AllForLast(<<b>>) /\ unanimous
      BY <1>1
    <2>2. 1 \in DOMAIN <<b>> /\ <<b>>[1] = b
      BY SMTT(30)
    <2> QED BY <2>1, <2>2 DEF AllForLast
  <1>13. last' = "add"
    BY DEF AddBlock
  <1>14. last' \notin {"rollback", "start"}
    BY SMTT(30), <1>13
  <1> QED BY <1>3, <1>7, <1>9, <1>11, <1>12, <1>14 DEF ForkInv, GivenBack

LEMMA PopBlocksKeeps ==
  ASSUME ForkInv, PopBlocks
  PROVE  ForkInv' /\ GivenBack
  <1>1. PICK h \in 1 .. Len(chain) - 1 : Becomes(PopTo(State, h))
    BY DEF PopBlocks
  <1>2. PICK s : s = State
    OBVIOUS
  <1>3. s \in Good /\ (OneVote /\ unanimous => OnTime(s)) /\ h \in 1 .. Len(s.chain) - 1
    BY <1>1, <1>2, ChainOfState DEF ForkInv
  <1>4. Len(s.chain) \in Nat
    BY <1>3, Fields DEF Good, Sound
  <1>5. h \in 0 .. Len(s.chain) /\ h >= 1
    BY SMTT(30), <1>3, <1>4
  <1>6. PICK t : t = PopTo(s, h)
    OBVIOUS
  <1>7. Popped(s, h, t)
    BY <1>3, <1>5, <1>6, PopIs
  <1>8. t \in Good /\ Len(t.chain) = h /\ (OnTime(s) => OnTime(t)) /\ t \in States
    BY <1>7 DEF Popped, Shortened, Good, Sound
  <1>9. State' = t
    BY <1>1, <1>2, <1>6, <1>8, BecomesIs
  <1>10. chain' = t.chain
    BY <1>9 DEF State
  <1>11. last' = "pop" /\ unanimous' = unanimous
    BY DEF PopBlocks
  <1>12. last' \notin {"rollback", "start"}
    BY SMTT(30), <1>11
  <1> QED BY <1>3, <1>5, <1>8, <1>9, <1>10, <1>11, <1>12 DEF ForkInv, GivenBack

LEMMA RestartKeeps ==
  ASSUME ForkInv, Restart
  PROVE  ForkInv' /\ GivenBack
  <1>1. PICK s : s = State
    OBVIOUS
  <1>2. s \in Good /\ Len(s.chain) >= 1 /\ (OneVote /\ unanimous => OnTime(s)) /\ s.chain = chain
    BY <1>1, ChainOfState DEF ForkInv
  <1>3. PICK t : t = Start(s)
    OBVIOUS
  <1>4. Restarted(s, t)
    BY <1>2, <1>3, StartIs
  <1>5. t \in Good /\ Len(t.chain) >= 1 /\ (OnTime(s) => OnTime(t) /\ t.chain = s.chain) /\ t \in States
    BY <1>4 DEF Restarted, Good, Sound
  <1>6. Becomes(t) /\ unanimous' = unanimous
    BY <1>1, <1>3 DEF Restart
  <1>7. State' = t
    BY <1>5, <1>6, BecomesIs
  <1>8. chain' = t.chain
    BY <1>7 DEF State
  <1> QED BY <1>2, <1>5, <1>6, <1>7, <1>8 DEF ForkInv, GivenBack

LEMMA SwitchKeeps ==
  ASSUME ForkInv, Switch
  PROVE  ForkInv' /\ GivenBack
  <1>1. PICK s : s = State
    OBVIOUS
  <1>2. /\ s \in Good /\ Len(s.chain) >= 1 /\ (OneVote /\ unanimous => OnTime(s))
        /\ s.chain = chain
    BY <1>1, ChainOfState DEF ForkInv
  <1> DEFINE Steps(split, all, blocks) ==
               LET r == switch_to_alternative_blockchain(s, split, blocks, all)
               IN /\ Becomes(r.state)
                  /\ last' = IF r.ok THEN "switch" ELSE "rollback"
                  /\ unanimous' = (unanimous /\ AllForLast(blocks))
  <1>3. PICK split \in Max({1, Len(chain) - MaxReorg}) .. Len(chain) - 1 :
           \E n \in 0 .. Min({MaxReorg, MaxHeight - split}) : \E all \in {n > 0, FALSE} :
           \E blocks \in AltBlocks(split, n, all, Alternatives) : Steps(split, all, blocks)
    BY <1>1 DEF Switch
  <1>n. PICK n \in 0 .. Min({MaxReorg, MaxHeight - split}) : \E all \in {n > 0, FALSE} :
           \E blocks \in AltBlocks(split, n, all, Alternatives) : Steps(split, all, blocks)
    BY <1>3
  <1>all. PICK all : \E blocks \in AltBlocks(split, n, all, Alternatives) : Steps(split, all, blocks)
    BY <1>n
  <1>4. PICK blocks \in AltBlocks(split, n, all, Alternatives) : Steps(split, all, blocks)
    BY <1>all
  <1>5. PICK r : r = switch_to_alternative_blockchain(s, split, blocks, all)
    OBVIOUS
  <1>6. /\ Becomes(r.state) /\ last' = IF r.ok THEN "switch" ELSE "rollback"
        /\ unanimous' = (unanimous /\ AllForLast(blocks))
    BY <1>4, <1>5
  <1> HIDE DEF Steps
  <1>7. Len(s.chain) \in Nat /\ Len(s.chain) \in 0 .. MaxHeight /\ MaxReorg \in Nat
    BY <1>2, Fields, ForksAssumption DEF Good, Sound
  <1>8. split \in 1 .. Len(s.chain) - 1
    <2>1. 1 \in Int /\ Len(s.chain) - MaxReorg \in Int
      BY SMTT(30), <1>7
    <2>2. Max({1, Len(s.chain) - MaxReorg}) = IF 1 >= Len(s.chain) - MaxReorg THEN 1 ELSE Len(s.chain) - MaxReorg
      BY <2>1, MaxOfTwo
    <2>3. split \in Max({1, Len(s.chain) - MaxReorg}) .. Len(s.chain) - 1
      BY <1>2
    <2> QED BY SMTT(30), <1>7, <2>2, <2>3
  <1>9. n \in Nat /\ split + n <= MaxHeight
    <2>1. MaxReorg \in Int /\ MaxHeight - split \in Int
      BY SMTT(30), <1>7, <1>8, Bounds
    <2>2. Min({MaxReorg, MaxHeight - split}) = IF MaxReorg <= MaxHeight - split THEN MaxReorg ELSE MaxHeight - split
      BY <2>1, MinOfTwo
    <2> QED BY SMTT(30), <1>7, <1>8, <2>2, Bounds
  <1>10. blocks \in [1 .. n -> Block]
    BY BlocksAre DEF AltBlocks
  <1>11. blocks \in Seq(Block) /\ Len(blocks) = n /\ DOMAIN blocks = 1 .. n
    BY SMTT(30), <1>9, <1>10
  <1>12. Switched(s, blocks, r)
    BY <1>2, <1>5, <1>8, <1>9, <1>11, SwitchIs
  <1>13. PICK t \in Good : t = r.state
    BY <1>12 DEF Switched
  <1>14. Len(t.chain) >= 1 /\ (OnTime(s) /\ Willing(blocks) => OnTime(t) /\ (r.ok \/ t.chain = s.chain)) /\ t \in States
    BY <1>12, <1>13 DEF Switched, Good, Sound
  <1>15. State' = t
    BY <1>6, <1>13, <1>14, BecomesIs
  <1>16. chain' = t.chain
    BY <1>15 DEF State
  <1>17. unanimous' => unanimous /\ Willing(blocks)
    <2>1. unanimous' => unanimous /\ AllForLast(blocks)
      BY <1>6
    <2> QED BY <1>11, <2>1 DEF AllForLast, Willing
  <1>18. r.ok => last' \notin {"rollback", "start"}
    <2> SUFFICES ASSUME r.ok PROVE last' \notin {"rollback", "start"}
      OBVIOUS
    <2>1. last' = "switch"
      BY <1>6
    <2> QED BY SMTT(30), <2>1
  <1> QED BY <1>2, <1>13, <1>14, <1>15, <1>16, <1>17, <1>18 DEF ForkInv, GivenBack

LEMMA ForkNext ==
  ASSUME ForkInv, [Next]_vars
  PROVE  ForkInv' /\ (GivenBack \/ UNCHANGED vars)
  <1>1. CASE UNCHANGED vars
    <2>1. State' = State /\ chain' = chain /\ unanimous' = unanimous
      BY <1>1 DEF vars, State
    <2> QED BY <1>1, <2>1 DEF ForkInv
  <1>2. CASE Next
    BY <1>2, AddBlockKeeps, PopBlocksKeeps, SwitchKeeps, RestartKeeps DEF Next
  <1> QED BY <1>1, <1>2

LEMMA ForkSafe == Spec => []ForkInv
  <1>1. ForkInv /\ [Next]_vars => ForkInv'
    BY ForkNext
  <1> QED BY <1>1, ForkInit, PTL DEF Spec

(* No version is in force before the height the table gives it, neither    *)
(* for the next block nor for one on the chain, for every table of forks,  *)
(* every window and whatever the blocks vote.                              *)
THEOREM NoForkIsEarly == Spec => []NeverEarly
  <1>1. ForkInv => NeverEarly
    <2> SUFFICES ASSUME ForkInv PROVE NeverEarly
      OBVIOUS
    <2>1. /\ State \in States /\ Checked(State) /\ index <= ForkAt(Len(chain))
          /\ index \in 1 .. Len(Forks) /\ Len(chain) \in Nat
      <3>1. State \in States /\ Checked(State) /\ State.index <= ForkAt(Len(State.chain))
        BY DEF ForkInv, Good, Sound
      <3>2. State.index \in 1 .. Len(Forks) /\ Len(State.chain) \in Nat
        BY <3>1, Fields
      <3> QED BY <3>1, <3>2, ChainOfState
    <2>2. ForkAt(Len(chain)) \in 1 .. Len(Forks)
      BY <2>1, ForkAtIs
    <2>3. CurrentVersion <= get_ideal_version(Len(chain))
      BY <2>1, <2>2, VersionOrder DEF CurrentVersion, get_ideal_version
    <2>4. ASSUME NEW h \in 1 .. Len(chain) PROVE chain[h].version <= get_ideal_version(h - 1)
      <3>1. h - 1 \in Nat
        BY SMTT(30), <2>1
      <3>2. ForkAt(h - 1) \in 1 .. Len(Forks)
        BY <3>1, ForkAtIs
      <3>3. PICK n \in 1 .. ForkAt(h - 1) : chain[h].version = Forks[n].version
        BY <2>1, ChainOfState DEF Checked
      <3>4. n \in 1 .. Len(Forks) /\ n <= ForkAt(h - 1)
        BY SMTT(30), <3>2, Table
      <3> QED BY <3>2, <3>3, <3>4, VersionOrder DEF get_ideal_version
    <2> QED BY <2>3, <2>4 DEF NeverEarly
  <1> QED BY <1>1, ForkSafe, PTL

(* The version stored for a height is the version of its block, for every  *)
(* table of forks and whatever the blocks vote.                            *)
THEOREM StoredVersionsAreChecked == Spec => []StoredIsChecked
  <1>1. ForkInv => StoredIsChecked
    <2> SUFFICES ASSUME ForkInv PROVE StoredIsChecked
      OBVIOUS
    <2>1. Checked(State)
      BY DEF ForkInv, Good, Sound
    <2> QED BY <2>1, ChainOfState DEF Checked, StoredIsChecked
  <1> QED BY <1>1, ForkSafe, PTL

(* When one vote is enough, as in the tables of hardforks.cpp, and every   *)
(* block votes as create_block_template does, the version in force is the  *)
(* one its height asks for, after any pops, switches and restarts.         *)
THEOREM ForksAreOnSchedule ==
  ASSUME OneVote
  PROVE  Spec => []OnSchedule
  <1>1. ForkInv => OnSchedule
    <2> SUFFICES ASSUME ForkInv, unanimous PROVE CurrentVersion = get_ideal_version(Len(chain))
      BY DEF OnSchedule
    <2>1. State \in States /\ State.index <= ForkAt(Len(State.chain)) /\ State.index >= ForkAt(Len(State.chain))
      BY DEF ForkInv, Good, Sound, OnTime
    <2>2. State.index \in 1 .. Len(Forks) /\ Len(State.chain) \in Nat
      BY <2>1, Fields
    <2>3. ForkAt(Len(State.chain)) \in 1 .. Len(Forks)
      BY <2>2, ForkAtIs
    <2>4. State.index = ForkAt(Len(State.chain))
      BY SMTT(30), <2>1, <2>2, <2>3, Table
    <2> QED BY <2>4, ChainOfState DEF CurrentVersion, get_ideal_version
  <1> QED BY <1>1, ForkSafe, PTL

(* Under the same conditions a switch that fails gives back the whole      *)
(* chain and a restart pops no block.                                      *)
THEOREM NoBlockIsLost ==
  ASSUME OneVote
  PROVE  Spec => ChainGivenBack
  <1>1. ForkInv /\ [Next]_vars => [unanimous' /\ last' \in {"rollback", "start"} => chain' = chain]_vars
    BY ForkNext DEF GivenBack
  <1> QED BY <1>1, ForkSafe, PTL DEF Spec, ChainGivenBack
=============================================================================
