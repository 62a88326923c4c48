--------------------------- MODULE ChainPoolLemmas --------------------------
(***************************************************************************)
(* What the operators of ChainPool do to a state: the indexes of the pool, *)
(* the blocks that enter and leave the main chain, the transactions that   *)
(* come back with them.  ChainPoolProofs builds on it.                     *)
(***************************************************************************)
EXTENDS ChainPool, TLAPS, FiniteSetTheorems, NaturalsInduction, WellFoundedInduction

(* Leaves are for Zenon unless they say SMT. *)
USE ZenonT(30)

LEMMA Induction ==
  ASSUME NEW S, 0 \in S, \A n \in Nat : n \in S => n + 1 \in S
  PROVE  Nat \subseteq S
  <1> SUFFICES ASSUME ~(Nat \subseteq S) PROVE FALSE
    OBVIOUS
  <1> DEFINE T == Nat \ S
             R == OpToRel(<, Nat)
  <1>1. R = {p \in Nat \X Nat : p[1] < p[2]} /\ IsWellFoundedOn(R, Nat)
    BY NatLessThanWellFounded DEF OpToRel
  <1>2. T \subseteq Nat /\ T # {}
    OBVIOUS
  <1> HIDE DEF R
  <1>3. PICK x \in T : \A y \in T : <<y, x>> \notin R
    BY <1>1, <1>2, WFMin
  <1>4. x \in Nat /\ x - 1 \in Nat /\ x # 0 /\ (x - 1) + 1 = x
    BY SMTT(30)
  <1>5. <<x - 1, x>> \in {p \in Nat \X Nat : p[1] < p[2]}
    BY SMTT(30), <1>4
  <1>6. x - 1 \in S
    BY <1>1, <1>3, <1>4, <1>5
  <1> QED BY <1>4, <1>6

(* Loops.  T[i] holds the states after i rounds and g[i] is round i. *)
IsFold(f, b, g, T, n) ==
  /\ f = [i \in 0 .. n |-> IF i = 0 THEN b ELSE g[i][f[i - 1]]]
  /\ \A i \in 0 .. n : f[i] \in T[i]

LEMMA FoldExists ==
  ASSUME NEW n \in Nat, NEW T, NEW b \in T[0], NEW g, \A i \in 1 .. n : \A t \in T[i - 1] : g[i][t] \in T[i]
  PROVE  \E f : IsFold(f, b, g, T, n)
  <1> DEFINE S == {k \in Nat : k <= n => \E f : IsFold(f, b, g, T, k)}
  <1>1. 0 \in S
    <2> DEFINE f == [i \in 0 .. 0 |-> b]
    <2>1. \A i \in 0 .. 0 : i = 0
      BY SMTT(30)
    <2>2. f = [i \in 0 .. 0 |-> IF i = 0 THEN b ELSE g[i][f[i - 1]]]
      BY <2>1
    <2>3. IsFold(f, b, g, T, 0)
      BY <2>1, <2>2 DEF IsFold
    <2>4. 0 \in Nat
      BY SMTT(30)
    <2> QED BY <2>3, <2>4
  <1>2. ASSUME NEW k \in Nat, k \in S PROVE k + 1 \in S
    <2> SUFFICES ASSUME k + 1 <= n PROVE \E f : IsFold(f, b, g, T, k + 1)
      BY SMTT(30)
    <2>1. k <= n /\ k + 1 \in 1 .. n /\ (k + 1) - 1 = k /\ k \in 0 .. k /\ k + 1 # 0
      BY SMTT(30)
    <2>2. PICK f : IsFold(f, b, g, T, k)
      BY <1>2, <2>1
    <2> DEFINE e == [i \in 0 .. k + 1 |-> IF i = k + 1 THEN g[k + 1][f[k]] ELSE f[i]]
    <2>3. \A i \in 0 .. k + 1 : i = k + 1 \/ (i \in 0 .. k /\ i # k + 1 /\ i - 1 # k + 1)
      BY SMTT(30)
    <2>4. \A i \in 0 .. k : i # 0 => i - 1 \in 0 .. k + 1
      BY SMTT(30)
    <2>5. \A i \in 0 .. k : f[i] = (IF i = 0 THEN b ELSE g[i][f[i - 1]]) /\ f[i] \in T[i]
      BY <2>2 DEF IsFold
    <2>6. k \in 0 .. k + 1 /\ k # k + 1
      BY SMTT(30)
    <2>7. e[k] = f[k]
      BY <2>6
    <2>8. ASSUME NEW i \in 0 .. k + 1 PROVE e[i] = (IF i = 0 THEN b ELSE g[i][e[i - 1]]) /\ e[i] \in T[i]
      <3>1. CASE i = k + 1
        <4>1. e[i] = g[i][e[i - 1]]
          BY <2>1, <2>7, <3>1
        <4>2. f[k] \in T[k]
          BY <2>1, <2>5
        <4>3. g[k + 1][f[k]] \in T[k + 1]
          BY <2>1, <4>2
        <4> QED BY <2>1, <3>1, <4>1, <4>3
      <3>2. CASE i # k + 1
        <4>1. i \in 0 .. k /\ i - 1 # k + 1 /\ e[i] = f[i]
          BY <2>3, <3>2
        <4>2. i # 0 => e[i - 1] = f[i - 1]
          BY <2>4, <4>1
        <4> QED BY <2>5, <4>1, <4>2
      <3> QED BY <3>1, <3>2
    <2>9. e = [i \in 0 .. k + 1 |-> e[i]]
      OBVIOUS
    <2> HIDE DEF e
    <2>10. IsFold(e, b, g, T, k + 1)
      BY <2>8, <2>9 DEF IsFold
    <2> QED BY <2>10
  <1> HIDE DEF S
  <1>3. n \in S /\ n <= n
    <2>1. n <= n
      BY SMTT(30)
    <2> QED BY <1>1, <1>2, <2>1, Induction
  <1> QED BY <1>3 DEF S

(* What each round keeps holds after the last. *)
LEMMA InEach ==
  ASSUME NEW n \in Nat, NEW up, NEW T, up[0] \in T[0],
         \A i \in 1 .. n : up[i - 1] \in T[i - 1] => up[i] \in T[i]
  PROVE  \A i \in 0 .. n : up[i] \in T[i]
  <1> DEFINE D == {i \in Nat : i <= n => up[i] \in T[i]}
  <1>1. 0 \in D
    BY SMTT(30)
  <1>2. ASSUME NEW i \in Nat, i \in D PROVE i + 1 \in D
    <2> SUFFICES ASSUME i + 1 <= n PROVE up[i + 1] \in T[i + 1]
      BY SMTT(30)
    <2>1. i <= n /\ i + 1 \in 1 .. n /\ (i + 1) - 1 = i
      BY SMTT(30)
    <2>2. up[i] \in T[i]
      BY <1>2, <2>1
    <2> QED BY <2>1, <2>2
  <1> HIDE DEF D
  <1>3. Nat \subseteq D
    BY <1>1, <1>2, Induction
  <1> QED BY SMTT(30), <1>3 DEF D

-----------------------------------------------------------------------------
(* The tree of blocks. *)
LEMMA HeightNat ==
  ASSUME NEW b \in Blocks
  PROVE  Height(b) \in Nat
  <1>1. CASE b = GENESIS
    BY SMTT(30), <1>1, BlocksAssumption
  <1>2. CASE b # GENESIS
    <2>1. Height(Prev(b)) \in Nat /\ Height(b) = Height(Prev(b)) + 1
      BY <1>2, BlocksAssumption
    <2> QED BY SMTT(30), <2>1
  <1> QED BY <1>1, <1>2

LEMMA HeightZero ==
  ASSUME NEW b \in Blocks, Height(b) = 0
  PROVE  b = GENESIS
  <1>1. ASSUME b # GENESIS PROVE FALSE
    <2>1. Height(Prev(b)) \in Nat /\ Height(b) = Height(Prev(b)) + 1
      BY <1>1, BlocksAssumption
    <2> QED BY SMTT(30), <2>1
  <1> QED BY <1>1

LEMMA Above ==
  ASSUME NEW b \in Blocks, Prev(b) \in Blocks
  PROVE  Height(b) = Height(Prev(b)) + 1
  BY BlocksAssumption

LEMMA Below ==
  ASSUME NEW b \in Blocks, Height(b) > 0
  PROVE  Prev(b) \in Blocks /\ Height(b) = Height(Prev(b)) + 1
  <1>1. b # GENESIS
    BY SMTT(30), BlocksAssumption
  <1> QED BY <1>1, BlocksAssumption

(* ChainTo[t] holds a block of every height up to that of t. *)
Chain(t, C) ==
  /\ C \in Seq(Blocks) /\ Len(C) = Height(t) + 1 /\ C[Height(t) + 1] = t
  /\ \A i \in 1 .. Height(t) + 1 :
       /\ C[i] \in Blocks /\ Height(C[i]) = i - 1
       /\ i > 1 => Prev(C[i]) = C[i - 1]

LEMMA ChainIs ==
  ASSUME NEW t \in Blocks
  PROVE  Chain(t, ChainTo[t])
  <1> DEFINE n == Height(t)
             At(i) == {b \in Blocks : Height(b) = n - i}
             T == [i \in 0 .. n |-> At(i)]
             g == [i \in 1 .. n |-> [b \in At(i - 1) |-> Prev(b)]]
             body(f) == [i \in 0 .. n |-> IF i = 0 THEN t ELSE Prev(f[i - 1])]
             below == CHOOSE f : f = body(f)
  <1>1. n \in Nat /\ n \in 0 .. n /\ 0 \in 0 .. n /\ n - 0 = n
    BY SMTT(30), HeightNat
  <1>2. ASSUME NEW i \in 1 .. n, NEW b \in At(i - 1) PROVE Prev(b) \in At(i)
    <2>1. b \in Blocks /\ Height(b) = n - (i - 1) /\ n - (i - 1) > 0
      BY SMTT(30), <1>1
    <2>2. Prev(b) \in Blocks /\ Height(b) = Height(Prev(b)) + 1 /\ Height(Prev(b)) \in Nat
      BY <2>1, Below, HeightNat
    <2> QED BY SMTT(30), <1>1, <2>1, <2>2
  <1>3. t \in T[0]
    BY <1>1
  <1>4. \A i \in 1 .. n : i \in 0 .. n /\ i - 1 \in 0 .. n
    BY SMTT(30), <1>1
  <1>5. \A i \in 1 .. n : \A b \in T[i - 1] : g[i][b] = Prev(b) /\ Prev(b) \in T[i]
    BY <1>2, <1>4
  <1>6. PICK f : IsFold(f, t, g, T, n)
    <2> HIDE DEF T, g, n
    <2>1. \A i \in 1 .. n : \A b \in T[i - 1] : g[i][b] \in T[i]
      BY <1>5
    <2> QED BY <1>1, <1>3, <2>1, FoldExists
  <1>7. f = body(f)
    <2> HIDE DEF T, g, n
    <2>1. \A i \in 0 .. n : i = 0 \/ (i \in 1 .. n /\ i - 1 \in 0 .. n)
      BY SMTT(30), <1>1
    <2> QED BY <1>1, <1>5, <1>6, <2>1 DEF IsFold
  <1>8. below = body(below)
    <2> HIDE DEF body
    <2> QED BY <1>7
  <1>9. ChainTo[t] = [i \in 1 .. n + 1 |-> below[n + 1 - i]]
    BY DEF ChainTo
  <1> HIDE DEF below
  <1>10. \A i \in 0 .. n : below[i] = IF i = 0 THEN t ELSE Prev(below[i - 1])
    <2> HIDE DEF n
    <2> QED BY <1>8
  <1>11. \A i \in 0 .. n : below[i] \in At(i)
    <2> HIDE DEF T, g, n
    <2> DEFINE S == {i \in Nat : i <= n => below[i] \in At(i)}
    <2>1. 0 \in S
      <3>1. below[0] = t /\ t \in At(0)
        BY <1>1, <1>10 DEF n
      <3> QED BY SMTT(30), <3>1
    <2>2. ASSUME NEW i \in Nat, i \in S PROVE i + 1 \in S
      <3> SUFFICES ASSUME i + 1 <= n PROVE below[i + 1] \in At(i + 1)
        BY SMTT(30)
      <3>1. i <= n /\ i + 1 \in 1 .. n /\ i + 1 \in 0 .. n /\ (i + 1) - 1 = i /\ i + 1 # 0
        BY SMTT(30), <1>1
      <3>2. below[i] \in At(i) /\ below[i + 1] = Prev(below[i])
        BY <1>10, <2>2, <3>1
      <3> HIDE DEF At
      <3> QED BY <1>2, <3>1, <3>2
    <2> HIDE DEF S
    <2>3. Nat \subseteq S
      BY <2>1, <2>2, Induction
    <2> QED BY SMTT(30), <1>1, <2>3 DEF S
  <1> DEFINE C == ChainTo[t]
  <1>12. below[0] = t
    BY <1>1, <1>10
  <1> HIDE DEF n
  <1>13. C \in Seq(Blocks) /\ Len(C) = n + 1 /\ C[n + 1] = t
    BY SMTT(30), <1>1, <1>9, <1>11, <1>12
  <1>14. ASSUME NEW i \in 1 .. n + 1
         PROVE  C[i] \in Blocks /\ Height(C[i]) = i - 1 /\ (i > 1 => Prev(C[i]) = C[i - 1])
    <2>1. n + 1 - i \in 0 .. n /\ n - (n + 1 - i) = i - 1
      BY SMTT(30), <1>1
    <2>2. C[i] = below[n + 1 - i]
      BY <1>9
    <2>3. C[i] \in Blocks /\ Height(C[i]) = i - 1
      BY <1>11, <2>1, <2>2
    <2>4. ASSUME i > 1 PROVE Prev(C[i]) = C[i - 1]
      <3>1. i - 1 \in 1 .. n + 1 /\ n + 1 - (i - 1) \in 0 .. n /\ n + 1 - (i - 1) # 0
            /\ (n + 1 - (i - 1)) - 1 = n + 1 - i
        BY SMTT(30), <1>1, <2>4
      <3>2. C[i - 1] = below[n + 1 - (i - 1)]
        BY <1>9, <3>1
      <3> QED BY SMTT(30), <1>10, <2>2, <3>1, <3>2
    <2> QED BY <2>3, <2>4
  <1> QED BY <1>13, <1>14 DEF Chain, n

LEMMA OnChain ==
  ASSUME NEW t \in Blocks, NEW b, b \in Range(ChainTo[t])
  PROVE  b \in Blocks /\ Height(b) + 1 \in 1 .. Height(t) + 1 /\ ChainTo[t][Height(b) + 1] = b
  <1>1. PICK C : C = ChainTo[t] /\ Chain(t, C)
    BY ChainIs
  <1>2. PICK i \in DOMAIN C : b = C[i]
    BY <1>1 DEF Range
  <1>3. i \in 1 .. Height(t) + 1 /\ Height(t) \in Nat
    BY SMTT(30), <1>1, HeightNat DEF Chain
  <1>4. b \in Blocks /\ Height(b) = i - 1
    BY <1>1, <1>2, <1>3 DEF Chain
  <1>5. (i - 1) + 1 = i
    BY SMTT(30), <1>3
  <1> QED BY <1>1, <1>2, <1>3, <1>4, <1>5

LEMMA GenesisFirst ==
  ASSUME NEW t \in Blocks
  PROVE  ChainTo[t][1] = GENESIS /\ GENESIS \in Range(ChainTo[t])
  <1>1. PICK C : C = ChainTo[t] /\ Chain(t, C)
    BY ChainIs
  <1>2. 1 \in 1 .. Height(t) + 1 /\ DOMAIN C = 1 .. Height(t) + 1 /\ 1 - 1 = 0
    BY SMTT(30), <1>1, HeightNat DEF Chain
  <1>3. C[1] = GENESIS
    BY <1>1, <1>2, HeightZero DEF Chain
  <1> QED BY <1>1, <1>2, <1>3 DEF Range

(* A chain is known by its top. *)
LEMMA ChainUnique ==
  ASSUME NEW t \in Blocks, NEW C, NEW D, Chain(t, C), Chain(t, D)
  PROVE  C = D
  <1> DEFINE n == Height(t)
             S == {k \in Nat : k <= n => C[n + 1 - k] = D[n + 1 - k]}
  <1>1. n \in Nat /\ n + 1 - 0 = n + 1
    BY SMTT(30), HeightNat
  <1>2. 0 \in S
    <2>1. C[n + 1] = D[n + 1]
      BY DEF Chain
    <2> HIDE DEF n
    <2> QED BY SMTT(30), <1>1, <2>1
  <1>3. ASSUME NEW k \in Nat, k \in S PROVE k + 1 \in S
    <2> SUFFICES ASSUME k + 1 <= n PROVE C[n + 1 - (k + 1)] = D[n + 1 - (k + 1)]
      BY SMTT(30)
    <2>1. PICK i : i = n + 1 - k
      OBVIOUS
    <2> HIDE DEF n
    <2>2. i \in 1 .. n + 1 /\ i > 1 /\ i - 1 = n + 1 - (k + 1) /\ k <= n
      BY SMTT(30), <1>1, <2>1
    <2>3. C[i] = D[i]
      BY <1>3, <2>1, <2>2
    <2>4. Prev(C[i]) = C[i - 1] /\ Prev(D[i]) = D[i - 1]
      BY <2>2 DEF Chain, n
    <2> QED BY <2>2, <2>3, <2>4
  <1> HIDE DEF S
  <1>4. Nat \subseteq S
    BY <1>2, <1>3, Induction
  <1>5. ASSUME NEW i \in 1 .. n + 1 PROVE C[i] = D[i]
    <2> HIDE DEF n
    <2>1. PICK k : k = n + 1 - i
      OBVIOUS
    <2>2. k \in Nat /\ k <= n /\ n + 1 - k = i
      BY SMTT(30), <1>1, <2>1
    <2> QED BY <1>4, <2>2 DEF S
  <1>6. C \in Seq(Blocks) /\ D \in Seq(Blocks) /\ Len(C) = n + 1 /\ Len(D) = n + 1
    BY DEF Chain
  <1> HIDE DEF n
  <1> QED BY SMTT(30), <1>1, <1>5, <1>6

LEMMA Prefix ==
  ASSUME NEW t \in Blocks, NEW i \in 1 .. Height(t) + 1
  PROVE  /\ ChainTo[t][i] \in Blocks /\ Height(ChainTo[t][i]) = i - 1
         /\ SubSeq(ChainTo[t], 1, i) = ChainTo[ChainTo[t][i]]
  <1>1. PICK C : C = ChainTo[t] /\ Chain(t, C)
    BY ChainIs
  <1>2. PICK n : n = Height(t) /\ n \in Nat /\ i \in 1 .. n + 1
    BY HeightNat
  <1>3. C \in Seq(Blocks) /\ Len(C) = n + 1
        /\ \A j \in 1 .. n + 1 : C[j] \in Blocks /\ Height(C[j]) = j - 1 /\ (j > 1 => Prev(C[j]) = C[j - 1])
    BY <1>1, <1>2 DEF Chain
  <1>4. PICK D : D = SubSeq(C, 1, i)
    OBVIOUS
  <1>5. D \in Seq(Blocks) /\ Len(D) = i /\ \A j \in 1 .. i : D[j] = C[j]
    BY SMTT(30), <1>2, <1>3, <1>4
  <1>6. C[i] \in Blocks /\ Height(C[i]) = i - 1 /\ (i - 1) + 1 = i /\ i \in 1 .. i
    BY SMTT(30), <1>2, <1>3
  <1>7. \A j \in 1 .. i : j \in 1 .. n + 1 /\ (j > 1 => j - 1 \in 1 .. i)
    BY SMTT(30), <1>2
  <1>8. Chain(C[i], D)
    <2>1. \A j \in 1 .. i : D[j] \in Blocks /\ Height(D[j]) = j - 1 /\ (j > 1 => Prev(D[j]) = D[j - 1])
      BY <1>3, <1>5, <1>7
    <2> QED BY <1>5, <1>6, <2>1 DEF Chain
  <1>9. Chain(C[i], ChainTo[C[i]])
    BY <1>6, ChainIs
  <1>10. D = ChainTo[C[i]]
    BY <1>6, <1>8, <1>9, ChainUnique
  <1> QED BY <1>1, <1>4, <1>6, <1>10

LEMMA ChainGenesis == ChainTo[GENESIS] = <<GENESIS>>
  <1>1. PICK C : C = ChainTo[GENESIS] /\ Chain(GENESIS, C)
    BY ChainIs, BlocksAssumption
  <1>2. Height(GENESIS) + 1 = 1
    BY SMTT(30), BlocksAssumption
  <1>3. C \in Seq(Blocks) /\ Len(C) = 1 /\ C[1] = GENESIS
    BY <1>1, <1>2 DEF Chain
  <1>4. C = <<GENESIS>>
    BY SMTT(30), <1>3
  <1> QED BY <1>1, <1>4

LEMMA ChainLast ==
  ASSUME NEW t \in Blocks
  PROVE  /\ ChainTo[t] \in Seq(Blocks) /\ ChainTo[t] # <<>> /\ Len(ChainTo[t]) = Height(t) + 1
         /\ ChainTo[t][Len(ChainTo[t])] = t /\ t \in Range(ChainTo[t])
         /\ Len(ChainTo[t]) \in Nat \ {0}
  <1>1. PICK C : C = ChainTo[t] /\ Chain(t, C)
    BY ChainIs
  <1>2. PICK n : n = Height(t) /\ n \in Nat
    BY HeightNat
  <1>3. C \in Seq(Blocks) /\ Len(C) = n + 1 /\ C[n + 1] = t
    BY <1>1, <1>2 DEF Chain
  <1>4. C # <<>> /\ n + 1 \in DOMAIN C /\ n + 1 \in Nat \ {0}
    BY SMTT(30), <1>2, <1>3
  <1>5. t \in Range(C)
    BY <1>3, <1>4 DEF Range
  <1> QED BY <1>1, <1>2, <1>3, <1>4, <1>5

LEMMA ChainStep ==
  ASSUME NEW t \in Blocks, t # GENESIS
  PROVE  /\ Prev(t) \in Blocks /\ Height(t) = Height(Prev(t)) + 1
         /\ ChainTo[t] = Append(ChainTo[Prev(t)], t)
         /\ SubSeq(ChainTo[t], 1, Len(ChainTo[t]) - 1) = ChainTo[Prev(t)]
         /\ Len(ChainTo[t]) - 1 = Height(t) /\ Len(ChainTo[t]) > 1
  <1>1. PICK C : C = ChainTo[t] /\ Chain(t, C)
    BY ChainIs
  <1>2. Prev(t) \in Blocks /\ Height(t) = Height(Prev(t)) + 1 /\ Height(Prev(t)) \in Nat
    BY BlocksAssumption
  <1>3. PICK n : n = Height(t) /\ n \in Nat /\ n \in 1 .. n + 1 /\ n + 1 > 1 /\ (n + 1) - 1 = n
                 /\ n + 1 \in 1 .. n + 1
    BY SMTT(30), <1>2
  <1>4. C \in Seq(Blocks) /\ Len(C) = n + 1 /\ C[n + 1] = t /\ Prev(C[n + 1]) = C[(n + 1) - 1]
    BY <1>1, <1>3 DEF Chain
  <1>5. SubSeq(C, 1, n) = ChainTo[C[n]]
    BY <1>1, <1>3, Prefix
  <1>6. C = Append(SubSeq(C, 1, n), C[n + 1])
    BY SMTT(30), <1>3, <1>4
  <1> QED BY <1>1, <1>2, <1>3, <1>4, <1>5, <1>6

LEMMA ChainRange ==
  ASSUME NEW t \in Blocks, t # GENESIS
  PROVE  Range(ChainTo[t]) = Range(ChainTo[Prev(t)]) \cup {t}
  <1>1. PICK c : c = ChainTo[Prev(t)] /\ c \in Seq(Blocks) /\ ChainTo[t] = Append(c, t)
    BY ChainStep, ChainLast
  <1>2. Range(Append(c, t)) = Range(c) \cup {t}
    BY SMTT(30), <1>1 DEF Range
  <1> QED BY <1>1, <1>2

(* The chain to a block of the chain. *)
LEMMA ChainBelow ==
  ASSUME NEW t \in Blocks, NEW b \in Range(ChainTo[t])
  PROVE  /\ b \in Blocks /\ Height(b) <= Height(t)
         /\ ChainTo[b] = SubSeq(ChainTo[t], 1, Height(b) + 1)
         /\ Range(ChainTo[b]) \subseteq Range(ChainTo[t])
         /\ Height(b) = Height(t) => b = t
  <1>1. b \in Blocks /\ Height(b) + 1 \in 1 .. Height(t) + 1 /\ ChainTo[t][Height(b) + 1] = b
    BY OnChain
  <1>2. ChainTo[b] = SubSeq(ChainTo[t], 1, Height(b) + 1)
    BY <1>1, Prefix
  <1>3. PICK C : C = ChainTo[t] /\ C \in Seq(Blocks) /\ Len(C) = Height(t) + 1 /\ C[Len(C)] = t
    BY ChainLast
  <1>4. Height(b) \in Nat /\ Height(t) \in Nat
    BY <1>1, HeightNat
  <1>5. PICK h : h = Height(b) + 1 /\ h \in 1 .. Len(C)
    BY <1>1, <1>3
  <1>6. Range(SubSeq(C, 1, h)) \subseteq Range(C)
    BY SMTT(30), <1>3, <1>5 DEF Range
  <1>7. Height(b) <= Height(t)
    BY SMTT(30), <1>1, <1>4
  <1> QED BY <1>1, <1>2, <1>3, <1>5, <1>6, <1>7

(* Work grows along a chain. *)
LEMMA WorkIs ==
  ASSUME NEW b \in Blocks
  PROVE  Work(b) \in Nat /\ (Prev(b) \in Blocks => Work(Prev(b)) < Work(b))
  BY WorkAssumption, BlocksAssumption

LEMMA WorkBelow ==
  ASSUME NEW t \in Blocks, NEW a \in Range(ChainTo[t])
  PROVE  Work(a) <= Work(t)
  <1>1. PICK n : n = Height(t) /\ n \in Nat
    BY HeightNat
  <1>2. PICK C : /\ C = ChainTo[t] /\ C[n + 1] = t
                 /\ \A i \in 1 .. n + 1 : C[i] \in Blocks /\ (i > 1 => Prev(C[i]) = C[i - 1])
    <2>1. Chain(t, ChainTo[t])
      BY ChainIs
    <2> QED BY <1>1, <2>1 DEF Chain
  <1> DEFINE S == {k \in Nat : k <= n => Work(C[n + 1 - k]) <= Work(t)}
  <1>3. 0 \in S
    <2>1. n + 1 - 0 = n + 1 /\ Work(t) <= Work(t)
      BY SMTT(30), <1>1, WorkIs
    <2>2. Work(C[n + 1 - 0]) <= Work(t)
      BY <1>2, <2>1
    <2> QED BY SMTT(30), <2>2
  <1>4. ASSUME NEW k \in Nat, k \in S PROVE k + 1 \in S
    <2> SUFFICES ASSUME k + 1 <= n PROVE Work(C[n + 1 - (k + 1)]) <= Work(t)
      BY SMTT(30)
    <2>1. /\ k <= n /\ n + 1 - k \in 1 .. n + 1 /\ n + 1 - k > 1 /\ n - k \in 1 .. n + 1
          /\ (n + 1 - k) - 1 = n - k /\ n + 1 - (k + 1) = n - k
      BY SMTT(30), <1>1
    <2>2. /\ C[n + 1 - k] \in Blocks /\ C[n - k] \in Blocks /\ Prev(C[n + 1 - k]) = C[n - k]
          /\ Work(C[n + 1 - k]) <= Work(t)
      BY <1>2, <1>4, <2>1
    <2>3. /\ Work(C[n - k]) < Work(C[n + 1 - k]) /\ Work(C[n - k]) \in Nat
          /\ Work(C[n + 1 - k]) \in Nat /\ Work(t) \in Nat
      BY <2>2, WorkIs
    <2>4. Work(C[n - k]) <= Work(t)
      <3>1. \A x, y, z \in Nat : x < y /\ y <= z => x <= z
        BY SMTT(30)
      <3> QED BY <2>2, <2>3, <3>1
    <2> QED BY <2>1, <2>4
  <1> HIDE DEF S
  <1>5. Nat \subseteq S
    BY <1>3, <1>4, Induction
  <1>6. Height(a) + 1 \in 1 .. n + 1 /\ C[Height(a) + 1] = a
    BY <1>1, <1>2, OnChain
  <1>7. PICK j : j = Height(a) + 1 /\ j \in 1 .. n + 1
    BY <1>6
  <1>8. n + 1 - j \in Nat /\ n + 1 - j <= n /\ n + 1 - (n + 1 - j) = j
    BY SMTT(30), <1>1, <1>7
  <1>9. Work(C[n + 1 - (n + 1 - j)]) <= Work(t)
    BY <1>5, <1>8 DEF S
  <1> QED BY <1>6, <1>7, <1>8, <1>9

(* The sequence c with b at its end. *)
Appended(S, c, b, d, n) ==
  /\ n \in Nat /\ d \in Seq(S) /\ DOMAIN c = 1 .. n /\ DOMAIN d = 1 .. n + 1
  /\ d[n + 1] = b /\ (\A i \in 1 .. n : d[i] = c[i])
  /\ (\A i \in 1 .. n + 1 : i \in 1 .. n \/ i = n + 1) /\ 1 .. n \subseteq 1 .. n + 1
  /\ n + 1 \in 1 .. n + 1

LEMMA SeqIs ==
  ASSUME NEW S, NEW k \in Nat, NEW f \in [1 .. k -> S]
  PROVE  f \in Seq(S)
  BY SMTT(30)

LEMMA AppendIs ==
  ASSUME NEW S, NEW c \in Seq(S), NEW b \in S, NEW d, d = Append(c, b), NEW n, n = Len(c)
  PROVE  Appended(S, c, b, d, n)
  <1>1. n \in Nat /\ DOMAIN c = 1 .. n
    BY SMTT(30)
  <1>2. d \in Seq(S) /\ DOMAIN d = 1 .. n + 1
    BY SMTT(30), <1>1
  <1>3. d[n + 1] = b
    BY SMTT(30), <1>1
  <1>4. \A i \in 1 .. n : d[i] = c[i]
    BY SMTT(30), <1>1
  <1>5. \A i \in 1 .. n + 1 : i \in 1 .. n \/ i = n + 1
    BY SMTT(30), <1>1
  <1>6. 1 .. n \subseteq 1 .. n + 1
    BY SMTT(30), <1>1
  <1>7. n + 1 \in 1 .. n + 1
    BY SMTT(30), <1>1
  <1> QED BY <1>1, <1>2, <1>3, <1>4, <1>5, <1>6, <1>7 DEF Appended

LEMMA MinedAppend ==
  ASSUME NEW c \in Seq(Blocks), NEW b \in Blocks
  PROVE  Mined(Append(c, b)) = Mined(c) \cup Range(TxsOf(b))
  <1>1. PICK d : d = Append(c, b)
    OBVIOUS
  <1>2. PICK n : n = Len(c) /\ n \in Nat /\ DOMAIN c = 1 .. n /\ DOMAIN d = 1 .. n + 1
                 /\ d[n + 1] = b /\ (\A i \in 1 .. n : d[i] = c[i])
                 /\ (\A i \in 1 .. n + 1 : i \in 1 .. n \/ i = n + 1) /\ 1 .. n \subseteq 1 .. n + 1
                 /\ n + 1 \in 1 .. n + 1
    <2>1. PICK n : n = Len(c)
      OBVIOUS
    <2>2. Appended(Blocks, c, b, d, n)
      BY <1>1, <2>1, AppendIs
    <2> QED BY <2>1, <2>2 DEF Appended
  <1>3. Mined(d) = Mined(c) \cup Range(TxsOf(b))
    BY SMTT(30), <1>2 DEF Mined, TxsOf
  <1> QED BY <1>1, <1>3

LEMMA MinedStep ==
  ASSUME NEW t \in Blocks, t # GENESIS
  PROVE  Mined(ChainTo[t]) = Mined(ChainTo[Prev(t)]) \cup Range(TxsOf(t))
  BY ChainStep, ChainLast, MinedAppend

LEMMA MinedIn ==
  ASSUME NEW c, NEW b \in Range(c)
  PROVE  Range(TxsOf(b)) \subseteq Mined(c)
  BY SMTT(30) DEF Mined, TxsOf, Range

LEMMA MinedType ==
  ASSUME NEW c \in Seq(Blocks)
  PROVE  Mined(c) \subseteq Txs
  <1>1. \A i \in DOMAIN c : c[i] \in Blocks
    BY SMTT(30)
  <1>2. \A b \in Blocks : Range(TxsOf(b)) \subseteq Txs
    BY SMTT(30), BlocksAssumption DEF Range
  <1> QED BY <1>1, <1>2 DEF Mined, TxsOf

-----------------------------------------------------------------------------
(* The pool. *)
Relays == {"stem", "fluff", "block"}
Metas == [relay : Relays, failed : Blocks \cup {NoBlock}]
Pools == UNION {[D -> Metas] : D \in SUBSET Txs}
Caches == UNION {[D -> BOOLEAN] : D \in SUBSET Txs}
Templates == [prev : Blocks \cup {NoBlock}, txs : Seq(Txs)]

States ==
  [main : Seq(Blocks), alt : SUBSET Blocks, pool : Pools, invalid : SUBSET Blocks,
   images : [KeyImages -> SUBSET Txs], listed : SUBSET Txs, weight : Nat, verdicts : Caches,
   timedOut : SUBSET Txs, template : Templates, broken : BOOLEAN, batchOK : BOOLEAN]

Spenders(p, k) == {t \in DOMAIN p : k \in Range(Spends[t])}

Loose(p) ==
  \A t, u \in DOMAIN p :
    t # u /\ Range(Spends[t]) \cap Range(Spends[u]) # {} => p[t].relay = "block" \/ p[u].relay = "block"

(* The indexes are those of the stored pool, and the weight does not lag   *)
(* behind.                                                                 *)
Indexes(s) ==
  /\ s.broken = FALSE /\ s.listed = DOMAIN s.pool
  /\ \A k \in KeyImages : s.images[k] = Spenders(s.pool, k)
  /\ Loose(s.pool)

Indexed(s) == Indexes(s) /\ Cardinality(DOMAIN s.pool) <= s.weight

(* What the pool leaves to the chain. *)
Same(s, r) ==
  /\ r.main = s.main /\ r.alt = s.alt /\ r.invalid = s.invalid
  /\ r.timedOut = s.timedOut /\ r.batchOK = s.batchOK

LEMMA StateIs ==
  ASSUME NEW s \in States
  PROVE  /\ s.main \in Seq(Blocks) /\ s.alt \subseteq Blocks /\ s.pool \in Pools
         /\ s.invalid \subseteq Blocks /\ s.images \in [KeyImages -> SUBSET Txs]
         /\ s.listed \subseteq Txs /\ s.weight \in Nat /\ s.verdicts \in Caches
         /\ s.timedOut \subseteq Txs /\ s.template \in Templates
         /\ s.broken \in BOOLEAN /\ s.batchOK \in BOOLEAN
  BY DEF States

LEMMA PoolIs ==
  ASSUME NEW p \in Pools
  PROVE  /\ DOMAIN p \subseteq Txs /\ IsFiniteSet(DOMAIN p)
         /\ p \in [DOMAIN p -> Metas]
         /\ \A u \in DOMAIN p : p[u] \in Metas /\ p[u].relay \in Relays
                                /\ p[u].failed \in Blocks \cup {NoBlock}
  <1>1. PICK D \in SUBSET Txs : p \in [D -> Metas]
    BY DEF Pools
  <1>2. IsFiniteSet(D)
    BY TxAssumption, FS_Subset
  <1>3. \A m \in Metas : m.relay \in Relays /\ m.failed \in Blocks \cup {NoBlock}
    BY DEF Metas
  <1> QED BY <1>1, <1>2, <1>3

LEMMA PoolMade ==
  ASSUME NEW D, D \subseteq Txs, NEW p, p \in [D -> Metas]
  PROVE  p \in Pools
  BY DEF Pools

LEMMA WithoutIs ==
  ASSUME NEW p \in Pools, NEW t
  PROVE  /\ Without(p, t) \in Pools /\ DOMAIN Without(p, t) = DOMAIN p \ {t}
         /\ \A u \in DOMAIN p \ {t} : Without(p, t)[u] = p[u]
  <1>1. DOMAIN p \subseteq Txs /\ \A u \in DOMAIN p : p[u] \in Metas
    BY PoolIs
  <1>2. PICK q : q = Without(p, t)
    OBVIOUS
  <1>3. q = [u \in DOMAIN p \ {t} |-> p[u]]
    BY <1>2 DEF Without
  <1>4. q \in [DOMAIN p \ {t} -> Metas] /\ DOMAIN p \ {t} \subseteq Txs
    BY <1>1, <1>3
  <1>5. q \in Pools
    BY <1>4, PoolMade
  <1> QED BY <1>2, <1>3, <1>5

LEMMA WithIs ==
  ASSUME NEW p \in Pools, NEW t \in Txs, NEW m \in Metas
  PROVE  /\ With(p, t, m) \in Pools /\ DOMAIN With(p, t, m) = DOMAIN p \cup {t}
         /\ With(p, t, m)[t] = m
         /\ \A u \in DOMAIN p : u # t => With(p, t, m)[u] = p[u]
  <1>1. DOMAIN p \subseteq Txs /\ \A u \in DOMAIN p : p[u] \in Metas
    BY PoolIs
  <1>2. PICK q : q = With(p, t, m)
    OBVIOUS
  <1>3. q = [u \in DOMAIN p \cup {t} |-> IF u = t THEN m ELSE p[u]]
    BY <1>2 DEF With
  <1>4. q \in [DOMAIN p \cup {t} -> Metas] /\ DOMAIN p \cup {t} \subseteq Txs
    BY <1>1, <1>3
  <1>5. q \in Pools
    BY <1>4, PoolMade
  <1> QED BY <1>2, <1>3, <1>5

LEMMA RankIs == Rank["stem"] = 1 /\ Rank["fluff"] = 2 /\ Rank["block"] = 3
  BY DEF Rank

LEMMA LegacyIs ==
  ASSUME NEW s \in States, NEW t
  PROVE  Legacy(s, t) <=> t \in DOMAIN s.pool /\ s.pool[t].relay # "stem"
  <1>1. \A x \in Relays : Rank[x] >= Rank["fluff"] <=> x # "stem"
    BY SMTT(30), RankIs DEF Relays
  <1>2. t \in DOMAIN s.pool => s.pool[t].relay \in Relays
    BY StateIs, PoolIs
  <1> QED BY <1>1, <1>2 DEF Legacy, InPool

LEMMA SpendsIs ==
  ASSUME NEW t \in Txs
  PROVE  Range(Spends[t]) \subseteq KeyImages
  BY DEF KeyImages

LEMMA LeadingAll ==
  ASSUME NEW t \in Txs, NEW can, Range(Spends[t]) \subseteq can
  PROVE  Leading(t, can) = Range(Spends[t])
  <1>1. Spends[t] \in Seq(KeyImages)
    BY TxAssumption
  <1>2. \A j \in DOMAIN Spends[t] : \A h \in 1 .. j : h \in DOMAIN Spends[t]
    BY SMTT(30), <1>1
  <1>3. \A j \in DOMAIN Spends[t] : \A h \in 1 .. j : Spends[t][h] \in can
    BY <1>2 DEF Range
  <1> QED BY <1>3 DEF Leading, Range

LEMMA NoTemplateType == NoTemplate \in Templates
  <1>1. <<>> \in Seq(Txs)
    BY SMTT(30)
  <1> QED BY <1>1 DEF NoTemplate, Templates

LEMMA BumpIs ==
  ASSUME NEW s \in States
  PROVE  /\ Bump(s) \in States /\ Same(s, Bump(s)) /\ Bump(s).template = NoTemplate
         /\ Bump(s).pool = s.pool /\ Bump(s).images = s.images /\ Bump(s).listed = s.listed
         /\ Bump(s).weight = s.weight /\ Bump(s).verdicts = s.verdicts /\ Bump(s).broken = s.broken
  BY NoTemplateType DEF Bump, States, Same

LEMMA BrokenIs ==
  ASSUME NEW s \in States
  PROVE  /\ Broken(s) \in States /\ Same(s, Broken(s)) /\ Broken(s).template = s.template
         /\ Broken(s).pool = s.pool /\ Broken(s).images = s.images /\ Broken(s).listed = s.listed
         /\ Broken(s).weight = s.weight /\ Broken(s).verdicts = s.verdicts /\ Broken(s).broken = TRUE
  BY DEF Broken, States, Same

LEMMA ImagesPut ==
  ASSUME NEW s \in States, NEW i \in [KeyImages -> SUBSET Txs], NEW r, r = [s EXCEPT !.images = i]
  PROVE  /\ r \in States /\ Same(s, r) /\ r.template = s.template
         /\ r.pool = s.pool /\ r.images = i /\ r.listed = s.listed
         /\ r.weight = s.weight /\ r.verdicts = s.verdicts /\ r.broken = s.broken
  BY DEF States, Same

Each(s, t, can, new, r) ==
  /\ r.s \in States /\ Same(s, r.s) /\ r.s.pool = s.pool /\ r.s.listed = s.listed
  /\ r.s.weight = s.weight /\ r.s.verdicts = s.verdicts
  /\ r.ok \in BOOLEAN /\ (r.ok <=> Range(Spends[t]) \subseteq can)
  /\ r.ok => /\ r.s.broken = s.broken /\ r.s.template = NoTemplate
             /\ \A k \in KeyImages : r.s.images[k] = IF k \in Range(Spends[t]) THEN new[k] ELSE s.images[k]
  /\ ~ r.ok => r.s.broken = TRUE /\ r.s.template = s.template

LEMMA EachIs ==
  ASSUME NEW s \in States, NEW t \in Txs, NEW can, NEW new \in [KeyImages -> SUBSET Txs],
         NEW r, r = EachKeyImage(s, t, can, new)
  PROVE  Each(s, t, can, new, r)
  <1>1. PICK i : i = [k \in KeyImages |-> IF k \in Leading(t, can) THEN new[k] ELSE s.images[k]]
    OBVIOUS
  <1>2. s.images \in [KeyImages -> SUBSET Txs]
    BY StateIs
  <1>3. i \in [KeyImages -> SUBSET Txs]
    BY <1>1, <1>2
  <1>4. PICK a : a = [s EXCEPT !.images = i]
    OBVIOUS
  <1>5. /\ a \in States /\ Same(s, a) /\ a.template = s.template
        /\ a.pool = s.pool /\ a.images = i /\ a.listed = s.listed
        /\ a.weight = s.weight /\ a.verdicts = s.verdicts /\ a.broken = s.broken
    BY SMTT(30), <1>3, <1>4, ImagesPut
  <1>6. r = IF Range(Spends[t]) \subseteq can THEN [ok |-> TRUE, s |-> Bump(a)]
            ELSE [ok |-> FALSE, s |-> Broken(a)]
    BY <1>1, <1>4 DEF EachKeyImage
  <1>7. CASE Range(Spends[t]) \subseteq can
    <2>1. r.ok = TRUE /\ r.s = Bump(a)
      BY SMTT(30), <1>6, <1>7
    <2>2. PICK b : b = Bump(a)
      OBVIOUS
    <2>3. /\ b \in States /\ Same(a, b) /\ b.template = NoTemplate
          /\ b.pool = a.pool /\ b.images = a.images /\ b.listed = a.listed
          /\ b.weight = a.weight /\ b.verdicts = a.verdicts /\ b.broken = a.broken
      BY <1>5, <2>2, BumpIs
    <2>4. Leading(t, can) = Range(Spends[t])
      BY <1>7, LeadingAll
    <2>5. Same(s, b)
      BY <1>5, <2>3 DEF Same
    <2>6. \A k \in KeyImages : i[k] = IF k \in Range(Spends[t]) THEN new[k] ELSE s.images[k]
      BY <1>1, <2>4
    <2>7. /\ r.s = b /\ b.images = i /\ b.pool = s.pool /\ b.listed = s.listed /\ b.weight = s.weight
          /\ b.verdicts = s.verdicts /\ b.broken = s.broken
      BY <2>1, <2>2, <2>3, <1>5
    <2> QED BY <1>7, <2>1, <2>3, <2>5, <2>6, <2>7 DEF Each
  <1>8. CASE ~(Range(Spends[t]) \subseteq can)
    <2>1. r.ok = FALSE /\ r.s = Broken(a)
      BY SMTT(30), <1>6, <1>8
    <2>2. PICK b : b = Broken(a)
      OBVIOUS
    <2>3. /\ b \in States /\ Same(a, b) /\ b.template = a.template
          /\ b.pool = a.pool /\ b.images = a.images /\ b.listed = a.listed
          /\ b.weight = a.weight /\ b.verdicts = a.verdicts /\ b.broken = TRUE
      BY <1>5, <2>2, BrokenIs
    <2>5. Same(s, b)
      BY <1>5, <2>3 DEF Same
    <2> QED BY <1>5, <1>8, <2>1, <2>2, <2>3, <2>5 DEF Each
  <1> QED BY <1>7, <1>8

(* insert_key_images *)
Inserted(s, t, relay, r) ==
  /\ r.s \in States /\ Same(s, r.s) /\ r.s.pool = s.pool /\ r.s.listed = s.listed
  /\ r.s.weight = s.weight /\ r.s.verdicts = s.verdicts
  /\ r.ok \in BOOLEAN /\ (r.ok <=> \A k \in Range(Spends[t]) : Insertable(s, t, relay, k))
  /\ r.ok => /\ r.s.broken = s.broken /\ r.s.template = NoTemplate
             /\ \A k \in KeyImages : r.s.images[k] = IF k \in Range(Spends[t]) THEN s.images[k] \cup {t} ELSE s.images[k]
  /\ ~ r.ok => r.s.broken = TRUE /\ r.s.template = s.template

LEMMA InsertIs ==
  ASSUME NEW s \in States, NEW t \in Txs, NEW relay, NEW r, r = insert_key_images(s, t, relay)
  PROVE  Inserted(s, t, relay, r)
  <1>1. PICK can : can = {k \in KeyImages : Insertable(s, t, relay, k)}
    OBVIOUS
  <1>2. PICK new : new = [k \in KeyImages |-> s.images[k] \cup {t}]
    OBVIOUS
  <1>3. s.images \in [KeyImages -> SUBSET Txs]
    BY StateIs
  <1>4. new \in [KeyImages -> SUBSET Txs]
    BY <1>2, <1>3
  <1>5. r = EachKeyImage(s, t, can, new)
    BY <1>1, <1>2 DEF insert_key_images
  <1>6. Range(Spends[t]) \subseteq can <=> \A k \in Range(Spends[t]) : Insertable(s, t, relay, k)
    BY <1>1, SpendsIs
  <1>7. /\ r.s \in States /\ Same(s, r.s) /\ r.s.pool = s.pool /\ r.s.listed = s.listed
        /\ r.s.weight = s.weight /\ r.s.verdicts = s.verdicts
        /\ r.ok \in BOOLEAN /\ (r.ok <=> Range(Spends[t]) \subseteq can)
        /\ r.ok => /\ r.s.broken = s.broken /\ r.s.template = NoTemplate
                   /\ \A k \in KeyImages : r.s.images[k] = IF k \in Range(Spends[t]) THEN new[k] ELSE s.images[k]
        /\ ~ r.ok => r.s.broken = TRUE /\ r.s.template = s.template
    <2>1. Each(s, t, can, new, r)
      BY <1>4, <1>5, EachIs
    <2> QED BY <2>1 DEF Each
  <1>8. \A k \in KeyImages : new[k] = s.images[k] \cup {t}
    BY <1>2
  <1> QED BY <1>6, <1>7, <1>8 DEF Inserted

(* remove_transaction_keyimages *)
Removed(s, t, r) ==
  /\ r \in States /\ Same(s, r) /\ r.pool = s.pool /\ r.listed = s.listed
  /\ r.weight = s.weight /\ r.verdicts = s.verdicts
  /\ (\A k \in Range(Spends[t]) : t \in s.images[k]) =>
       /\ r.broken = s.broken
       /\ \A k \in KeyImages : r.images[k] = IF k \in Range(Spends[t]) THEN s.images[k] \ {t} ELSE s.images[k]

LEMMA RemoveIs ==
  ASSUME NEW s \in States, NEW t \in Txs, NEW r, r = remove_key_images(s, t)
  PROVE  Removed(s, t, r)
  <1> SUFFICES /\ r \in States /\ Same(s, r) /\ r.pool = s.pool /\ r.listed = s.listed
               /\ r.weight = s.weight /\ r.verdicts = s.verdicts
               /\ (\A k \in Range(Spends[t]) : t \in s.images[k]) =>
                    /\ r.broken = s.broken
                    /\ \A k \in KeyImages : r.images[k] = IF k \in Range(Spends[t]) THEN s.images[k] \ {t} ELSE s.images[k]
    BY DEF Removed
  <1>1. PICK can : can = {k \in KeyImages : t \in s.images[k]}
    OBVIOUS
  <1>2. PICK new : new = [k \in KeyImages |-> s.images[k] \ {t}]
    OBVIOUS
  <1>3. s.images \in [KeyImages -> SUBSET Txs]
    BY StateIs
  <1>4. new \in [KeyImages -> SUBSET Txs]
    BY <1>2, <1>3
  <1>5. PICK e : e = EachKeyImage(s, t, can, new)
    OBVIOUS
  <1>6. r = e.s
    BY <1>1, <1>2, <1>5 DEF remove_key_images
  <1>7. Range(Spends[t]) \subseteq can <=> \A k \in Range(Spends[t]) : t \in s.images[k]
    BY <1>1, SpendsIs
  <1>8. /\ e.s \in States /\ Same(s, e.s) /\ e.s.pool = s.pool /\ e.s.listed = s.listed
        /\ e.s.weight = s.weight /\ e.s.verdicts = s.verdicts
        /\ (e.ok <=> Range(Spends[t]) \subseteq can)
        /\ e.ok => /\ e.s.broken = s.broken
                   /\ \A k \in KeyImages : e.s.images[k] = IF k \in Range(Spends[t]) THEN new[k] ELSE s.images[k]
    <2>1. Each(s, t, can, new, e)
      BY <1>4, <1>5, EachIs
    <2> QED BY <2>1 DEF Each
  <1>9. \A k \in KeyImages : new[k] = s.images[k] \ {t}
    BY <1>2
  <1> QED BY <1>6, <1>7, <1>8, <1>9

LEMMA PoolPut ==
  ASSUME NEW s \in States, NEW p \in Pools, NEW r, r = [s EXCEPT !.pool = p]
  PROVE  /\ r \in States /\ Same(s, r) /\ r.template = s.template
         /\ r.pool = p /\ r.images = s.images /\ r.listed = s.listed
         /\ r.weight = s.weight /\ r.verdicts = s.verdicts /\ r.broken = s.broken
  BY DEF States, Same

LEMMA WeightPut ==
  ASSUME NEW s \in States, NEW w \in Nat, NEW r, r = [s EXCEPT !.weight = w]
  PROVE  /\ r \in States /\ Same(s, r) /\ r.template = s.template
         /\ r.pool = s.pool /\ r.images = s.images /\ r.listed = s.listed
         /\ r.weight = w /\ r.verdicts = s.verdicts /\ r.broken = s.broken
  BY DEF States, Same

LEMMA ListedPut ==
  ASSUME NEW s \in States, NEW l \in SUBSET Txs, NEW r, r = [s EXCEPT !.listed = l]
  PROVE  /\ r \in States /\ Same(s, r) /\ r.template = s.template
         /\ r.pool = s.pool /\ r.images = s.images /\ r.listed = l
         /\ r.weight = s.weight /\ r.verdicts = s.verdicts /\ r.broken = s.broken
  BY DEF States, Same

LEMMA ReduceIs ==
  ASSUME NEW s \in States, NEW r, r = ReduceWeight(s)
  PROVE  /\ r \in States /\ Same(s, r) /\ r.template = s.template
         /\ r.pool = s.pool /\ r.images = s.images /\ r.listed = s.listed
         /\ r.verdicts = s.verdicts
         /\ s.weight > 0 => r.weight = s.weight - 1 /\ r.broken = s.broken
  <1>1. s.weight \in Nat
    BY StateIs
  <1>2. CASE s.weight = 0
    <2>1. r = Broken(s) /\ ~(s.weight > 0)
      BY SMTT(30), <1>2 DEF ReduceWeight
    <2> QED BY <2>1, BrokenIs
  <1>3. CASE s.weight # 0
    <2>1. s.weight - 1 \in Nat
      BY SMTT(30), <1>1, <1>3
    <2>2. r = [s EXCEPT !.weight = s.weight - 1]
      BY <1>3 DEF ReduceWeight
    <2> QED BY SMTT(30), <2>1, <2>2, WeightPut
  <1> QED BY <1>2, <1>3

(* What take_tx, prune and remove_stuck_transactions do. *)
LEMMA RemoveTxIs ==
  ASSUME NEW s \in States, NEW t \in Txs, NEW r, r = RemoveTx(s, t)
  PROVE  /\ r \in States /\ Same(s, r) /\ r.verdicts = s.verdicts /\ r.template = NoTemplate
         /\ r.pool = Without(s.pool, t)
         /\ t \in DOMAIN s.pool /\ Indexed(s) => Indexed(r)
  <1>1. PICK a : a = [s EXCEPT !.pool = Without(s.pool, t)]
    OBVIOUS
  <1>2. PICK b : b = ReduceWeight(a)
    OBVIOUS
  <1>3. PICK c : c = remove_key_images(b, t)
    OBVIOUS
  <1>4. PICK d : d = [c EXCEPT !.listed = c.listed \ {t}]
    OBVIOUS
  <1>5. r = Bump(d)
    BY <1>1, <1>2, <1>3, <1>4 DEF RemoveTx
  <1>6. s.pool \in Pools /\ s.weight \in Nat /\ s.listed \subseteq Txs
    BY StateIs
  <1>7. /\ Without(s.pool, t) \in Pools /\ DOMAIN Without(s.pool, t) = DOMAIN s.pool \ {t}
        /\ \A u \in DOMAIN s.pool \ {t} : Without(s.pool, t)[u] = s.pool[u]
    BY <1>6, WithoutIs
  <1>8. /\ a \in States /\ Same(s, a) /\ a.pool = Without(s.pool, t) /\ a.images = s.images
        /\ a.listed = s.listed /\ a.weight = s.weight /\ a.verdicts = s.verdicts /\ a.broken = s.broken
    BY SMTT(30), <1>1, <1>7, PoolPut
  <1>9. /\ b \in States /\ Same(a, b) /\ b.pool = a.pool /\ b.images = a.images /\ b.listed = a.listed
        /\ b.verdicts = a.verdicts
        /\ a.weight > 0 => b.weight = a.weight - 1 /\ b.broken = a.broken
    BY <1>2, <1>8, ReduceIs
  <1>10. /\ c \in States /\ Same(b, c) /\ c.pool = b.pool /\ c.listed = b.listed
         /\ c.weight = b.weight /\ c.verdicts = b.verdicts
         /\ (\A k \in Range(Spends[t]) : t \in b.images[k]) =>
              /\ c.broken = b.broken
              /\ \A k \in KeyImages : c.images[k] = IF k \in Range(Spends[t]) THEN b.images[k] \ {t} ELSE b.images[k]
    <2>1. Removed(b, t, c)
      BY <1>3, <1>9, RemoveIs
    <2> QED BY <2>1 DEF Removed
  <1>11. c.listed \ {t} \in SUBSET Txs
    BY <1>6, <1>8, <1>9, <1>10
  <1>12. /\ d \in States /\ Same(c, d) /\ d.pool = c.pool /\ d.images = c.images /\ d.listed = c.listed \ {t}
         /\ d.weight = c.weight /\ d.verdicts = c.verdicts /\ d.broken = c.broken
    BY SMTT(30), <1>4, <1>10, <1>11, ListedPut
  <1>13. /\ r \in States /\ Same(d, r) /\ r.template = NoTemplate /\ r.pool = d.pool /\ r.images = d.images
         /\ r.listed = d.listed /\ r.weight = d.weight /\ r.verdicts = d.verdicts /\ r.broken = d.broken
    BY <1>5, <1>12, BumpIs
  <1>14. Same(s, r) /\ r.verdicts = s.verdicts /\ r.pool = Without(s.pool, t)
    BY <1>8, <1>9, <1>10, <1>12, <1>13 DEF Same
  <1>15. ASSUME t \in DOMAIN s.pool, Indexed(s) PROVE Indexed(r)
    <2>1. /\ s.broken = FALSE /\ s.listed = DOMAIN s.pool /\ Loose(s.pool)
          /\ \A k \in KeyImages : s.images[k] = Spenders(s.pool, k)
          /\ Cardinality(DOMAIN s.pool) <= s.weight
      BY <1>15 DEF Indexed, Indexes
    <2>2. IsFiniteSet(DOMAIN s.pool)
      BY <1>6, PoolIs
    <2>3. /\ Cardinality(DOMAIN s.pool) \in Nat
          /\ Cardinality(DOMAIN s.pool \ {t}) = Cardinality(DOMAIN s.pool) - 1
          /\ Cardinality(DOMAIN s.pool \ {t}) \in Nat
      <3>1. Cardinality(DOMAIN s.pool \ {t}) = Cardinality(DOMAIN s.pool) - 1 /\ IsFiniteSet(DOMAIN s.pool \ {t})
        BY <1>15, <2>2, FS_RemoveElement
      <3> QED BY <2>2, <3>1, FS_CardinalityType
    <2>4. s.weight > 0 /\ Cardinality(DOMAIN s.pool \ {t}) <= s.weight - 1
      BY SMTT(30), <1>6, <2>1, <2>3
    <2>5. b.weight = s.weight - 1 /\ b.broken = FALSE
      BY <1>8, <1>9, <2>1, <2>4
    <2>6. \A k \in Range(Spends[t]) : t \in b.images[k]
      <3>1. Range(Spends[t]) \subseteq KeyImages
        BY SpendsIs
      <3> QED BY <1>8, <1>9, <1>15, <2>1, <3>1 DEF Spenders
    <2>7. r.broken = FALSE /\ r.weight = s.weight - 1 /\ r.listed = DOMAIN s.pool \ {t}
      BY <1>8, <1>9, <1>10, <1>12, <1>13, <2>1, <2>5, <2>6
    <2>8. ASSUME NEW k \in KeyImages PROVE r.images[k] = Spenders(r.pool, k)
      <3>1. r.images[k] = IF k \in Range(Spends[t]) THEN s.images[k] \ {t} ELSE s.images[k]
        BY <1>8, <1>9, <1>10, <1>12, <1>13, <2>6
      <3>2. s.images[k] = {u \in DOMAIN s.pool : k \in Range(Spends[u])}
        BY <2>1 DEF Spenders
      <3>3. Spenders(r.pool, k) = {u \in DOMAIN s.pool \ {t} : k \in Range(Spends[u])}
        BY <1>7, <1>14 DEF Spenders
      <3> QED BY <3>1, <3>2, <3>3
    <2>9. Loose(r.pool)
      BY SMTT(30), <1>7, <1>14, <2>1 DEF Loose
    <2>10. Cardinality(DOMAIN r.pool) <= r.weight /\ r.listed = DOMAIN r.pool
      BY <1>7, <1>14, <2>4, <2>7
    <2> QED BY <2>7, <2>8, <2>9, <2>10 DEF Indexed, Indexes
  <1> QED BY <1>13, <1>14, <1>15

(* What prune may make of s: kept_by_block transactions stay. *)
Pruned(s, x) ==
  /\ x \in States /\ Same(s, x) /\ x.verdicts = s.verdicts
  /\ \A u \in DOMAIN x.pool : u \in DOMAIN s.pool /\ x.pool[u] = s.pool[u]
  /\ \A u \in DOMAIN s.pool : s.pool[u].relay = "block" => u \in DOMAIN x.pool
  /\ x.template = NoTemplate \/ x = s
  /\ Indexed(s) => Indexed(x)

LEMMA PruneOneIs ==
  ASSUME NEW s \in States, NEW x, Pruned(s, x), NEW t \in Txs
  PROVE  Pruned(s, PruneOne(x, t))
  <1>1. CASE x.weight > MAX_WEIGHT /\ InPool(x, t) /\ ~ Kept(x, t)
    <2>1. PICK r : r = RemoveTx(x, t)
      OBVIOUS
    <2>2. PruneOne(x, t) = r
      BY <1>1, <2>1 DEF PruneOne
    <2>3. /\ r \in States /\ Same(x, r) /\ r.verdicts = x.verdicts /\ r.template = NoTemplate
          /\ r.pool = Without(x.pool, t) /\ (Indexed(x) => Indexed(r))
      BY <1>1, <2>1, RemoveTxIs DEF Pruned, InPool
    <2>4. x.pool \in Pools
      BY StateIs DEF Pruned
    <2>5. /\ DOMAIN r.pool = DOMAIN x.pool \ {t}
          /\ \A u \in DOMAIN x.pool \ {t} : r.pool[u] = x.pool[u]
      <3>1. PICK q : q = Without(x.pool, t)
        OBVIOUS
      <3>2. DOMAIN q = DOMAIN x.pool \ {t} /\ \A u \in DOMAIN x.pool \ {t} : q[u] = x.pool[u]
        BY <2>4, <3>1, WithoutIs
      <3>3. r.pool = q
        BY <2>3, <3>1
      <3> QED BY <3>2, <3>3
    <2>6. ASSUME NEW u \in DOMAIN s.pool, s.pool[u].relay = "block" PROVE u \in DOMAIN r.pool
      <3>1. u \in DOMAIN x.pool /\ x.pool[u] = s.pool[u]
        BY <2>6 DEF Pruned
      <3>2. u # t
        BY <1>1, <2>6, <3>1 DEF Kept
      <3> QED BY <2>5, <3>1, <3>2
    <2>7. Same(s, r) /\ r.verdicts = s.verdicts
      BY <2>3 DEF Pruned, Same
    <2>8. \A u \in DOMAIN r.pool : u \in DOMAIN s.pool /\ r.pool[u] = s.pool[u]
      BY <2>5 DEF Pruned
    <2>9. Indexed(s) => Indexed(r)
      BY <2>3 DEF Pruned
    <2> QED BY <2>2, <2>3, <2>6, <2>7, <2>8, <2>9 DEF Pruned
  <1>2. CASE ~(x.weight > MAX_WEIGHT /\ InPool(x, t) /\ ~ Kept(x, t))
    BY <1>2 DEF PruneOne
  <1> QED BY <1>1, <1>2

(* The loop of prune. *)
Prunes(s, T) ==
  \A i \in 1 .. Len(FeeOrder) : \A x \in T[i - 1] : (IF FeeOrder[Len(FeeOrder) + 1 - i] \in Prunable(s.listed) THEN PruneOne(x, FeeOrder[Len(FeeOrder) + 1 - i]) ELSE x) \in T[i]

LEMMA PruneFold ==
  ASSUME NEW s, NEW T, s \in T[0], Prunes(s, T)
  PROVE  prune(s) \in T[Len(FeeOrder)]
  <1> DEFINE n == Len(FeeOrder)
             round(i, x) == (IF FeeOrder[Len(FeeOrder) + 1 - i] \in Prunable(s.listed) THEN PruneOne(x, FeeOrder[Len(FeeOrder) + 1 - i]) ELSE x)
             g == [i \in 1 .. n |-> [x \in T[i - 1] |-> round(i, x)]]
             body(f) == [i \in 0 .. n |-> IF i = 0 THEN s ELSE round(i, f[i - 1])]
             up == CHOOSE f : f = body(f)
  <1>1. n \in Nat /\ n \in 0 .. n /\ 0 \in 0 .. n
    BY SMTT(30), TxAssumption
  <1>2. \A i \in 1 .. n : \A x \in T[i - 1] : g[i][x] = round(i, x) /\ round(i, x) \in T[i]
    BY DEF Prunes
  <1>3. PICK f : IsFold(f, s, g, T, n)
    <2> HIDE DEF g, n, round
    <2>1. \A i \in 1 .. n : \A x \in T[i - 1] : g[i][x] \in T[i]
      BY <1>2
    <2> QED BY <1>1, <2>1, FoldExists
  <1>4. f = body(f)
    <2> HIDE DEF g, n, round
    <2>1. \A i \in 0 .. n : i = 0 \/ (i \in 1 .. n /\ i - 1 \in 0 .. n)
      BY SMTT(30), <1>1
    <2> QED BY <1>1, <1>2, <1>3, <2>1 DEF IsFold
  <1>5. up = body(up)
    <2> HIDE DEF body
    <2> QED BY <1>4
  <1>6. prune(s) = up[n]
    BY DEF prune
  <1> HIDE DEF up
  <1>7. \A i \in 0 .. n : up[i] = IF i = 0 THEN s ELSE round(i, up[i - 1])
    <2> HIDE DEF n, round
    <2> QED BY <1>5
  <1>8. \A i \in 0 .. n : up[i] \in T[i]
    <2> HIDE DEF g, n, round
    <2>1. \A i \in 1 .. n : i \in 0 .. n /\ i # 0
      BY SMTT(30), <1>1
    <2>2. \A i \in 1 .. n : up[i - 1] \in T[i - 1] => up[i] \in T[i]
      BY <1>2, <1>7, <2>1
    <2>3. up[0] \in T[0]
      BY <1>1, <1>7
    <2> QED BY <1>1, <2>2, <2>3, InEach
  <1> QED BY <1>1, <1>6, <1>8

LEMMA PruneIs ==
  ASSUME NEW s \in States
  PROVE  Pruned(s, prune(s))
  <1> DEFINE n == Len(FeeOrder)
             S == {x \in States : Pruned(s, x)}
             T == [i \in 0 .. n |-> S]
  <1>1. n \in Nat /\ n \in 0 .. n /\ 0 \in 0 .. n /\ \A i \in 1 .. n : i \in 0 .. n /\ i - 1 \in 0 .. n
    BY SMTT(30), TxAssumption
  <1>2. s \in S
    BY DEF Pruned, Same
  <1>3. ASSUME NEW t \in Txs, NEW x \in S PROVE PruneOne(x, t) \in S
    <2>1. Pruned(s, PruneOne(x, t))
      BY PruneOneIs
    <2> QED BY <2>1 DEF Pruned
  <1>4. \A i \in 1 .. n : FeeOrder[Len(FeeOrder) + 1 - i] \in Txs
    BY SMTT(30), TxAssumption
  <1>5. s \in T[0] /\ T[n] = S /\ \A i \in 1 .. n : T[i - 1] = S /\ T[i] = S
    <2> HIDE DEF S, n
    <2> QED BY <1>1, <1>2
  <1>6. Prunes(s, T)
    <2> HIDE DEF S, T
    <2> QED BY <1>3, <1>4, <1>5 DEF Prunes
  <1>7. prune(s) \in T[n]
    <2> HIDE DEF S, T
    <2> QED BY <1>5, <1>6, PruneFold
  <1> QED BY <1>5, <1>7

(* Added: the weight is counted, and the pool pruned. *)
LEMMA AddedIs ==
  ASSUME NEW s \in States, NEW r, r = Added(s)
  PROVE  /\ r.ok = TRUE /\ r.s \in States /\ Same(s, r.s) /\ r.s.verdicts = s.verdicts
         /\ r.s.template = NoTemplate
         /\ \A u \in DOMAIN r.s.pool : u \in DOMAIN s.pool /\ r.s.pool[u] = s.pool[u]
         /\ \A u \in DOMAIN s.pool : s.pool[u].relay = "block" => u \in DOMAIN r.s.pool
         /\ Indexes(s) /\ Cardinality(DOMAIN s.pool) <= s.weight + 1 => Indexed(r.s)
  <1>1. PICK a : a = [s EXCEPT !.weight = s.weight + 1]
    OBVIOUS
  <1>2. PICK b : b = Bump(a)
    OBVIOUS
  <1>3. r = [ok |-> TRUE, s |-> prune(b)]
    BY <1>1, <1>2 DEF Added
  <1>4. s.weight \in Nat /\ s.weight + 1 \in Nat
    BY SMTT(30), StateIs
  <1>5. /\ a \in States /\ Same(s, a) /\ a.pool = s.pool /\ a.images = s.images /\ a.listed = s.listed
        /\ a.weight = s.weight + 1 /\ a.verdicts = s.verdicts /\ a.broken = s.broken
    BY SMTT(30), <1>1, <1>4, WeightPut
  <1>6. /\ b \in States /\ Same(a, b) /\ b.template = NoTemplate /\ b.pool = a.pool /\ b.images = a.images
        /\ b.listed = a.listed /\ b.weight = a.weight /\ b.verdicts = a.verdicts /\ b.broken = a.broken
    BY <1>2, <1>5, BumpIs
  <1>7. PICK x : x = prune(b)
    OBVIOUS
  <1>8. Pruned(b, x)
    BY <1>6, <1>7, PruneIs
  <1>9. r.ok = TRUE /\ r.s = x
    BY SMTT(30), <1>3, <1>7
  <1>10. Same(s, x) /\ x.verdicts = s.verdicts /\ x.template = NoTemplate /\ x \in States
    BY <1>5, <1>6, <1>8 DEF Pruned, Same
  <1>11. /\ \A u \in DOMAIN x.pool : u \in DOMAIN s.pool /\ x.pool[u] = s.pool[u]
         /\ \A u \in DOMAIN s.pool : s.pool[u].relay = "block" => u \in DOMAIN x.pool
    BY <1>5, <1>6, <1>8 DEF Pruned
  <1>12. Indexes(s) /\ Cardinality(DOMAIN s.pool) <= s.weight + 1 => Indexed(b)
    BY <1>5, <1>6 DEF Indexed, Indexes
  <1>13. Indexes(s) /\ Cardinality(DOMAIN s.pool) <= s.weight + 1 => Indexed(x)
    BY <1>8, <1>12 DEF Pruned
  <1> QED BY <1>9, <1>10, <1>11, <1>13

LEMMA AddedIndexed ==
  ASSUME NEW s \in States, Indexed(s), NEW r, r = Added(s)
  PROVE  Indexed(r.s)
  <1>1. s.weight \in Nat /\ IsFiniteSet(DOMAIN s.pool)
    BY StateIs, PoolIs
  <1>2. Cardinality(DOMAIN s.pool) \in Nat /\ Cardinality(DOMAIN s.pool) <= s.weight
    BY <1>1, FS_CardinalityType DEF Indexed
  <1>3. Cardinality(DOMAIN s.pool) <= s.weight + 1
    BY SMTT(30), <1>1, <1>2
  <1> QED BY <1>3, AddedIs DEF Indexed

LEMMA MetaType ==
  ASSUME NEW relay \in Relays
  PROVE  Meta(relay) \in Metas /\ Meta(relay).relay = relay /\ Meta(relay).failed = NoBlock
  BY DEF Meta, Metas

LEMMA StoreIs ==
  ASSUME NEW s \in States, NEW t \in Txs, NEW relay \in Relays, NEW r, r = Store(s, t, relay)
  PROVE  /\ r \in States /\ Same(s, r) /\ r.template = s.template
         /\ r.pool = With(s.pool, t, Meta(relay)) /\ r.images = s.images /\ r.listed = s.listed \cup {t}
         /\ r.weight = s.weight /\ r.verdicts = s.verdicts /\ r.broken = s.broken
  <1>1. With(s.pool, t, Meta(relay)) \in Pools
    BY StateIs, MetaType, WithIs
  <1>2. s.listed \cup {t} \in SUBSET Txs
    BY StateIs
  <1>3. PICK p : p = With(s.pool, t, Meta(relay))
    OBVIOUS
  <1>4. r = [s EXCEPT !.pool = p, !.listed = s.listed \cup {t}]
    BY <1>3 DEF Store
  <1> QED BY <1>1, <1>2, <1>3, <1>4 DEF States, Same

(* What add_tx may make of s; the last part is about a pool whose indexes  *)
(* are right.                                                              *)
AddsTx(s, t, relay, r) ==
  /\ r.ok \in BOOLEAN /\ r.s \in States /\ Same(s, r.s)
  /\ \A u \in DOMAIN r.s.pool :
       \/ u \in DOMAIN s.pool /\ r.s.pool[u] = s.pool[u]
       \/ u = t /\ r.s.pool[u].failed = NoBlock
  /\ \A u \in DOMAIN s.pool :
       s.pool[u].relay = "block" => u \in DOMAIN r.s.pool /\ r.s.pool[u].relay = "block"
  /\ r.s.template = NoTemplate \/ (r.s.template = s.template /\ r.s.pool = s.pool)
  /\ t \notin DOMAIN s.pool => /\ t \in DOMAIN r.s.pool => r.s.pool[t].relay = relay
                               /\ relay = "block" => t \in DOMAIN r.s.pool
  /\ ~ Legacy(s, t) /\ Indexed(s) => Indexed(r.s)

(* The key images go in, then the transaction is stored.  When the indexes *)
(* are right and every key image may be inserted, they stay right.         *)
LEMMA StoreNewIs ==
  ASSUME NEW s \in States, NEW t \in Txs, NEW relay \in Relays, NEW refused \in BOOLEAN,
         refused => t \in DOMAIN s.pool,
         t \in DOMAIN s.pool /\ s.pool[t].relay = "block" => relay = "block",
         ~ Legacy(s, t) /\ Indexed(s) => \A k \in Range(Spends[t]) : Insertable(s, t, relay, k),
         NEW r, r = StoreNew(insert_key_images(s, t, relay), t, relay, refused)
  PROVE  AddsTx(s, t, relay, r) /\ r.s.verdicts = s.verdicts
  <1>1. PICK a : a = insert_key_images(s, t, relay)
    OBVIOUS
  <1>2. /\ a.s \in States /\ Same(s, a.s) /\ a.s.pool = s.pool /\ a.s.listed = s.listed
        /\ a.s.weight = s.weight /\ a.s.verdicts = s.verdicts
        /\ a.ok \in BOOLEAN /\ (a.ok <=> \A k \in Range(Spends[t]) : Insertable(s, t, relay, k))
        /\ a.ok => /\ a.s.broken = s.broken /\ a.s.template = NoTemplate
                   /\ \A k \in KeyImages : a.s.images[k] = IF k \in Range(Spends[t]) THEN s.images[k] \cup {t} ELSE s.images[k]
        /\ ~ a.ok => a.s.broken = TRUE /\ a.s.template = s.template
    <2>1. Inserted(s, t, relay, a)
      BY <1>1, InsertIs
    <2> QED BY <2>1 DEF Inserted
  <1>3. ASSUME t \notin DOMAIN s.pool, relay = "block" PROVE a.ok
    <2>1. ~ Legacy(s, t)
      BY <1>3 DEF Legacy, InPool
    <2>2. \A k : Insertable(s, t, relay, k)
      BY <1>3, <2>1 DEF Insertable
    <2> QED BY <1>2, <2>2
  <1>4. s.pool \in Pools /\ s.listed \subseteq Txs /\ s.weight \in Nat
    BY StateIs
  <1>5. CASE ~ a.ok
    <2>1. r.ok = FALSE /\ r.s = a.s
      BY <1>1, <1>5 DEF StoreNew, Refused
    <2>2. ~(~ Legacy(s, t) /\ Indexed(s))
      BY <1>2, <1>5
    <2>3. AddsTx(s, t, relay, r)
      BY <1>2, <1>3, <1>5, <2>1, <2>2 DEF AddsTx
    <2> QED BY <1>2, <2>1, <2>3
  <1>6. CASE a.ok /\ refused
    <2>1. r.ok = FALSE /\ r.s = a.s
      BY <1>1, <1>6 DEF StoreNew, Refused
    <2>2. ASSUME Indexed(s) PROVE Indexed(a.s)
      <3>1. ASSUME NEW k \in KeyImages PROVE a.s.images[k] = Spenders(a.s.pool, k)
        <4>1. s.images[k] = Spenders(s.pool, k)
          BY <2>2 DEF Indexed, Indexes
        <4>2. k \in Range(Spends[t]) => t \in Spenders(s.pool, k)
          BY <1>6 DEF Spenders
        <4> QED BY <1>2, <1>6, <4>1, <4>2
      <3> QED BY <1>2, <1>6, <2>2, <3>1 DEF Indexed, Indexes
    <2>3. AddsTx(s, t, relay, r)
      BY <1>2, <1>3, <1>6, <2>1, <2>2 DEF AddsTx
    <2> QED BY <1>2, <2>1, <2>3
  <1>7. CASE a.ok /\ ~ refused
    <2>1. PICK b : b = Store(a.s, t, relay)
      OBVIOUS
    <2>2. r = Added(b)
      BY <1>1, <1>7, <2>1 DEF StoreNew
    <2>3. /\ b \in States /\ Same(a.s, b) /\ b.template = a.s.template
          /\ b.pool = With(a.s.pool, t, Meta(relay)) /\ b.images = a.s.images /\ b.listed = a.s.listed \cup {t}
          /\ b.weight = a.s.weight /\ b.verdicts = a.s.verdicts /\ b.broken = a.s.broken
      BY SMTT(30), <1>2, <2>1, StoreIs
    <2>4. Meta(relay) \in Metas /\ Meta(relay).relay = relay /\ Meta(relay).failed = NoBlock
      BY MetaType
    <2>5. /\ DOMAIN b.pool = DOMAIN s.pool \cup {t} /\ b.pool[t] = Meta(relay)
          /\ \A u \in DOMAIN s.pool : u # t => b.pool[u] = s.pool[u]
      BY SMTT(30), <1>2, <1>4, <2>3, <2>4, WithIs
    <2>6. /\ r.ok = TRUE /\ r.s \in States /\ Same(b, r.s) /\ r.s.verdicts = b.verdicts
          /\ r.s.template = NoTemplate
          /\ \A u \in DOMAIN r.s.pool : u \in DOMAIN b.pool /\ r.s.pool[u] = b.pool[u]
          /\ \A u \in DOMAIN b.pool : b.pool[u].relay = "block" => u \in DOMAIN r.s.pool
          /\ Indexes(b) /\ Cardinality(DOMAIN b.pool) <= b.weight + 1 => Indexed(r.s)
      BY <2>2, <2>3, AddedIs
    <2>7. Same(s, r.s) /\ r.s.verdicts = s.verdicts
      BY <1>2, <2>3, <2>6 DEF Same
    <2>8. \A u \in DOMAIN r.s.pool : \/ u \in DOMAIN s.pool /\ r.s.pool[u] = s.pool[u]
                                     \/ u = t /\ r.s.pool[u].failed = NoBlock
      BY SMTT(30), <2>4, <2>5, <2>6
    <2>9. ASSUME NEW u \in DOMAIN s.pool, s.pool[u].relay = "block"
          PROVE  u \in DOMAIN r.s.pool /\ r.s.pool[u].relay = "block"
      <3>1. b.pool[u].relay = "block" /\ u \in DOMAIN b.pool
        BY <2>4, <2>5, <2>9
      <3> QED BY <2>6, <3>1
    <2>10. /\ t \in DOMAIN r.s.pool => r.s.pool[t].relay = relay
           /\ relay = "block" => t \in DOMAIN r.s.pool
      BY <2>4, <2>5, <2>6
    <2>11. ASSUME ~ Legacy(s, t), Indexed(s) PROVE Indexed(r.s)
      <3>1. /\ s.broken = FALSE /\ s.listed = DOMAIN s.pool /\ Loose(s.pool)
            /\ \A k \in KeyImages : s.images[k] = Spenders(s.pool, k)
            /\ Cardinality(DOMAIN s.pool) <= s.weight
        BY <2>11 DEF Indexed, Indexes
      <3>2. b.broken = FALSE /\ b.listed = DOMAIN b.pool /\ b.weight = s.weight
        BY <1>2, <1>7, <2>3, <2>5, <3>1
      <3>3. ASSUME NEW k \in KeyImages PROVE b.images[k] = Spenders(b.pool, k)
        <4>1. b.images[k] = IF k \in Range(Spends[t]) THEN s.images[k] \cup {t} ELSE s.images[k]
          BY <1>2, <1>7, <2>3
        <4>2. s.images[k] = {u \in DOMAIN s.pool : k \in Range(Spends[u])}
          BY <3>1 DEF Spenders
        <4>3. Spenders(b.pool, k) = {u \in DOMAIN s.pool \cup {t} : k \in Range(Spends[u])}
          BY <2>5 DEF Spenders
        <4> QED BY <4>1, <4>2, <4>3
      <3>4. relay # "block" => \A u \in DOMAIN s.pool : u # t => Range(Spends[t]) \cap Range(Spends[u]) = {}
        <4>1. ASSUME relay # "block", NEW u \in DOMAIN s.pool, u # t, NEW k \in Range(Spends[t]), k \in Range(Spends[u])
              PROVE  FALSE
          <5>1. s.images[k] \subseteq {t}
            BY <2>11, <4>1 DEF Insertable
          <5>2. u \in s.images[k]
            BY <3>1, <4>1, SpendsIs DEF Spenders
          <5> QED BY <4>1, <5>1, <5>2
        <4> QED BY <4>1
      <3>5. Loose(b.pool)
        <4> SUFFICES ASSUME NEW x \in DOMAIN b.pool, NEW y \in DOMAIN b.pool, x # y,
                            Range(Spends[x]) \cap Range(Spends[y]) # {}
                     PROVE  b.pool[x].relay = "block" \/ b.pool[y].relay = "block"
          BY DEF Loose
        <4>1. CASE x = t \/ y = t
          BY <2>4, <2>5, <3>4, <4>1
        <4>2. CASE x # t /\ y # t
          BY <2>5, <3>1, <4>2 DEF Loose
        <4> QED BY <4>1, <4>2
      <3>6. Cardinality(DOMAIN b.pool) <= b.weight + 1
        <4>1. IsFiniteSet(DOMAIN s.pool)
          BY <1>4, PoolIs
        <4>2. Cardinality(DOMAIN s.pool) \in Nat
          BY <4>1, FS_CardinalityType
        <4>3. Cardinality(DOMAIN s.pool \cup {t}) = IF t \in DOMAIN s.pool THEN Cardinality(DOMAIN s.pool)
                                                   ELSE Cardinality(DOMAIN s.pool) + 1
          BY <4>1, FS_AddElement
        <4>4. PICK c : c = Cardinality(DOMAIN s.pool) /\ c \in Nat /\ c <= s.weight
          BY <3>1, <4>2
        <4>5. Cardinality(DOMAIN b.pool) = c \/ Cardinality(DOMAIN b.pool) = c + 1
          BY <2>5, <4>3, <4>4
        <4> QED BY SMTT(30), <1>4, <3>2, <4>4, <4>5
      <3>7. Indexes(b)
        BY <3>2, <3>3, <3>5 DEF Indexes
      <3> QED BY <2>6, <3>6, <3>7
    <2>12. AddsTx(s, t, relay, r)
      BY <2>6, <2>7, <2>8, <2>9, <2>10, <2>11 DEF AddsTx
    <2> QED BY <2>7, <2>12
  <1> QED BY <1>2, <1>5, <1>6, <1>7

(* A state whose indexes are right takes an addition that stores nothing. *)
LEMMA AddedAdds ==
  ASSUME NEW s \in States, NEW t \in DOMAIN s.pool, NEW relay, NEW r, r = Added(s)
  PROVE  AddsTx(s, t, relay, r) /\ r.s.verdicts = s.verdicts
  <1>1. /\ r.ok = TRUE /\ r.s \in States /\ Same(s, r.s) /\ r.s.verdicts = s.verdicts
        /\ r.s.template = NoTemplate
        /\ \A u \in DOMAIN r.s.pool : u \in DOMAIN s.pool /\ r.s.pool[u] = s.pool[u]
        /\ \A u \in DOMAIN s.pool : s.pool[u].relay = "block" => u \in DOMAIN r.s.pool
    BY AddedIs
  <1>2. Indexed(s) => Indexed(r.s)
    BY AddedIndexed
  <1> QED BY <1>1, <1>2 DEF AddsTx

LEMMA UpgradeIs ==
  ASSUME NEW s \in States, NEW t \in Txs, NEW relay \in Relays,
         ~ Legacy(s, t) /\ Indexed(s) => \A k \in Range(Spends[t]) : Insertable(s, t, relay, k),
         NEW r, r = Upgrade(s, t, relay)
  PROVE  AddsTx(s, t, relay, r) /\ r.s.verdicts = s.verdicts
  <1>1. CASE InPool(s, t) /\ Rank[s.pool[t].relay] >= Rank[relay]
    <2>1. r = Added(s) /\ t \in DOMAIN s.pool
      BY <1>1 DEF Upgrade, InPool
    <2> QED BY <2>1, AddedAdds
  <1>2. CASE ~(InPool(s, t) /\ Rank[s.pool[t].relay] >= Rank[relay])
    <2>1. r = StoreNew(insert_key_images(s, t, relay), t, relay, FALSE)
      BY <1>2 DEF Upgrade
    <2>2. \A x \in Relays : Rank["block"] >= Rank[x]
      BY SMTT(30), RankIs DEF Relays
    <2>3. ~(t \in DOMAIN s.pool /\ s.pool[t].relay = "block")
      BY <1>2, <2>2 DEF InPool
    <2>4. PICK refused : refused = FALSE
      OBVIOUS
    <2>5. refused \in BOOLEAN /\ (refused => t \in DOMAIN s.pool)
      BY <2>4
    <2>6. r = StoreNew(insert_key_images(s, t, relay), t, relay, refused)
      BY <2>1, <2>4
    <2> QED BY SMTT(30), <2>3, <2>5, <2>6, StoreNewIs
  <1> QED BY <1>1, <1>2

LEMMA CachePut ==
  ASSUME NEW s \in States, NEW v \in Caches, NEW r, r = [s EXCEPT !.verdicts = v]
  PROVE  /\ r \in States /\ Same(s, r) /\ r.template = s.template
         /\ r.pool = s.pool /\ r.images = s.images /\ r.listed = s.listed
         /\ r.weight = s.weight /\ r.verdicts = v /\ r.broken = s.broken
  BY DEF States, Same

LEMMA VerdictType ==
  ASSUME NEW s \in States, NEW t \in Txs
  PROVE  Verdict(s, t) \in BOOLEAN
  <1>1. s.verdicts \in Caches
    BY StateIs
  <1>2. PICK D \in SUBSET Txs : s.verdicts \in [D -> BOOLEAN]
    BY <1>1 DEF Caches
  <1> QED BY <1>2 DEF Verdict, check_tx_inputs

LEMMA JudgedIs ==
  ASSUME NEW s \in States, NEW t \in Txs, NEW r, r = Judged(s, t)
  PROVE  /\ r \in States /\ Same(s, r) /\ r.template = s.template
         /\ r.pool = s.pool /\ r.images = s.images /\ r.listed = s.listed
         /\ r.weight = s.weight /\ r.broken = s.broken
         /\ r.verdicts = With(s.verdicts, t, Verdict(s, t))
  <1>1. s.verdicts \in Caches
    BY StateIs
  <1>2. PICK D \in SUBSET Txs : s.verdicts \in [D -> BOOLEAN]
    BY <1>1 DEF Caches
  <1>3. Verdict(s, t) \in BOOLEAN
    BY VerdictType
  <1>4. PICK v : v = With(s.verdicts, t, Verdict(s, t))
    OBVIOUS
  <1>5. v \in [D \cup {t} -> BOOLEAN] /\ D \cup {t} \in SUBSET Txs
    BY <1>2, <1>3, <1>4 DEF With
  <1>6. v \in Caches
    BY <1>5 DEF Caches
  <1>7. r = [s EXCEPT !.verdicts = v]
    BY <1>4 DEF Judged
  <1> QED BY SMTT(30), <1>4, <1>6, <1>7, CachePut

(* A state that differs only in what the cache holds. *)
LEMMA AddsFrom ==
  ASSUME NEW s \in States, NEW s1 \in States, Same(s, s1), s1.template = s.template, s1.pool = s.pool,
         s1.images = s.images, s1.listed = s.listed, s1.weight = s.weight, s1.broken = s.broken,
         NEW t, NEW relay, NEW r, AddsTx(s1, t, relay, r)
  PROVE  AddsTx(s, t, relay, r)
  <1>1. Indexed(s) => Indexed(s1)
    BY DEF Indexed, Indexes
  <1>2. ~ Legacy(s, t) => ~ Legacy(s1, t)
    BY DEF Legacy, InPool
  <1>3. Same(s1, r.s) => Same(s, r.s)
    BY DEF Same
  <1> QED BY <1>1, <1>2, <1>3 DEF AddsTx

(* What add_tx does when the tip's cache is filled or not. *)
Caching(s, t, relay, r) ==
  IF relay = "block" THEN r.s.verdicts = s.verdicts
  ELSE r.s.verdicts = s.verdicts \/ r.s.verdicts = With(s.verdicts, t, Verdict(s, t))

(* tx_memory_pool::add_tx *)
LEMMA AddTxIs ==
  ASSUME NEW s \in States, NEW t \in Txs, NEW relay \in Relays, NEW r, r = add_tx(s, t, relay)
  PROVE  AddsTx(s, t, relay, r) /\ Caching(s, t, relay, r)
  <1>1. ~ Legacy(s, t) => \A k : Insertable(s, t, "block", k)
    BY DEF Insertable
  <1>2. CASE relay = "block" /\ check_tx_inputs(s.main, t)
    <2>1. r = Upgrade(s, t, "block")
      BY <1>2 DEF add_tx, AddChecked
    <2>2. AddsTx(s, t, "block", r) /\ r.s.verdicts = s.verdicts
      BY SMTT(30), <1>1, <1>2, <2>1, UpgradeIs
    <2> QED BY <1>2, <2>2 DEF Caching
  <1>3. CASE relay = "block" /\ ~ check_tx_inputs(s.main, t)
    <2>1. PICK refused : refused = InPool(s, t)
      OBVIOUS
    <2>2. refused \in BOOLEAN /\ (refused => t \in DOMAIN s.pool)
      <3>1. InPool(s, t) \in BOOLEAN
        BY SMTT(30) DEF InPool
      <3>2. refused => InPool(s, t)
        BY <2>1
      <3> QED BY <2>1, <3>1, <3>2 DEF InPool
    <2>3. r = StoreNew(insert_key_images(s, t, relay), t, relay, refused)
      BY <1>3, <2>1 DEF add_tx, AddKept
    <2>4. ~ Legacy(s, t) => \A k : Insertable(s, t, relay, k)
      BY <1>1, <1>3
    <2>5. AddsTx(s, t, relay, r) /\ r.s.verdicts = s.verdicts
      BY SMTT(30), <1>3, <2>2, <2>3, <2>4, StoreNewIs
    <2> QED BY <1>3, <2>5 DEF Caching
  <1>4. CASE relay # "block" /\ (t \in s.timedOut \/ SpentInPool(s, t))
    <2>1. r.ok = FALSE /\ r.s = s
      BY <1>4 DEF add_tx, Refused
    <2>2. Same(s, s)
      BY DEF Same
    <2> QED BY <1>4, <2>1, <2>2 DEF AddsTx, Caching
  <1>5. CASE relay # "block" /\ ~(t \in s.timedOut \/ SpentInPool(s, t))
    <2>1. PICK s1 : s1 = Judged(s, t)
      OBVIOUS
    <2>2. /\ s1 \in States /\ Same(s, s1) /\ s1.template = s.template
          /\ s1.pool = s.pool /\ s1.images = s.images /\ s1.listed = s.listed
          /\ s1.weight = s.weight /\ s1.broken = s.broken
          /\ s1.verdicts = With(s.verdicts, t, Verdict(s, t))
      BY <2>1, JudgedIs
    <2>3. CASE ~ Verdict(s, t)
      <3>1. r.ok = FALSE /\ r.s = s1
        BY <1>5, <2>1, <2>3 DEF add_tx, Refused
      <3>2. Indexed(s) => Indexed(s1)
        BY <2>2 DEF Indexed, Indexes
      <3> QED BY <1>5, <2>2, <3>1, <3>2 DEF AddsTx, Caching
    <2>4. CASE Verdict(s, t)
      <3>1. r = AddChecked(s1, t, relay)
        BY <1>5, <2>1, <2>4 DEF add_tx
      <3>2. PICK now : now = IF relay = "stem" /\ InPool(s1, t) /\ s1.pool[t].relay = "stem" THEN "fluff" ELSE relay
        OBVIOUS
      <3>3. r = Upgrade(s1, t, now)
        BY <3>1, <3>2 DEF AddChecked
      <3>4. now \in Relays /\ now # "block" /\ (t \notin DOMAIN s1.pool => now = relay)
        BY <1>5, <3>2 DEF Relays, InPool
      <3>5. \A k \in Range(Spends[t]) : s.images[k] \subseteq {t}
        BY <1>5 DEF SpentInPool
      <3>6. ~ Legacy(s1, t) => \A k \in Range(Spends[t]) : Insertable(s1, t, now, k)
        BY <2>2, <3>5 DEF Insertable
      <3>7. AddsTx(s1, t, now, r) /\ r.s.verdicts = s1.verdicts
        BY <2>2, <3>3, <3>4, <3>6, UpgradeIs
      <3>8. AddsTx(s, t, now, r)
        BY <2>2, <3>7, AddsFrom
      <3>9. AddsTx(s, t, relay, r)
        BY <1>5, <2>2, <3>4, <3>8 DEF AddsTx
      <3> QED BY <1>5, <2>2, <3>7, <3>9 DEF Caching
    <2> QED BY <2>3, <2>4
  <1> QED BY <1>2, <1>3, <1>4, <1>5

-----------------------------------------------------------------------------
(* The chain. *)

(* A block that was right when it was connected. *)
BlockOK(b) ==
  /\ ~ Tree[b].badMiner /\ Storable(b)
  /\ \A t \in Range(TxsOf(b)) : t \notin Mined(ChainTo[Prev(b)]) /\ check_tx_inputs(ChainTo[Prev(b)], t)

GoodTip(b) == b \in Blocks /\ \A a \in Range(ChainTo[b]) : a = GENESIS \/ BlockOK(a)

(* What the database holds.  A mark of failure is right about the chain    *)
(* to the block it names.                                                  *)
Stored(s) ==
  /\ s \in States /\ GoodTip(Tip(s)) /\ s.main = ChainTo[Tip(s)]
  /\ DOMAIN s.pool \cap Mined(s.main) = {}
  /\ \A t \in DOMAIN s.pool :
       s.pool[t].failed # NoBlock => ~ check_tx_inputs(ChainTo[s.pool[t].failed], t)

(* What is remembered of it. *)
CacheRight(s) == \A t \in DOMAIN s.verdicts : s.verdicts[t] = check_tx_inputs(s.main, t)

TemplateRight(s) ==
  s.template.prev = Tip(s) =>
    /\ Range(s.template.txs) \subseteq DOMAIN s.pool
    /\ \A t \in Range(s.template.txs) : check_tx_inputs(s.main, t)
    /\ \A t, u \in Range(s.template.txs) : t # u => Range(Spends[t]) \cap Range(Spends[u]) = {}

Sound(s) == Stored(s) /\ CacheRight(s) /\ TemplateRight(s)

(* A step of the pool alone, and one of a batch. *)
Puts(s, r) ==
  /\ Stored(r) /\ Same(s, r) /\ r.verdicts = s.verdicts
  /\ r.template = NoTemplate \/ (r.template = s.template /\ DOMAIN s.pool \subseteq DOMAIN r.pool)
  /\ Indexed(s) => Indexed(r)

Goes(s, r) ==
  /\ Sound(r) /\ r.timedOut = s.timedOut
  /\ r.verdicts = s.verdicts \/ r.verdicts = EmptyMap
  /\ r.template = s.template \/ r.template = NoTemplate
  /\ Indexed(s) => Indexed(r)

(* A transaction that is not lost when a switch is rolled back. *)
Has(s, t) == t \in Mined(s.main) \/ (t \in DOMAIN s.pool /\ s.pool[t].relay = "block")

Keeps(s, r) == \A t \in Txs : Has(s, t) => Has(r, t)

LEMMA GoodGenesis == GoodTip(GENESIS) /\ Mined(ChainTo[GENESIS]) = {}
  <1>1. Range(<<GENESIS>>) = {GENESIS} /\ GENESIS \in Blocks
    BY SMTT(30), BlocksAssumption DEF Range
  <1>2. GoodTip(GENESIS)
    BY <1>1, ChainGenesis DEF GoodTip
  <1>3. DOMAIN <<GENESIS>> = {1} /\ <<GENESIS>>[1] = GENESIS
    BY SMTT(30)
  <1>4. TxsOf(GENESIS) = <<>> /\ Range(<<>>) = {}
    BY SMTT(30), BlocksAssumption DEF Range
  <1>5. Mined(<<GENESIS>>) = {}
    BY <1>3, <1>4 DEF Mined, TxsOf
  <1> QED BY <1>2, <1>5, ChainGenesis

LEMMA GoodStep ==
  ASSUME NEW b \in Blocks, b # GENESIS
  PROVE  GoodTip(b) <=> GoodTip(Prev(b)) /\ BlockOK(b)
  <1>1. Range(ChainTo[b]) = Range(ChainTo[Prev(b)]) \cup {b} /\ Prev(b) \in Blocks
    BY ChainRange, ChainStep
  <1> QED BY <1>1 DEF GoodTip

LEMMA GoodBelow ==
  ASSUME NEW b, GoodTip(b), NEW a \in Range(ChainTo[b])
  PROVE  GoodTip(a)
  <1>1. a \in Blocks /\ Range(ChainTo[a]) \subseteq Range(ChainTo[b])
    BY ChainBelow DEF GoodTip
  <1> QED BY <1>1 DEF GoodTip

LEMMA NoTemplateRight ==
  ASSUME NEW s, Stored(s), s.template = NoTemplate
  PROVE  TemplateRight(s)
  <1>1. Tip(s) \in Blocks /\ NoBlock \notin Blocks
    BY BlocksAssumption DEF Stored, GoodTip
  <1>2. NoTemplate.prev = NoBlock
    BY DEF NoTemplate
  <1> QED BY <1>1, <1>2 DEF TemplateRight

LEMMA PutsGoes ==
  ASSUME NEW s, Sound(s), NEW r, Puts(s, r)
  PROVE  Goes(s, r)
  <1>1. r.main = s.main /\ Tip(r) = Tip(s) /\ r.timedOut = s.timedOut
    BY DEF Puts, Same, Tip
  <1>2. CacheRight(r)
    BY <1>1 DEF Puts, Sound, CacheRight
  <1>3. TemplateRight(r)
    <2>1. CASE r.template = NoTemplate
      BY <2>1, NoTemplateRight DEF Puts
    <2>2. CASE r.template = s.template /\ DOMAIN s.pool \subseteq DOMAIN r.pool
      BY <1>1, <2>2 DEF Sound, TemplateRight
    <2> QED BY <2>1, <2>2 DEF Puts
  <1> QED BY <1>1, <1>2, <1>3 DEF Goes, Puts, Sound

LEMMA PutsSelf ==
  ASSUME NEW s, Stored(s)
  PROVE  Puts(s, s)
  BY DEF Puts, Same

LEMMA PutsThen ==
  ASSUME NEW s, NEW r, NEW q, Puts(s, r), Puts(r, q)
  PROVE  Puts(s, q)
  <1>1. Same(s, q)
    BY DEF Puts, Same
  <1> QED BY <1>1 DEF Puts

LEMMA GoesSelf ==
  ASSUME NEW s, Sound(s)
  PROVE  Goes(s, s) /\ Keeps(s, s)
  BY DEF Goes, Keeps

LEMMA GoesThen ==
  ASSUME NEW s, NEW r, NEW q, Goes(s, r), Goes(r, q)
  PROVE  Goes(s, q)
  BY DEF Goes

LEMMA KeepsThen ==
  ASSUME NEW s, NEW r, NEW q, Keeps(s, r), Keeps(r, q)
  PROVE  Keeps(s, q)
  BY DEF Keeps

(* A transaction of a block goes to the pool. *)
LEMMA PutIs ==
  ASSUME NEW s, Stored(s), NEW t \in Txs, t \notin Mined(s.main), ~ Legacy(s, t),
         NEW r, r = add_tx(s, t, "block")
  PROVE  /\ r.ok \in BOOLEAN /\ Puts(s, r.s) /\ Keeps(s, r.s)
         /\ DOMAIN r.s.pool \subseteq DOMAIN s.pool \cup {t}
         /\ t \notin DOMAIN s.pool => Has(r.s, t)
  <1>1. s \in States /\ "block" \in Relays
    BY DEF Stored, Relays
  <1>2. AddsTx(s, t, "block", r) /\ Caching(s, t, "block", r)
    BY <1>1, AddTxIs
  <1>3. /\ r.ok \in BOOLEAN /\ r.s \in States /\ Same(s, r.s) /\ r.s.verdicts = s.verdicts
        /\ \A u \in DOMAIN r.s.pool : \/ u \in DOMAIN s.pool /\ r.s.pool[u] = s.pool[u]
                                      \/ u = t /\ r.s.pool[u].failed = NoBlock
        /\ \A u \in DOMAIN s.pool : s.pool[u].relay = "block" => u \in DOMAIN r.s.pool /\ r.s.pool[u].relay = "block"
        /\ r.s.template = NoTemplate \/ (r.s.template = s.template /\ r.s.pool = s.pool)
        /\ t \notin DOMAIN s.pool => t \in DOMAIN r.s.pool /\ r.s.pool[t].relay = "block"
        /\ Indexed(s) => Indexed(r.s)
    BY <1>2 DEF AddsTx, Caching
  <1>4. r.s.main = s.main /\ Tip(r.s) = Tip(s)
    BY <1>3 DEF Same, Tip
  <1>5. Stored(r.s)
    BY <1>3, <1>4 DEF Stored
  <1>6. Puts(s, r.s)
    BY <1>3, <1>5 DEF Puts
  <1>7. Keeps(s, r.s)
    BY <1>3, <1>4 DEF Keeps, Has
  <1> QED BY <1>3, <1>6, <1>7 DEF Has

(* One of the pool is taken out. *)
LEMMA TakeIs ==
  ASSUME NEW s, Stored(s), NEW t \in DOMAIN s.pool, NEW r, r = RemoveTx(s, t)
  PROVE  /\ Puts(s, r) /\ DOMAIN r.pool = DOMAIN s.pool \ {t}
         /\ \A u \in DOMAIN r.pool : r.pool[u] = s.pool[u]
  <1>1. s \in States /\ s.pool \in Pools
    BY StateIs DEF Stored
  <1>2. t \in Txs
    BY <1>1, PoolIs
  <1>3. /\ r \in States /\ Same(s, r) /\ r.verdicts = s.verdicts /\ r.template = NoTemplate
        /\ r.pool = Without(s.pool, t) /\ (Indexed(s) => Indexed(r))
    BY <1>1, <1>2, RemoveTxIs
  <1>4. DOMAIN r.pool = DOMAIN s.pool \ {t} /\ \A u \in DOMAIN r.pool : r.pool[u] = s.pool[u]
    <2>1. PICK q : q = Without(s.pool, t)
      OBVIOUS
    <2>2. DOMAIN q = DOMAIN s.pool \ {t} /\ \A u \in DOMAIN s.pool \ {t} : q[u] = s.pool[u]
      BY <1>1, <2>1, WithoutIs
    <2>3. r.pool = q
      BY <1>3, <2>1
    <2> QED BY <2>2, <2>3
  <1>5. r.main = s.main /\ Tip(r) = Tip(s)
    BY <1>3 DEF Same, Tip
  <1>6. Stored(r)
    BY <1>3, <1>4, <1>5 DEF Stored
  <1> QED BY <1>3, <1>4, <1>6 DEF Puts

(* The loop of return_tx_to_pool. *)
Returns(txs, T) ==
  \A i \in 1 .. Len(txs) : \A x \in T[i - 1] : add_tx(x, txs[i], "block").s \in T[i]

LEMMA ReturnFold ==
  ASSUME NEW s, NEW txs \in Seq(Txs), NEW T, s \in T[0], Returns(txs, T)
  PROVE  ReturnToPool(s, txs) \in T[Len(txs)]
  <1> DEFINE n == Len(txs)
             round(i, x) == add_tx(x, txs[i], "block").s
             g == [i \in 1 .. n |-> [x \in T[i - 1] |-> round(i, x)]]
             body(f) == [i \in 0 .. n |-> IF i = 0 THEN s ELSE round(i, f[i - 1])]
             up == CHOOSE f : f = body(f)
  <1>1. n \in Nat /\ n \in 0 .. n /\ 0 \in 0 .. n
    BY SMTT(30)
  <1>2. \A i \in 1 .. n : \A x \in T[i - 1] : g[i][x] = round(i, x) /\ round(i, x) \in T[i]
    BY DEF Returns
  <1>3. PICK f : IsFold(f, s, g, T, n)
    <2> HIDE DEF g, n, round
    <2>1. \A i \in 1 .. n : \A x \in T[i - 1] : g[i][x] \in T[i]
      BY <1>2
    <2> QED BY <1>1, <2>1, FoldExists
  <1>4. f = body(f)
    <2> HIDE DEF g, n, round
    <2>1. \A i \in 0 .. n : i = 0 \/ (i \in 1 .. n /\ i - 1 \in 0 .. n)
      BY SMTT(30), <1>1
    <2> QED BY <1>1, <1>2, <1>3, <2>1 DEF IsFold
  <1>5. up = body(up)
    <2> HIDE DEF body
    <2> QED BY <1>4
  <1>6. ReturnToPool(s, txs) = up[n]
    BY DEF ReturnToPool
  <1> HIDE DEF up
  <1>7. \A i \in 0 .. n : up[i] = IF i = 0 THEN s ELSE round(i, up[i - 1])
    <2> HIDE DEF n, round
    <2> QED BY <1>5
  <1>8. \A i \in 0 .. n : up[i] \in T[i]
    <2> HIDE DEF g, n, round
    <2>1. \A i \in 1 .. n : i \in 0 .. n /\ i # 0
      BY SMTT(30), <1>1
    <2>2. \A i \in 1 .. n : up[i - 1] \in T[i - 1] => up[i] \in T[i]
      BY <1>2, <1>7, <2>1
    <2>3. up[0] \in T[0]
      BY <1>1, <1>7
    <2> QED BY <1>1, <2>2, <2>3, InEach
  <1> QED BY <1>1, <1>6, <1>8

(* Transactions that are neither mined nor in the pool go there. *)
LEMMA ReturnIs ==
  ASSUME NEW s, Stored(s), NEW txs \in Seq(Txs), Once(txs),
         \A i \in DOMAIN txs : txs[i] \notin DOMAIN s.pool /\ txs[i] \notin Mined(s.main),
         NEW r, r = ReturnToPool(s, txs)
  PROVE  Puts(s, r) /\ Keeps(s, r) /\ \A i \in DOMAIN txs : Has(r, txs[i])
  <1> DEFINE n == Len(txs)
             At(i) == {x \in States : /\ Puts(s, x) /\ Keeps(s, x)
                                      /\ \A j \in 1 .. i : Has(x, txs[j])
                                      /\ \A j \in i + 1 .. n : txs[j] \notin DOMAIN x.pool}
             T == [i \in 0 .. n |-> At(i)]
  <1>1. n \in Nat /\ n \in 0 .. n /\ 0 \in 0 .. n /\ DOMAIN txs = 1 .. n
    BY SMTT(30)
  <1>2. s \in At(0)
    <2>1. \A j \in 1 .. 0 : FALSE
      BY SMTT(30)
    <2>2. \A j \in 0 + 1 .. n : j \in 1 .. n
      BY SMTT(30), <1>1
    <2>3. Puts(s, s) /\ Keeps(s, s) /\ s \in States
      BY PutsSelf DEF Keeps, Stored
    <2> QED BY <1>1, <2>1, <2>2, <2>3
  <1>3. ASSUME NEW i \in 1 .. n, NEW x \in At(i - 1) PROVE add_tx(x, txs[i], "block").s \in At(i)
    <2>1. PICK t : t = txs[i]
      OBVIOUS
    <2>2. t \in Txs /\ i \in (i - 1) + 1 .. n
      BY SMTT(30), <1>1, <2>1
    <2>3. Puts(s, x) /\ Keeps(s, x) /\ t \notin DOMAIN x.pool
      BY <2>1, <2>2
    <2>4. Stored(x) /\ x.main = s.main
      BY <2>3 DEF Puts, Same
    <2>5. t \notin Mined(x.main)
      BY <1>1, <2>1, <2>4
    <2>6. ~ Legacy(x, t)
      BY <2>3 DEF Legacy, InPool
    <2>7. PICK a : a = add_tx(x, t, "block")
      OBVIOUS
    <2>8. /\ Puts(x, a.s) /\ Keeps(x, a.s) /\ DOMAIN a.s.pool \subseteq DOMAIN x.pool \cup {t} /\ Has(a.s, t)
      BY <2>2, <2>3, <2>4, <2>5, <2>6, <2>7, PutIs
    <2>9. Puts(s, a.s) /\ Keeps(s, a.s)
      BY <2>3, <2>8, PutsThen, KeepsThen
    <2>10. ASSUME NEW j \in 1 .. i PROVE Has(a.s, txs[j])
      <3>1. CASE j = i
        BY <2>1, <2>8, <3>1
      <3>2. CASE j # i
        <4>1. j \in 1 .. i - 1 /\ txs[j] \in Txs
          BY SMTT(30), <1>1, <3>2
        <4>2. Has(x, txs[j])
          BY <4>1
        <4> QED BY <2>8, <4>1, <4>2 DEF Keeps
      <3> QED BY <3>1, <3>2
    <2>11. ASSUME NEW j \in i + 1 .. n PROVE txs[j] \notin DOMAIN a.s.pool
      <3>1. j \in (i - 1) + 1 .. n /\ j \in 1 .. n /\ j # i
        BY SMTT(30), <1>1
      <3>2. txs[j] # t
        BY <1>1, <2>1, <3>1 DEF Once
      <3> QED BY <2>8, <3>1, <3>2
    <2>12. a.s \in States
      BY <2>8 DEF Puts, Stored
    <2> QED BY <2>1, <2>7, <2>9, <2>10, <2>11, <2>12
  <1>4. \A i \in 1 .. n : i \in 0 .. n /\ i - 1 \in 0 .. n
    BY SMTT(30), <1>1
  <1>5. s \in T[0] /\ T[n] = At(n) /\ \A i \in 1 .. n : T[i - 1] = At(i - 1) /\ T[i] = At(i)
    <2> HIDE DEF At, n
    <2> QED BY <1>1, <1>2, <1>4
  <1>6. Returns(txs, T)
    <2> HIDE DEF At, T
    <2> QED BY <1>3, <1>5 DEF Returns
  <1>7. r \in T[n]
    <2> HIDE DEF At, T
    <2> QED BY <1>5, <1>6, ReturnFold
  <1> QED BY <1>1, <1>5, <1>7

-----------------------------------------------------------------------------
(* handle_block_to_main_chain. *)

(* The transactions of b wait in the pool. *)
Fits(s, b) ==
  /\ Once(TxsOf(b))
  /\ \A t \in Range(TxsOf(b)) : t \in DOMAIN s.pool /\ t \notin Mined(s.main) /\ check_tx_inputs(s.main, t)

(* The loop over the transactions of b, after n of them. *)
Gathers(s, b, n, x) ==
  /\ x \in [ok : BOOLEAN, s : States, found : Seq(Txs)]
  /\ Goes(s, x.s) /\ x.s.main = s.main /\ x.s.alt = s.alt
  /\ Once(x.found) /\ Range(x.found) \subseteq DOMAIN s.pool /\ Range(x.found) \subseteq Range(TxsOf(b))
  /\ \A u \in DOMAIN x.s.pool : u \in DOMAIN s.pool /\ u \notin Range(x.found) /\ x.s.pool[u] = s.pool[u]
  /\ \A u \in DOMAIN s.pool : u \in DOMAIN x.s.pool \/ u \in Range(x.found)
  /\ x.ok => \A j \in 1 .. n : /\ TxsOf(b)[j] \notin DOMAIN x.s.pool /\ TxsOf(b)[j] \notin Mined(s.main)
                               /\ check_tx_inputs(s.main, TxsOf(b)[j])
  /\ Fits(s, b) => x.ok /\ \A j \in n + 1 .. Len(TxsOf(b)) : TxsOf(b)[j] \in DOMAIN x.s.pool

LEMMA OnceAppend ==
  ASSUME NEW S, NEW f \in Seq(S), NEW t \in S, Once(f), t \notin Range(f)
  PROVE  Append(f, t) \in Seq(S) /\ Once(Append(f, t)) /\ Range(Append(f, t)) = Range(f) \cup {t}
  <1>1. PICK g : g = Append(f, t)
    OBVIOUS
  <1>2. PICK n : n = Len(f) /\ n \in Nat /\ DOMAIN f = 1 .. n /\ DOMAIN g = 1 .. n + 1 /\ g \in Seq(S)
                 /\ g[n + 1] = t /\ (\A i \in 1 .. n : g[i] = f[i])
                 /\ (\A i \in 1 .. n + 1 : i \in 1 .. n \/ i = n + 1) /\ 1 .. n \subseteq 1 .. n + 1
                 /\ n + 1 \in 1 .. n + 1
    <2>1. PICK n : n = Len(f)
      OBVIOUS
    <2>2. Appended(S, f, t, g, n)
      BY <1>1, <2>1, AppendIs
    <2> QED BY <2>1, <2>2 DEF Appended
  <1>3. Range(g) = Range(f) \cup {t}
    BY <1>2 DEF Range
  <1>4. \A i \in 1 .. n : f[i] # t
    BY <1>2 DEF Range
  <1>5. Once(g)
    BY <1>2, <1>4 DEF Once
  <1> QED BY <1>1, <1>2, <1>3, <1>5

Taken(s, b, x, t, y) ==
  /\ y \in [ok : BOOLEAN, s : States, found : Seq(Txs)] /\ y.ok = x.ok
  /\ Goes(s, y.s) /\ y.s.main = s.main /\ y.s.alt = s.alt
  /\ Once(y.found) /\ Range(y.found) \subseteq DOMAIN s.pool /\ Range(y.found) \subseteq Range(TxsOf(b))
  /\ \A u \in DOMAIN y.s.pool : u \in DOMAIN s.pool /\ u \notin Range(y.found) /\ y.s.pool[u] = s.pool[u]
  /\ \A u \in DOMAIN s.pool : u \in DOMAIN y.s.pool \/ u \in Range(y.found)
  /\ DOMAIN y.s.pool = DOMAIN x.s.pool \ {t}

LEMMA TakenIs ==
  ASSUME NEW s, Sound(s), NEW b, NEW n, NEW x, Gathers(s, b, n, x), NEW t \in Range(TxsOf(b)), t \in Txs,
         NEW y, y = Take(x, t)
  PROVE  Taken(s, b, x, t, y)
  <1> SUFFICES /\ y \in [ok : BOOLEAN, s : States, found : Seq(Txs)] /\ y.ok = x.ok
               /\ Goes(s, y.s) /\ y.s.main = s.main /\ y.s.alt = s.alt
               /\ Once(y.found) /\ Range(y.found) \subseteq DOMAIN s.pool /\ Range(y.found) \subseteq Range(TxsOf(b))
               /\ \A u \in DOMAIN y.s.pool : u \in DOMAIN s.pool /\ u \notin Range(y.found) /\ y.s.pool[u] = s.pool[u]
               /\ \A u \in DOMAIN s.pool : u \in DOMAIN y.s.pool \/ u \in Range(y.found)
               /\ DOMAIN y.s.pool = DOMAIN x.s.pool \ {t}
    BY DEF Taken
  <1>1. /\ x \in [ok : BOOLEAN, s : States, found : Seq(Txs)]
        /\ Goes(s, x.s) /\ x.s.main = s.main /\ x.s.alt = s.alt
        /\ Once(x.found) /\ Range(x.found) \subseteq DOMAIN s.pool /\ Range(x.found) \subseteq Range(TxsOf(b))
        /\ \A u \in DOMAIN x.s.pool : u \in DOMAIN s.pool /\ u \notin Range(x.found) /\ x.s.pool[u] = s.pool[u]
        /\ \A u \in DOMAIN s.pool : u \in DOMAIN x.s.pool \/ u \in Range(x.found)
    BY DEF Gathers
  <1>2. CASE t \notin DOMAIN x.s.pool
    <2>1. y = x
      BY <1>2 DEF Take, InPool
    <2> QED BY <1>1, <1>2, <2>1
  <1>3. CASE t \in DOMAIN x.s.pool
    <2>1. PICK a : a = RemoveTx(x.s, t)
      OBVIOUS
    <2>2. y = [ok |-> x.ok, s |-> a, found |-> Append(x.found, t)]
      BY <1>3, <2>1 DEF Take, InPool
    <2>3. Sound(x.s) /\ Stored(x.s)
      BY <1>1 DEF Goes, Sound
    <2>4. /\ Puts(x.s, a) /\ DOMAIN a.pool = DOMAIN x.s.pool \ {t}
          /\ \A u \in DOMAIN a.pool : a.pool[u] = x.s.pool[u]
      BY SMTT(30), <1>3, <2>1, <2>3, TakeIs
    <2>5. Goes(x.s, a) /\ a.main = x.s.main /\ a.alt = x.s.alt /\ a \in States
      BY <2>3, <2>4, PutsGoes DEF Puts, Same, Stored
    <2>6. Goes(s, a)
      BY <1>1, <2>5, GoesThen
    <2>7. x.found \in Seq(Txs) /\ x.ok \in BOOLEAN /\ t \notin Range(x.found)
      BY <1>1, <1>3
    <2>8. PICK g : g = Append(x.found, t)
      OBVIOUS
    <2>9. g \in Seq(Txs) /\ Once(g) /\ Range(g) = Range(x.found) \cup {t}
      BY SMTT(30), <1>1, <2>7, <2>8, OnceAppend
    <2>10. y.ok = x.ok /\ y.s = a /\ y.found = g /\ y \in [ok : BOOLEAN, s : States, found : Seq(Txs)]
      BY SMTT(30), <2>2, <2>5, <2>7, <2>8, <2>9
    <2> QED BY <1>1, <1>3, <2>4, <2>5, <2>6, <2>9, <2>10
  <1> QED BY <1>2, <1>3

WithInvalid(s, i) == [s EXCEPT !.invalid = i]

InvalidKept(s, r) ==
  Goes(s, r) /\ r \in States /\ r.main = s.main /\ r.alt = s.alt /\ r.pool = s.pool

LEMMA InvalidPut ==
  ASSUME NEW s, Sound(s), NEW i \in SUBSET Blocks, NEW r, r = WithInvalid(s, i)
  PROVE  InvalidKept(s, r)
  <1> SUFFICES Goes(s, r) /\ r \in States /\ r.main = s.main /\ r.alt = s.alt /\ r.pool = s.pool
    BY DEF InvalidKept
  <1>1. s \in States
    BY DEF Sound, Stored
  <1>2. /\ r \in States /\ r.main = s.main /\ r.alt = s.alt /\ r.timedOut = s.timedOut
        /\ r.template = s.template /\ r.pool = s.pool /\ r.images = s.images /\ r.listed = s.listed
        /\ r.weight = s.weight /\ r.verdicts = s.verdicts /\ r.broken = s.broken
    BY <1>1 DEF States, WithInvalid
  <1>3. Tip(r) = Tip(s)
    BY <1>2 DEF Tip
  <1>4. Sound(r)
    BY <1>2, <1>3 DEF Sound, Stored, CacheRight, TemplateRight
  <1>5. Indexed(s) => Indexed(r)
    BY <1>2 DEF Indexed, Indexes
  <1> QED BY <1>2, <1>4, <1>5 DEF Goes

LEMMA GatherOneIs ==
  ASSUME NEW s, Sound(s), NEW b \in Blocks, NEW supplement, NEW n \in 1 .. Len(TxsOf(b)),
         NEW x, Gathers(s, b, n - 1, x), x.ok
  PROVE  Gathers(s, b, n, GatherOne(x, b, supplement, TxsOf(b)[n]))
  <1>1. PICK txs : txs = TxsOf(b) /\ txs \in Seq(Txs)
    BY BlocksAssumption
  <1>2. PICK t : t = txs[n]
    OBVIOUS
  <1>3. PICK y : y = GatherOne(x, b, supplement, t)
    OBVIOUS
  <1>4. n \in 1 .. Len(txs) /\ n \in DOMAIN txs /\ t \in Txs /\ n \in (n - 1) + 1 .. Len(txs)
    BY SMTT(30), <1>1, <1>2
  <1>5. t \in Range(TxsOf(b))
    BY <1>1, <1>2, <1>4 DEF Range
  <1>6. /\ x \in [ok : BOOLEAN, s : States, found : Seq(Txs)]
        /\ Goes(s, x.s) /\ x.s.main = s.main /\ x.s.alt = s.alt
        /\ Once(x.found) /\ Range(x.found) \subseteq DOMAIN s.pool /\ Range(x.found) \subseteq Range(TxsOf(b))
        /\ \A u \in DOMAIN x.s.pool : u \in DOMAIN s.pool /\ u \notin Range(x.found) /\ x.s.pool[u] = s.pool[u]
        /\ \A u \in DOMAIN s.pool : u \in DOMAIN x.s.pool \/ u \in Range(x.found)
        /\ \A j \in 1 .. n - 1 : /\ txs[j] \notin DOMAIN x.s.pool /\ txs[j] \notin Mined(s.main)
                                 /\ check_tx_inputs(s.main, txs[j])
        /\ Fits(s, b) => \A j \in (n - 1) + 1 .. Len(txs) : txs[j] \in DOMAIN x.s.pool
    BY <1>1 DEF Gathers
  <1>7. Fits(s, b) => t \in DOMAIN x.s.pool /\ t \notin Mined(s.main) /\ check_tx_inputs(s.main, t)
    BY <1>2, <1>4, <1>5, <1>6 DEF Fits
  <1>8. CASE t \in Mined(x.s.main) \/ ~ (InPool(x.s, t) \/ t \in supplement)
    <2>1. y = [x EXCEPT !.ok = FALSE]
      BY <1>3, <1>8 DEF GatherOne
    <2>2. y \in [ok : BOOLEAN, s : States, found : Seq(Txs)] /\ y.ok = FALSE /\ y.s = x.s /\ y.found = x.found
      BY <1>6, <2>1
    <2>3. ~ Fits(s, b)
      BY <1>6, <1>7, <1>8 DEF InPool
    <2>4. Gathers(s, b, n, y)
      BY <1>6, <2>2, <2>3 DEF Gathers
    <2> QED BY <1>1, <1>2, <1>3, <2>4
  <1>9. CASE ~(t \in Mined(x.s.main) \/ ~ (InPool(x.s, t) \/ t \in supplement))
    <2>1. PICK z : z = Take(x, t)
      OBVIOUS
    <2>2. /\ z \in [ok : BOOLEAN, s : States, found : Seq(Txs)] /\ z.ok = x.ok
          /\ Goes(s, z.s) /\ z.s.main = s.main /\ z.s.alt = s.alt
          /\ Once(z.found) /\ Range(z.found) \subseteq DOMAIN s.pool /\ Range(z.found) \subseteq Range(TxsOf(b))
          /\ \A u \in DOMAIN z.s.pool : u \in DOMAIN s.pool /\ u \notin Range(z.found) /\ z.s.pool[u] = s.pool[u]
          /\ \A u \in DOMAIN s.pool : u \in DOMAIN z.s.pool \/ u \in Range(z.found)
          /\ DOMAIN z.s.pool = DOMAIN x.s.pool \ {t}
      <3>1. Taken(s, b, x, t, z)
        BY <1>4, <1>5, <2>1, TakenIs
      <3> QED BY <3>1 DEF Taken
    <2>3. CASE check_tx_inputs(x.s.main, t)
      <3>1. y = z
        BY <1>3, <1>9, <2>1, <2>3 DEF GatherOne
      <3>2. ASSUME NEW j \in 1 .. n
            PROVE  /\ txs[j] \notin DOMAIN z.s.pool /\ txs[j] \notin Mined(s.main)
                   /\ check_tx_inputs(s.main, txs[j])
        <4>1. CASE j = n
          BY <1>2, <1>6, <1>9, <2>2, <2>3, <4>1
        <4>2. CASE j # n
          <5>1. j \in 1 .. n - 1
            BY SMTT(30), <1>4, <4>2
          <5> QED BY <1>6, <2>2, <5>1
        <4> QED BY <4>1, <4>2
      <3>3. ASSUME Fits(s, b), NEW j \in n + 1 .. Len(txs) PROVE txs[j] \in DOMAIN z.s.pool
        <4>1. j \in (n - 1) + 1 .. Len(txs) /\ j # n /\ j \in DOMAIN txs
          BY SMTT(30), <1>1, <1>4, <3>3
        <4>2. txs[j] # t
          BY <1>1, <1>2, <1>4, <3>3, <4>1 DEF Fits, Once
        <4> QED BY <1>6, <2>2, <3>3, <4>1, <4>2
      <3>4. Gathers(s, b, n, z)
        BY <1>1, <2>2, <3>2, <3>3 DEF Gathers
      <3> QED BY <1>1, <1>2, <1>3, <3>1, <3>4
    <2>4. CASE ~ check_tx_inputs(x.s.main, t)
      <3>1. y = Condemned(z, b)
        BY <1>3, <1>9, <2>1, <2>4 DEF GatherOne
      <3>2. PICK a : a = [z.s EXCEPT !.invalid = z.s.invalid \cup {b}]
        OBVIOUS
      <3>3. Sound(z.s) /\ z.s \in States
        BY <2>2 DEF Goes, Sound, Stored
      <3>4. z.s.invalid \cup {b} \in SUBSET Blocks
        BY <3>3, StateIs
      <3>5. Goes(z.s, a) /\ a \in States /\ a.main = z.s.main /\ a.alt = z.s.alt /\ a.pool = z.s.pool
        <4>1. a = WithInvalid(z.s, z.s.invalid \cup {b})
          BY <3>2 DEF WithInvalid
        <4>2. InvalidKept(z.s, a)
          BY <3>3, <3>4, <4>1, InvalidPut
        <4> QED BY <4>2 DEF InvalidKept
      <3>6. Goes(s, a)
        BY <2>2, <3>5, GoesThen
      <3>7. y = [ok |-> FALSE, s |-> a, found |-> z.found] /\ z.found \in Seq(Txs)
        BY <2>2, <3>1, <3>2 DEF Condemned
      <3>8. y \in [ok : BOOLEAN, s : States, found : Seq(Txs)] /\ y.ok = FALSE /\ y.s = a /\ y.found = z.found
        BY <3>5, <3>7
      <3>9. ~ Fits(s, b)
        BY <1>6, <1>7, <2>4
      <3>10. Gathers(s, b, n, y)
        BY SMTT(30), <2>2, <3>5, <3>6, <3>8, <3>9 DEF Gathers
      <3> QED BY <1>1, <1>2, <1>3, <3>10
    <2> QED BY <2>3, <2>4
  <1> QED BY <1>8, <1>9

(* The loop over the transactions of b. *)
GatherRounds(b, supplement, T) ==
  \A i \in 1 .. Len(TxsOf(b)) : \A x \in T[i - 1] : (IF ~ x.ok THEN x ELSE GatherOne(x, b, supplement, TxsOf(b)[i])) \in T[i]

LEMMA GatherFold ==
  ASSUME NEW s, NEW b \in Blocks, NEW supplement, NEW T, [ok |-> TRUE, s |-> s, found |-> <<>>] \in T[0], GatherRounds(b, supplement, T)
  PROVE  Gather(s, b, supplement) \in T[Len(TxsOf(b))]
  <1> DEFINE n == Len(TxsOf(b))
             round(i, x) == (IF ~ x.ok THEN x ELSE GatherOne(x, b, supplement, TxsOf(b)[i]))
             g == [i \in 1 .. n |-> [x \in T[i - 1] |-> round(i, x)]]
             body(f) == [i \in 0 .. n |-> IF i = 0 THEN [ok |-> TRUE, s |-> s, found |-> <<>>] ELSE round(i, f[i - 1])]
             up == CHOOSE f : f = body(f)
  <1>1. n \in Nat /\ n \in 0 .. n /\ 0 \in 0 .. n
    BY SMTT(30), BlocksAssumption
  <1>2. \A i \in 1 .. n : \A x \in T[i - 1] : g[i][x] = round(i, x) /\ round(i, x) \in T[i]
    BY DEF GatherRounds
  <1>3. PICK f : IsFold(f, [ok |-> TRUE, s |-> s, found |-> <<>>], g, T, n)
    <2> HIDE DEF g, n, round
    <2>1. \A i \in 1 .. n : \A x \in T[i - 1] : g[i][x] \in T[i]
      BY <1>2
    <2> QED BY <1>1, <2>1, FoldExists
  <1>4. f = body(f)
    <2> HIDE DEF g, n, round
    <2>1. \A i \in 0 .. n : i = 0 \/ (i \in 1 .. n /\ i - 1 \in 0 .. n)
      BY SMTT(30), <1>1
    <2> QED BY <1>1, <1>2, <1>3, <2>1 DEF IsFold
  <1>5. up = body(up)
    <2> HIDE DEF body
    <2> QED BY <1>4
  <1>6. Gather(s, b, supplement) = up[n]
    BY DEF Gather
  <1> HIDE DEF up
  <1>7. \A i \in 0 .. n : up[i] = IF i = 0 THEN [ok |-> TRUE, s |-> s, found |-> <<>>] ELSE round(i, up[i - 1])
    <2> HIDE DEF n, round
    <2> QED BY <1>5
  <1>8. \A i \in 0 .. n : up[i] \in T[i]
    <2> HIDE DEF g, n, round
    <2>1. \A i \in 1 .. n : i \in 0 .. n /\ i # 0
      BY SMTT(30), <1>1
    <2>2. \A i \in 1 .. n : up[i - 1] \in T[i - 1] => up[i] \in T[i]
      BY <1>2, <1>7, <2>1
    <2>3. up[0] \in T[0]
      BY <1>1, <1>7
    <2> QED BY <1>1, <2>2, <2>3, InEach
  <1> QED BY <1>1, <1>6, <1>8

LEMMA GatherIs ==
  ASSUME NEW s, Sound(s), NEW b \in Blocks, NEW supplement
  PROVE  Gathers(s, b, Len(TxsOf(b)), Gather(s, b, supplement))
  <1> DEFINE n == Len(TxsOf(b))
             start == [ok |-> TRUE, s |-> s, found |-> <<>>]
             R == [ok : BOOLEAN, s : States, found : Seq(Txs)]
             At(i) == {x \in R : Gathers(s, b, i, x)}
             T == [i \in 0 .. n |-> At(i)]
  <1>1. TxsOf(b) \in Seq(Txs) /\ DOMAIN TxsOf(b) = 1 .. n
        /\ n \in Nat /\ n \in 0 .. n /\ 0 \in 0 .. n
    BY SMTT(30), BlocksAssumption
  <1>2. start \in At(0)
    <2>1. Range(<<>>) = {} /\ <<>> \in Seq(Txs) /\ Once(<<>>) /\ \A j \in 1 .. 0 : FALSE
      BY SMTT(30) DEF Range, Once
    <2>2. s \in States /\ Goes(s, s)
      BY GoesSelf DEF Sound, Stored
    <2>3. start.ok = TRUE /\ start.s = s /\ start.found = <<>> /\ start \in R
      BY <2>1, <2>2
    <2>4. \A j \in 0 + 1 .. n : j \in DOMAIN TxsOf(b)
      BY SMTT(30), <1>1
    <2>5. Fits(s, b) => \A j \in 0 + 1 .. n : TxsOf(b)[j] \in DOMAIN s.pool
      BY <2>4 DEF Fits, Range
    <2> HIDE DEF start, R
    <2>6. Gathers(s, b, 0, start)
      BY <2>1, <2>2, <2>3, <2>5 DEF Gathers, R, n
    <2> QED BY <2>3, <2>6
  <1>3. ASSUME NEW i \in 1 .. n, NEW x \in At(i - 1)
        PROVE  (IF ~ x.ok THEN x ELSE GatherOne(x, b, supplement, TxsOf(b)[i])) \in At(i)
    <2>1. Gathers(s, b, i - 1, x)
      OBVIOUS
    <2>2. CASE x.ok
      <3>1. Gathers(s, b, i, GatherOne(x, b, supplement, TxsOf(b)[i]))
        BY <2>1, <2>2, GatherOneIs
      <3>2. GatherOne(x, b, supplement, TxsOf(b)[i]) \in R
        BY <3>1 DEF Gathers
      <3> QED BY <2>2, <3>1, <3>2
    <2>3. CASE ~ x.ok
      <3>1. ~ Fits(s, b)
        BY <2>1, <2>3 DEF Gathers
      <3>2. Gathers(s, b, i, x)
        BY <2>1, <2>3, <3>1 DEF Gathers
      <3> QED BY <2>3, <3>2
    <2> QED BY <2>2, <2>3
  <1>4. \A i \in 1 .. n : i \in 0 .. n /\ i - 1 \in 0 .. n
    BY SMTT(30), <1>1
  <1>5. start \in T[0] /\ T[n] = At(n) /\ \A i \in 1 .. n : T[i - 1] = At(i - 1) /\ T[i] = At(i)
    <2> HIDE DEF At, n, start
    <2> QED BY <1>1, <1>2, <1>4
  <1>6. GatherRounds(b, supplement, T)
    <2> HIDE DEF At, T
    <2> QED BY <1>3, <1>5 DEF GatherRounds
  <1>7. Gather(s, b, supplement) \in T[n]
    <2> HIDE DEF At, T
    <2> QED BY <1>5, <1>6, GatherFold
  <1>8. Gather(s, b, supplement) \in At(n)
    <2> HIDE DEF At, T
    <2> QED BY <1>5, <1>7
  <1> QED BY <1>8

(* A refused block: what was found goes back. *)
GivenBack(s, r) ==
  r.ok = FALSE /\ Goes(s, r.s) /\ Keeps(s, r.s) /\ r.s.main = s.main /\ r.s.alt = s.alt

LEMMA GiveBackIs ==
  ASSUME NEW s, Sound(s), NEW b, NEW n, NEW x, Gathers(s, b, n, x), NEW f \in BOOLEAN, NEW r, r = GiveBack(x, f)
  PROVE  GivenBack(s, r)
  <1> SUFFICES r.ok = FALSE /\ Goes(s, r.s) /\ Keeps(s, r.s) /\ r.s.main = s.main /\ r.s.alt = s.alt
    BY DEF GivenBack
  <1>1. /\ x.s \in States /\ x.found \in Seq(Txs)
        /\ Goes(s, x.s) /\ x.s.main = s.main /\ x.s.alt = s.alt
        /\ Once(x.found) /\ Range(x.found) \subseteq DOMAIN s.pool
        /\ \A u \in DOMAIN x.s.pool : u \in DOMAIN s.pool /\ u \notin Range(x.found) /\ x.s.pool[u] = s.pool[u]
        /\ \A u \in DOMAIN s.pool : u \in DOMAIN x.s.pool \/ u \in Range(x.found)
    BY DEF Gathers
  <1>2. PICK a : a = ReturnToPool(x.s, x.found)
    OBVIOUS
  <1>3. PICK c : c = [a EXCEPT !.batchOK = a.batchOK /\ ~ f]
    OBVIOUS
  <1>4. r.ok = FALSE /\ r.s = c
    BY <1>2, <1>3 DEF GiveBack, Refused
  <1>5. Sound(x.s) /\ Stored(x.s) /\ DOMAIN s.pool \cap Mined(s.main) = {}
    BY <1>1 DEF Goes, Sound, Stored
  <1>6. \A i \in DOMAIN x.found : /\ x.found[i] \notin DOMAIN x.s.pool /\ x.found[i] \notin Mined(x.s.main)
                                  /\ x.found[i] \in Range(x.found)
    BY <1>1, <1>5 DEF Range
  <1>7. Puts(x.s, a) /\ Keeps(x.s, a) /\ \A i \in DOMAIN x.found : Has(a, x.found[i])
    BY <1>1, <1>2, <1>5, <1>6, ReturnIs
  <1>8. Goes(x.s, a) /\ a.main = x.s.main /\ a.alt = x.s.alt /\ a \in States
    BY <1>5, <1>7, PutsGoes DEF Puts, Same, Stored
  <1>9. Goes(s, a)
    BY <1>1, <1>8, GoesThen
  <1>10. \A u \in Range(x.found) : Has(a, u)
    BY <1>7 DEF Range
  <1>11. ASSUME NEW t \in Txs, Has(s, t) PROVE Has(a, t)
    <2>1. CASE t \in Mined(s.main)
      BY <1>1, <1>8, <2>1 DEF Has
    <2>2. CASE t \in DOMAIN s.pool /\ s.pool[t].relay = "block"
      <3>1. CASE t \in Range(x.found)
        BY <1>10, <3>1
      <3>2. CASE t \in DOMAIN x.s.pool
        <4>1. Has(x.s, t)
          BY <1>1, <2>2, <3>2 DEF Has
        <4> QED BY <1>7, <4>1 DEF Keeps
      <3> QED BY <1>1, <2>2, <3>1, <3>2
    <2> QED BY <1>11, <2>1, <2>2 DEF Has
  <1>12. (a.batchOK /\ ~ f) \in BOOLEAN
    OBVIOUS
  <1>13. /\ c \in States /\ c.main = a.main /\ c.alt = a.alt /\ c.timedOut = a.timedOut
         /\ c.template = a.template /\ c.pool = a.pool /\ c.images = a.images /\ c.listed = a.listed
         /\ c.weight = a.weight /\ c.verdicts = a.verdicts /\ c.broken = a.broken
    BY <1>3, <1>8, <1>12 DEF States
  <1>14. Tip(c) = Tip(a)
    BY <1>13 DEF Tip
  <1>15. Sound(c)
    BY <1>8, <1>13, <1>14 DEF Goes, Sound, Stored, CacheRight, TemplateRight
  <1>16. Indexed(a) => Indexed(c)
    BY <1>13 DEF Indexed, Indexes
  <1>17. Goes(s, c)
    BY <1>9, <1>13, <1>15, <1>16 DEF Goes
  <1>18. Keeps(s, c)
    BY <1>11, <1>13 DEF Keeps, Has
  <1> QED BY <1>1, <1>4, <1>8, <1>13, <1>17, <1>18

LEMMA EmptyIs == EmptyMap \in Caches /\ DOMAIN EmptyMap = {}
  <1>1. EmptyMap \in [{} -> BOOLEAN] /\ {} \in SUBSET Txs
    BY DEF EmptyMap
  <1> QED BY <1>1 DEF Caches, EmptyMap

LEMMA TipMovedIs ==
  ASSUME NEW s \in States, NEW r, r = TipMoved(s)
  PROVE  /\ r \in States /\ r.main = s.main /\ r.alt = s.alt /\ r.timedOut = s.timedOut
         /\ r.template = NoTemplate /\ r.pool = s.pool /\ r.images = s.images /\ r.listed = s.listed
         /\ r.weight = s.weight /\ r.verdicts = EmptyMap /\ r.broken = s.broken
  <1>1. r = [[s EXCEPT !.verdicts = EmptyMap] EXCEPT !.template = NoTemplate]
    BY DEF TipMoved, ChainMoved
  <1> QED BY <1>1, EmptyIs, NoTemplateType DEF States

(* What the end of a step that moves the tip leaves. *)
LEMMA MovedGoes ==
  ASSUME NEW s, NEW a, Stored(a), a.timedOut = s.timedOut, Indexed(s) => Indexed(a), NEW r, r = TipMoved(a)
  PROVE  Goes(s, r) /\ r.main = a.main /\ r.alt = a.alt /\ r.pool = a.pool /\ Tip(r) = Tip(a)
  <1>1. /\ r \in States /\ r.main = a.main /\ r.alt = a.alt /\ r.timedOut = a.timedOut
        /\ r.template = NoTemplate /\ r.pool = a.pool /\ r.images = a.images /\ r.listed = a.listed
        /\ r.weight = a.weight /\ r.verdicts = EmptyMap /\ r.broken = a.broken
    BY TipMovedIs DEF Stored
  <1>2. Tip(r) = Tip(a)
    BY <1>1 DEF Tip
  <1>3. Stored(r)
    BY <1>1, <1>2 DEF Stored
  <1>4. TemplateRight(r)
    BY <1>1, <1>3, NoTemplateRight
  <1>5. CacheRight(r)
    BY <1>1, EmptyIs DEF CacheRight
  <1>6. Indexed(a) => Indexed(r)
    BY <1>1 DEF Indexed, Indexes
  <1> QED BY <1>1, <1>2, <1>3, <1>4, <1>5, <1>6 DEF Goes, Sound

(* The block follows on the tip: it is connected, or everything is as it   *)
(* was.  A block that was right before, whose transactions are not lost,   *)
(* is connected again.                                                     *)
Handled(s, b, f, r) ==
  /\ r.ok \in BOOLEAN /\ Goes(s, r.s) /\ Keeps(s, r.s) /\ r.s.alt = s.alt
  /\ Tip(r.s) = IF r.ok THEN b ELSE Tip(s)
  /\ ~ f /\ BlockOK(b) /\ (\A t \in Range(TxsOf(b)) : Has(s, t)) => r.ok

LEMMA HandleIs ==
  ASSUME NEW s, Sound(s), NEW b \in Blocks, Prev(b) = Tip(s), NEW supplement, NEW f \in BOOLEAN,
         NEW r, r = handle_block_to_main_chain(s, b, supplement, f)
  PROVE  Handled(s, b, f, r)
  <1> SUFFICES /\ r.ok \in BOOLEAN /\ Goes(s, r.s) /\ Keeps(s, r.s) /\ r.s.alt = s.alt
               /\ Tip(r.s) = IF r.ok THEN b ELSE Tip(s)
               /\ ~ f /\ BlockOK(b) /\ (\A t \in Range(TxsOf(b)) : Has(s, t)) => r.ok
    BY DEF Handled
  <1>1. PICK n : n = Len(TxsOf(b))
    OBVIOUS
  <1>2. PICK x : x = Gather(s, b, supplement)
    OBVIOUS
  <1>3. Gathers(s, b, n, x)
    BY <1>1, <1>2, GatherIs
  <1>4. r = Connect(x, b, f)
    BY <1>2 DEF handle_block_to_main_chain
  <1>5. /\ x \in [ok : BOOLEAN, s : States, found : Seq(Txs)]
        /\ Goes(s, x.s) /\ x.s.main = s.main /\ x.s.alt = s.alt
        /\ Range(x.found) \subseteq Range(TxsOf(b))
        /\ \A u \in DOMAIN x.s.pool : u \in DOMAIN s.pool /\ x.s.pool[u] = s.pool[u]
        /\ \A u \in DOMAIN s.pool : u \in DOMAIN x.s.pool \/ u \in Range(x.found)
        /\ x.ok => \A j \in 1 .. n : /\ TxsOf(b)[j] \notin DOMAIN x.s.pool /\ TxsOf(b)[j] \notin Mined(s.main)
                                     /\ check_tx_inputs(s.main, TxsOf(b)[j])
        /\ Fits(s, b) => x.ok
    BY <1>1, <1>3 DEF Gathers
  <1>6. Tip(s) \in Blocks /\ b # GENESIS /\ s.main = ChainTo[Prev(b)]
    BY BlocksAssumption DEF Sound, Stored, GoodTip
  <1>7. ASSUME BlockOK(b), \A t \in Range(TxsOf(b)) : Has(s, t) PROVE Fits(s, b)
    <2>1. Once(TxsOf(b))
      BY <1>7 DEF BlockOK, Storable, Once
    <2>2. \A t \in Range(TxsOf(b)) : t \notin Mined(s.main) /\ check_tx_inputs(s.main, t)
      BY <1>6, <1>7 DEF BlockOK
    <2>3. \A t \in Range(TxsOf(b)) : t \in DOMAIN s.pool
      BY <1>7, <2>2 DEF Has
    <2> QED BY <2>1, <2>2, <2>3 DEF Fits
  <1>8. CASE ~ x.ok \/ Tree[b].badMiner
    <2>1. r = GiveBack(x, FALSE)
      BY <1>4, <1>8 DEF Connect
    <2>2. r.ok = FALSE /\ Goes(s, r.s) /\ Keeps(s, r.s) /\ r.s.main = s.main /\ r.s.alt = s.alt
      <3>1. GivenBack(s, r)
        BY <1>3, <2>1, GiveBackIs
      <3> QED BY <3>1 DEF GivenBack
    <2>3. Tip(r.s) = Tip(s)
      BY <2>2 DEF Tip
    <2>4. ~(BlockOK(b) /\ \A t \in Range(TxsOf(b)) : Has(s, t))
      BY <1>5, <1>7, <1>8 DEF BlockOK
    <2> QED BY <2>2, <2>3, <2>4
  <1>9. CASE ~(~ x.ok \/ Tree[b].badMiner) /\ (f \/ ~ Storable(b))
    <2>1. r = GiveBack(x, TRUE)
      BY <1>4, <1>9 DEF Connect
    <2>2. r.ok = FALSE /\ Goes(s, r.s) /\ Keeps(s, r.s) /\ r.s.main = s.main /\ r.s.alt = s.alt
      <3>1. GivenBack(s, r)
        BY <1>3, <2>1, GiveBackIs
      <3> QED BY <3>1 DEF GivenBack
    <2>3. Tip(r.s) = Tip(s)
      BY <2>2 DEF Tip
    <2>4. ~(~ f /\ BlockOK(b))
      BY <1>9 DEF BlockOK
    <2> QED BY <2>2, <2>3, <2>4
  <1>10. CASE ~(~ x.ok \/ Tree[b].badMiner) /\ ~(f \/ ~ Storable(b))
    <2>1. PICK a : a = [x.s EXCEPT !.main = Append(x.s.main, b)]
      OBVIOUS
    <2>2. r.ok = TRUE /\ r.s = TipMoved(a)
      BY SMTT(30), <1>4, <1>10, <2>1 DEF Connect
    <2>3. ChainTo[b] = Append(s.main, b) /\ ChainTo[b] \in Seq(Blocks)
      BY <1>6, ChainStep, ChainLast
    <2>4. x.s \in States /\ Sound(x.s) /\ Stored(x.s)
      BY <1>5 DEF Goes, Sound
    <2>5. /\ a \in States /\ a.main = ChainTo[b] /\ a.alt = x.s.alt /\ a.timedOut = x.s.timedOut
          /\ a.pool = x.s.pool /\ a.images = x.s.images /\ a.listed = x.s.listed
          /\ a.weight = x.s.weight /\ a.broken = x.s.broken
      <3>1. a = [x.s EXCEPT !.main = ChainTo[b]]
        BY <1>5, <2>1, <2>3
      <3> QED BY <2>3, <2>4, <3>1 DEF States
    <2>6. Tip(a) = b
      BY <2>5, ChainLast DEF Tip
    <2>7. \A t \in Range(TxsOf(b)) : t \notin DOMAIN x.s.pool /\ t \notin Mined(s.main) /\ check_tx_inputs(s.main, t)
      <3>1. DOMAIN TxsOf(b) = 1 .. n
        BY SMTT(30), <1>1, BlocksAssumption
      <3> QED BY <1>5, <1>10, <3>1 DEF Range
    <2>8. BlockOK(b)
      BY <1>6, <1>10, <2>7 DEF BlockOK
    <2>9. GoodTip(b)
      <3>1. GoodTip(Prev(b))
        BY DEF Sound, Stored
      <3> QED BY <1>6, <2>8, <3>1, GoodStep
    <2>10. Mined(a.main) = Mined(s.main) \cup Range(TxsOf(b))
      BY <1>6, <2>5, MinedStep
    <2>11. Stored(a)
      <3>1. DOMAIN a.pool \cap Mined(a.main) = {}
        BY <1>5, <2>4, <2>5, <2>7, <2>10 DEF Stored
      <3> QED BY <2>4, <2>5, <2>6, <2>9, <3>1 DEF Stored
    <2>12. a.timedOut = s.timedOut /\ (Indexed(s) => Indexed(a))
      <3>1. Indexed(x.s) => Indexed(a)
        BY <2>5 DEF Indexed, Indexes
      <3> QED BY <1>5, <2>5, <3>1 DEF Goes
    <2>13. Goes(s, r.s) /\ r.s.main = a.main /\ r.s.alt = a.alt /\ r.s.pool = a.pool /\ Tip(r.s) = Tip(a)
      BY SMTT(30), <2>2, <2>11, <2>12, MovedGoes
    <2>14. Keeps(s, r.s)
      <3> SUFFICES ASSUME NEW t \in Txs, Has(s, t) PROVE Has(r.s, t)
        BY DEF Keeps
      <3> QED BY SMTT(30), <1>5, <2>5, <2>10, <2>13 DEF Has
    <2> QED BY <1>5, <2>2, <2>5, <2>6, <2>13, <2>14
  <1> QED BY <1>8, <1>9, <1>10

(* pop_block_from_blockchain: the transactions of the block go to the pool. *)
LEMMA PopIs ==
  ASSUME NEW s, Sound(s), Tip(s) # GENESIS, NEW r, r = pop_block_from_blockchain(s)
  PROVE  Goes(s, r) /\ Keeps(s, r) /\ r.alt = s.alt /\ Tip(r) = Prev(Tip(s))
  <1>1. PICK b : b = Tip(s)
    OBVIOUS
  <1>2. b \in Blocks /\ b # GENESIS /\ s.main = ChainTo[b] /\ GoodTip(b) /\ s \in States
    BY <1>1 DEF Sound, Stored, GoodTip
  <1>3. Prev(b) \in Blocks /\ SubSeq(s.main, 1, Len(s.main) - 1) = ChainTo[Prev(b)]
    BY <1>2, ChainStep
  <1>4. GoodTip(Prev(b)) /\ BlockOK(b)
    BY <1>2, GoodStep
  <1>5. PICK a : a = WithoutTip(s)
    OBVIOUS
  <1>6. a = [s EXCEPT !.main = ChainTo[Prev(b)]]
    BY <1>3, <1>5 DEF WithoutTip
  <1>7. ChainTo[Prev(b)] \in Seq(Blocks) /\ ChainTo[Prev(b)][Len(ChainTo[Prev(b)])] = Prev(b)
    BY <1>3, ChainLast
  <1>8. /\ a \in States /\ a.main = ChainTo[Prev(b)] /\ a.alt = s.alt /\ a.timedOut = s.timedOut
        /\ a.pool = s.pool /\ a.images = s.images /\ a.listed = s.listed
        /\ a.weight = s.weight /\ a.broken = s.broken
    BY <1>2, <1>6, <1>7 DEF States
  <1>9. Tip(a) = Prev(b)
    BY <1>7, <1>8 DEF Tip
  <1>10. Mined(s.main) = Mined(a.main) \cup Range(TxsOf(b))
    BY <1>2, <1>8, MinedStep
  <1>11. Stored(a)
    BY <1>4, <1>8, <1>9, <1>10 DEF Sound, Stored
  <1>12. PICK txs : txs = TxsOf(b) /\ txs \in Seq(Txs)
    BY <1>2, BlocksAssumption
  <1>13. Once(txs)
    BY <1>4, <1>12 DEF BlockOK, Storable, Once
  <1>14. \A i \in DOMAIN txs : txs[i] \in Range(txs)
    BY DEF Range
  <1>15. \A i \in DOMAIN txs : txs[i] \notin DOMAIN a.pool /\ txs[i] \notin Mined(a.main)
    <2>1. \A t \in Range(txs) : t \notin Mined(a.main)
      BY <1>4, <1>8, <1>12 DEF BlockOK
    <2>2. \A t \in Range(txs) : t \notin DOMAIN s.pool
      BY <1>10, <1>12 DEF Sound, Stored
    <2> QED BY <1>8, <1>14, <2>1, <2>2
  <1>16. PICK c : c = ReturnToPool(a, txs)
    OBVIOUS
  <1>17. Puts(a, c) /\ Keeps(a, c) /\ \A i \in DOMAIN txs : Has(c, txs[i])
    BY <1>11, <1>12, <1>13, <1>15, <1>16, ReturnIs
  <1>18. r = TipMoved(c)
    BY <1>1, <1>5, <1>12, <1>16 DEF pop_block_from_blockchain
  <1>19. Stored(c) /\ c.main = a.main /\ c.alt = s.alt /\ c.timedOut = s.timedOut
    BY <1>8, <1>17 DEF Puts, Same
  <1>20. Indexed(s) => Indexed(c)
    <2>1. Indexed(s) => Indexed(a)
      BY <1>8 DEF Indexed, Indexes
    <2> QED BY <1>17, <2>1 DEF Puts
  <1>21. Goes(s, r) /\ r.main = c.main /\ r.alt = c.alt /\ r.pool = c.pool /\ Tip(r) = Tip(c)
    BY SMTT(30), <1>18, <1>19, <1>20, MovedGoes
  <1>22. ASSUME NEW t \in Txs, Has(s, t) PROVE Has(c, t)
    <2>1. CASE t \in Range(TxsOf(b))
      BY <1>12, <1>17, <2>1 DEF Range
    <2>2. CASE t \notin Range(TxsOf(b))
      <3>1. Has(a, t)
        BY <1>8, <1>10, <1>22, <2>2 DEF Has
      <3> QED BY <1>17, <3>1 DEF Keeps
    <2> QED BY <2>1, <2>2
  <1>23. Keeps(s, r)
    BY <1>21, <1>22 DEF Keeps, Has
  <1>24. Tip(c) = Tip(a)
    BY <1>19 DEF Tip
  <1> QED BY <1>1, <1>9, <1>19, <1>21, <1>23, <1>24

(* PopTo *)
PopsTo(s, b, i, x) ==
  /\ Goes(s, x) /\ Keeps(s, x) /\ x.alt = s.alt /\ b \in Range(x.main)
  /\ Tip(x) = b \/ Height(Tip(x)) + i = Height(Tip(s))

LEMMA PopsOn ==
  ASSUME NEW s, Sound(s), NEW b, NEW i \in Nat \ {0}, NEW x, PopsTo(s, b, i - 1, x), Tip(x) # b
  PROVE  PopsTo(s, b, i, pop_block_from_blockchain(x))
  <1>1. PICK t : t = Tip(x)
    OBVIOUS
  <1>2. Sound(x) /\ t \in Blocks /\ x.main = ChainTo[t] /\ b \in Range(ChainTo[t])
    BY <1>1 DEF PopsTo, Goes, Sound, Stored, GoodTip
  <1>3. t # GENESIS
    <2> SUFFICES ASSUME t = GENESIS PROVE FALSE
      OBVIOUS
    <2>1. Range(<<GENESIS>>) = {GENESIS}
      BY SMTT(30) DEF Range
    <2> QED BY <1>1, <1>2, <2>1, ChainGenesis
  <1>4. PICK r : r = pop_block_from_blockchain(x)
    OBVIOUS
  <1>5. Goes(x, r) /\ Keeps(x, r) /\ r.alt = x.alt /\ Tip(r) = Prev(t)
    BY <1>1, <1>2, <1>3, <1>4, PopIs
  <1>6. Goes(s, r)
    BY <1>5, GoesThen DEF PopsTo
  <1>7. Keeps(s, r)
    BY <1>5, KeepsThen DEF PopsTo
  <1>8. r.main = ChainTo[Prev(t)]
    BY <1>5 DEF Goes, Sound, Stored
  <1>9. b \in Range(r.main)
    BY <1>1, <1>2, <1>3, <1>8, ChainRange
  <1>10. Prev(t) \in Blocks /\ Height(t) = Height(Prev(t)) + 1 /\ Height(Prev(t)) \in Nat
    BY <1>2, <1>3, ChainStep, HeightNat
  <1>11. Height(t) + (i - 1) = Height(Tip(s))
    BY <1>1 DEF PopsTo
  <1>12. Height(Prev(t)) + i = Height(Tip(s))
    BY SMTT(30), <1>10, <1>11
  <1>13. r.alt = s.alt
    BY <1>5 DEF PopsTo
  <1> QED BY <1>4, <1>5, <1>6, <1>7, <1>9, <1>12, <1>13 DEF PopsTo

(* The loop of PopTo. *)
Pops(s, b, T) ==
  \A i \in 1 .. Len(s.main) : \A x \in T[i - 1] : (IF Tip(x) = b THEN x ELSE pop_block_from_blockchain(x)) \in T[i]

LEMMA PopFold ==
  ASSUME NEW s, Len(s.main) \in Nat, NEW b, NEW T, s \in T[0], Pops(s, b, T)
  PROVE  PopTo(s, b) \in T[Len(s.main)]
  <1> DEFINE n == Len(s.main)
             round(i, x) == (IF Tip(x) = b THEN x ELSE pop_block_from_blockchain(x))
             g == [i \in 1 .. n |-> [x \in T[i - 1] |-> round(i, x)]]
             body(f) == [i \in 0 .. n |-> IF i = 0 THEN s ELSE round(i, f[i - 1])]
             up == CHOOSE f : f = body(f)
  <1>1. n \in Nat /\ n \in 0 .. n /\ 0 \in 0 .. n
    BY SMTT(30)
  <1>2. \A i \in 1 .. n : \A x \in T[i - 1] : g[i][x] = round(i, x) /\ round(i, x) \in T[i]
    BY DEF Pops
  <1>3. PICK f : IsFold(f, s, g, T, n)
    <2> HIDE DEF g, n, round
    <2>1. \A i \in 1 .. n : \A x \in T[i - 1] : g[i][x] \in T[i]
      BY <1>2
    <2> QED BY <1>1, <2>1, FoldExists
  <1>4. f = body(f)
    <2> HIDE DEF g, n, round
    <2>1. \A i \in 0 .. n : i = 0 \/ (i \in 1 .. n /\ i - 1 \in 0 .. n)
      BY SMTT(30), <1>1
    <2> QED BY <1>1, <1>2, <1>3, <2>1 DEF IsFold
  <1>5. up = body(up)
    <2> HIDE DEF body
    <2> QED BY <1>4
  <1>6. PopTo(s, b) = up[n]
    BY DEF PopTo
  <1> HIDE DEF up
  <1>7. \A i \in 0 .. n : up[i] = IF i = 0 THEN s ELSE round(i, up[i - 1])
    <2> HIDE DEF n, round
    <2> QED BY <1>5
  <1>8. \A i \in 0 .. n : up[i] \in T[i]
    <2> HIDE DEF g, n, round
    <2>1. \A i \in 1 .. n : i \in 0 .. n /\ i # 0
      BY SMTT(30), <1>1
    <2>2. \A i \in 1 .. n : up[i - 1] \in T[i - 1] => up[i] \in T[i]
      BY <1>2, <1>7, <2>1
    <2>3. up[0] \in T[0]
      BY <1>1, <1>7
    <2> QED BY <1>1, <2>2, <2>3, InEach
  <1> QED BY <1>1, <1>6, <1>8

LEMMA PopToIs ==
  ASSUME NEW s, Sound(s), NEW b \in Range(s.main), NEW r, r = PopTo(s, b)
  PROVE  Goes(s, r) /\ Keeps(s, r) /\ r.alt = s.alt /\ Tip(r) = b
  <1>1. PICK n : n = Len(s.main)
    OBVIOUS
  <1>2. Tip(s) \in Blocks /\ s.main = ChainTo[Tip(s)]
    BY DEF Sound, Stored, GoodTip
  <1>3. Height(Tip(s)) \in Nat /\ n = Height(Tip(s)) + 1
    BY <1>1, <1>2, ChainLast, HeightNat
  <1>4. n \in Nat /\ n \in 0 .. n /\ 0 \in 0 .. n
    BY SMTT(30), <1>3
  <1> DEFINE At(i) == {x \in States : PopsTo(s, b, i, x)}
             T == [i \in 0 .. n |-> At(i)]
  <1>5. s \in At(0)
    <2>1. Height(Tip(s)) + 0 = Height(Tip(s))
      BY SMTT(30), <1>3
    <2>2. s \in States /\ Goes(s, s) /\ Keeps(s, s)
      BY GoesSelf DEF Sound, Stored
    <2> QED BY <2>1, <2>2 DEF PopsTo
  <1>6. ASSUME NEW i \in 1 .. n, NEW x \in At(i - 1)
        PROVE  (IF Tip(x) = b THEN x ELSE pop_block_from_blockchain(x)) \in At(i)
    <2>1. PopsTo(s, b, i - 1, x) /\ x \in States
      OBVIOUS
    <2>2. CASE Tip(x) = b
      BY <2>1, <2>2 DEF PopsTo
    <2>3. CASE Tip(x) # b
      <3>1. i \in Nat \ {0}
        BY SMTT(30), <1>4
      <3>2. PopsTo(s, b, i, pop_block_from_blockchain(x))
        BY <2>1, <2>3, <3>1, PopsOn
      <3>3. pop_block_from_blockchain(x) \in States
        BY <3>2 DEF PopsTo, Goes, Sound, Stored
      <3> QED BY <2>3, <3>2, <3>3
    <2> QED BY <2>2, <2>3
  <1>7. \A i \in 1 .. n : i \in 0 .. n /\ i - 1 \in 0 .. n
    BY SMTT(30), <1>4
  <1>8. s \in T[0] /\ T[n] = At(n) /\ \A i \in 1 .. n : T[i - 1] = At(i - 1) /\ T[i] = At(i)
    <2> HIDE DEF At
    <2> QED BY <1>4, <1>5, <1>7
  <1>9. Pops(s, b, T)
    <2> HIDE DEF At, T
    <2> QED BY <1>1, <1>6, <1>8 DEF Pops
  <1>10. r \in At(n)
    <2> HIDE DEF At, T
    <2> QED BY <1>1, <1>4, <1>8, <1>9, PopFold
  <1>11. PopsTo(s, b, n, r)
    BY <1>10
  <1>12. Tip(r) \in Blocks
    BY <1>11 DEF PopsTo, Goes, Sound, Stored, GoodTip
  <1>13. Height(Tip(r)) \in Nat
    BY <1>12, HeightNat
  <1>14. Height(Tip(r)) + n # Height(Tip(s))
    BY SMTT(30), <1>3, <1>13
  <1> QED BY <1>11, <1>14 DEF PopsTo

(* ConnectAll.  The blocks follow on t and on each other. *)
Linked(t, blocks) ==
  /\ blocks \in Seq(Blocks)
  /\ \A i \in 1 .. Len(blocks) : Prev(blocks[i]) = IF i = 1 THEN t ELSE blocks[i - 1]

(* The first n of them can be connected. *)
Fitting(s, blocks, n) ==
  \A i \in 1 .. n : BlockOK(blocks[i]) /\ \A t \in Range(TxsOf(blocks[i])) : Has(s, t)

Follows(s, blocks, n, x) ==
  /\ x \in [ok : BOOLEAN, s : States, done : Nat]
  /\ Goes(s, x.s) /\ Keeps(s, x.s) /\ x.s.alt = s.alt
  /\ IF x.ok THEN x.done = n ELSE x.done < n
  /\ Tip(x.s) = IF x.done = 0 THEN Tip(s) ELSE blocks[x.done]
  /\ Range(s.main) \subseteq Range(x.s.main)
  /\ Range(x.s.main) \subseteq Range(s.main) \cup Range(blocks)
  /\ Fitting(s, blocks, n) => x.ok

LEMMA FollowOn ==
  ASSUME NEW s, Sound(s), NEW blocks, Linked(Tip(s), blocks), NEW n \in 1 .. Len(blocks),
         NEW x, Follows(s, blocks, n - 1, x), x.ok
  PROVE  Follows(s, blocks, n, ConnectNext(x, blocks[n]))
  <1>1. PICK b : b = blocks[n]
    OBVIOUS
  <1>2. blocks \in Seq(Blocks) /\ Len(blocks) \in Nat /\ n \in Nat /\ n \in DOMAIN blocks /\ n # 0
    BY SMTT(30) DEF Linked
  <1>3. b \in Blocks /\ b \in Range(blocks)
    <2>1. blocks[n] \in Blocks
      BY SMTT(30), <1>2
    <2> QED BY <1>1, <1>2, <2>1 DEF Range
  <1>4. x.done = n - 1 /\ x.s \in States /\ Goes(s, x.s) /\ Keeps(s, x.s) /\ x.s.alt = s.alt
        /\ Range(s.main) \subseteq Range(x.s.main) /\ Range(x.s.main) \subseteq Range(s.main) \cup Range(blocks)
    BY DEF Follows
  <1>5. n - 1 = 0 <=> n = 1
    BY SMTT(30), <1>2
  <1>6. Prev(b) = Tip(x.s)
    BY <1>1, <1>4, <1>5 DEF Follows, Linked
  <1>7. Sound(x.s) /\ FALSE \in BOOLEAN
    BY <1>4 DEF Goes
  <1>8. PICK r : r = handle_block_to_main_chain(x.s, b, {}, FALSE)
    OBVIOUS
  <1>9. /\ r.ok \in BOOLEAN /\ Goes(x.s, r.s) /\ Keeps(x.s, r.s) /\ r.s.alt = x.s.alt
        /\ Tip(r.s) = IF r.ok THEN b ELSE Tip(x.s)
        /\ BlockOK(b) /\ (\A t \in Range(TxsOf(b)) : Has(x.s, t)) => r.ok
    <2>1. Handled(x.s, b, FALSE, r)
      BY <1>3, <1>6, <1>7, <1>8, HandleIs
    <2> QED BY <2>1 DEF Handled
  <1>10. PICK y : y = ConnectNext(x, b)
    OBVIOUS
  <1>11. y = [ok |-> r.ok, s |-> r.s, done |-> IF r.ok THEN x.done + 1 ELSE x.done]
    BY <1>8, <1>10 DEF ConnectNext, Counted
  <1>12. y.ok = r.ok /\ y.s = r.s /\ y.done = IF r.ok THEN n ELSE n - 1
    <2>1. (n - 1) + 1 = n
      BY SMTT(30), <1>2
    <2> QED BY <1>4, <1>11, <2>1
  <1>13. Goes(s, r.s) /\ r.s \in States
    <2>1. Goes(s, r.s)
      BY <1>4, <1>9, GoesThen
    <2> QED BY <2>1 DEF Goes, Sound, Stored
  <1>14. Keeps(s, r.s)
    BY <1>4, <1>9, KeepsThen
  <1>15. n - 1 \in Nat /\ n - 1 < n
    BY SMTT(30), <1>2
  <1>16. y \in [ok : BOOLEAN, s : States, done : Nat]
    BY <1>2, <1>4, <1>9, <1>11, <1>12, <1>13, <1>15
  <1>17. Tip(y.s) = IF y.done = 0 THEN Tip(s) ELSE blocks[y.done]
    BY <1>1, <1>2, <1>4, <1>9, <1>12 DEF Follows
  <1>18. x.s.main = ChainTo[Tip(x.s)] /\ r.s.main = ChainTo[Tip(r.s)]
    BY <1>7, <1>9 DEF Goes, Sound, Stored
  <1>19. Range(r.s.main) = Range(x.s.main) \/ Range(r.s.main) = Range(x.s.main) \cup {b}
    <2>1. CASE r.ok
      <3>1. b # GENESIS
        <4>1. Tip(x.s) \in Blocks
          BY <1>7 DEF Sound, Stored, GoodTip
        <4> QED BY <1>6, <4>1, BlocksAssumption
      <3> QED BY <1>3, <1>6, <1>9, <1>18, <2>1, <3>1, ChainRange
    <2>2. CASE ~ r.ok
      BY <1>9, <1>18, <2>2
    <2> QED BY <2>1, <2>2
  <1>20. Range(s.main) \subseteq Range(r.s.main) /\ Range(r.s.main) \subseteq Range(s.main) \cup Range(blocks)
    BY <1>3, <1>4, <1>19
  <1>21. ASSUME Fitting(s, blocks, n) PROVE r.ok
    <2>1. n \in 1 .. n
      BY SMTT(30), <1>2
    <2>2. BlockOK(b) /\ \A t \in Range(TxsOf(b)) : Has(s, t)
      BY <1>1, <1>21, <2>1 DEF Fitting
    <2>3. Range(TxsOf(b)) \subseteq Txs
      <3>1. TxsOf(b) \in Seq(Txs)
        BY <1>3, BlocksAssumption
      <3> QED BY SMTT(30), <3>1 DEF Range
    <2>4. \A t \in Range(TxsOf(b)) : Has(x.s, t)
      BY <1>4, <2>2, <2>3 DEF Keeps
    <2> QED BY <1>9, <2>2, <2>4
  <1>22. IF y.ok THEN y.done = n ELSE y.done < n
    BY <1>12, <1>15
  <1>23. Follows(s, blocks, n, y)
    BY <1>4, <1>9, <1>12, <1>13, <1>14, <1>16, <1>17, <1>20, <1>21, <1>22 DEF Follows
  <1> QED BY <1>1, <1>10, <1>23

(* The loop of ConnectAll. *)
ConnectRounds(blocks, T) ==
  \A i \in 1 .. Len(blocks) : \A x \in T[i - 1] : (IF ~ x.ok THEN x ELSE ConnectNext(x, blocks[i])) \in T[i]

LEMMA ConnectFold ==
  ASSUME NEW s, NEW blocks \in Seq(Blocks), NEW T, [ok |-> TRUE, s |-> s, done |-> 0] \in T[0], ConnectRounds(blocks, T)
  PROVE  ConnectAll(s, blocks) \in T[Len(blocks)]
  <1> DEFINE n == Len(blocks)
             round(i, x) == (IF ~ x.ok THEN x ELSE ConnectNext(x, blocks[i]))
             g == [i \in 1 .. n |-> [x \in T[i - 1] |-> round(i, x)]]
             body(f) == [i \in 0 .. n |-> IF i = 0 THEN [ok |-> TRUE, s |-> s, done |-> 0] ELSE round(i, f[i - 1])]
             up == CHOOSE f : f = body(f)
  <1>1. n \in Nat /\ n \in 0 .. n /\ 0 \in 0 .. n
    BY SMTT(30)
  <1>2. \A i \in 1 .. n : \A x \in T[i - 1] : g[i][x] = round(i, x) /\ round(i, x) \in T[i]
    BY DEF ConnectRounds
  <1>3. PICK f : IsFold(f, [ok |-> TRUE, s |-> s, done |-> 0], g, T, n)
    <2> HIDE DEF g, n, round
    <2>1. \A i \in 1 .. n : \A x \in T[i - 1] : g[i][x] \in T[i]
      BY <1>2
    <2> QED BY <1>1, <2>1, FoldExists
  <1>4. f = body(f)
    <2> HIDE DEF g, n, round
    <2>1. \A i \in 0 .. n : i = 0 \/ (i \in 1 .. n /\ i - 1 \in 0 .. n)
      BY SMTT(30), <1>1
    <2> QED BY <1>1, <1>2, <1>3, <2>1 DEF IsFold
  <1>5. up = body(up)
    <2> HIDE DEF body
    <2> QED BY <1>4
  <1>6. ConnectAll(s, blocks) = up[n]
    BY DEF ConnectAll
  <1> HIDE DEF up
  <1>7. \A i \in 0 .. n : up[i] = IF i = 0 THEN [ok |-> TRUE, s |-> s, done |-> 0] ELSE round(i, up[i - 1])
    <2> HIDE DEF n, round
    <2> QED BY <1>5
  <1>8. \A i \in 0 .. n : up[i] \in T[i]
    <2> HIDE DEF g, n, round
    <2>1. \A i \in 1 .. n : i \in 0 .. n /\ i # 0
      BY SMTT(30), <1>1
    <2>2. \A i \in 1 .. n : up[i - 1] \in T[i - 1] => up[i] \in T[i]
      BY <1>2, <1>7, <2>1
    <2>3. up[0] \in T[0]
      BY <1>1, <1>7
    <2> QED BY <1>1, <2>2, <2>3, InEach
  <1> QED BY <1>1, <1>6, <1>8

LEMMA ConnectAllIs ==
  ASSUME NEW s, Sound(s), NEW blocks, Linked(Tip(s), blocks)
  PROVE  Follows(s, blocks, Len(blocks), ConnectAll(s, blocks))
  <1>1. PICK n : n = Len(blocks)
    OBVIOUS
  <1>2. blocks \in Seq(Blocks) /\ n \in Nat /\ n \in 0 .. n /\ 0 \in 0 .. n /\ 0 \in Nat
    BY SMTT(30), <1>1 DEF Linked
  <1> DEFINE start == [ok |-> TRUE, s |-> s, done |-> 0]
             R == [ok : BOOLEAN, s : States, done : Nat]
             At(i) == {x \in R : Follows(s, blocks, i, x)}
             T == [i \in 0 .. n |-> At(i)]
  <1>3. start \in At(0)
    <2>1. s \in States /\ Goes(s, s) /\ Keeps(s, s)
      BY GoesSelf DEF Sound, Stored
    <2>2. start.ok = TRUE /\ start.s = s /\ start.done = 0 /\ start \in R
      BY <1>2, <2>1
    <2> HIDE DEF start
    <2>3. Follows(s, blocks, 0, start)
      BY <2>1, <2>2 DEF Follows
    <2> QED BY <2>2, <2>3
  <1>4. ASSUME NEW i \in 1 .. n, NEW x \in At(i - 1)
        PROVE  (IF ~ x.ok THEN x ELSE ConnectNext(x, blocks[i])) \in At(i)
    <2>1. Follows(s, blocks, i - 1, x) /\ x \in R
      OBVIOUS
    <2>2. CASE x.ok
      <3>1. Follows(s, blocks, i, ConnectNext(x, blocks[i]))
        BY <1>1, <2>1, <2>2, FollowOn
      <3>2. ConnectNext(x, blocks[i]) \in R
        BY <3>1 DEF Follows
      <3> QED BY <2>2, <3>1, <3>2
    <2>3. CASE ~ x.ok
      <3>1. x.done \in Nat /\ x.done < i - 1
        BY <2>1, <2>3 DEF Follows
      <3>2. x.done < i /\ 1 .. i - 1 \subseteq 1 .. i
        BY SMTT(30), <1>2, <3>1
      <3>3. ~ Fitting(s, blocks, i)
        <4>1. ~ Fitting(s, blocks, i - 1)
          BY <2>1, <2>3 DEF Follows
        <4> QED BY <3>2, <4>1 DEF Fitting
      <3>4. Follows(s, blocks, i, x)
        BY <2>1, <2>3, <3>2, <3>3 DEF Follows
      <3> QED BY <2>1, <2>3, <3>4
    <2> QED BY <2>2, <2>3
  <1>5. \A i \in 1 .. n : i \in 0 .. n /\ i - 1 \in 0 .. n
    BY SMTT(30), <1>2
  <1>6. start \in T[0] /\ T[n] = At(n) /\ \A i \in 1 .. n : T[i - 1] = At(i - 1) /\ T[i] = At(i)
    <2> HIDE DEF At, start
    <2> QED BY <1>2, <1>3, <1>5
  <1>7. ConnectRounds(blocks, T)
    <2> HIDE DEF At, T
    <2> QED BY <1>1, <1>4, <1>6 DEF ConnectRounds
  <1>8. ConnectAll(s, blocks) \in At(n)
    <2> HIDE DEF At, T
    <2> QED BY SMTT(30), <1>1, <1>2, <1>6, <1>7, ConnectFold
  <1> QED BY <1>1, <1>8

LEMMA LeastIn ==
  ASSUME NEW S, S \subseteq Nat, S # {}
  PROVE  \E x \in S : \A y \in S : x <= y
  <1> DEFINE R == OpToRel(<, Nat)
  <1>1. R = {p \in Nat \X Nat : p[1] < p[2]} /\ IsWellFoundedOn(R, Nat)
    BY NatLessThanWellFounded DEF OpToRel
  <1> HIDE DEF R
  <1>2. PICK x \in S : \A y \in S : <<y, x>> \notin R
    BY <1>1, WFMin
  <1>3. ASSUME NEW y \in S PROVE x <= y
    <2>1. <<y, x>> \notin {p \in Nat \X Nat : p[1] < p[2]}
      BY <1>1, <1>2
    <2> QED BY SMTT(30), <2>1
  <1> QED BY <1>3

LEMMA MaxIs ==
  ASSUME NEW k \in Nat, NEW S, S \subseteq 0 .. k, S # {}
  PROVE  Max(S) \in S /\ \A y \in S : Max(S) >= y
  <1> DEFINE T == {k - x : x \in S}
  <1>1. T \subseteq Nat /\ T # {}
    <2>1. \A x \in S : k - x \in Nat
      BY SMTT(30)
    <2> QED BY <2>1
  <1>2. PICK t \in T : \A u \in T : t <= u
    <2> HIDE DEF T
    <2> QED BY <1>1, LeastIn
  <1>3. PICK x \in S : t = k - x
    BY <1>2
  <1>4. ASSUME NEW y \in S PROVE x >= y
    <2>1. k - x <= k - y
      BY <1>2, <1>3
    <2>2. x \in 0 .. k /\ y \in 0 .. k
      OBVIOUS
    <2> QED BY SMTT(30), <2>1, <2>2
  <1> QED BY <1>4 DEF Max

-----------------------------------------------------------------------------
(* switch_to_alternative_blockchain. *)

(* The part of a chain above one of its blocks. *)
Stretch(t, m, L) ==
  /\ Linked(ChainTo[t][m], L) /\ Len(L) = Height(t) + 1 - m
  /\ \A i \in 1 .. Len(L) : /\ L[i] = ChainTo[t][m + i] /\ m + i \in 1 .. Height(t) + 1
                            /\ Height(L[i]) = m + i - 1 /\ L[i] \in Range(ChainTo[t])
  /\ L # <<>> => Prev(L[1]) = ChainTo[t][m] /\ Height(L[1]) = m /\ L[Len(L)] = t
  /\ L = <<>> => ChainTo[t][m] = t

LEMMA LinkedSub ==
  ASSUME NEW t \in Blocks, NEW m \in 1 .. Height(t) + 1, NEW L, L = SubSeq(ChainTo[t], m + 1, Height(t) + 1)
  PROVE  Stretch(t, m, L)
  <1> SUFFICES /\ Linked(ChainTo[t][m], L) /\ Len(L) = Height(t) + 1 - m
               /\ \A i \in 1 .. Len(L) : /\ L[i] = ChainTo[t][m + i] /\ m + i \in 1 .. Height(t) + 1
                                         /\ Height(L[i]) = m + i - 1 /\ L[i] \in Range(ChainTo[t])
               /\ L # <<>> => Prev(L[1]) = ChainTo[t][m] /\ Height(L[1]) = m /\ L[Len(L)] = t
               /\ L = <<>> => ChainTo[t][m] = t
    BY DEF Stretch
  <1>1. PICK C : C = ChainTo[t] /\ Chain(t, C)
    BY ChainIs
  <1>2. PICK n : n = Height(t) /\ n \in Nat /\ m \in 1 .. n + 1
    BY HeightNat
  <1>3. C \in Seq(Blocks) /\ Len(C) = n + 1 /\ C[n + 1] = t
        /\ \A j \in 1 .. n + 1 : C[j] \in Blocks /\ Height(C[j]) = j - 1 /\ (j > 1 => Prev(C[j]) = C[j - 1])
    BY <1>1, <1>2 DEF Chain
  <1>4. L = SubSeq(C, m + 1, n + 1)
    BY <1>1, <1>2
  <1>5. L \in Seq(Blocks) /\ Len(L) = n + 1 - m /\ \A i \in 1 .. n + 1 - m : L[i] = C[m + i]
    <2>1. m + 1 \in 1 .. Len(C) + 1 /\ n + 1 \in m .. Len(C) /\ C \in Seq(Blocks)
      BY SMTT(30), <1>2, <1>3
    <2>2. Len(L) = n + 1 - m
      BY SMTT(30), <1>2, <1>4, <2>1
    <2>3. \A i \in 1 .. n + 1 - m : L[i] = C[m + i]
      BY SMTT(30), <1>2, <1>4, <2>1
    <2>4. PICK k \in Nat : k = n + 1 - m
      BY SMTT(30), <1>2
    <2>5. DOMAIN L = 1 .. k /\ L = [i \in 1 .. k |-> L[i]]
      BY SMTT(30), <1>2, <1>4, <2>1, <2>4
    <2>6. ASSUME NEW i \in 1 .. k PROVE L[i] \in Blocks
      <3>1. m + i \in 1 .. n + 1
        BY SMTT(30), <1>2, <2>4
      <3> QED BY <1>3, <2>3, <2>4, <3>1
    <2>7. L \in [1 .. k -> Blocks]
      BY <2>5, <2>6
    <2>8. L \in Seq(Blocks)
      BY <2>4, <2>7, SeqIs
    <2> QED BY <2>2, <2>3, <2>8
  <1>6. \A i \in 1 .. n + 1 - m :
          /\ m + i \in 1 .. n + 1 /\ m + i > 1 /\ m + i \in DOMAIN C
          /\ (m + i) - 1 = m + (i - 1)
          /\ i # 1 => i - 1 \in 1 .. n + 1 - m
          /\ i = 1 => m + (i - 1) = m
    BY SMTT(30), <1>2, <1>3
  <1>7. ASSUME NEW i \in 1 .. n + 1 - m PROVE Prev(L[i]) = IF i = 1 THEN C[m] ELSE L[i - 1]
    <2>1. L[i] = C[m + i] /\ m + i \in 1 .. n + 1 /\ m + i > 1
      BY <1>5, <1>6
    <2>2. Prev(L[i]) = C[m + (i - 1)]
      <3>1. Prev(C[m + i]) = C[(m + i) - 1]
        BY <1>3, <2>1
      <3> QED BY <1>6, <2>1, <3>1
    <2>3. CASE i = 1
      <3>1. m + (i - 1) = m
        BY <1>6, <2>3
      <3> QED BY <2>2, <2>3, <3>1
    <2>4. CASE i # 1
      <3>1. i - 1 \in 1 .. n + 1 - m
        BY <1>6, <2>4
      <3>2. L[i - 1] = C[m + (i - 1)]
        BY <1>5, <3>1
      <3> QED BY <2>2, <2>4, <3>1, <3>2
    <2> QED BY <2>3, <2>4
  <1>8. Linked(C[m], L)
    BY <1>5, <1>7 DEF Linked
  <1>9. \A i \in 1 .. Len(L) : L[i] = C[m + i] /\ m + i \in 1 .. n + 1 /\ Height(L[i]) = m + i - 1 /\ L[i] \in Range(C)
    <2> SUFFICES ASSUME NEW i \in 1 .. n + 1 - m
                 PROVE  L[i] = C[m + i] /\ m + i \in 1 .. n + 1 /\ Height(L[i]) = m + i - 1 /\ L[i] \in Range(C)
      BY <1>5
    <2>1. L[i] = C[m + i] /\ m + i \in 1 .. n + 1 /\ m + i \in DOMAIN C
      BY <1>5, <1>6
    <2>2. Height(C[m + i]) = m + (i - 1)
      <3>1. Height(C[m + i]) = (m + i) - 1
        BY <1>3, <2>1
      <3> QED BY <1>6, <3>1
    <2> QED BY <2>1, <2>2 DEF Range
  <1>10. ASSUME L # <<>> PROVE Prev(L[1]) = C[m] /\ Height(L[1]) = m /\ L[Len(L)] = t
    <2>1. 1 \in 1 .. n + 1 - m /\ n + 1 - m \in 1 .. n + 1 - m /\ m + (n + 1 - m) = n + 1 /\ m + 1 - 1 = m
      BY SMTT(40), <1>2, <1>5, <1>10
    <2> QED BY <1>3, <1>5, <1>7, <1>9, <2>1
  <1>11. ASSUME L = <<>> PROVE C[m] = t
    <2>1. m = n + 1
      BY SMTT(30), <1>2, <1>5, <1>11
    <2> QED BY <1>3, <2>1
  <1> QED BY <1>1, <1>2, <1>5, <1>8, <1>9, <1>10, <1>11

(* No block is both on the main chain and an alternative, and, unless      *)
(* blocks were popped by command, no alternative has more work than the    *)
(* tip.                                                                    *)
Beside(s) == s.alt \cap Range(s.main) = {}
Low(s) == \A a \in s.alt : Work(a) <= Work(Tip(s))

(* build_alt_chain. *)
LEMMA AltChainIs ==
  ASSUME NEW s, Sound(s), Beside(s), NEW b \in Blocks, b # GENESIS,
         Prev(b) \in s.alt \cup Range(s.main), Connects(s, AltChain(s, Prev(b)))
  PROVE  \E m \in 1 .. Height(b) :
            /\ Append(AltChain(s, Prev(b)), b) = SubSeq(ChainTo[b], m + 1, Height(b) + 1)
            /\ ChainTo[b][m] \in Range(s.main)
  <1>1. PICK p : p = Prev(b)
    OBVIOUS
  <1>2. p \in Blocks /\ Height(b) = Height(p) + 1 /\ ChainTo[b] = Append(ChainTo[p], b)
    BY <1>1, ChainStep
  <1>3. PICK c : c = ChainTo[p]
    OBVIOUS
  <1>4. PICK n : n = Height(p) + 1 /\ n \in Nat \ {0} /\ Height(b) = n
    BY SMTT(30), <1>2, HeightNat
  <1>5. c \in Seq(Blocks) /\ Len(c) = n /\ c[n] = p
    BY <1>2, <1>3, <1>4, ChainLast
  <1>6. Tip(s) \in Blocks /\ s.main = ChainTo[Tip(s)]
    BY DEF Sound, Stored, GoodTip
  <1>7. c[1] = GENESIS /\ GENESIS \in Range(s.main)
    BY <1>2, <1>3, <1>6, GenesisFirst
  <1> DEFINE S == {i \in 0 .. n : i = 0 \/ c[i] \notin s.alt}
  <1>8. 1 \in S /\ S \subseteq 0 .. n /\ S # {} /\ n \in 0 .. n
    <2>1. 1 \in 0 .. n /\ n \in 0 .. n
      BY SMTT(30), <1>4
    <2> QED BY <1>7, <2>1 DEF Beside
  <1>9. PICK m : m = Max(S)
    OBVIOUS
  <1>10. m \in S /\ \A y \in S : m >= y
    <2> HIDE DEF S
    <2> QED BY <1>4, <1>8, <1>9, MaxIs
  <1>11. m \in 1 .. n /\ m # 0
    BY SMTT(30), <1>4, <1>8, <1>10
  <1>12. AltChain(s, p) = SubSeq(c, m + 1, n)
    BY <1>3, <1>5, <1>9 DEF AltChain
  <1>13. c[m] \notin s.alt
    BY <1>10, <1>11
  <1>14. PICK A : A = AltChain(s, p)
    OBVIOUS
  <1>15. c[m] \in Range(s.main)
    <2>1. CASE A = <<>>
      <3>1. m = n
        BY SMTT(30), <1>4, <1>5, <1>11, <1>12, <1>14, <2>1
      <3> QED BY <1>1, <1>5, <1>13, <3>1
    <2>2. CASE A # <<>>
      <3>1. OnMain(s, Prev(A[1]))
        BY <1>1, <1>14, <2>2 DEF Connects
      <3>2. m \in 1 .. Height(p) + 1 /\ A = SubSeq(ChainTo[p], m + 1, Height(p) + 1)
        BY <1>3, <1>4, <1>11, <1>12, <1>14
      <3>3. Prev(A[1]) = c[m]
        <4>1. Stretch(p, m, A)
          BY <1>2, <1>3, <2>2, <3>2, LinkedSub
        <4> QED BY <1>3, <2>2, <4>1 DEF Stretch
      <3> QED BY <3>1, <3>3 DEF OnMain
    <2> QED BY <2>1, <2>2
  <1>16. PICK d : d = Append(c, b)
    OBVIOUS
  <1> HIDE DEF S
  <1>17. Append(SubSeq(c, m + 1, n), b) = SubSeq(d, m + 1, n + 1) /\ d[m] = c[m]
    BY SMTT(30), <1>4, <1>5, <1>11, <1>16
  <1>18. d = ChainTo[b]
    BY <1>2, <1>3, <1>16
  <1> QED BY <1>1, <1>4, <1>11, <1>12, <1>15, <1>17, <1>18

WithAlt(s, a) == [s EXCEPT !.alt = a]

AltKept(s, a, r) ==
  Goes(s, r) /\ r \in States /\ r.main = s.main /\ r.alt = a /\ Tip(r) = Tip(s)

LEMMA AltPut ==
  ASSUME NEW s, Sound(s), NEW a \in SUBSET Blocks, NEW r, r = WithAlt(s, a)
  PROVE  AltKept(s, a, r)
  <1> SUFFICES Goes(s, r) /\ r \in States /\ r.main = s.main /\ r.alt = a /\ Tip(r) = Tip(s)
    BY DEF AltKept
  <1>1. s \in States
    BY DEF Sound, Stored
  <1>2. /\ r \in States /\ r.main = s.main /\ r.timedOut = s.timedOut /\ r.alt = a
        /\ r.template = s.template /\ r.pool = s.pool /\ r.images = s.images /\ r.listed = s.listed
        /\ r.weight = s.weight /\ r.verdicts = s.verdicts /\ r.broken = s.broken
    BY <1>1 DEF States, WithAlt
  <1>3. Tip(r) = Tip(s)
    BY <1>2 DEF Tip
  <1>4. Sound(r)
    BY <1>2, <1>3 DEF Sound, Stored, CacheRight, TemplateRight
  <1>5. Indexed(s) => Indexed(r)
    BY <1>2 DEF Indexed, Indexes
  <1> QED BY <1>2, <1>3, <1>4, <1>5 DEF Goes

LEMMA LastLeft ==
  ASSUME NEW S, NEW q \in Seq(S), NEW d \in Nat, d < Len(q)
  PROVE  q[Len(q)] \in Range(SubSeq(q, d + 1, Len(q)))
  <1>1. PICK r : r = SubSeq(q, d + 1, Len(q))
    OBVIOUS
  <1>2. Len(q) - d \in DOMAIN r /\ r[Len(q) - d] = q[Len(q)]
    BY SMTT(30), <1>1
  <1> QED BY <1>1, <1>2 DEF Range

(* A failed switch gives the old chain back: its blocks were right, and    *)
(* none of their transactions is lost.                                     *)
RolledBack(s, x, r) ==
  Goes(x, r) /\ r.alt = x.alt /\ Tip(r) = Tip(s)

LEMMA RollbackIs ==
  ASSUME NEW s, Sound(s), NEW m \in 1 .. Height(Tip(s)) + 1, NEW split, split = ChainTo[Tip(s)][m],
         NEW original, original = SubSeq(s.main, m + 1, Len(s.main)),
         NEW x, Sound(x), Keeps(s, x), split \in Range(x.main),
         NEW r, r = rollback_blockchain_switching(x, original, split)
  PROVE  RolledBack(s, x, r)
  <1> SUFFICES Goes(x, r) /\ r.alt = x.alt /\ Tip(r) = Tip(s)
    BY DEF RolledBack
  <1>1. PICK t : t = Tip(s)
    OBVIOUS
  <1>2. t \in Blocks /\ s.main = ChainTo[t] /\ GoodTip(t)
    BY <1>1 DEF Sound, Stored, GoodTip
  <1>3. Len(s.main) = Height(t) + 1
    BY <1>2, ChainLast
  <1>4. original = SubSeq(ChainTo[t], m + 1, Height(t) + 1)
    BY <1>2, <1>3
  <1>5. /\ Linked(split, original)
        /\ \A i \in 1 .. Len(original) : /\ original[i] = ChainTo[t][m + i] /\ m + i \in 1 .. Height(t) + 1
                                         /\ Height(original[i]) = m + i - 1 /\ original[i] \in Range(ChainTo[t])
        /\ original # <<>> => original[Len(original)] = t
        /\ original = <<>> => split = t
    <2>1. Stretch(t, m, original)
      BY <1>1, <1>2, <1>4, LinkedSub
    <2> QED BY <1>1, <2>1 DEF Stretch
  <1>6. PICK y : y = PopTo(x, split)
    OBVIOUS
  <1>7. Goes(x, y) /\ Keeps(x, y) /\ y.alt = x.alt /\ Tip(y) = split
    BY <1>6, PopToIs
  <1>8. Sound(y) /\ Keeps(s, y)
    BY <1>7, KeepsThen DEF Goes
  <1>9. PICK z : z = ConnectAll(y, original)
    OBVIOUS
  <1>10. Follows(y, original, Len(original), z)
    BY <1>5, <1>7, <1>8, <1>9, ConnectAllIs
  <1>11. original \in Seq(Blocks) /\ m \in Nat \ {0}
    <2>1. Height(t) \in Nat
      BY <1>2, HeightNat
    <2>2. m \in Nat \ {0}
      BY SMTT(30), <1>1, <2>1
    <2> QED BY <1>5, <2>2 DEF Linked
  <1>12. ASSUME NEW i \in 1 .. Len(original)
         PROVE  BlockOK(original[i]) /\ \A u \in Range(TxsOf(original[i])) : Has(y, u)
    <2>1. PICK a : a = original[i]
      OBVIOUS
    <2>2. a \in Range(ChainTo[t]) /\ Height(a) = m + i - 1
      BY <1>5, <2>1
    <2>3. m + i - 1 # 0
      BY SMTT(30), <1>11
    <2>4. a # GENESIS
      BY <2>2, <2>3, BlocksAssumption
    <2>5. BlockOK(a)
      BY <1>2, <2>2, <2>4 DEF GoodTip
    <2>6. Range(TxsOf(a)) \subseteq Mined(s.main)
      BY <1>2, <2>2, MinedIn
    <2>7. Mined(s.main) \subseteq Txs
      <3>1. s.main \in Seq(Blocks)
        BY <1>2, ChainLast
      <3> QED BY <3>1, MinedType
    <2>8. \A u \in Range(TxsOf(a)) : Has(y, u)
      BY <1>8, <2>6, <2>7 DEF Keeps, Has
    <2> QED BY <2>1, <2>5, <2>8
  <1>13. Fitting(y, original, Len(original))
    BY <1>12 DEF Fitting
  <1>14. Goes(y, z.s) /\ z.s.alt = y.alt /\ z.ok /\ z.done = Len(original)
         /\ Tip(z.s) = IF z.done = 0 THEN split ELSE original[z.done]
    BY <1>7, <1>10, <1>13 DEF Follows
  <1>15. Len(original) = 0 <=> original = <<>>
    <2>1. Len(original) = 0 => original = <<>>
      BY SMTT(30), <1>11
    <2>2. Len(<<>>) = 0
      BY SMTT(30)
    <2> QED BY <2>1, <2>2
  <1>16. Tip(z.s) = t
    BY <1>5, <1>14, <1>15
  <1>17. r = z.s
    BY <1>6, <1>9 DEF rollback_blockchain_switching
  <1>18. Goes(x, r)
    BY <1>7, <1>14, <1>17, GoesThen
  <1> QED BY <1>1, <1>7, <1>14, <1>16, <1>17, <1>18

(* Switches(s, b, r): to b, or back. *)
Switches(s, b, r) ==
  /\ r.ok \in BOOLEAN /\ Goes(s, r.s)
  /\ IF r.ok THEN /\ Tip(r.s) = b /\ r.s.alt \subseteq s.alt \cup Range(s.main)
                  /\ b \notin r.s.alt /\ Beside(r.s)
     ELSE Tip(r.s) = Tip(s) /\ r.s.alt \subseteq s.alt \ {b}

LEMMA SwitchIs ==
  ASSUME NEW s, Sound(s), Beside(s), NEW b \in Blocks, NEW m \in 1 .. Height(b), ChainTo[b][m] \in Range(s.main),
         NEW blocks, blocks = SubSeq(ChainTo[b], m + 1, Height(b) + 1)
  PROVE  Switches(s, b, switch_to_alternative_blockchain(s, blocks))
  <1>1. PICK t : t = Tip(s)
    OBVIOUS
  <1>2. PICK split : split = ChainTo[b][m]
    OBVIOUS
  <1>3. t \in Blocks /\ s.main = ChainTo[t] /\ s.alt \subseteq Blocks
    BY <1>1, StateIs DEF Sound, Stored, GoodTip
  <1>4. Height(b) \in Nat /\ Height(t) \in Nat
    BY <1>3, HeightNat
  <1>5. m \in Nat \ {0} /\ m \in 1 .. Height(b) + 1 /\ (m - 1) + 1 = m
    BY SMTT(30), <1>4
  <1>6. /\ Linked(split, blocks) /\ Len(blocks) = Height(b) + 1 - m
        /\ blocks # <<>> => Prev(blocks[1]) = split /\ Height(blocks[1]) = m /\ blocks[Len(blocks)] = b
    <2>1. Stretch(b, m, blocks)
      BY <1>2, <1>5, LinkedSub
    <2> QED BY <1>2, <2>1 DEF Stretch
  <1>7. blocks \in Seq(Blocks) /\ Len(blocks) \in Nat \ {0} /\ blocks # <<>>
    <2>1. blocks \in Seq(Blocks)
      BY <1>6 DEF Linked
    <2>2. Len(blocks) \in Nat \ {0}
      BY SMTT(30), <1>4, <1>5, <1>6
    <2>3. Len(<<>>) = 0
      BY SMTT(30)
    <2> QED BY <2>1, <2>2, <2>3
  <1>8. Height(split) = m - 1
    BY <1>2, <1>5, Prefix
  <1>9. split \in Range(ChainTo[t])
    BY <1>2, <1>3
  <1>10. Height(split) + 1 \in 1 .. Height(t) + 1 /\ ChainTo[t][Height(split) + 1] = split
    BY <1>3, <1>9, OnChain
  <1>11. m \in 1 .. Height(t) + 1 /\ split = ChainTo[t][m]
    BY <1>5, <1>8, <1>10
  <1>12. PICK original : original = SubSeq(s.main, m + 1, Len(s.main))
    OBVIOUS
  <1>13. Len(s.main) = Height(t) + 1
    BY <1>3, ChainLast
  <1>14. /\ Linked(split, original)
         /\ \A i \in 1 .. Len(original) : Height(original[i]) = m + i - 1 /\ original[i] \in Range(ChainTo[t])
    <2>1. Stretch(t, m, original)
      BY <1>3, <1>11, <1>12, <1>13, LinkedSub
    <2> QED BY <1>11, <2>1 DEF Stretch
  <1>15. PICK s1 : s1 = PopTo(s, split)
    OBVIOUS
  <1>16. Goes(s, s1) /\ Keeps(s, s1) /\ s1.alt = s.alt /\ Tip(s1) = split
    BY <1>3, <1>9, <1>15, PopToIs
  <1>17. Sound(s1) /\ s1.main = ChainTo[split]
    BY <1>16 DEF Goes, Sound, Stored
  <1>18. PICK x : x = ConnectAll(s1, blocks)
    OBVIOUS
  <1>19. Follows(s1, blocks, Len(blocks), x)
    BY <1>6, <1>16, <1>17, <1>18, ConnectAllIs
  <1>20. /\ x.ok \in BOOLEAN /\ x.done \in Nat /\ Goes(s1, x.s) /\ Keeps(s1, x.s) /\ x.s.alt = s.alt
         /\ IF x.ok THEN x.done = Len(blocks) ELSE x.done < Len(blocks)
         /\ Tip(x.s) = IF x.done = 0 THEN split ELSE blocks[x.done]
         /\ Range(s1.main) \subseteq Range(x.s.main)
         /\ Range(x.s.main) \subseteq Range(s1.main) \cup Range(blocks)
    BY <1>16, <1>19 DEF Follows
  <1>21. Goes(s, x.s) /\ Sound(x.s) /\ Keeps(s, x.s)
    <2>1. Goes(s, x.s)
      BY <1>16, <1>20, GoesThen
    <2>2. Keeps(s, x.s)
      BY <1>16, <1>20, KeepsThen
    <2> QED BY <2>1, <2>2 DEF Goes
  <1>22. PICK r : r = switch_to_alternative_blockchain(s, blocks)
    OBVIOUS
  <1>23. r = Switched(x, blocks, original)
    BY <1>6, <1>7, <1>12, <1>15, <1>18, <1>22 DEF switch_to_alternative_blockchain
  <1>24. CASE x.ok
    <2>1. PICK a : a = (x.s.alt \cup Range(original)) \ Range(blocks)
      OBVIOUS
    <2>2. original \in Seq(Blocks) /\ DOMAIN original = 1 .. Len(original)
      BY SMTT(30), <1>14 DEF Linked
    <2>3. ASSUME NEW c \in Range(original) PROVE c \in Range(s.main) /\ c \in Blocks /\ c \notin Range(ChainTo[split])
      <3>1. PICK i \in 1 .. Len(original) : c = original[i]
        BY <2>2 DEF Range
      <3>2. c \in Range(ChainTo[t]) /\ Height(c) = m + i - 1
        BY <1>14, <3>1
      <3>3. c \in Blocks
        BY <1>3, <3>2, OnChain
      <3>4. ~(m + i - 1 <= m - 1) /\ Len(original) \in Nat
        BY SMTT(30), <1>5, <2>2
      <3>5. ASSUME c \in Range(ChainTo[split]) PROVE FALSE
        <4>1. split \in Blocks
          BY <1>3, <1>9, OnChain
        <4>2. Height(c) <= Height(split)
          BY <3>5, <4>1, ChainBelow
        <4> QED BY <1>8, <3>2, <3>4, <4>2
      <3> QED BY <1>3, <3>2, <3>3, <3>5
    <2>4. a \in SUBSET Blocks
      BY <1>3, <1>20, <2>1, <2>3
    <2>5. r.ok = TRUE /\ r.s = [x.s EXCEPT !.alt = a]
      BY <1>23, <1>24, <2>1 DEF Switched
    <2>6. Goes(x.s, r.s) /\ r.s.main = x.s.main /\ r.s.alt = a /\ Tip(r.s) = Tip(x.s)
      <3>1. r.s = WithAlt(x.s, a)
        BY <2>5 DEF WithAlt
      <3>2. AltKept(x.s, a, r.s)
        BY <1>21, <2>4, <3>1, AltPut
      <3> QED BY <3>2 DEF AltKept
    <2>7. Goes(s, r.s)
      BY <1>21, <2>6, GoesThen
    <2>8. Tip(x.s) = b
      BY <1>6, <1>7, <1>20, <1>24
    <2>9. b \in Range(blocks)
      <3>1. Len(blocks) \in DOMAIN blocks
        BY SMTT(30), <1>7
      <3> QED BY <1>6, <1>7, <3>1 DEF Range
    <2>10. Range(ChainTo[split]) \subseteq Range(s.main)
      BY <1>3, <1>9, ChainBelow
    <2>11. Beside(r.s)
      <3> SUFFICES ASSUME NEW c \in a, c \in Range(x.s.main) PROVE FALSE
        BY <2>6 DEF Beside
      <3>1. c \in Range(ChainTo[split])
        BY <1>17, <1>20, <2>1
      <3>2. CASE c \in s.alt
        BY <2>10, <3>1, <3>2 DEF Beside
      <3>3. CASE c \in Range(original)
        BY <2>3, <3>1, <3>3
      <3> QED BY <1>20, <2>1, <3>2, <3>3
    <2>12. a \subseteq s.alt \cup Range(s.main) /\ b \notin a
      BY <1>20, <2>1, <2>3, <2>9
    <2> QED BY <1>22, <2>5, <2>6, <2>7, <2>8, <2>11, <2>12 DEF Switches
  <1>25. CASE ~ x.ok
    <2>1. PICK y : y = rollback_blockchain_switching(x.s, original, split)
      OBVIOUS
    <2>2. PICK left : left = Range(SubSeq(blocks, x.done + 1, Len(blocks)))
      OBVIOUS
    <2>3. r.ok = FALSE /\ r.s = [y EXCEPT !.alt = y.alt \ left]
      <3>1. r = Refused([y EXCEPT !.alt = y.alt \ left])
        BY <1>6, <1>7, <1>23, <1>25, <2>1, <2>2 DEF Switched, SwitchedBack
      <3> QED BY <3>1 DEF Refused
    <2>4. split \in Range(x.s.main)
      <3>1. split \in Blocks
        BY <1>3, <1>9, OnChain
      <3>2. split \in Range(ChainTo[split])
        BY <3>1, ChainLast
      <3> QED BY <1>17, <1>20, <3>2
    <2>5. Goes(x.s, y) /\ y.alt = x.s.alt /\ Tip(y) = Tip(s)
      <3>1. m \in 1 .. Height(Tip(s)) + 1 /\ split = ChainTo[Tip(s)][m]
        BY <1>1, <1>11
      <3>2. RolledBack(s, x.s, y)
        BY <1>12, <1>21, <2>1, <2>4, <3>1, RollbackIs
      <3> QED BY <3>2 DEF RolledBack
    <2>6. Sound(y) /\ y.alt \ left \in SUBSET Blocks
      BY <1>3, <1>20, <2>5 DEF Goes
    <2>7. Goes(y, r.s) /\ r.s.alt = y.alt \ left /\ Tip(r.s) = Tip(y)
      <3>1. r.s = WithAlt(y, y.alt \ left)
        BY <2>3 DEF WithAlt
      <3>2. AltKept(y, y.alt \ left, r.s)
        BY <2>6, <3>1, AltPut
      <3> QED BY <3>2 DEF AltKept
    <2>8. Goes(x.s, r.s)
      BY <2>5, <2>7, GoesThen
    <2>9. Goes(s, r.s)
      BY <1>21, <2>8, GoesThen
    <2>10. b \in left
      <3>1. blocks[Len(blocks)] \in left
        BY <1>7, <1>20, <1>25, <2>2, LastLeft
      <3> QED BY <1>6, <1>7, <3>1
    <2> QED BY <1>20, <1>22, <2>3, <2>5, <2>7, <2>9, <2>10 DEF Switches
  <1> QED BY <1>20, <1>24, <1>25

(* add_new_block. *)

(* What an operation returns. *)
IsResult(r) == \E o, q : r = [ok |-> o, s |-> q]

LEMMA ResultIs ==
  ASSUME NEW r, IsResult(r)
  PROVE  r = [ok |-> r.ok, s |-> r.s]
  <1>1. PICK o, q : r = [ok |-> o, s |-> q]
    BY DEF IsResult
  <1>2. r.ok = o /\ r.s = q
    BY <1>1
  <1> QED BY <1>1, <1>2

LEMMA SimpleResult ==
  ASSUME NEW s
  PROVE  IsResult(Refused(s)) /\ IsResult(Added(s))
  BY DEF IsResult, Refused, Added

LEMMA AddTxForm ==
  ASSUME NEW s, NEW t, NEW relay, NEW r, r = add_tx(s, t, relay)
  PROVE  r = [ok |-> r.ok, s |-> r.s]
  <1>1. ASSUME NEW x, NEW p, NEW refused PROVE IsResult(StoreNew(x, t, p, refused))
    BY SimpleResult DEF StoreNew
  <1>2. ASSUME NEW x, NEW p PROVE IsResult(Upgrade(x, t, p))
    BY <1>1, SimpleResult DEF Upgrade
  <1>3. ASSUME NEW x, NEW p PROVE IsResult(AddChecked(x, t, p))
    BY <1>2 DEF AddChecked
  <1>4. IsResult(AddKept(s, t))
    BY <1>1 DEF AddKept
  <1>5. IsResult(r)
    BY <1>3, <1>4, SimpleResult DEF add_tx
  <1> QED BY <1>5, ResultIs

(* The loop over the supplement. *)
SupplementRounds(txs, T) ==
  \A i \in 1 .. Len(HashOrder) : \A x \in T[i - 1] : (IF x.ok /\ HashOrder[i] \in txs THEN SupplementOne(x, HashOrder[i]) ELSE x) \in T[i]

LEMMA SupplementFold ==
  ASSUME NEW s, NEW txs, NEW T, [ok |-> TRUE, s |-> s] \in T[0], SupplementRounds(txs, T)
  PROVE  Supplement(s, txs) \in T[Len(HashOrder)]
  <1> DEFINE n == Len(HashOrder)
             round(i, x) == (IF x.ok /\ HashOrder[i] \in txs THEN SupplementOne(x, HashOrder[i]) ELSE x)
             g == [i \in 1 .. n |-> [x \in T[i - 1] |-> round(i, x)]]
             body(f) == [i \in 0 .. n |-> IF i = 0 THEN [ok |-> TRUE, s |-> s] ELSE round(i, f[i - 1])]
             up == CHOOSE f : f = body(f)
  <1>1. n \in Nat /\ n \in 0 .. n /\ 0 \in 0 .. n
    BY SMTT(30), TxAssumption
  <1>2. \A i \in 1 .. n : \A x \in T[i - 1] : g[i][x] = round(i, x) /\ round(i, x) \in T[i]
    BY DEF SupplementRounds
  <1>3. PICK f : IsFold(f, [ok |-> TRUE, s |-> s], g, T, n)
    <2> HIDE DEF g, n, round
    <2>1. \A i \in 1 .. n : \A x \in T[i - 1] : g[i][x] \in T[i]
      BY <1>2
    <2> QED BY <1>1, <2>1, FoldExists
  <1>4. f = body(f)
    <2> HIDE DEF g, n, round
    <2>1. \A i \in 0 .. n : i = 0 \/ (i \in 1 .. n /\ i - 1 \in 0 .. n)
      BY SMTT(30), <1>1
    <2> QED BY <1>1, <1>2, <1>3, <2>1 DEF IsFold
  <1>5. up = body(up)
    <2> HIDE DEF body
    <2> QED BY <1>4
  <1>6. Supplement(s, txs) = up[n]
    BY DEF Supplement
  <1> HIDE DEF up
  <1>7. \A i \in 0 .. n : up[i] = IF i = 0 THEN [ok |-> TRUE, s |-> s] ELSE round(i, up[i - 1])
    <2> HIDE DEF n, round
    <2> QED BY <1>5
  <1>8. \A i \in 0 .. n : up[i] \in T[i]
    <2> HIDE DEF g, n, round
    <2>1. \A i \in 1 .. n : i \in 0 .. n /\ i # 0
      BY SMTT(30), <1>1
    <2>2. \A i \in 1 .. n : up[i - 1] \in T[i - 1] => up[i] \in T[i]
      BY <1>2, <1>7, <2>1
    <2>3. up[0] \in T[0]
      BY <1>1, <1>7
    <2> QED BY <1>1, <2>2, <2>3, InEach
  <1> QED BY <1>1, <1>6, <1>8

LEMMA SupplementIs ==
  ASSUME NEW s, Stored(s), NEW txs
  PROVE  Supplement(s, txs) \in [ok : BOOLEAN, s : States] /\ Puts(s, Supplement(s, txs).s)
  <1> DEFINE n == Len(HashOrder)
             start == [ok |-> TRUE, s |-> s]
             A == {x \in [ok : BOOLEAN, s : States] : Puts(s, x.s)}
             T == [i \in 0 .. n |-> A]
  <1>1. n \in Nat /\ n \in 0 .. n /\ 0 \in 0 .. n /\ \A i \in 1 .. n : HashOrder[i] \in Txs
    BY SMTT(30), TxAssumption
  <1>2. start \in A
    <2>1. Puts(s, s) /\ s \in States
      BY PutsSelf DEF Stored
    <2> QED BY <2>1
  <1>3. ASSUME NEW x \in A, NEW t \in Txs, x.ok PROVE SupplementOne(x, t) \in A
    <2>1. x \in [ok : BOOLEAN, s : States] /\ Puts(s, x.s)
      OBVIOUS
    <2>2. CASE Legacy(x.s, t) \/ t \in Mined(x.s.main)
      BY <2>2 DEF SupplementOne
    <2>3. CASE ~(Legacy(x.s, t) \/ t \in Mined(x.s.main))
      <3>1. PICK r : r = add_tx(x.s, t, "block")
        OBVIOUS
      <3>2. Stored(x.s)
        BY <2>1 DEF Puts
      <3>3. r.ok \in BOOLEAN /\ Puts(x.s, r.s)
        BY <2>3, <3>1, <3>2, PutIs
      <3>4. Puts(s, r.s)
        BY <2>1, <3>3, PutsThen
      <3>5. r.s \in States
        BY <3>4 DEF Puts, Stored
      <3>6. r = [ok |-> r.ok, s |-> r.s]
        BY SMTT(30), <3>1, AddTxForm
      <3>7. r \in [ok : BOOLEAN, s : States]
        BY <3>3, <3>5, <3>6
      <3>8. SupplementOne(x, t) = r
        BY <2>3, <3>1 DEF SupplementOne
      <3> QED BY <3>4, <3>7, <3>8
    <2> QED BY <2>2, <2>3
  <1>4. \A i \in 1 .. n : i \in 0 .. n /\ i - 1 \in 0 .. n
    BY SMTT(30), <1>1
  <1>5. start \in T[0] /\ T[n] = A /\ \A i \in 1 .. n : T[i - 1] = A /\ T[i] = A
    <2> HIDE DEF A, start, n
    <2> QED BY <1>1, <1>2, <1>4
  <1>6. SupplementRounds(txs, T)
    <2> HIDE DEF A, T
    <2> QED BY <1>1, <1>3, <1>5 DEF SupplementRounds
  <1>7. Supplement(s, txs) \in A
    <2> HIDE DEF A, T
    <2> QED BY <1>5, <1>6, SupplementFold
  <1> QED BY <1>7

=============================================================================
