--------------------------- MODULE ElectronProofs ---------------------------
(***************************************************************************)
(* Proofs about the two tabs of the wallet that poll for the outcome of    *)
(* what they started: BridgeIn and MiningControl.                          *)
(*                                                                         *)
(* BridgeIn, for any number of sessions, wallets and payments, any amounts *)
(* and any chunk size: a session never pays more than was entered, one     *)
(* that waits for confirmations has paid all of it, and the page reports a *)
(* mint only after one.                                                    *)
(*                                                                         *)
(* MiningControl, for any number of requests and intervals: while the tab  *)
(* says that it mines, the page has an interval that asks.                 *)
(***************************************************************************)
EXTENDS BridgeIn, MiningControl, FiniteSetTheorems, WellFoundedInduction, TLAPS

----------------------------------------------------------------------------
(* Induction over the naturals, for a set instead of a predicate.           *)
LEMMA Induction ==
  ASSUME NEW S, 0 \in S, \A n \in Nat : n \in S => n + 1 \in S
  PROVE  Nat \subseteq S
  <1> DEFINE R == OpToRel(<, Nat)
             T == Nat \ S
  <1>1. R = {p \in Nat \X Nat : p[1] < p[2]} /\ IsWellFoundedOn(R, Nat)
    BY ZenonT(30), NatLessThanWellFounded DEF OpToRel
  <1> HIDE DEF R
  <1>2. SUFFICES ASSUME T # {} PROVE FALSE
    OBVIOUS
  <1>3. PICK x \in T : \A y \in T : <<y, x>> \notin R
    BY ZenonT(30), <1>1, <1>2, WFMin
  <1>4. x \in Nat /\ x - 1 \in Nat /\ x # 0
    OBVIOUS
  <1>5. <<x - 1, x>> \in R
    <2>1. <<x - 1, x>> \in {p \in Nat \X Nat : p[1] < p[2]}
      BY <1>4
    <2> QED BY <1>1, <2>1
  <1>6. x - 1 \in S
    BY <1>3, <1>4, <1>5
  <1> QED BY <1>4, <1>6

LEMMA PaymentCount == MaxPayments \in Nat
  BY BridgeBounds

(* f holds the partial sums of v up to k. *)
IsSum(f, v, k) ==
  /\ f \in [0 .. k -> Nat] /\ f[0] = 0
  /\ \A n \in 1 .. k : f[n] = f[n - 1] + v[n]

(* Partial sums exist, so the recursion of Sum has a solution. *)
LEMMA SumExists ==
  ASSUME NEW v \in [Payments -> Nat]
  PROVE  \E f : IsSum(f, v, MaxPayments)
  <1> USE DEF Payments
  <1> DEFINE S == {k \in Nat : k <= MaxPayments => \E f : IsSum(f, v, k)}
  <1>1. 0 \in S
    <2>1. IsSum([n \in 0 .. 0 |-> 0], v, 0)
      BY DEF IsSum
    <2> QED BY <2>1
  <1>2. ASSUME NEW k \in Nat, k \in S PROVE k + 1 \in S
    <2> SUFFICES ASSUME k + 1 <= MaxPayments PROVE \E f : IsSum(f, v, k + 1)
      OBVIOUS
    <2>1. PICK f : IsSum(f, v, k)
      BY <1>2, PaymentCount
    <2> DEFINE g == [n \in 0 .. k + 1 |-> IF n = k + 1 THEN f[k] + v[k + 1] ELSE f[n]]
    <2>2. g \in [0 .. k + 1 -> Nat]
      BY <2>1, PaymentCount DEF IsSum
    <2>3. IsSum(g, v, k + 1)
      BY <2>1, <2>2, PaymentCount DEF IsSum
    <2> QED BY <2>3
  <1> HIDE DEF S
  <1>3. MaxPayments \in S
    BY ZenonT(30), <1>1, <1>2, Induction, PaymentCount
  <1> QED BY <1>3, PaymentCount DEF S

(* Sum(v) is the last partial sum. *)
LEMMA SumIs ==
  ASSUME NEW v \in [Payments -> Nat]
  PROVE  \E f : IsSum(f, v, MaxPayments) /\ Sum(v) = f[MaxPayments]
  <1> USE DEF Payments
  <1> DEFINE body(f) == [n \in 0 .. MaxPayments |-> IF n = 0 THEN 0 ELSE f[n - 1] + v[n]]
             up == CHOOSE f : f = body(f)
  <1>1. PICK g : IsSum(g, v, MaxPayments)
    BY SumExists
  <1>2. g = body(g)
    BY <1>1, PaymentCount DEF IsSum
  <1>3. up = body(up)
    BY ZenonT(30), <1>2
  <1>4. Sum(v) = up[MaxPayments]
    BY ZenonT(30) DEF Sum
  <1>5. \A n \in 0 .. MaxPayments : up[n] = IF n = 0 THEN 0 ELSE up[n - 1] + v[n]
    BY ZenonT(30), <1>3
  <1> HIDE DEF up
  <1> DEFINE S == {k \in Nat : k <= MaxPayments => up[k] = g[k]}
  <1>6. 0 \in S
    BY <1>1, <1>5, PaymentCount DEF IsSum
  <1>7. ASSUME NEW k \in Nat, k \in S PROVE k + 1 \in S
    BY <1>1, <1>5, <1>7, PaymentCount DEF IsSum
  <1> HIDE DEF S
  <1>8. MaxPayments \in S
    BY ZenonT(30), <1>6, <1>7, Induction, PaymentCount
  <1>9. up[MaxPayments] = g[MaxPayments]
    BY <1>8, PaymentCount DEF S
  <1> QED BY <1>1, <1>4, <1>9

(* Two tables that differ at one payment have sums that differ by as much. *)
LEMMA SumChange ==
  ASSUME NEW v \in [Payments -> Nat], NEW w \in [Payments -> Nat], NEW p \in Payments,
         \A n \in Payments : n # p => w[n] = v[n]
  PROVE  Sum(w) + v[p] = Sum(v) + w[p] /\ Sum(v) \in Nat /\ Sum(w) \in Nat
  <1> USE DEF Payments
  <1>1. PICK f : IsSum(f, v, MaxPayments) /\ Sum(v) = f[MaxPayments]
    BY SumIs
  <1>2. PICK g : IsSum(g, w, MaxPayments) /\ Sum(w) = g[MaxPayments]
    BY SumIs
  <1> DEFINE S == {k \in Nat : k <= MaxPayments => IF k < p THEN g[k] = f[k] ELSE g[k] + v[p] = f[k] + w[p]}
  <1>3. 0 \in S
    BY <1>1, <1>2, PaymentCount DEF IsSum
  <1>4. ASSUME NEW k \in Nat, k \in S PROVE k + 1 \in S
    <2> SUFFICES ASSUME k + 1 <= MaxPayments PROVE k + 1 \in S
      OBVIOUS
    <2>1. k + 1 \in Payments /\ k \in 0 .. MaxPayments /\ k + 1 \in 0 .. MaxPayments /\ (k + 1) - 1 = k
      BY PaymentCount
    <2>2. f[k + 1] = f[k] + v[k + 1] /\ g[k + 1] = g[k] + w[k + 1]
      BY <1>1, <1>2, <2>1 DEF IsSum
    <2>3. f[k] \in Nat /\ g[k] \in Nat
      BY <1>1, <1>2, <2>1 DEF IsSum
    <2>4. /\ v[k + 1] \in Nat /\ w[k + 1] \in Nat /\ v[p] \in Nat /\ w[p] \in Nat
          /\ (k + 1 # p => w[k + 1] = v[k + 1])
      BY <2>1
    <2>5. IF k < p THEN g[k] = f[k] ELSE g[k] + v[p] = f[k] + w[p]
      BY <1>4, <2>1
    <2>6. IF k + 1 < p THEN g[k + 1] = f[k + 1]
                       ELSE g[k + 1] + v[p] = f[k + 1] + w[p]
      <3>1. CASE k + 1 < p
        BY <2>2, <2>3, <2>4, <2>5, <3>1
      <3>2. CASE k + 1 = p
        BY <2>2, <2>3, <2>4, <2>5, <3>2
      <3>3. CASE k + 1 > p
        <4>1. ~(k < p) /\ k + 1 # p /\ ~(k + 1 < p)
          BY SMTT(30), <3>3
        <4>2. g[k] + v[p] = f[k] + w[p] /\ w[k + 1] = v[k + 1]
          BY ZenonT(30), <2>4, <2>5, <4>1
        <4>3. (g[k] + v[k + 1]) + v[p] = (f[k] + v[k + 1]) + w[p]
          BY SMTT(30), <2>3, <2>4, <4>2
        <4> QED BY ZenonT(30), <2>2, <4>1, <4>2, <4>3
      <3> QED BY <3>1, <3>2, <3>3
    <2> QED BY <2>6
  <1> HIDE DEF S
  <1>5. MaxPayments \in S
    BY ZenonT(30), <1>3, <1>4, Induction, PaymentCount
  <1> QED BY <1>1, <1>2, <1>5, PaymentCount DEF S, IsSum

(* A session that has paid nothing has paid the sum 0. *)
LEMMA SumZero ==
  ASSUME NEW v \in [Payments -> Nat], \A n \in Payments : v[n] = 0
  PROVE  Sum(v) = 0
  <1> USE DEF Payments
  <1>1. PICK f : IsSum(f, v, MaxPayments) /\ Sum(v) = f[MaxPayments]
    BY SumIs
  <1> DEFINE S == {k \in Nat : k <= MaxPayments => f[k] = 0}
  <1>2. 0 \in S
    BY <1>1, PaymentCount DEF IsSum
  <1>3. ASSUME NEW k \in Nat, k \in S PROVE k + 1 \in S
    BY <1>1, <1>3, PaymentCount DEF IsSum
  <1> HIDE DEF S
  <1>4. MaxPayments \in S
    BY <1>2, <1>3, Induction, PaymentCount
  <1> QED BY <1>1, <1>4, PaymentCount DEF S

----------------------------------------------------------------------------
(* The chunks of an amount.                                                 *)

LEMMA MinIs ==
  ASSUME NEW n \in Nat
  PROVE  Min({ChunkSize, n}) = IF ChunkSize <= n THEN ChunkSize ELSE n
  BY BridgeBounds DEF Min

Cut(n) == IF ChunkSize <= n THEN ChunkSize ELSE n

(* f holds the chunks of the amounts up to k. *)
CutsUpTo(f, k) ==
  /\ f \in [0 .. k -> Seq(Nat)]
  /\ \A n \in 0 .. k : f[n] = IF n = 0 THEN <<>> ELSE <<Cut(n)>> \o f[n - Cut(n)]

LEMMA CutFits ==
  ASSUME NEW n \in Nat \ {0}
  PROVE  Cut(n) \in 1 .. n /\ n - Cut(n) \in 0 .. n - 1
  BY BridgeBounds DEF Cut

LEMMA CutsAt ==
  ASSUME NEW k \in Nat, NEW f, CutsUpTo(f, k), NEW n \in 0 .. k
  PROVE  /\ f[n] \in Seq(Nat)
         /\ n = 0 => f[n] = <<>>
         /\ n # 0 => f[n] = <<Cut(n)>> \o f[n - Cut(n)]
  <1>1. f[n] = IF n = 0 THEN <<>> ELSE <<Cut(n)>> \o f[n - Cut(n)]
    BY ZenonT(30) DEF CutsUpTo
  <1>2. f \in [0 .. k -> Seq(Nat)]
    BY DEF CutsUpTo
  <1>3. f[n] \in Seq(Nat)
    BY <1>2
  <1> QED BY ZenonT(30), <1>1, <1>3

LEMMA CutsExist ==
  ASSUME NEW k \in Nat
  PROVE  \E f : CutsUpTo(f, k)
  <1> DEFINE S == {j \in Nat : \E f : CutsUpTo(f, j)}
  <1>1. 0 \in S
    <2>1. CutsUpTo([n \in 0 .. 0 |-> <<>>], 0)
      BY DEF CutsUpTo
    <2> QED BY <2>1
  <1>2. ASSUME NEW j \in Nat, j \in S PROVE j + 1 \in S
    <2>1. PICK f : CutsUpTo(f, j)
      BY <1>2
    <2> DEFINE m == j + 1
               g == [n \in 0 .. m |-> IF n = m THEN <<Cut(m)>> \o f[m - Cut(m)] ELSE f[n]]
    <2>2. Cut(m) \in 1 .. m /\ m - Cut(m) \in 0 .. j /\ <<Cut(m)>> \in Seq(Nat)
      BY CutFits
    <2>3. <<Cut(m)>> \o f[m - Cut(m)] \in Seq(Nat)
      BY <2>1, <2>2 DEF CutsUpTo
    <2>4. g \in [0 .. m -> Seq(Nat)]
      BY <2>1, <2>3 DEF CutsUpTo
    <2>5. ASSUME NEW n \in 0 .. m
          PROVE  g[n] = IF n = 0 THEN <<>> ELSE <<Cut(n)>> \o g[n - Cut(n)]
      <3>1. CASE n = 0
        <4>1. 0 \in 0 .. j /\ 0 # m /\ 0 \in 0 .. m
          OBVIOUS
        <4>2. f[0] = <<>>
          BY <2>1, <4>1, CutsAt, ZenonT(30)
        <4>3. g[0] = f[0]
          BY <4>1
        <4> QED BY <3>1, <4>2, <4>3
      <3>2. CASE n = m
        BY <2>2, <3>2
      <3>3. CASE n # 0 /\ n # m
        <4>1. n - Cut(n) \in 0 .. j /\ n \in 0 .. j
          BY <3>3, CutFits
        <4>2. g[n] = f[n] /\ g[n - Cut(n)] = f[n - Cut(n)]
          BY <3>3, <4>1
        <4>3. f[n] = <<Cut(n)>> \o f[n - Cut(n)]
          BY ZenonT(30), <2>1, <3>3, <4>1, CutsAt
        <4> QED BY ZenonT(30), <3>3, <4>2, <4>3
      <3> QED BY <3>1, <3>2, <3>3
    <2>6. CutsUpTo(g, j + 1)
      BY ZenonT(30), <2>4, <2>5 DEF CutsUpTo
    <2> QED BY <2>6
  <1> HIDE DEF S
  <1>3. k \in S
    BY <1>1, <1>2, Induction
  <1> QED BY <1>3 DEF S

LEMMA CutsAgree ==
  ASSUME NEW j \in Nat, NEW k \in Nat, NEW f, NEW g, CutsUpTo(f, j), CutsUpTo(g, k)
  PROVE  \A n \in 0 .. j : n <= k => f[n] = g[n]
  <1> DEFINE S == {m \in Nat : \A n \in 0 .. m : n <= j /\ n <= k => f[n] = g[n]}
  <1>1. 0 \in S
    <2>1. 0 \in 0 .. j /\ 0 \in 0 .. k
      OBVIOUS
    <2>2. f[0] = <<>> /\ g[0] = <<>>
      BY <2>1, CutsAt, ZenonT(30)
    <2> QED BY <2>2
  <1>2. ASSUME NEW m \in Nat, m \in S PROVE m + 1 \in S
    <2> SUFFICES ASSUME m + 1 <= j, m + 1 <= k PROVE f[m + 1] = g[m + 1]
      BY <1>2
    <2> DEFINE n == m + 1
    <2>1. n \in 0 .. j /\ n \in 0 .. k /\ n # 0 /\ n - Cut(n) \in 0 .. m
      BY CutFits
    <2>2. f[n - Cut(n)] = g[n - Cut(n)]
      BY <1>2, <2>1
    <2> HIDE DEF n
    <2>3. f[n] = <<Cut(n)>> \o f[n - Cut(n)]
      BY <2>1, CutsAt, ZenonT(30)
    <2>4. g[n] = <<Cut(n)>> \o g[n - Cut(n)]
      BY <2>1, CutsAt, ZenonT(30)
    <2>5. f[n] = g[n]
      BY <2>2, <2>3, <2>4, ZenonT(30)
    <2> QED BY <2>5 DEF n
  <1> HIDE DEF S
  <1>3. j \in S
    BY <1>1, <1>2, Induction
  <1> QED BY <1>3 DEF S

(* The recursion of the loop has a solution. *)
LEMMA ChunksIs ==
  /\ Chunks \in [Nat -> Seq(Nat)]
  /\ \A n \in Nat : Chunks[n] = IF n = 0 THEN <<>> ELSE <<Cut(n)>> \o Chunks[n - Cut(n)]
  <1> DEFINE F == [n \in Nat |-> (CHOOSE f : CutsUpTo(f, n))[n]]
             body(f) == [n \in Nat |-> IF n = 0 THEN <<>>
                                       ELSE <<Min({ChunkSize, n})>> \o f[n - Min({ChunkSize, n})]]
  <1>1. ASSUME NEW k \in Nat, NEW f, CutsUpTo(f, k), NEW n \in 0 .. k PROVE F[n] = f[n]
    <2>1. CutsUpTo(CHOOSE h : CutsUpTo(h, n), n)
      <3>1. n \in Nat
        OBVIOUS
      <3>2. \E h : CutsUpTo(h, n)
        BY <3>1, CutsExist
      <3> QED BY ZenonT(30), <3>2
    <2>2. (CHOOSE h : CutsUpTo(h, n))[n] = f[n]
      BY <1>1, <2>1, CutsAgree
    <2> QED BY <2>2
  <1> HIDE DEF F
  <1>2. ASSUME NEW n \in Nat
        PROVE  F[n] \in Seq(Nat) /\ F[n] = IF n = 0 THEN <<>> ELSE <<Cut(n)>> \o F[n - Cut(n)]
    <2>1. PICK f : CutsUpTo(f, n)
      BY CutsExist
    <2>0. n \in 0 .. n
      OBVIOUS
    <2>2. F[n] = f[n] /\ f[n] \in Seq(Nat)
      BY <1>1, <2>0, <2>1, CutsAt, ZenonT(30)
    <2>3. n # 0 => F[n - Cut(n)] = f[n - Cut(n)]
      <3> SUFFICES ASSUME n # 0 PROVE F[n - Cut(n)] = f[n - Cut(n)]
        OBVIOUS
      <3>1. n - Cut(n) \in 0 .. n
        BY CutFits
      <3> QED BY <1>1, <2>1, <3>1
    <2>4. f[n] = IF n = 0 THEN <<>> ELSE <<Cut(n)>> \o f[n - Cut(n)]
      BY <2>0, <2>1, CutsAt, ZenonT(30)
    <2> QED BY <2>2, <2>3, <2>4, ZenonT(30)
  <1>3. F = [n \in Nat |-> F[n]]
    BY DEF F
  <1>4. F = body(F)
    <2>1. \A n \in Nat : F[n] = IF n = 0 THEN <<>>
                                ELSE <<Min({ChunkSize, n})>> \o F[n - Min({ChunkSize, n})]
      BY <1>2, MinIs DEF Cut
    <2> QED BY ZenonT(30), <1>3, <2>1
  <1>5. Chunks = CHOOSE f : f = body(f)
    BY ZenonT(30) DEF Chunks
  <1>6. Chunks = body(Chunks)
    BY ZenonT(30), <1>4, <1>5
  <1>7. \A n \in Nat : Chunks[n] = IF n = 0 THEN <<>> ELSE <<Cut(n)>> \o Chunks[n - Cut(n)]
    <2>1. \A n \in Nat : Chunks[n] = IF n = 0 THEN <<>>
                               ELSE <<Min({ChunkSize, n})>> \o Chunks[n - Min({ChunkSize, n})]
      BY ZenonT(30), <1>6
    <2> QED BY ZenonT(30), <2>1, MinIs DEF Cut
  <1>8. Chunks \in [Nat -> Seq(Nat)]
    <2> DEFINE S == {m \in Nat : \A n \in 0 .. m : Chunks[n] \in Seq(Nat)}
    <2>1. 0 \in S
      <3>1. Chunks[0] = <<>>
        BY ZenonT(30), <1>7
      <3>2. \A n \in 0 .. 0 : n = 0
        OBVIOUS
      <3>3. <<>> \in Seq(Nat)
        OBVIOUS
      <3> QED BY ZenonT(30), <3>1, <3>2, <3>3
    <2>2. ASSUME NEW m \in Nat, m \in S PROVE m + 1 \in S
      <3>1. (m + 1) - Cut(m + 1) \in 0 .. m /\ <<Cut(m + 1)>> \in Seq(Nat)
        BY CutFits
      <3>2. Chunks[m + 1] = <<Cut(m + 1)>> \o Chunks[(m + 1) - Cut(m + 1)]
        <4>1. m + 1 \in Nat /\ m + 1 # 0
          OBVIOUS
        <4> DEFINE k == m + 1
        <4> HIDE DEF k
        <4>2. Chunks[k] = <<Cut(k)>> \o Chunks[k - Cut(k)]
          <5>1. k \in Nat /\ k # 0
            BY <4>1 DEF k
          <5> QED BY ZenonT(30), <1>7, <5>1
        <4> QED BY <4>2 DEF k
      <3>3. Chunks[m + 1] \in Seq(Nat)
        BY <2>2, <3>1, <3>2
      <3> QED BY <2>2, <3>3
    <2> HIDE DEF S
    <2>3. Nat \subseteq S
      BY <2>1, <2>2, Induction
    <2>4. \A n \in Nat : Chunks[n] \in Seq(Nat)
      BY <2>3 DEF S
    <2>5. Chunks = [n \in Nat |-> Chunks[n]]
      BY ZenonT(30), <1>6
    <2> QED BY <2>4, <2>5
  <1> QED BY ZenonT(30), <1>7, <1>8

(* What the loop of startCryLoBridgeIn needs of the list: its head fits in  *)
(* what is left, and its tail is the list of the rest.                      *)
LEMMA ChunkStep ==
  ASSUME NEW n \in Nat \ {0}
  PROVE  /\ Chunks[n] \in Seq(Nat) /\ Chunks[n] # <<>>
         /\ Head(Chunks[n]) \in 1 .. n
         /\ Tail(Chunks[n]) = Chunks[n - Head(Chunks[n])]
  <1> DEFINE rest == Chunks[n - Cut(n)]
  <1>1. Cut(n) \in 1 .. n /\ n - Cut(n) \in Nat
    BY CutFits
  <1>2. rest \in Seq(Nat) /\ Chunks[n] = <<Cut(n)>> \o rest
    BY ZenonT(30), <1>1, ChunksIs
  <1> HIDE DEF rest
  <1>3. Head(Chunks[n]) = Cut(n) /\ Tail(Chunks[n]) = rest /\ Chunks[n] # <<>> /\ Chunks[n] \in Seq(Nat)
    BY SMTT(40), <1>1, <1>2
  <1> QED BY <1>1, <1>3 DEF rest

(* The rounding of the first round: the list is that of the rounded amount, *)
(* or a zero that cryloToAtomic refuses.                                    *)
LEMMA ChunksOfIs ==
  ASSUME NEW n \in Nat \ {0}
  PROVE  /\ toFixed(n) \in Nat /\ ChunksOf(n) \in Seq(Nat)
         /\ \/ toFixed(n) # 0 /\ ChunksOf(n) = Chunks[toFixed(n)]
            \/ ~Converts(Head(ChunksOf(n)))
  <1>1. PICK w : w = toFixed(n) /\ w \in Nat
    BY DEF toFixed
  <1>2. Chunks[0] = <<>>
    BY ZenonT(30), ChunksIs
  <1>3. CASE n <= 10 * ChunkSize
    <2>1. Min({10 * ChunkSize, n}) = n
      <3>1. 10 * ChunkSize \in Nat
        BY BridgeBounds
      <3> QED BY <1>3, <3>1 DEF Min
    <2>2. toFixed(n - n) = 0 /\ w <= ChunkSize
      BY <1>1, <1>3, BridgeBounds DEF toFixed
    <2>3. ChunksOf(n) = <<w>> \o Chunks[0]
      BY ZenonT(30), <1>1, <2>1, <2>2 DEF ChunksOf
    <2>4. <<w>> \o <<>> \in Seq(Nat) /\ Head(<<w>> \o <<>>) = w
      BY <1>1
    <2>5. CASE w = 0
      <3>1. ~Converts(w)
        BY <2>5, BridgeBounds DEF Converts
      <3> QED BY ZenonT(30), <1>1, <1>2, <2>3, <2>4, <3>1
    <2>6. CASE w # 0
      <3>1. Cut(w) = w /\ w - Cut(w) = 0
        BY <1>1, <2>2, BridgeBounds DEF Cut
      <3>2. Chunks[w] = <<w>> \o Chunks[0]
        BY ZenonT(30), <1>1, <2>6, <3>1, ChunksIs
      <3> QED BY ZenonT(30), <1>1, <1>2, <2>3, <2>4, <2>6, <3>2
    <2> QED BY <2>5, <2>6
  <1>4. CASE ~(n <= 10 * ChunkSize)
    <2>1. Min({10 * ChunkSize, n}) = 10 * ChunkSize
      <3>1. 10 * ChunkSize \in Nat
        BY BridgeBounds
      <3> QED BY <1>4, <3>1 DEF Min
    <2>2. PICK v \in Nat : v = toFixed(n - 10 * ChunkSize)
      BY <1>4, BridgeBounds DEF toFixed
    <2>3. toFixed(10 * ChunkSize) = ChunkSize /\ w = ChunkSize + v
      BY <1>1, <1>4, <2>2, BridgeBounds DEF toFixed
    <2>4. ChunksOf(n) = <<ChunkSize>> \o Chunks[v]
      BY ZenonT(30), <2>1, <2>2, <2>3 DEF ChunksOf
    <2>5. w # 0 /\ Cut(w) = ChunkSize /\ w - Cut(w) = v
      BY <2>2, <2>3, BridgeBounds DEF Cut
    <2>6. Chunks[w] = <<ChunkSize>> \o Chunks[v] /\ Chunks[w] \in Seq(Nat)
      BY ZenonT(30), <1>1, <2>5, ChunksIs
    <2> QED BY ZenonT(30), <1>1, <2>4, <2>5, <2>6
  <1> QED BY <1>3, <1>4

LEMMA ChunksEmpty == ASSUME NEW n \in Nat PROVE Chunks[n] = <<>> <=> n = 0
  BY ZenonT(30), ChunksIs, ChunkStep

----------------------------------------------------------------------------
(* The inductive invariant.                                                 *)

Stages == {"idle", "asking", "sending", "done", "failed"}
SessionType ==
  [stage : Stages, asked : Nat, chunks : Seq(Nat), target : Wallets \cup {NoOne},
   from : Wallets \cup {NoOne}, pay : Payments \cup {NoOne}, sent : Seq(Payments)]
DepositType ==
  [amount : Nat, target : Wallets \cup {NoOne}, by : Sessions \cup {NoOne}, made : {0, 1},
   late : BOOLEAN, minted : BOOLEAN]

TypeOK ==
  /\ session \in [Sessions -> SessionType]
  /\ deposit \in [Payments -> DepositType]
  /\ current \in Wallets
  /\ timer \in Payments \cup {NoOne}
  /\ ticks \subseteq [pay : Payments, answer : {"none", "processed", "waiting", "error"}]
  /\ clearing \in Nat

(* The amount the head of the list stands for while its transfer is made    *)
(* and not yet answered.                                                    *)
InHand(s) == IF deposit[session[s].pay].made = 1 THEN deposit[session[s].pay].amount ELSE 0

(* The stages of a session: the list of chunks is always the cut of what    *)
(* has not been paid, so a payment never exceeds it.                        *)
Waiting(s) ==
  session[s].stage = "idle" => session[s] = Idle /\ \A p \in Payments : deposit[p].by # s
Asking(s) ==
  session[s].stage = "asking" =>
    /\ PaidFor(s) \subseteq Range(session[s].sent)
    /\ \E n \in Nat \ {0} :
         /\ session[s].chunks = Chunks[n]
         /\ Sum(Paid(s)) + n = session[s].asked
Sending(s) ==
  session[s].stage = "sending" =>
    /\ session[s].pay \in Payments \ Range(session[s].sent)
    /\ deposit[session[s].pay].by = s
    /\ deposit[session[s].pay].amount = Head(session[s].chunks)
    /\ PaidFor(s) \subseteq Range(session[s].sent) \cup {session[s].pay}
    /\ \E n \in Nat \ {0} :
         /\ session[s].chunks = Chunks[n]
         /\ Sum(Paid(s)) + n = session[s].asked + InHand(s)
Whole(s) ==
  session[s].stage = "done" =>
    /\ session[s].sent # <<>>
    /\ PaidFor(s) \subseteq Range(session[s].sent)
    /\ Sum(Paid(s)) = session[s].asked

(* A transfer that the page gave up still fits, and there is at most one.   *)
GivenUp(s) ==
  session[s].stage = "failed" =>
    /\ Sum(Paid(s)) <= session[s].asked
    /\ \A p \in Payments : deposit[p].by = s /\ deposit[p].late =>
         p = session[s].pay /\ Sum(Paid(s)) + deposit[p].amount <= session[s].asked

(* What a session lists it paid, and all its deposits are for its target.   *)
Books(s) ==
  /\ Range(session[s].sent) \subseteq PaidFor(s)
  /\ \A p \in Payments : deposit[p].by = s => deposit[p].target = session[s].target

Stage(s) == Waiting(s) /\ Asking(s) /\ Sending(s) /\ Whole(s) /\ GivenUp(s) /\ Books(s)

Late(p) ==
  deposit[p].late => /\ deposit[p].made = 0 /\ deposit[p].by \in Sessions
                     /\ session[deposit[p].by].stage = "failed"

(* Payments that are polled for: the first one of a session that is done.   *)
First(p) == \E s \in Sessions : session[s].stage = "done" /\ session[s].sent[1] = p
Polls ==
  /\ timer # NoOne => First(timer)
  /\ \A t \in ticks : First(t.pay) /\ (t.answer = "processed" => deposit[t.pay].minted)
  /\ CompletedIsMinted

IInv ==
  /\ TypeOK
  /\ \A s \in Sessions : Stage(s)
  /\ \A p \in Payments : Late(p)
  /\ Polls

----------------------------------------------------------------------------
(* A step that leaves session t and its deposits alone.                     *)
Untouched(t) ==
  /\ session'[t] = session[t]
  /\ \A p \in Payments :
       \/ deposit[p].by # t /\ deposit'[p].by # t
       \/ /\ deposit'[p].by = deposit[p].by /\ deposit'[p].amount = deposit[p].amount
          /\ deposit'[p].target = deposit[p].target /\ deposit'[p].made = deposit[p].made
          /\ deposit'[p].late = deposit[p].late

LEMMA PaidType ==
  ASSUME TypeOK, NEW s \in Sessions
  PROVE  /\ Paid(s) \in [Payments -> Nat]
         /\ \A p \in Payments : Paid(s)[p] = IF deposit[p].by = s /\ deposit[p].made = 1
                                             THEN deposit[p].amount ELSE 0
  <1>1. ASSUME NEW p \in Payments
        PROVE  /\ deposit[p].made * deposit[p].amount = IF deposit[p].made = 1
                                                        THEN deposit[p].amount ELSE 0
               /\ deposit[p].amount \in Nat
    <2>1. deposit[p].made \in {0, 1} /\ deposit[p].amount \in Nat
      BY DEF TypeOK, DepositType
    <2> QED BY <2>1
  <1> QED BY <1>1 DEF Paid

LEMMA SumNat ==
  ASSUME NEW v \in [Payments -> Nat]
  PROVE  Sum(v) \in Nat
  BY SumIs, PaymentCount DEF IsSum

LEMMA SumKept ==
  ASSUME TypeOK, TypeOK', NEW t \in Sessions, Untouched(t)
  PROVE  Paid(t)' = Paid(t) /\ Sum(Paid(t))' = Sum(Paid(t)) /\ PaidFor(t)' = PaidFor(t)
  <1>1. Paid(t)' = Paid(t)
    BY DEF Paid, Untouched
  <1>2. Sum(Paid(t))' = Sum(Paid(t))
    BY <1>1 DEF Sum
  <1>3. PaidFor(t)' = PaidFor(t)
    BY DEF PaidFor, Untouched
  <1> QED BY <1>1, <1>2, <1>3

LEMMA StageKept ==
  ASSUME TypeOK, TypeOK', NEW t \in Sessions, Untouched(t), Stage(t)
  PROVE  Stage(t)'
  <1>1. /\ session'[t] = session[t]
        /\ Sum(Paid(t))' = Sum(Paid(t)) /\ PaidFor(t)' = PaidFor(t)
    BY SumKept DEF Untouched
  <1>2. ASSUME NEW p \in Payments, deposit'[p].by = t
        PROVE  /\ deposit[p].by = t /\ deposit'[p].amount = deposit[p].amount
               /\ deposit'[p].target = deposit[p].target /\ deposit'[p].made = deposit[p].made
               /\ deposit'[p].late = deposit[p].late
    BY <1>2 DEF Untouched
  <1>3. Waiting(t)' /\ Asking(t)' /\ Whole(t)' /\ GivenUp(t)' /\ Books(t)'
    BY <1>1, <1>2 DEF Stage, Waiting, Asking, Whole, GivenUp, Books
  <1>4. Sending(t)'
    <2> SUFFICES ASSUME session[t].stage = "sending" PROVE Sending(t)'
      BY <1>1 DEF Sending
    <2>1. session[t].pay \in Payments /\ deposit[session[t].pay].by = t
      BY DEF Stage, Sending
    <2>2. /\ deposit'[session[t].pay].by = t
          /\ deposit'[session[t].pay].amount = deposit[session[t].pay].amount
          /\ deposit'[session[t].pay].made = deposit[session[t].pay].made
      BY <2>1 DEF Untouched
    <2>3. InHand(t)' = InHand(t)
      BY <1>1, <2>2 DEF InHand
    <2> QED BY <1>1, <2>2, <2>3 DEF Stage, Sending
  <1> QED BY <1>3, <1>4 DEF Stage

(* A step of session s: its own stage holds again, and the late payments    *)
(* are accounted for.                                                       *)
LEMMA OneSession ==
  ASSUME IInv, TypeOK', NEW s \in Sessions, Stage(s)',
         \A t \in Sessions \ {s} : Untouched(t),
         \A p \in Payments : deposit'[p].late =>
           /\ deposit'[p].by \in Sessions
           /\ deposit'[p].by = s => deposit'[p].made = 0 /\ session'[s].stage = "failed"
  PROVE  (\A t \in Sessions : Stage(t)') /\ (\A p \in Payments : Late(p)')
  <1>1. ASSUME NEW t \in Sessions PROVE Stage(t)'
    BY StageKept DEF IInv
  <1>2. ASSUME NEW p \in Payments PROVE Late(p)'
    <2> SUFFICES ASSUME deposit'[p].late PROVE Late(p)'
      BY DEF Late
    <2> DEFINE t == deposit'[p].by
    <2>1. CASE t = s
      BY <2>1 DEF Late
    <2>2. CASE t # s
      <3>1. t \in Sessions /\ Untouched(t)
        BY <2>2
      <3>2. deposit[p].late /\ deposit[p].by = t /\ deposit'[p].made = deposit[p].made
        BY <3>1 DEF Untouched
      <3>3. deposit[p].made = 0 /\ session[t].stage = "failed"
        BY <3>2 DEF IInv, Late
      <3> QED BY <3>1, <3>2, <3>3 DEF Late, Untouched
    <2> QED BY <2>1, <2>2
  <1> QED BY <1>1, <1>2

(* What is polled for stays so while sessions that are done stay as they    *)
(* are and nothing minted is undone.                                        *)
DoneStays == \A s \in Sessions : session[s].stage = "done" => session'[s] = session[s]
MintStays == \A p \in Payments : deposit[p].minted => deposit'[p].minted

LEMMA FirstIsPayment ==
  ASSUME TypeOK, NEW s \in Sessions, Stage(s), session[s].stage = "done"
  PROVE  session[s].sent[1] \in Payments
  <1>1. session[s].sent \in Seq(Payments) /\ session[s].sent # <<>>
    BY DEF TypeOK, SessionType, Stage, Whole
  <1> QED BY <1>1

LEMMA FirstStays ==
  ASSUME DoneStays, NEW p, First(p)
  PROVE  First(p)'
  BY DEF DoneStays, First

LEMMA PollsKept ==
  ASSUME IInv, DoneStays, MintStays, timer' = timer, ticks' = ticks,
         status' = status \/ status' # "completed"
  PROVE  Polls'
  <1>1. timer' # NoOne => First(timer)'
    BY FirstStays DEF IInv, Polls
  <1>2. ASSUME NEW t \in ticks
        PROVE  First(t.pay)' /\ (t.answer = "processed" => deposit'[t.pay].minted)
    <2>1. t.pay \in Payments
      BY DEF IInv, TypeOK
    <2> QED BY <2>1, FirstStays DEF IInv, Polls, MintStays
  <1>3. CompletedIsMinted'
    <2> SUFFICES ASSUME status' = "completed" PROVE CompletedIsMinted'
      BY DEF CompletedIsMinted
    <2>1. PICK s \in Sessions : session[s].stage = "done" /\ deposit[session[s].sent[1]].minted
      BY DEF IInv, Polls, CompletedIsMinted
    <2>2. session[s].sent[1] \in Payments
      BY <2>1, FirstIsPayment DEF IInv
    <2> QED BY <2>1, <2>2 DEF DoneStays, MintStays, CompletedIsMinted
  <1> QED BY <1>1, <1>2, <1>3 DEF Polls, First

----------------------------------------------------------------------------
(* One lemma per action.                                                    *)

LEMMA NotLate ==
  ASSUME IInv, NEW s \in Sessions, session[s].stage # "failed",
         NEW p \in Payments, deposit[p].by = s
  PROVE  ~deposit[p].late
  BY DEF IInv, Late

LEMMA LateIsKnown ==
  ASSUME IInv, NEW p \in Payments, deposit[p].late
  PROVE  deposit[p].by \in Sessions
  BY DEF IInv, Late

(* The loop goes on with record r, or stops at a chunk that does not print  *)
(* as digits.                                                               *)
LEMMA NextChunkStep ==
  ASSUME IInv, NEW s \in Sessions, session[s].stage # "failed", session[s].stage # "done",
         NEW r \in SessionType, NEW n \in Nat, NextChunk(s, r), deposit' = deposit,
         UNCHANGED <<current, polling>>,
         (n # 0 /\ r.chunks = Chunks[n]) \/ ~Converts(Head(r.chunks)),
         Sum(Paid(s)) + n = r.asked, PaidFor(s) = Range(r.sent),
         \A p \in Payments : deposit[p].by = s => deposit[p].target = r.target
  PROVE  IInv'
  <1>1. /\ session' = [session EXCEPT ![s] = session'[s]]
        /\ session'[s] \in SessionType
        /\ session'[s].stage \in {"asking", "failed"} /\ session'[s].asked = r.asked
        /\ session'[s].sent = r.sent /\ session'[s].target = r.target
        /\ session'[s].chunks = r.chunks
        /\ session'[s].stage = "asking" => n # 0 /\ r.chunks = Chunks[n]
        /\ status' = status \/ status' # "completed"
    <2>1. session \in [Sessions -> SessionType] /\ current \in Wallets
      BY DEF IInv, TypeOK
    <2>2. CASE Converts(Head(r.chunks))
      <3> DEFINE u == [r EXCEPT !.stage = "asking", !.from = current, !.pay = NoOne]
      <3>1. session' = [session EXCEPT ![s] = u] /\ status' = status
        BY <2>2 DEF NextChunk
      <3>2. /\ u \in SessionType /\ u.stage = "asking" /\ u.asked = r.asked
            /\ u.sent = r.sent /\ u.target = r.target /\ u.chunks = r.chunks
        BY ZenonT(30), <2>1 DEF SessionType, Stages
      <3> HIDE DEF u
      <3> QED BY <2>1, <2>2, <3>1, <3>2
    <2>3. CASE ~Converts(Head(r.chunks))
      <3> DEFINE u == [r EXCEPT !.stage = "failed"]
      <3>1. session' = [session EXCEPT ![s] = u] /\ status' = "error"
        BY <2>3 DEF NextChunk
      <3>2. /\ u \in SessionType /\ u.stage = "failed" /\ u.asked = r.asked
            /\ u.sent = r.sent /\ u.target = r.target /\ u.chunks = r.chunks
        BY ZenonT(30), <2>1 DEF SessionType, Stages
      <3> HIDE DEF u
      <3> QED BY <2>1, <3>1, <3>2
    <2> QED BY <2>2, <2>3
  <1>2. TypeOK'
    BY <1>1 DEF IInv, TypeOK, polling
  <1>3. Paid(s)' = Paid(s) /\ PaidFor(s)' = PaidFor(s)
    BY DEF Paid, PaidFor
  <1>4. Sum(Paid(s))' = Sum(Paid(s)) /\ Sum(Paid(s)) \in Nat
    BY <1>3, PaidType, SumNat DEF Sum, IInv
  <1>5. \A p \in Payments : deposit[p].by = s => ~deposit[p].late
    BY NotLate
  <1>6. Stage(s)'
    <2>1. Waiting(s)' /\ Sending(s)' /\ Whole(s)' /\ Books(s)'
      BY <1>1, <1>3 DEF Waiting, Sending, Whole, Books
    <2>2. Asking(s)'
      BY <1>1, <1>3, <1>4 DEF Asking
    <2>3. GivenUp(s)'
      <3>1. Sum(Paid(s)) <= r.asked
        BY <1>4
      <3> QED BY <1>1, <1>4, <1>5, <3>1 DEF GivenUp
    <2> QED BY <2>1, <2>2, <2>3 DEF Stage
  <1>7. \A t \in Sessions \ {s} : Untouched(t)
    BY <1>1 DEF Untouched, IInv, TypeOK
  <1>8. DoneStays /\ MintStays
    BY <1>1 DEF DoneStays, MintStays, IInv, TypeOK
  <1>9. Polls'
    BY <1>1, <1>8, PollsKept DEF polling
  <1> QED BY <1>2, <1>5, <1>6, <1>7, <1>9, OneSession, LateIsKnown DEF IInv

LEMMA StartStep ==
  ASSUME IInv, NEW s \in Sessions, NEW n \in Amounts, Start(s, n)
  PROVE  IInv'
  <1>1. CASE n > 10 * Limit
    <2>1. /\ UNCHANGED <<session, deposit, current, timer, ticks, clearing>>
          /\ status' # "completed"
      BY <1>1 DEF Start, polling
    <2>2. TypeOK' /\ DoneStays /\ MintStays
      BY <2>1 DEF IInv, TypeOK, DoneStays, MintStays
    <2>3. Polls'
      BY <2>1, <2>2, PollsKept
    <2>4. \A t \in Sessions : Untouched(t)
      BY <2>1 DEF Untouched
    <2>5. \A t \in Sessions : Stage(t)'
      BY <2>2, <2>4, StageKept DEF IInv
    <2> QED BY <2>1, <2>2, <2>3, <2>5 DEF IInv, Late
  <1>2. CASE ~(n > 10 * Limit)
    <2> DEFINE r == [Idle EXCEPT !.asked = toFixed(n), !.chunks = ChunksOf(n), !.target = current]
    <2>1. n \in Nat \ {0} /\ session[s] = Idle /\ NextChunk(s, r)
      BY <1>2, BridgeBounds DEF Start
    <2>2. session[s].stage = "idle" /\ \A p \in Payments : deposit[p].by # s
      BY <2>1 DEF IInv, Stage, Waiting, Idle
    <2>3. PaidFor(s) = {} /\ Sum(Paid(s)) = 0
      BY <2>2, SumZero, PaidType DEF PaidFor, IInv
    <2>4. PICK w \in Nat : w = toFixed(n)
      BY <2>1, ChunksOfIs
    <2>5. /\ ChunksOf(n) \in Seq(Nat)
          /\ (w # 0 /\ ChunksOf(n) = Chunks[w]) \/ ~Converts(Head(ChunksOf(n)))
      BY <2>1, <2>4, ChunksOfIs
    <2>6. /\ r \in SessionType /\ r.chunks = ChunksOf(n) /\ r.asked = w /\ r.sent = <<>>
      <3>1. toFixed(n) \in Nat /\ ChunksOf(n) \in Seq(Nat) /\ current \in Wallets /\ Idle \in SessionType
        BY <2>1, <2>4, <2>5 DEF IInv, TypeOK
      <3>2. r \in SessionType /\ r.chunks = ChunksOf(n) /\ r.asked = toFixed(n) /\ r.sent = <<>>
        BY ZenonT(30), <3>1 DEF Idle, SessionType, Stages
      <3> QED BY <2>4, <3>2
    <2>7. Range(r.sent) = {}
      BY <2>6 DEF Range
    <2> HIDE DEF r
    <2>8. Sum(Paid(s)) + w = r.asked
      BY <2>3, <2>4, <2>6
    <2>9. deposit' = deposit /\ UNCHANGED <<current, polling>>
      BY DEF Start
    <2>10. (w # 0 /\ r.chunks = Chunks[w]) \/ ~Converts(Head(r.chunks))
      BY <2>5, <2>6
    <2> QED BY ZenonT(30), <2>1, <2>2, <2>3, <2>4, <2>6, <2>7, <2>8, <2>9, <2>10, NextChunkStep
  <1> QED BY <1>1, <1>2

(* What a session that sends has left is at least the chunk in hand. *)
LEMMA Affordable ==
  ASSUME IInv, NEW s \in Sessions
  PROVE  /\ Sum(Paid(s)) \in Nat /\ session[s].asked \in Nat
         /\ session[s].stage = "sending" =>
              \E n \in Nat \ {0} :
                /\ session[s].chunks = Chunks[n]
                /\ deposit[session[s].pay].amount = Head(Chunks[n])
                /\ deposit[session[s].pay].amount \in 1 .. n
                /\ Sum(Paid(s)) + n = session[s].asked + InHand(s)
         /\ session[s].stage \in {"asking", "sending"} => Sum(Paid(s)) <= session[s].asked
         /\ session[s].stage = "sending" /\ deposit[session[s].pay].made = 0 =>
              Sum(Paid(s)) + deposit[session[s].pay].amount <= session[s].asked
  <1>1. Sum(Paid(s)) \in Nat
    BY PaidType, SumNat DEF IInv
  <1>2. session[s].asked \in Nat
    BY DEF IInv, TypeOK, SessionType
  <1>3. ASSUME session[s].stage = "sending"
        PROVE  \E n \in Nat \ {0} :
                 /\ session[s].chunks = Chunks[n]
                 /\ deposit[session[s].pay].amount = Head(Chunks[n])
                 /\ deposit[session[s].pay].amount \in 1 .. n
                 /\ Sum(Paid(s)) + n = session[s].asked + InHand(s)
    BY <1>3, ChunkStep DEF IInv, Stage, Sending
  <1>4. session[s].stage = "asking" => Sum(Paid(s)) <= session[s].asked
    BY SMTT(40), <1>1, <1>2 DEF IInv, Stage, Asking
  <1>5. ASSUME session[s].stage = "sending"
        PROVE  /\ Sum(Paid(s)) <= session[s].asked
               /\ deposit[session[s].pay].made = 0 =>
                    Sum(Paid(s)) + deposit[session[s].pay].amount <= session[s].asked
    <2>1. PICK n \in Nat \ {0} :
                 /\ deposit[session[s].pay].amount \in 1 .. n
                 /\ Sum(Paid(s)) + n = session[s].asked + InHand(s)
      BY <1>3, <1>5
    <2>2. InHand(s) = IF deposit[session[s].pay].made = 1
                      THEN deposit[session[s].pay].amount ELSE 0
      BY DEF InHand
    <2> QED BY <1>1, <1>2, <2>1, <2>2
  <1> QED BY <1>1, <1>2, <1>3, <1>4, <1>5

(* A session that fails has paid at most what was asked, and so it has when *)
(* the transfer it gave up is made after all.                               *)
LEMMA FailedStage ==
  ASSUME IInv, NEW s \in Sessions, Fail(s), session[s].stage \in {"asking", "sending"},
         Paid(s)' = Paid(s), PaidFor(s)' = PaidFor(s),
         \A p \in Payments : deposit'[p].by = s =>
           /\ deposit'[p].target = session[s].target
           /\ deposit'[p].late => /\ session[s].stage = "sending" /\ p = session[s].pay
                                  /\ deposit[p].made = 0 /\ deposit'[p].amount = deposit[p].amount
  PROVE  Stage(s)' /\ session' \in [Sessions -> SessionType] /\ DoneStays
         /\ session'[s].stage = "failed" /\ status' # "completed"
         /\ \A t \in Sessions \ {s} : session'[t] = session[t]
  <1>1. session \in [Sessions -> SessionType]
    BY DEF IInv, TypeOK
  <1>2. /\ session' = [session EXCEPT ![s] = [session[s] EXCEPT !.stage = "failed"]]
        /\ status' = "error"
    BY <1>1 DEF Fail
  <1>3. /\ session'[s] \in SessionType /\ session'[s].stage = "failed"
        /\ session'[s].asked = session[s].asked /\ session'[s].sent = session[s].sent
        /\ session'[s].target = session[s].target /\ session'[s].pay = session[s].pay
    BY ZenonT(30), <1>1, <1>2 DEF SessionType, Stages
  <1>4. Sum(Paid(s))' = Sum(Paid(s))
    BY DEF Sum
  <1>5. Waiting(s)' /\ Asking(s)' /\ Sending(s)' /\ Whole(s)'
    BY <1>3 DEF Waiting, Asking, Sending, Whole
  <1>6. Books(s)'
    BY <1>3 DEF Books, IInv, Stage
  <1>7. GivenUp(s)'
    BY <1>3, <1>4, Affordable DEF GivenUp
  <1> QED BY <1>1, <1>2, <1>3, <1>5, <1>6, <1>7 DEF Stage, DoneStays

LEMMA RequestFailedStep ==
  ASSUME IInv, NEW s \in Sessions, session[s].stage \in {"asking", "sending"}, Fail(s),
         UNCHANGED <<deposit, current, polling>>
  PROVE  IInv'
  <1>1. Paid(s)' = Paid(s) /\ PaidFor(s)' = PaidFor(s)
    BY DEF Paid, PaidFor
  <1>2. \A p \in Payments : deposit[p].by = s =>
          deposit[p].target = session[s].target /\ ~deposit[p].late
    BY NotLate DEF IInv, Stage, Books
  <1>3. /\ Stage(s)' /\ session' \in [Sessions -> SessionType] /\ DoneStays
        /\ session'[s].stage = "failed" /\ status' # "completed"
        /\ \A t \in Sessions \ {s} : session'[t] = session[t]
    BY <1>1, <1>2, FailedStage
  <1>4. TypeOK' /\ MintStays /\ timer' = timer /\ ticks' = ticks
    BY <1>3 DEF IInv, TypeOK, MintStays, polling
  <1>5. Polls'
    BY <1>3, <1>4, PollsKept
  <1>6. \A t \in Sessions \ {s} : Untouched(t)
    BY <1>3 DEF Untouched
  <1> QED BY <1>2, <1>3, <1>4, <1>5, <1>6, OneSession, LateIsKnown DEF IInv

(* A fresh payment: nothing is paid by it. *)
LEMMA RequestServedStep ==
  ASSUME IInv, NEW s \in Sessions, RequestServed(s)
  PROVE  IInv'
  <1>1. PICK p \in Payments :
          /\ deposit[p] = Unused
          /\ deposit' = [deposit EXCEPT ![p].amount = Head(session[s].chunks),
                                        ![p].target = session[s].target, ![p].by = s]
          /\ \/ /\ session' = [session EXCEPT ![s].stage = "sending", ![s].pay = p]
                /\ UNCHANGED status
             \/ Fail(s)
    BY ZenonT(30) DEF RequestServed
  <1>2. session[s].stage = "asking" /\ UNCHANGED <<current, timer, ticks, clearing>>
    BY DEF RequestServed, polling
  <1>3. PICK n \in Nat \ {0} : session[s].chunks = Chunks[n] /\ Sum(Paid(s)) + n = session[s].asked
    BY <1>2 DEF IInv, Stage, Asking
  <1>4. Head(session[s].chunks) \in Nat /\ session[s].target \in Wallets \cup {NoOne}
    BY <1>3, ChunkStep DEF IInv, TypeOK, SessionType
  <1>5. deposit \in [Payments -> DepositType] /\ deposit[p].by = NoOne
        /\ deposit[p].made = 0 /\ ~deposit[p].late /\ ~deposit[p].minted
    BY <1>1 DEF IInv, TypeOK, Unused
  <1>6. /\ deposit'[p].by = s /\ deposit'[p].made = 0 /\ ~deposit'[p].late
        /\ deposit'[p].amount = Head(session[s].chunks)
        /\ deposit'[p].target = session[s].target
        /\ deposit' \in [Payments -> DepositType]
        /\ \A q \in Payments \ {p} : deposit'[q] = deposit[q]
    <2> DEFINE d == [deposit[p] EXCEPT !.amount = Head(session[s].chunks),
                                       !.target = session[s].target, !.by = s]
    <2>1. deposit' = [deposit EXCEPT ![p] = d]
      BY ZenonT(30), <1>1, <1>5
    <2>2. /\ d \in DepositType /\ d.by = s /\ d.made = 0 /\ ~d.late
          /\ d.amount = Head(session[s].chunks) /\ d.target = session[s].target
      BY ZenonT(30), <1>4, <1>5 DEF DepositType
    <2> HIDE DEF d
    <2> QED BY <1>5, <2>1, <2>2
  <1>7. NoOne \notin Sessions
    BY BridgeBounds
  <1>8. Paid(s)' = Paid(s) /\ PaidFor(s)' = PaidFor(s)
    BY <1>5, <1>6, <1>7 DEF Paid, PaidFor, DepositType
  <1>9. \A q \in Payments : deposit'[q].by = s =>
          deposit'[q].target = session[s].target /\ ~deposit'[q].late
    BY ZenonT(30), <1>2, <1>6, NotLate DEF IInv, Stage, Books
  <1>10. MintStays
    BY <1>5, <1>6 DEF MintStays
  <1>11. \A q \in Payments : deposit'[q].late => deposit'[q].by \in Sessions
    BY <1>6, LateIsKnown
  <1>12. SUFFICES /\ Stage(s)' /\ session' \in [Sessions -> SessionType] /\ DoneStays
                  /\ \A t \in Sessions \ {s} : session'[t] = session[t]
                  /\ status' = status \/ status' # "completed"
    <2>1. \A t \in Sessions \ {s} : Untouched(t)
      BY <1>5, <1>6, <1>7, <1>12 DEF Untouched
    <2>2. TypeOK'
      BY <1>2, <1>6, <1>12 DEF IInv, TypeOK
    <2>3. Polls'
      BY <1>2, <1>10, <1>12, PollsKept
    <2> QED BY <1>9, <1>11, <1>12, <2>1, <2>2, <2>3, OneSession DEF IInv
  <1>13. CASE Fail(s)
    BY <1>2, <1>8, <1>9, <1>13, FailedStage
  <1>14. CASE /\ session' = [session EXCEPT ![s].stage = "sending", ![s].pay = p]
              /\ status' = status
    <2>1. session \in [Sessions -> SessionType]
      BY DEF IInv, TypeOK
    <2>2. /\ session'[s] \in SessionType /\ session'[s].stage = "sending"
          /\ session'[s].pay = p /\ session'[s].asked = session[s].asked
          /\ session'[s].sent = session[s].sent /\ session'[s].chunks = session[s].chunks
          /\ session'[s].target = session[s].target
      BY ZenonT(30), <1>14, <2>1 DEF SessionType, Stages
    <2>3. Range(session[s].sent) \subseteq PaidFor(s) /\ PaidFor(s) \subseteq Range(session[s].sent)
      BY <1>2 DEF IInv, Stage, Books, Asking
    <2>4. p \notin PaidFor(s)
      BY <1>5 DEF PaidFor
    <2>5. Sum(Paid(s))' = Sum(Paid(s)) /\ InHand(s)' = 0
      BY <1>6, <1>8, <2>2 DEF Sum, InHand
    <2>6. Sum(Paid(s)) + n = session[s].asked + 0
      BY <1>3, Affordable
    <2>7. Sending(s)'
      BY <1>3, <1>6, <1>8, <2>2, <2>3, <2>4, <2>5, <2>6 DEF Sending
    <2>8. Waiting(s)' /\ Asking(s)' /\ Whole(s)' /\ GivenUp(s)' /\ Books(s)'
      BY <1>8, <1>9, <2>2, <2>3 DEF Waiting, Asking, Whole, GivenUp, Books
    <2> QED BY <1>2, <1>14, <2>1, <2>2, <2>7, <2>8 DEF Stage, DoneStays
  <1> QED BY <1>1, <1>13, <1>14

(* wallet-rpc makes the transfer of payment p: the sum grows by its amount. *)
LEMMA MadeSum ==
  ASSUME IInv, NEW s \in Sessions, NEW p \in Payments, deposit[p].by = s, deposit[p].made = 0,
         NEW l \in BOOLEAN,
         deposit' = [deposit EXCEPT ![p] = [deposit[p] EXCEPT !.late = l, !.made = 1]]
  PROVE  /\ deposit' \in [Payments -> DepositType] /\ MintStays
         /\ deposit'[p].by = s /\ deposit'[p].made = 1 /\ deposit'[p].late = l
         /\ deposit'[p].amount = deposit[p].amount /\ deposit'[p].target = deposit[p].target
         /\ \A q \in Payments \ {p} : deposit'[q] = deposit[q]
         /\ PaidFor(s)' = PaidFor(s) \cup {p}
         /\ Sum(Paid(s))' = Sum(Paid(s)) + deposit[p].amount
  <1> DEFINE d == [deposit[p] EXCEPT !.late = l, !.made = 1]
  <1>1. deposit \in [Payments -> DepositType]
    BY DEF IInv, TypeOK
  <1>2. /\ d \in DepositType /\ d.by = s /\ d.made = 1 /\ d.late = l
        /\ d.amount = deposit[p].amount /\ d.target = deposit[p].target
        /\ d.minted = deposit[p].minted
    BY ZenonT(30), <1>1 DEF DepositType
  <1>3. deposit' = [deposit EXCEPT ![p] = d]
    OBVIOUS
  <1> HIDE DEF d
  <1>4. /\ deposit' \in [Payments -> DepositType] /\ deposit'[p] = d
        /\ \A q \in Payments \ {p} : deposit'[q] = deposit[q]
    BY <1>1, <1>2, <1>3
  <1>5. MintStays
    BY <1>2, <1>4 DEF MintStays
  <1>6. PaidFor(s)' = PaidFor(s) \cup {p}
    BY <1>1, <1>2, <1>4 DEF PaidFor, DepositType
  <1>7. Sum(Paid(s))' = Sum(Paid(s)) + deposit[p].amount
    <2> DEFINE v == Paid(s)
               w == Paid(s)'
    <2>1. /\ v \in [Payments -> Nat] /\ v[p] = 0 /\ deposit[p].amount \in Nat
      BY <1>1, PaidType DEF IInv, DepositType
    <2>2. w = [q \in Payments |-> IF deposit'[q].by = s
                                  THEN deposit'[q].made * deposit'[q].amount ELSE 0]
      BY DEF Paid
    <2>3. w[p] = deposit[p].amount
      <3>1. w[p] = 1 * deposit[p].amount
        BY <1>2, <1>4, <2>2
      <3> QED BY <2>1, <3>1
    <2>4. \A q \in Payments \ {p} : w[q] = v[q]
      BY <1>4, <2>2 DEF Paid
    <2>5. w \in [Payments -> Nat]
      <3>1. w = [q \in Payments |-> w[q]]
        BY <2>2
      <3> QED BY <2>1, <2>3, <2>4, <3>1
    <2>6. Sum(Paid(s))' = Sum(w)
      BY DEF Sum
    <2> HIDE DEF v, w
    <2>7. Sum(w) + v[p] = Sum(v) + w[p] /\ Sum(v) \in Nat /\ Sum(w) \in Nat
      BY <2>1, <2>4, <2>5, SumChange
    <2>8. Sum(w) = Sum(v) + deposit[p].amount
      BY <2>1, <2>3, <2>7
    <2> QED BY <2>6, <2>8 DEF v
  <1> QED BY <1>2, <1>4, <1>5, <1>6, <1>7

LEMMA TransferStep ==
  ASSUME IInv, NEW s \in Sessions, Transfer(s)
  PROVE  IInv'
  <1> DEFINE p == session[s].pay
  <1>1. /\ p \in Payments \ Range(session[s].sent) /\ deposit[p].by = s
        /\ PaidFor(s) \subseteq Range(session[s].sent) \cup {p}
        /\ Range(session[s].sent) \subseteq PaidFor(s)
        /\ deposit[p].amount = Head(session[s].chunks)
    BY DEF Transfer, IInv, Stage, Sending, Books
  <1>2. deposit[p].made = 0 /\ ~deposit[p].late /\ session[s].stage = "sending"
        /\ UNCHANGED <<session, current, timer, ticks, clearing, status>>
    BY <1>1, NotLate DEF Transfer, polling
  <1>3. deposit' = [deposit EXCEPT ![p] = [deposit[p] EXCEPT !.late = FALSE, !.made = 1]]
    <2>1. deposit \in [Payments -> DepositType]
      BY DEF IInv, TypeOK
    <2>2. deposit' = [deposit EXCEPT ![p] = [deposit[p] EXCEPT !.made = 1]]
      BY <1>1, <2>1 DEF Transfer
    <2>3. [deposit[p] EXCEPT !.made = 1] = [deposit[p] EXCEPT !.late = FALSE, !.made = 1]
      BY ZenonT(40), <1>1, <1>2, <2>1 DEF DepositType
    <2> QED BY ZenonT(30), <2>2, <2>3
  <1>4. /\ deposit' \in [Payments -> DepositType] /\ MintStays
        /\ deposit'[p].by = s /\ deposit'[p].made = 1 /\ deposit'[p].late = FALSE
        /\ deposit'[p].amount = deposit[p].amount /\ deposit'[p].target = deposit[p].target
        /\ \A q \in Payments \ {p} : deposit'[q] = deposit[q]
        /\ PaidFor(s)' = PaidFor(s) \cup {p}
        /\ Sum(Paid(s))' = Sum(Paid(s)) + deposit[p].amount
    BY ZenonT(30), <1>1, <1>2, <1>3, MadeSum
  <1>5. PICK n \in Nat \ {0} : /\ session[s].chunks = Chunks[n] /\ deposit[p].amount \in 1 .. n
                               /\ Sum(Paid(s)) + n = session[s].asked + InHand(s)
    BY <1>2, Affordable
  <1>6. InHand(s) = 0 /\ InHand(s)' = deposit[p].amount
    BY <1>2, <1>4 DEF InHand
  <1>7. Sum(Paid(s))' + n = session[s].asked + deposit[p].amount
    <2>1. Sum(Paid(s)) \in Nat /\ session[s].asked \in Nat
      BY ZenonT(30), Affordable
    <2>2. PICK paid \in Nat : paid = Sum(Paid(s))
      BY <2>1
    <2>3. PICK asked \in Nat : asked = session[s].asked
      BY <2>1
    <2>4. PICK a \in Nat : a = deposit[p].amount
      BY <1>5
    <2>5. paid + n = asked + 0
      BY ZenonT(30), <1>5, <1>6, <2>2, <2>3
    <2>6. (paid + a) + n = asked + a
      BY SMTT(30), <2>5
    <2> QED BY ZenonT(30), <1>4, <2>2, <2>3, <2>4, <2>6
  <1>8. Sending(s)'
    BY ZenonT(30), <1>1, <1>2, <1>4, <1>5, <1>6, <1>7 DEF Sending
  <1>9. Waiting(s)' /\ Asking(s)' /\ Whole(s)' /\ GivenUp(s)' /\ Books(s)'
    <2>1. Waiting(s)' /\ Asking(s)' /\ Whole(s)' /\ GivenUp(s)'
      BY <1>1, <1>2 DEF Waiting, Asking, Whole, GivenUp
    <2>2. Books(s)
      BY DEF IInv, Stage
    <2>3. Range(session[s].sent)' \subseteq PaidFor(s)'
      <3>1. session' = session
        BY <1>2
      <3>2. Range(session[s].sent)' = Range(session[s].sent)
        BY <3>1
      <3> QED BY <1>1, <1>4, <3>2
    <2>4. \A q \in Payments : deposit'[q].by = s => deposit'[q].target = session'[s].target
      BY ZenonT(30), <1>1, <1>2, <1>4, <2>2 DEF Books
    <2> QED BY ZenonT(30), <2>1, <2>3, <2>4 DEF Books
  <1>10. \A t \in Sessions \ {s} : Untouched(t)
    BY ZenonT(30), <1>1, <1>2, <1>4 DEF Untouched
  <1>11. TypeOK'
    BY <1>2, <1>4 DEF IInv, TypeOK
  <1>12. Polls'
    BY <1>2, <1>4, PollsKept DEF DoneStays
  <1>13. \A q \in Payments : deposit'[q].late => deposit'[q].by \in Sessions /\ deposit'[q].by # s
    BY ZenonT(30), <1>2, <1>4, NotLate, LateIsKnown
  <1> QED BY ZenonT(30), <1>8, <1>9, <1>10, <1>11, <1>12, <1>13, OneSession DEF IInv, Stage

LEMMA TransferTimedOutStep ==
  ASSUME IInv, NEW s \in Sessions, TransferTimedOut(s)
  PROVE  IInv'
  <1> DEFINE p == session[s].pay
             l == deposit[p].made = 0
             d == [deposit[p] EXCEPT !.late = l]
  <1>1. /\ session[s].stage = "sending" /\ p \in Payments /\ deposit[p].by = s /\ Fail(s)
        /\ UNCHANGED <<current, timer, ticks, clearing>>
    BY DEF TransferTimedOut, polling, IInv, Stage, Sending
  <1>2. deposit \in [Payments -> DepositType] /\ ~deposit[p].late
    BY <1>1, NotLate DEF IInv, TypeOK
  <1>3. deposit' = [deposit EXCEPT ![p] = d]
    <2>1. deposit' = [deposit EXCEPT ![p] = [deposit[p] EXCEPT !.late = (deposit[p].late \/ l)]]
      BY <1>1, <1>2 DEF TransferTimedOut
    <2>2. (deposit[p].late \/ l) = l
      BY <1>2
    <2> QED BY ZenonT(30), <2>1, <2>2
  <1>4. /\ d \in DepositType /\ d.by = s /\ d.made = deposit[p].made /\ d.late = l
        /\ d.amount = deposit[p].amount /\ d.target = deposit[p].target
        /\ d.minted = deposit[p].minted
    BY ZenonT(30), <1>1, <1>2 DEF DepositType
  <1> HIDE DEF d
  <1>5. /\ deposit' \in [Payments -> DepositType] /\ deposit'[p] = d
        /\ \A q \in Payments \ {p} : deposit'[q] = deposit[q]
    BY ZenonT(30), <1>1, <1>2, <1>3, <1>4
  <1>6. Paid(s)' = Paid(s) /\ PaidFor(s)' = PaidFor(s)
    BY <1>1, <1>4, <1>5 DEF Paid, PaidFor
  <1>7. \A q \in Payments : deposit'[q].by = s =>
          /\ deposit'[q].target = session[s].target
          /\ deposit'[q].late => q = p /\ deposit[q].made = 0 /\ deposit'[q].amount = deposit[q].amount
    <2> TAKE q \in Payments
    <2>1. deposit[q].by = s => deposit[q].target = session[s].target /\ ~deposit[q].late
      BY ZenonT(30), <1>1, NotLate DEF IInv, Stage, Books
    <2>2. CASE q = p
      BY ZenonT(30), <1>1, <1>4, <1>5, <2>1, <2>2
    <2>3. CASE q # p
      BY <1>5, <2>1, <2>3
    <2> QED BY <2>2, <2>3
  <1>8. /\ Stage(s)' /\ session' \in [Sessions -> SessionType] /\ DoneStays
        /\ session'[s].stage = "failed" /\ status' # "completed"
        /\ \A t \in Sessions \ {s} : session'[t] = session[t]
    BY <1>1, <1>6, <1>7, FailedStage
  <1>9. TypeOK' /\ MintStays
    BY <1>1, <1>4, <1>5, <1>8 DEF IInv, TypeOK, MintStays
  <1>10. Polls'
    BY ZenonT(30), <1>1, <1>8, <1>9, PollsKept
  <1>11. \A t \in Sessions \ {s} : Untouched(t)
    BY ZenonT(30), <1>1, <1>4, <1>5, <1>8 DEF Untouched
  <1>12. \A q \in Payments : deposit'[q].late =>
           /\ deposit'[q].by \in Sessions
           /\ deposit'[q].by = s => deposit'[q].made = 0
    <2> TAKE q \in Payments
    <2>1. CASE q = p
      BY ZenonT(30), <1>1, <1>4, <1>5, <2>1
    <2>2. CASE q # p
      BY <1>1, <1>5, <2>2, LateIsKnown, NotLate
    <2> QED BY <2>1, <2>2
  <1> QED BY ZenonT(30), <1>8, <1>9, <1>10, <1>11, <1>12, OneSession DEF IInv

(* The transfer the page gave up is made: there was room for it. *)
LEMMA LateTransferStep ==
  ASSUME IInv, NEW p \in Payments, LateTransfer(p)
  PROVE  IInv'
  <1>0. PICK s \in Sessions : s = deposit[p].by
    BY DEF LateTransfer, IInv, Late
  <1>1. /\ deposit[p].late /\ deposit[p].made = 0 /\ deposit[p].by = s
        /\ session[s].stage = "failed"
        /\ UNCHANGED <<session, current, timer, ticks, clearing, status>>
    BY <1>0 DEF LateTransfer, polling, IInv, Late
  <1>2. p = session[s].pay /\ Sum(Paid(s)) + deposit[p].amount <= session[s].asked
    BY ZenonT(30), <1>1 DEF IInv, Stage, GivenUp
  <1>3. deposit' = [deposit EXCEPT ![p] = [deposit[p] EXCEPT !.late = FALSE, !.made = 1]]
    <2>1. deposit \in [Payments -> DepositType]
      BY DEF IInv, TypeOK
    <2>2. deposit' = [deposit EXCEPT ![p] = [deposit[p] EXCEPT !.late = FALSE, !.made = deposit[p].made + 1]]
      BY ZenonT(30), <2>1 DEF LateTransfer
    <2> QED BY <1>1, <2>2
  <1>4. /\ deposit' \in [Payments -> DepositType] /\ MintStays
        /\ deposit'[p].by = s /\ deposit'[p].made = 1 /\ deposit'[p].late = FALSE
        /\ deposit'[p].amount = deposit[p].amount /\ deposit'[p].target = deposit[p].target
        /\ \A q \in Payments \ {p} : deposit'[q] = deposit[q]
        /\ PaidFor(s)' = PaidFor(s) \cup {p}
        /\ Sum(Paid(s))' = Sum(Paid(s)) + deposit[p].amount
    BY ZenonT(40), <1>1, <1>3, MadeSum
  <1>5. \A q \in Payments : deposit'[q].by = s => ~deposit'[q].late
    BY ZenonT(30), <1>1, <1>2, <1>4 DEF IInv, Stage, GivenUp
  <1>6. Waiting(s)' /\ Asking(s)' /\ Sending(s)' /\ Whole(s)'
    BY ZenonT(30), <1>1 DEF Waiting, Asking, Sending, Whole
  <1>7. GivenUp(s)' /\ Books(s)'
    <2>1. GivenUp(s)'
      BY ZenonT(30), <1>1, <1>2, <1>4, <1>5 DEF GivenUp
    <2>2. Books(s)
      BY DEF IInv, Stage
    <2>3. Range(session[s].sent)' \subseteq PaidFor(s)'
      BY <1>1, <1>4, <2>2 DEF Books
    <2>4. \A q \in Payments : deposit'[q].by = s => deposit'[q].target = session'[s].target
      BY <1>1, <1>4, <2>2 DEF Books
    <2> QED BY <2>1, <2>3, <2>4 DEF Books
  <1>8. \A t \in Sessions \ {s} : Untouched(t)
    BY <1>1, <1>4 DEF Untouched
  <1>9. TypeOK'
    BY <1>1, <1>4 DEF IInv, TypeOK
  <1>10. Polls'
    BY <1>1, <1>4, PollsKept DEF DoneStays
  <1>11. \A q \in Payments : deposit'[q].late => deposit'[q].by \in Sessions
    BY <1>1, <1>4, LateIsKnown
  <1> QED BY ZenonT(30), <1>1, <1>5, <1>6, <1>7, <1>8, <1>9, <1>10, <1>11, OneSession DEF IInv, Stage

LEMMA AppendRange ==
  ASSUME NEW S, NEW f \in Seq(S), NEW e \in S
  PROVE  /\ Append(f, e) \in Seq(S) /\ Range(Append(f, e)) = Range(f) \cup {e}
         /\ Append(f, e) # <<>> /\ Append(f, e)[1] \in Range(f) \cup {e}
  <1> DEFINE g == Append(f, e)
  <1>1. g \in Seq(S) /\ Len(g) = Len(f) + 1 /\ g[Len(f) + 1] = e
        /\ \A i \in 1 .. Len(f) : g[i] = f[i]
    OBVIOUS
  <1>2. Len(f) \in Nat /\ DOMAIN f = 1 .. Len(f) /\ DOMAIN g = 1 .. Len(f) + 1
    BY <1>1
  <1> HIDE DEF g
  <1>3. Range(g) = Range(f) \cup {e}
    <2>1. ASSUME NEW x \in Range(g) PROVE x \in Range(f) \cup {e}
      <3>1. PICK i \in 1 .. Len(f) + 1 : x = g[i]
        BY <1>2 DEF Range
      <3> QED BY <1>1, <1>2, <3>1 DEF Range
    <2>2. ASSUME NEW x \in Range(f) PROVE x \in Range(g)
      <3>1. PICK i \in 1 .. Len(f) : x = f[i]
        BY <1>2 DEF Range
      <3>2. i \in DOMAIN g /\ x = g[i]
        BY <1>1, <1>2, <3>1
      <3> QED BY <3>2 DEF Range
    <2>3. e \in Range(g)
      BY <1>1, <1>2 DEF Range
    <2> QED BY <2>1, <2>2, <2>3
  <1>4. g # <<>> /\ g[1] \in Range(g)
    BY <1>1, <1>2 DEF Range
  <1> QED BY <1>1, <1>3, <1>4 DEF g

(* The answer of transfer_split: the chunk in hand becomes a listed payment. *)
LEMMA TransferDoneStep ==
  ASSUME IInv, NEW s \in Sessions, TransferDone(s)
  PROVE  IInv'
  <1> DEFINE p == session[s].pay
             r == [session[s] EXCEPT !.sent = Append(@, p), !.chunks = Tail(@)]
  <1>1. /\ session[s].stage = "sending" /\ p \in Payments /\ deposit[p].by = s /\ deposit[p].made = 1
        /\ PaidFor(s) \subseteq Range(session[s].sent) \cup {p}
        /\ Range(session[s].sent) \subseteq PaidFor(s)
        /\ deposit' = deposit /\ UNCHANGED <<current, ticks, clearing>>
    BY DEF TransferDone, IInv, Stage, Sending, Books
  <1>2. session[s] \in SessionType /\ session \in [Sessions -> SessionType]
    BY DEF IInv, TypeOK
  <1>3. PICK n \in Nat \ {0} :
          /\ session[s].chunks = Chunks[n]
          /\ deposit[p].amount = Head(Chunks[n])
          /\ deposit[p].amount \in 1 .. n
          /\ Sum(Paid(s)) + n = session[s].asked + InHand(s)
    BY <1>1, Affordable
  <1> DEFINE m == n - deposit[p].amount
  <1>4. /\ m \in Nat /\ Tail(session[s].chunks) = Chunks[m] /\ Chunks[m] \in Seq(Nat)
        /\ Sum(Paid(s)) + m = session[s].asked
    <2>1. InHand(s) = deposit[p].amount
      BY <1>1 DEF InHand
    <2>2. m \in Nat /\ Sum(Paid(s)) + m = session[s].asked
      BY <1>3, <2>1, Affordable
    <2> QED BY ZenonT(30), <1>3, <2>2, ChunkStep, ChunksIs
  <1> HIDE DEF m
  <1>5. LET sent == Append(session[s].sent, p)
        IN  /\ sent \in Seq(Payments) /\ sent # <<>> /\ sent[1] \in Payments
            /\ Range(sent) = Range(session[s].sent) \cup {p}
    <2>1. session[s].sent \in Seq(Payments)
      BY <1>2 DEF SessionType
    <2>2. Range(session[s].sent) \subseteq Payments
      BY <1>1 DEF PaidFor
    <2> QED BY <1>1, <2>1, <2>2, AppendRange
  <1>6. /\ r \in SessionType /\ r.sent = Append(session[s].sent, p) /\ r.chunks = Chunks[m]
        /\ r.asked = session[s].asked /\ r.target = session[s].target /\ r.stage = "sending"
    BY ZenonT(30), <1>1, <1>2, <1>4, <1>5 DEF SessionType
  <1>7. p \in PaidFor(s) /\ PaidFor(s) = Range(r.sent)
    BY <1>1, <1>5, <1>6 DEF PaidFor
  <1>8. \A q \in Payments : deposit[q].by = s => deposit[q].target = r.target
    BY <1>6 DEF IInv, Stage, Books
  <1>9. CASE r.chunks # <<>>
    <2>1. NextChunk(s, r) /\ UNCHANGED <<current, polling>>
      BY <1>1, <1>9 DEF TransferDone, polling
    <2>2. m # 0
      BY ZenonT(30), <1>4, <1>6, <1>9, ChunksEmpty
    <2>3. Sum(Paid(s)) + m = r.asked
      BY <1>4, <1>6
    <2> HIDE DEF r
    <2>4. m \in Nat \ {0} /\ session[s].stage # "failed" /\ session[s].stage # "done"
          /\ r \in SessionType /\ r.chunks = Chunks[m] /\ deposit' = deposit
      BY <1>1, <1>4, <1>6, <2>2
    <2>5. PICK k \in Nat, u \in SessionType : k = m /\ u = r /\ k # 0
      BY <2>4
    <2> QED BY <1>7, <1>8, <2>1, <2>3, <2>4, <2>5, NextChunkStep
  <1>10. CASE r.chunks = <<>>
    <2> DEFINE u == [r EXCEPT !.stage = "done"]
    <2>1. /\ session' = [session EXCEPT ![s] = u] /\ timer' = r.sent[1] /\ status' = "waiting"
      BY <1>10 DEF TransferDone
    <2>2. /\ u \in SessionType /\ u.stage = "done" /\ u.sent = r.sent /\ u.asked = r.asked
          /\ u.target = r.target
      BY ZenonT(30), <1>6 DEF SessionType, Stages
    <2> HIDE DEF u, r
    <2>3. /\ session'[s] = u /\ session' \in [Sessions -> SessionType]
          /\ \A t \in Sessions \ {s} : session'[t] = session[t]
      BY <1>2, <2>1, <2>2
    <2>4. TypeOK'
      BY ZenonT(30), <1>1, <1>5, <1>6, <2>1, <2>3 DEF IInv, TypeOK
    <2>5. Paid(s)' = Paid(s) /\ PaidFor(s)' = PaidFor(s)
      BY <1>1 DEF Paid, PaidFor
    <2>6. Sum(Paid(s))' = r.asked
      <3>1. m = 0
        BY ZenonT(30), <1>4, <1>6, <1>10, ChunksEmpty
      <3>2. Sum(Paid(s)) = r.asked
        BY SMTT(40), <1>4, <1>6, <3>1, Affordable
      <3> QED BY <2>5, <3>2 DEF Sum
    <2>7. Waiting(s)' /\ Asking(s)' /\ Sending(s)' /\ GivenUp(s)'
      BY ZenonT(30), <2>2, <2>3 DEF Waiting, Asking, Sending, GivenUp
    <2>8. Whole(s)' /\ Books(s)'
      BY ZenonT(30), <1>1, <1>5, <1>6, <1>7, <1>8, <2>2, <2>3, <2>5, <2>6 DEF Whole, Books
    <2>9. \A t \in Sessions \ {s} : Untouched(t)
      BY ZenonT(30), <1>1, <2>3 DEF Untouched
    <2>10. \A q \in Payments : deposit'[q].late => deposit'[q].by \in Sessions /\ deposit'[q].by # s
      BY <1>1, NotLate, LateIsKnown
    <2>11. Polls'
      <3>1. DoneStays
        BY <1>1, <2>3 DEF DoneStays
      <3>2. First(timer)'
        BY <2>1, <2>2, <2>3 DEF First
      <3>3. \A t \in ticks : First(t.pay)' /\ (t.answer = "processed" => deposit'[t.pay].minted)
        BY <1>1, <3>1, FirstStays DEF IInv, Polls
      <3>4. CompletedIsMinted'
        BY <2>1 DEF CompletedIsMinted
      <3> QED BY <1>1, <3>2, <3>3, <3>4 DEF Polls, First
    <2> QED BY ZenonT(30), <2>4, <2>7, <2>8, <2>9, <2>10, <2>11, OneSession DEF IInv, Stage
  <1> QED BY <1>9, <1>10

(* Steps of the signers, of the polls and of the user. *)
LEMMA QuietStep ==
  ASSUME IInv, TypeOK', Polls', session' = session,
         \A p \in Payments : deposit'[p] = [deposit[p] EXCEPT !.minted = deposit'[p].minted]
  PROVE  IInv'
  <1>1. ASSUME NEW p \in Payments
        PROVE  /\ deposit'[p].by = deposit[p].by /\ deposit'[p].amount = deposit[p].amount
               /\ deposit'[p].target = deposit[p].target /\ deposit'[p].made = deposit[p].made
               /\ deposit'[p].late = deposit[p].late
    <2>1. deposit[p] \in DepositType
      BY DEF IInv, TypeOK
    <2>2. PICK b : deposit'[p] = [deposit[p] EXCEPT !.minted = b]
      BY ZenonT(30)
    <2> QED BY <2>1, <2>2 DEF DepositType
  <1>2. \A t \in Sessions : Untouched(t)
    BY <1>1 DEF Untouched
  <1>3. \A t \in Sessions : Stage(t)'
    BY <1>2, StageKept DEF IInv
  <1>4. \A p \in Payments : Late(p)'
    BY <1>1 DEF IInv, Late
  <1> QED BY <1>3, <1>4 DEF IInv

LEMMA SameDeposits ==
  ASSUME TypeOK, deposit' = deposit
  PROVE  /\ \A p \in Payments : deposit'[p] = [deposit[p] EXCEPT !.minted = deposit'[p].minted]
         /\ MintStays
  BY DEF TypeOK, DepositType, MintStays

LEMMA MintStep ==
  ASSUME IInv, NEW p \in Payments, Mint(p)
  PROVE  IInv'
  <1> DEFINE d == [deposit[p] EXCEPT !.minted = TRUE]
  <1>1. deposit \in [Payments -> DepositType]
        /\ UNCHANGED <<session, current, timer, ticks, clearing, status>>
    BY DEF Mint, polling, IInv, TypeOK
  <1>2. deposit' = [deposit EXCEPT ![p] = d]
    BY <1>1 DEF Mint
  <1>3. d \in DepositType /\ d.minted = TRUE
    BY ZenonT(30), <1>1 DEF DepositType
  <1>4. /\ deposit' \in [Payments -> DepositType] /\ deposit'[p] = d
        /\ \A q \in Payments \ {p} : deposit'[q] = deposit[q]
    BY <1>1, <1>2, <1>3
  <1>5. \A q \in Payments : deposit'[q] = [deposit[q] EXCEPT !.minted = deposit'[q].minted]
    <2> TAKE q \in Payments
    <2>1. CASE q = p
      BY <1>3, <1>4, <2>1
    <2>2. CASE q # p
      BY <1>1, <1>4, <2>2 DEF DepositType
    <2> QED BY <2>1, <2>2
  <1>6. TypeOK' /\ MintStays /\ DoneStays
    BY ZenonT(30), <1>1, <1>3, <1>4 DEF IInv, TypeOK, MintStays, DoneStays
  <1>7. Polls'
    BY <1>1, <1>6, PollsKept
  <1> QED BY <1>1, <1>5, <1>6, <1>7, QuietStep

(* The polls: a tick asks for a first payment of a session that is done,    *)
(* and "processed" is said of a minted one only.                            *)
LEMMA PollStep ==
  ASSUME IInv,
         Tick \/ (\E t \in ticks : StatusServed(t) \/ StatusFailed(t) \/ TickDone(t)) \/ RemovePending
  PROVE  IInv'
  <1>1. session' = session /\ deposit' = deposit /\ current' = current
    BY DEF Tick, StatusServed, StatusFailed, Answered, TickDone, RemovePending
  <1>2. /\ \A p \in Payments : deposit'[p] = [deposit[p] EXCEPT !.minted = deposit'[p].minted]
        /\ MintStays /\ DoneStays
    BY <1>1, SameDeposits DEF IInv, DoneStays
  <1>3. SUFFICES TypeOK' /\ Polls'
    BY <1>1, <1>2, <1>3, QuietStep
  <1>4. \A p : First(p)' <=> First(p)
    BY <1>1 DEF First
  <1>5. TypeOK /\ Polls
    BY DEF IInv
  <1>6. CASE Tick
    <2>1. /\ ticks' = ticks \cup {[pay |-> timer, answer |-> "none"]} /\ timer \in Payments
          /\ First(timer) /\ UNCHANGED <<timer, clearing, status>>
      BY <1>5, <1>6 DEF Tick, TypeOK, Polls
    <2>2. TypeOK'
      BY SMTT(30), <1>1, <1>5, <2>1 DEF TypeOK
    <2>3. timer' # NoOne => First(timer)'
      BY ZenonT(30), <1>4, <1>5, <2>1 DEF Polls
    <2>4. ASSUME NEW t \in ticks' PROVE First(t.pay)' /\ (t.answer = "processed" => deposit'[t.pay].minted)
      <3>1. CASE t \in ticks
        BY ZenonT(30), <1>1, <1>4, <1>5, <3>1 DEF Polls
      <3>2. CASE t = [pay |-> timer, answer |-> "none"]
        BY SMTT(30), <1>4, <2>1, <3>2
      <3> QED BY ZenonT(30), <2>1, <3>1, <3>2
    <2>5. CompletedIsMinted'
      BY ZenonT(30), <1>1, <1>5, <2>1 DEF Polls, CompletedIsMinted
    <2> QED BY ZenonT(30), <2>2, <2>3, <2>4, <2>5 DEF Polls
  <1>7. ASSUME NEW t \in ticks, StatusServed(t) \/ StatusFailed(t)
        PROVE  TypeOK' /\ Polls'
    <2>1. PICK a \in {"processed", "waiting", "error"} :
            Answered(t, a) /\ (a = "processed" => deposit[t.pay].minted)
      BY <1>7 DEF StatusServed, StatusFailed
    <2> DEFINE u == [t EXCEPT !.answer = a]
    <2>2. ticks' = (ticks \ {t}) \cup {u} /\ UNCHANGED <<timer, clearing, status>>
      BY <2>1 DEF Answered
    <2>3. t \in [pay : Payments, answer : {"none", "processed", "waiting", "error"}]
      BY <1>5 DEF TypeOK
    <2>4. /\ u \in [pay : Payments, answer : {"none", "processed", "waiting", "error"}]
          /\ u.pay = t.pay /\ u.answer = a
      BY <2>3
    <2> HIDE DEF u
    <2> QED BY ZenonT(30), <1>1, <1>4, <1>5, <2>1, <2>2, <2>4 DEF TypeOK, Polls, CompletedIsMinted
  <1>8. ASSUME NEW t \in ticks, TickDone(t)
        PROVE  TypeOK' /\ Polls'
    <2>1. ticks' = ticks \ {t} /\ timer' \in {NoOne, timer} /\ clearing' \in Nat
      BY <1>5, <1>8 DEF TickDone, TypeOK
    <2>2. TypeOK'
      BY <1>1, <1>5, <2>1 DEF TypeOK
    <2>3. CompletedIsMinted'
      <3>1. CASE t.answer = "processed"
        BY <1>1, <1>5, <3>1 DEF Polls, First, CompletedIsMinted
      <3>2. CASE t.answer # "processed"
        BY <1>8, <3>2 DEF TickDone, CompletedIsMinted
      <3> QED BY <3>1, <3>2
    <2> QED BY <1>1, <1>4, <1>5, <2>1, <2>2, <2>3 DEF Polls
  <1>9. CASE RemovePending
    <2>1. clearing' \in Nat /\ UNCHANGED <<timer, ticks, status>>
      BY <1>5, <1>9 DEF RemovePending, TypeOK
    <2> QED BY ZenonT(30), <1>1, <1>4, <1>5, <2>1 DEF TypeOK, Polls, CompletedIsMinted
  <1> QED BY <1>6, <1>7, <1>8, <1>9

LEMMA SwitchWalletStep ==
  ASSUME IInv, NEW w \in Wallets, ChangeWallet(w)
  PROVE  IInv'
  <1>1. current' \in Wallets /\ UNCHANGED <<session, deposit, timer, ticks, clearing, status>>
    BY DEF ChangeWallet, polling
  <1>2. TypeOK' /\ DoneStays
    BY <1>1 DEF IInv, TypeOK, DoneStays
  <1> QED BY <1>1, <1>2, QuietStep, SameDeposits, PollsKept DEF IInv

LEMMA StutterStep ==
  ASSUME IInv, UNCHANGED bridgeVars
  PROVE  IInv'
  <1>1. UNCHANGED <<session, deposit, current, timer, ticks, clearing, status>>
    BY DEF bridgeVars
  <1>2. TypeOK' /\ DoneStays
    BY <1>1 DEF IInv, TypeOK, DoneStays
  <1> QED BY <1>1, <1>2, QuietStep, SameDeposits, PollsKept DEF IInv

(* A restart ends the sessions and the transfers wallet-rpc had not made. *)
LEMMA RestartStep ==
  ASSUME IInv, RestartPage
  PROVE  IInv'
  <1>1. /\ session \in [Sessions -> SessionType] /\ deposit \in [Payments -> DepositType]
        /\ current' = current /\ timer' = NoOne /\ ticks' = {} /\ clearing' = 0 /\ status' = "idle"
    BY DEF RestartPage, IInv, TypeOK
  <1>2. ASSUME NEW p \in Payments
        PROVE  /\ deposit'[p] \in DepositType /\ ~deposit'[p].late
               /\ deposit'[p].by = deposit[p].by /\ deposit'[p].amount = deposit[p].amount
               /\ deposit'[p].target = deposit[p].target /\ deposit'[p].made = deposit[p].made
    <2>1. deposit'[p] = [deposit[p] EXCEPT !.late = FALSE]
      BY DEF RestartPage
    <2> QED BY ZenonT(30), <1>1, <2>1 DEF DepositType
  <1>3. ASSUME NEW s \in Sessions
        PROVE  /\ session'[s] \in SessionType
               /\ session'[s] = session[s] \/ session'[s].stage = "failed"
               /\ session'[s].asked = session[s].asked /\ session'[s].sent = session[s].sent
               /\ session'[s].target = session[s].target
               /\ session'[s].stage \notin {"asking", "sending"}
               /\ session[s].stage \notin {"asking", "sending"} => session'[s] = session[s]
    <2>1. session'[s] = IF session[s].stage \in {"asking", "sending"}
                        THEN [session[s] EXCEPT !.stage = "failed"] ELSE session[s]
      BY DEF RestartPage
    <2>2. session[s] \in SessionType
      BY <1>1
    <2> QED BY <2>1, <2>2 DEF SessionType, Stages
  <1>4. TypeOK'
    <2>1. session' = [s \in Sessions |-> session'[s]] /\ deposit' = [p \in Payments |-> deposit'[p]]
      BY DEF RestartPage
    <2>2. session' \in [Sessions -> SessionType] /\ deposit' \in [Payments -> DepositType]
      BY <1>2, <1>3, <2>1
    <2> QED BY <1>1, <2>2 DEF IInv, TypeOK
  <1>5. ASSUME NEW s \in Sessions PROVE Stage(s)'
    <2>1. Paid(s)' = Paid(s) /\ PaidFor(s)' = PaidFor(s)
      BY <1>2 DEF Paid, PaidFor
    <2>2. Sum(Paid(s))' = Sum(Paid(s))
      BY <2>1 DEF Sum
    <2>3. Asking(s)' /\ Sending(s)'
      BY <1>3 DEF Asking, Sending
    <2>4. Waiting(s)' /\ Whole(s)' /\ Books(s)'
      <3>1. Waiting(s) /\ Whole(s) /\ Books(s)
        BY ZenonT(30) DEF IInv, Stage
      <3>2. Waiting(s)'
        BY ZenonT(30), <1>2, <1>3, <3>1 DEF Waiting
      <3>3. Whole(s)'
        BY ZenonT(30), <1>3, <2>1, <2>2, <3>1 DEF Whole
      <3>4. Books(s)'
        BY ZenonT(30), <1>2, <1>3, <2>1, <3>1 DEF Books
      <3> QED BY <3>2, <3>3, <3>4
    <2>5. GivenUp(s)'
      BY ZenonT(30), <1>2, <1>3, <2>2, Affordable DEF GivenUp, IInv, Stage, SessionType, Stages
    <2> QED BY <2>3, <2>4, <2>5 DEF Stage
  <1>6. \A p \in Payments : Late(p)'
    BY ZenonT(30), <1>2 DEF Late
  <1>7. Polls'
    BY ZenonT(30), <1>1 DEF Polls, CompletedIsMinted
  <1> QED BY <1>4, <1>5, <1>6, <1>7 DEF IInv

LEMMA InitIInv == BridgeInit => IInv
  <1> SUFFICES ASSUME BridgeInit PROVE IInv
    OBVIOUS
  <1>1. TypeOK
    <2>1. Idle \in SessionType
      BY SMTT(30) DEF Idle, SessionType, Stages
    <2>2. Unused \in DepositType
      BY SMTT(30) DEF Unused, DepositType
    <2>3. session \in [Sessions -> SessionType] /\ deposit \in [Payments -> DepositType]
      BY ZenonT(30), <2>1, <2>2 DEF BridgeInit
    <2> QED BY SMTT(30), <2>3 DEF BridgeInit, TypeOK
  <1>2. ASSUME NEW s \in Sessions PROVE Stage(s)
    <2>1. /\ session[s] = Idle /\ session[s].stage = "idle" /\ session[s].sent = <<>>
          /\ \A p \in Payments : deposit[p].by # s
      BY BridgeBounds DEF BridgeInit, Idle, Unused
    <2>2. Range(session[s].sent) = {}
      <3>1. Range(<<>>) = {}
        BY DEF Range
      <3> QED BY <2>1, <3>1
    <2> QED BY ZenonT(30), <2>1, <2>2 DEF Stage, Waiting, Asking, Sending, Whole, GivenUp, Books
  <1>3. \A p \in Payments : Late(p)
    BY DEF BridgeInit, Unused, Late
  <1>4. Polls
    BY ZenonT(30) DEF BridgeInit, Polls, CompletedIsMinted
  <1> QED BY <1>1, <1>2, <1>3, <1>4 DEF IInv

LEMMA NextIInv == IInv /\ [BridgeNext]_bridgeVars => IInv'
  <1> SUFFICES ASSUME IInv, [BridgeNext]_bridgeVars PROVE IInv'
    OBVIOUS
  <1>1. ASSUME NEW s \in Sessions, RequestFailed(s) \/ TransferFailed(s) PROVE IInv'
    BY <1>1, RequestFailedStep DEF RequestFailed, TransferFailed
  <1>2. CASE UNCHANGED bridgeVars
    BY <1>2, StutterStep
  <1> QED
    BY <1>1, <1>2, StartStep, RequestServedStep, TransferStep, TransferTimedOutStep,
       TransferDoneStep, LateTransferStep, MintStep, PollStep, SwitchWalletStep, RestartStep
    DEF BridgeNext

LEMMA IInvHolds == BridgeSpec => []IInv
  BY InitIInv, NextIInv, PTL DEF BridgeSpec

----------------------------------------------------------------------------
(* startCryLoBridgeIn, whatever the bridge service and wallet-rpc do: the   *)
(* transfers a session makes, those it gave up after two minutes included,  *)
(* never add up to more than the user entered.                              *)
THEOREM BridgeNeverOverpays == BridgeSpec => []NeverOverpays
  <1>1. IInv => NeverOverpays
    <2> SUFFICES ASSUME IInv, NEW s \in Sessions PROVE Sum(Paid(s)) <= session[s].asked
      BY DEF NeverOverpays
    <2>1. session[s].stage \in Stages /\ session[s].asked \in Nat /\ Sum(Paid(s)) \in Nat
      BY ZenonT(30), Affordable DEF IInv, TypeOK, SessionType
    <2>2. CASE session[s].stage = "idle"
      <3>1. Sum(Paid(s)) = 0
        BY ZenonT(30), <2>2, SumZero, PaidType DEF IInv, Stage, Waiting
      <3> QED BY <2>1, <3>1
    <2>3. CASE session[s].stage = "done"
      <3>1. Sum(Paid(s)) = session[s].asked
        BY ZenonT(30), <2>3 DEF IInv, Stage, Whole
      <3> QED BY SMTT(30), <2>1, <3>1
    <2>4. CASE session[s].stage = "failed"
      BY ZenonT(30), <2>4 DEF IInv, Stage, GivenUp
    <2>5. CASE session[s].stage \in {"asking", "sending"}
      BY <2>5, Affordable
    <2> QED BY <2>1, <2>2, <2>3, <2>4, <2>5 DEF Stages
  <1> QED BY <1>1, IInvHolds, PTL

(* A session that says it waits for confirmations has paid the whole        *)
(* amount, in the deposits it lists, to the address bound when it began.    *)
THEOREM BridgeDoneIsWhole == BridgeSpec => []DoneIsWhole
  <1>1. IInv => DoneIsWhole
    <2> SUFFICES ASSUME IInv, NEW s \in Sessions, session[s].stage = "done"
                 PROVE  /\ Sum(Paid(s)) = session[s].asked
                        /\ Range(session[s].sent) = PaidFor(s)
                        /\ \A p \in PaidFor(s) : deposit[p].target = session[s].target
      BY DEF DoneIsWhole
    <2> QED BY ZenonT(30) DEF IInv, Stage, Whole, Books, PaidFor
  <1> QED BY <1>1, IInvHolds, PTL

(* pollCryLoBridgeStatus reports a completed mint only when the deposit it  *)
(* polled for, the first of a finished session, was minted.                 *)
THEOREM BridgeCompletedIsMinted == BridgeSpec => []CompletedIsMinted
  <1>1. IInv => CompletedIsMinted
    BY ZenonT(30) DEF IInv, Polls
  <1> QED BY <1>1, IInvHolds, PTL

(* Leaves are for Zenon unless they say SMT. *)
USE ZenonT(30)
USE MiningBounds

----------------------------------------------------------------------------
(***************************************************************************)
(* PolledWhileActive is kept by every action, but for StartDone's interval *)
(* to be one there must be a slot for it: a start that is under way has    *)
(* one of MaxTimers set aside.                                             *)
(***************************************************************************)
Ops == {"none", "address", "start", "stop", "status", "nexus"}
Addresses == WalletNames \cup {Null}
MiningCall == [op : Ops, addr : Addresses, stage : {"free", "sent", "answered", "late"},
               reply : {"none", "error", "ok", "running", "idle"}]

MiningType ==
  /\ wallet \in Addresses /\ address \in Addresses /\ field \in Addresses
  /\ timers \subseteq Timers
  /\ calls \in [Slots -> MiningCall]

(* The interval the page knows of is set. *)
TimerIsSet == statusTimer # Null => statusTimer \in timers

MiningInv ==
  /\ MiningType
  /\ Cardinality(timers) + Cardinality(Pending("start")) <= MaxTimers
  /\ TimerIsSet
  /\ PolledWhileActive

LEMMA MinIn ==
  ASSUME NEW S, S \subseteq Nat, S # {}
  PROVE  Min(S) \in S
  <1> DEFINE R == OpToRel(<, Nat)
  <1>1. R = {p \in Nat \X Nat : p[1] < p[2]} /\ IsWellFoundedOn(R, Nat)
    BY ZenonT(30), NatLessThanWellFounded DEF OpToRel
  <1> HIDE DEF R
  <1>2. PICK x \in S : \A y \in S : <<y, x>> \notin R
    BY <1>1, WFMin
  <1>3. ASSUME NEW y \in S PROVE x <= y
    <2>1. <<y, x>> \notin {p \in Nat \X Nat : p[1] < p[2]}
      BY <1>1, <1>2
    <2>2. x \in Nat /\ y \in Nat
      OBVIOUS
    <2> QED BY SMTT(30), <2>1, <2>2
  <1> QED BY <1>3 DEF Min

LEMMA SameCardinality == \A S : Cardinality(S) = Cardinality(S)
  BY DEF Cardinality, Cardinality, IsFiniteSet, IsFiniteSet

LEMMA SlotIn ==
  ASSUME FreeSlots # {}
  PROVE  Min(FreeSlots) \in Slots /\ calls[Min(FreeSlots)] = Free
  <1>1. FreeSlots \subseteq Nat
    BY SMTT(30) DEF FreeSlots, Slots, MiningBounds
  <1> QED BY <1>1, MinIn DEF FreeSlots

(* What a change of one slot does to the requests under way. *)
LEMMA PendingIs ==
  ASSUME calls \in [Slots -> MiningCall], NEW c \in Slots, NEW r, calls' = [calls EXCEPT ![c] = r],
         NEW op, NEW P, P = Pending(op)
  PROVE  Pending(op)' =
           IF r.op = op /\ r.stage # "late" THEN P \cup {c} ELSE P \ {c}
  <1>1. \A d \in Slots : calls'[d] = IF d = c THEN r ELSE calls[d]
    BY SMTT(30)
  <1>2. CASE r.op = op /\ r.stage # "late"
    BY SMTT(30), <1>1, <1>2 DEF Pending
  <1>3. CASE ~(r.op = op /\ r.stage # "late")
    BY SMTT(30), <1>1, <1>3 DEF Pending
  <1> QED BY <1>2, <1>3

LEMMA PendingFinite ==
  ASSUME NEW op
  PROVE  /\ IsFiniteSet(Pending(op)) /\ Cardinality(Pending(op)) \in Nat
         /\ \A c : c \in Pending(op) => Cardinality(Pending(op)) > 0
  <1>1. IsFiniteSet(Slots)
    BY SMTT(30), FS_Interval DEF Slots, MiningBounds
  <1>2. Pending(op) \in SUBSET Slots
    BY DEF Pending
  <1>3. IsFiniteSet(Pending(op))
    BY <1>1, <1>2, FS_Subset
  <1>4. Cardinality(Pending(op)) \in Nat
    BY <1>3, FS_CardinalityType
  <1>5. Cardinality(Pending(op)) = 0 => Pending(op) = {}
    BY <1>3, FS_EmptySet
  <1> QED BY SMTT(30), <1>3, <1>4, <1>5

LEMMA TimersFinite ==
  ASSUME NEW T, T \subseteq Timers
  PROVE  /\ IsFiniteSet(T) /\ Cardinality(T) \in Nat
         /\ Cardinality(T) < MaxTimers => Timers \ T # {}
  <1>1. IsFiniteSet(Timers) /\ Cardinality(Timers) = MaxTimers
    BY SMTT(30), FS_Interval DEF Timers, MiningBounds
  <1>2. IsFiniteSet(T)
    BY <1>1, FS_Subset
  <1>3. Cardinality(T) \in Nat
    BY <1>2, FS_CardinalityType
  <1>4. Timers \ T = {} => T = Timers
    OBVIOUS
  <1> QED BY SMTT(30), <1>1, <1>2, <1>3, <1>4 DEF MiningBounds

(* The number of starts under way after a change of one slot. *)
LEMMA StartsAre ==
  ASSUME calls \in [Slots -> MiningCall], NEW c \in Slots, NEW r,
         calls' = [calls EXCEPT ![c] = r]
  PROVE  Cardinality(Pending("start")') =
           Cardinality(Pending("start"))
             + (IF r.op = "start" /\ r.stage # "late" THEN 1 ELSE 0)
             - (IF c \in Pending("start") THEN 1 ELSE 0)
  <1>1. PICK P : P = Pending("start")
    OBVIOUS
  <1>2. IsFiniteSet(P) /\ Cardinality(P) \in Nat
    BY <1>1, PendingFinite
  <1>3. Pending("start")' = IF r.op = "start" /\ r.stage # "late" THEN P \cup {c} ELSE P \ {c}
    BY <1>1, PendingIs
  <1>4. /\ Cardinality(P \cup {c}) = IF c \in P THEN Cardinality(P) ELSE Cardinality(P) + 1
        /\ Cardinality(P \ {c}) = IF c \in P THEN Cardinality(P) - 1 ELSE Cardinality(P)
    BY <1>2, FS_AddElement, FS_RemoveElement
  <1>5. CASE r.op = "start" /\ r.stage # "late"
    <2>1. Cardinality(Pending("start")') = IF c \in P THEN Cardinality(P) ELSE Cardinality(P) + 1
      BY <1>3, <1>4, <1>5
    <2> QED BY SMTT(30), <1>1, <1>2, <1>5, <2>1
  <1>6. CASE ~(r.op = "start" /\ r.stage # "late")
    <2>1. Cardinality(Pending("start")') = IF c \in P THEN Cardinality(P) - 1 ELSE Cardinality(P)
      BY <1>3, <1>4, <1>6
    <2> QED BY SMTT(30), <1>1, <1>2, <1>6, <2>1
  <1> QED BY <1>5, <1>6

(* A request is sent, served, given up or done with, and no interval is set *)
(* or cleared.                                                              *)
LEMMA ChangeKeeps ==
  ASSUME MiningInv, NEW c \in Slots, NEW r \in MiningCall,
         calls' = [calls EXCEPT ![c] = r], UNCHANGED <<statusTimer, timers>>,
         wallet' \in Addresses, address' \in Addresses, field' \in Addresses,
         \/ ~(r.op = "start" /\ r.stage # "late")
         \/ c \in Pending("start")
         \/ Cardinality(timers) + Cardinality(Pending("start")) < MaxTimers,
         active' => active /\ (c \in Pending("stop") => r.op = "stop" /\ r.stage # "late")
  PROVE  MiningInv'
  <1>1. PICK P : P = Pending("stop")
    OBVIOUS
  <1>2. Pending("stop")' = IF r.op = "stop" /\ r.stage # "late" THEN P \cup {c} ELSE P \ {c}
    BY <1>1, PendingIs DEF MiningInv, MiningType
  <1>3. active' => active /\ P \subseteq Pending("stop")'
    BY <1>1, <1>2
  <1>4. PolledWhileActive'
    BY <1>1, <1>3 DEF MiningInv, PolledWhileActive
  <1>5. MiningType'
    BY SMTT(30) DEF MiningInv, MiningType
  <1>6. Cardinality(timers) \in Nat /\ Cardinality(Pending("start")) \in Nat
    BY TimersFinite, PendingFinite DEF MiningInv, MiningType
  <1>7. Cardinality(Pending("start")') =
           Cardinality(Pending("start"))
             + (IF r.op = "start" /\ r.stage # "late" THEN 1 ELSE 0)
             - (IF c \in Pending("start") THEN 1 ELSE 0)
    BY StartsAre DEF MiningInv, MiningType
  <1>8. Cardinality(timers') + Cardinality(Pending("start")') <= MaxTimers
    BY SMTT(30), <1>6, <1>7 DEF MiningInv, MiningBounds
  <1>9. TimerIsSet'
    BY DEF MiningInv, TimerIsSet
  <1> QED BY <1>4, <1>5, <1>8, <1>9 DEF MiningInv

(* stopMining in a slot that holds no start. *)
LEMMA StopKeeps ==
  ASSUME MiningInv, NEW c \in Slots, StopMining(c),
         wallet' \in Addresses, address' \in Addresses, field' \in Addresses
  PROVE  MiningInv'
  <1>1. PICK r : r = Sent("stop", Null)
    OBVIOUS
  <1>2. r \in MiningCall /\ r.op = "stop" /\ r.stage = "sent" /\ calls' = [calls EXCEPT ![c] = r]
    BY SMTT(30), <1>1 DEF Sent, MiningCall, Ops, Addresses, StopMining
  <1>3. c \in Pending("stop")'
    <2>1. PICK P : P = Pending("stop")
      OBVIOUS
    <2> QED BY <1>2, <2>1, PendingIs DEF MiningInv, MiningType
  <1>4. timers' = timers \ {statusTimer} /\ statusTimer' = Null
    BY DEF StopMining
  <1>5. MiningType'
    BY SMTT(30), <1>2, <1>4 DEF MiningInv, MiningType
  <1>6. IsFiniteSet(timers) /\ Cardinality(timers) \in Nat /\ Cardinality(Pending("start")) \in Nat
    BY TimersFinite, PendingFinite DEF MiningInv, MiningType
  <1>7. Cardinality(timers') = IF statusTimer \in timers THEN Cardinality(timers) - 1 ELSE Cardinality(timers)
    BY <1>4, <1>6, FS_RemoveElement
  <1>8. Cardinality(Pending("start")') =
           Cardinality(Pending("start")) - (IF c \in Pending("start") THEN 1 ELSE 0)
    <2>1. Cardinality(Pending("start")') =
            Cardinality(Pending("start"))
              + (IF r.op = "start" /\ r.stage # "late" THEN 1 ELSE 0)
              - (IF c \in Pending("start") THEN 1 ELSE 0)
      BY <1>2, StartsAre DEF MiningInv, MiningType
    <2> QED BY SMTT(30), <1>2, <1>6, <2>1
  <1>9. Cardinality(timers') + Cardinality(Pending("start")') <= MaxTimers
    BY SMTT(30), <1>6, <1>7, <1>8 DEF MiningInv, MiningBounds
  <1>10. TimerIsSet' /\ PolledWhileActive'
    BY <1>3, <1>4 DEF TimerIsSet, PolledWhileActive
  <1> QED BY <1>5, <1>9, <1>10 DEF MiningInv

(* A start that was answered ok sets a new interval. *)
LEMMA StartedKeeps ==
  ASSUME MiningInv, NEW c \in Pending("start"), NEW r \in MiningCall,
         r.op # "start" \/ r.stage = "late",
         statusTimer' = NewTimer, timers' = timers \cup {NewTimer},
         calls' = [calls EXCEPT ![c] = r], UNCHANGED <<wallet, address, field>>
  PROVE  MiningInv'
  <1>1. /\ statusTimer' = NewTimer /\ timers' = timers \cup {NewTimer}
        /\ calls' = [calls EXCEPT ![c] = r] /\ UNCHANGED <<wallet, address, field>>
    OBVIOUS
  <1>2. c \in Slots
    BY DEF Pending
  <1>3. /\ IsFiniteSet(timers) /\ Cardinality(timers) \in Nat
        /\ Cardinality(timers) < MaxTimers => Timers \ timers # {}
    BY TimersFinite DEF MiningInv, MiningType
  <1>4. Cardinality(Pending("start")) \in Nat /\ Cardinality(Pending("start")) > 0
    BY PendingFinite
  <1>5. NewTimer \in Timers \ timers
    <2>1. Timers \ timers # {}
      BY SMTT(30), <1>3, <1>4 DEF MiningInv, MiningBounds
    <2>2. Timers \ timers \subseteq Nat
      BY SMTT(30) DEF Timers, MiningBounds
    <2> QED BY <2>1, <2>2, MinIn DEF NewTimer
  <1>6. MiningType'
    BY SMTT(30), <1>1, <1>2, <1>5 DEF MiningInv, MiningType
  <1>7. Cardinality(timers') = Cardinality(timers) + 1
    BY <1>1, <1>3, <1>5, FS_AddElement
  <1>8. Cardinality(Pending("start")') = Cardinality(Pending("start")) - 1
    <2>1. Cardinality(Pending("start")') =
            Cardinality(Pending("start"))
              + (IF r.op = "start" /\ r.stage # "late" THEN 1 ELSE 0)
              - (IF c \in Pending("start") THEN 1 ELSE 0)
      BY <1>1, <1>2, StartsAre DEF MiningInv, MiningType
    <2> QED BY SMTT(30), <1>4, <2>1
  <1>9. Cardinality(timers') + Cardinality(Pending("start")') <= MaxTimers
    BY SMTT(30), <1>3, <1>4, <1>7, <1>8 DEF MiningInv, MiningBounds
  <1>10. statusTimer' # Null /\ statusTimer' \in timers'
    BY <1>1, <1>5 DEF MiningBounds, Timers
  <1> QED BY <1>6, <1>9, <1>10 DEF MiningInv, TimerIsSet, PolledWhileActive

(* What the page does with a reply, or with an error. *)
LEMMA ContinueKeeps ==
  ASSUME MiningInv, NEW c \in Slots, calls[c].stage # "late",
         NEW reply, NEW rest \in MiningCall, Continue(c, reply, rest),
         \/ rest = Free
         \/ rest.stage = "late"
  PROVE  MiningInv'
  <1> DEFINE op == calls[c].op
  <1>1. rest.op # "start" \/ rest.stage = "late"
    BY SMTT(30) DEF Free
  <1>2. calls[c] \in MiningCall /\ wallet \in Addresses /\ address \in Addresses /\ field \in Addresses
    BY DEF MiningInv, MiningType
  <1>3. CASE op = "start" /\ StartDone(c, reply = "ok", rest)
    <2>1. CASE reply = "ok"
      <3>1. c \in Pending("start")
        BY <1>3 DEF Pending
      <3>2. /\ statusTimer' = NewTimer /\ timers' = timers \cup {NewTimer}
            /\ calls' = [calls EXCEPT ![c] = rest] /\ UNCHANGED <<wallet, address, field>>
        BY <1>3, <2>1 DEF StartDone, page
      <3> QED BY <1>1, <3>1, <3>2, StartedKeeps
    <2>2. CASE reply # "ok"
      <3>1. /\ UNCHANGED <<active, statusTimer, timers>> /\ calls' = [calls EXCEPT ![c] = rest]
            /\ wallet' = wallet /\ address' = address /\ field' = field
        BY <1>3, <2>2 DEF StartDone, page
      <3>2. c \notin Pending("stop")
        BY SMTT(30), <1>3 DEF Pending
      <3> QED BY <1>1, <1>2, <3>1, <3>2, ChangeKeeps
    <2> QED BY <2>1, <2>2
  <1>4. CASE op = "stop" /\ StopDone(c, rest)
    <2>1. /\ ~active' /\ UNCHANGED <<statusTimer, timers>> /\ calls' = [calls EXCEPT ![c] = rest]
          /\ wallet' = wallet /\ address' = address /\ field' = field
      BY <1>4 DEF StopDone, page
    <2> QED BY <1>1, <1>2, <2>1, ChangeKeeps
  <1>5. Free \in MiningCall /\ Free.op = "none"
    BY SMTT(30) DEF Free, MiningCall, Ops, Addresses
  <1>6. CASE op = "status" /\ StatusDone(c, reply = "running")
    <2>1. active' = active /\ wallet' = wallet /\ address' = address /\ field' = field
      BY <1>6 DEF StatusDone, page
    <2>2. CASE reply = "running"
      <3>1. UNCHANGED <<statusTimer, timers>> /\ calls' = [calls EXCEPT ![c] = Free]
        BY <1>6, <2>2 DEF StatusDone
      <3>2. c \notin Pending("stop")
        BY SMTT(30), <1>6 DEF Pending
      <3>3. PICK r \in MiningCall : r = Free
        BY <1>5
      <3>4. r.op # "start" /\ calls' = [calls EXCEPT ![c] = r]
        BY SMTT(30), <1>5, <3>1, <3>3
      <3> QED BY <1>2, <2>1, <3>1, <3>2, <3>4, ChangeKeeps
    <2>3. CASE reply # "running"
      <3>1. StopMining(c)
        BY <1>6, <2>3 DEF StatusDone
      <3> QED BY <1>2, <2>1, <3>1, StopKeeps
    <2> QED BY <2>2, <2>3
  <1>7. CASE op = "address" /\ AddressDone(c, calls[c].addr)
    <2>1. PICK r : r = Sent("nexus", Null)
      OBVIOUS
    <2>2. r \in MiningCall /\ r.op # "start" /\ calls' = [calls EXCEPT ![c] = r]
      BY SMTT(30), <1>7, <2>1 DEF AddressDone, Sent, MiningCall, Ops, Addresses
    <2>3. /\ active' = active /\ UNCHANGED <<statusTimer, timers>>
          /\ wallet' = wallet /\ address' = calls[c].addr /\ field' = field
      BY <1>7 DEF AddressDone
    <2>4. calls[c].addr \in Addresses
      BY SMTT(30), <1>2 DEF MiningCall
    <2>5. c \notin Pending("stop")
      BY SMTT(30), <1>7 DEF Pending
    <2> QED BY <1>2, <2>2, <2>3, <2>4, <2>5, ChangeKeeps
  <1>8. CASE op \in {"address", "nexus"} /\ FieldDone(c)
    <2>1. PICK r \in MiningCall : r = Free
      BY <1>5
    <2>2. r.op # "start" /\ calls' = [calls EXCEPT ![c] = r]
      BY SMTT(30), <1>5, <1>8, <2>1 DEF FieldDone
    <2>3. /\ active' = active /\ UNCHANGED <<statusTimer, timers>>
          /\ wallet' = wallet /\ address' = address /\ field' \in Addresses
      BY <1>2, <1>8 DEF FieldDone
    <2>4. c \notin Pending("stop")
      BY SMTT(30), <1>8 DEF Pending
    <2> QED BY <1>2, <2>2, <2>3, <2>4, ChangeKeeps
  <1> QED BY <1>3, <1>4, <1>6, <1>7, <1>8 DEF Continue

(* A request goes into a free slot, for a start with an interval to spare. *)
LEMMA SendKeeps ==
  ASSUME MiningInv, FreeSlots # {}, NEW op \in Ops, NEW a \in Addresses,
         calls' = [calls EXCEPT ![Min(FreeSlots)] = Sent(op, a)],
         op = "start" => Cardinality(timers) + Cardinality(Pending("start")) < MaxTimers,
         UNCHANGED <<active, statusTimer, timers, wallet, address, field>>
  PROVE  MiningInv'
  <1>1. PICK c \in Slots : c = Min(FreeSlots) /\ calls[c] = Free
    BY SlotIn
  <1>2. PICK r : r = Sent(op, a)
    OBVIOUS
  <1>3. r \in MiningCall /\ r.op = op /\ calls' = [calls EXCEPT ![c] = r]
    BY SMTT(30), <1>1, <1>2 DEF Sent, MiningCall
  <1>4. c \notin Pending("stop")
    BY SMTT(30), <1>1 DEF Pending, Free
  <1>5. wallet' \in Addresses /\ address' \in Addresses /\ field' \in Addresses
    BY DEF MiningInv, MiningType
  <1> QED BY <1>3, <1>4, <1>5, ChangeKeeps

LEMMA ToggleKeeps ==
  ASSUME MiningInv, ToggleMining
  PROVE  MiningInv'
  <1>1. active' = active /\ wallet' = wallet /\ address' = address /\ field' = field
    BY DEF ToggleMining, page
  <1>2. wallet \in Addresses /\ address \in Addresses /\ field \in Addresses
    BY DEF MiningInv, MiningType
  <1>3. CASE active
    <2>1. FreeSlots # {} /\ StopMining(Min(FreeSlots))
      BY <1>3 DEF ToggleMining
    <2>2. PICK c \in Slots : c = Min(FreeSlots)
      BY <2>1, SlotIn
    <2> QED BY <1>1, <1>2, <2>1, <2>2, StopKeeps
  <1>4. CASE ~active
    <2>1. StartMining
      BY <1>4 DEF ToggleMining
    <2>2. PICK a \in Addresses : a = field
      BY <1>2
    <2>3. /\ FreeSlots # {} /\ UNCHANGED <<statusTimer, timers>>
          /\ calls' = [calls EXCEPT ![Min(FreeSlots)] = Sent("start", a)]
          /\ Cardinality(timers) + Cardinality(Pending("start")) < MaxTimers
      BY <2>1, <2>2, SameCardinality DEF StartMining
    <2>4. "start" \in Ops
      BY DEF Ops
    <2> QED BY <1>1, <2>3, <2>4, SendKeeps
  <1> QED BY <1>3, <1>4

LEMMA ServeKeeps ==
  ASSUME MiningInv, NEW c \in Slots, Serve(c)
  PROVE  MiningInv'
  <1>1. /\ UNCHANGED <<active, statusTimer, timers>>
        /\ wallet' = wallet /\ address' = address /\ field' = field
    BY DEF Serve, page
  <1>2. calls[c] \in MiningCall /\ wallet \in Addresses /\ address \in Addresses /\ field \in Addresses
    BY DEF MiningInv, MiningType
  <1>3. CASE calls[c].stage = "late"
    <2>1. PICK r : r = Free
      OBVIOUS
    <2>2. r \in MiningCall /\ r.op # "start" /\ calls' = [calls EXCEPT ![c] = r]
      BY SMTT(30), <1>3, <2>1 DEF Serve, Free, MiningCall, Ops, Addresses, MiningInv, MiningType
    <2>3. c \notin Pending("stop")
      BY <1>3 DEF Pending
    <2> QED BY <1>1, <1>2, <2>2, <2>3, ChangeKeeps
  <1>4. CASE calls[c].stage # "late"
    <2>1. PICK q : q = Reading(calls[c])
      OBVIOUS
    <2>2. q \in MiningCall /\ q.op = calls[c].op
      <3>1. CASE calls[c].op = "status"
        <4>1. PICK x \in {"running", "idle"} : q = [calls[c] EXCEPT !.reply = x]
          BY <2>1, <3>1 DEF Reading
        <4> QED BY SMTT(30), <1>2, <4>1 DEF MiningCall
      <3>2. CASE calls[c].op = "address"
        <4>1. PICK x \in {"error", "ok"} : q = [calls[c] EXCEPT !.addr = wallet, !.reply = x]
          BY <2>1, <3>2 DEF Reading
        <4>2. PICK k \in MiningCall, w \in Addresses : k = calls[c] /\ w = wallet
          BY <1>2
        <4>3. q = [k EXCEPT !.addr = w, !.reply = x]
          BY <4>1, <4>2
        <4>4. PICK m : m = [k EXCEPT !.addr = w]
          OBVIOUS
        <4>5. m \in MiningCall /\ m.op = k.op
          BY SMTT(30), <4>4 DEF MiningCall
        <4>6. q = [m EXCEPT !.reply = x]
          BY SMTT(30), <4>3, <4>4, <4>5 DEF MiningCall
        <4>7. q \in MiningCall /\ q.op = k.op
          BY SMTT(30), <4>5, <4>6 DEF MiningCall
        <4> QED BY <4>2, <4>7
      <3>3. CASE calls[c].op \notin {"status", "address"}
        <4>1. q = [calls[c] EXCEPT !.reply = "ok"]
          BY <2>1, <3>3 DEF Reading
        <4> QED BY SMTT(30), <1>2, <4>1 DEF MiningCall
      <3> QED BY <3>1, <3>2, <3>3
    <2>3. PICK r : r = [q EXCEPT !.stage = "answered"]
      OBVIOUS
    <2>4. r \in MiningCall /\ r.op = calls[c].op /\ r.stage = "answered"
      BY SMTT(30), <2>2, <2>3 DEF MiningCall
    <2>5. calls' = [calls EXCEPT ![c] = r]
      BY <1>4, <2>1, <2>3 DEF Serve
    <2>6. \/ r.op # "start"
          \/ c \in Pending("start")
      BY <1>4, <2>4 DEF Pending
    <2>7. c \in Pending("stop") => r.op = "stop" /\ r.stage # "late"
      BY SMTT(30), <2>4 DEF Pending
    <2> QED BY <1>1, <1>2, <2>4, <2>5, <2>6, <2>7, ChangeKeeps
  <1> QED BY <1>3, <1>4

LEMMA MiningInvInit == MiningInit => MiningInv
  <1> SUFFICES ASSUME MiningInit PROVE MiningInv
    OBVIOUS
  <1>1. Free \in MiningCall /\ Free.op = "none"
    BY SMTT(30) DEF Free, MiningCall, Ops, Addresses
  <1>2. MiningType
    BY <1>1 DEF MiningInit, MiningType, Addresses
  <1>3. Pending("start") = {}
    BY SMTT(30), <1>1 DEF MiningInit, Pending
  <1>4. Cardinality(timers) = 0 /\ Cardinality(Pending("start")) = 0
    BY <1>3, FS_EmptySet DEF MiningInit
  <1>5. Cardinality(timers) + Cardinality(Pending("start")) <= MaxTimers
    BY SMTT(30), <1>4 DEF MiningBounds
  <1> QED BY <1>2, <1>5 DEF MiningInit, MiningInv, TimerIsSet, PolledWhileActive

LEMMA MiningInvNext ==
  ASSUME MiningInv, [MiningNext]_miningVars
  PROVE  MiningInv'
  <1>1. wallet \in Addresses /\ address \in Addresses /\ field \in Addresses
    BY DEF MiningInv, MiningType
  <1>2. ASSUME UNCHANGED <<active, statusTimer, timers, calls>>,
               wallet' \in Addresses, address' \in Addresses, field' \in Addresses
        PROVE  MiningInv'
    <2>1. \A op : Pending(op)' = Pending(op)
      BY <1>2 DEF Pending
    <2> QED BY <1>2, <2>1 DEF MiningInv, MiningType, TimerIsSet, PolledWhileActive
  <1>3. ASSUME NEW w \in WalletNames, OpenWallet(w) PROVE MiningInv'
    BY <1>1, <1>2, <1>3 DEF OpenWallet, Addresses
  <1>4. CASE LeaveWallet
    BY <1>1, <1>2, <1>4 DEF LeaveWallet, Addresses
  <1>5. CASE ShowMiningTab
    <2>1. CASE address # Null
      BY <1>1, <1>2, <1>5, <2>1 DEF ShowMiningTab
    <2>2. CASE address = Null
      BY <1>5, <2>2, SendKeeps DEF ShowMiningTab, Ops, Addresses
    <2> QED BY <2>1, <2>2
  <1>6. CASE ShowOtherTab
    BY <1>1, <1>2, <1>6 DEF ShowOtherTab
  <1>7. CASE ToggleMining
    BY <1>7, ToggleKeeps
  <1>8. ASSUME NEW c \in Slots, Resume(c) PROVE MiningInv'
    <2>1. Free \in MiningCall
      BY SMTT(30) DEF Free, MiningCall, Ops, Addresses
    <2> QED BY <1>8, <2>1, ContinueKeeps DEF Resume
  <1>9. ASSUME NEW c \in Slots, TimeOut(c) PROVE MiningInv'
    <2>1. PICK rest \in {Free, [calls[c] EXCEPT !.stage = "late"]} : Continue(c, "error", rest)
      BY <1>9 DEF TimeOut
    <2>2. rest \in MiningCall /\ (rest = Free \/ rest.stage = "late")
      BY SMTT(30), <2>1 DEF Free, MiningCall, Ops, Addresses, MiningInv, MiningType
    <2> QED BY <1>9, <2>1, <2>2, ContinueKeeps DEF TimeOut
  <1>10. CASE StoppedElsewhere
    BY <1>1, <1>2, <1>10 DEF StoppedElsewhere, page
  <1>11. ASSUME NEW t \in Timers, TimerFires(t) PROVE MiningInv'
    BY <1>11, SendKeeps DEF TimerFires, page, Ops, Addresses
  <1>12. CASE UNCHANGED miningVars
    BY <1>1, <1>2, <1>12 DEF miningVars
  <1> QED
    BY <1>3, <1>4, <1>5, <1>6, <1>7, <1>8, <1>9, <1>10, <1>11, <1>12, ServeKeeps DEF MiningNext

(* However often the button is clicked, and however many ticks and requests *)
(* are late, lost or given up: while it says "Stop Mining" the page has a   *)
(* status interval, which is set, or a stop is under way (app.js).          *)
THEOREM MiningIsPolled ==
  MiningSpec => [](PolledWhileActive /\ TimerIsSet)
  <1>1. MiningInv => PolledWhileActive /\ TimerIsSet
    BY DEF MiningInv
  <1>2. MiningInv /\ [MiningNext]_miningVars => MiningInv'
    BY MiningInvNext
  <1>3. MiningInit => MiningInv
    BY MiningInvInit
  <1> QED BY <1>1, <1>2, <1>3, PTL DEF MiningSpec
=============================================================================
