-------------------------- MODULE ChainPoolProofs ---------------------------
(***************************************************************************)
(* Invariants of ChainPool for any tree of blocks, any transactions and    *)
(* any bounds.                                                             *)
(***************************************************************************)
EXTENDS ChainPoolLemmas

(* Leaves are for Zenon unless they say SMT. *)
USE ZenonT(30)

(* What add_new_block may make of s: the chain stays or gets more work. *)
Adds(s, r) ==
  /\ Goes(s, r) /\ Beside(r) /\ (Low(s) => Low(r))
  /\ r.main = s.main \/ Work(Tip(r)) > Work(Tip(s))

LEMMA AddsSelf ==
  ASSUME NEW s, Sound(s), Beside(s)
  PROVE  Adds(s, s)
  BY GoesSelf DEF Adds

LEMMA AddsThen ==
  ASSUME NEW s, NEW r, NEW q, Sound(s), Adds(s, r), Adds(r, q)
  PROVE  Adds(s, q)
  <1>1. Goes(s, q)
    BY GoesThen DEF Adds
  <1>2. Tip(s) \in Blocks /\ Tip(r) \in Blocks /\ Tip(q) \in Blocks
    BY DEF Adds, Goes, Sound, Stored, GoodTip
  <1>3. Work(Tip(s)) \in Nat /\ Work(Tip(r)) \in Nat /\ Work(Tip(q)) \in Nat
    BY <1>2, WorkIs
  <1>4. q.main = s.main \/ Work(Tip(q)) > Work(Tip(s))
    <2>1. r.main = s.main => Tip(r) = Tip(s)
      BY DEF Tip
    <2>2. q.main = r.main => Tip(q) = Tip(r)
      BY DEF Tip
    <2>3. (r.main = s.main \/ Work(Tip(r)) > Work(Tip(s))) /\ (q.main = r.main \/ Work(Tip(q)) > Work(Tip(r)))
      BY DEF Adds
    <2>4. CASE r.main = s.main
      BY <2>1, <2>3, <2>4
    <2>5. CASE q.main = r.main
      BY <2>2, <2>3, <2>5
    <2>6. CASE Work(Tip(r)) > Work(Tip(s)) /\ Work(Tip(q)) > Work(Tip(r))
      BY SMTT(30), <1>3, <2>6
    <2> QED BY <2>3, <2>4, <2>5, <2>6
  <1> QED BY <1>1, <1>4 DEF Adds

(* The tip has the most work of the chain. *)
LEMMA HeaviestIs ==
  ASSUME NEW s, Sound(s), NEW r, Sound(r)
  PROVE  /\ Tip(r) = Tip(s) => r.main = s.main
         /\ Tip(s) \in Blocks /\ Work(Tip(s)) \in Nat
         /\ \A a \in Range(s.main) : a \in Blocks /\ Work(a) <= Work(Tip(s))
  <1>1. /\ Tip(s) \in Blocks /\ Tip(r) \in Blocks /\ s.main = ChainTo[Tip(s)] /\ r.main = ChainTo[Tip(r)]
    BY DEF Sound, Stored, GoodTip
  <1>2. \A a \in Range(s.main) : a \in Blocks /\ Work(a) <= Work(Tip(s))
    BY <1>1, ChainBelow, WorkBelow
  <1> QED BY <1>1, <1>2, WorkIs

(* The blocks below lead from the main chain to b. *)
Joins(s, b, m, below) ==
  /\ m \in 1 .. Height(b) /\ ChainTo[b][m] \in Range(s.main)
  /\ Append(below, b) = SubSeq(ChainTo[b], m + 1, Height(b) + 1)

(* The supplement of an alternative block leaves the chains alone. *)
Supplements(s, x) == x.ok \in BOOLEAN /\ Goes(s, x.s) /\ x.s.main = s.main /\ x.s.alt = s.alt

LEMMA AlternativeIs ==
  ASSUME NEW s, Sound(s), Beside(s), NEW b \in Blocks, b # GENESIS, b \notin Range(s.main), b \notin s.alt,
         NEW m, NEW below, Joins(s, b, m, below), NEW x, Supplements(s, x),
         NEW r, r = AddAlternative(x, b, below)
  PROVE  r.ok \in BOOLEAN /\ Adds(s, r.s)
  <1> /\ m \in 1 .. Height(b) /\ ChainTo[b][m] \in Range(s.main)
      /\ Append(below, b) = SubSeq(ChainTo[b], m + 1, Height(b) + 1)
    BY DEF Joins
  <1> x.ok \in BOOLEAN /\ Goes(s, x.s) /\ x.s.main = s.main /\ x.s.alt = s.alt
    BY DEF Supplements
  <1>1. Sound(x.s) /\ Tip(x.s) = Tip(s) /\ s.alt \subseteq Blocks
    BY StateIs DEF Goes, Sound, Stored, Tip
  <1>2. CASE ~ x.ok
    BY <1>1, <1>2 DEF AddAlternative, Adds, Beside, Low
  <1>3. CASE x.ok
    <2>1. PICK a : a = [x.s EXCEPT !.alt = x.s.alt \cup {b}]
      OBVIOUS
    <2>2. x.s.alt \cup {b} \in SUBSET Blocks
      BY <1>1
    <2>3. Goes(x.s, a) /\ a.main = s.main /\ a.alt = s.alt \cup {b} /\ Tip(a) = Tip(s)
      <3>1. a = WithAlt(x.s, x.s.alt \cup {b})
        BY <2>1 DEF WithAlt
      <3>2. Goes(x.s, a) /\ a.main = x.s.main /\ a.alt = x.s.alt \cup {b} /\ Tip(a) = Tip(x.s)
        <4>1. AltKept(x.s, x.s.alt \cup {b}, a)
          BY <1>1, <2>2, <3>1, AltPut
        <4> QED BY <4>1 DEF AltKept
      <3> QED BY <1>1, <3>2
    <2>4. Goes(s, a) /\ Sound(a)
      <3>1. Goes(s, a)
        BY <2>3, GoesThen
      <3> QED BY <3>1 DEF Goes
    <2>5. Beside(a)
      BY <2>3 DEF Beside
    <2>6. Work(b) \in Nat /\ Tip(s) \in Blocks /\ Work(Tip(s)) \in Nat
      BY WorkIs, HeaviestIs
    <2>7. CASE Work(Tip(s)) < Work(b)
      <3>1. r = switch_to_alternative_blockchain(a, Append(below, b))
        BY <1>3, <2>1, <2>3, <2>7 DEF AddAlternative
      <3>2. PICK blocks : blocks = Append(below, b)
        OBVIOUS
      <3>3. Switches(a, b, switch_to_alternative_blockchain(a, blocks))
        BY <2>3, <2>4, <2>5, <3>2, SwitchIs
      <3>4. Switches(a, b, r)
        BY <3>1, <3>2, <3>3
      <3>5. Goes(a, r.s)
        BY <3>4 DEF Switches
      <3>6. Goes(s, r.s) /\ Sound(r.s)
        <4>1. Goes(s, r.s)
          BY <2>4, <3>5, GoesThen
        <4> QED BY <4>1 DEF Goes
      <3>7. CASE r.ok
        <4>1. Tip(r.s) = b /\ r.s.alt \subseteq (s.alt \cup {b}) \cup Range(s.main) /\ b \notin r.s.alt /\ Beside(r.s)
          BY <2>3, <3>4, <3>7 DEF Switches
        <4>2. Work(Tip(r.s)) > Work(Tip(s))
          <5>1. Work(b) > Work(Tip(s))
            BY SMTT(30), <2>6, <2>7
          <5> QED BY <4>1, <5>1
        <4>3. ASSUME Low(s) PROVE Low(r.s)
          <5> SUFFICES ASSUME NEW c \in r.s.alt PROVE Work(c) <= Work(b)
            BY <4>1 DEF Low
          <5>1. c \in s.alt \/ c \in Range(s.main)
            BY <4>1
          <5>2. Work(c) <= Work(Tip(s)) /\ Work(c) \in Nat
            BY <1>1, <4>3, <5>1, HeaviestIs, WorkIs DEF Low
          <5> QED BY SMTT(30), <2>6, <2>7, <5>2
        <4> QED BY <3>4, <3>6, <4>1, <4>2, <4>3 DEF Adds, Switches
      <3>8. CASE ~ r.ok
        <4>1. Tip(r.s) = Tip(s) /\ r.s.alt \subseteq s.alt
          BY <2>3, <3>4, <3>8 DEF Switches
        <4>2. r.s.main = s.main
          BY <3>6, <4>1, HeaviestIs
        <4> QED BY <3>4, <3>6, <4>1, <4>2 DEF Adds, Switches, Beside, Low
      <3> QED BY <3>4, <3>7, <3>8 DEF Switches
    <2>8. CASE ~(Work(Tip(s)) < Work(b))
      <3>1. r = [ok |-> TRUE, s |-> a]
        BY <1>3, <2>1, <2>3, <2>8 DEF AddAlternative
      <3>2. r.ok = TRUE /\ r.s = a
        BY SMTT(30), <3>1
      <3>3. Work(b) <= Work(Tip(s))
        BY SMTT(30), <2>6, <2>8
      <3>4. Low(s) => Low(a)
        BY <2>3, <3>3 DEF Low
      <3> QED BY <2>3, <2>4, <2>5, <3>2, <3>4 DEF Adds
    <2> QED BY <2>7, <2>8
  <1> QED BY <1>2, <1>3

LEMMA AddBlockForm ==
  ASSUME NEW s, Stored(s), NEW b, NEW supplement, NEW f, NEW r, r = add_new_block(s, b, supplement, f)
  PROVE  r = [ok |-> r.ok, s |-> r.s]
  <1>1. IsResult(handle_block_to_main_chain(s, b, supplement, f))
    <2>1. PICK x : x = Gather(s, b, supplement)
      OBVIOUS
    <2>2. \A g : IsResult(GiveBack(x, g))
      BY SimpleResult DEF GiveBack
    <2>3. IsResult(Connect(x, b, f))
      BY <2>2 DEF Connect, IsResult
    <2> QED BY <2>1, <2>3 DEF handle_block_to_main_chain
  <1>2. ASSUME NEW a, NEW blocks PROVE IsResult(switch_to_alternative_blockchain(a, blocks))
    <2>1. \A x, o : IsResult(SwitchedBack(x, blocks, o))
      BY SimpleResult DEF SwitchedBack
    <2>2. \A x, o : IsResult(Switched(x, blocks, o))
      BY <2>1 DEF Switched, IsResult
    <2> QED BY <2>2 DEF switch_to_alternative_blockchain
  <1>3. IsResult(handle_alternative_block(s, b, supplement))
    <2>1. PICK x : x = Supplement(s, supplement)
      OBVIOUS
    <2>2. x \in [ok : BOOLEAN, s : States]
      BY <2>1, SupplementIs
    <2>3. IsResult(x)
      <3>1. x = [ok |-> x.ok, s |-> x.s]
        BY <2>2
      <3> QED BY <3>1 DEF IsResult
    <2>4. \A c : IsResult(AddAlternative(x, b, c))
      <3>1. \A q : IsResult([ok |-> TRUE, s |-> q])
        BY DEF IsResult
      <3> QED BY <1>2, <2>3, <3>1 DEF AddAlternative
    <2> QED BY <2>1, <2>4, SimpleResult DEF handle_alternative_block
  <1>4. IsResult([ok |-> TRUE, s |-> s])
    BY DEF IsResult
  <1>5. IsResult(r)
    BY <1>1, <1>3, <1>4 DEF add_new_block
  <1> QED BY <1>5, ResultIs

LEMMA AddBlockIs ==
  ASSUME NEW s, Sound(s), Beside(s), NEW b \in Blocks, NEW supplement, NEW f \in BOOLEAN,
         NEW r, r = add_new_block(s, b, supplement, f)
  PROVE  r.ok \in BOOLEAN /\ Adds(s, r.s)
  <1>1. CASE Known(s, b)
    <2>1. r.ok = TRUE /\ r.s = s
      BY <1>1 DEF add_new_block
    <2> QED BY <2>1, AddsSelf
  <1>2. CASE ~ Known(s, b) /\ Prev(b) = Tip(s)
    <2>1. r = handle_block_to_main_chain(s, b, supplement, f)
      BY <1>2 DEF add_new_block
    <2>2. r.ok \in BOOLEAN /\ Goes(s, r.s) /\ r.s.alt = s.alt /\ Tip(r.s) = IF r.ok THEN b ELSE Tip(s)
      <3>1. Handled(s, b, f, r)
        BY <1>2, <2>1, HandleIs
      <3> QED BY <3>1 DEF Handled
    <2>3. Sound(r.s)
      BY <2>2 DEF Goes
    <2>4. CASE r.ok
      <3>1. Tip(r.s) = b /\ b # GENESIS /\ Tip(s) \in Blocks
        <4>1. Tip(s) \in Blocks
          BY HeaviestIs
        <4> QED BY <1>2, <2>2, <2>4, <4>1, BlocksAssumption
      <3>2. r.s.main = ChainTo[b] /\ s.main = ChainTo[Prev(b)]
        BY <1>2, <2>3, <3>1 DEF Sound, Stored
      <3>3. Range(r.s.main) = Range(s.main) \cup {b}
        BY <3>1, <3>2, ChainRange
      <3>4. b \notin s.alt
        BY <1>2 DEF Known
      <3>5. Work(Tip(s)) < Work(b) /\ Work(Tip(s)) \in Nat /\ Work(b) \in Nat
        BY <1>2, <3>1, WorkIs
      <3>6. Work(b) > Work(Tip(s))
        BY SMTT(30), <3>5
      <3>7. Work(Tip(r.s)) > Work(Tip(s))
        BY <3>1, <3>6
      <3>8. s.alt \subseteq Blocks
        BY StateIs DEF Sound, Stored
      <3>9. ASSUME Low(s) PROVE Low(r.s)
        <4> SUFFICES ASSUME NEW c \in s.alt PROVE Work(c) <= Work(b)
          BY <2>2, <3>1 DEF Low
        <4>1. Work(c) <= Work(Tip(s)) /\ Work(c) \in Nat
          BY <3>8, <3>9, WorkIs DEF Low
        <4> QED BY SMTT(30), <3>5, <4>1
      <3> QED BY <2>2, <3>3, <3>4, <3>7, <3>9 DEF Adds, Beside
    <2>5. CASE ~ r.ok
      <3>1. r.s.main = s.main /\ Tip(r.s) = Tip(s)
        BY <2>2, <2>3, <2>5, HeaviestIs
      <3> QED BY <2>2, <3>1 DEF Adds, Beside, Low
    <2> QED BY <2>2, <2>4, <2>5
  <1>3. CASE ~ Known(s, b) /\ Prev(b) # Tip(s)
    <2>1. r = handle_alternative_block(s, b, supplement)
      BY <1>3 DEF add_new_block
    <2>2. CASE Prev(b) \notin s.alt \cup Range(s.main) \/ ~ Connects(s, AltChain(s, Prev(b)))
      <3>1. r.ok = FALSE /\ r.s = s
        BY SMTT(30), <2>1, <2>2 DEF handle_alternative_block, Refused
      <3> QED BY <3>1, AddsSelf
    <2>3. CASE ~(Prev(b) \notin s.alt \cup Range(s.main) \/ ~ Connects(s, AltChain(s, Prev(b))))
      <3>1. PICK x : x = Supplement(s, supplement)
        OBVIOUS
      <3>2. PICK below : below = AltChain(s, Prev(b))
        OBVIOUS
      <3>3. r = AddAlternative(x, b, below)
        BY <2>1, <2>3, <3>1, <3>2 DEF handle_alternative_block
      <3>4. b \notin Range(s.main) /\ b \notin s.alt
        BY <1>3 DEF Known, OnMain
      <3>5. b # GENESIS
        <4>1. Tip(s) \in Blocks /\ s.main = ChainTo[Tip(s)]
          BY DEF Sound, Stored, GoodTip
        <4>2. GENESIS \in Range(s.main)
          BY <4>1, GenesisFirst
        <4> QED BY <3>4, <4>2
      <3>6. PICK m \in 1 .. Height(b) : /\ Append(below, b) = SubSeq(ChainTo[b], m + 1, Height(b) + 1)
                                        /\ ChainTo[b][m] \in Range(s.main)
        BY <2>3, <3>2, <3>5, AltChainIs
      <3>7. x.ok \in BOOLEAN /\ Puts(s, x.s)
        <4>1. x \in [ok : BOOLEAN, s : States] /\ Puts(s, x.s)
          BY <3>1, SupplementIs DEF Sound
        <4> QED BY <4>1
      <3>8. Goes(s, x.s) /\ x.s.main = s.main /\ x.s.alt = s.alt
        BY <3>7, PutsGoes DEF Puts, Same
      <3>9. Joins(s, b, m, below) /\ Supplements(s, x)
        BY <3>6, <3>7, <3>8 DEF Joins, Supplements
      <3> QED BY <3>3, <3>4, <3>5, <3>9, AlternativeIs
    <2> QED BY <2>2, <2>3
  <1> QED BY <1>1, <1>2, <1>3

(* The loop over the blocks of a delivery. *)
AddRounds(d, T) ==
  \A i \in 1 .. Len(d.blocks) : \A x \in T[i - 1] : (IF ~ x.ok THEN x ELSE add_new_block(x.s, d.blocks[i], Supplied(d, d.blocks[i]), i = d.fails)) \in T[i]

LEMMA AddAllFold ==
  ASSUME NEW s, NEW d, Len(d.blocks) \in Nat, NEW T, [ok |-> TRUE, s |-> s] \in T[0], AddRounds(d, T)
  PROVE  \E x \in T[Len(d.blocks)] : AddAll(s, d) = x.s
  <1> DEFINE n == Len(d.blocks)
             round(i, x) == (IF ~ x.ok THEN x ELSE add_new_block(x.s, d.blocks[i], Supplied(d, d.blocks[i]), i = d.fails))
             g == [i \in 1 .. n |-> [x \in T[i - 1] |-> round(i, x)]]
             body(f) == [i \in 0 .. n |-> IF i = 0 THEN [ok |-> TRUE, s |-> s] ELSE round(i, f[i - 1])]
             up == CHOOSE f : f = body(f)
  <1>1. n \in Nat /\ n \in 0 .. n /\ 0 \in 0 .. n
    BY SMTT(30)
  <1>2. \A i \in 1 .. n : \A x \in T[i - 1] : g[i][x] = round(i, x) /\ round(i, x) \in T[i]
    BY DEF AddRounds
  <1>3. PICK f : IsFold(f, [ok |-> TRUE, s |-> s], g, T, n)
    <2> HIDE DEF g, n, round
    <2>1. \A i \in 1 .. n : \A x \in T[i - 1] : g[i][x] \in T[i]
      BY <1>2
    <2> QED BY <1>1, <2>1, FoldExists
  <1>4. f = body(f)
    <2> HIDE DEF g, n, round
    <2>1. \A i \in 0 .. n : i = 0 \/ (i \in 1 .. n /\ i - 1 \in 0 .. n)
      BY SMTT(30), <1>1
    <2> QED BY <1>1, <1>2, <1>3, <2>1 DEF IsFold
  <1>5. up = body(up)
    <2> HIDE DEF body
    <2> QED BY <1>4
  <1>6. AddAll(s, d) = up[n].s
    BY DEF AddAll
  <1> HIDE DEF up
  <1>7. \A i \in 0 .. n : up[i] = IF i = 0 THEN [ok |-> TRUE, s |-> s] ELSE round(i, up[i - 1])
    <2> HIDE DEF n, round
    <2> QED BY <1>5
  <1>8. \A i \in 0 .. n : up[i] \in T[i]
    <2> HIDE DEF g, n, round
    <2>1. \A i \in 1 .. n : i \in 0 .. n /\ i # 0
      BY SMTT(30), <1>1
    <2>2. \A i \in 1 .. n : up[i - 1] \in T[i - 1] => up[i] \in T[i]
      BY <1>2, <1>7, <2>1
    <2>3. up[0] \in T[0]
      BY <1>1, <1>7
    <2> QED BY <1>1, <2>2, <2>3, InEach
  <1> QED BY <1>1, <1>6, <1>8

LEMMA AddAllIs ==
  ASSUME NEW s, Sound(s), Beside(s), NEW d, d.blocks \in Seq(Blocks)
  PROVE  Adds(s, AddAll(s, d))
  <1> DEFINE n == Len(d.blocks)
             start == [ok |-> TRUE, s |-> s]
             A == {x \in [ok : BOOLEAN, s : States] : Adds(s, x.s)}
             T == [i \in 0 .. n |-> A]
  <1>1. n \in Nat /\ n \in 0 .. n /\ 0 \in 0 .. n /\ \A i \in 1 .. n : d.blocks[i] \in Blocks
    BY SMTT(30)
  <1>2. start \in A
    <2>1. Adds(s, s) /\ s \in States
      BY AddsSelf DEF Sound, Stored
    <2> QED BY <2>1
  <1>3. ASSUME NEW x \in A, NEW b \in Blocks, NEW supplement, NEW f \in BOOLEAN
        PROVE  add_new_block(x.s, b, supplement, f) \in A
    <2>1. Adds(s, x.s) /\ Sound(x.s) /\ Beside(x.s)
      BY DEF Adds, Goes
    <2>2. PICK r : r = add_new_block(x.s, b, supplement, f)
      OBVIOUS
    <2>3. r.ok \in BOOLEAN /\ Adds(x.s, r.s)
      BY <2>1, <2>2, AddBlockIs
    <2>4. Adds(s, r.s)
      BY <2>1, <2>3, AddsThen
    <2>5. r.s \in States
      BY <2>4 DEF Adds, Goes, Sound, Stored
    <2>6. r = [ok |-> r.ok, s |-> r.s]
      BY SMTT(30), <2>1, <2>2, AddBlockForm DEF Sound
    <2>7. r \in [ok : BOOLEAN, s : States]
      BY <2>3, <2>5, <2>6
    <2> QED BY <2>2, <2>4, <2>7
  <1>4. \A i \in 1 .. n : i \in 0 .. n /\ i - 1 \in 0 .. n
    BY SMTT(30), <1>1
  <1>5. start \in T[0] /\ T[n] = A /\ \A i \in 1 .. n : T[i - 1] = A /\ T[i] = A
    <2> HIDE DEF A, start, n
    <2> QED BY <1>1, <1>2, <1>4
  <1>6. AddRounds(d, T)
    <2> HIDE DEF A, T
    <2>1. \A i \in 1 .. n : (i = d.fails) \in BOOLEAN
      OBVIOUS
    <2> QED BY <1>1, <1>3, <1>5, <2>1 DEF AddRounds
  <1>7. \E x \in A : AddAll(s, d) = x.s
    <2> HIDE DEF A, T
    <2> QED BY <1>1, <1>5, <1>6, AddAllFold
  <1> QED BY <1>7

-----------------------------------------------------------------------------
(* The rest of the pool. *)
LEMMA VerdictIs ==
  ASSUME NEW s \in States, CacheRight(s), NEW t \in Txs
  PROVE  Verdict(s, t) = check_tx_inputs(s.main, t)
  BY DEF Verdict, CacheRight

LEMMA CacheStays ==
  ASSUME NEW s \in States, CacheRight(s), NEW t \in Txs, NEW r, r.main = s.main,
         r.verdicts = s.verdicts \/ r.verdicts = With(s.verdicts, t, Verdict(s, t))
  PROVE  CacheRight(r)
  <1>1. CASE r.verdicts = s.verdicts
    BY <1>1 DEF CacheRight
  <1>2. CASE r.verdicts = With(s.verdicts, t, Verdict(s, t))
    <2>1. DOMAIN r.verdicts = DOMAIN s.verdicts \cup {t}
      BY <1>2 DEF With
    <2>2. \A u \in DOMAIN r.verdicts : r.verdicts[u] = IF u = t THEN Verdict(s, t) ELSE s.verdicts[u]
      BY <1>2 DEF With
    <2> QED BY <2>1, <2>2, VerdictIs DEF CacheRight
  <1> QED BY <1>1, <1>2

(* A transaction is offered to the pool. *)
Offers(s, t, relay, r) ==
  /\ r.ok \in BOOLEAN /\ Stored(r.s) /\ CacheRight(r.s) /\ Same(s, r.s)
  /\ r.s.template = NoTemplate \/ (r.s.template = s.template /\ r.s.pool = s.pool)
  /\ t \notin DOMAIN s.pool /\ t \in DOMAIN r.s.pool => r.s.pool[t].relay = relay
  /\ Indexed(s) => Indexed(r.s)

LEMMA OfferIs ==
  ASSUME NEW s, Stored(s), CacheRight(s), NEW t \in Txs, t \notin Mined(s.main), ~ Legacy(s, t),
         NEW relay \in Relays, NEW r, r = add_tx(s, t, relay)
  PROVE  Offers(s, t, relay, r)
  <1>1. s \in States
    BY DEF Stored
  <1>2. AddsTx(s, t, relay, r) /\ Caching(s, t, relay, r)
    BY <1>1, AddTxIs
  <1>3. /\ r.ok \in BOOLEAN /\ r.s \in States /\ Same(s, r.s)
        /\ \A u \in DOMAIN r.s.pool : \/ u \in DOMAIN s.pool /\ r.s.pool[u] = s.pool[u]
                                      \/ u = t /\ r.s.pool[u].failed = NoBlock
        /\ r.s.template = NoTemplate \/ (r.s.template = s.template /\ r.s.pool = s.pool)
        /\ t \notin DOMAIN s.pool => (t \in DOMAIN r.s.pool => r.s.pool[t].relay = relay)
        /\ Indexed(s) => Indexed(r.s)
    BY <1>2 DEF AddsTx
  <1>4. r.s.main = s.main /\ Tip(r.s) = Tip(s)
    BY <1>3 DEF Same, Tip
  <1>5. Stored(r.s)
    BY <1>3, <1>4 DEF Stored
  <1>6. r.s.verdicts = s.verdicts \/ r.s.verdicts = With(s.verdicts, t, Verdict(s, t))
    BY <1>2 DEF Caching
  <1>7. CacheRight(r.s)
    BY <1>1, <1>4, <1>6, CacheStays
  <1> QED BY <1>3, <1>5, <1>7 DEF Offers

(* The indexes stay right when only marks of failure change. *)
LEMMA IndexedLike ==
  ASSUME NEW s, Indexed(s), NEW r, r.broken = s.broken, r.listed = s.listed, r.images = s.images,
         r.weight = s.weight, DOMAIN r.pool = DOMAIN s.pool,
         \A u \in DOMAIN s.pool : s.pool[u].relay = "block" => r.pool[u].relay = "block"
  PROVE  Indexed(r)
  <1>1. \A k \in KeyImages : Spenders(r.pool, k) = Spenders(s.pool, k)
    BY DEF Spenders
  <1>2. Loose(s.pool) => Loose(r.pool)
    BY DEF Loose
  <1> QED BY <1>1, <1>2 DEF Indexed, Indexes

(* is_transaction_ready_to_go. *)
Looks(s, r) ==
  /\ Stored(r) /\ CacheRight(r) /\ Same(s, r) /\ r.template = s.template
  /\ r.images = s.images /\ r.listed = s.listed /\ r.weight = s.weight /\ r.broken = s.broken
  /\ DOMAIN r.pool = DOMAIN s.pool /\ \A u \in DOMAIN s.pool : r.pool[u].relay = s.pool[u].relay

LEMMA LookedIs ==
  ASSUME NEW s, Stored(s), CacheRight(s), NEW t \in DOMAIN s.pool
  PROVE  Looks(s, LookedAt(s, t)) /\ (Ready(s, t) => check_tx_inputs(s.main, t))
  <1>1. s \in States
    BY DEF Stored
  <1>2. t \in Txs /\ s.pool \in Pools
    BY <1>1, StateIs, PoolIs
  <1>3. Verdict(s, t) = check_tx_inputs(s.main, t)
    BY <1>1, <1>2, VerdictIs
  <1>4. PICK j : j = Judged(s, t)
    OBVIOUS
  <1>5. /\ j \in States /\ Same(s, j) /\ j.template = s.template
        /\ j.pool = s.pool /\ j.images = s.images /\ j.listed = s.listed
        /\ j.weight = s.weight /\ j.broken = s.broken
        /\ j.verdicts = With(s.verdicts, t, Verdict(s, t))
    BY <1>1, <1>2, <1>4, JudgedIs
  <1>6. j.main = s.main /\ Tip(j) = Tip(s)
    BY <1>5 DEF Same, Tip
  <1>7. Stored(j)
    BY <1>5, <1>6 DEF Stored
  <1>8. CacheRight(j)
    BY <1>1, <1>2, <1>5, <1>6, CacheStays
  <1>9. CASE FailedHere(s, t)
    <2>1. LookedAt(s, t) = s
      BY <1>9 DEF LookedAt
    <2> QED BY <1>9, <2>1 DEF Looks, Same, Ready
  <1>10. CASE ~ FailedHere(s, t) /\ Verdict(s, t)
    <2>1. LookedAt(s, t) = j
      BY <1>4, <1>10 DEF LookedAt
    <2> QED BY <1>3, <1>5, <1>7, <1>8, <1>10, <2>1 DEF Looks
  <1>11. CASE ~ FailedHere(s, t) /\ ~ Verdict(s, t)
    <2>1. PICK m : m = [s.pool[t] EXCEPT !.failed = Tip(s)]
      OBVIOUS
    <2>2. Tip(s) \in Blocks /\ s.main = ChainTo[Tip(s)]
      BY DEF Stored, GoodTip
    <2>3. m \in Metas /\ m.relay = s.pool[t].relay /\ m.failed = Tip(s)
      <3>1. s.pool[t] \in Metas
        BY <1>2, PoolIs
      <3> QED BY <2>1, <2>2, <3>1 DEF Metas
    <2>4. PICK p : p = With(s.pool, t, m)
      OBVIOUS
    <2>5. p \in Pools /\ DOMAIN p = DOMAIN s.pool /\ p[t] = m /\ \A u \in DOMAIN s.pool : u # t => p[u] = s.pool[u]
      BY SMTT(30), <1>2, <2>3, <2>4, WithIs
    <2>6. PICK r : r = LookedAt(s, t)
      OBVIOUS
    <2>7. r = [j EXCEPT !.pool = p]
      BY <1>4, <1>5, <1>6, <1>11, <2>1, <2>4, <2>6 DEF LookedAt, MarkFailed
    <2>8. /\ r \in States /\ Same(j, r) /\ r.template = j.template
          /\ r.pool = p /\ r.images = j.images /\ r.listed = j.listed
          /\ r.weight = j.weight /\ r.verdicts = j.verdicts /\ r.broken = j.broken
      BY SMTT(30), <1>5, <2>5, <2>7, PoolPut
    <2>9. r.main = s.main /\ Tip(r) = Tip(s) /\ Same(s, r)
      BY <1>5, <2>8 DEF Same, Tip
    <2>10. \A u \in DOMAIN p : p[u].failed # NoBlock => ~ check_tx_inputs(ChainTo[p[u].failed], u)
      BY <1>3, <1>11, <2>2, <2>3, <2>5 DEF Stored
    <2>11. Stored(r)
      BY <2>5, <2>8, <2>9, <2>10 DEF Stored
    <2>12. CacheRight(r)
      BY <1>6, <1>8, <2>8, <2>9 DEF CacheRight
    <2>13. \A u \in DOMAIN s.pool : p[u].relay = s.pool[u].relay
      BY <2>3, <2>5
    <2>14. Looks(s, r)
      BY <1>5, <2>5, <2>8, <2>9, <2>11, <2>12, <2>13 DEF Looks
    <2> QED BY <1>11, <2>6, <2>14 DEF Ready
  <1> QED BY <1>9, <1>10, <1>11

LEMMA LooksThen ==
  ASSUME NEW s, NEW r, NEW q, Looks(s, r), Looks(r, q)
  PROVE  Looks(s, q)
  BY DEF Looks, Same

Fills(s, x) ==
  /\ x \in [s : States, txs : Seq(Txs)] /\ Looks(s, x.s)
  /\ Range(x.txs) \subseteq DOMAIN s.pool
  /\ \A t \in Range(x.txs) : check_tx_inputs(s.main, t)
  /\ \A t, u \in Range(x.txs) : t # u => Range(Spends[t]) \cap Range(Spends[u]) = {}

LEMMA RangeAppend ==
  ASSUME NEW S, NEW q \in Seq(S), NEW t \in S
  PROVE  Append(q, t) \in Seq(S) /\ Range(Append(q, t)) = Range(q) \cup {t}
  <1>1. PICK r : r = Append(q, t)
    OBVIOUS
  <1>2. /\ r \in Seq(S) /\ DOMAIN r = 1 .. Len(q) + 1 /\ r[Len(q) + 1] = t
        /\ DOMAIN q = 1 .. Len(q) /\ Len(q) \in Nat /\ \A i \in 1 .. Len(q) : r[i] = q[i]
    BY SMTT(30), <1>1
  <1>3. \A i \in 1 .. Len(q) + 1 : i \in 1 .. Len(q) \/ i = Len(q) + 1
    BY SMTT(30), <1>2
  <1>4. \A i \in 1 .. Len(q) : i \in 1 .. Len(q) + 1
    BY SMTT(30), <1>2
  <1>5. Len(q) + 1 \in 1 .. Len(q) + 1
    BY SMTT(30), <1>2
  <1>6. Range(r) \subseteq Range(q) \cup {t}
    BY <1>2, <1>3 DEF Range
  <1>7. Range(q) \cup {t} \subseteq Range(r)
    BY <1>2, <1>4, <1>5 DEF Range
  <1> QED BY <1>1, <1>2, <1>6, <1>7

LEMMA FillOneIs ==
  ASSUME NEW s, Stored(s), NEW x, Fills(s, x), NEW t \in Txs
  PROVE  Fills(s, FillOne(x, t))
  <1>1. x \in [s : States, txs : Seq(Txs)] /\ Looks(s, x.s)
    BY DEF Fills
  <1>2. CASE ~(t \in x.s.listed /\ Legacy(x.s, t))
    BY <1>2 DEF FillOne
  <1>3. CASE t \in x.s.listed /\ Legacy(x.s, t)
    <2>1. t \in DOMAIN x.s.pool /\ t \in DOMAIN s.pool /\ Stored(x.s) /\ CacheRight(x.s) /\ x.s.main = s.main
      BY <1>1, <1>3 DEF Legacy, InPool, Looks, Same
    <2>2. PICK a : a = LookedAt(x.s, t)
      OBVIOUS
    <2>3. Looks(x.s, a) /\ (Ready(x.s, t) => check_tx_inputs(s.main, t))
      BY <2>1, <2>2, LookedIs
    <2>4. Looks(s, a) /\ a \in States
      <3>1. Looks(s, a)
        BY <1>1, <2>3, LooksThen
      <3> QED BY <3>1 DEF Looks, Stored
    <2>5. CASE Ready(x.s, t) /\ Apart(t, x.txs)
      <3>1. PICK q : q = Append(x.txs, t)
        OBVIOUS
      <3>2. q \in Seq(Txs) /\ Range(q) = Range(x.txs) \cup {t}
        <4>1. x.txs \in Seq(Txs)
          BY <1>1
        <4> QED BY <3>1, <4>1, RangeAppend
      <3>3. FillOne(x, t) = [s |-> a, txs |-> q]
        BY <1>3, <2>2, <2>5, <3>1 DEF FillOne
      <3>4. PICK y : y = FillOne(x, t)
        OBVIOUS
      <3>5. y.s = a /\ y.txs = q /\ y \in [s : States, txs : Seq(Txs)]
        BY SMTT(30), <2>4, <3>2, <3>3, <3>4
      <3>6. Range(q) \subseteq DOMAIN s.pool /\ \A u \in Range(q) : check_tx_inputs(s.main, u)
        BY <2>1, <2>3, <2>5, <3>2 DEF Fills
      <3>7. \A u \in Range(x.txs) : Range(Spends[u]) \cap Range(Spends[t]) = {} /\ Range(Spends[t]) \cap Range(Spends[u]) = {}
        BY <2>5 DEF Apart
      <3>8. \A v, u \in Range(x.txs) : v # u => Range(Spends[v]) \cap Range(Spends[u]) = {}
        BY DEF Fills
      <3>9. \A v, u \in Range(q) : v # u => Range(Spends[v]) \cap Range(Spends[u]) = {}
        BY <3>2, <3>7, <3>8
      <3> QED BY <2>4, <3>4, <3>5, <3>6, <3>9 DEF Fills
    <2>6. CASE ~(Ready(x.s, t) /\ Apart(t, x.txs))
      <3>1. FillOne(x, t) = [s |-> a, txs |-> x.txs]
        BY <1>3, <2>2, <2>6 DEF FillOne
      <3>2. PICK y : y = FillOne(x, t)
        OBVIOUS
      <3>3. y.s = a /\ y.txs = x.txs /\ y \in [s : States, txs : Seq(Txs)]
        BY SMTT(30), <1>1, <2>4, <3>1, <3>2
      <3> QED BY <2>4, <3>2, <3>3 DEF Fills
    <2> QED BY <2>5, <2>6
  <1> QED BY <1>2, <1>3

(* The loop of fill_block_template. *)
FillRounds(T) ==
  \A i \in 1 .. Len(FeeOrder) : \A x \in T[i - 1] : FillOne(x, FeeOrder[i]) \in T[i]

LEMMA FillFold ==
  ASSUME NEW s, NEW T, [s |-> s, txs |-> <<>>] \in T[0], FillRounds(T)
  PROVE  fill_block_template(s) \in T[Len(FeeOrder)]
  <1> DEFINE n == Len(FeeOrder)
             round(i, x) == FillOne(x, FeeOrder[i])
             g == [i \in 1 .. n |-> [x \in T[i - 1] |-> round(i, x)]]
             body(f) == [i \in 0 .. n |-> IF i = 0 THEN [s |-> s, txs |-> <<>>] ELSE round(i, f[i - 1])]
             up == CHOOSE f : f = body(f)
  <1>1. n \in Nat /\ n \in 0 .. n /\ 0 \in 0 .. n
    BY SMTT(30), TxAssumption
  <1>2. \A i \in 1 .. n : \A x \in T[i - 1] : g[i][x] = round(i, x) /\ round(i, x) \in T[i]
    BY DEF FillRounds
  <1>3. PICK f : IsFold(f, [s |-> s, txs |-> <<>>], g, T, n)
    <2> HIDE DEF g, n, round
    <2>1. \A i \in 1 .. n : \A x \in T[i - 1] : g[i][x] \in T[i]
      BY <1>2
    <2> QED BY <1>1, <2>1, FoldExists
  <1>4. f = body(f)
    <2> HIDE DEF g, n, round
    <2>1. \A i \in 0 .. n : i = 0 \/ (i \in 1 .. n /\ i - 1 \in 0 .. n)
      BY SMTT(30), <1>1
    <2> QED BY <1>1, <1>2, <1>3, <2>1 DEF IsFold
  <1>5. up = body(up)
    <2> HIDE DEF body
    <2> QED BY <1>4
  <1>6. fill_block_template(s) = up[n]
    BY DEF fill_block_template
  <1> HIDE DEF up
  <1>7. \A i \in 0 .. n : up[i] = IF i = 0 THEN [s |-> s, txs |-> <<>>] ELSE round(i, up[i - 1])
    <2> HIDE DEF n, round
    <2> QED BY <1>5
  <1>8. \A i \in 0 .. n : up[i] \in T[i]
    <2> HIDE DEF g, n, round
    <2>1. \A i \in 1 .. n : i \in 0 .. n /\ i # 0
      BY SMTT(30), <1>1
    <2>2. \A i \in 1 .. n : up[i - 1] \in T[i - 1] => up[i] \in T[i]
      BY <1>2, <1>7, <2>1
    <2>3. up[0] \in T[0]
      BY <1>1, <1>7
    <2> QED BY <1>1, <2>2, <2>3, InEach
  <1> QED BY <1>1, <1>6, <1>8

LEMMA FillIs ==
  ASSUME NEW s, Stored(s), CacheRight(s)
  PROVE  Fills(s, fill_block_template(s))
  <1> DEFINE n == Len(FeeOrder)
             start == [s |-> s, txs |-> <<>>]
             A == {x \in [s : States, txs : Seq(Txs)] : Fills(s, x)}
             T == [i \in 0 .. n |-> A]
  <1>1. n \in Nat /\ n \in 0 .. n /\ 0 \in 0 .. n /\ \A i \in 1 .. n : FeeOrder[i] \in Txs
    BY SMTT(30), TxAssumption
  <1>2. start \in A
    <2>1. s \in States /\ Looks(s, s)
      BY DEF Looks, Stored, Same
    <2>2. <<>> \in Seq(Txs) /\ Range(<<>>) = {}
      BY SMTT(30) DEF Range
    <2>3. start.s = s /\ start.txs = <<>> /\ start \in [s : States, txs : Seq(Txs)]
      BY <2>1, <2>2
    <2> HIDE DEF start
    <2> QED BY <2>1, <2>2, <2>3 DEF Fills
  <1>3. ASSUME NEW x \in A, NEW t \in Txs PROVE FillOne(x, t) \in A
    <2>1. Fills(s, FillOne(x, t))
      BY FillOneIs
    <2> QED BY <2>1 DEF Fills
  <1>4. \A i \in 1 .. n : i \in 0 .. n /\ i - 1 \in 0 .. n
    BY SMTT(30), <1>1
  <1>5. start \in T[0] /\ T[n] = A /\ \A i \in 1 .. n : T[i - 1] = A /\ T[i] = A
    <2> HIDE DEF A, start, n
    <2> QED BY <1>1, <1>2, <1>4
  <1>6. FillRounds(T)
    <2> HIDE DEF A, T
    <2> QED BY <1>1, <1>3, <1>5 DEF FillRounds
  <1>7. fill_block_template(s) \in A
    <2> HIDE DEF A, T
    <2> QED BY <1>5, <1>6, FillFold
  <1> QED BY <1>7

(* validate *)
Valid(s, x) ==
  /\ Stored(x) /\ CacheRight(x) /\ x.template = NoTemplate /\ Same(s, x)
  /\ Indexed(s) => Indexed(x)

LEMMA ValidateOneIs ==
  ASSUME NEW s, NEW x, Valid(s, x), NEW t \in Txs
  PROVE  Valid(s, ValidateOne(x, t))
  <1>1. CASE ~ InPool(x, t)
    BY <1>1 DEF ValidateOne
  <1>2. CASE InPool(x, t)
    <2>1. x \in States /\ x.pool \in Pools /\ t \in DOMAIN x.pool /\ Stored(x) /\ CacheRight(x)
      BY <1>2, StateIs DEF Valid, Stored, InPool
    <2>2. PICK m : m = x.pool[t]
      OBVIOUS
    <2>3. m \in Metas /\ m.relay \in Relays
      BY <2>1, <2>2, PoolIs
    <2>4. PICK a : a = RemoveTx(x, t)
      OBVIOUS
    <2>5. /\ a \in States /\ Same(x, a) /\ a.verdicts = x.verdicts /\ a.template = NoTemplate
      BY <2>1, <2>4, RemoveTxIs
    <2>6. Puts(x, a) /\ DOMAIN a.pool = DOMAIN x.pool \ {t}
      BY <2>1, <2>4, TakeIs
    <2>7. Stored(a) /\ CacheRight(a) /\ a.main = x.main /\ (Indexed(x) => Indexed(a))
      BY <2>1, <2>5, <2>6 DEF Puts, CacheRight, Same
    <2>8. t \notin Mined(a.main) /\ t \notin DOMAIN a.pool /\ ~ Legacy(a, t)
      BY <2>1, <2>6, <2>7 DEF Stored, Legacy, InPool
    <2>9. PICK r : r = add_tx(a, t, m.relay)
      OBVIOUS
    <2>10. /\ Stored(r.s) /\ CacheRight(r.s) /\ Same(a, r.s)
           /\ r.s.template = NoTemplate \/ (r.s.template = a.template /\ r.s.pool = a.pool)
           /\ t \notin DOMAIN a.pool /\ t \in DOMAIN r.s.pool => r.s.pool[t].relay = m.relay
           /\ Indexed(a) => Indexed(r.s)
      <3>1. Offers(a, t, m.relay, r)
        BY <2>3, <2>7, <2>8, <2>9, OfferIs
      <3> QED BY <3>1 DEF Offers
    <2>11. r.s.template = NoTemplate /\ Same(s, r.s) /\ (Indexed(s) => Indexed(r.s)) /\ r.s.main = x.main
      BY <2>5, <2>7, <2>10 DEF Same, Valid
    <2>12. PICK y : y = ValidateOne(x, t)
      OBVIOUS
    <2>13. y = PutBack(r, t, m)
      BY <1>2, <2>2, <2>4, <2>9, <2>12 DEF ValidateOne
    <2>14. CASE ~(r.ok /\ InPool(r.s, t))
      <3>1. y = r.s
        BY <2>13, <2>14 DEF PutBack
      <3> QED BY <2>10, <2>11, <2>12, <3>1 DEF Valid
    <2>15. CASE r.ok /\ InPool(r.s, t)
      <3>1. PICK p : p = With(r.s.pool, t, m)
        OBVIOUS
      <3>2. r.s \in States /\ r.s.pool \in Pools /\ t \in DOMAIN r.s.pool
        BY <2>10, <2>15, StateIs DEF Stored, InPool
      <3>3. p \in Pools /\ DOMAIN p = DOMAIN r.s.pool /\ p[t] = m /\ \A u \in DOMAIN r.s.pool : u # t => p[u] = r.s.pool[u]
        <4>1. PICK w : w = r.s.pool
          OBVIOUS
        <4>2. w \in Pools /\ t \in DOMAIN w /\ p = With(w, t, m)
          BY <3>1, <3>2, <4>1
        <4>3. p \in Pools /\ DOMAIN p = DOMAIN w \cup {t} /\ p[t] = m /\ \A u \in DOMAIN w : u # t => p[u] = w[u]
          BY <2>3, <4>2, WithIs
        <4> QED BY <4>1, <4>2, <4>3
      <3>4. y = [r.s EXCEPT !.pool = p]
        BY <2>13, <2>15, <3>1 DEF PutBack
      <3>5. /\ y \in States /\ Same(r.s, y) /\ y.template = r.s.template
            /\ y.pool = p /\ y.images = r.s.images /\ y.listed = r.s.listed
            /\ y.weight = r.s.weight /\ y.verdicts = r.s.verdicts /\ y.broken = r.s.broken
        BY SMTT(30), <3>2, <3>3, <3>4, PoolPut
      <3>6. y.main = r.s.main /\ Tip(y) = Tip(r.s) /\ Same(s, y)
        BY <2>11, <3>5 DEF Same, Tip
      <3>7. m.failed # NoBlock => ~ check_tx_inputs(ChainTo[m.failed], t)
        BY <2>1, <2>2 DEF Stored
      <3>8. Stored(y)
        BY <2>10, <3>3, <3>5, <3>6, <3>7 DEF Stored
      <3>9. CacheRight(y)
        BY <2>10, <3>5, <3>6 DEF CacheRight
      <3>10. m.relay = r.s.pool[t].relay
        BY <2>8, <2>10, <3>2
      <3>11. \A u \in DOMAIN r.s.pool : r.s.pool[u].relay = "block" => p[u].relay = "block"
        BY <3>3, <3>10
      <3>12. Indexed(r.s) => Indexed(y)
        BY <3>3, <3>5, <3>11, IndexedLike
      <3> QED BY <2>11, <2>12, <3>5, <3>6, <3>8, <3>9, <3>12 DEF Valid
    <2> QED BY <2>14, <2>15
  <1> QED BY <1>1, <1>2

(* Its loop. *)
ValidateRounds(T) ==
  \A i \in 1 .. Len(HashOrder) : \A x \in T[i - 1] : ValidateOne(x, HashOrder[i]) \in T[i]

LEMMA ValidateFold ==
  ASSUME NEW s, NEW T, s \in T[0], ValidateRounds(T)
  PROVE  validate(s) \in T[Len(HashOrder)]
  <1> DEFINE n == Len(HashOrder)
             round(i, x) == ValidateOne(x, HashOrder[i])
             g == [i \in 1 .. n |-> [x \in T[i - 1] |-> round(i, x)]]
             body(f) == [i \in 0 .. n |-> IF i = 0 THEN s ELSE round(i, f[i - 1])]
             up == CHOOSE f : f = body(f)
  <1>1. n \in Nat /\ n \in 0 .. n /\ 0 \in 0 .. n
    BY SMTT(30), TxAssumption
  <1>2. \A i \in 1 .. n : \A x \in T[i - 1] : g[i][x] = round(i, x) /\ round(i, x) \in T[i]
    BY DEF ValidateRounds
  <1>3. PICK f : IsFold(f, s, g, T, n)
    <2> HIDE DEF g, n, round
    <2>1. \A i \in 1 .. n : \A x \in T[i - 1] : g[i][x] \in T[i]
      BY <1>2
    <2> QED BY <1>1, <2>1, FoldExists
  <1>4. f = body(f)
    <2> HIDE DEF g, n, round
    <2>1. \A i \in 0 .. n : i = 0 \/ (i \in 1 .. n /\ i - 1 \in 0 .. n)
      BY SMTT(30), <1>1
    <2> QED BY <1>1, <1>2, <1>3, <2>1 DEF IsFold
  <1>5. up = body(up)
    <2> HIDE DEF body
    <2> QED BY <1>4
  <1>6. validate(s) = up[n]
    BY DEF validate
  <1> HIDE DEF up
  <1>7. \A i \in 0 .. n : up[i] = IF i = 0 THEN s ELSE round(i, up[i - 1])
    <2> HIDE DEF n, round
    <2> QED BY <1>5
  <1>8. \A i \in 0 .. n : up[i] \in T[i]
    <2> HIDE DEF g, n, round
    <2>1. \A i \in 1 .. n : i \in 0 .. n /\ i # 0
      BY SMTT(30), <1>1
    <2>2. \A i \in 1 .. n : up[i - 1] \in T[i - 1] => up[i] \in T[i]
      BY <1>2, <1>7, <2>1
    <2>3. up[0] \in T[0]
      BY <1>1, <1>7
    <2> QED BY <1>1, <2>2, <2>3, InEach
  <1> QED BY <1>1, <1>6, <1>8

LEMMA ValidateIs ==
  ASSUME NEW s, Stored(s), CacheRight(s), s.template = NoTemplate
  PROVE  Valid(s, validate(s))
  <1> DEFINE n == Len(HashOrder)
             start == s
             A == {x \in States : Valid(s, x)}
             T == [i \in 0 .. n |-> A]
  <1>1. n \in Nat /\ n \in 0 .. n /\ 0 \in 0 .. n /\ \A i \in 1 .. n : HashOrder[i] \in Txs
    BY SMTT(30), TxAssumption
  <1>2. start \in A
    BY DEF Valid, Stored, Same
  <1>3. ASSUME NEW x \in A, NEW t \in Txs PROVE ValidateOne(x, t) \in A
    <2>1. Valid(s, ValidateOne(x, t))
      BY ValidateOneIs
    <2> QED BY <2>1 DEF Valid, Stored
  <1>4. \A i \in 1 .. n : i \in 0 .. n /\ i - 1 \in 0 .. n
    BY SMTT(30), <1>1
  <1>5. start \in T[0] /\ T[n] = A /\ \A i \in 1 .. n : T[i - 1] = A /\ T[i] = A
    <2> HIDE DEF A, start, n
    <2> QED BY <1>1, <1>2, <1>4
  <1>6. ValidateRounds(T)
    <2> HIDE DEF A, T
    <2> QED BY <1>1, <1>3, <1>5 DEF ValidateRounds
  <1>7. validate(s) \in A
    <2> HIDE DEF A, T
    <2> QED BY <1>5, <1>6, ValidateFold
  <1> QED BY <1>7

(* init.  L: the transactions loaded so far. *)
Loaded(s, L, x) ==
  /\ x \in States /\ Same(s, x) /\ x.pool = s.pool /\ x.verdicts = s.verdicts /\ x.template = NoTemplate
  /\ L \subseteq DOMAIN s.pool /\ x.listed = L /\ x.weight = Cardinality(L)
  /\ x.broken = FALSE =>
       /\ \A k \in KeyImages : x.images[k] = {t \in L : k \in Range(Spends[t])}
       /\ \A t, u \in L : t # u /\ Range(Spends[t]) \cap Range(Spends[u]) # {} =>
                            s.pool[t].relay = "block" \/ s.pool[u].relay = "block"
  /\ Loose(s.pool) => x.broken = FALSE

LEMMA LoadOneIs ==
  ASSUME NEW s, NEW L, NEW x, Loaded(s, L, x), NEW t \in DOMAIN s.pool, t \notin L,
         s.pool[t].relay = "block" \/ \A u \in L : s.pool[u].relay # "block",
         NEW kept, kept = Kept(s, t)
  PROVE  Loaded(s, L \cup {t}, LoadOne(x, t, kept))
  <1>1. /\ x \in States /\ Same(s, x) /\ x.pool = s.pool /\ x.verdicts = s.verdicts /\ x.template = NoTemplate
        /\ L \subseteq DOMAIN s.pool /\ x.listed = L /\ x.weight = Cardinality(L)
        /\ Loose(s.pool) => x.broken = FALSE
    BY DEF Loaded
  <1>2. PICK relay : relay = s.pool[t].relay
    OBVIOUS
  <1>3. s.pool \in Pools
    BY <1>1, StateIs
  <1>4. t \in Txs /\ L \subseteq Txs /\ IsFiniteSet(L)
    <2>1. DOMAIN s.pool \subseteq Txs /\ IsFiniteSet(DOMAIN s.pool)
      BY <1>3, PoolIs
    <2>2. IsFiniteSet(L)
      BY <1>1, <2>1, FS_Subset
    <2> QED BY <1>1, <2>1, <2>2
  <1>5. PICK i : i = insert_key_images(x, t, relay)
    OBVIOUS
  <1>6. /\ i.s \in States /\ Same(x, i.s) /\ i.s.pool = x.pool /\ i.s.listed = x.listed
        /\ i.s.weight = x.weight /\ i.s.verdicts = x.verdicts
        /\ i.ok \in BOOLEAN /\ (i.ok <=> \A k \in Range(Spends[t]) : Insertable(x, t, relay, k))
        /\ i.ok => /\ i.s.broken = x.broken /\ i.s.template = NoTemplate
                   /\ \A k \in KeyImages : i.s.images[k] = IF k \in Range(Spends[t]) THEN x.images[k] \cup {t} ELSE x.images[k]
        /\ ~ i.ok => i.s.broken = TRUE /\ i.s.template = x.template
    <2>1. Inserted(x, t, relay, i)
      BY <1>1, <1>4, <1>5, InsertIs
    <2> QED BY <2>1 DEF Inserted
  <1>7. PICK y : y = LoadOne(x, t, kept)
    OBVIOUS
  <1>8. y = [i.s EXCEPT !.listed = i.s.listed \cup {t}, !.weight = i.s.weight + 1]
    <2>1. InPool(x, t) /\ (Kept(x, t) = kept) /\ relay = x.pool[t].relay
      BY <1>1, <1>2 DEF InPool, Kept
    <2> QED BY <1>5, <1>7, <2>1 DEF LoadOne
  <1>9. Cardinality(L) \in Nat /\ Cardinality(L) + 1 \in Nat /\ Cardinality(L \cup {t}) = Cardinality(L) + 1
    <2>1. Cardinality(L) \in Nat /\ Cardinality(L \cup {t}) = Cardinality(L) + 1
      BY <1>4, FS_CardinalityType, FS_AddElement
    <2> QED BY SMTT(30), <2>1
  <1>10. L \cup {t} \in SUBSET Txs
    BY <1>4
  <1>11. /\ y \in States /\ Same(i.s, y) /\ y.template = i.s.template /\ y.pool = i.s.pool
         /\ y.images = i.s.images /\ y.listed = L \cup {t} /\ y.weight = Cardinality(L \cup {t})
         /\ y.verdicts = i.s.verdicts /\ y.broken = i.s.broken
    <2>1. y = [i.s EXCEPT !.listed = L \cup {t}, !.weight = Cardinality(L) + 1]
      BY <1>1, <1>6, <1>8
    <2> QED BY <1>6, <1>9, <1>10, <2>1 DEF States, Same
  <1>12. /\ Same(s, y) /\ y.pool = s.pool /\ y.verdicts = s.verdicts /\ y.template = NoTemplate
         /\ L \cup {t} \subseteq DOMAIN s.pool
    BY <1>1, <1>6, <1>11 DEF Same
  <1>13. ASSUME y.broken = FALSE
         PROVE  /\ \A k \in KeyImages : y.images[k] = {u \in L \cup {t} : k \in Range(Spends[u])}
                /\ \A v, u \in L \cup {t} : v # u /\ Range(Spends[v]) \cap Range(Spends[u]) # {} =>
                                              s.pool[v].relay = "block" \/ s.pool[u].relay = "block"
    <2>1. i.ok /\ x.broken = FALSE
      BY <1>6, <1>11, <1>13
    <2>2. /\ \A k \in KeyImages : x.images[k] = {u \in L : k \in Range(Spends[u])}
          /\ \A v, u \in L : v # u /\ Range(Spends[v]) \cap Range(Spends[u]) # {} =>
                               s.pool[v].relay = "block" \/ s.pool[u].relay = "block"
      BY <2>1 DEF Loaded
    <2>3. ASSUME NEW k \in KeyImages PROVE y.images[k] = {u \in L \cup {t} : k \in Range(Spends[u])}
      <3>1. y.images[k] = IF k \in Range(Spends[t]) THEN x.images[k] \cup {t} ELSE x.images[k]
        BY <1>6, <1>11, <2>1
      <3>2. x.images[k] = {u \in L : k \in Range(Spends[u])}
        BY <2>2
      <3> QED BY <3>1, <3>2
    <2>4. ASSUME NEW u \in L, Range(Spends[t]) \cap Range(Spends[u]) # {} PROVE relay = "block"
      <3> SUFFICES ASSUME relay # "block" PROVE FALSE
        OBVIOUS
      <3>1. PICK k \in Range(Spends[t]) : k \in Range(Spends[u])
        BY <2>4
      <3>2. k \in KeyImages
        BY <1>4, <3>1, SpendsIs
      <3>3. u \in x.images[k]
        <4>1. x.images[k] = {v \in L : k \in Range(Spends[v])}
          BY <2>2, <3>2
        <4> QED BY <3>1, <4>1
      <3>4. x.images[k] \subseteq {t}
        BY <1>6, <2>1, <3>1 DEF Insertable
      <3> QED BY <3>3, <3>4
    <2>5. \A u \in L : Range(Spends[u]) \cap Range(Spends[t]) = Range(Spends[t]) \cap Range(Spends[u])
      OBVIOUS
    <2> QED BY <1>2, <2>2, <2>3, <2>4, <2>5
  <1>14. ASSUME Loose(s.pool) PROVE y.broken = FALSE
    <2>1. x.broken = FALSE
      BY <1>1, <1>14
    <2>2. \A k \in KeyImages : x.images[k] = {u \in L : k \in Range(Spends[u])}
      BY <2>1 DEF Loaded
    <2>3. ASSUME NEW k \in Range(Spends[t]) PROVE Insertable(x, t, relay, k)
      <3>1. k \in KeyImages
        BY <1>4, SpendsIs
      <3>2. x.images[k] = {u \in L : k \in Range(Spends[u])}
        BY <2>2, <3>1
      <3>3. t \notin x.images[k]
        BY <3>2
      <3>4. ASSUME relay # "block", NEW u \in x.images[k] PROVE FALSE
        <4>1. u \in L /\ k \in Range(Spends[u]) /\ u \in DOMAIN s.pool /\ u # t
          BY <1>1, <3>2, <3>4
        <4>2. s.pool[u].relay # "block" /\ s.pool[t].relay # "block"
          BY <1>2, <3>4, <4>1
        <4>3. Range(Spends[t]) \cap Range(Spends[u]) # {}
          BY <4>1
        <4> QED BY <1>14, <4>1, <4>2, <4>3 DEF Loose
      <3> QED BY <3>3, <3>4 DEF Insertable
    <2> QED BY <1>6, <1>11, <2>1, <2>3
  <1> QED BY <1>7, <1>11, <1>12, <1>13, <1>14 DEF Loaded

(* The transactions of pool p that are loaded after i rounds of a pass. *)
Reached(t, i) == \E j \in 1 .. i : HashOrder[j] = t
Passed(p, kept, i) ==
  {t \in DOMAIN p : IF p[t].relay = "block" THEN kept /\ Reached(t, i) ELSE kept \/ Reached(t, i)}

(* The loop of a pass. *)
LoadRounds(kept, T) ==
  \A i \in 1 .. Len(HashOrder) : \A x \in T[i - 1] : LoadOne(x, HashOrder[i], kept) \in T[i]

LEMMA LoadFold ==
  ASSUME NEW s, NEW kept, NEW T, s \in T[0], LoadRounds(kept, T)
  PROVE  Load(s, kept) \in T[Len(HashOrder)]
  <1> DEFINE n == Len(HashOrder)
             round(i, x) == LoadOne(x, HashOrder[i], kept)
             g == [i \in 1 .. n |-> [x \in T[i - 1] |-> round(i, x)]]
             body(f) == [i \in 0 .. n |-> IF i = 0 THEN s ELSE round(i, f[i - 1])]
             up == CHOOSE f : f = body(f)
  <1>1. n \in Nat /\ n \in 0 .. n /\ 0 \in 0 .. n
    BY SMTT(30), TxAssumption
  <1>2. \A i \in 1 .. n : \A x \in T[i - 1] : g[i][x] = round(i, x) /\ round(i, x) \in T[i]
    BY DEF LoadRounds
  <1>3. PICK f : IsFold(f, s, g, T, n)
    <2> HIDE DEF g, n, round
    <2>1. \A i \in 1 .. n : \A x \in T[i - 1] : g[i][x] \in T[i]
      BY <1>2
    <2> QED BY <1>1, <2>1, FoldExists
  <1>4. f = body(f)
    <2> HIDE DEF g, n, round
    <2>1. \A i \in 0 .. n : i = 0 \/ (i \in 1 .. n /\ i - 1 \in 0 .. n)
      BY SMTT(30), <1>1
    <2> QED BY <1>1, <1>2, <1>3, <2>1 DEF IsFold
  <1>5. up = body(up)
    <2> HIDE DEF body
    <2> QED BY <1>4
  <1>6. Load(s, kept) = up[n]
    BY DEF Load
  <1> HIDE DEF up
  <1>7. \A i \in 0 .. n : up[i] = IF i = 0 THEN s ELSE round(i, up[i - 1])
    <2> HIDE DEF n, round
    <2> QED BY <1>5
  <1>8. \A i \in 0 .. n : up[i] \in T[i]
    <2> HIDE DEF g, n, round
    <2>1. \A i \in 1 .. n : i \in 0 .. n /\ i # 0
      BY SMTT(30), <1>1
    <2>2. \A i \in 1 .. n : up[i - 1] \in T[i - 1] => up[i] \in T[i]
      BY <1>2, <1>7, <2>1
    <2>3. up[0] \in T[0]
      BY <1>1, <1>7
    <2> QED BY <1>1, <2>2, <2>3, InEach
  <1> QED BY <1>1, <1>6, <1>8

LEMMA PassOn ==
  ASSUME NEW s, s.pool \in Pools, NEW kept \in BOOLEAN, NEW i \in 1 .. Len(HashOrder),
         NEW x, Loaded(s, Passed(s.pool, kept, i - 1), x)
  PROVE  Loaded(s, Passed(s.pool, kept, i), LoadOne(x, HashOrder[i], kept))
  <1>1. PICK t : t = HashOrder[i]
    OBVIOUS
  <1>2. /\ \A j \in 1 .. i : j = i \/ j \in 1 .. i - 1
        /\ \A j \in 1 .. i - 1 : j \in 1 .. i /\ j # i
        /\ i \in 1 .. i /\ i \in DOMAIN HashOrder /\ \A j \in 1 .. i - 1 : j \in DOMAIN HashOrder
    BY SMTT(30), TxAssumption
  <1>3. ~ Reached(t, i - 1)
    <2>1. Once(HashOrder)
      BY TxAssumption
    <2> QED BY <1>1, <1>2, <2>1 DEF Reached, Once
  <1>4. \A u : Reached(u, i) <=> u = t \/ Reached(u, i - 1)
    BY <1>1, <1>2 DEF Reached
  <1>5. PICK L : L = Passed(s.pool, kept, i - 1)
    OBVIOUS
  <1>6. x.pool = s.pool
    BY DEF Loaded
  <1>7. CASE t \in DOMAIN s.pool /\ (Kept(s, t) <=> kept)
    <2>1. s.pool[t].relay = "block" <=> kept
      BY <1>7 DEF Kept
    <2>2. t \notin L
      BY <1>3, <1>5, <2>1 DEF Passed
    <2>3. Passed(s.pool, kept, i) = L \cup {t}
      BY <1>4, <1>5, <1>7, <2>1 DEF Passed
    <2>4. s.pool[t].relay = "block" \/ \A u \in L : s.pool[u].relay # "block"
      BY <1>5, <2>1 DEF Passed
    <2>5. kept = Kept(s, t)
      BY <1>7 DEF Kept
    <2>6. Loaded(s, L \cup {t}, LoadOne(x, t, kept))
      BY <1>5, <1>7, <2>2, <2>4, <2>5, LoadOneIs
    <2> QED BY <1>1, <2>3, <2>6
  <1>8. CASE ~(t \in DOMAIN s.pool /\ (Kept(s, t) <=> kept))
    <2>1. Passed(s.pool, kept, i) = L
      BY <1>4, <1>5, <1>8 DEF Passed, Kept
    <2>2. LoadOne(x, t, kept) = x
      BY <1>6, <1>8 DEF LoadOne, InPool, Kept
    <2> QED BY <1>1, <1>5, <2>1, <2>2
  <1> QED BY <1>7, <1>8

LEMMA PassIs ==
  ASSUME NEW s, s.pool \in Pools, NEW kept \in BOOLEAN, NEW x, Loaded(s, Passed(s.pool, kept, 0), x)
  PROVE  Loaded(s, Passed(s.pool, kept, Len(HashOrder)), Load(x, kept))
  <1>1. PICK n : n = Len(HashOrder)
    OBVIOUS
  <1>2. n \in Nat /\ n \in 0 .. n /\ 0 \in 0 .. n
    BY SMTT(30), <1>1, TxAssumption
  <1> DEFINE At(i) == {y \in States : Loaded(s, Passed(s.pool, kept, i), y)}
             T == [i \in 0 .. n |-> At(i)]
  <1>3. x \in At(0)
    BY DEF Loaded
  <1>4. ASSUME NEW i \in 1 .. n, NEW y \in At(i - 1) PROVE LoadOne(y, HashOrder[i], kept) \in At(i)
    <2>1. Loaded(s, Passed(s.pool, kept, i), LoadOne(y, HashOrder[i], kept))
      BY <1>1, PassOn
    <2> QED BY <2>1 DEF Loaded
  <1>5. \A i \in 1 .. n : i \in 0 .. n /\ i - 1 \in 0 .. n
    BY SMTT(30), <1>2
  <1>6. x \in T[0] /\ T[n] = At(n) /\ \A i \in 1 .. n : T[i - 1] = At(i - 1) /\ T[i] = At(i)
    <2> HIDE DEF At
    <2> QED BY <1>2, <1>3, <1>5
  <1>7. LoadRounds(kept, T)
    <2> HIDE DEF At, T
    <2> QED BY <1>1, <1>4, <1>6 DEF LoadRounds
  <1>8. Load(x, kept) \in At(n)
    <2> HIDE DEF At, T
    <2>1. Load(x, kept) \in T[Len(HashOrder)]
      BY <1>6, <1>7, LoadFold
    <2> QED BY <1>1, <1>6, <2>1
  <1> QED BY <1>1, <1>8

(* The pool loads when no two loose transactions spend the same key image, *)
(* and a pool that loads has the right indexes.                            *)
LEMMA InitIs ==
  ASSUME NEW s \in States, s.broken = FALSE, s.template = NoTemplate, NEW r, r = init(s)
  PROVE  /\ r \in States /\ r.main = s.main /\ r.alt = s.alt /\ r.pool = s.pool /\ r.invalid = s.invalid
         /\ r.verdicts = EmptyMap /\ r.template = NoTemplate
         /\ r.broken = FALSE => Indexed(r)
         /\ Loose(s.pool) => r.broken = FALSE
  <1>1. PICK e : e = Emptied(s)
    OBVIOUS
  <1>2. /\ e \in States /\ e.main = s.main /\ e.alt = s.alt /\ e.pool = s.pool /\ e.invalid = s.invalid
        /\ e.images = [k \in KeyImages |-> {}] /\ e.listed = {} /\ e.weight = 0
        /\ e.verdicts = EmptyMap /\ e.timedOut = {} /\ e.template = NoTemplate /\ e.broken = FALSE
    <2>1. [k \in KeyImages |-> {}] \in [KeyImages -> SUBSET Txs] /\ {} \in SUBSET Txs
      OBVIOUS
    <2>2. 0 \in Nat
      BY SMTT(30)
    <2> QED BY <1>1, <2>1, <2>2, EmptyIs DEF Emptied, States
  <1>3. s.pool \in Pools /\ e.pool \in Pools
    BY <1>2, StateIs
  <1>4. PICK p : p = e.pool
    OBVIOUS
  <1>5. \A t : ~ Reached(t, 0)
    <2>1. \A j \in 1 .. 0 : FALSE
      BY SMTT(30)
    <2> QED BY <2>1 DEF Reached
  <1>6. DOMAIN p \subseteq Txs /\ \A t \in Txs : Reached(t, Len(HashOrder))
    <2>1. DOMAIN p \subseteq Txs
      BY <1>3, <1>4, PoolIs
    <2>2. DOMAIN HashOrder = 1 .. Len(HashOrder)
      BY SMTT(30), TxAssumption
    <2>3. \A t \in Txs : t \in Range(HashOrder)
      BY TxAssumption
    <2> QED BY <2>1, <2>2, <2>3 DEF Reached, Range
  <1>7. Passed(p, FALSE, 0) = {} /\ Passed(p, TRUE, Len(HashOrder)) = DOMAIN p
        /\ Passed(p, FALSE, Len(HashOrder)) = Passed(p, TRUE, 0)
    BY <1>5, <1>6 DEF Passed
  <1>8. Loaded(e, {}, e)
    <2>1. Cardinality({}) = 0
      BY FS_EmptySet
    <2>2. \A k \in KeyImages : e.images[k] = {t \in {} : k \in Range(Spends[t])}
      BY <1>2
    <2> QED BY <1>2, <2>1, <2>2 DEF Loaded, Same
  <1>9. PICK a : a = Load(e, FALSE)
    OBVIOUS
  <1>10. Loaded(e, Passed(p, TRUE, 0), a)
    <2>1. Loaded(e, Passed(e.pool, FALSE, 0), e)
      BY <1>4, <1>7, <1>8
    <2>2. Loaded(e, Passed(e.pool, FALSE, Len(HashOrder)), Load(e, FALSE))
      BY <1>3, <2>1, PassIs
    <2> QED BY <1>4, <1>7, <1>9, <2>2
  <1>11. r = Load(a, TRUE)
    BY <1>1, <1>9 DEF init
  <1>12. Loaded(e, DOMAIN p, r)
    <2>1. Loaded(e, Passed(e.pool, TRUE, 0), a)
      BY <1>4, <1>10
    <2>2. Loaded(e, Passed(e.pool, TRUE, Len(HashOrder)), Load(a, TRUE))
      BY <1>3, <2>1, PassIs
    <2> QED BY <1>4, <1>7, <1>11, <2>2
  <1>13. /\ r \in States /\ Same(e, r) /\ r.pool = e.pool /\ r.verdicts = e.verdicts /\ r.template = NoTemplate
         /\ r.listed = DOMAIN p /\ r.weight = Cardinality(DOMAIN p)
         /\ r.broken = FALSE =>
              /\ \A k \in KeyImages : r.images[k] = {t \in DOMAIN p : k \in Range(Spends[t])}
              /\ \A t, u \in DOMAIN p : t # u /\ Range(Spends[t]) \cap Range(Spends[u]) # {} =>
                                          e.pool[t].relay = "block" \/ e.pool[u].relay = "block"
         /\ Loose(e.pool) => r.broken = FALSE
    BY <1>12 DEF Loaded
  <1>14. Cardinality(DOMAIN p) <= Cardinality(DOMAIN p)
    <2>1. Cardinality(DOMAIN p) \in Nat
      <3>1. IsFiniteSet(DOMAIN p)
        BY <1>3, <1>4, PoolIs
      <3> QED BY <3>1, FS_CardinalityType
    <2> QED BY SMTT(30), <2>1
  <1>15. r.broken = FALSE => Indexed(r)
    <2> SUFFICES ASSUME r.broken = FALSE PROVE Indexed(r)
      OBVIOUS
    <2>1. r.pool = p /\ r.listed = DOMAIN p /\ Cardinality(DOMAIN p) <= r.weight
      BY <1>4, <1>13, <1>14
    <2>2. \A k \in KeyImages : r.images[k] = Spenders(p, k)
      BY <1>13 DEF Spenders
    <2>3. Loose(p)
      BY <1>4, <1>13 DEF Loose
    <2> QED BY <2>1, <2>2, <2>3 DEF Indexed, Indexes
  <1> QED BY <1>2, <1>13, <1>15 DEF Same

-----------------------------------------------------------------------------
(* The inductive invariant.  The indexes are those of the pool unless a    *)
(* batch was aborted, and no alternative is above the tip unless blocks    *)
(* were popped by command.                                                 *)
IInv ==
  /\ Sound(State) /\ Beside(State) /\ aborted \in Nat /\ popped \in BOOLEAN
  /\ popped = FALSE => Low(State)
  /\ aborted = 0 => Indexed(State)

(* States that differ in nothing the invariant is about. *)
Alike(s, r) ==
  /\ r \in States /\ r.main = s.main /\ r.alt = s.alt /\ r.pool = s.pool /\ r.images = s.images
  /\ r.listed = s.listed /\ r.weight = s.weight /\ r.verdicts = s.verdicts
  /\ r.template = s.template /\ r.broken = s.broken

LEMMA AlikeIs ==
  ASSUME NEW s, NEW r, Alike(s, r)
  PROVE  /\ Sound(s) => Sound(r)
         /\ Beside(s) => Beside(r)
         /\ Low(s) => Low(r)
         /\ Indexed(s) => Indexed(r)
  <1>1. /\ r \in States /\ r.main = s.main /\ r.alt = s.alt /\ r.pool = s.pool /\ r.images = s.images
        /\ r.listed = s.listed /\ r.weight = s.weight /\ r.verdicts = s.verdicts
        /\ r.template = s.template /\ r.broken = s.broken
    BY DEF Alike
  <1>2. Tip(r) = Tip(s)
    BY <1>1 DEF Tip
  <1>3. (Stored(s) => Stored(r)) /\ (CacheRight(s) => CacheRight(r)) /\ (TemplateRight(s) => TemplateRight(r))
    <2>1. Stored(s) => Stored(r)
      BY <1>1, <1>2 DEF Stored
    <2>2. CacheRight(s) => CacheRight(r)
      BY <1>1 DEF CacheRight
    <2>3. TemplateRight(s) => TemplateRight(r)
      BY <1>1, <1>2 DEF TemplateRight
    <2> QED BY <2>1, <2>2, <2>3
  <1>4. (Beside(s) => Beside(r)) /\ (Low(s) => Low(r))
    BY <1>1, <1>2 DEF Beside, Low
  <1>5. Indexed(s) => Indexed(r)
    BY <1>1, IndexedLike
  <1> QED BY <1>3, <1>4, <1>5 DEF Sound

LEMMA BecomesIs ==
  ASSUME NEW r \in States, Becomes(r)
  PROVE  Alike(r, State')
  <1>1. PICK n : n = State'
    OBVIOUS
  <1>2. n = [main |-> r.main, alt |-> r.alt, pool |-> r.pool, invalid |-> r.invalid,
             images |-> r.images, listed |-> r.listed, weight |-> r.weight, verdicts |-> r.verdicts,
             timedOut |-> r.timedOut, template |-> r.template, broken |-> r.broken, batchOK |-> TRUE]
    BY <1>1 DEF State, Becomes
  <1>3. n \in States
    BY <1>2 DEF States
  <1>4. /\ n.main = r.main /\ n.alt = r.alt /\ n.pool = r.pool /\ n.images = r.images
        /\ n.listed = r.listed /\ n.weight = r.weight /\ n.verdicts = r.verdicts
        /\ n.template = r.template /\ n.broken = r.broken
    BY <1>2
  <1>5. Alike(r, n)
    BY <1>3, <1>4 DEF Alike
  <1> QED BY <1>1, <1>5

LEMMA StepIs ==
  ASSUME NEW r, Becomes(r), Sound(r), Beside(r), aborted' \in Nat, popped' \in BOOLEAN,
         popped' = FALSE => Low(r), aborted' = 0 => Indexed(r)
  PROVE  IInv'
  <1>1. r \in States
    BY DEF Sound, Stored
  <1>2. PICK n : n = State'
    OBVIOUS
  <1>3. Alike(r, n)
    BY <1>1, <1>2, BecomesIs
  <1>4. Sound(n) /\ Beside(n) /\ (popped' = FALSE => Low(n)) /\ (aborted' = 0 => Indexed(n))
    BY <1>3, AlikeIs
  <1> QED BY <1>2, <1>4 DEF IInv

LEMMA InvIs ==
  ASSUME IInv
  PROVE  /\ State \in States /\ Sound(State) /\ Stored(State) /\ CacheRight(State) /\ TemplateRight(State)
         /\ Beside(State) /\ aborted \in Nat /\ popped \in BOOLEAN
         /\ popped = FALSE => Low(State)
         /\ aborted = 0 => Indexed(State)
  BY DEF IInv, Sound, Stored

LEMMA FieldsAre ==
  /\ State.main = main /\ State.alt = alt /\ State.pool = pool /\ State.images = images
  /\ State.listed = listed /\ State.weight = weight /\ State.verdicts = verdicts
  /\ State.timedOut = timedOut /\ State.template = template /\ State.broken = broken
  BY DEF State

LEMMA OlderIs ==
  ASSUME aborted \in Nat
  PROVE  Older \in Nat /\ Older + 1 \in Nat /\ Older + 1 # 0 /\ (Older = 0 => aborted = 0)
  BY SMTT(30) DEF Older

LEMMA InitIInv == Init => IInv
  <1> SUFFICES ASSUME Init PROVE IInv
    OBVIOUS
  <1>1. PICK s : s = State
    OBVIOUS
  <1>2. /\ s.main = <<GENESIS>> /\ s.alt = {} /\ s.pool = EmptyMap /\ s.invalid = {}
        /\ s.images = [k \in KeyImages |-> {}] /\ s.listed = {} /\ s.weight = 0
        /\ s.verdicts = EmptyMap /\ s.timedOut = {} /\ s.template = NoTemplate /\ s.broken = FALSE
        /\ s.batchOK = TRUE
    BY <1>1 DEF State, Init
  <1>3. EmptyMap \in Pools /\ EmptyMap \in Caches /\ DOMAIN EmptyMap = {}
    <2>1. EmptyMap \in Caches /\ DOMAIN EmptyMap = {}
      BY EmptyIs
    <2>2. EmptyMap \in [{} -> Metas]
      BY DEF EmptyMap
    <2>3. {} \subseteq Txs
      OBVIOUS
    <2> QED BY <2>1, <2>2, <2>3, PoolMade
  <1>4. <<GENESIS>> \in Seq(Blocks) /\ Len(<<GENESIS>>) = 1 /\ <<GENESIS>>[1] = GENESIS /\ 0 \in Nat
    BY SMTT(30), BlocksAssumption
  <1>5. s \in States
    <2>1. s = [main |-> <<GENESIS>>, alt |-> {}, pool |-> EmptyMap, invalid |-> {},
               images |-> [k \in KeyImages |-> {}], listed |-> {}, weight |-> 0, verdicts |-> EmptyMap,
               timedOut |-> {}, template |-> NoTemplate, broken |-> FALSE, batchOK |-> TRUE]
      BY <1>1 DEF State, Init
    <2>2. [k \in KeyImages |-> {}] \in [KeyImages -> SUBSET Txs]
      OBVIOUS
    <2> QED BY <1>3, <1>4, <2>1, <2>2, NoTemplateType DEF States
  <1>6. Tip(s) = GENESIS /\ s.main = ChainTo[GENESIS]
    BY <1>2, <1>4, ChainGenesis DEF Tip
  <1>7. Stored(s)
    BY <1>2, <1>3, <1>5, <1>6, GoodGenesis DEF Stored
  <1>8. CacheRight(s) /\ TemplateRight(s)
    BY <1>2, <1>3, <1>7, NoTemplateRight DEF CacheRight
  <1>9. Beside(s) /\ Low(s)
    BY <1>2 DEF Beside, Low
  <1>10. Indexed(s)
    <2>1. Cardinality({}) <= 0
      <3>1. Cardinality({}) = 0
        BY FS_EmptySet
      <3> QED BY SMTT(30), <3>1
    <2>2. \A k \in KeyImages : Spenders(EmptyMap, k) = {}
      BY <1>3 DEF Spenders
    <2> QED BY <1>2, <1>3, <2>1, <2>2 DEF Indexed, Indexes, Loose
  <1>11. aborted = 0 /\ aborted \in Nat /\ popped \in BOOLEAN
    BY <1>4 DEF Init
  <1> QED BY <1>1, <1>7, <1>8, <1>9, <1>10, <1>11 DEF IInv, Sound

LEMMA DeliveryIs ==
  ASSUME NEW d \in Deliveries
  PROVE  d.blocks \in Seq(Blocks)
  <1>1. \A b \in Blocks : <<b>> \in Seq(Blocks)
    BY SMTT(30)
  <1>2. \A b, c \in Blocks : <<b, c>> \in Seq(Blocks)
    BY SMTT(30)
  <1>3. \A c \in Blocks : Height(c) > 1 => Prev(c) \in Blocks
    <2>1. \A c \in Blocks : Height(c) > 1 => c # GENESIS
      BY SMTT(30), BlocksAssumption
    <2> QED BY <2>1, BlocksAssumption
  <1>4. \/ \E b \in Blocks : d.blocks = <<b>>
        \/ \E c \in Blocks : Height(c) > 1 /\ d.blocks = <<Prev(c), c>>
    BY SMTT(30) DEF Deliveries
  <1> QED BY <1>1, <1>2, <1>3, <1>4

(* A batch: the chain stays or gets more work, and one that is aborted     *)
(* takes back what is stored.                                              *)
Heavier == main' = main \/ Work(main'[Len(main')]) > Work(main[Len(main)])

LEMMA ReceiveBlocksIs ==
  ASSUME IInv, ReceiveBlocks
  PROVE  IInv' /\ Heavier
  <1>1. PICK d \in Deliveries : CleanUp(AddAll(State, d))
    BY DEF ReceiveBlocks
  <1>2. PICK s : s = State
    OBVIOUS
  <1>3. /\ s \in States /\ Sound(s) /\ Stored(s) /\ CacheRight(s) /\ TemplateRight(s)
        /\ Beside(s) /\ aborted \in Nat /\ popped \in BOOLEAN
        /\ popped = FALSE => Low(s)
        /\ aborted = 0 => Indexed(s)
        /\ s.main = main /\ s.alt = alt /\ s.pool = pool
    BY <1>2, InvIs, FieldsAre
  <1>4. PICK r : r = AddAll(s, d)
    OBVIOUS
  <1>5. Adds(s, r)
    BY <1>3, <1>4, DeliveryIs, AddAllIs
  <1>6. /\ Goes(s, r) /\ Beside(r) /\ (Low(s) => Low(r))
        /\ r.main = s.main \/ Work(Tip(r)) > Work(Tip(s))
    BY <1>5 DEF Adds
  <1>7. /\ Sound(r) /\ r \in States
        /\ r.verdicts = s.verdicts \/ r.verdicts = EmptyMap
        /\ r.template = s.template \/ r.template = NoTemplate
        /\ Indexed(s) => Indexed(r)
    BY <1>6 DEF Goes, Sound, Stored
  <1>8. popped' = popped
    BY DEF ReceiveBlocks
  <1>9. Older \in Nat /\ Older + 1 \in Nat /\ Older + 1 # 0 /\ (Older = 0 => aborted = 0)
    BY <1>3, OlderIs
  <1>10. CASE r.batchOK
    <2>1. Becomes(r) /\ aborted' = Older
      BY <1>1, <1>2, <1>4, <1>10 DEF CleanUp
    <2>2. IInv'
      BY <1>3, <1>6, <1>7, <1>8, <1>9, <2>1, StepIs
    <2> QED BY <1>3, <1>6, <2>1, <2>2 DEF Becomes, Heavier, Tip
  <1>11. CASE ~ r.batchOK
    <2>1. PICK q : q = [r EXCEPT !.main = main, !.alt = alt, !.pool = pool]
      OBVIOUS
    <2>2. Becomes(q) /\ aborted' = Older + 1
      BY <1>1, <1>2, <1>4, <1>11, <2>1 DEF CleanUp
    <2>3. /\ q \in States /\ q.main = s.main /\ q.alt = s.alt /\ q.pool = s.pool
          /\ q.verdicts = r.verdicts /\ q.template = r.template
      BY <1>3, <1>7, <2>1 DEF States
    <2>4. Tip(q) = Tip(s)
      BY <2>3 DEF Tip
    <2>5. Stored(q)
      BY <1>3, <2>3, <2>4 DEF Stored
    <2>6. CacheRight(q)
      BY <1>3, <1>7, <2>3, EmptyIs DEF CacheRight
    <2>7. TemplateRight(q)
      <3>1. CASE q.template = NoTemplate
        BY <2>5, <3>1, NoTemplateRight
      <3>2. CASE q.template = s.template
        BY <1>3, <2>3, <2>4, <3>2 DEF TemplateRight
      <3> QED BY <1>7, <2>3, <3>1, <3>2
    <2>8. Beside(q) /\ (Low(s) => Low(q)) /\ Sound(q)
      BY <1>3, <2>3, <2>4, <2>5, <2>6, <2>7 DEF Beside, Low, Sound
    <2>9. IInv'
      BY <1>3, <1>8, <1>9, <2>2, <2>8, StepIs
    <2> QED BY <1>3, <2>2, <2>3, <2>9 DEF Becomes, Heavier
  <1> QED BY <1>10, <1>11

(* The other steps leave the chain alone or only shorten it. *)
LEMMA ReceiveTxIs ==
  ASSUME IInv, ReceiveTx
  PROVE  IInv' /\ main' = main
  <1>1. PICK s : s = State
    OBVIOUS
  <1>2. PICK t \in Txs, relay \in {"stem", "fluff"} :
          ~ Legacy(s, t) /\ t \notin Mined(main) /\ Becomes(add_tx(s, t, relay).s)
    BY <1>1 DEF ReceiveTx
  <1>3. /\ s \in States /\ Stored(s) /\ CacheRight(s) /\ TemplateRight(s)
        /\ Beside(s) /\ aborted \in Nat /\ popped \in BOOLEAN
        /\ popped = FALSE => Low(s)
        /\ aborted = 0 => Indexed(s)
        /\ s.main = main
    BY <1>1, InvIs, FieldsAre
  <1>4. relay \in Relays
    BY <1>2 DEF Relays
  <1>5. PICK a : a = add_tx(s, t, relay)
    OBVIOUS
  <1>6. /\ Stored(a.s) /\ CacheRight(a.s) /\ Same(s, a.s)
        /\ a.s.template = NoTemplate \/ (a.s.template = s.template /\ a.s.pool = s.pool)
        /\ Indexed(s) => Indexed(a.s)
    <2>1. Offers(s, t, relay, a)
      BY <1>2, <1>3, <1>4, <1>5, OfferIs
    <2> QED BY <2>1 DEF Offers
  <1>7. PICK r : r = a.s
    OBVIOUS
  <1>8. r.main = s.main /\ r.alt = s.alt /\ Tip(r) = Tip(s)
    BY <1>6, <1>7 DEF Same, Tip
  <1>9. TemplateRight(r)
    <2>1. CASE r.template = NoTemplate
      BY <1>6, <1>7, <2>1, NoTemplateRight
    <2>2. CASE r.template = s.template /\ r.pool = s.pool
      BY <1>3, <1>8, <2>2 DEF TemplateRight
    <2> QED BY <1>6, <1>7, <2>1, <2>2
  <1>10. Sound(r) /\ Beside(r) /\ (Low(s) => Low(r))
    BY <1>3, <1>6, <1>7, <1>8, <1>9 DEF Sound, Beside, Low
  <1>11. Becomes(r) /\ popped' = popped /\ aborted' = Older
    BY <1>2, <1>5, <1>7 DEF ReceiveTx, Aged
  <1>12. IInv'
    BY <1>3, <1>6, <1>7, <1>10, <1>11, OlderIs, StepIs
  <1> QED BY <1>3, <1>8, <1>11, <1>12 DEF Becomes

LEMMA SetRelayedIs ==
  ASSUME IInv, SetRelayed
  PROVE  IInv' /\ main' = main
  <1>1. PICK s : s = State
    OBVIOUS
  <1>2. PICK t \in DOMAIN pool :
          /\ pool[t].relay = "stem"
          /\ Becomes([s EXCEPT !.pool = With(pool, t, [pool[t] EXCEPT !.relay = "fluff"]),
                               !.listed = listed \cup {t}])
    BY <1>1 DEF SetRelayed
  <1>3. /\ s \in States /\ Stored(s) /\ CacheRight(s) /\ TemplateRight(s)
        /\ Beside(s) /\ aborted \in Nat /\ popped \in BOOLEAN
        /\ popped = FALSE => Low(s)
        /\ aborted = 0 => Indexed(s)
        /\ s.main = main /\ s.pool = pool /\ s.listed = listed
    BY <1>1, InvIs, FieldsAre
  <1>4. s.pool \in Pools /\ t \in DOMAIN s.pool /\ s.listed \subseteq Txs
    BY <1>2, <1>3, StateIs
  <1>5. PICK m : m = [pool[t] EXCEPT !.relay = "fluff"]
    OBVIOUS
  <1>6. t \in Txs /\ s.pool[t] \in Metas
    BY <1>4, PoolIs
  <1>7. m \in Metas /\ m.relay = "fluff" /\ m.failed = s.pool[t].failed
    <2>1. "fluff" \in Relays
      BY DEF Relays
    <2> QED BY <1>3, <1>5, <1>6, <2>1 DEF Metas
  <1>8. PICK p : p = With(s.pool, t, m)
    OBVIOUS
  <1>9. /\ p \in Pools /\ DOMAIN p = DOMAIN s.pool /\ p[t] = m
        /\ \A u \in DOMAIN s.pool : u # t => p[u] = s.pool[u]
    <2>1. /\ p \in Pools /\ DOMAIN p = DOMAIN s.pool \cup {t} /\ p[t] = m
          /\ \A u \in DOMAIN s.pool : u # t => p[u] = s.pool[u]
      <3>1. s.pool \in Pools /\ t \in Txs /\ m \in Metas
        BY <1>4, <1>6, <1>7
      <3> QED BY <1>8, <3>1, WithIs
    <2> QED BY <1>4, <2>1
  <1>10. PICK r : r = [s EXCEPT !.pool = p, !.listed = s.listed \cup {t}]
    OBVIOUS
  <1>11. Becomes(r) /\ popped' = popped /\ aborted' = Older
    BY <1>2, <1>3, <1>5, <1>8, <1>10 DEF SetRelayed, Aged
  <1>12. /\ r \in States /\ r.main = s.main /\ r.alt = s.alt /\ r.pool = p /\ r.images = s.images
         /\ r.listed = s.listed \cup {t} /\ r.weight = s.weight /\ r.verdicts = s.verdicts
         /\ r.template = s.template /\ r.broken = s.broken
    <2>1. s.listed \cup {t} \in SUBSET Txs
      BY <1>4, <1>6
    <2> QED BY <1>3, <1>9, <1>10, <2>1 DEF States
  <1>13. Tip(r) = Tip(s)
    BY <1>12 DEF Tip
  <1>14. \A u \in DOMAIN p : p[u].failed = s.pool[u].failed
    BY <1>7, <1>9
  <1>15. Stored(r)
    BY <1>3, <1>9, <1>12, <1>13, <1>14 DEF Stored
  <1>16. CacheRight(r) /\ TemplateRight(r) /\ Beside(r) /\ (Low(s) => Low(r))
    <2>1. CacheRight(r)
      BY <1>3, <1>12 DEF CacheRight
    <2>2. TemplateRight(r)
      BY <1>3, <1>9, <1>12, <1>13 DEF TemplateRight
    <2> QED BY <1>3, <1>12, <1>13, <2>1, <2>2 DEF Beside, Low
  <1>17. Indexed(s) => Indexed(r)
    <2>1. ASSUME Indexed(s) PROVE r.listed = s.listed
      BY <1>4, <1>12, <2>1 DEF Indexed, Indexes
    <2>2. \A u \in DOMAIN s.pool : s.pool[u].relay = "block" => p[u].relay = "block"
      BY <1>2, <1>3, <1>9
    <2> QED BY <1>9, <1>12, <2>1, <2>2, IndexedLike
  <1>18. IInv'
    BY <1>3, <1>11, <1>15, <1>16, <1>17, OlderIs, StepIs DEF Sound
  <1> QED BY <1>3, <1>11, <1>12, <1>18 DEF Becomes

LEMMA RemoveStuckIs ==
  ASSUME IInv, RemoveStuck
  PROVE  IInv' /\ main' = main
  <1>1. PICK s : s = State
    OBVIOUS
  <1>2. /\ s \in States /\ Sound(s) /\ Stored(s)
        /\ Beside(s) /\ aborted \in Nat /\ popped \in BOOLEAN
        /\ popped = FALSE => Low(s)
        /\ aborted = 0 => Indexed(s)
        /\ s.main = main /\ s.pool = pool /\ s.timedOut = timedOut
    BY <1>1, InvIs, FieldsAre
  <1>3. PICK t \in DOMAIN s.pool : Becomes([RemoveTx(s, t) EXCEPT !.timedOut = timedOut \cup {t}])
    BY <1>1, <1>2 DEF RemoveStuck
  <1>4. PICK a : a = RemoveTx(s, t)
    OBVIOUS
  <1>5. Puts(s, a)
    BY <1>2, <1>4, TakeIs
  <1>6. Goes(s, a) /\ a.main = s.main /\ a.alt = s.alt
    BY <1>2, <1>5, PutsGoes DEF Puts, Same
  <1>7. Sound(a) /\ a \in States /\ (Indexed(s) => Indexed(a)) /\ Tip(a) = Tip(s)
    BY <1>6 DEF Goes, Sound, Stored, Tip
  <1>8. PICK r : r = [a EXCEPT !.timedOut = timedOut \cup {t}]
    OBVIOUS
  <1>9. timedOut \cup {t} \in SUBSET Txs
    <2>1. s.timedOut \subseteq Txs /\ s.pool \in Pools
      BY <1>2, StateIs
    <2>2. t \in Txs
      BY <2>1, PoolIs
    <2> QED BY <1>2, <2>1, <2>2
  <1>10. Alike(a, r)
    BY <1>7, <1>8, <1>9 DEF Alike, States
  <1>11. Beside(a) /\ (Low(s) => Low(a))
    BY <1>2, <1>6, <1>7 DEF Beside, Low
  <1>12. Sound(r) /\ Beside(r) /\ (Low(s) => Low(r)) /\ (Indexed(s) => Indexed(r))
    BY <1>7, <1>10, <1>11, AlikeIs
  <1>13. Becomes(r) /\ popped' = popped /\ aborted' = Older
    BY <1>3, <1>4, <1>8 DEF RemoveStuck, Aged
  <1>14. IInv'
    BY <1>2, <1>12, <1>13, OlderIs, StepIs
  <1> QED BY <1>2, <1>6, <1>10, <1>13, <1>14 DEF Becomes, Alike

LEMMA PopBlocksIs ==
  ASSUME IInv, pop_blocks
  PROVE  IInv'
  <1>1. PICK s : s = State
    OBVIOUS
  <1>2. /\ s \in States /\ Sound(s) /\ Stored(s)
        /\ Beside(s) /\ aborted \in Nat
        /\ aborted = 0 => Indexed(s)
        /\ s.main = main
    BY <1>1, InvIs, FieldsAre
  <1>3. PICK i \in 1 .. Len(main) - 1 : Becomes(PopTo(s, main[i]))
    BY <1>1 DEF pop_blocks
  <1>4. main[i] \in Range(s.main)
    <2>1. s.main \in Seq(Blocks)
      BY <1>2, StateIs
    <2>2. i \in DOMAIN s.main
      BY SMTT(30), <1>2, <2>1
    <2> QED BY <1>2, <2>2 DEF Range
  <1>5. PICK r : r = PopTo(s, main[i])
    OBVIOUS
  <1>6. Goes(s, r) /\ r.alt = s.alt /\ Tip(r) = main[i]
    BY <1>2, <1>4, <1>5, PopToIs
  <1>7. Sound(r) /\ (Indexed(s) => Indexed(r)) /\ r.main = ChainTo[main[i]]
    BY <1>6 DEF Goes, Sound, Stored
  <1>8. Beside(r)
    <2>1. Tip(s) \in Blocks /\ s.main = ChainTo[Tip(s)]
      BY <1>2 DEF Stored, GoodTip
    <2>2. Range(r.main) \subseteq Range(s.main)
      BY <1>4, <1>7, <2>1, ChainBelow
    <2> QED BY <1>2, <1>6, <2>2 DEF Beside
  <1>9. Becomes(r) /\ popped' = TRUE /\ aborted' = Older
    BY <1>3, <1>5 DEF pop_blocks, Aged
  <1> QED BY <1>2, <1>7, <1>8, <1>9, OlderIs, StepIs

LEMMA TemplateIs ==
  ASSUME IInv, create_block_template
  PROVE  IInv' /\ main' = main
  <1>1. PICK s : s = State
    OBVIOUS
  <1>2. /\ s \in States /\ Stored(s) /\ CacheRight(s)
        /\ Beside(s) /\ aborted \in Nat /\ popped \in BOOLEAN
        /\ popped = FALSE => Low(s)
        /\ aborted = 0 => Indexed(s)
        /\ s.main = main
    BY <1>1, InvIs, FieldsAre
  <1>3. PICK x : x = fill_block_template(s)
    OBVIOUS
  <1>4. Fills(s, x)
    BY <1>2, <1>3, FillIs
  <1>5. /\ x.s \in States /\ x.txs \in Seq(Txs) /\ Looks(s, x.s)
        /\ Range(x.txs) \subseteq DOMAIN s.pool
        /\ \A t \in Range(x.txs) : check_tx_inputs(s.main, t)
        /\ \A t, u \in Range(x.txs) : t # u => Range(Spends[t]) \cap Range(Spends[u]) = {}
    BY <1>4 DEF Fills
  <1>6. PICK a : a = x.s
    OBVIOUS
  <1>7. /\ Stored(a) /\ CacheRight(a) /\ a.main = s.main /\ a.alt = s.alt
        /\ a.images = s.images /\ a.listed = s.listed /\ a.weight = s.weight /\ a.broken = s.broken
        /\ DOMAIN a.pool = DOMAIN s.pool /\ \A u \in DOMAIN s.pool : a.pool[u].relay = s.pool[u].relay
    BY <1>5, <1>6 DEF Looks, Same
  <1>8. PICK w : w = [prev |-> Tip(s), txs |-> x.txs]
    OBVIOUS
  <1>9. w \in Templates /\ w.prev = Tip(s) /\ w.txs = x.txs
    <2>1. Tip(s) \in Blocks
      BY <1>2 DEF Stored, GoodTip
    <2> QED BY <1>5, <1>8, <2>1 DEF Templates
  <1>10. PICK r : r = [a EXCEPT !.template = w]
    OBVIOUS
  <1>11. /\ r \in States /\ r.main = a.main /\ r.alt = a.alt /\ r.pool = a.pool /\ r.images = a.images
         /\ r.listed = a.listed /\ r.weight = a.weight /\ r.verdicts = a.verdicts
         /\ r.template = w /\ r.broken = a.broken
    BY <1>5, <1>6, <1>9, <1>10 DEF States
  <1>12. Tip(r) = Tip(s) /\ Tip(a) = Tip(s)
    BY <1>7, <1>11 DEF Tip
  <1>13. Stored(r)
    BY <1>7, <1>11, <1>12 DEF Stored
  <1>14. CacheRight(r)
    BY <1>7, <1>11 DEF CacheRight
  <1>15. TemplateRight(r)
    BY <1>5, <1>7, <1>9, <1>11, <1>12 DEF TemplateRight
  <1>16. Beside(r) /\ (Low(s) => Low(r))
    BY <1>2, <1>7, <1>11, <1>12 DEF Beside, Low
  <1>17. Indexed(s) => Indexed(r)
    BY <1>7, <1>11, IndexedLike
  <1>18. Becomes(r) /\ popped' = popped /\ aborted' = Older
    BY <1>1, <1>3, <1>6, <1>8, <1>10 DEF create_block_template, Templated, Aged
  <1>19. IInv'
    BY <1>2, <1>13, <1>14, <1>15, <1>16, <1>17, <1>18, OlderIs, StepIs DEF Sound
  <1> QED BY <1>2, <1>7, <1>11, <1>18, <1>19 DEF Becomes

(* The pool as the next start finds it. *)
LEMMA StartedIs ==
  ASSUME NEW s, Stored(s), NEW r, r = Started(s)
  PROVE  /\ Stored(r) /\ CacheRight(r) /\ r.template = NoTemplate /\ r.alt = {} /\ r.main = s.main
         /\ r.broken = FALSE => Indexed(r)
         /\ Loose(s.pool) => r.broken = FALSE
  <1>1. PICK a : a = [s EXCEPT !.alt = {}, !.invalid = {}, !.template = NoTemplate, !.broken = FALSE]
    OBVIOUS
  <1>2. s \in States
    BY DEF Stored
  <1>3. /\ a \in States /\ a.main = s.main /\ a.alt = {} /\ a.pool = s.pool
        /\ a.template = NoTemplate /\ a.broken = FALSE
    BY <1>1, <1>2, NoTemplateType DEF States
  <1>4. r = init(a)
    BY <1>1 DEF Started
  <1>5. /\ r \in States /\ r.main = a.main /\ r.alt = a.alt /\ r.pool = a.pool
        /\ r.verdicts = EmptyMap /\ r.template = NoTemplate
        /\ r.broken = FALSE => Indexed(r)
        /\ Loose(a.pool) => r.broken = FALSE
    BY <1>3, <1>4, InitIs
  <1>6. Tip(r) = Tip(s)
    BY <1>3, <1>5 DEF Tip
  <1>7. Stored(r)
    BY <1>3, <1>5, <1>6 DEF Stored
  <1>8. CacheRight(r)
    BY <1>5, EmptyIs DEF CacheRight
  <1> QED BY <1>3, <1>5, <1>7, <1>8

LEMMA RestartIs ==
  ASSUME IInv, Restart
  PROVE  IInv' /\ main' = main
  <1>1. PICK s : s = State
    OBVIOUS
  <1>2. Stored(s) /\ s.main = main
    BY <1>1, InvIs, FieldsAre
  <1>3. PICK a : a = Started(s)
    OBVIOUS
  <1>4. /\ Stored(a) /\ CacheRight(a) /\ a.template = NoTemplate /\ a.alt = {} /\ a.main = s.main
        /\ a.broken = FALSE => Indexed(a)
    BY <1>2, <1>3, StartedIs
  <1>5. ~ a.broken /\ Becomes(validate(a)) /\ aborted' = 0 /\ popped' = FALSE
    BY <1>1, <1>3 DEF Restart
  <1>6. Indexed(a)
    <2>1. a.broken \in BOOLEAN
      BY <1>4, StateIs DEF Stored
    <2> QED BY <1>4, <1>5, <2>1
  <1>7. PICK r : r = validate(a)
    OBVIOUS
  <1>8. Stored(r) /\ CacheRight(r) /\ r.template = NoTemplate /\ Same(a, r) /\ Indexed(r)
    BY <1>4, <1>6, <1>7, ValidateIs DEF Valid
  <1>9. r.main = s.main /\ r.alt = {}
    BY <1>4, <1>8 DEF Same
  <1>10. Sound(r) /\ Beside(r) /\ Low(r)
    BY <1>8, <1>9, NoTemplateRight DEF Sound, Beside, Low
  <1>11. Becomes(r) /\ aborted' \in Nat /\ popped' \in BOOLEAN
    <2>1. 0 \in Nat
      BY SMTT(30)
    <2> QED BY <1>5, <1>7, <2>1
  <1>12. IInv'
    BY <1>8, <1>10, <1>11, StepIs
  <1> QED BY <1>2, <1>9, <1>11, <1>12 DEF Becomes

LEMMA NextIs ==
  ASSUME IInv, [Next]_vars
  PROVE  IInv' /\ (Heavier \/ pop_blocks)
  <1>1. CASE Next
    BY <1>1, ReceiveBlocksIs, ReceiveTxIs, SetRelayedIs, RemoveStuckIs, PopBlocksIs, TemplateIs, RestartIs DEF Next, Heavier
  <1>2. CASE UNCHANGED vars
    BY <1>2 DEF vars, IInv, State, Heavier
  <1> QED BY <1>1, <1>2

LEMMA Invariance == Spec => []IInv
  <1>1. IInv /\ [Next]_vars => IInv'
    BY NextIs
  <1> QED BY <1>1, InitIInv, PTL DEF Spec

(* However blocks, transactions, pops, switches and restarts interleave,   *)
(* the indexes of tx_memory_pool are those of the stored pool and no       *)
(* internal check fails, unless a batch was aborted.                       *)
THEOREM IndexesAlwaysMatch == Spec => []IndexesMatch
  <1>1. IInv => IndexesMatch
    BY FieldsAre DEF IInv, IndexesMatch, Indexed, Indexes, Spenders
  <1> QED BY <1>1, Invariance, PTL

(* tx_memory_pool::init loads whatever the pool has stored, unless a batch *)
(* was aborted.                                                            *)
THEOREM CanAlwaysStart == Spec => []StartsAgain
  <1>1. IInv => StartsAgain
    <2> SUFFICES ASSUME IInv, aborted = 0 PROVE OneLooseSpender /\ ~ Started(State).broken
      BY DEF StartsAgain
    <2>1. Stored(State) /\ Loose(State.pool)
      BY InvIs DEF Indexed, Indexes
    <2>2. PICK r : r = Started(State)
      OBVIOUS
    <2>3. r.broken = FALSE
      BY <2>1, <2>2, StartedIs
    <2> QED BY <2>1, <2>2, <2>3, FieldsAre DEF Loose, OneLooseSpender
  <1> QED BY <1>1, Invariance, PTL

(* The main chain is one of the tree and spends no key image twice,        *)
(* through every switch, rollback and aborted batch.                       *)
THEOREM ChainStaysValid == Spec => []ChainValid
  <1>1. IInv => ChainValid
    <2> SUFFICES ASSUME IInv PROVE ChainValid
      OBVIOUS
    <2>1. PICK b : b = Tip(State)
      OBVIOUS
    <2>2. b \in Blocks /\ main = ChainTo[b] /\ DOMAIN pool \cap Mined(main) = {}
          /\ \A a \in Range(main) : a = GENESIS \/ BlockOK(a)
      BY <2>1, InvIs, FieldsAre DEF Stored, GoodTip
    <2>3. Chain(b, main)
      BY <2>2, ChainIs
    <2>4. Height(b) \in Nat /\ DOMAIN main = 1 .. Height(b) + 1 /\ Len(main) = Height(b) + 1
      BY SMTT(30), <2>2, <2>3, HeightNat DEF Chain
    <2>5. ASSUME NEW i \in 2 .. Len(main)
          PROVE  /\ Prev(main[i]) = main[i - 1]
                 /\ \A t \in Range(TxsOf(main[i])) : check_tx_inputs(SubSeq(main, 1, i - 1), t)
      <3>1. i \in 1 .. Height(b) + 1 /\ i > 1 /\ i - 1 \in 1 .. Height(b) + 1 /\ i - 1 > 0
        BY SMTT(30), <2>4
      <3>2. main[i] \in Blocks /\ Height(main[i]) = i - 1 /\ Prev(main[i]) = main[i - 1]
        BY <2>3, <3>1 DEF Chain
      <3>3. main[i] # GENESIS
        BY SMTT(30), <3>1, <3>2, BlocksAssumption
      <3>4. BlockOK(main[i])
        BY <2>2, <2>4, <3>1, <3>3 DEF Range
      <3>5. SubSeq(main, 1, i - 1) = ChainTo[main[i - 1]]
        BY <2>2, <3>1, Prefix
      <3> QED BY <3>2, <3>4, <3>5 DEF BlockOK
    <2>6. main[1] = GENESIS
      BY <2>2, GenesisFirst
    <2> QED BY <2>2, <2>5, <2>6 DEF ChainValid
  <1> QED BY <1>1, Invariance, PTL

(* m_input_cache and the marks of failure are right about the chain as it  *)
(* is, also after reorganisations and aborted batches.                     *)
THEOREM VerdictsStayRight == Spec => []VerdictsRight
  <1>1. IInv => VerdictsRight
    <2> SUFFICES ASSUME IInv PROVE VerdictsRight
      OBVIOUS
    <2>1. Stored(State) /\ CacheRight(State)
      BY InvIs
    <2>2. Tip(State) # NoBlock /\ State.main = ChainTo[Tip(State)]
      BY <2>1, BlocksAssumption DEF Stored, GoodTip
    <2> QED BY <2>1, <2>2, FieldsAre DEF Stored, CacheRight, VerdictsRight
  <1> QED BY <1>1, Invariance, PTL

(* A block template that is still handed out is valid at the tip.          *)
THEOREM TemplatesStayMinable == Spec => []TemplateMinable
  <1>1. IInv => TemplateMinable
    BY InvIs, FieldsAre DEF TemplateRight, TemplateMinable
  <1> QED BY <1>1, Invariance, PTL

(* Alternative blocks are below a switch: none is on the tip, unless       *)
(* blocks were popped by command.                                          *)
THEOREM AlternativesStayLow == Spec => []NoAltOnTip
  <1>1. IInv => NoAltOnTip
    <2> SUFFICES ASSUME IInv, ~ popped, NEW b \in alt PROVE ~ OnMain(State, b) /\ Prev(b) # Tip(State)
      BY DEF NoAltOnTip
    <2>1. Beside(State) /\ Low(State) /\ Stored(State) /\ State \in States
      BY InvIs
    <2>2. b \in State.alt /\ b \in Blocks /\ Work(b) <= Work(Tip(State)) /\ Tip(State) \in Blocks
      BY <2>1, FieldsAre, StateIs DEF Low, Stored, GoodTip
    <2>3. Prev(b) # Tip(State)
      <3>1. ASSUME Prev(b) = Tip(State) PROVE FALSE
        <4>1. Work(Tip(State)) < Work(b) /\ Work(Tip(State)) \in Nat /\ Work(b) \in Nat
          BY <2>2, <3>1, WorkIs
        <4> QED BY SMTT(30), <2>2, <4>1
      <3> QED BY <3>1
    <2> QED BY <2>1, <2>2, <2>3 DEF Beside, OnMain
  <1> QED BY <1>1, Invariance, PTL

(* Blocks from peers never take work off the chain: what switches away     *)
(* from it has more, and a failed switch restores it.                      *)
THEOREM ChainNeverLighter == Spec => NeverLighter
  <1>1. Tip(State) = main[Len(main)] /\ Tip(State)' = main'[Len(main')]
    BY DEF Tip, State
  <1>2. IInv /\ [Next]_vars => [main' = main \/ Work(Tip(State)') > Work(Tip(State)) \/ pop_blocks]_vars
    BY <1>1, NextIs DEF Heavier
  <1> QED BY <1>2, Invariance, PTL DEF Spec, NeverLighter

=============================================================================
