------------------------------- MODULE TxPool -------------------------------
(***************************************************************************)
(* tx_memory_pool (cryptonote_core/tx_pool.cpp) as operations on a state   *)
(* record s: what the database holds (the main chain and the pool's        *)
(* metadata) and the indexes the pool keeps in memory beside it.  Every    *)
(* transaction weighs one and pays fees of its own, so the order of the    *)
(* sorted container is fixed.  Fee, size and unlock time checks are taken  *)
(* as passed, and the double_spend_seen mark is left out.                  *)
(***************************************************************************)
EXTENDS Integers, Sequences, FiniteSets, FiniteSetsExt, Functions

CONSTANTS
  Tree,         \* block -> [prev, height, work, txs, badMiner]
  Spends,       \* transaction -> the sequence of its key images
  Needs,        \* transaction -> the transactions whose outputs it refers to
  FeeOrder,     \* the transactions, best fee per weight first
  HashOrder,    \* the transactions in the order of the database
  MAX_WEIGHT    \* m_txpool_max_weight

Txs == DOMAIN Spends
KeyImages == UNION {Range(Spends[t]) : t \in Txs}

Once(s) == \A i, j \in DOMAIN s : s[i] = s[j] => i = j

(* The key images of a transaction differ (check_tx_inputs_keyimages_diff, *)
(* before a transaction comes here); the two orders list every             *)
(* transaction once.                                                       *)
ASSUME TxAssumption ==
  /\ IsFiniteSet(Txs) /\ MAX_WEIGHT \in Nat
  /\ \A t \in Txs : Spends[t] \in Seq(KeyImages) /\ Once(Spends[t])
  /\ FeeOrder \in Seq(Txs) /\ Range(FeeOrder) = Txs /\ Once(FeeOrder)
  /\ HashOrder \in Seq(Txs) /\ Range(HashOrder) = Txs /\ Once(HashOrder)

(* relay_method, without the ones that only the relay tells apart *)
Rank == [stem |-> 1, fluff |-> 2, block |-> 3]

NoBlock == "none"   \* null_hash
EmptyMap == [t \in {} |-> FALSE]

(* The block at the end of the main chain. *)
Tip(s) == s.main[Len(s.main)]

Mined(c) == UNION {Range(Tree[c[i]].txs) : i \in DOMAIN c}

(* Blockchain::check_tx_inputs: no key image of the transaction is spent   *)
(* on the chain and the outputs it refers to are there.                    *)
check_tx_inputs(c, t) ==
  /\ \A u \in Mined(c) : Range(Spends[u]) \cap Range(Spends[t]) = {}
  /\ Needs[t] \subseteq Mined(c)

InPool(s, t) == t \in DOMAIN s.pool
Kept(s, t) == s.pool[t].relay = "block"

(* matches(relay_category::legacy) *)
Legacy(s, t) == InPool(s, t) /\ Rank[s.pool[t].relay] >= Rank["fluff"]

NoTemplate == [prev |-> NoBlock, txs |-> <<>>]

(* Mutant: the cookie is not moved. *)
BumpNothing(s) == s

(* ++m_cookie: a template cached with the old cookie is not used again. *)
Bump(s) == [s EXCEPT !.template = NoTemplate]

(* A check that ends with "internal error" failed. *)
Broken(s) == [s EXCEPT !.broken = TRUE]

-----------------------------------------------------------------------------
(* have_tx_keyimges_as_spent *)
SpentInPool(s, t) ==
  \E k \in Range(Spends[t]) :
    /\ s.images[k] # {}
    /\ s.images[k] = {t} => Legacy(s, t)

(* insert_key_images and remove_transaction_keyimages go through the key  *)
(* images one by one and stop at the first that may not be inserted or is  *)
(* not there.  They differ, so none of these checks depends on another:    *)
(* can holds the ones that pass, and new what becomes of each.             *)
Leading(t, can) ==
  {Spends[t][i] : i \in {j \in DOMAIN Spends[t] : \A h \in 1 .. j : Spends[t][h] \in can}}

EachKeyImage(s, t, can, new) ==
  LET r == [s EXCEPT !.images = [k \in KeyImages |-> IF k \in Leading(t, can) THEN new[k]
                                                      ELSE s.images[k]]]
  IN IF Range(Spends[t]) \subseteq can THEN [ok |-> TRUE, s |-> Bump(r)]
     ELSE [ok |-> FALSE, s |-> Broken(r)]

Insertable(s, t, relay, k) ==
  /\ relay # "block" => s.images[k] \subseteq {t}
  /\ t \in s.images[k] => ~ Legacy(s, t)

insert_key_images(s, t, relay) ==
  EachKeyImage(s, t, {k \in KeyImages : Insertable(s, t, relay, k)},
               [k \in KeyImages |-> s.images[k] \cup {t}])

remove_key_images(s, t) ==
  EachKeyImage(s, t, {k \in KeyImages : t \in s.images[k]},
               [k \in KeyImages |-> s.images[k] \ {t}]).s

Without(f, t) == [u \in DOMAIN f \ {t} |-> f[u]]
With(f, t, v) == [u \in DOMAIN f \cup {t} |-> IF u = t THEN v ELSE f[u]]

(* reduce_txpool_weight *)
ReduceWeight(s) == IF s.weight = 0 THEN Broken(s) ELSE [s EXCEPT !.weight = s.weight - 1]

(* What take_tx, prune and remove_stuck_transactions do to a transaction:  *)
(* remove_txpool_tx, its weight, its key images, the transient lists.      *)
RemoveTx(s, t) ==
  Bump([remove_key_images(ReduceWeight([s EXCEPT !.pool = Without(s.pool, t)]), t) EXCEPT
          !.listed = @ \ {t}])

(* Mutant: a pruned transaction stays in the sorted container. *)
PruneOneKeepingListed(s, t) ==
  IF s.weight > MAX_WEIGHT /\ InPool(s, t) /\ ~ Kept(s, t)
  THEN [RemoveTx(s, t) EXCEPT !.listed = @ \cup {t}] ELSE s

PruneOne(s, t) ==
  IF s.weight > MAX_WEIGHT /\ InPool(s, t) /\ ~ Kept(s, t) THEN RemoveTx(s, t) ELSE s

(* The listed transactions without the one of the best fee. *)
Prunable(listed) ==
  {FeeOrder[i] : i \in {j \in DOMAIN FeeOrder : /\ FeeOrder[j] \in listed
                                               /\ \E h \in 1 .. j - 1 : FeeOrder[h] \in listed}}

(* prune: from the worst fee up, never the best one and none that came     *)
(* from a block.                                                           *)
prune(s) ==
  LET worst(n) == FeeOrder[Len(FeeOrder) + 1 - n]
      upTo[n \in 0 .. Len(FeeOrder)] ==
        IF n = 0 THEN s
        ELSE IF worst(n) \in Prunable(s.listed) THEN PruneOne(upTo[n - 1], worst(n))
        ELSE upTo[n - 1]
  IN upTo[Len(FeeOrder)]

Meta(relay) == [relay |-> relay, failed |-> NoBlock]

(* add_txpool_tx and add_tx_to_transient_lists *)
Store(s, t, relay) ==
  [s EXCEPT !.pool = With(s.pool, t, Meta(relay)), !.listed = s.listed \cup {t}]

(* The verdict on a transaction's inputs through m_input_cache, which      *)
(* kept_by_block transactions neither read nor fill.                       *)
Verdict(s, t) ==
  IF t \in DOMAIN s.verdicts THEN s.verdicts[t] ELSE check_tx_inputs(s.main, t)
Judged(s, t) == [s EXCEPT !.verdicts = With(s.verdicts, t, Verdict(s, t))]

Refused(s) == [ok |-> FALSE, s |-> s]
Added(s) == [ok |-> TRUE, s |-> prune(Bump([s EXCEPT !.weight = s.weight + 1]))]

(* Once its key images are inserted the transaction is stored. *)
StoreNew(r, t, relay, refused) ==
  IF ~ r.ok \/ refused THEN Refused(r.s) ELSE Added(Store(r.s, t, relay))

(* The transaction came with a block and its inputs fail: it is kept all   *)
(* the same, unless the database has it already.                           *)
AddKept(s, t) ==
  StoreNew(insert_key_images(s, t, "block"), t, "block", InPool(s, t))

(* The inputs are right: a new transaction, or one that was in the pool    *)
(* and may move on from stem to fluff or block.                            *)
Upgrade(s, t, relay) ==
  IF InPool(s, t) /\ Rank[s.pool[t].relay] >= Rank[relay] THEN Added(s)
  ELSE StoreNew(insert_key_images(s, t, relay), t, relay, FALSE)

AddChecked(s, t, relay) ==
  Upgrade(s, t, IF relay = "stem" /\ InPool(s, t) /\ s.pool[t].relay = "stem"
                THEN "fluff" ELSE relay)

(* Mutant: a spender of the same key image does not keep it out. *)
AddTxTwice(s, t, relay) ==
  IF relay = "block" THEN
    IF check_tx_inputs(s.main, t) THEN AddChecked(s, t, relay) ELSE AddKept(s, t)
  ELSE IF t \in s.timedOut THEN Refused(s)
  ELSE IF Verdict(s, t) THEN Added(Store([Judged(s, t) EXCEPT
         !.images = [k \in KeyImages |-> IF k \in Range(Spends[t]) THEN @[k] \cup {t}
                                         ELSE @[k]]], t, relay))
  ELSE Refused(Judged(s, t))

add_tx(s, t, relay) ==
  IF relay = "block" THEN
    IF check_tx_inputs(s.main, t) THEN AddChecked(s, t, relay) ELSE AddKept(s, t)
  ELSE IF t \in s.timedOut \/ SpentInPool(s, t) THEN Refused(s)
  ELSE IF Verdict(s, t) THEN AddChecked(Judged(s, t), t, relay)
  ELSE Refused(Judged(s, t))

(* on_blockchain_inc and on_blockchain_dec *)
ChainMoved(s) == [s EXCEPT !.verdicts = EmptyMap]

-----------------------------------------------------------------------------
(* fill_block_template: the transactions that were broadcast, in the order *)
(* of their fees, when they are ready and spend nothing taken before.      *)
(* is_transaction_ready_to_go leaves its verdict in the cache and, when    *)
(* the transaction fails, the tip it failed at in the metadata.            *)
FailedHere(s, t) == s.pool[t].failed = Tip(s)
Ready(s, t) == ~ FailedHere(s, t) /\ Verdict(s, t)

MarkFailed(s, t) ==
  [s EXCEPT !.pool = With(s.pool, t, [s.pool[t] EXCEPT !.failed = Tip(s)])]

LookedAt(s, t) ==
  IF FailedHere(s, t) THEN s
  ELSE IF Verdict(s, t) THEN Judged(s, t) ELSE MarkFailed(Judged(s, t), t)

Apart(t, txs) == \A u \in Range(txs) : Range(Spends[u]) \cap Range(Spends[t]) = {}

FillOne(r, t) ==
  IF t \in r.s.listed /\ Legacy(r.s, t)
  THEN [s |-> LookedAt(r.s, t),
        txs |-> IF Ready(r.s, t) /\ Apart(t, r.txs) THEN Append(r.txs, t) ELSE r.txs]
  ELSE r

fill_block_template(s) ==
  LET upTo[n \in 0 .. Len(FeeOrder)] ==
        IF n = 0 THEN [s |-> s, txs |-> <<>>] ELSE FillOne(upTo[n - 1], FeeOrder[n])
  IN upTo[Len(FeeOrder)]

(* validate: every transaction is taken out and added again as it was, but *)
(* for those that adding another one has pruned.                           *)
PutBack(r, t, meta) ==
  IF r.ok /\ InPool(r.s, t) THEN [r.s EXCEPT !.pool = With(r.s.pool, t, meta)] ELSE r.s

ValidateOne(s, t) ==
  IF InPool(s, t) THEN PutBack(add_tx(RemoveTx(s, t), t, s.pool[t].relay), t, s.pool[t])
  ELSE s

validate(s) ==
  LET upTo[n \in 0 .. Len(HashOrder)] ==
        IF n = 0 THEN s ELSE ValidateOne(upTo[n - 1], HashOrder[n])
  IN upTo[Len(HashOrder)]

(* init: the indexes are built again from the database, first from the     *)
(* transactions that did not come with a block.                            *)
LoadOne(s, t, kept) ==
  IF InPool(s, t) /\ Kept(s, t) = kept
  THEN LET r == insert_key_images(s, t, s.pool[t].relay).s
       IN [r EXCEPT !.listed = r.listed \cup {t}, !.weight = r.weight + 1]
  ELSE s

Load(s, kept) ==
  LET upTo[n \in 0 .. Len(HashOrder)] ==
        IF n = 0 THEN s ELSE LoadOne(upTo[n - 1], HashOrder[n], kept)
  IN upTo[Len(HashOrder)]

Emptied(s) ==
  [s EXCEPT !.images = [k \in KeyImages |-> {}], !.listed = {}, !.weight = 0,
            !.verdicts = EmptyMap, !.timedOut = {}]

init(s) == Load(Load(Emptied(s), FALSE), TRUE)
=============================================================================
