----------------------------- MODULE ChainPool ------------------------------
(***************************************************************************)
(* Blockchain (cryptonote_core/blockchain.cpp) with its alternative blocks *)
(* and the transaction pool: blocks that extend the chain, are kept as     *)
(* alternatives or start a switch, the rollback of a switch that fails,    *)
(* batches that are aborted, pops, templates and restarts.  Every block    *)
(* has the same hard fork version, and there are no checkpoints; stem      *)
(* transactions are not mined, as everywhere but on test chains.           *)
(* prepare_handle_incoming_blocks, add_new_block, pop_blocks and           *)
(* create_block_template hold the locks of the pool and of the chain, so   *)
(* each operation is one action.                                           *)
(***************************************************************************)
EXTENDS TxPool

CONSTANTS
  GENESIS,       \* the first block
  WEIGHT_BOUND,  \* bound on the weight the pool counts
  MAX_STUCK,     \* bound on the transactions that time out between two starts
  AFTER_ABORT    \* bound on the operations between an aborted batch and a start

VARIABLES
  main, alt,          \* the main chain, the alternative blocks (database)
  pool,               \* the pool's metadata (database)
  invalid,            \* m_invalid_blocks
  images, listed,     \* m_spent_key_images, m_txs_by_fee_and_receive_time
  weight,             \* m_txpool_weight
  verdicts,           \* m_input_cache
  timedOut,           \* m_timed_out_transactions
  template,           \* m_btc while it is valid and its cookie is current
  broken,             \* history: an internal check of the pool failed
  aborted,            \* history: 0, or the operations since a batch was aborted
  popped              \* history: blocks were popped by command since then

vars == <<main, alt, pool, invalid, images, listed, weight, verdicts, timedOut,
          template, broken, aborted, popped>>

State ==
  [main |-> main, alt |-> alt, pool |-> pool, invalid |-> invalid, images |-> images,
   listed |-> listed, weight |-> weight, verdicts |-> verdicts, timedOut |-> timedOut,
   template |-> template, broken |-> broken, batchOK |-> TRUE]

Becomes(s) ==
  /\ main' = s.main /\ alt' = s.alt /\ pool' = s.pool /\ invalid' = s.invalid
  /\ images' = s.images /\ listed' = s.listed /\ weight' = s.weight
  /\ verdicts' = s.verdicts /\ timedOut' = s.timedOut
  /\ template' = s.template /\ broken' = s.broken

Blocks == DOMAIN Tree
Height(b) == Tree[b].height
Work(b) == Tree[b].work     \* its cumulative difficulty
Prev(b) == Tree[b].prev
OnMain(s, b) == b \in Range(s.main)
TxsOf(b) == Tree[b].txs

(* Every block but the first is one above its predecessor. *)
ASSUME BlocksAssumption ==
  /\ GENESIS \in Blocks /\ Height(GENESIS) = 0 /\ Prev(GENESIS) \notin Blocks
  /\ TxsOf(GENESIS) = <<>>
  /\ \A b \in Blocks : TxsOf(b) \in Seq(Txs)
  /\ \A b \in Blocks \ {GENESIS} :
       Prev(b) \in Blocks /\ Height(Prev(b)) \in Nat /\ Height(b) = Height(Prev(b)) + 1
  /\ NoBlock \notin Blocks

(* The difficulty of a block is not zero. *)
ASSUME WorkAssumption ==
  \A b \in Blocks : Work(b) \in Nat /\ (b # GENESIS => Work(Prev(b)) < Work(b))

(* A chain as a sequence from its genesis (index 1, height 0) to its top. *)
ChainTo ==
  [b \in Blocks |->
     LET below[n \in 0 .. Height(b)] == IF n = 0 THEN b ELSE Prev(below[n - 1])
     IN [i \in 1 .. Height(b) + 1 |-> below[Height(b) + 1 - i]]]

(* handle_block_to_main_chain and pop_block_from_blockchain end alike. *)
TipMoved(s) == [ChainMoved(s) EXCEPT !.template = NoTemplate]

ReturnToPool(s, txs) ==
  LET upTo[n \in 0 .. Len(txs)] ==
        IF n = 0 THEN s ELSE add_tx(upTo[n - 1], txs[n], "block").s
  IN upTo[Len(txs)]

-----------------------------------------------------------------------------
(* The loop of handle_block_to_main_chain over the block's transactions:   *)
(* each is taken from the pool or from the supplement and its inputs are   *)
(* checked.  found: those that came from the pool.                         *)
Take(r, t) ==
  IF InPool(r.s, t) THEN [ok |-> r.ok, s |-> RemoveTx(r.s, t), found |-> Append(r.found, t)]
  ELSE r

Condemned(r, b) ==
  [ok |-> FALSE, s |-> [r.s EXCEPT !.invalid = r.s.invalid \cup {b}], found |-> r.found]

(* Mutant: the inputs are not checked. *)
GatherUnchecked(r, b, supplement, t) ==
  IF t \in Mined(r.s.main) \/ ~ (InPool(r.s, t) \/ t \in supplement)
  THEN [r EXCEPT !.ok = FALSE]
  ELSE Take(r, t)

GatherOne(r, b, supplement, t) ==
  IF t \in Mined(r.s.main) \/ ~ (InPool(r.s, t) \/ t \in supplement)
  THEN [r EXCEPT !.ok = FALSE]
  ELSE IF check_tx_inputs(r.s.main, t) THEN Take(r, t)
  ELSE Condemned(Take(r, t), b)

Gather(s, b, supplement) ==
  LET upTo[n \in 0 .. Len(TxsOf(b))] ==
        IF n = 0 THEN [ok |-> TRUE, s |-> s, found |-> <<>>]
        ELSE IF ~ upTo[n - 1].ok THEN upTo[n - 1]
        ELSE GatherOne(upTo[n - 1], b, supplement, TxsOf(b)[n])
  IN upTo[Len(TxsOf(b))]

(* BlockchainDB::add_block throws when the block has a transaction or a    *)
(* key image twice.                                                        *)
Storable(b) ==
  \A i, j \in DOMAIN TxsOf(b) :
    i # j => /\ TxsOf(b)[i] # TxsOf(b)[j]
             /\ Range(Spends[TxsOf(b)[i]]) \cap Range(Spends[TxsOf(b)[j]]) = {}

(* The transactions of a refused block that were in the pool go back. *)
GiveBack(r, storeFailed) ==
  Refused([ReturnToPool(r.s, r.found) EXCEPT !.batchOK = @ /\ ~ storeFailed])

(* Mutant: the verdicts outlive the tip they were made at. *)
ConnectKeepingVerdicts(r, b, dbFails) ==
  IF ~ r.ok \/ Tree[b].badMiner THEN GiveBack(r, FALSE)
  ELSE IF dbFails \/ ~ Storable(b) THEN GiveBack(r, TRUE)
  ELSE [ok |-> TRUE, s |-> [r.s EXCEPT !.main = Append(r.s.main, b), !.template = NoTemplate]]

(* The end of handle_block_to_main_chain: a block that is refused gives    *)
(* its transactions back, and an add_block that throws, for the block or   *)
(* for the database (dbFails), fails the whole batch.                      *)
Connect(r, b, dbFails) ==
  IF ~ r.ok \/ Tree[b].badMiner THEN GiveBack(r, FALSE)
  ELSE IF dbFails \/ ~ Storable(b) THEN GiveBack(r, TRUE)
  ELSE [ok |-> TRUE, s |-> TipMoved([r.s EXCEPT !.main = Append(r.s.main, b)])]

(* handle_block_to_main_chain for a block on the tip. *)
handle_block_to_main_chain(s, b, supplement, dbFails) ==
  Connect(Gather(s, b, supplement), b, dbFails)

WithoutTip(s) == [s EXCEPT !.main = SubSeq(s.main, 1, Len(s.main) - 1)]

pop_block_from_blockchain(s) == TipMoved(ReturnToPool(WithoutTip(s), TxsOf(Tip(s))))

(* Pops until b is the tip. *)
PopTo(s, b) ==
  LET upTo[n \in 0 .. Len(s.main)] ==
        IF n = 0 THEN s
        ELSE IF Tip(upTo[n - 1]) = b THEN upTo[n - 1]
        ELSE pop_block_from_blockchain(upTo[n - 1])
  IN upTo[Len(s.main)]

(* Blocks without supplements, up to the first one that is refused; done:  *)
(* the number of those that were connected.                                *)
Counted(next, done) ==
  [ok |-> next.ok, s |-> next.s, done |-> IF next.ok THEN done + 1 ELSE done]

ConnectNext(r, b) == Counted(handle_block_to_main_chain(r.s, b, {}, FALSE), r.done)

ConnectAll(s, blocks) ==
  LET upTo[n \in 0 .. Len(blocks)] ==
        IF n = 0 THEN [ok |-> TRUE, s |-> s, done |-> 0]
        ELSE IF ~ upTo[n - 1].ok THEN upTo[n - 1]
        ELSE ConnectNext(upTo[n - 1], blocks[n])
  IN upTo[Len(blocks)]

rollback_blockchain_switching(s, original, split) ==
  ConnectAll(PopTo(s, split), original).s

(* A switch that failed: the refused block and the ones after it are       *)
(* forgotten.                                                              *)
SwitchedBack(r, blocks, original) ==
  Refused([rollback_blockchain_switching(r.s, original, Prev(blocks[1])) EXCEPT
             !.alt = @ \ Range(SubSeq(blocks, r.done + 1, Len(blocks)))])

(* Mutant: the blocks switched to remain alternatives. *)
SwitchedKeeping(r, blocks, original) ==
  IF r.ok THEN [ok |-> TRUE, s |-> [r.s EXCEPT !.alt = r.s.alt \cup Range(original)]]
  ELSE SwitchedBack(r, blocks, original)

(* switch_to_alternative_blockchain: on success the old blocks become      *)
(* alternatives.                                                           *)
Switched(r, blocks, original) ==
  IF r.ok
  THEN [ok |-> TRUE,
        s |-> [r.s EXCEPT !.alt = (r.s.alt \cup Range(original)) \ Range(blocks)]]
  ELSE SwitchedBack(r, blocks, original)

switch_to_alternative_blockchain(s, blocks) ==
  Switched(ConnectAll(PopTo(s, Prev(blocks[1])), blocks), blocks,
           SubSeq(s.main, Height(blocks[1]) + 1, Len(s.main)))

(* build_alt_chain: the alternative blocks from the main chain up to b. *)
AltChain(s, b) ==
  LET c == ChainTo[b]
      first == Max({i \in 0 .. Len(c) : i = 0 \/ c[i] \notin s.alt}) + 1
  IN SubSeq(c, first, Len(c))

(* Its checks: the chain leaves the main chain at or below the block       *)
(* before the tip.                                                         *)
Connects(s, c) == c # <<>> => /\ OnMain(s, Prev(c[1]))
                              /\ Len(s.main) > Height(c[1])

(* The supplement of an alternative block enters the pool. *)
SupplementOne(r, t) ==
  IF Legacy(r.s, t) \/ t \in Mined(r.s.main) THEN r ELSE add_tx(r.s, t, "block")

Supplement(s, txs) ==
  LET upTo[n \in 0 .. Len(HashOrder)] ==
        IF n = 0 THEN [ok |-> TRUE, s |-> s]
        ELSE IF upTo[n - 1].ok /\ HashOrder[n] \in txs
        THEN SupplementOne(upTo[n - 1], HashOrder[n])
        ELSE upTo[n - 1]
  IN upTo[Len(HashOrder)]

(* Mutant: the longer chain is switched to. *)
AddAlternativeByLength(r, b, below) ==
  IF ~ r.ok THEN r
  ELSE LET s == [r.s EXCEPT !.alt = r.s.alt \cup {b}]
       IN IF Height(Tip(s)) < Height(b)
          THEN switch_to_alternative_blockchain(s, Append(below, b))
          ELSE [ok |-> TRUE, s |-> s]

(* The alternative block is stored; a chain with more work than the main   *)
(* one is switched to, be it longer or shorter.                            *)
AddAlternative(r, b, below) ==
  IF ~ r.ok THEN r
  ELSE LET s == [r.s EXCEPT !.alt = r.s.alt \cup {b}]
       IN IF Work(Tip(s)) < Work(b)
          THEN switch_to_alternative_blockchain(s, Append(below, b))
          ELSE [ok |-> TRUE, s |-> s]

handle_alternative_block(s, b, supplement) ==
  IF Prev(b) \notin s.alt \cup Range(s.main) \/ ~ Connects(s, AltChain(s, Prev(b)))
  THEN Refused(s)
  ELSE AddAlternative(Supplement(s, supplement), b, AltChain(s, Prev(b)))

(* have_block *)
Known(s, b) == OnMain(s, b) \/ b \in s.alt \cup s.invalid

add_new_block(s, b, supplement, dbFails) ==
  IF Known(s, b) THEN [ok |-> TRUE, s |-> s]
  ELSE IF Prev(b) = Tip(s) THEN handle_block_to_main_chain(s, b, supplement, dbFails)
  ELSE handle_alternative_block(s, b, supplement)

-----------------------------------------------------------------------------
Init ==
  /\ main = <<GENESIS>> /\ alt = {} /\ pool = EmptyMap /\ invalid = {}
  /\ images = [k \in KeyImages |-> {}] /\ listed = {} /\ weight = 0
  /\ verdicts = EmptyMap /\ timedOut = {}
  /\ template = NoTemplate
  /\ broken = FALSE /\ aborted = 0 /\ popped = FALSE

(* A new block on its own, with or without the transactions the sender     *)
(* thinks are missing, or two blocks of a span; the last one may meet a    *)
(* database failure.                                                       *)
Deliveries ==
  LET new == {b \in Blocks : ~ Known(State, b)}
  IN {[blocks |-> <<b>>, full |-> f, fails |-> x] :
        b \in {d \in new : TxsOf(d) # <<>>}, f \in BOOLEAN, x \in {0, 1}}
     \cup {[blocks |-> <<b>>, full |-> TRUE, fails |-> x] :
        b \in {d \in new : TxsOf(d) = <<>>}, x \in {0, 1}}
     \cup {[blocks |-> <<Prev(c), c>>, full |-> TRUE, fails |-> x] :
        c \in {d \in new : Height(d) > 1 /\ ~ Known(State, Prev(d))}, x \in {0, 2}}

(* The operations since an aborted batch, counted. *)
Older == IF aborted = 0 THEN 0 ELSE aborted + 1
Aged == aborted <= AFTER_ABORT /\ aborted' = Older

(* The blocks of a delivery up to the first one that is refused. *)
Supplied(d, b) == IF d.full THEN Range(TxsOf(b)) ELSE {}

AddAll(s, d) ==
  LET upTo[n \in 0 .. Len(d.blocks)] ==
        IF n = 0 THEN [ok |-> TRUE, s |-> s]
        ELSE IF ~ upTo[n - 1].ok THEN upTo[n - 1]
        ELSE add_new_block(upTo[n - 1].s, d.blocks[n], Supplied(d, d.blocks[n]), n = d.fails)
  IN upTo[Len(d.blocks)].s

(* cleanup_handle_incoming_blocks: an aborted batch takes back what is in  *)
(* the database.                                                           *)
CleanUp(s) ==
  /\ s.weight <= WEIGHT_BOUND
  /\ Becomes(IF s.batchOK THEN s
             ELSE [s EXCEPT !.main = main, !.alt = alt, !.pool = pool])
  /\ aborted' = IF s.batchOK THEN Older ELSE Older + 1

(* prepare_handle_incoming_blocks, the blocks, the end of the batch. *)
ReceiveBlocks ==
  /\ aborted <= AFTER_ABORT
  /\ \E d \in Deliveries : CleanUp(AddAll(State, d))
  /\ UNCHANGED popped

(* core::handle_incoming_tx and add_new_tx *)
ReceiveTx ==
  /\ weight < WEIGHT_BOUND
  /\ \E t \in Txs, relay \in {"stem", "fluff"} :
       /\ ~ Legacy(State, t) /\ t \notin Mined(main)
       /\ Becomes(add_tx(State, t, relay).s)
  /\ Aged
  /\ UNCHANGED popped

(* set_relayed: a stem transaction is broadcast at last. *)
SetRelayed ==
  /\ \E t \in DOMAIN pool :
       /\ pool[t].relay = "stem"
       /\ Becomes([State EXCEPT !.pool = With(pool, t, [pool[t] EXCEPT !.relay = "fluff"]),
                              !.listed = listed \cup {t}])
  /\ Aged
  /\ UNCHANGED popped

(* remove_stuck_transactions *)
RemoveStuck ==
  /\ Cardinality(timedOut) < MAX_STUCK
  /\ \E t \in DOMAIN pool :
       Becomes([RemoveTx(State, t) EXCEPT !.timedOut = timedOut \cup {t}])
  /\ Aged
  /\ UNCHANGED popped

pop_blocks ==
  /\ \E i \in 1 .. Len(main) - 1 :
       Becomes(PopTo(State, main[i]))
  /\ weight' <= WEIGHT_BOUND
  /\ popped' = TRUE
  /\ Aged

Templated(r) == [r.s EXCEPT !.template = [prev |-> Tip(State), txs |-> r.txs]]

(* create_block_template: the cached one when neither the tip nor the      *)
(* cookie moved.                                                           *)
create_block_template ==
  /\ template.prev # Tip(State)
  /\ Becomes(Templated(fill_block_template(State)))
  /\ Aged
  /\ UNCHANGED popped

(* Blockchain::init and tx_memory_pool::init, without which the daemon     *)
(* does not come up.                                                       *)
Started(s) == init([s EXCEPT !.alt = {}, !.invalid = {},
                             !.template = NoTemplate, !.broken = FALSE])

(* core::init: then validate, and drop_alt_blocks. *)
Restart ==
  /\ ~ Started(State).broken
  /\ Becomes(validate(Started(State)))
  /\ aborted' = 0
  /\ popped' = FALSE

Next ==
  \/ ReceiveBlocks \/ ReceiveTx \/ SetRelayed \/ RemoveStuck
  \/ pop_blocks \/ create_block_template \/ Restart

Spec == Init /\ [][Next]_vars

-----------------------------------------------------------------------------

(* The indexes in memory are those of the stored pool: the key images are  *)
(* exactly the ones its transactions spend, the sorted container lists     *)
(* exactly its transactions, and no internal check of the pool has failed. *)
(* An aborted batch takes back the stored pool alone; the next start       *)
(* builds the indexes again.                                               *)
IndexesMatch ==
  aborted = 0 =>
    /\ ~ broken
    /\ listed = DOMAIN pool
    /\ \A k \in KeyImages : images[k] = {t \in DOMAIN pool : k \in Range(Spends[t])}

(* insert_key_images: several transactions of the pool spend the same key  *)
(* image only if all but one of them are kept by block.                    *)
OneLooseSpender ==
  \A t, u \in DOMAIN pool :
    /\ t # u
    /\ Range(Spends[t]) \cap Range(Spends[u]) # {}
    => pool[t].relay = "block" \/ pool[u].relay = "block"

(* The daemon can be started again at any time: tx_memory_pool::init loads *)
(* the stored pool without meeting two loose spenders of a key image,      *)
(* whatever pops, failed switches and relays put there.  Not so after a    *)
(* batch was aborted.                                                      *)
StartsAgain == aborted = 0 => OneLooseSpender /\ ~ Started(State).broken

(* The chain itself, through switches, their rollbacks and aborted         *)
(* batches: it starts at genesis and each block follows on the one before, *)
(* no key image is spent twice, every transaction finds the outputs it     *)
(* refers to in an earlier block, and none of them is still in the pool.   *)
ChainValid ==
  /\ main[1] = GENESIS
  /\ \A i \in 2 .. Len(main) :
       /\ Prev(main[i]) = main[i - 1]
       /\ \A t \in Range(TxsOf(main[i])) : check_tx_inputs(SubSeq(main, 1, i - 1), t)
  /\ DOMAIN pool \cap Mined(main) = {}

(* What the pool remembers of earlier checks is right for the chain as it  *)
(* is: every cached verdict is what a check would find now, and a          *)
(* transaction marked as failing at the tip does fail.                     *)
VerdictsRight ==
  /\ \A t \in DOMAIN verdicts : verdicts[t] = check_tx_inputs(main, t)
  /\ \A t \in DOMAIN pool : pool[t].failed = Tip(State) => ~ check_tx_inputs(main, t)

(* A template that would be handed out again can be mined: its             *)
(* transactions are in the pool, their inputs are right and no two of them *)
(* spend the same key image.                                               *)
TemplateMinable ==
  template.prev = Tip(State) =>
    /\ Range(template.txs) \subseteq DOMAIN pool
    /\ \A t \in Range(template.txs) : check_tx_inputs(main, t)
    /\ \A t, u \in Range(template.txs) :
         t # u => Range(Spends[t]) \cap Range(Spends[u]) = {}

(* No alternative block waits on the tip, where build_alt_chain would      *)
(* refuse the blocks that build on it, unless blocks were popped by        *)
(* command.                                                                *)
NoAltOnTip == ~ popped => \A b \in alt : ~ OnMain(State, b) /\ Prev(b) # Tip(State)

(* Only a command takes work off the chain: blocks from peers leave it as   *)
(* it is or put one with more work in its place, even a shorter one.  In    *)
(* particular a failed switch gives back every block it popped, with the    *)
(* transactions found in the pool.                                          *)
NeverLighter ==
  [][main' = main \/ Work(Tip(State)') > Work(Tip(State)) \/ pop_blocks]_vars
=============================================================================
