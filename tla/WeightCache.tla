---------------------------- MODULE WeightCache -----------------------------
(***************************************************************************)
(* The cache of Blockchain::get_long_term_block_weight_median: the long    *)
(* term weights of one window of blocks, kept under the hash of the        *)
(* window's last block.  A request for the window at the tip is answered   *)
(* from the cache, or by shifting it by one block, or by filling it again. *)
(* A block's hash commits to its ancestors, so it is modelled as the chain *)
(* that ends with the block.  Every action runs under m_blockchain_lock;   *)
(* blocks are added inside a database batch, and a batch that is aborted   *)
(* takes the chain back but none of the state in memory.  Chain switches   *)
(* and rollbacks are pops and additions inside a batch.                    *)
(***************************************************************************)
EXTENDS WeightedChain

VARIABLES
  chain,    \* m_db: the main chain
  onDisk,   \* the chain an abort of the open batch returns to, <<>> when none
  limits,   \* m_long_term_effective_median_block_weight and the median
  cache,    \* m_long_term_block_weights_cache_*: tip hash and contents
  stale     \* history: a batch was aborted and no limit updated since

vars == <<chain, onDisk, limits, cache, stale>>

NoTip == <<>>   \* null_hash
NoCache == [tip |-> NoTip, window |-> <<>>]

(* The request asks for as many blocks as the cache holds. *)
SameCount(c, k) == AtMost(LONG_TERM_WINDOW, Len(c)) = Len(k.window)

(* Mutant: the tip is compared by its height. *)
HitByHeight(c, k) == SameCount(c, k) /\ Len(k.tip) = Len(c)

Hit(c, k) == SameCount(c, k) /\ k.tip = c

Shift(c, k) ==
  /\ SameCount(c, k)
  /\ Len(c) > 1
  /\ k.tip = SubSeq(c, 1, Len(c) - 1)

(* The cache after a request for the window at the tip of c.  The hash of  *)
(* the tip is only known when the cache had the size asked for.            *)
Request(c, k) ==
  IF Hit(c, k) THEN k
  ELSE IF Shift(c, k) THEN
    [tip |-> c,
     window |-> LastN(Append(k.window, c[Len(c)].longWeight), LONG_TERM_WINDOW)]
  ELSE
    [tip |-> IF SameCount(c, k) THEN c ELSE NoTip, window |-> LongWindow(c)]

(* update_next_cumulative_weight_limit *)
UpdateLimits(c, k) ==
  /\ cache' = Request(c, k)
  /\ limits' = LimitsFor(c, Median(cache'.window))
  /\ stale' = FALSE
-----------------------------------------------------------------------------
Init ==
  /\ chain = <<Genesis>>
  /\ onDisk = <<>>
  /\ cache = Request(chain, NoCache)
  /\ limits = LimitsFor(chain, Median(cache.window))
  /\ stale = FALSE

(* prepare_handle_incoming_blocks *)
StartBatch ==
  /\ onDisk = <<>>
  /\ onDisk' = chain
  /\ UNCHANGED <<chain, limits, cache, stale>>

(* handle_block_to_main_chain once the block is valid: one request for its *)
(* long term weight and one for the limits of the next block.              *)
AddBlock(weight) ==
  LET k == Request(chain, cache)
  IN  /\ onDisk # <<>>
      /\ Len(chain) < MaxHeight
      /\ chain' = Append(chain, Stored(chain, weight, Median(k.window)))
      /\ UpdateLimits(chain', k)
      /\ UNCHANGED onDisk

(* Mutant: a pop without the update that follows it. *)
PopBlocksOnly(n) ==
  /\ n < Len(chain)
  /\ chain' = SubSeq(chain, 1, Len(chain) - n)
  /\ UNCHANGED <<onDisk, limits, cache, stale>>

(* pop_blocks, and inside a batch the pops that start a chain switch and   *)
(* its rollback: n calls of pop_block_from_blockchain and one update.      *)
PopBlocks(n) ==
  /\ n < Len(chain)
  /\ chain' = SubSeq(chain, 1, Len(chain) - n)
  /\ UpdateLimits(chain', cache)
  /\ UNCHANGED onDisk

(* cleanup_handle_incoming_blocks *)
CommitBatch ==
  /\ onDisk # <<>>
  /\ onDisk' = <<>>
  /\ UNCHANGED <<chain, limits, cache, stale>>

(* add_block throws after the block's long term weight was asked for;      *)
(* m_batch_success is false and the batch is aborted.                      *)
AbortBatch ==
  /\ onDisk # <<>>
  /\ cache' = Request(chain, cache)
  /\ chain' = onDisk
  /\ onDisk' = <<>>
  /\ stale' = TRUE
  /\ UNCHANGED limits

(* A new process: the cache starts empty and init updates the limits. *)
Restart ==
  /\ onDisk = <<>>
  /\ UpdateLimits(chain, NoCache)
  /\ UNCHANGED <<chain, onDisk>>

Next ==
  \/ StartBatch \/ CommitBatch \/ AbortBatch \/ Restart
  \/ \E weight \in Weights : AddBlock(weight)
  \/ \E n \in 1..MaxHeight : PopBlocks(n)

Spec == Init /\ [][Next]_vars
-----------------------------------------------------------------------------
(* Type invariant: the chains hold blocks and the genesis block stays. *)
TypeOK ==
  /\ chain \in Seq(Block) /\ Len(chain) \in 1..MaxHeight
  /\ onDisk \in Seq(Block) /\ Len(onDisk) \in 0..MaxHeight
  /\ limits \in [effective : Nat, median : Nat]
  /\ cache \in [tip : Seq(Block), window : Seq(Nat)]
  /\ stale \in BOOLEAN

(* The cached weights are those of the window that ends at the block the   *)
(* cache is filed under, whether that block is on the chain, was popped,   *)
(* or never reached the disk: a later hit or shift starts from the truth.  *)
CacheKeyed == cache.tip # NoTip => cache.window = LongWindow(cache.tip)

(* get_dynamic_base_fee_estimate_2021_scaling copies the cached median     *)
(* without asking for a window: unless a batch was just aborted it finds   *)
(* the window at the tip there, after additions, pops and restarts alike.  *)
EstimateWindow == ~stale => cache.window = LongWindow(chain)

(* The medians the next block is checked against are those of the chain    *)
(* it will extend, unless a batch was just aborted.                        *)
LimitsCurrent == ~stale => limits = LimitsFor(chain, Median(LongWindow(chain)))

(* Answering from the cache implements taking the median of the stored     *)
(* long term weights anew for every block.                                 *)
Ideal == INSTANCE LongTermMedian
ImplementsLongTermMedian == Ideal!Spec
=============================================================================
