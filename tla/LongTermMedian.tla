--------------------------- MODULE LongTermMedian ---------------------------
(***************************************************************************)
(* What the weight rules promise: every median is that of the blocks on    *)
(* the chain, however the chain came to be what it is.  WeightCache, which *)
(* answers from a cache as the code does, implements this specification.   *)
(***************************************************************************)
EXTENDS WeightedChain

VARIABLES
  chain,    \* the main chain as the database shows it
  onDisk,   \* the chain an abort of the open batch returns to, <<>> when none
  limits    \* the medians the next block is checked against

vars == <<chain, onDisk, limits>>

LongMedian(c) == Median(LongWindow(c))
-----------------------------------------------------------------------------
Init ==
  /\ chain = <<Genesis>>
  /\ onDisk = <<>>
  /\ limits = LimitsFor(chain, LongMedian(chain))

StartBatch ==
  /\ onDisk = <<>>
  /\ onDisk' = chain
  /\ UNCHANGED <<chain, limits>>

AddBlock(weight) ==
  /\ onDisk # <<>>
  /\ Len(chain) < MaxHeight
  /\ chain' = Append(chain, Stored(chain, weight, LongMedian(chain)))
  /\ limits' = LimitsFor(chain', LongMedian(chain'))
  /\ UNCHANGED onDisk

PopBlocks(n) ==
  /\ n < Len(chain)
  /\ chain' = SubSeq(chain, 1, Len(chain) - n)
  /\ limits' = LimitsFor(chain', LongMedian(chain'))
  /\ UNCHANGED onDisk

CommitBatch ==
  /\ onDisk # <<>>
  /\ onDisk' = <<>>
  /\ UNCHANGED <<chain, limits>>

(* The limits stay those of the blocks that are gone. *)
AbortBatch ==
  /\ onDisk # <<>>
  /\ chain' = onDisk
  /\ onDisk' = <<>>
  /\ UNCHANGED limits

Restart ==
  /\ onDisk = <<>>
  /\ limits' = LimitsFor(chain, LongMedian(chain))
  /\ UNCHANGED <<chain, onDisk>>

Next ==
  \/ StartBatch \/ CommitBatch \/ AbortBatch \/ Restart
  \/ \E weight \in Weights : AddBlock(weight)
  \/ \E n \in 1..MaxHeight : PopBlocks(n)

Spec == Init /\ [][Next]_vars
=============================================================================
