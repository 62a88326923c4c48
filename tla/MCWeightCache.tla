--------------------------- MODULE MCWeightCache ----------------------------
(***************************************************************************)
(* WeightCache together with the rolling median that holds its window: the *)
(* heap gets exactly the clears and insertions that the requests make.     *)
(***************************************************************************)
EXTENDS WeightCache, SequencesExt

CONSTANT Unwritten

VARIABLE rolling   \* m_long_term_block_weights_cache_rolling_median

RM == INSTANCE RollingMedian WITH N <- LONG_TERM_WINDOW

mcVars == <<vars, rolling>>

(* Version 17 up to height 1 and 21 from height 2, as on mainnet. *)
MCVersionAt(h) == IF h < 2 THEN 17 ELSE 21

(* The heap after the request Request(c, k). *)
RequestHeap(c, k, m) ==
  IF Hit(c, k) THEN m
  ELSE IF Shift(c, k) THEN RM!insert(m, c[Len(c)].longWeight)
  ELSE FoldLeft(RM!insert, RM!Clear(m.data), LongWindow(c))

MCInit == Init /\ rolling = RequestHeap(chain, NoCache, RM!New)

MCNext ==
  \/ (StartBatch \/ CommitBatch) /\ UNCHANGED rolling
  \/ AbortBatch /\ rolling' = RequestHeap(chain, cache, rolling)
  \/ Restart /\ rolling' = RequestHeap(chain, NoCache, RM!New)
  \/ \E weight \in Weights :
       /\ AddBlock(weight)
       /\ rolling' = RequestHeap(chain', Request(chain, cache),
                                 RequestHeap(chain, cache, rolling))
  \/ \E n \in 1..MaxHeight :
       PopBlocks(n) /\ rolling' = RequestHeap(chain', cache, rolling)

MCSpec == MCInit /\ [][MCNext]_mcVars

(* The copy of get_dynamic_base_fee_estimate_2021_scaling after this many  *)
(* blocks of weight 0.                                                     *)
Zeros(grace) == [i \in 1..grace |-> 0]
AfterGrace(grace) == FoldLeft(RM!insert, rolling, Zeros(grace))

(* The rolling median holds the cached window in order and its middle is   *)
(* the window's median, after any mixture of clears and insertions, and    *)
(* still after the insertions of zeros the fee estimate makes in its copy. *)
HeapAgrees ==
  \A grace \in 0..(LONG_TERM_WINDOW + 1) :
    LET m == AfterGrace(grace)
        w == LastN(cache.window \o Zeros(grace), LONG_TERM_WINDOW)
    IN  RM!Contents(m) = w /\ RM!median(m) = Median(w)
=============================================================================
