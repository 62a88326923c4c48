----------------------------- MODULE BlockQueue -----------------------------
(***************************************************************************)
(* cryptonote_protocol/block_queue.cpp: the spans of blocks a node has     *)
(* asked its peers for (scheduled: no blocks yet) or has received          *)
(* (filled) and not yet added to its chain.  A queue is a value: spans by  *)
(* start height (the std::set orders and identifies spans by start height  *)
(* only, so a second span at the same height is not inserted), the hashes  *)
(* that are requested, and the heights of the hashes that are downloaded.  *)
(* Peers are not pruned: every pruning seed is 0.                          *)
(***************************************************************************)
EXTENDS Naturals, Sequences, FiniteSetsExt

EmptyQueue == [spans |-> <<>>, requested |-> {}, have |-> <<>>]

Starts(q) == DOMAIN q.spans
Filled(q, h) == q.spans[h].blocks /= <<>>
LastHeight(q, h) == h + q.spans[h].nblocks - 1
HashesOf(q, H) == UNION {Range(q.spans[h].hashes) : h \in H}

(* Mutant of Erase: the hashes of the spans stay requested. *)
EraseSpans(q, H) ==
  [q EXCEPT !.spans = Restrict(@, Starts(q) \ H),
            !.have = Restrict(@, DOMAIN @ \ HashesOf(q, H))]

(* erase_block, of every span that starts in H. *)
Erase(q, H) ==
  [spans |-> Restrict(q.spans, Starts(q) \ H),
   requested |-> q.requested \ HashesOf(q, H),
   have |-> Restrict(q.have, DOMAIN q.have \ HashesOf(q, H))]

(* blocks.insert: nothing happens when the height is taken. *)
Insert(q, h, span) ==
  IF h \in Starts(q)
    THEN q
    ELSE [q EXCEPT !.spans = [i \in Starts(q) \union {h} |->
                                IF i = h THEN span ELSE q.spans[i]]]

flush_spans(q, c, all) ==
  Erase(q, {h \in Starts(q) : q.spans[h].connection = c /\ (all \/ ~Filled(q, h))})

flush_stale_spans(q, live) ==
  Erase(q, {h \in Starts(q) : q.spans[h].connection \notin live /\ ~Filled(q, h)})

remove_spans(q, c, height) ==
  Erase(q, {h \in Starts(q) : q.spans[h].connection = c /\ h <= height})

Rehash(q, h, span, hashes) ==
  Insert([Erase(q, {h}) EXCEPT !.requested = @ \union Range(hashes)], h,
         [span EXCEPT !.hashes = hashes])

set_span_hashes(q, h, c, hashes) ==
  IF h \in Starts(q) /\ q.spans[h].connection = c
    THEN Rehash(q, h, q.spans[h], hashes)
    ELSE q

Span(n, c, blocks) == [nblocks |-> n, connection |-> c, blocks |-> blocks, hashes |-> <<>>]

(* add_blocks with blocks: the span takes over the hashes, not the size, of *)
(* the span it replaces; emplace keeps a height that is already there.      *)
Downloaded(q, h, hashes) ==
  [q EXCEPT !.requested = @ \union Range(hashes),
            !.have = [x \in DOMAIN @ \union Range(hashes) |->
                        IF x \in DOMAIN q.have
                          THEN q.have[x]
                          ELSE h + (CHOOSE i \in DOMAIN hashes : hashes[i] = x) - 1]]

(* Mutant of add_filled: a span that is replaced keeps its connection. *)
add_filled_for_owner(q, h, blocks, c) ==
  IF h \in Starts(q)
    THEN [q EXCEPT !.spans[h].blocks = blocks]
    ELSE Insert(q, h, Span(Len(blocks), c, blocks))

add_filled(q, h, blocks, c) ==
  IF h \in Starts(q)
    THEN set_span_hashes(
           Downloaded(Insert(Erase(q, {h}), h, Span(Len(blocks), c, blocks)), h, q.spans[h].hashes),
           h, c, q.spans[h].hashes)
    ELSE Insert(q, h, Span(Len(blocks), c, blocks))

-----------------------------------------------------------------------------
NoSpan == [start |-> 0, n |-> 0, hashes |-> <<>>]

(* The elements of a sequence that belong to a set, in their order. *)
Among(s, S) ==
  LET upTo[n \in 0 .. Len(s)] ==
        IF n = 0 THEN <<>>
          ELSE IF s[n] \in S THEN Append(upTo[n - 1], s[n]) ELSE upTo[n - 1]
  IN upTo[Len(s)]

(* The number of leading hashes that belong to a set. *)
Leading(hashes, S) ==
  CHOOSE n \in 0 .. Len(hashes) :
    /\ \A i \in 1 .. n : hashes[i] \in S
    /\ n < Len(hashes) => hashes[n + 1] \notin S

(* The span reserve_span takes from the hashes of the blocks up to height   *)
(* last: it starts at the first hash that is not requested and stops for    *)
(* its size only.                                                           *)
Reservable(q, last, max, hashes, skip) ==
  IF skip = Len(hashes)
    THEN NoSpan
    ELSE [start |-> last - Len(hashes) + 1 + skip,
          n |-> Min({max, Len(hashes) - skip}),
          hashes |-> SubSeq(hashes, skip + 1, skip + Min({max, Len(hashes) - skip}))]

SpanToReserve(q, first, last, max, hashes) ==
  IF last < first \/ max = 0 \/ Len(hashes) > last
    THEN NoSpan
    ELSE Reservable(q, last, max, hashes, Leading(hashes, q.requested))

reserve_span(q, span, c) ==
  IF span.n = 0 THEN q
    ELSE set_span_hashes(Insert(q, span.start, Span(span.n, c, <<>>)), span.start, c, span.hashes)

First(q) == Min(Starts(q))

get_next_span_if_scheduled(q) ==
  IF Starts(q) = {} \/ Filled(q, First(q)) THEN NoSpan
    ELSE [start |-> First(q), n |-> q.spans[First(q)].nblocks, hashes |-> q.spans[First(q)].hashes]

(* The height of the first filled span (get_next_span), 0 if there is none. *)
get_next_span(q) ==
  IF \E h \in Starts(q) : Filled(q, h) THEN Min({h \in Starts(q) : Filled(q, h)}) ELSE 0

has_next_span(q, height) == Starts(q) /= {} /\ First(q) <= height

get_num_filled_spans(q) == Cardinality({h \in Starts(q) : Filled(q, h)})
get_data_size(q) == MapThenSumSet(LAMBDA h : Len(q.spans[h].blocks), Starts(q))

(* get_next_needed_height: past the spans that follow on from the chain, the *)
(* first of which must be filled; spans below the chain's top are skipped.   *)
NextNeeded(q, height, acc, h) ==
  CASE acc.stop \/ LastHeight(q, h) < height -> acc
    [] ~acc.stop /\ LastHeight(q, h) >= height
       /\ (h /= acc.needed \/ (acc.first /\ ~Filled(q, h))) -> [acc EXCEPT !.stop = TRUE]
    [] OTHER -> [needed |-> h + q.spans[h].nblocks, first |-> FALSE, stop |-> FALSE]

get_next_needed_height(q, height) ==
  MapThenFoldSet(LAMBDA h, acc : NextNeeded(q, height, acc, h),
                 [needed |-> height, first |-> TRUE, stop |-> FALSE],
                 LAMBDA h : h, Max, Starts(q)).needed
=============================================================================
