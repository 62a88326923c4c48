-------------------------- MODULE BlockSyncLemmas ---------------------------
(***************************************************************************)
(* Proofs about BlockSync for any number of connections, any tree of       *)
(* blocks, any thresholds and any bound on faults.                         *)
(*                                                                         *)
(* IInv is about shapes: the hashes that count as requested are those the  *)
(* spans of the queue are to bring, and no connection is left without a    *)
(* request, a callback or a handler unless a span was refused.  It is      *)
(* proved to be invariant here.                                            *)
(*                                                                         *)
(* DInv, on top of IInv, is about data: the blocks of a span are those its *)
(* peer has at its heights, every list of hashes is a run of one branch at *)
(* the heights the code counts back to, an unanswered request is the one   *)
(* the context expects, only the holder of the lock adds blocks, and the   *)
(* target is no lower than a peer the node has not caught up with.  Here   *)
(* is what the operations make of such data, from TreeAssumption and       *)
(* ConnectionAssumption; BlockSyncProofs proves that DInv is invariant.    *)
(***************************************************************************)
EXTENDS BlockSync, Integers, TLAPS, FiniteSetTheorems, NaturalsInduction, WellFoundedInduction

(* The queue.  Each requested hash is among the hashes of a span of the     *)
(* queue, each downloaded one is requested.  Between the two halves of      *)
(* add_blocks and of set_span_hashes the queue is covered but for the       *)
(* hashes of the span at hand, so the lemmas are stated for a queue that is *)
(* covered but for a set of hashes.                                         *)

(* The fields of a span, and of the queue. *)
Spanned(s) == DOMAIN s = {"nblocks", "connection", "blocks", "hashes"}

IsQueue(q) == DOMAIN q = {"spans", "requested", "have"}

(* The queue has its shape, and is covered but for the hashes in R. *)
CoveredBut(q, R) ==
  /\ IsQueue(q)
  /\ \A h \in Starts(q) : Spanned(q.spans[h])
  /\ q.requested \subseteq HashesOf(q, Starts(q)) \union R
  /\ DOMAIN q.have \subseteq q.requested

Covered(q) == CoveredBut(q, {})

(* Leaves are for Zenon unless they say SMT. *)
USE ZenonT(30)

LEMMA InHashes ==
  ASSUME NEW q, NEW H, NEW x
  PROVE  x \in HashesOf(q, H) <=> \E h \in H : x \in Range(q.spans[h].hashes)
  BY ZenonT(30) DEF HashesOf

LEMMA EraseFields ==
  ASSUME NEW q, NEW H
  PROVE  /\ IsQueue(Erase(q, H))
         /\ Starts(Erase(q, H)) = Starts(q) \ H
         /\ \A h \in Starts(q) \ H : Erase(q, H).spans[h] = q.spans[h]
         /\ Erase(q, H).requested = q.requested \ HashesOf(q, H)
         /\ DOMAIN Erase(q, H).have = DOMAIN q.have \ HashesOf(q, H)
  <1>1. /\ Erase(q, H).spans = Restrict(q.spans, Starts(q) \ H)
        /\ Erase(q, H).requested = q.requested \ HashesOf(q, H)
        /\ Erase(q, H).have = Restrict(q.have, DOMAIN q.have \ HashesOf(q, H))
        /\ IsQueue(Erase(q, H))
    BY DEF Erase, IsQueue
  <1>2. /\ Starts(Erase(q, H)) = Starts(q) \ H
        /\ \A h \in Starts(q) \ H : Erase(q, H).spans[h] = q.spans[h]
    BY <1>1 DEF Starts, Restrict
  <1>3. DOMAIN Erase(q, H).have = DOMAIN q.have \ HashesOf(q, H)
    BY <1>1 DEF Restrict
  <1> QED BY <1>1, <1>2, <1>3

(* erase_block takes out the hashes of the spans it erases, and only those. *)
LEMMA EraseCovered ==
  ASSUME NEW q, NEW H, NEW R, CoveredBut(q, R)
  PROVE  CoveredBut(Erase(q, H), R)
  <1>1. ASSUME NEW x \in Erase(q, H).requested, x \notin R
        PROVE  x \in HashesOf(Erase(q, H), Starts(Erase(q, H)))
    <2>1. x \in HashesOf(q, Starts(q)) /\ x \notin HashesOf(q, H)
      BY SMTT(30), <1>1, EraseFields DEF CoveredBut
    <2>2. PICK h \in Starts(q) : x \in Range(q.spans[h].hashes)
      BY <2>1, InHashes, ZenonT(30)
    <2>3. h \in Starts(q) \ H
      BY <2>1, <2>2, InHashes
    <2> QED BY SMTT(30), <2>2, <2>3, EraseFields, InHashes
  <1>2. DOMAIN Erase(q, H).have \subseteq Erase(q, H).requested
    BY SMTT(30), EraseFields DEF CoveredBut
  <1>3. \A h \in Starts(Erase(q, H)) : Spanned(Erase(q, H).spans[h])
    BY SMTT(30), EraseFields DEF CoveredBut
  <1> QED BY <1>1, <1>2, <1>3, EraseFields DEF CoveredBut

LEMMA InsertFields ==
  ASSUME NEW q, NEW h, NEW span, IsQueue(q), h \notin Starts(q)
  PROVE  /\ IsQueue(Insert(q, h, span))
         /\ Starts(Insert(q, h, span)) = Starts(q) \union {h}
         /\ Insert(q, h, span).spans[h] = span
         /\ \A i \in Starts(q) : Insert(q, h, span).spans[i] = q.spans[i]
         /\ Insert(q, h, span).requested = q.requested
         /\ Insert(q, h, span).have = q.have
  <1>1. /\ Insert(q, h, span).spans =
             [i \in Starts(q) \union {h} |-> IF i = h THEN span ELSE q.spans[i]]
        /\ Insert(q, h, span).requested = q.requested
        /\ Insert(q, h, span).have = q.have
        /\ IsQueue(Insert(q, h, span))
    BY DEF Insert, IsQueue
  <1>2. /\ Starts(Insert(q, h, span)) = Starts(q) \union {h}
        /\ Insert(q, h, span).spans[h] = span
        /\ \A i \in Starts(q) : Insert(q, h, span).spans[i] = q.spans[i]
    BY <1>1 DEF Starts
  <1> QED BY <1>1, <1>2

LEMMA InsertCovered ==
  ASSUME NEW q, NEW h, NEW span, NEW R, Spanned(span),
         CoveredBut(q, R \union Range(span.hashes)), h \notin Starts(q)
  PROVE  CoveredBut(Insert(q, h, span), R)
  <1> DEFINE g == Insert(q, h, span)
  <1>1. /\ IsQueue(g) /\ Starts(g) = Starts(q) \union {h} /\ g.spans[h] = span
        /\ \A i \in Starts(q) : g.spans[i] = q.spans[i]
        /\ g.requested = q.requested /\ g.have = q.have
    BY SMTT(30), InsertFields DEF CoveredBut
  <1> HIDE DEF g
  <1>2. ASSUME NEW x \in g.requested, x \notin R
        PROVE  x \in HashesOf(g, Starts(g))
    <2>1. CASE x \in Range(span.hashes)
      BY <1>1, <2>1, InHashes
    <2>2. CASE x \notin Range(span.hashes)
      <3>1. x \in HashesOf(q, Starts(q))
        BY <1>1, <1>2, <2>2 DEF CoveredBut
      <3>2. PICK i \in Starts(q) : x \in Range(q.spans[i].hashes)
        BY <3>1, InHashes, ZenonT(30)
      <3> QED BY <1>1, <3>2, InHashes
    <2> QED BY <2>1, <2>2
  <1>3. \A i \in Starts(g) : Spanned(g.spans[i])
    BY <1>1 DEF CoveredBut
  <1>4. DOMAIN g.have \subseteq g.requested
    BY <1>1 DEF CoveredBut
  <1>5. CoveredBut(g, R)
    BY <1>1, <1>2, <1>3, <1>4 DEF CoveredBut
  <1> QED BY <1>5 DEF g

(* A span may be inserted whatever its hashes are; nothing happens when the *)
(* height is taken.                                                         *)
LEMMA InsertKeeps ==
  ASSUME NEW q, NEW h, NEW span, Spanned(span), Covered(q)
  PROVE  Covered(Insert(q, h, span))
  <1>1. CASE h \in Starts(q)
    BY <1>1 DEF Insert
  <1>2. CASE h \notin Starts(q)
    <2>1. CoveredBut(q, {} \union Range(span.hashes))
      BY DEF Covered, CoveredBut
    <2> QED BY <1>2, <2>1, InsertCovered DEF Covered
  <1> QED BY <1>1, <1>2

(* More hashes are requested: they are what is not covered. *)
LEMMA RequestMore ==
  ASSUME NEW e, NEW R, CoveredBut(e, R)
  PROVE  CoveredBut([e EXCEPT !.requested = @ \union R], {} \union R)
         /\ Starts([e EXCEPT !.requested = @ \union R]) = Starts(e)
  <1> DEFINE f == [e EXCEPT !.requested = @ \union R]
  <1>1. /\ f.spans = e.spans /\ f.have = e.have /\ f.requested = e.requested \union R
        /\ IsQueue(f)
    BY DEF CoveredBut, IsQueue
  <1> HIDE DEF f
  <1>2. Starts(f) = Starts(e) /\ HashesOf(f, Starts(f)) = HashesOf(e, Starts(e))
    BY <1>1, ZenonT(30) DEF Starts, HashesOf
  <1>3. CoveredBut(f, {} \union R)
    BY <1>1, <1>2 DEF CoveredBut
  <1> QED BY <1>2, <1>3 DEF f

(* set_span_hashes puts the hashes it was given in place of the span's. *)
LEMMA RehashCovered ==
  ASSUME NEW q, NEW h, NEW span, NEW hashes, Spanned(span), CoveredBut(q, Range(hashes))
  PROVE  Covered(Rehash(q, h, span, hashes))
  <1> DEFINE e == Erase(q, {h})
             f == [e EXCEPT !.requested = @ \union Range(hashes)]
             s == [span EXCEPT !.hashes = hashes]
  <1>1. CoveredBut(e, Range(hashes)) /\ h \notin Starts(e)
    BY SMTT(30), EraseCovered, EraseFields
  <1>2. Spanned(s) /\ s.hashes = hashes
    BY DEF Spanned
  <1> HIDE DEF e, s
  <1>3. CoveredBut(f, {} \union Range(hashes)) /\ h \notin Starts(f)
    BY <1>1, RequestMore
  <1> HIDE DEF f
  <1>4. CoveredBut(Insert(f, h, s), {})
    BY <1>2, <1>3, InsertCovered
  <1> QED BY <1>4 DEF Rehash, Covered, e, f, s

LEMMA SetHashesCovered ==
  ASSUME NEW q, NEW h, NEW c, NEW hashes, Covered(q)
  PROVE  Covered(set_span_hashes(q, h, c, hashes))
  <1>1. CoveredBut(q, Range(hashes)) /\ \A i \in Starts(q) : Spanned(q.spans[i])
    BY DEF Covered, CoveredBut
  <1> QED BY <1>1, RehashCovered DEF set_span_hashes

LEMMA SpanSpanned ==
  ASSUME NEW n, NEW c, NEW blocks
  PROVE  Spanned(Span(n, c, blocks))
  BY DEF Span, Spanned

(* reserve_span, also when the height it would reserve is taken. *)
LEMMA ReserveCovered ==
  ASSUME NEW q, NEW span, NEW c, Covered(q)
  PROVE  Covered(reserve_span(q, span, c))
  BY InsertKeeps, SetHashesCovered, SpanSpanned DEF reserve_span

(* The hashes add_blocks takes over from the span it replaces. *)
LEMMA DownloadedFields ==
  ASSUME NEW q, NEW h, NEW hashes, Covered(q)
  PROVE  /\ CoveredBut(Downloaded(q, h, hashes), Range(hashes))
         /\ Downloaded(q, h, hashes).spans = q.spans
  <1> DEFINE f == Downloaded(q, h, hashes)
  <1>1. /\ f.spans = q.spans /\ f.requested = q.requested \union Range(hashes)
        /\ DOMAIN f.have = DOMAIN q.have \union Range(hashes) /\ IsQueue(f)
    BY DEF Downloaded, Covered, CoveredBut, IsQueue
  <1> HIDE DEF f
  <1>2. Starts(f) = Starts(q) /\ HashesOf(f, Starts(f)) = HashesOf(q, Starts(q))
    BY <1>1, ZenonT(30) DEF Starts, HashesOf
  <1>3. CoveredBut(f, Range(hashes))
    BY <1>1, <1>2 DEF Covered, CoveredBut
  <1> QED BY <1>1, <1>3 DEF f

(* add_blocks with blocks, over a span or not. *)
LEMMA AddFilledCovered ==
  ASSUME NEW q, NEW h, NEW blocks, NEW c, Covered(q)
  PROVE  Covered(add_filled(q, h, blocks, c))
  <1> DEFINE s == Span(Len(blocks), c, blocks)
  <1>1. Spanned(s) /\ s.connection = c
    BY SpanSpanned DEF Span
  <1> HIDE DEF s
  <1>2. CASE h \notin Starts(q)
    BY <1>1, <1>2, InsertKeeps DEF add_filled, s
  <1>3. CASE h \in Starts(q)
    <2> DEFINE e == Erase(q, {h})
               i == Insert(e, h, s)
               d == Downloaded(i, h, q.spans[h].hashes)
    <2>1. Covered(e) /\ h \notin Starts(e)
      BY SMTT(30), EraseCovered, EraseFields DEF Covered
    <2> HIDE DEF e
    <2>2. Covered(i) /\ h \in Starts(i) /\ i.spans[h] = s
      BY SMTT(30), <1>1, <2>1, InsertKeeps, InsertFields DEF Covered, CoveredBut
    <2> HIDE DEF i
    <2>3. CoveredBut(d, Range(q.spans[h].hashes)) /\ d.spans = i.spans
      BY <2>2, DownloadedFields
    <2> HIDE DEF d
    <2>4. h \in Starts(d) /\ d.spans[h] = s
      BY <2>2, <2>3 DEF Starts
    <2>5. Covered(Rehash(d, h, d.spans[h], q.spans[h].hashes))
      BY <1>1, <2>3, <2>4, RehashCovered
    <2>6. Covered(set_span_hashes(d, h, c, q.spans[h].hashes))
      BY <1>1, <2>4, <2>5 DEF set_span_hashes
    <2> QED BY <1>3, <2>6 DEF add_filled, d, i, e, s
  <1> QED BY <1>2, <1>3

LEMMA FlushCovered ==
  ASSUME NEW q, NEW c, NEW a, Covered(q)
  PROVE  /\ Covered(flush_spans(q, c, a))
         /\ Covered(flush_stale_spans(q, a))
         /\ Covered(remove_spans(q, c, a))
  BY EraseCovered, ZenonT(30) DEF Covered, flush_spans, flush_stale_spans, remove_spans

-----------------------------------------------------------------------------
(* What request_missing_objects guarantees on every path through it: the    *)
(* block queue stays covered, and unless the connection is to be dropped    *)
(* it is either parked or has a request on its way.                         *)

(* The shape of a connection's context. *)
Fields ==
  {"state", "needed", "hashes", "hstart", "requested", "lrh", "last", "expect", "eheight",
   "nreq", "score", "calls", "closing"}

IsContext(x) == DOMAIN x = Fields /\ x.calls \in Nat

(* What request_missing_objects leaves behind: it fails, it parks the         *)
(* connection, or a request is on its way.                                    *)
Sound(r) ==
  /\ DOMAIN r = {"x", "q", "sent", "end", "sync"}
  /\ IsContext(r.x)
  /\ Covered(r.q)
  /\ r.end = "drop" \/ r.x.state /= "synchronizing" \/ r.x.expect /= "none"

(* The ways out of request_missing_objects. *)
LEMMA FailsSound ==
  ASSUME NEW x, NEW q, IsContext(x), Covered(q)
  PROVE  Sound(Fails(x, q))
  BY DEF Sound, Fails, Result

LEMMA WaitsSound ==
  ASSUME NEW x, NEW q, IsContext(x), Covered(q)
  PROVE  /\ Sound(Stays(CalledBack(x), q))
         /\ Sound(Stays([x EXCEPT !.state = "standby"], q))
  <1>1. IsContext(CalledBack(x)) /\ CalledBack(x).state = "standby"
    BY SMTT(30) DEF IsContext, Fields, CalledBack
  <1>2. IsContext([x EXCEPT !.state = "standby"]) /\ [x EXCEPT !.state = "standby"].state = "standby"
    BY DEF IsContext, Fields
  <1> QED BY <1>1, <1>2 DEF Sound, Stays, Result

LEMMA NormalSound ==
  ASSUME NEW x, NEW q, NEW sync, IsContext(x), Covered(q)
  PROVE  Sound(GoesNormal(x, q, sync))
  <1>1. IsContext(set_state_normal(x)) /\ set_state_normal(x).state = "normal"
    BY DEF IsContext, Fields, set_state_normal
  <1> QED BY <1>1 DEF Sound, GoesNormal, Result

LEMMA AskForChainSound ==
  ASSUME NEW x, NEW q, IsContext(x), Covered(q)
  PROVE  Sound(AskForChain(x, q))
  <1>1. ASSUME NEW e, NEW ids
        PROVE  Sound(Result([x EXCEPT !.expect = "chain", !.eheight = e], q,
                            Ask("chain", ids), "stay", FALSE))
    <2> DEFINE y == [x EXCEPT !.expect = "chain", !.eheight = e]
    <2>1. IsContext(y) /\ y.expect = "chain"
      BY DEF IsContext, Fields
    <2> HIDE DEF y
    <2>2. Sound(Result(y, q, Ask("chain", ids), "stay", FALSE))
      BY <2>1 DEF Sound, Result
    <2> QED BY <2>2 DEF y
  <1> QED BY <1>1, ZenonT(30) DEF AskForChain

LEMMA NeedHashesSound ==
  ASSUME NEW c, NEW x, NEW q, IsContext(x), Covered(q)
  PROVE  Sound(NeedHashes(c, x, q))
  BY WaitsSound, AskForChainSound, NormalSound, FailsSound, ZenonT(30) DEF NeedHashes

LEMMA AskForSpanSound ==
  ASSUME NEW x, NEW q, NEW span, IsContext(x), Covered(q)
  PROVE  Sound(AskForSpan(x, q, span))
  <1> DEFINE y == [x EXCEPT !.expect = "objects", !.eheight = span.start,
                            !.nreq = @ + Len(span.hashes),
                            !.requested = @ \union Range(span.hashes)]
  <1>1. IsContext(y) /\ y.expect = "objects"
    BY DEF IsContext, Fields
  <1> HIDE DEF y
  <1>2. Sound(Result(y, q, Ask("objects", span.hashes), "stay", FALSE))
    BY <1>1 DEF Sound, Result
  <1> QED BY <1>2 DEF AskForSpan, y

LEMMA DoneSound ==
  ASSUME NEW c, NEW x, NEW q, IsContext(x), Covered(q)
  PROVE  Sound(Done(c, x, q)) /\ Sound(NoSpanLeft(x, q))
  BY NormalSound, FailsSound, ZenonT(30) DEF Done, NoSpanLeft

(* The fields request_missing_objects changes before it decides. *)
LEMMA ContextKept ==
  ASSUME NEW x, NEW v, NEW w, NEW n, IsContext(x)
  PROVE  /\ IsContext([x EXCEPT !.needed = v])
         /\ IsContext([x EXCEPT !.needed = v, !.lrh = w])
         /\ IsContext([x EXCEPT !.state = v])
         /\ IsContext(Skip(x, n))
  <1>1. /\ IsContext([x EXCEPT !.needed = v])
        /\ IsContext([x EXCEPT !.needed = v, !.lrh = w])
        /\ IsContext([x EXCEPT !.state = v])
    BY DEF IsContext, Fields
  <1>2. IsContext(Skip(x, n))
    BY DEF IsContext, Fields, Skip
  <1> QED BY <1>1, <1>2

LEMMA ReserveSound ==
  ASSUME NEW c, NEW x, NEW q, NEW span, NEW force, IsContext(x), Covered(q)
  PROVE  Sound(Reserve(c, x, q, span, force))
  <1>1. IsContext(TakeNeeded(x, span))
    BY ContextKept, ZenonT(30) DEF TakeNeeded
  <1>2. Sound(AskForSpan(TakeNeeded(x, span), reserve_span(q, span, c), span))
    BY <1>1, ReserveCovered, AskForSpanSound
  <1>3. ASSUME NEW next PROVE Sound(TakeNext(x, q, next))
    BY ContextKept, DoneSound, AskForSpanSound, ZenonT(30) DEF TakeNext
  <1> QED BY <1>2, <1>3, DoneSound, ZenonT(30) DEF Reserve

LEMMA RequestSound ==
  ASSUME NEW c, NEW x, NEW q, NEW force, NEW next, IsContext(x), Covered(q)
  PROVE  Sound(Request(c, x, q, force, next))
  <1>1. ASSUME NEW n PROVE Sound(FindSpan(c, x, q, force, n))
    BY ContextKept, DoneSound, ReserveSound, ZenonT(30) DEF FindSpan, ReserveFrom
  <1>2. Sound(NeedHashes(c, [x EXCEPT !.needed = <<>>, !.lrh = 0], q))
    BY ContextKept, NeedHashesSound
  <1> QED BY <1>1, <1>2, NeedHashesSound, AskForSpanSound, ZenonT(30) DEF Request

(* request_missing_objects as a whole, from any state of the connection. *)
LEMMA RequestMissingSound ==
  ASSUME NEW c, NEW x, NEW q, NEW force, NEW late, NEW wedged, IsContext(x), Covered(q)
  PROVE  Sound(request_missing_objects(c, x, q, force, late, wedged))
  <1> DEFINE f == flush_stale_spans(q, Live)
  <1>1. Covered(f)
    BY FlushCovered
  <1> HIDE DEF f
  <1>2. ASSUME NEW y, IsContext(y), NEW b PROVE Sound(Download(c, y, f, b))
    BY <1>1, <1>2, RequestSound DEF Download
  <1>3. ASSUME NEW y, IsContext(y) PROVE Sound(Pause(y, f, wedged))
    BY <1>1, <1>3, WaitsSound, FailsSound, ZenonT(30) DEF Pause
  <1>4. ASSUME NEW y, IsContext(y) PROVE Sound(Unforced(c, y, f, late, wedged))
    BY <1>2, <1>3, <1>4, ContextKept, ZenonT(30) DEF Unforced
  <1>5. ASSUME NEW n PROVE Sound(Unskipped(c, x, f, late, wedged, n))
    BY <1>1, <1>4, ContextKept, DoneSound, ZenonT(30) DEF Unskipped
  <1>6. Sound(MissingObjects(c, x, f, force, late, wedged))
    BY <1>2, <1>5, ZenonT(30) DEF MissingObjects
  <1> QED BY <1>6 DEF request_missing_objects, f

-----------------------------------------------------------------------------
(* The invariants. *)

(* Something will look at the connection again: it is closing, it is not     *)
(* synchronizing, an answer is expected or a callback is pending.             *)
Kept(x) ==
  x.closing \/ x.state /= "synchronizing" \/ x.expect /= "none" \/ x.calls > 0

(* The inductive invariant. *)
IInv ==
  /\ Covered(queue)
  /\ DOMAIN ctx = Conn /\ DOMAIN pc = Conn
  /\ \A c \in Conn : IsContext(ctx[c])
  /\ \A c \in Conn : pc[c] = "ready" => Kept(ctx[c]) \/ failed

LEMMA InitIInv == Init => IInv
  <1> SUFFICES ASSUME Init PROVE IInv
    OBVIOUS
  <1>1. Covered(queue)
    <2>1. IsQueue(queue) /\ Starts(queue) = {} /\ queue.requested = {} /\ DOMAIN queue.have = {}
      BY SMTT(30) DEF Init, EmptyQueue, IsQueue, Starts
    <2> QED BY <2>1 DEF Covered, CoveredBut
  <1>2. IsContext(Closed) /\ Kept(Closed)
    BY DEF IsContext, Fields, Closed, Kept
  <1> QED BY <1>1, <1>2 DEF Init, IInv

(* A step that changes the context and the handler of c only. *)
LEMMA StepKeeps ==
  ASSUME IInv, NEW c \in Conn, NEW y, IsContext(y),
         ctx' = [ctx EXCEPT ![c] = y],
         DOMAIN pc' = Conn, \A d \in Conn \ {c} : pc'[d] = pc[d],
         pc'[c] = "ready" => Kept(y) \/ failed',
         failed => failed', Covered(queue')
  PROVE  IInv'
  <1>1. DOMAIN ctx' = Conn /\ ctx'[c] = y /\ \A d \in Conn \ {c} : ctx'[d] = ctx[d]
    BY DEF IInv
  <1>2. \A d \in Conn : IsContext(ctx'[d])
    BY <1>1 DEF IInv
  <1>3. ASSUME NEW d \in Conn, pc'[d] = "ready" PROVE Kept(ctx'[d]) \/ failed'
    <2>1. CASE d = c
      BY <1>1, <1>3, <2>1
    <2>2. CASE d /= c
      BY <1>1, <1>3, <2>2 DEF IInv
    <2> QED BY <2>1, <2>2
  <1> QED BY <1>1, <1>2, <1>3 DEF IInv

(* A step that leaves the contexts alone. *)
LEMMA StepIdle ==
  ASSUME IInv, NEW c \in Conn, ctx' = ctx,
         DOMAIN pc' = Conn, \A d \in Conn \ {c} : pc'[d] = pc[d],
         pc'[c] = "ready" => Kept(ctx[c]) \/ failed',
         failed => failed', Covered(queue')
  PROVE  IInv'
  <1>1. ASSUME NEW d \in Conn, pc'[d] = "ready" PROVE Kept(ctx'[d]) \/ failed'
    <2>1. CASE d = c
      BY <1>1, <2>1
    <2>2. CASE d /= c
      BY <1>1, <2>2 DEF IInv
    <2> QED BY <2>1, <2>2
  <1> QED BY <1>1 DEF IInv

LEMMA DroppingKept ==
  ASSUME NEW x, IsContext(x)
  PROVE  IsContext(Dropping(x)) /\ Kept(Dropping(x))
  BY DEF IsContext, Fields, Dropping, Kept

(* drop_connection *)
LEMMA DropKeeps ==
  ASSUME IInv, NEW c \in Conn, NEW why, Drop(c, why), UNCHANGED pc, UNCHANGED failed
  PROVE  IInv'
  <1>1. IsContext(Dropping(ctx[c])) /\ Kept(Dropping(ctx[c]))
    BY DroppingKept DEF IInv
  <1>2. ctx' = [ctx EXCEPT ![c] = Dropping(ctx[c])] /\ Covered(queue')
    BY FlushCovered DEF Drop, IInv
  <1> QED BY <1>1, <1>2, StepKeeps DEF IInv

(* A handler that ends with what request_missing_objects leaves behind. *)
LEMMA EndsKeeps ==
  ASSUME IInv, NEW c \in Conn, NEW r, Sound(r), Ends(c, r),
         pc' = [pc EXCEPT ![c] = "ready"], UNCHANGED failed
  PROVE  IInv'
  <1>1. IsContext(r.x) /\ Covered(r.q)
    BY DEF Sound
  <1>2. CASE r.end = "drop"
    <2>1. ctx' = [ctx EXCEPT ![c] = Dropping(r.x)] /\ queue' = flush_spans(r.q, c, FALSE)
      BY <1>2 DEF Ends
    <2> QED BY <1>1, <2>1, DroppingKept, FlushCovered, StepKeeps DEF IInv
  <1>3. CASE r.end /= "drop"
    <2>1. ctx' = [ctx EXCEPT ![c] = r.x] /\ queue' = r.q
      BY <1>3 DEF Ends
    <2>2. Kept(r.x)
      BY <1>3 DEF Sound, Kept
    <2> QED BY <1>1, <2>1, <2>2, StepKeeps DEF IInv
  <1> QED BY <1>2, <1>3

-----------------------------------------------------------------------------
(* One lemma per action. *)
LEMMA SyncDataKeeps ==
  ASSUME IInv, NEW c \in Conn, NEW x, NEW initial, IsContext(x), SyncData(c, x, initial),
         UNCHANGED <<queue, pc, failed>>
  PROVE  IInv'
  <1> DEFINE y == IF HasBlock(top[c])
                    THEN set_state_normal(x)
                    ELSE [x EXCEPT !.state = "synchronizing", !.calls = @ + 1, !.nreq = 0]
  <1>1. ctx' = [ctx EXCEPT ![c] = y]
    BY DEF SyncData
  <1>2. IsContext(y) /\ Kept(y)
    <2>1. IsContext(set_state_normal(x)) /\ Kept(set_state_normal(x))
      BY DEF IsContext, Fields, set_state_normal, Kept
    <2> DEFINE z == [x EXCEPT !.state = "synchronizing", !.calls = @ + 1, !.nreq = 0]
    <2>2. IsContext(z) /\ z.calls = x.calls + 1
      BY SMTT(30) DEF IsContext, Fields
    <2>3. Kept(z)
      BY SMTT(30), <2>2 DEF IsContext, Kept
    <2> QED BY <2>1, <2>2, <2>3
  <1> HIDE DEF y
  <1> QED BY <1>1, <1>2, StepKeeps DEF IInv

LEMMA CheckStandbyKeeps ==
  ASSUME IInv, NEW c \in Conn, CheckStandby(c)
  PROVE  IInv'
  <1> DEFINE y == [ctx[c] EXCEPT !.calls = @ + 1]
  <1>1. ctx' = [ctx EXCEPT ![c] = y]
    BY DEF CheckStandby
  <1>2. IsContext(y) /\ y.calls = ctx[c].calls + 1 /\ ctx[c].calls \in Nat
    BY SMTT(30) DEF IInv, IsContext, Fields
  <1> HIDE DEF y
  <1>3. Kept(y)
    BY SMTT(30), <1>2 DEF Kept
  <1> QED BY <1>1, <1>2, <1>3, StepKeeps DEF CheckStandby, IInv

LEMMA CallbackKeeps ==
  ASSUME IInv, NEW c \in Conn, Callback(c)
  PROVE  IInv'
  <1>1. IsContext(ctx[c]) /\ ctx[c].calls > 0 /\ pc[c] = "ready"
    BY DEF IInv, Callback, Ready
  <1>2. CASE ctx[c].state = "synchronizing" /\ ctx[c].expect = "none"
    <2> DEFINE y == [ctx[c] EXCEPT !.calls = @ - 1, !.needed = <<>>, !.eheight = Height,
                                   !.expect = "chain"]
    <2>1. ctx' = [ctx EXCEPT ![c] = y] /\ UNCHANGED pc
      BY <1>2 DEF Callback
    <2>2. IsContext(y) /\ y.expect = "chain"
      BY SMTT(30), <1>1 DEF IsContext, Fields
    <2> HIDE DEF y
    <2> QED BY <2>1, <2>2, StepKeeps DEF Callback, IInv, Kept
  <1>3. CASE ~(ctx[c].state = "synchronizing" /\ ctx[c].expect = "none")
    <2> DEFINE y == [ctx[c] EXCEPT !.calls = @ - 1,
                                   !.state = IF @ = "standby" THEN "synchronizing" ELSE @]
    <2>1. /\ ctx' = [ctx EXCEPT ![c] = y]
          /\ pc' = [pc EXCEPT ![c] = IF ctx[c].state = "standby" THEN "try" ELSE @]
      BY <1>3 DEF Callback
    <2>2. /\ IsContext(y) /\ y.expect = ctx[c].expect
          /\ y.state = IF ctx[c].state = "standby" THEN "synchronizing" ELSE ctx[c].state
      BY SMTT(30), <1>1 DEF IsContext, Fields
    <2> HIDE DEF y
    <2>3. pc'[c] = "ready" => Kept(y)
      BY <1>3, <2>1, <2>2 DEF Kept, IInv
    <2> QED BY <2>1, <2>2, <2>3, StepKeeps DEF Callback, IInv
  <1> QED BY <1>2, <1>3

LEMMA IdleCallbackKeeps ==
  ASSUME IInv, NEW c \in Conn, IdleCallback(c)
  PROVE  IInv'
  <1>1. CASE ctx[c].score >= 0
    <2> DEFINE y == [ctx[c] EXCEPT !.score = @ - 1, !.expect = "none", !.eheight = 0,
                                   !.requested = {}]
    <2>1. /\ ctx' = [ctx EXCEPT ![c] = y]
          /\ pc' = [pc EXCEPT ![c] = "try"] /\ UNCHANGED queue
      BY <1>1 DEF IdleCallback
    <2>2. IsContext(y)
      BY DEF IInv, IsContext, Fields
    <2> HIDE DEF y
    <2> QED BY <2>1, <2>2, StepKeeps DEF IdleCallback, IInv
  <1>2. CASE ~(ctx[c].score >= 0)
    BY <1>2, DropKeeps DEF IdleCallback
  <1> QED BY <1>1, <1>2

LEMMA ChainAnsweredKeeps ==
  ASSUME IInv, NEW c \in Conn, ChainAnswered(c)
  PROVE  IInv'
  <1>1. UNCHANGED failed
    BY DEF ChainAnswered
  <1>2. PICK start, ids : ChainEntry(c, start, ids)
    BY DEF ChainAnswered
  <1>3. CASE \E why : Drop(c, why) /\ UNCHANGED pc
    BY <1>1, <1>3, DropKeeps
  <1>4. CASE /\ ctx' = [ctx EXCEPT ![c] = Entry(@, start, ids)]
             /\ pc' = [pc EXCEPT ![c] = IF HasBlock(ids[1]) THEN "entry" ELSE "unknown"]
             /\ UNCHANGED queue
    <2>1. IsContext(Entry(ctx[c], start, ids))
      BY DEF IInv, IsContext, Fields, Entry
    <2> QED BY <1>1, <1>4, <2>1, StepKeeps DEF IInv
  <1> QED BY <1>2, <1>3, <1>4 DEF ChainEntry

LEMMA ChainCheckedKeeps ==
  ASSUME IInv, NEW c \in Conn, ChainChecked(c)
  PROVE  IInv'
  <1>1. UNCHANGED failed /\ pc' = [pc EXCEPT ![c] = "ready"]
    BY DEF ChainChecked
  <1>2. CASE BadEntry(c, ctx[c].hashes)
    <2>1. /\ ctx' = [ctx EXCEPT ![c] = Dropping(ctx[c])]
          /\ queue' = flush_spans(queue, c, FALSE)
      BY <1>2 DEF ChainChecked, Drop
    <2> QED BY <1>1, <2>1, DroppingKept, FlushCovered, StepKeeps DEF IInv
  <1>3. CASE ~BadEntry(c, ctx[c].hashes)
    <2>1. PICK late, wedged \in BOOLEAN :
            EntryTaken(c, request_missing_objects(c, ctx[c], queue, FALSE, late, wedged))
      BY <1>3 DEF ChainChecked
    <2> DEFINE r == request_missing_objects(c, ctx[c], queue, FALSE, late, wedged)
               t == [r EXCEPT !.x.nreq = 0]
    <2>2. Sound(r)
      BY RequestMissingSound DEF IInv
    <2>3. Ends(c, IF r.end = "drop" THEN r ELSE t)
      BY <2>1 DEF EntryTaken
    <2> HIDE DEF r
    <2>4. Sound(t)
      <3>1. /\ DOMAIN t = DOMAIN r /\ t.q = r.q /\ t.end = r.end
            /\ t.x = [r.x EXCEPT !.nreq = 0]
        BY <2>2 DEF Sound
      <3>2. IsContext(t.x) /\ t.x.state = r.x.state /\ t.x.expect = r.x.expect
        BY <2>2, <3>1 DEF Sound, IsContext, Fields
      <3> HIDE DEF t
      <3> QED BY <2>2, <3>1, <3>2 DEF Sound
    <2> HIDE DEF t
    <2> QED BY <1>1, <2>2, <2>3, <2>4, EndsKeeps
  <1> QED BY <1>2, <1>3

LEMMA ObjectsAnsweredKeeps ==
  ASSUME IInv, NEW c \in Conn, ObjectsAnswered(c)
  PROVE  IInv'
  <1>1. UNCHANGED failed
    BY DEF ObjectsAnswered
  <1>2. PICK blocks : Received(c, blocks)
    BY DEF ObjectsAnswered
  <1>3. CASE \E why : Drop(c, why) /\ UNCHANGED pc
    BY <1>1, <1>3, DropKeeps
  <1> DEFINE y == [ctx[c] EXCEPT !.expect = "none", !.requested = {}, !.last = blocks[Len(blocks)]]
  <1>4. CASE /\ queue' = add_filled(queue, HeightOf(blocks[1]), blocks, c)
             /\ ctx' = [ctx EXCEPT ![c] = y] /\ pc' = [pc EXCEPT ![c] = "try"]
    <2>1. IsContext(y)
      BY DEF IInv, IsContext, Fields
    <2> HIDE DEF y
    <2>2. Covered(queue')
      BY <1>4, AddFilledCovered DEF IInv
    <2> QED BY <1>1, <1>4, <2>1, <2>2, StepKeeps DEF IInv
  <1> QED BY <1>2, <1>3, <1>4 DEF Received

LEMMA TryLockKeeps ==
  ASSUME IInv, NEW c \in Conn, TryLock(c)
  PROVE  IInv'
  <1>1. PICK w \in {"adding", "request"} : pc' = [pc EXCEPT ![c] = w]
    BY DEF TryLock
  <1> QED BY <1>1, StepIdle DEF TryLock, IInv

LEMMA DropOwnerKeeps ==
  ASSUME IInv, NEW c \in Conn, NEW d, DropOwner(d), pc' = [pc EXCEPT ![c] = "ready"],
         failed'
  PROVE  IInv'
  <1>1. CASE d \in Live
    <2>1. d \in Conn
      BY <1>1 DEF Live
    <2>2. ctx' = [ctx EXCEPT ![d] = Dropping(ctx[d])] /\ Covered(queue')
      BY <1>1, FlushCovered DEF DropOwner, Drop, IInv
    <2>3. IsContext(Dropping(ctx[d]))
      BY <2>1, DroppingKept DEF IInv
    <2> QED BY <2>1, <2>2, <2>3 DEF IInv
  <1>2. CASE d \notin Live
    BY <1>2 DEF DropOwner, IInv
  <1> QED BY <1>1, <1>2

LEMMA StopAddingKeeps ==
  ASSUME IInv, NEW c \in Conn, StopAdding(c)
  PROVE  IInv'
  <1>1. PICK w \in {"force", "request"} : pc' = [pc EXCEPT ![c] = w]
    BY DEF StopAdding
  <1> QED BY <1>1, StepIdle DEF StopAdding, IInv

LEMMA NoParentKeeps ==
  ASSUME IInv, NEW c \in Conn, NEW h, NoParent(c, h)
  PROVE  IInv'
  <1>1. CASE DropOwner(OwnerAt(h)) /\ Leave(c, "ready") /\ failed' = TRUE
    BY <1>1, DropOwnerKeeps DEF Leave
  <1>2. CASE Leave(c, "request") /\ UNCHANGED <<queue, ctx, blamed, failed>>
    BY <1>2, StepIdle DEF Leave, IInv
  <1> DEFINE y == [ctx[c] EXCEPT !.needed = <<>>, !.lrh = 0]
  <1>3. CASE /\ queue' = remove_spans(queue, OwnerAt(h), h)
             /\ ctx' = [ctx EXCEPT ![c] = y]
             /\ Leave(c, "request") /\ UNCHANGED failed
    <2>1. IsContext(y) /\ Covered(queue')
      BY <1>3, ContextKept, FlushCovered DEF IInv
    <2> HIDE DEF y
    <2> QED BY <1>3, <2>1, StepKeeps DEF Leave, IInv
  <1> QED BY <1>1, <1>2, <1>3, StopAddingKeeps DEF NoParent

LEMMA PickSpanKeeps ==
  ASSUME IInv, NEW c \in Conn, PickSpan(c)
  PROVE  IInv'
  <1>1. PICK h : NextSpan(c, h) /\ pc[c] = "adding"
    BY DEF PickSpan
  <1>2. CASE /\ queue' = remove_spans(queue, OwnerAt(h), h)
             /\ UNCHANGED <<lock, pc, pick, ctx, blamed, failed>>
    <2>1. Covered(queue')
      BY <1>2, FlushCovered DEF IInv
    <2> QED BY <1>1, <1>2, <2>1, StepIdle DEF IInv
  <1>3. CASE pc' = [pc EXCEPT ![c] = "connecting"] /\ UNCHANGED <<queue, ctx, failed>>
    BY <1>3, StepIdle DEF IInv
  <1> QED BY <1>1, <1>2, <1>3, StopAddingKeeps, NoParentKeeps DEF NextSpan

LEMMA ConnectSpanKeeps ==
  ASSUME IInv, NEW c \in Conn, ConnectSpan(c)
  PROVE  IInv'
  <1>1. PICK d, h : SpanAdded(c, d, h) \/ SpanFailed(c, d, h)
    BY DEF ConnectSpan, Connected
  <1>2. CASE SpanAdded(c, d, h)
    <2>1. Covered(queue')
      BY <1>2, FlushCovered DEF SpanAdded, IInv
    <2> QED BY <1>2, <2>1, StepIdle DEF SpanAdded, IInv
  <1>3. CASE SpanFailed(c, d, h)
    <2>1. Covered(queue')
      BY <1>3, FlushCovered DEF SpanFailed, IInv
    <2>2. \A e \in Conn : IsContext(ctx'[e])
      BY <1>3, DroppingKept DEF SpanFailed, IInv, Live
    <2>3. DOMAIN ctx' = Conn /\ DOMAIN pc' = Conn /\ failed'
      BY <1>3 DEF SpanFailed, IInv
    <2> QED BY <2>1, <2>2, <2>3 DEF IInv
  <1> QED BY <1>1, <1>2, <1>3

LEMMA RequestMissingKeeps ==
  ASSUME IInv, NEW c \in Conn, RequestMissing(c)
  PROVE  IInv'
  <1>1. PICK late, wedged \in BOOLEAN :
          Ends(c, request_missing_objects(c, ctx[c], queue, pc[c] = "force", late, wedged))
    BY DEF RequestMissing
  <1>2. Sound(request_missing_objects(c, ctx[c], queue, pc[c] = "force", late, wedged))
    BY RequestMissingSound DEF IInv
  <1> QED BY <1>1, <1>2, EndsKeeps DEF RequestMissing

LEMMA CloseKeeps ==
  ASSUME IInv, NEW c \in Conn, PeerCloses(c) \/ ConnectionClosed(c)
  PROVE  IInv'
  <1>1. CASE PeerCloses(c)
    <2> DEFINE y == [ctx[c] EXCEPT !.closing = TRUE]
    <2>1. ctx' = [ctx EXCEPT ![c] = y]
      BY <1>1 DEF PeerCloses
    <2>2. IsContext(y) /\ Kept(y)
      BY DEF IInv, IsContext, Fields, Kept
    <2> HIDE DEF y
    <2> QED BY <1>1, <2>1, <2>2, StepKeeps DEF PeerCloses, IInv
  <1>2. CASE ConnectionClosed(c)
    <2>1. IsContext(Closed) /\ Kept(Closed)
      BY DEF IsContext, Fields, Closed, Kept
    <2>2. Covered(queue')
      BY <1>2, FlushCovered DEF ConnectionClosed, IInv
    <2> QED BY <1>2, <2>1, <2>2, StepKeeps DEF ConnectionClosed, IInv
  <1> QED BY <1>1, <1>2

LEMMA NextIInv == IInv /\ [Next]_vars => IInv'
  <1> SUFFICES ASSUME IInv, [Next]_vars PROVE IInv'
    OBVIOUS
  <1>1. CASE UNCHANGED vars
    BY <1>1 DEF vars, IInv
  <1>2. ASSUME NEW c \in Conn, Handshake(c) PROVE IInv'
    <2>1. IsContext(Closed)
      BY DEF IsContext, Fields, Closed
    <2> QED BY <1>2, <2>1, SyncDataKeeps DEF Handshake
  <1>3. ASSUME NEW c \in Conn, TimedSync(c) PROVE IInv'
    BY <1>3, SyncDataKeeps DEF TimedSync, IInv
  <1>4. ASSUME NEW c \in Conn, Handles(c) PROVE IInv'
    BY <1>4, CallbackKeeps, ChainAnsweredKeeps, ChainCheckedKeeps, ObjectsAnsweredKeeps,
       TryLockKeeps, PickSpanKeeps, ConnectSpanKeeps, RequestMissingKeeps, CloseKeeps, ZenonT(30)
       DEF Handles
  <1> QED BY <1>1, <1>2, <1>3, <1>4, CheckStandbyKeeps, IdleCallbackKeeps, CloseKeeps, ZenonT(30)
          DEF Next

LEMMA Invariance == Spec => []IInv
  BY InitIInv, NextIInv, PTL DEF Spec

(* However the handlers of any number of connections interleave, a hash is    *)
(* requested (block_queue's requested_hashes) only while a span of the queue  *)
(* is to bring it, and downloaded (have_blocks) only while it is requested.   *)
THEOREM RequestsAreCovered == Spec => []ReservationsCovered
  <1>1. IInv => ReservationsCovered
    BY DEF IInv, Covered, CoveredBut, ReservationsCovered
  <1> QED BY <1>1, Invariance, PTL

(* However they interleave, a connection that is synchronizing with no request *)
(* on its way, no callback pending and no handler running was left so by a     *)
(* span that try_add_next_blocks refused.                                      *)
THEOREM OnlyFailureStrands == Spec => []StrandedByFailure
  <1>1. IInv => StrandedByFailure
    BY SMTT(30) DEF IInv, Kept, IsContext, StrandedByFailure, Stranded, Ready
  <1> QED BY <1>1, Invariance, PTL

-----------------------------------------------------------------------------
(* Sequences. *)
LEMMA LenNat ==
  ASSUME NEW S, NEW s \in Seq(S)
  PROVE  Len(s) \in Nat
  BY SMTT(30)

LEMMA ElementIs ==
  ASSUME NEW S, NEW s \in Seq(S), NEW n \in 1 .. Len(s)
  PROVE  s[n] \in S
  BY SMTT(30)

LEMMA EmptyIs ==
  ASSUME NEW S
  PROVE  <<>> \in Seq(S) /\ Len(<<>>) = 0
  BY SMTT(30)

(* Induction over the naturals, for a set; least and greatest elements. *)
LEMMA Induction ==
  ASSUME NEW S, 0 \in S, \A n \in Nat : n \in S => n + 1 \in S
  PROVE  Nat \subseteq S
  <1> SUFFICES ASSUME ~(Nat \subseteq S) PROVE FALSE
    OBVIOUS
  <1> DEFINE T == Nat \ S
             R == OpToRel(<, Nat)
  <1>1. R = {p \in Nat \X Nat : p[1] < p[2]} /\ IsWellFoundedOn(R, Nat)
    BY NatLessThanWellFounded DEF OpToRel
  <1>2. T \subseteq Nat /\ T # {}
    OBVIOUS
  <1> HIDE DEF R
  <1>3. PICK x \in T : \A y \in T : <<y, x>> \notin R
    BY <1>1, <1>2, WFMin
  <1>4. x \in Nat /\ x - 1 \in Nat /\ x # 0 /\ (x - 1) + 1 = x
    BY SMTT(30)
  <1>5. <<x - 1, x>> \in {p \in Nat \X Nat : p[1] < p[2]}
    BY SMTT(30), <1>4
  <1>6. x - 1 \in S
    BY <1>1, <1>3, <1>4, <1>5
  <1> QED BY <1>4, <1>6

LEMMA LeastIn ==
  ASSUME NEW S, S \subseteq Nat, S # {}
  PROVE  \E x \in S : \A y \in S : x <= y
  <1> DEFINE R == OpToRel(<, Nat)
  <1>1. R = {p \in Nat \X Nat : p[1] < p[2]} /\ IsWellFoundedOn(R, Nat)
    BY NatLessThanWellFounded DEF OpToRel
  <1> HIDE DEF R
  <1>2. PICK x \in S : \A y \in S : <<y, x>> \notin R
    BY <1>1, WFMin
  <1>3. ASSUME NEW y \in S PROVE x <= y
    <2>1. <<y, x>> \notin {p \in Nat \X Nat : p[1] < p[2]}
      BY <1>1, <1>2
    <2> QED BY SMTT(30), <2>1
  <1> QED BY <1>3

LEMMA MinIs ==
  ASSUME NEW S, S \subseteq Nat, S # {}
  PROVE  Min(S) \in S /\ \A y \in S : Min(S) <= y
  BY LeastIn DEF Min

LEMMA MaxIs ==
  ASSUME NEW k \in Nat, NEW S, S \subseteq 0 .. k, S # {}
  PROVE  Max(S) \in S /\ \A y \in S : Max(S) >= y
  <1> DEFINE T == {k - x : x \in S}
  <1>1. T \subseteq Nat /\ T # {}
    BY SMTT(30)
  <1>2. PICK t \in T : \A u \in T : t <= u
    <2> HIDE DEF T
    <2> QED BY <1>1, LeastIn
  <1>3. PICK x \in S : t = k - x
    BY <1>2
  <1>4. ASSUME NEW y \in S PROVE x >= y
    <2>1. k - x <= k - y
      BY <1>2, <1>3
    <2>2. x \in 0 .. k /\ y \in 0 .. k
      OBVIOUS
    <2> QED BY SMTT(30), <2>1, <2>2
  <1> QED BY <1>4 DEF Max

LEMMA MaxOfTwo ==
  ASSUME NEW a \in Int, NEW b \in Int
  PROVE  Max({a, b}) = IF a >= b THEN a ELSE b
  <1>1. CASE a >= b
    BY SMTT(30), <1>1 DEF Max
  <1>2. CASE ~(a >= b)
    BY SMTT(30), <1>2 DEF Max
  <1> QED BY <1>1, <1>2

LEMMA MinOfTwo ==
  ASSUME NEW a \in Int, NEW b \in Int
  PROVE  Min({a, b}) = IF a <= b THEN a ELSE b
  <1>1. CASE a <= b
    BY SMTT(30), <1>1 DEF Min
  <1>2. CASE ~(a <= b)
    BY SMTT(30), <1>2 DEF Min
  <1> QED BY <1>1, <1>2

(* Loops.  T[i] holds the states after i rounds and g[i] is round i. *)
IsFold(f, b, g, T, n) ==
  /\ f = [i \in 0 .. n |-> IF i = 0 THEN b ELSE g[i][f[i - 1]]]
  /\ \A i \in 0 .. n : f[i] \in T[i]

LEMMA FoldExists ==
  ASSUME NEW n \in Nat, NEW T, NEW b \in T[0], NEW g, \A i \in 1 .. n : \A t \in T[i - 1] : g[i][t] \in T[i]
  PROVE  \E f : IsFold(f, b, g, T, n)
  <1> DEFINE S == {k \in Nat : k <= n => \E f : IsFold(f, b, g, T, k)}
  <1>1. 0 \in S
    <2> DEFINE f == [i \in 0 .. 0 |-> b]
    <2>1. \A i \in 0 .. 0 : i = 0
      BY SMTT(30)
    <2>2. f = [i \in 0 .. 0 |-> IF i = 0 THEN b ELSE g[i][f[i - 1]]]
      BY <2>1
    <2>3. IsFold(f, b, g, T, 0)
      BY <2>1, <2>2 DEF IsFold
    <2>4. 0 \in Nat
      BY SMTT(30)
    <2> QED BY <2>3, <2>4
  <1>2. ASSUME NEW k \in Nat, k \in S PROVE k + 1 \in S
    <2> SUFFICES ASSUME k + 1 <= n PROVE \E f : IsFold(f, b, g, T, k + 1)
      BY SMTT(30)
    <2>1. k <= n /\ k + 1 \in 1 .. n /\ (k + 1) - 1 = k /\ k \in 0 .. k /\ k + 1 # 0
      BY SMTT(30)
    <2>2. PICK f : IsFold(f, b, g, T, k)
      BY <1>2, <2>1
    <2> DEFINE e == [i \in 0 .. k + 1 |-> IF i = k + 1 THEN g[k + 1][f[k]] ELSE f[i]]
    <2>3. \A i \in 0 .. k + 1 : i = k + 1 \/ (i \in 0 .. k /\ i # k + 1 /\ i - 1 # k + 1)
      BY SMTT(30)
    <2>4. \A i \in 0 .. k : i # 0 => i - 1 \in 0 .. k + 1
      BY SMTT(30)
    <2>5. \A i \in 0 .. k : f[i] = (IF i = 0 THEN b ELSE g[i][f[i - 1]]) /\ f[i] \in T[i]
      BY <2>2 DEF IsFold
    <2>6. k \in 0 .. k + 1 /\ k # k + 1
      BY SMTT(30)
    <2>7. e[k] = f[k]
      BY <2>6
    <2>8. ASSUME NEW i \in 0 .. k + 1 PROVE e[i] = (IF i = 0 THEN b ELSE g[i][e[i - 1]]) /\ e[i] \in T[i]
      <3>1. CASE i = k + 1
        <4>1. e[i] = g[i][e[i - 1]]
          BY <2>1, <2>7, <3>1
        <4>2. f[k] \in T[k]
          BY <2>1, <2>5
        <4>3. g[k + 1][f[k]] \in T[k + 1]
          BY <2>1, <4>2
        <4> QED BY <2>1, <3>1, <4>1, <4>3
      <3>2. CASE i # k + 1
        <4>1. i \in 0 .. k /\ i - 1 # k + 1 /\ e[i] = f[i]
          BY <2>3, <3>2
        <4>2. i # 0 => e[i - 1] = f[i - 1]
          BY <2>4, <4>1
        <4> QED BY <2>5, <4>1, <4>2
      <3> QED BY <3>1, <3>2
    <2>9. e = [i \in 0 .. k + 1 |-> e[i]]
      OBVIOUS
    <2> HIDE DEF e
    <2>10. IsFold(e, b, g, T, k + 1)
      BY <2>8, <2>9 DEF IsFold
    <2> QED BY <2>10
  <1> HIDE DEF S
  <1>3. n \in S /\ n <= n
    <2>1. n <= n
      BY SMTT(30)
    <2> QED BY <1>1, <1>2, <2>1, Induction
  <1> QED BY <1>3 DEF S

-----------------------------------------------------------------------------
(* The tree of blocks. *)
LEMMA HeightNat ==
  ASSUME NEW b \in Block
  PROVE  HeightOf(b) \in Nat
  BY SMTT(30), TreeAssumption

LEMMA HeightZero ==
  ASSUME NEW b \in Block, HeightOf(b) = 0
  PROVE  b = GENESIS
  BY SMTT(30), TreeAssumption

LEMMA Above ==
  ASSUME NEW b \in Block, Prev(b) \in Block
  PROVE  HeightOf(b) = HeightOf(Prev(b)) + 1
  BY TreeAssumption

LEMMA Below ==
  ASSUME NEW b \in Block, HeightOf(b) > 0
  PROVE  Prev(b) \in Block /\ HeightOf(b) = HeightOf(Prev(b)) + 1
  <1>1. b # GENESIS
    BY SMTT(30), TreeAssumption
  <1> QED BY <1>1, TreeAssumption

LEMMA FiniteBound ==
  ASSUME NEW S, IsFiniteSet(S), NEW f, \A x \in S : f[x] \in Nat
  PROVE  \E k \in Nat : \A x \in S : f[x] <= k
  <1> DEFINE Bound(U) == \E k \in Nat : \A x \in U : f[x] <= k
             D == {n \in Nat : \A U \in SUBSET S : IsFiniteSet(U) /\ Cardinality(U) = n => Bound(U)}
  <1>1. 0 \in D
    <2>1. 0 \in Nat
      BY SMTT(30)
    <2> QED BY <2>1, FS_EmptySet
  <1>2. ASSUME NEW n \in Nat, n \in D PROVE n + 1 \in D
    <2> SUFFICES ASSUME NEW U \in SUBSET S, IsFiniteSet(U), Cardinality(U) = n + 1 PROVE Bound(U)
      BY SMTT(30)
    <2>1. U # {}
      BY SMTT(30), FS_EmptySet
    <2>2. PICK x \in U : TRUE
      BY <2>1
    <2>3. IsFiniteSet(U \ {x}) /\ Cardinality(U \ {x}) = n
      <3>1. IsFiniteSet(U \ {x}) /\ Cardinality(U \ {x}) = Cardinality(U) - 1
        BY FS_RemoveElement
      <3>2. (n + 1) - 1 = n
        BY SMTT(30)
      <3> QED BY <3>1, <3>2
    <2>4. PICK k \in Nat : \A y \in U \ {x} : f[y] <= k
      BY <1>2, <2>3
    <2>5. f[x] \in Nat
      OBVIOUS
    <2>6. PICK m \in Nat : m >= k /\ m >= f[x]
      <3>1. CASE k <= f[x]
        BY SMTT(30), <2>5, <3>1
      <3>2. CASE ~(k <= f[x])
        BY SMTT(30), <2>5, <3>2
      <3> QED BY <3>1, <3>2
    <2>7. \A y \in U : f[y] <= m
      BY SMTT(30), <2>4, <2>6
    <2> QED BY <2>7
  <1> HIDE DEF D
  <1>3. Nat \subseteq D
    BY <1>1, <1>2, Induction
  <1>4. Cardinality(S) \in Nat
    BY FS_CardinalityType
  <1>5. Cardinality(S) \in D
    BY <1>3, <1>4
  <1>6. S \in SUBSET S
    OBVIOUS
  <1> QED BY <1>5, <1>6 DEF D

LEMMA HeightBound == \E k \in Nat : \A b \in Block : HeightOf(b) <= k
  <1> DEFINE f == [b \in Block |-> HeightOf(b)]
  <1>1. \A b \in Block : f[b] \in Nat
    BY HeightNat
  <1> HIDE DEF f
  <1>2. PICK k \in Nat : \A b \in Block : f[b] <= k
    BY <1>1, FiniteBound, TreeAssumption
  <1> QED BY <1>2 DEF f

LEMMA UnlimitedIs == Unlimited \in Nat /\ \A b \in Block : HeightOf(b) + 1 <= Unlimited
  <1> DEFINE S == {HeightOf(b) : b \in Block}
  <1>1. PICK k \in Nat : \A b \in Block : HeightOf(b) <= k
    BY HeightBound
  <1>2. S \subseteq 0 .. k
    BY SMTT(30), <1>1, HeightNat
  <1>3. S # {}
    <2>1. HeightOf(GENESIS) \in S
      BY TreeAssumption
    <2> QED BY <2>1
  <1>4. Max(S) \in S /\ \A y \in S : Max(S) >= y
    <2> HIDE DEF S
    <2> QED BY <1>2, <1>3, MaxIs
  <1>5. PICK m : m = Max(S)
    OBVIOUS
  <1>6. m \in Nat /\ \A b \in Block : HeightOf(b) <= m
    BY SMTT(30), <1>2, <1>4, <1>5, HeightNat
  <1>7. Unlimited = m + 1
    BY <1>5 DEF Unlimited
  <1>8. m + 1 \in Nat /\ \A b \in Block : HeightOf(b) + 1 <= m + 1
    BY SMTT(30), <1>6, HeightNat
  <1> QED BY <1>7, <1>8

(* ChainTo[t] holds a block of every height up to that of t. *)
Chain(t, C) ==
  /\ C \in Seq(Block) /\ Len(C) = HeightOf(t) + 1 /\ C[HeightOf(t) + 1] = t
  /\ \A i \in 1 .. HeightOf(t) + 1 :
       /\ C[i] \in Block /\ HeightOf(C[i]) = i - 1
       /\ i > 1 => Prev(C[i]) = C[i - 1]

LEMMA ChainIs ==
  ASSUME NEW t \in Block
  PROVE  Chain(t, ChainTo[t])
  <1> DEFINE n == HeightOf(t)
             At(i) == {b \in Block : HeightOf(b) = n - i}
             T == [i \in 0 .. n |-> At(i)]
             g == [i \in 1 .. n |-> [b \in At(i - 1) |-> Prev(b)]]
             body(f) == [i \in 0 .. n |-> IF i = 0 THEN t ELSE Prev(f[i - 1])]
             below == CHOOSE f : f = body(f)
  <1>1. n \in Nat /\ n \in 0 .. n /\ 0 \in 0 .. n /\ n - 0 = n
    BY SMTT(30), HeightNat
  <1>2. ASSUME NEW i \in 1 .. n, NEW b \in At(i - 1) PROVE Prev(b) \in At(i)
    <2>1. b \in Block /\ HeightOf(b) = n - (i - 1) /\ n - (i - 1) > 0
      BY SMTT(30), <1>1
    <2>2. Prev(b) \in Block /\ HeightOf(b) = HeightOf(Prev(b)) + 1 /\ HeightOf(Prev(b)) \in Nat
      BY <2>1, Below, HeightNat
    <2> QED BY SMTT(30), <1>1, <2>1, <2>2
  <1>3. t \in T[0]
    BY <1>1
  <1>4. \A i \in 1 .. n : i \in 0 .. n /\ i - 1 \in 0 .. n
    BY SMTT(30), <1>1
  <1>5. \A i \in 1 .. n : \A b \in T[i - 1] : g[i][b] = Prev(b) /\ Prev(b) \in T[i]
    BY <1>2, <1>4
  <1>6. PICK f : IsFold(f, t, g, T, n)
    <2> HIDE DEF T, g, n
    <2>1. \A i \in 1 .. n : \A b \in T[i - 1] : g[i][b] \in T[i]
      BY <1>5
    <2> QED BY <1>1, <1>3, <2>1, FoldExists
  <1>7. f = body(f)
    <2> HIDE DEF T, g, n
    <2>1. \A i \in 0 .. n : i = 0 \/ (i \in 1 .. n /\ i - 1 \in 0 .. n)
      BY SMTT(30), <1>1
    <2> QED BY <1>1, <1>5, <1>6, <2>1 DEF IsFold
  <1>8. below = body(below)
    <2> HIDE DEF body
    <2> QED BY <1>7
  <1>9. ChainTo[t] = [i \in 1 .. n + 1 |-> below[n + 1 - i]]
    BY DEF ChainTo
  <1> HIDE DEF below
  <1>10. \A i \in 0 .. n : below[i] = IF i = 0 THEN t ELSE Prev(below[i - 1])
    <2> HIDE DEF n
    <2> QED BY <1>8
  <1>11. \A i \in 0 .. n : below[i] \in At(i)
    <2> HIDE DEF T, g, n
    <2> DEFINE S == {i \in Nat : i <= n => below[i] \in At(i)}
    <2>1. 0 \in S
      <3>1. below[0] = t /\ t \in At(0)
        BY <1>1, <1>10 DEF n
      <3> QED BY SMTT(30), <3>1
    <2>2. ASSUME NEW i \in Nat, i \in S PROVE i + 1 \in S
      <3> SUFFICES ASSUME i + 1 <= n PROVE below[i + 1] \in At(i + 1)
        BY SMTT(30)
      <3>1. i <= n /\ i + 1 \in 1 .. n /\ i + 1 \in 0 .. n /\ (i + 1) - 1 = i /\ i + 1 # 0
        BY SMTT(30), <1>1
      <3>2. below[i] \in At(i) /\ below[i + 1] = Prev(below[i])
        BY <1>10, <2>2, <3>1
      <3> HIDE DEF At
      <3> QED BY <1>2, <3>1, <3>2
    <2> HIDE DEF S
    <2>3. Nat \subseteq S
      BY <2>1, <2>2, Induction
    <2> QED BY SMTT(30), <1>1, <2>3 DEF S
  <1> DEFINE C == ChainTo[t]
  <1>12. below[0] = t
    BY <1>1, <1>10
  <1> HIDE DEF n
  <1>13. C \in Seq(Block) /\ Len(C) = n + 1 /\ C[n + 1] = t
    BY SMTT(30), <1>1, <1>9, <1>11, <1>12
  <1>14. ASSUME NEW i \in 1 .. n + 1
         PROVE  C[i] \in Block /\ HeightOf(C[i]) = i - 1 /\ (i > 1 => Prev(C[i]) = C[i - 1])
    <2>1. n + 1 - i \in 0 .. n /\ n - (n + 1 - i) = i - 1
      BY SMTT(30), <1>1
    <2>2. C[i] = below[n + 1 - i]
      BY <1>9
    <2>3. C[i] \in Block /\ HeightOf(C[i]) = i - 1
      BY <1>11, <2>1, <2>2
    <2>4. ASSUME i > 1 PROVE Prev(C[i]) = C[i - 1]
      <3>1. i - 1 \in 1 .. n + 1 /\ n + 1 - (i - 1) \in 0 .. n /\ n + 1 - (i - 1) # 0
            /\ (n + 1 - (i - 1)) - 1 = n + 1 - i
        BY SMTT(30), <1>1, <2>4
      <3>2. C[i - 1] = below[n + 1 - (i - 1)]
        BY <1>9, <3>1
      <3> QED BY SMTT(30), <1>10, <2>2, <3>1, <3>2
    <2> QED BY <2>3, <2>4
  <1> QED BY <1>13, <1>14 DEF Chain, n

LEMMA OnChain ==
  ASSUME NEW t \in Block, NEW b, b \in Range(ChainTo[t])
  PROVE  b \in Block /\ HeightOf(b) + 1 \in 1 .. HeightOf(t) + 1 /\ ChainTo[t][HeightOf(b) + 1] = b
  <1>1. PICK C : C = ChainTo[t] /\ Chain(t, C)
    BY ChainIs
  <1>2. PICK i \in DOMAIN C : b = C[i]
    BY <1>1 DEF Range
  <1>3. i \in 1 .. HeightOf(t) + 1 /\ HeightOf(t) \in Nat
    BY SMTT(30), <1>1, HeightNat DEF Chain
  <1>4. b \in Block /\ HeightOf(b) = i - 1
    BY <1>1, <1>2, <1>3 DEF Chain
  <1>5. (i - 1) + 1 = i
    BY SMTT(30), <1>3
  <1> QED BY <1>1, <1>2, <1>3, <1>4, <1>5

LEMMA GenesisFirst ==
  ASSUME NEW t \in Block
  PROVE  ChainTo[t][1] = GENESIS /\ GENESIS \in Range(ChainTo[t])
  <1>1. PICK C : C = ChainTo[t] /\ Chain(t, C)
    BY ChainIs
  <1>2. 1 \in 1 .. HeightOf(t) + 1 /\ DOMAIN C = 1 .. HeightOf(t) + 1 /\ 1 - 1 = 0
    BY SMTT(30), <1>1, HeightNat DEF Chain
  <1>3. C[1] = GENESIS
    BY <1>1, <1>2, HeightZero DEF Chain
  <1> QED BY <1>1, <1>2, <1>3 DEF Range

-----------------------------------------------------------------------------
(* Runs of blocks. *)

(* Blocks of one branch, one after the other, from height h on. *)
Run(s, h) ==
  /\ s \in Seq(Block)
  /\ \A i \in 1 .. Len(s) :
       HeightOf(s[i]) = h + i - 1 /\ (i > 1 => Prev(s[i]) = s[i - 1])

(* The blocks of the chain up to t from height h on. *)
Serves(t, h, s) ==
  /\ s \in Seq(Block)
  /\ \A i \in 1 .. Len(s) : h + i <= HeightOf(t) + 1 /\ s[i] = ChainTo[t][h + i]

SpanRight(T, h, s) ==
  /\ h \in Nat \ {0} /\ s.connection \in Conn
  /\ Serves(T[s.connection], h, s.blocks)
  /\ Run(s.hashes, h)

QueueRight(T, q) ==
  /\ \A h \in Starts(q) : SpanRight(T, h, q.spans[h])
  /\ \A b \in DOMAIN q.have : b \in Block /\ q.have[b] = HeightOf(b)

ListRight(x) ==
  /\ x.lrh \in Nat /\ x.last \in Block \union {NoHash}
  /\ Len(x.needed) <= x.lrh + 1
  /\ Run(x.needed, x.lrh - Len(x.needed) + 1)

Asks ==
  {a \in [kind : {"chain", "objects"}, ids : Seq(Block)] :
     a.kind = "chain" => GENESIS \in Range(a.ids)}

Bounded(a, height) ==
  a.kind = "chain" =>
    height \in Nat /\ \A i \in 1 .. Len(a.ids) : HeightOf(a.ids[i]) + 1 <= height

Awaits(x, w) ==
  \/ x.expect = "none" /\ w = <<>>
  \/ Len(w) = 1 /\ w[1].kind = x.expect /\ Bounded(w[1], x.eheight)

ConnRight(x, where, w) ==
  /\ ListRight(x) /\ x.score \in Int /\ x.score <= 0 /\ w \in Seq(Asks)
  /\ x.expect /= "none" => x.state = "synchronizing"
  /\ where /= "ready" => x.state = "synchronizing" /\ x.expect = "none"
  /\ x.state = "closed" => w = <<>>
  /\ x.score = 0 /\ ~x.closing /\ x.state /= "closed" => Awaits(x, w)

CoreRight ==
  /\ top \in [Conn -> Block] /\ target \in Nat
  /\ known \subseteq Block /\ GENESIS \in known /\ tip \in known
  /\ \A b \in known : HeightOf(b) <= HeightOf(tip)
  /\ invalid \subseteq BAD

PickRight ==
  /\ pick.connection \in Conn /\ pick.start \in Nat \ {0} /\ Len(pick.blocks) > 0
  /\ Serves(top[pick.connection], pick.start, pick.blocks)
  /\ HasBlock(Prev(pick.blocks[1]))

Conns == DOMAIN wire = Conn /\ \A c \in Conn : ConnRight(ctx[c], pc[c], wire[c])

Locks ==
  \A c \in Conn : /\ pc[c] \in {"adding", "connecting"} => lock = c
                  /\ pc[c] = "connecting" => PickRight

Targets == \A c \in Live \cap Honest : Height >= Remote(c) \/ target >= Remote(c)

Blames == \A e \in blamed : e[2] \notin {"unasked", "parent"} /\ (e[2] = "span" => e[1] \notin Honest)

DInv == CoreRight /\ QueueRight(top, queue) /\ Conns /\ Locks /\ Targets /\ Blames

LEMMA NoRun ==
  ASSUME NEW h
  PROVE  Run(<<>>, h) /\ \A t : Serves(t, h, <<>>)
  BY SMTT(30) DEF Run, Serves

LEMMA RunSuffix ==
  ASSUME NEW s, NEW h \in Int, Run(s, h), NEW k \in 0 .. Len(s), NEW m \in k .. Len(s)
  PROVE  Run(SubSeq(s, k + 1, m), h + k) /\ Len(SubSeq(s, k + 1, m)) = m - k
  BY SMTT(30) DEF Run

(* The peer's list of hashes, from a height of its chain on. *)
LEMMA SupplementRun ==
  ASSUME NEW t \in Block, NEW h \in 0 .. HeightOf(t), NEW m \in h + 1 .. HeightOf(t) + 1
  PROVE  Run(SubSeq(ChainTo[t], h + 1, m), h) /\ Len(SubSeq(ChainTo[t], h + 1, m)) = m - h
  <1>1. PICK C : C = ChainTo[t] /\ Chain(t, C)
    BY ChainIs
  <1>2. HeightOf(t) \in Nat
    BY HeightNat
  <1>3. Run(C, 0)
    BY SMTT(30), <1>1, <1>2 DEF Chain, Run
  <1>4. h \in 0 .. Len(C) /\ m \in h .. Len(C) /\ 0 + h = h /\ 0 \in Int
    BY SMTT(30), <1>1, <1>2 DEF Chain
  <1> QED BY <1>1, <1>3, <1>4, RunSuffix

(* Blocks a peer sent that follow on from one another. *)
LEMMA ServedRun ==
  ASSUME NEW t \in Block, NEW s \in Seq(Range(ChainTo[t])),
         \A i \in 2 .. Len(s) : Prev(s[i]) = s[i - 1], Len(s) > 0, HeightOf(s[1]) # 0
  PROVE  Serves(t, HeightOf(s[1]), s) /\ HeightOf(s[1]) \in Nat \ {0}
  <1> DEFINE h == HeightOf(s[1])
             D == {i \in Nat : i + 1 <= Len(s) => HeightOf(s[i + 1]) = h + i}
  <1>1. \A i \in 1 .. Len(s) : s[i] \in Range(ChainTo[t])
    BY ElementIs
  <1>2. \A i \in 1 .. Len(s) : /\ s[i] \in Block /\ HeightOf(s[i]) + 1 \in 1 .. HeightOf(t) + 1
                               /\ ChainTo[t][HeightOf(s[i]) + 1] = s[i]
    BY <1>1, OnChain
  <1>3. Len(s) \in Nat /\ 1 \in 1 .. Len(s)
    BY SMTT(30)
  <1>4. h \in Nat \ {0} /\ HeightOf(t) \in Nat
    BY <1>2, <1>3, HeightNat
  <1>5. 0 \in D
    BY SMTT(30), <1>4
  <1>6. ASSUME NEW i \in Nat, i \in D PROVE i + 1 \in D
    <2> SUFFICES ASSUME i + 2 <= Len(s) PROVE HeightOf(s[i + 2]) = h + (i + 1)
      BY SMTT(30)
    <2>1. i + 1 \in 1 .. Len(s) /\ i + 2 \in 1 .. Len(s) /\ i + 2 \in 2 .. Len(s) /\ (i + 2) - 1 = i + 1
          /\ i + 1 <= Len(s)
      BY SMTT(30), <1>3
    <2>2. HeightOf(s[i + 1]) = h + i /\ Prev(s[i + 2]) = s[i + 1]
      BY <1>6, <2>1
    <2>3. HeightOf(s[i + 2]) = (h + i) + 1
      BY <1>2, <2>1, <2>2, Above
    <2> QED BY SMTT(30), <1>4, <2>3
  <1> HIDE DEF D
  <1>7. Nat \subseteq D
    BY <1>5, <1>6, Induction
  <1>8. ASSUME NEW i \in 1 .. Len(s) PROVE HeightOf(s[i]) + 1 = h + i
    <2>1. i - 1 \in Nat /\ (i - 1) + 1 = i /\ i <= Len(s)
      BY SMTT(30), <1>3
    <2>2. HeightOf(s[i]) = h + (i - 1)
      BY <1>7, <2>1 DEF D
    <2> QED BY SMTT(30), <1>4, <2>1, <2>2
  <1>9. \A i \in 1 .. Len(s) : h + i <= HeightOf(t) + 1 /\ s[i] = ChainTo[t][h + i]
    BY SMTT(30), <1>2, <1>4, <1>8
  <1>10. s \in Seq(Block)
    BY SMTT(30), <1>2
  <1> QED BY <1>4, <1>9, <1>10 DEF Serves

(* What the blocks of a span are. *)
LEMMA ServesIs ==
  ASSUME NEW t \in Block, NEW h \in Nat \ {0}, NEW s, Serves(t, h, s), NEW i \in 1 .. Len(s)
  PROVE  /\ s[i] \in Block /\ HeightOf(s[i]) = h + i - 1
         /\ Prev(s[i]) = ChainTo[t][h + i - 1] /\ Prev(s[i]) \in Range(ChainTo[t])
         /\ s[i] \in Range(ChainTo[t])
         /\ i > 1 => Prev(s[i]) = s[i - 1]
  <1>1. PICK C : C = ChainTo[t] /\ Chain(t, C)
    BY ChainIs
  <1>2. HeightOf(t) \in Nat /\ Len(s) \in Nat
    BY SMTT(30), HeightNat DEF Serves
  <1>3. s[i] = C[h + i] /\ h + i <= HeightOf(t) + 1
    BY <1>1 DEF Serves
  <1>4. h + i \in 1 .. HeightOf(t) + 1 /\ h + i > 1 /\ h + i - 1 \in 1 .. HeightOf(t) + 1
    BY SMTT(30), <1>2, <1>3
  <1>5. /\ s[i] \in Block /\ HeightOf(s[i]) = h + i - 1 /\ Prev(s[i]) = C[h + i - 1]
    <2>1. PICK j \in 1 .. HeightOf(t) + 1 : j = h + i /\ j - 1 = h + i - 1
      BY SMTT(30), <1>2, <1>4
    <2>2. C[j] \in Block /\ HeightOf(C[j]) = j - 1 /\ (j > 1 => Prev(C[j]) = C[j - 1])
      BY <1>1 DEF Chain
    <2> QED BY <1>3, <1>4, <2>1, <2>2
  <1>6. DOMAIN C = 1 .. HeightOf(t) + 1
    BY SMTT(30), <1>1, <1>2 DEF Chain
  <1>7. i > 1 => Prev(s[i]) = s[i - 1]
    <2> SUFFICES ASSUME i > 1 PROVE Prev(s[i]) = s[i - 1]
      OBVIOUS
    <2>1. i - 1 \in 1 .. Len(s) /\ h + (i - 1) = h + i - 1
      BY SMTT(30), <1>2
    <2>2. s[i - 1] = C[h + (i - 1)]
      BY <1>1, <2>1 DEF Serves
    <2> QED BY <1>5, <2>1, <2>2
  <1> QED BY <1>1, <1>3, <1>4, <1>5, <1>6, <1>7 DEF Range

-----------------------------------------------------------------------------
(* Leading and Among. *)
LEMMA LeadingIs ==
  ASSUME NEW B, NEW s \in Seq(B), NEW S, NEW n, n = Leading(s, S)
  PROVE  /\ n \in 0 .. Len(s) /\ \A i \in 1 .. n : s[i] \in S
         /\ n < Len(s) => s[n + 1] \notin S
  <1> DEFINE Is(m) == /\ \A i \in 1 .. m : s[i] \in S
                      /\ m < Len(s) => s[m + 1] \notin S
             D == {m \in Nat : m < Len(s) /\ s[m + 1] \notin S}
  <1>1. Len(s) \in Nat
    BY LenNat
  <1>2. \E m \in 0 .. Len(s) : Is(m)
    <2>1. CASE D = {}
      <3>1. Is(Len(s))
        <4>1. ASSUME NEW i \in 1 .. Len(s) PROVE s[i] \in S
          <5>1. i - 1 \in Nat /\ i - 1 < Len(s) /\ (i - 1) + 1 = i
            BY SMTT(30), <1>1
          <5>2. i - 1 \notin D
            BY <2>1
          <5> QED BY <5>1, <5>2
        <4>2. ~(Len(s) < Len(s))
          BY SMTT(30), <1>1
        <4> QED BY <4>1, <4>2
      <3>2. Len(s) \in 0 .. Len(s)
        BY SMTT(30), <1>1
      <3> HIDE DEF Is
      <3> QED BY <3>1, <3>2
    <2>2. CASE D # {}
      <3>1. PICK m \in D : \A y \in D : m <= y
        <4>1. D \subseteq Nat
          OBVIOUS
        <4> HIDE DEF D
        <4> QED BY <2>2, <4>1, LeastIn
      <3>2. m \in Nat /\ m < Len(s) /\ s[m + 1] \notin S /\ m \in 0 .. Len(s)
        BY SMTT(30), <1>1
      <3>3. ASSUME NEW i \in 1 .. m PROVE s[i] \in S
        <4>1. i - 1 \in Nat /\ i - 1 < Len(s) /\ (i - 1) + 1 = i /\ ~(m <= i - 1)
          BY SMTT(30), <1>1, <3>2
        <4>2. i - 1 \notin D
          BY <3>1, <4>1
        <4> QED BY <4>1, <4>2
      <3> QED BY <3>2, <3>3
    <2> QED BY <2>1, <2>2
  <1>3. n = CHOOSE m \in 0 .. Len(s) : Is(m)
    BY DEF Leading
  <1>4. n \in 0 .. Len(s) /\ Is(n)
    <2> HIDE DEF Is
    <2> QED BY <1>2, <1>3
  <1> QED BY <1>4

(* The loop of Among: T[i] holds what is taken after i elements. *)
Takes(s, S, T) ==
  \A i \in 1 .. Len(s) : \A r \in T[i - 1] : (IF s[i] \in S THEN Append(r, s[i]) ELSE r) \in T[i]

LEMMA AmongFold ==
  ASSUME NEW B, NEW s \in Seq(B), NEW S, NEW T, <<>> \in T[0], Takes(s, S, T)
  PROVE  Among(s, S) \in T[Len(s)]
  <1> DEFINE n == Len(s)
             round(i, r) == IF s[i] \in S THEN Append(r, s[i]) ELSE r
             g == [i \in 1 .. n |-> [r \in T[i - 1] |-> round(i, r)]]
             body(f) == [i \in 0 .. n |-> IF i = 0 THEN <<>> ELSE round(i, f[i - 1])]
             up == CHOOSE f : f = body(f)
  <1>1. n \in Nat /\ n \in 0 .. n /\ 0 \in 0 .. n
    BY SMTT(30)
  <1>2. \A i \in 1 .. n : \A r \in T[i - 1] : g[i][r] = round(i, r) /\ round(i, r) \in T[i]
    BY DEF Takes
  <1>3. PICK f : IsFold(f, <<>>, g, T, n)
    <2> HIDE DEF g, n, round
    <2>1. \A i \in 1 .. n : \A r \in T[i - 1] : g[i][r] \in T[i]
      BY <1>2
    <2> QED BY <1>1, <2>1, FoldExists
  <1>4. f = body(f)
    <2> HIDE DEF g, n, round
    <2>1. \A i \in 0 .. n : i = 0 \/ (i \in 1 .. n /\ i - 1 \in 0 .. n)
      BY SMTT(30), <1>1
    <2> QED BY <1>1, <1>2, <1>3, <2>1 DEF IsFold
  <1>5. up = body(up)
    <2> HIDE DEF body
    <2> QED BY <1>4
  <1>6. Among(s, S) = up[n]
    BY DEF Among
  <1> HIDE DEF up
  <1>7. \A i \in 0 .. n : up[i] = IF i = 0 THEN <<>> ELSE round(i, up[i - 1])
    <2> HIDE DEF n, round
    <2> QED BY <1>5
  <1>8. \A i \in 0 .. n : up[i] \in T[i]
    <2> HIDE DEF g, n, round
    <2> DEFINE D == {i \in Nat : i <= n => up[i] \in T[i]}
    <2>1. 0 \in D
      <3>1. up[0] = <<>>
        BY <1>1, <1>7
      <3> QED BY SMTT(30), <3>1
    <2>2. ASSUME NEW i \in Nat, i \in D PROVE i + 1 \in D
      <3> SUFFICES ASSUME i + 1 <= n PROVE up[i + 1] \in T[i + 1]
        BY SMTT(30)
      <3>1. i <= n /\ i + 1 \in 1 .. n /\ i + 1 \in 0 .. n /\ (i + 1) - 1 = i /\ i + 1 # 0
        BY SMTT(30), <1>1
      <3>2. up[i] \in T[i] /\ up[i + 1] = round(i + 1, up[i])
        BY <1>7, <2>2, <3>1
      <3> QED BY <1>2, <3>1, <3>2
    <2> HIDE DEF D
    <2>3. Nat \subseteq D
      BY <2>1, <2>2, Induction
    <2> QED BY SMTT(30), <1>1, <2>3 DEF D
  <1> QED BY <1>1, <1>6, <1>8

LEMMA AmongIn ==
  ASSUME NEW B, NEW s \in Seq(B), NEW S
  PROVE  Among(s, S) \in Seq(S)
  <1> DEFINE T == [i \in 0 .. Len(s) |-> Seq(S)]
  <1>1. Len(s) \in Nat /\ 0 \in 0 .. Len(s) /\ Len(s) \in 0 .. Len(s)
    BY SMTT(30)
  <1>2. ASSUME NEW i \in 1 .. Len(s), NEW r \in T[i - 1]
        PROVE  (IF s[i] \in S THEN Append(r, s[i]) ELSE r) \in T[i]
    <2>1. i \in 0 .. Len(s) /\ i - 1 \in 0 .. Len(s)
      BY SMTT(30), <1>1
    <2>2. r \in Seq(S) /\ T[i] = Seq(S)
      BY <1>2, <2>1
    <2>3. s[i] \in S => Append(r, s[i]) \in Seq(S)
      BY SMTT(30), <2>2
    <2> QED BY <2>2, <2>3
  <1>3. <<>> \in T[0] /\ T[Len(s)] = Seq(S)
    BY <1>1, EmptyIs
  <1> HIDE DEF T
  <1>4. Among(s, S) \in T[Len(s)]
    BY <1>2, <1>3, AmongFold DEF Takes
  <1> QED BY <1>3, <1>4

(* A set that holds the elements of s from some place on. *)
LEMMA AmongSuffix ==
  ASSUME NEW B, NEW s \in Seq(B), NEW S, \A i \in 2 .. Len(s) : s[i - 1] \in S => s[i] \in S
  PROVE  \E m \in 0 .. Len(s) : Among(s, S) = SubSeq(s, m + 1, Len(s))
  <1>1. PICK m : m = Leading(s, B \ S)
    OBVIOUS
  <1>2. /\ Len(s) \in Nat /\ m \in 0 .. Len(s) /\ \A i \in 1 .. m : s[i] \in B \ S
        /\ m < Len(s) => s[m + 1] \notin B \ S
    BY <1>1, LeadingIs, LenNat
  <1>3. \A i \in 1 .. Len(s) : i > m => s[i] \in S
    <2> DEFINE D == {k \in Nat : m + 1 + k <= Len(s) => s[m + 1 + k] \in S}
    <2>1. 0 \in D
      BY SMTT(30), <1>2, ElementIs
    <2>2. ASSUME NEW k \in Nat, k \in D PROVE k + 1 \in D
      BY SMTT(30), <1>2, <2>2
    <2> HIDE DEF D
    <2>3. Nat \subseteq D
      BY <2>1, <2>2, Induction
    <2>4. ASSUME NEW i \in 1 .. Len(s), i > m PROVE s[i] \in S
      <3>1. i - (m + 1) \in Nat /\ m + 1 + (i - (m + 1)) = i /\ i <= Len(s)
        BY SMTT(30), <1>2, <2>4
      <3>2. i - (m + 1) \in D
        BY <2>3, <3>1
      <3> QED BY <3>1, <3>2 DEF D
    <2> QED BY <2>4
  <1> DEFINE part(i) == IF i <= m THEN <<>> ELSE SubSeq(s, m + 1, i)
             T == [i \in 0 .. Len(s) |-> {part(i)}]
  <1>4. ASSUME NEW i \in 1 .. Len(s), NEW r \in T[i - 1]
        PROVE  (IF s[i] \in S THEN Append(r, s[i]) ELSE r) \in T[i]
    <2>1. i \in 0 .. Len(s) /\ i - 1 \in 0 .. Len(s)
      BY SMTT(30), <1>2
    <2>2. r = part(i - 1) /\ T[i] = {part(i)}
      BY <1>4, <2>1
    <2>3. CASE i <= m
      <3>1. s[i] \notin S /\ i - 1 <= m
        BY SMTT(30), <1>2, <2>3
      <3> QED BY <2>2, <2>3, <3>1
    <2>4. CASE ~(i <= m)
      <3>1. s[i] \in S
        BY SMTT(30), <1>2, <1>3, <2>4
      <3>2. Append(part(i - 1), s[i]) = SubSeq(s, m + 1, i)
        <4>1. CASE i - 1 <= m
          BY SMTT(30), <1>2, <2>4, <4>1
        <4>2. CASE ~(i - 1 <= m)
          BY SMTT(30), <1>2, <2>4, <4>2
        <4> QED BY <4>1, <4>2
      <3> QED BY <2>2, <2>4, <3>1, <3>2
    <2> QED BY <2>3, <2>4
  <1>5. 0 \in 0 .. Len(s) /\ Len(s) \in 0 .. Len(s) /\ 0 <= m
    BY SMTT(30), <1>2
  <1>6. <<>> \in T[0] /\ T[Len(s)] = {part(Len(s))}
    BY <1>5
  <1>7. Among(s, S) = part(Len(s))
    <2> HIDE DEF T, part
    <2>1. Takes(s, S, T)
      BY <1>4 DEF Takes
    <2> QED BY <1>6, <2>1, AmongFold
  <1>8. part(Len(s)) = SubSeq(s, m + 1, Len(s))
    <2>1. CASE Len(s) <= m
      BY SMTT(30), <1>2, <2>1
    <2> QED BY <2>1
  <1> QED BY <1>2, <1>7, <1>8

-----------------------------------------------------------------------------
(* The queue: its spans start where their blocks and hashes do, and what it  *)
(* has downloaded is known by its height.                                    *)
LEMMA EraseRight ==
  ASSUME NEW T, NEW q, NEW H, QueueRight(T, q)
  PROVE  QueueRight(T, Erase(q, H))
  <1>1. \A h \in Starts(Erase(q, H)) : SpanRight(T, h, Erase(q, H).spans[h])
    BY SMTT(30), EraseFields DEF QueueRight
  <1>2. Erase(q, H).have = Restrict(q.have, DOMAIN q.have \ HashesOf(q, H))
    BY DEF Erase
  <1>3. \A b \in DOMAIN Erase(q, H).have : b \in DOMAIN q.have /\ Erase(q, H).have[b] = q.have[b]
    BY <1>2 DEF Restrict
  <1> QED BY <1>1, <1>3 DEF QueueRight

LEMMA InsertRight ==
  ASSUME NEW T, NEW q, NEW h, NEW span, IsQueue(q), QueueRight(T, q), SpanRight(T, h, span)
  PROVE  QueueRight(T, Insert(q, h, span))
  <1>1. CASE h \in Starts(q)
    BY <1>1 DEF Insert
  <1>2. CASE h \notin Starts(q)
    <2>1. PICK g : g = Insert(q, h, span)
      OBVIOUS
    <2>2. /\ Starts(g) = Starts(q) \union {h} /\ g.spans[h] = span /\ g.have = q.have
          /\ \A i \in Starts(q) : g.spans[i] = q.spans[i]
      BY SMTT(30), <1>2, <2>1, InsertFields
    <2>3. QueueRight(T, g)
      BY <2>2 DEF QueueRight
    <2> QED BY <2>1, <2>3
  <1> QED BY <1>1, <1>2

LEMMA RehashRight ==
  ASSUME NEW T, NEW q, NEW h, NEW span, NEW hashes, Spanned(span),
         QueueRight(T, q), SpanRight(T, h, span), Run(hashes, h)
  PROVE  QueueRight(T, Rehash(q, h, span, hashes))
  <1> DEFINE e == Erase(q, {h})
             f == [e EXCEPT !.requested = @ \union Range(hashes)]
             s == [span EXCEPT !.hashes = hashes]
  <1>1. QueueRight(T, e) /\ IsQueue(e)
    BY EraseRight, EraseFields
  <1>2. s.connection = span.connection /\ s.blocks = span.blocks /\ s.hashes = hashes
    BY DEF Spanned
  <1> HIDE DEF e, s
  <1>3. f.spans = e.spans /\ f.have = e.have /\ IsQueue(f)
    BY <1>1 DEF IsQueue
  <1> HIDE DEF f
  <1>4. QueueRight(T, f)
    BY <1>1, <1>3 DEF QueueRight, Starts
  <1>5. SpanRight(T, h, s)
    BY <1>2 DEF SpanRight
  <1>6. QueueRight(T, Insert(f, h, s))
    BY <1>3, <1>4, <1>5, InsertRight
  <1> QED BY <1>6 DEF Rehash, e, f, s

LEMMA SetHashesRight ==
  ASSUME NEW T, NEW q, NEW h, NEW c, NEW hashes, Covered(q), QueueRight(T, q), Run(hashes, h)
  PROVE  QueueRight(T, set_span_hashes(q, h, c, hashes))
  <1>1. \A i \in Starts(q) : Spanned(q.spans[i]) /\ SpanRight(T, i, q.spans[i])
    BY DEF Covered, CoveredBut, QueueRight
  <1> QED BY <1>1, RehashRight DEF set_span_hashes

LEMMA ReserveRight ==
  ASSUME NEW T, NEW q, NEW span, NEW c \in Conn, Covered(q), QueueRight(T, q),
         span.start \in Nat \ {0}, Run(span.hashes, span.start)
  PROVE  QueueRight(T, reserve_span(q, span, c))
  <1> DEFINE s == Span(span.n, c, <<>>)
             i == Insert(q, span.start, s)
  <1>1. Spanned(s) /\ s.connection = c /\ s.blocks = <<>> /\ s.hashes = <<>>
    BY SpanSpanned DEF Span
  <1>2. SpanRight(T, span.start, s)
    BY <1>1, NoRun DEF SpanRight
  <1> HIDE DEF s
  <1>3. Covered(i) /\ QueueRight(T, i)
    BY <1>1, <1>2, InsertKeeps, InsertRight DEF Covered, CoveredBut
  <1> HIDE DEF i
  <1>4. QueueRight(T, set_span_hashes(i, span.start, c, span.hashes))
    BY <1>3, SetHashesRight
  <1> QED BY <1>4 DEF reserve_span, i, s

(* A hash of a run counted from its start has the height of its block. *)
LEMMA CountedHeight ==
  ASSUME NEW hashes, NEW h \in Nat, Run(hashes, h), NEW x \in Range(hashes), NEW k,
         k = h + (CHOOSE i \in DOMAIN hashes : hashes[i] = x) - 1
  PROVE  x \in Block /\ k = HeightOf(x)
  <1>1. PICK j : j = CHOOSE i \in DOMAIN hashes : hashes[i] = x
    OBVIOUS
  <1>2. \E i \in DOMAIN hashes : hashes[i] = x
    BY DEF Range
  <1>3. j \in DOMAIN hashes /\ hashes[j] = x
    BY <1>1, <1>2
  <1>4. j \in 1 .. Len(hashes)
    BY SMTT(30), <1>3 DEF Run
  <1>5. x \in Block
    BY <1>3, <1>4, ElementIs DEF Run
  <1> QED BY <1>1, <1>3, <1>4, <1>5 DEF Run

LEMMA DownloadedRight ==
  ASSUME NEW T, NEW q, NEW h \in Nat, NEW hashes, IsQueue(q), QueueRight(T, q), Run(hashes, h)
  PROVE  QueueRight(T, Downloaded(q, h, hashes))
  <1>1. PICK f : f = Downloaded(q, h, hashes)
    OBVIOUS
  <1>2. /\ f.spans = q.spans
        /\ f.have = [x \in DOMAIN q.have \union Range(hashes) |->
                       IF x \in DOMAIN q.have
                         THEN q.have[x]
                         ELSE h + (CHOOSE i \in DOMAIN hashes : hashes[i] = x) - 1]
    BY <1>1 DEF Downloaded, IsQueue
  <1>3. ASSUME NEW x \in DOMAIN f.have PROVE x \in Block /\ f.have[x] = HeightOf(x)
    <2>1. CASE x \in DOMAIN q.have
      BY <1>2, <1>3, <2>1 DEF QueueRight
    <2>2. CASE x \notin DOMAIN q.have
      <3>1. x \in Range(hashes)
        BY <1>2, <1>3, <2>2
      <3>2. f.have[x] = h + (CHOOSE i \in DOMAIN hashes : hashes[i] = x) - 1
        BY <1>2, <2>2, <3>1
      <3>3. PICK k : k = f.have[x]
        OBVIOUS
      <3>4. k = h + (CHOOSE i \in DOMAIN hashes : hashes[i] = x) - 1
        BY <3>2, <3>3
      <3>5. x \in Block /\ k = HeightOf(x)
        BY <3>1, <3>4, CountedHeight
      <3> QED BY <3>3, <3>5
    <2> QED BY <2>1, <2>2
  <1>4. QueueRight(T, f)
    BY <1>2, <1>3 DEF QueueRight, Starts
  <1> QED BY <1>1, <1>4

LEMMA AddFilledRight ==
  ASSUME NEW T, NEW q, NEW h \in Nat \ {0}, NEW blocks, NEW c \in Conn, Covered(q), QueueRight(T, q),
         Serves(T[c], h, blocks)
  PROVE  QueueRight(T, add_filled(q, h, blocks, c))
  <1> DEFINE s == Span(Len(blocks), c, blocks)
  <1>1. Spanned(s) /\ s.connection = c /\ s.blocks = blocks /\ s.hashes = <<>>
    BY SpanSpanned DEF Span
  <1>2. SpanRight(T, h, s) /\ IsQueue(q)
    BY <1>1, NoRun DEF SpanRight, Covered, CoveredBut
  <1> HIDE DEF s
  <1>3. CASE h \notin Starts(q)
    BY <1>2, <1>3, InsertRight DEF add_filled, s
  <1>4. CASE h \in Starts(q)
    <2> DEFINE e == Erase(q, {h})
               i == Insert(e, h, s)
               d == Downloaded(i, h, q.spans[h].hashes)
    <2>1. IsQueue(e) /\ h \notin Starts(e) /\ QueueRight(T, e)
      BY SMTT(30), EraseFields, EraseRight
    <2>2. Run(q.spans[h].hashes, h)
      BY <1>4 DEF QueueRight, SpanRight
    <2> HIDE DEF e
    <2>3. IsQueue(i) /\ i.spans[h] = s /\ h \in Starts(i) /\ QueueRight(T, i)
      <3>1. QueueRight(T, i)
        BY <1>2, <2>1, InsertRight
      <3> QED BY SMTT(30), <2>1, <3>1, InsertFields
    <2> HIDE DEF i
    <2>4. QueueRight(T, d)
      BY <2>2, <2>3, DownloadedRight
    <2>5. d.spans = i.spans
      BY <2>3 DEF Downloaded, IsQueue
    <2> HIDE DEF d
    <2>6. d.spans[h] = s /\ h \in Starts(d)
      BY <2>3, <2>5 DEF Starts
    <2>7. QueueRight(T, Rehash(d, h, s, q.spans[h].hashes))
      BY <1>1, <1>2, <2>2, <2>4, RehashRight
    <2>8. QueueRight(T, set_span_hashes(d, h, c, q.spans[h].hashes))
      BY <1>1, <2>6, <2>7 DEF set_span_hashes
    <2> QED BY <1>4, <2>8 DEF add_filled, d, i, e, s
  <1> QED BY <1>3, <1>4

LEMMA FlushRight ==
  ASSUME NEW T, NEW q, NEW c, NEW a, QueueRight(T, q)
  PROVE  /\ QueueRight(T, flush_spans(q, c, a))
         /\ QueueRight(T, flush_stale_spans(q, a))
         /\ QueueRight(T, remove_spans(q, c, a))
  BY EraseRight DEF flush_spans, flush_stale_spans, remove_spans

(* The first filled span. *)
LEMMA NextSpanIs ==
  ASSUME NEW T, NEW q, QueueRight(T, q), NEW h, h = get_next_span(q), h # 0
  PROVE  h \in Starts(q) /\ Filled(q, h) /\ SpanRight(T, h, q.spans[h])
  <1> DEFINE S == {i \in Starts(q) : Filled(q, i)}
  <1>1. h = Min(S) /\ S # {}
    BY DEF get_next_span
  <1>2. S \subseteq Nat
    BY DEF QueueRight, SpanRight
  <1>3. h \in S
    <2> HIDE DEF S
    <2> QED BY <1>1, <1>2, MinIs
  <1> QED BY <1>3 DEF QueueRight

-----------------------------------------------------------------------------
(* What request_missing_objects does with the list of hashes, and what it   *)
(* asks for.                                                                *)

(* A context it is called with, of score s, closing or not (e). *)
From(x, s, e) ==
  /\ IsContext(x) /\ ListRight(x)
  /\ x.expect = "none" /\ x.state = "synchronizing" /\ x.score = s /\ x.closing = e

(* How it ends. *)
Sends(r) ==
  \E m \in Asks : /\ r.sent = <<m>> /\ r.x.expect = m.kind /\ r.x.state = "synchronizing"
                  /\ Bounded(m, r.x.eheight)

RightFor(r, s, e) ==
  /\ QueueRight(top, r.q) /\ ListRight(r.x) /\ r.x.score = s /\ r.x.closing = e
  /\ r.sync => Height >= target
  /\ (r.sent = <<>> /\ r.x.expect = "none" /\ r.x.state # "closed") \/ Sends(r)

LEMMA FailsRight ==
  ASSUME NEW x, NEW q, NEW s, NEW e, From(x, s, e), QueueRight(top, q)
  PROVE  RightFor(Fails(x, q), s, e)
  BY DEF RightFor, Fails, Result, Nothing, From

LEMMA WaitsRight ==
  ASSUME NEW x, NEW q, NEW s, NEW e, From(x, s, e), QueueRight(top, q)
  PROVE  /\ RightFor(Stays(CalledBack(x), q), s, e)
         /\ RightFor(Stays([x EXCEPT !.state = "standby"], q), s, e)
  <1>1. ASSUME NEW y, /\ y.lrh = x.lrh /\ y.last = x.last /\ y.needed = x.needed /\ y.expect = x.expect
                      /\ y.score = x.score /\ y.closing = x.closing /\ y.state = "standby"
        PROVE  RightFor(Stays(y, q), s, e)
    <2>1. ListRight(y)
      BY <1>1 DEF From, ListRight
    <2> QED BY <1>1, <2>1 DEF RightFor, Stays, Result, Nothing, From
  <1> DEFINE y == CalledBack(x)
             z == [x EXCEPT !.state = "standby"]
  <1>2. /\ y.lrh = x.lrh /\ y.last = x.last /\ y.needed = x.needed /\ y.expect = x.expect
        /\ y.score = x.score /\ y.closing = x.closing /\ y.state = "standby"
    BY DEF CalledBack, From, IsContext, Fields
  <1>3. /\ z.lrh = x.lrh /\ z.last = x.last /\ z.needed = x.needed /\ z.expect = x.expect
        /\ z.score = x.score /\ z.closing = x.closing /\ z.state = "standby"
    BY DEF From, IsContext, Fields
  <1> HIDE DEF y, z
  <1>4. RightFor(Stays(y, q), s, e) /\ RightFor(Stays(z, q), s, e)
    BY <1>1, <1>2, <1>3
  <1> QED BY <1>4 DEF y, z

(* An empty list counts as right whatever m_last_response_height is. *)
LEMMA EmptyList ==
  ASSUME NEW x, x.lrh \in Nat, x.last \in Block \union {NoHash}, x.needed = <<>>
  PROVE  ListRight(x)
  <1>1. Len(<<>>) = 0 /\ 0 <= x.lrh + 1
    BY SMTT(30)
  <1> QED BY <1>1, NoRun DEF ListRight

LEMMA NormalRight ==
  ASSUME NEW x, NEW q, NEW sync, NEW s, NEW e, From(x, s, e), QueueRight(top, q),
         sync => Height >= target
  PROVE  RightFor(GoesNormal(x, q, sync), s, e)
  <1> DEFINE y == set_state_normal(x)
  <1>1. /\ y.lrh = x.lrh /\ y.last = x.last /\ y.needed = <<>> /\ y.expect = x.expect
        /\ y.score = x.score /\ y.closing = x.closing /\ y.state = "normal"
    BY DEF set_state_normal, From, IsContext, Fields
  <1> HIDE DEF y
  <1>2. ListRight(y)
    BY <1>1, EmptyList DEF From, ListRight
  <1>3. RightFor(Result(y, q, <<>>, "stay", sync), s, e)
    BY <1>1, <1>2 DEF RightFor, Result, From
  <1> QED BY <1>3 DEF GoesNormal, Nothing, y

LEMMA DoneRight ==
  ASSUME NEW c, NEW x, NEW q, NEW s, NEW e, From(x, s, e), QueueRight(top, q)
  PROVE  RightFor(Done(c, x, q), s, e) /\ RightFor(NoSpanLeft(x, q), s, e)
  BY NormalRight, FailsRight DEF Done, NoSpanLeft

(* get_short_chain_history: from the top down to the genesis block. *)
Descends(h, ids) ==
  /\ h \in Nat /\ ids \in Seq(Block) /\ GENESIS \in Range(ids)
  /\ \A i \in 1 .. Len(ids) : HeightOf(ids[i]) + 1 <= h

LEMMA HistoryIs ==
  ASSUME CoreRight
  PROVE  Descends(Height, History)
  <1>1. tip \in Block
    BY DEF CoreRight
  <1>2. PICK C : C = ChainTo[tip] /\ Chain(tip, C)
    BY <1>1, ChainIs
  <1>3. PICK n \in Nat : n = HeightOf(tip)
    BY <1>1, HeightNat
  <1>4. PICK ids : ids = History
    OBVIOUS
  <1>5. Height = n + 1 /\ ids = [i \in 1 .. n + 1 |-> C[n + 1 + 1 - i]]
    BY <1>2, <1>3, <1>4 DEF History, Height
  <1>6. ASSUME NEW i \in 1 .. n + 1 PROVE ids[i] \in Block /\ HeightOf(ids[i]) = n + 1 - i
    <2>1. PICK k \in 1 .. n + 1 : k = n + 1 + 1 - i /\ k - 1 = n + 1 - i
      BY SMTT(30)
    <2>2. ids[i] = C[k]
      BY <1>5, <2>1
    <2> QED BY <1>2, <1>3, <2>1, <2>2 DEF Chain
  <1>7. \A i \in 1 .. n + 1 : ids[i] \in Block /\ HeightOf(ids[i]) = n + 1 - i
    BY <1>6
  <1>8. ids \in Seq(Block) /\ Len(ids) = n + 1
    BY SMTT(30), <1>5, <1>7
  <1>9. \A i \in 1 .. Len(ids) : HeightOf(ids[i]) + 1 <= n + 1
    BY SMTT(30), <1>7, <1>8
  <1>10. GENESIS \in Range(ids)
    <2>1. n + 1 \in 1 .. n + 1 /\ n + 1 + 1 - (n + 1) = 1 /\ DOMAIN ids = 1 .. n + 1
      BY SMTT(30), <1>5
    <2>2. ids[n + 1] = C[1]
      BY <1>5, <2>1
    <2>3. C[1] = GENESIS
      BY <1>1, <1>2, GenesisFirst
    <2> QED BY <2>1, <2>2, <2>3 DEF Range
  <1>11. n + 1 \in Nat
    BY SMTT(30)
  <1> QED BY <1>4, <1>5, <1>8, <1>9, <1>10, <1>11 DEF Descends

LEMMA LongerHistory ==
  ASSUME CoreRight, NEW b \in Block
  PROVE  Descends(Unlimited, <<b>> \o History)
  <1>1. PICK s : s = History /\ Descends(Height, s)
    BY HistoryIs
  <1>2. PICK ids : ids = <<b>> \o s
    OBVIOUS
  <1>3. ids \in Seq(Block) /\ \A i \in 1 .. Len(ids) : ids[i] \in Block
    BY SMTT(30), <1>1, <1>2 DEF Descends
  <1>4. PICK i \in DOMAIN s : s[i] = GENESIS
    BY <1>1 DEF Descends, Range
  <1>5. i + 1 \in DOMAIN ids /\ ids[i + 1] = s[i]
    BY SMTT(30), <1>1, <1>2, <1>4 DEF Descends
  <1>6. GENESIS \in Range(ids)
    BY <1>4, <1>5 DEF Range
  <1>7. Descends(Unlimited, ids)
    BY <1>3, <1>6, UnlimitedIs DEF Descends
  <1> QED BY <1>1, <1>2, <1>7

(* A request for hashes from a history. *)
LEMMA ChainAsked ==
  ASSUME NEW x, NEW q, NEW s, NEW e, NEW h, NEW ids, From(x, s, e), QueueRight(top, q), Descends(h, ids)
  PROVE  RightFor(Result([x EXCEPT !.expect = "chain", !.eheight = h], q, Ask("chain", ids), "stay", FALSE),
                  s, e)
  <1> DEFINE y == [x EXCEPT !.expect = "chain", !.eheight = h]
             m == [kind |-> "chain", ids |-> ids]
             r == Result(y, q, Ask("chain", ids), "stay", FALSE)
  <1>1. /\ y.lrh = x.lrh /\ y.last = x.last /\ y.needed = x.needed /\ y.expect = "chain"
        /\ y.score = x.score /\ y.closing = x.closing /\ y.state = x.state /\ y.eheight = h
    BY DEF From, IsContext, Fields
  <1>2. m \in Asks /\ m.kind = "chain" /\ Bounded(m, h)
    BY DEF Asks, Descends, Bounded
  <1>3. Ask("chain", ids) = <<m>>
    BY DEF Ask
  <1> HIDE DEF y, m
  <1>4. ListRight(y)
    BY <1>1 DEF From, ListRight
  <1>5. r.x = y /\ r.q = q /\ r.sent = <<m>> /\ r.sync = FALSE
    BY <1>3 DEF Result
  <1> HIDE DEF r
  <1>6. Sends(r)
    BY <1>1, <1>2, <1>5 DEF Sends, From
  <1>7. RightFor(r, s, e)
    BY <1>1, <1>4, <1>5, <1>6 DEF RightFor, From
  <1> QED BY <1>7 DEF r, y

LEMMA AskForChainRight ==
  ASSUME CoreRight, NEW x, NEW q, NEW s, NEW e, From(x, s, e), QueueRight(top, q)
  PROVE  RightFor(AskForChain(x, q), s, e)
  <1>1. CASE x.last # NoHash /\ x.last # tip
    <2>1. x.last \in Block
      BY <1>1 DEF From, ListRight
    <2>2. Descends(Unlimited, <<x.last>> \o History)
      BY <2>1, LongerHistory
    <2> QED BY <1>1, <2>2, ChainAsked DEF AskForChain
  <1>2. CASE ~(x.last # NoHash /\ x.last # tip)
    BY <1>2, HistoryIs, ChainAsked DEF AskForChain
  <1> QED BY <1>1, <1>2

LEMMA NeedHashesRight ==
  ASSUME CoreRight, NEW c, NEW x, NEW q, NEW s, NEW e, From(x, s, e), QueueRight(top, q)
  PROVE  RightFor(NeedHashes(c, x, q), s, e)
  <1>1. RightFor(Stays(CalledBack(x), q), s, e) /\ RightFor(AskForChain(x, q), s, e) /\ RightFor(Fails(x, q), s, e)
    BY WaitsRight, AskForChainRight, FailsRight
  <1>2. RightFor(GoesNormal(x, q, Remote(c) >= target /\ Height >= target), s, e)
    BY NormalRight
  <1> QED BY <1>1, <1>2 DEF NeedHashes

LEMMA AskForSpanRight ==
  ASSUME NEW x, NEW q, NEW span, NEW s, NEW e, From(x, s, e), QueueRight(top, q), span.hashes \in Seq(Block)
  PROVE  RightFor(AskForSpan(x, q, span), s, e)
  <1> DEFINE y == [x EXCEPT !.expect = "objects", !.eheight = span.start,
                            !.nreq = @ + Len(span.hashes),
                            !.requested = @ \union Range(span.hashes)]
             m == [kind |-> "objects", ids |-> span.hashes]
             r == Result(y, q, Ask("objects", span.hashes), "stay", FALSE)
  <1>1. /\ y.lrh = x.lrh /\ y.last = x.last /\ y.needed = x.needed /\ y.expect = "objects"
        /\ y.score = x.score /\ y.closing = x.closing /\ y.state = x.state
    BY DEF From, IsContext, Fields
  <1>2. m \in Asks /\ m.kind = "objects" /\ \A h : Bounded(m, h)
    BY DEF Asks, Bounded
  <1>3. Ask("objects", span.hashes) = <<m>>
    BY DEF Ask
  <1> HIDE DEF y, m
  <1>4. ListRight(y)
    BY <1>1 DEF From, ListRight
  <1>5. r.x = y /\ r.q = q /\ r.sent = <<m>> /\ r.sync = FALSE
    BY <1>3 DEF Result
  <1> HIDE DEF r
  <1>6. Sends(r)
    BY <1>1, <1>2, <1>5 DEF Sends, From
  <1>7. RightFor(r, s, e)
    BY <1>1, <1>4, <1>5, <1>6 DEF RightFor, From
  <1> QED BY <1>7 DEF r, y, AskForSpan

(* The list with its first k hashes taken out. *)
LEMMA SuffixRight ==
  ASSUME NEW x, ListRight(x), NEW k \in 0 .. Len(x.needed), NEW v, v = SubSeq(x.needed, k + 1, Len(x.needed))
  PROVE  /\ v \in Seq(Block) /\ Len(v) = Len(x.needed) - k /\ Len(v) <= x.lrh + 1
         /\ Run(v, x.lrh - Len(v) + 1)
  <1>1. /\ x.needed \in Seq(Block) /\ Len(x.needed) \in Nat /\ x.lrh \in Nat /\ Len(x.needed) <= x.lrh + 1
        /\ Run(x.needed, x.lrh - Len(x.needed) + 1)
    BY SMTT(30) DEF ListRight, Run
  <1>2. PICK h \in Int : h = x.lrh - Len(x.needed) + 1
    BY SMTT(30), <1>1
  <1>3. PICK m \in k .. Len(x.needed) : m = Len(x.needed)
    BY SMTT(30), <1>1
  <1>4. v = SubSeq(x.needed, k + 1, m) /\ Run(x.needed, h)
    BY <1>1, <1>2, <1>3
  <1>5. Run(v, h + k) /\ Len(v) = m - k
    BY <1>4, RunSuffix
  <1>6. h + k = x.lrh - Len(v) + 1 /\ Len(v) <= x.lrh + 1 /\ Len(v) = Len(x.needed) - k
    BY SMTT(30), <1>1, <1>2, <1>3, <1>5
  <1>7. v \in Seq(Block)
    BY <1>5 DEF Run
  <1>8. Run(v, x.lrh - Len(v) + 1)
    BY <1>5, <1>6
  <1> QED BY <1>6, <1>7, <1>8

LEMMA ShorterRight ==
  ASSUME NEW x, NEW s, NEW e, From(x, s, e), NEW k \in 0 .. Len(x.needed)
  PROVE  From([x EXCEPT !.needed = SubSeq(@, k + 1, Len(@))], s, e)
  <1> DEFINE v == SubSeq(x.needed, k + 1, Len(x.needed))
             y == [x EXCEPT !.needed = v]
  <1>1. Len(v) <= x.lrh + 1 /\ Run(v, x.lrh - Len(v) + 1)
    BY SuffixRight DEF From
  <1> HIDE DEF v
  <1>2. /\ y.lrh = x.lrh /\ y.last = x.last /\ y.needed = v /\ y.expect = x.expect
        /\ y.score = x.score /\ y.closing = x.closing /\ y.state = x.state /\ IsContext(y)
    BY DEF From, IsContext, Fields
  <1> HIDE DEF y
  <1>3. From(y, s, e)
    BY <1>1, <1>2 DEF From, ListRight
  <1> QED BY <1>3 DEF y, v

LEMMA SkipRight ==
  ASSUME NEW x, NEW s, NEW e, From(x, s, e), NEW k \in 0 .. Len(x.needed)
  PROVE  From(Skip(x, k), s, e)
  <1> DEFINE v == SubSeq(x.needed, k + 1, Len(x.needed))
             l == IF k > 0 /\ k = Len(x.needed) THEN x.needed[k] ELSE x.last
             y == Skip(x, k)
  <1>1. Len(v) <= x.lrh + 1 /\ Run(v, x.lrh - Len(v) + 1)
    BY SuffixRight DEF From
  <1>2. l \in Block \union {NoHash}
    <2>1. CASE k > 0 /\ k = Len(x.needed)
      <3>1. x.needed \in Seq(Block) /\ x.last \in Block \union {NoHash}
        BY DEF From, ListRight, Run
      <3>2. k \in 1 .. Len(x.needed)
        BY SMTT(30), <2>1, <3>1
      <3> QED BY <2>1, <3>1, <3>2, ElementIs
    <2>2. CASE ~(k > 0 /\ k = Len(x.needed))
      BY <2>2 DEF From, ListRight
    <2> QED BY <2>1, <2>2
  <1> HIDE DEF v, l
  <1>3. /\ y.lrh = x.lrh /\ y.last = l /\ y.needed = v /\ y.expect = x.expect
        /\ y.score = x.score /\ y.closing = x.closing /\ y.state = x.state /\ IsContext(y)
    BY DEF From, IsContext, Fields, Skip, v, l
  <1> HIDE DEF y
  <1>4. From(y, s, e)
    BY <1>1, <1>2, <1>3 DEF From, ListRight
  <1> QED BY <1>4 DEF y

(* The span reserve_span would take, for a list that does not begin with the *)
(* genesis block.                                                            *)
SpanFits(x, q, span) ==
  \/ /\ span.n \in Nat /\ span.n > 0 /\ span.start \in Nat \ {0} /\ Run(span.hashes, span.start)
     /\ (span.start - (x.lrh - Len(x.needed) + 1)) + span.n \in 0 .. Len(x.needed)
  \/ /\ span.n = 0
     /\ \A i \in 1 .. Len(x.needed) : x.needed[i] \in q.requested

LEMMA SpanToReserveFits ==
  ASSUME NEW x, NEW q, ListRight(x), Len(x.needed) <= x.lrh, NEW span,
         span = SpanToReserve(q, x.lrh + 1 - Len(x.needed), x.lrh, LIMIT, x.needed)
  PROVE  SpanFits(x, q, span)
  <1>1. /\ x.needed \in Seq(Block) /\ x.lrh \in Nat /\ Run(x.needed, x.lrh - Len(x.needed) + 1)
        /\ LIMIT \in Nat \ {0}
    BY ConnectionAssumption DEF ListRight, Run
  <1>2. PICK n \in Nat : n = Len(x.needed)
    BY <1>1, LenNat
  <1>3. PICK l \in Nat : l = x.lrh
    BY <1>1
  <1>4. PICK k : k = Leading(x.needed, q.requested)
    OBVIOUS
  <1>5. k \in 0 .. n /\ \A i \in 1 .. k : x.needed[i] \in q.requested
    BY <1>1, <1>2, <1>4, LeadingIs
  <1>6. CASE k = n
    <2>1. span = NoSpan
      BY <1>2, <1>4, <1>6 DEF SpanToReserve, Reservable
    <2>2. span.n = 0
      BY SMTT(30), <2>1 DEF NoSpan
    <2> QED BY <1>2, <1>5, <1>6, <2>2 DEF SpanFits
  <1>7. CASE k # n
    <2>1. PICK m : m = Min({LIMIT, n - k})
      OBVIOUS
    <2>2. m \in Nat /\ m > 0 /\ k + m <= n /\ n <= l
      <3>1. n - k \in Int /\ LIMIT \in Int
        BY SMTT(30), <1>1, <1>5
      <3>2. m = IF LIMIT <= n - k THEN LIMIT ELSE n - k
        BY <2>1, <3>1, MinOfTwo
      <3> QED BY SMTT(30), <1>1, <1>2, <1>3, <1>5, <1>7, <3>2
    <2>3. ~(l < l + 1 - n) /\ ~(n > l) /\ LIMIT # 0
      <3>1. n > 0
        BY SMTT(30), <1>5, <1>7
      <3> QED BY SMTT(30), <1>1, <2>2, <3>1
    <2>4. /\ span.start = l - n + 1 + k /\ span.n = m
          /\ span.hashes = SubSeq(x.needed, k + 1, k + m)
      BY <1>2, <1>3, <1>4, <1>7, <2>1, <2>3 DEF SpanToReserve, Reservable
    <2>5. PICK h \in Int : h = l - n + 1 /\ h + k = l - n + 1 + k
      BY SMTT(30), <1>5
    <2>6. k + m \in k .. Len(x.needed) /\ k \in 0 .. Len(x.needed)
      BY SMTT(30), <1>2, <1>5, <2>2
    <2>7. Run(span.hashes, h + k)
      <3>1. PICK j \in k .. Len(x.needed) : j = k + m
        BY <2>6
      <3>2. Run(x.needed, h)
        BY <1>1, <1>2, <1>3, <2>5
      <3>3. Run(SubSeq(x.needed, k + 1, j), h + k)
        BY <2>6, <3>2, RunSuffix
      <3> QED BY <2>4, <3>1, <3>3
    <2>8. span.start = h + k
      BY <2>4, <2>5
    <2>9. span.start \in Nat \ {0} /\ (span.start - h) + span.n \in 0 .. n
      BY SMTT(30), <1>5, <2>2, <2>4, <2>5, <2>8
    <2>10. h = x.lrh - Len(x.needed) + 1
      BY <1>2, <1>3, <2>5
    <2>11. Run(span.hashes, span.start)
      BY <2>7, <2>8
    <2> QED BY <1>2, <2>2, <2>4, <2>9, <2>10, <2>11 DEF SpanFits
  <1> QED BY <1>6, <1>7

(* The next span is below every hash that another span is to bring, so what *)
(* it takes out of the list is the beginning of it.                         *)
LEMMA NextTaken ==
  ASSUME NEW T, NEW q, NEW x, Covered(q), QueueRight(T, q), ListRight(x),
         \A i \in 1 .. Len(x.needed) : x.needed[i] \in q.requested, Starts(q) # {},
         NEW S, S = Range(x.needed) \ Range(q.spans[First(q)].hashes)
  PROVE  \E k \in 0 .. Len(x.needed) : Among(x.needed, S) = SubSeq(x.needed, k + 1, Len(x.needed))
  <1>1. /\ x.needed \in Seq(Block) /\ x.lrh \in Nat /\ Run(x.needed, x.lrh - Len(x.needed) + 1)
    BY DEF ListRight, Run
  <1>2. PICK n \in Nat : n = Len(x.needed)
    BY <1>1, LenNat
  <1>3. PICK f : f = First(q)
    OBVIOUS
  <1>4. f \in Starts(q) /\ f \in Nat \ {0} /\ \A h \in Starts(q) : h \in Nat /\ f <= h
    <2>1. Starts(q) \subseteq Nat \ {0}
      BY DEF QueueRight, SpanRight
    <2>2. Starts(q) \subseteq Nat
      BY <2>1
    <2> QED BY <1>3, <2>1, <2>2, MinIs DEF First
  <1>5. PICK g : g = q.spans[f].hashes /\ Run(g, f)
    BY <1>4 DEF QueueRight, SpanRight
  <1>6. ASSUME NEW i \in 2 .. Len(x.needed), x.needed[i - 1] \in S PROVE x.needed[i] \in S
    <2>1. SUFFICES ASSUME x.needed[i] \in Range(g) PROVE FALSE
      <3>1. DOMAIN x.needed = 1 .. Len(x.needed) /\ i \in 1 .. Len(x.needed)
        BY SMTT(30), <1>1
      <3>2. x.needed[i] \in Range(x.needed)
        BY <3>1 DEF Range
      <3> QED BY <1>3, <1>5, <3>2
    <2>2. PICK j \in DOMAIN g : g[j] = x.needed[i]
      BY <2>1 DEF Range
    <2>3. j \in 1 .. Len(g) /\ DOMAIN g = 1 .. Len(g) /\ Len(g) \in Nat
      BY SMTT(30), <1>5 DEF Run
    <2>4. HeightOf(g[j]) = f + j - 1 /\ (j > 1 => Prev(g[j]) = g[j - 1])
      BY <1>5, <2>3 DEF Run
    <2>5. i \in 1 .. n /\ i > 1 /\ 1 \in 1 .. n
      BY SMTT(30), <1>2
    <2>6. Prev(x.needed[i]) = x.needed[i - 1]
      BY <1>1, <1>2, <2>5 DEF Run
    <2>7. CASE j > 1
      <3>1. j - 1 \in DOMAIN g
        BY SMTT(30), <2>3, <2>7
      <3>2. x.needed[i - 1] = g[j - 1]
        BY <2>2, <2>4, <2>6, <2>7
      <3>3. x.needed[i - 1] \in Range(g)
        BY <3>1, <3>2 DEF Range
      <3> QED BY <1>3, <1>5, <1>6, <3>3
    <2>8. CASE ~(j > 1)
      <3>1. HeightOf(x.needed[1]) = x.lrh - n + 1 + 1 - 1 /\ HeightOf(x.needed[i]) = x.lrh - n + 1 + i - 1
        BY <1>1, <1>2, <2>5 DEF Run
      <3>2. x.needed[1] \in HashesOf(q, Starts(q))
        BY <1>2, <2>5 DEF Covered, CoveredBut
      <3>3. PICK h \in Starts(q) : x.needed[1] \in Range(q.spans[h].hashes)
        BY <3>2, InHashes
      <3>4. h \in Nat /\ f <= h /\ Run(q.spans[h].hashes, h)
        BY <1>4 DEF QueueRight, SpanRight
      <3>5. PICK u \in DOMAIN q.spans[h].hashes : q.spans[h].hashes[u] = x.needed[1]
        BY <3>3 DEF Range
      <3>6. u \in 1 .. Len(q.spans[h].hashes)
        BY SMTT(30), <3>4, <3>5 DEF Run
      <3>7. HeightOf(x.needed[1]) = h + u - 1
        BY <3>4, <3>5, <3>6 DEF Run
      <3>8. u \in Nat /\ u >= 1 /\ j = 1
        BY SMTT(30), <2>3, <2>8, <3>4, <3>6 DEF Run
      <3> QED BY SMTT(30), <1>1, <1>4, <2>2, <2>4, <2>5, <3>1, <3>4, <3>7, <3>8
    <2> QED BY <2>7, <2>8
  <1> QED BY <1>1, <1>6, AmongSuffix

LEMMA ScheduledIs ==
  ASSUME NEW T, NEW q, QueueRight(T, q), NEW span, span = get_next_span_if_scheduled(q)
  PROVE  \/ span.n = 0
         \/ Starts(q) # {} /\ span.hashes = q.spans[First(q)].hashes /\ span.hashes \in Seq(Block)
  <1>1. CASE Starts(q) = {} \/ Filled(q, First(q))
    BY SMTT(30), <1>1 DEF get_next_span_if_scheduled, NoSpan
  <1>2. CASE ~(Starts(q) = {} \/ Filled(q, First(q)))
    <2>1. span.hashes = q.spans[First(q)].hashes
      BY <1>2 DEF get_next_span_if_scheduled
    <2>2. Starts(q) \subseteq Nat
      BY DEF QueueRight, SpanRight
    <2>3. First(q) \in Starts(q)
      BY <1>2, <2>2, MinIs DEF First
    <2> QED BY <1>2, <2>1, <2>3 DEF QueueRight, SpanRight, Run
  <1> QED BY <1>1, <1>2

LEMMA TakeNextRight ==
  ASSUME NEW x, NEW q, NEW span, NEW s, NEW e, From(x, s, e), Covered(q), QueueRight(top, q),
         span = get_next_span_if_scheduled(q), \A i \in 1 .. Len(x.needed) : x.needed[i] \in q.requested
  PROVE  RightFor(TakeNext(x, q, span), s, e)
  <1>1. CASE span.n = 0
    BY <1>1, DoneRight DEF TakeNext
  <1>2. CASE span.n # 0
    <2>1. Starts(q) # {} /\ span.hashes = q.spans[First(q)].hashes /\ span.hashes \in Seq(Block)
      BY <1>2, ScheduledIs
    <2>2. PICK S : S = Range(x.needed) \ Range(span.hashes)
      OBVIOUS
    <2>3. ListRight(x) /\ S = Range(x.needed) \ Range(q.spans[First(q)].hashes)
      BY <2>1, <2>2 DEF From
    <2>4. PICK k \in 0 .. Len(x.needed) : Among(x.needed, S) = SubSeq(x.needed, k + 1, Len(x.needed))
      BY <2>1, <2>3, NextTaken
    <2>5. From([x EXCEPT !.needed = SubSeq(@, k + 1, Len(@))], s, e)
      BY ShorterRight
    <2>6. From([x EXCEPT !.needed = Among(@, Range(x.needed) \ Range(span.hashes))], s, e)
      BY <2>2, <2>4, <2>5
    <2> QED BY <1>2, <2>1, <2>6, AskForSpanRight DEF TakeNext
  <1> QED BY <1>1, <1>2

(* A list whose first block the node does not have does not begin with the  *)
(* genesis block.                                                           *)
LEMMA AboveGenesis ==
  ASSUME CoreRight, NEW x, ListRight(x), x.needed = <<>> \/ ~HasBlock(x.needed[1])
  PROVE  Len(x.needed) <= x.lrh
  <1>1. x.needed \in Seq(Block) /\ x.lrh \in Nat /\ Len(x.needed) \in Nat /\ Len(x.needed) <= x.lrh + 1
    BY SMTT(30) DEF ListRight, Run
  <1>2. CASE x.needed = <<>>
    BY SMTT(30), <1>1, <1>2
  <1>3. CASE x.needed # <<>>
    <2>1. 1 \in 1 .. Len(x.needed) /\ x.needed[1] \in Block
      BY SMTT(30), <1>1, <1>3
    <2>2. HeightOf(x.needed[1]) = x.lrh - Len(x.needed) + 1 + 1 - 1
      BY <2>1 DEF ListRight, Run
    <2>3. HeightOf(x.needed[1]) # 0
      BY <1>3, <2>1, HeightZero DEF CoreRight, HasBlock
    <2> QED BY SMTT(30), <1>1, <2>2, <2>3
  <1> QED BY <1>2, <1>3

LEMMA ReserveFromRight ==
  ASSUME CoreRight, NEW c \in Conn, NEW x, NEW q, NEW force, NEW s, NEW e, From(x, s, e), Covered(q),
         QueueRight(top, q), x.needed = <<>> \/ ~HasBlock(x.needed[1])
  PROVE  RightFor(ReserveFrom(c, x, q, force), s, e)
  <1>1. PICK span : span = SpanToReserve(q, x.lrh + 1 - Len(x.needed), x.lrh, LIMIT, x.needed)
    OBVIOUS
  <1>2. SpanFits(x, q, span)
    BY <1>1, AboveGenesis, SpanToReserveFits DEF From
  <1>3. CASE span.n = 0
    <2>1. \A i \in 1 .. Len(x.needed) : x.needed[i] \in q.requested
      BY SMTT(30), <1>2, <1>3 DEF SpanFits
    <2>2. ~(span.n > 0)
      BY SMTT(30), <1>3
    <2>3. RightFor(TakeNext(x, q, get_next_span_if_scheduled(q)), s, e)
      BY <2>1, TakeNextRight
    <2> QED BY <1>1, <2>2, <2>3, DoneRight DEF ReserveFrom, Reserve
  <1>4. CASE span.n # 0
    <2>1. /\ span.n > 0 /\ span.start \in Nat \ {0} /\ Run(span.hashes, span.start)
          /\ (span.start - (x.lrh - Len(x.needed) + 1)) + span.n \in 0 .. Len(x.needed)
      BY <1>2, <1>4 DEF SpanFits
    <2>2. PICK k \in 0 .. Len(x.needed) : k = (span.start - (x.lrh - Len(x.needed) + 1)) + span.n
      BY <2>1
    <2>3. From([x EXCEPT !.needed = SubSeq(@, k + 1, Len(@))], s, e)
      BY ShorterRight
    <2>4. From(TakeNeeded(x, span), s, e)
      BY <2>2, <2>3 DEF TakeNeeded
    <2>5. QueueRight(top, reserve_span(q, span, c)) /\ span.hashes \in Seq(Block)
      BY <2>1, ReserveRight DEF Run
    <2>6. RightFor(AskForSpan(TakeNeeded(x, span), reserve_span(q, span, c), span), s, e)
      BY <2>4, <2>5, AskForSpanRight
    <2> QED BY <1>1, <2>1, <2>6 DEF ReserveFrom, Reserve
  <1> QED BY <1>3, <1>4

(* skip_unneeded_hashes *)
LEMMA UnneededIs ==
  ASSUME NEW x, IsContext(x), ListRight(x), NEW q, NEW check, NEW n, n = Unneeded(x, q, check), NEW y, y = Skip(x, n)
  PROVE  n \in 0 .. Len(x.needed) /\ (~check => y.needed = <<>> \/ ~HasBlock(y.needed[1]))
  <1> DEFINE S == known \union invalid \union (IF check THEN DOMAIN q.have ELSE {})
  <1>1. x.needed \in Seq(Block)
    BY DEF ListRight, Run
  <1>2. n = Leading(x.needed, S)
    BY DEF Unneeded
  <1> HIDE DEF S
  <1>3. n \in 0 .. Len(x.needed) /\ (n < Len(x.needed) => x.needed[n + 1] \notin S)
    BY <1>1, <1>2, LeadingIs
  <1>4. y.needed = SubSeq(x.needed, n + 1, Len(x.needed))
    BY DEF Skip, IsContext, Fields
  <1>5. y.needed = <<>> \/ (n < Len(x.needed) /\ y.needed[1] = x.needed[n + 1])
    BY SMTT(30), <1>1, <1>3, <1>4
  <1> QED BY <1>3, <1>5 DEF S, HasBlock

LEMMA FindSpanRight ==
  ASSUME CoreRight, NEW c \in Conn, NEW x, NEW q, NEW force, NEW s, NEW e, From(x, s, e), Covered(q),
         QueueRight(top, q)
  PROVE  RightFor(FindSpan(c, x, q, force, Unneeded(x, q, FALSE)), s, e)
  <1>1. PICK n : n = Unneeded(x, q, FALSE)
    OBVIOUS
  <1>2. PICK y : y = Skip(x, n)
    OBVIOUS
  <1>3. n \in 0 .. Len(x.needed) /\ (y.needed = <<>> \/ ~HasBlock(y.needed[1]))
    BY <1>1, <1>2, UnneededIs DEF From
  <1>4. From(y, s, e)
    BY <1>2, <1>3, SkipRight
  <1>5. RightFor(Done(c, y, q), s, e) /\ RightFor(ReserveFrom(c, y, q, force), s, e)
    BY <1>3, <1>4, DoneRight, ReserveFromRight
  <1> QED BY <1>1, <1>2, <1>5 DEF FindSpan

LEMMA RequestRight ==
  ASSUME CoreRight, NEW c \in Conn, NEW x, NEW q, NEW force, NEW s, NEW e, From(x, s, e), Covered(q),
         QueueRight(top, q)
  PROVE  RightFor(Download(c, x, q, force), s, e)
  <1>1. PICK next : next = get_next_span_if_scheduled(q)
    OBVIOUS
  <1>2. next.n > 0 => next.hashes \in Seq(Block)
    BY SMTT(30), <1>1, ScheduledIs
  <1>3. next.n > 0 => RightFor(AskForSpan(x, q, next), s, e)
    BY <1>2, AskForSpanRight
  <1> DEFINE y == [x EXCEPT !.needed = <<>>, !.lrh = 0]
  <1>4. /\ y.lrh = 0 /\ y.last = x.last /\ y.needed = <<>> /\ y.expect = x.expect
        /\ y.score = x.score /\ y.closing = x.closing /\ y.state = x.state /\ IsContext(y)
    BY DEF From, IsContext, Fields
  <1> HIDE DEF y
  <1>5. 0 \in Nat
    BY SMTT(30)
  <1>6. From(y, s, e)
    BY <1>4, <1>5, EmptyList DEF From, ListRight
  <1>7. RightFor(NeedHashes(c, x, q), s, e) /\ RightFor(NeedHashes(c, y, q), s, e)
    BY <1>6, NeedHashesRight
  <1>8. RightFor(FindSpan(c, x, q, force, Unneeded(x, q, FALSE)), s, e)
    BY FindSpanRight
  <1> QED BY <1>1, <1>3, <1>7, <1>8 DEF Download, Request, y

LEMMA RequestMissingRight ==
  ASSUME CoreRight, NEW c \in Conn, NEW x, NEW q, NEW force, NEW late, NEW wedged, NEW s, NEW e,
         From(x, s, e), Covered(q), QueueRight(top, q)
  PROVE  RightFor(request_missing_objects(c, x, q, force, late, wedged), s, e)
  <1> DEFINE f == flush_stale_spans(q, Live)
  <1>1. Covered(f) /\ QueueRight(top, f)
    BY FlushCovered, FlushRight
  <1> HIDE DEF f
  <1>2. RightFor(Download(c, x, f, TRUE), s, e)
    BY <1>1, RequestRight
  <1>3. PICK n : n = Unneeded(x, f, TRUE)
    OBVIOUS
  <1>4. PICK y : y = Skip(x, n)
    OBVIOUS
  <1>5. n \in 0 .. Len(x.needed)
    BY <1>3, <1>4, UnneededIs DEF From
  <1>6. From(y, s, e)
    BY <1>4, <1>5, SkipRight
  <1>7. RightFor(Pause(y, f, wedged), s, e)
    BY <1>1, <1>6, WaitsRight, FailsRight DEF Pause
  <1> DEFINE z == [y EXCEPT !.state = "synchronizing"]
  <1>8. /\ z.lrh = y.lrh /\ z.last = y.last /\ z.needed = y.needed /\ z.expect = y.expect
        /\ z.score = y.score /\ z.closing = y.closing /\ z.state = y.state /\ IsContext(z)
    BY <1>6 DEF From, IsContext, Fields
  <1> HIDE DEF z
  <1>9. From(z, s, e)
    BY <1>6, <1>8 DEF From, ListRight
  <1>10. RightFor(Download(c, z, f, TRUE), s, e) /\ RightFor(Download(c, z, f, FALSE), s, e)
    BY <1>1, <1>9, RequestRight
  <1>11. RightFor(Unforced(c, y, f, late, wedged), s, e)
    BY <1>7, <1>10 DEF Unforced, z
  <1>12. RightFor(Done(c, y, f), s, e)
    BY <1>1, <1>6, DoneRight
  <1>13. RightFor(Unskipped(c, x, f, late, wedged, n), s, e)
    BY <1>4, <1>11, <1>12 DEF Unskipped
  <1>14. RightFor(MissingObjects(c, x, f, force, late, wedged), s, e)
    BY <1>2, <1>3, <1>13 DEF MissingObjects
  <1> QED BY <1>14 DEF request_missing_objects, f

-----------------------------------------------------------------------------
(* Adding a span to the chain. *)

(* What the core may be after some blocks, K being what it had before. *)
Cores(K) ==
  {k \in [known : SUBSET Block, invalid : SUBSET BAD, tip : Block, ok : BOOLEAN] :
     K \subseteq k.known /\ k.tip \in k.known /\ \A b \in k.known : HeightOf(b) <= HeightOf(k.tip)}

LEMMA CoresIs ==
  ASSUME NEW K, NEW k \in Cores(K)
  PROVE  /\ DOMAIN k = {"known", "invalid", "tip", "ok"}
         /\ k.known \subseteq Block /\ k.invalid \subseteq BAD /\ k.tip \in Block /\ k.ok \in BOOLEAN
         /\ K \subseteq k.known /\ k.tip \in k.known /\ \A b \in k.known : HeightOf(b) <= HeightOf(k.tip)
  BY DEF Cores

LEMMA AddBlockIs ==
  ASSUME NEW K, NEW k \in Cores(K), NEW b \in Block, NEW mark
  PROVE  /\ AddBlock(k, b, mark) \in Cores(K)
         /\ k.ok /\ Prev(b) \in k.known /\ b \notin BAD =>
              /\ AddBlock(k, b, mark).ok
              /\ k.known \union {b} = AddBlock(k, b, mark).known
  <1> DEFINE m == AddBlock(k, b, mark)
  <1>1. /\ DOMAIN k = {"known", "invalid", "tip", "ok"}
        /\ k.known \subseteq Block /\ k.invalid \subseteq BAD /\ k.tip \in Block /\ k.ok \in BOOLEAN
        /\ K \subseteq k.known /\ k.tip \in k.known /\ \A d \in k.known : HeightOf(d) <= HeightOf(k.tip)
    BY CoresIs
  <1>2. CASE ~k.ok \/ b \in k.known \/ b \in k.invalid
    <2>1. m = k
      BY <1>2 DEF AddBlock
    <2> QED BY <1>1, <1>2, <2>1
  <1>3. CASE ~(~k.ok \/ b \in k.known \/ b \in k.invalid) /\ (Prev(b) \notin k.known \/ b \in BAD)
    <2>1. m = [k EXCEPT !.ok = FALSE,
                        !.invalid = @ \union (IF mark /\ Prev(b) \in k.known THEN {b} ELSE {})]
      BY <1>3 DEF AddBlock
    <2>2. /\ m.known = k.known /\ m.tip = k.tip /\ m.ok = FALSE /\ DOMAIN m = {"known", "invalid", "tip", "ok"}
          /\ m.invalid = k.invalid \union (IF mark /\ Prev(b) \in k.known THEN {b} ELSE {})
          /\ m = [known |-> m.known, invalid |-> m.invalid, tip |-> m.tip, ok |-> m.ok]
      BY <1>1, <2>1
    <2>3. m.invalid \subseteq BAD
      BY <1>1, <1>3, <2>2
    <2> HIDE DEF m
    <2>4. m \in Cores(K)
      BY <1>1, <2>2, <2>3 DEF Cores
    <2> QED BY <1>3, <2>4 DEF m
  <1>4. CASE ~(~k.ok \/ b \in k.known \/ b \in k.invalid) /\ ~(Prev(b) \notin k.known \/ b \in BAD)
    <2> DEFINE u == IF HeightOf(b) > HeightOf(k.tip) THEN b ELSE k.tip
    <2>1. m = [k EXCEPT !.known = @ \union {b}, !.tip = IF HeightOf(b) > HeightOf(@) THEN b ELSE @]
      BY <1>4 DEF AddBlock
    <2>2. /\ m.known = k.known \union {b} /\ m.tip = u /\ m.ok = k.ok /\ m.invalid = k.invalid
          /\ m = [known |-> m.known, invalid |-> m.invalid, tip |-> m.tip, ok |-> m.ok]
      BY <1>1, <2>1
    <2> HIDE DEF m
    <2>3. u \in Block /\ u \in m.known
      BY <1>1, <2>2
    <2>4. \A d \in m.known : HeightOf(d) <= HeightOf(u)
      <3>1. HeightOf(b) \in Nat /\ HeightOf(k.tip) \in Nat /\ \A d \in k.known : HeightOf(d) \in Nat
        BY <1>1, HeightNat
      <3>2. CASE HeightOf(b) > HeightOf(k.tip)
        BY SMTT(30), <1>1, <2>2, <3>1, <3>2
      <3>3. CASE ~(HeightOf(b) > HeightOf(k.tip))
        BY SMTT(30), <1>1, <2>2, <3>1, <3>3
      <3> QED BY <3>2, <3>3
    <2> HIDE DEF u
    <2>5. m \in Cores(K)
      BY <1>1, <2>2, <2>3, <2>4 DEF Cores
    <2> QED BY <1>4, <2>2, <2>5 DEF m
  <1> QED BY <1>2, <1>3, <1>4

(* The loop of AddSpan: T[i] holds what the core may be after i blocks. *)
Adds(blocks, mark, T) ==
  \A i \in 1 .. Len(blocks) : \A k \in T[i - 1] : AddBlock(k, blocks[i], mark) \in T[i]

Before == [known |-> known, invalid |-> invalid, tip |-> tip, ok |-> TRUE]

LEMMA AddSpanFold ==
  ASSUME NEW B, NEW blocks \in Seq(B), NEW mark, NEW T, Before \in T[0], Adds(blocks, mark, T)
  PROVE  AddSpan(blocks, mark) \in T[Len(blocks)]
  <1> DEFINE n == Len(blocks)
             round(i, k) == AddBlock(k, blocks[i], mark)
             g == [i \in 1 .. n |-> [k \in T[i - 1] |-> round(i, k)]]
             body(f) == [i \in 0 .. n |-> IF i = 0 THEN Before ELSE round(i, f[i - 1])]
             up == CHOOSE f : f = body(f)
  <1>1. n \in Nat /\ n \in 0 .. n /\ 0 \in 0 .. n
    BY SMTT(30)
  <1>2. \A i \in 1 .. n : \A k \in T[i - 1] : g[i][k] = round(i, k) /\ round(i, k) \in T[i]
    BY DEF Adds
  <1>3. PICK f : IsFold(f, Before, g, T, n)
    <2> HIDE DEF g, n, round
    <2>1. \A i \in 1 .. n : \A k \in T[i - 1] : g[i][k] \in T[i]
      BY <1>2
    <2> QED BY <1>1, <2>1, FoldExists
  <1>4. f = body(f)
    <2> HIDE DEF g, n, round
    <2>1. \A i \in 0 .. n : i = 0 \/ (i \in 1 .. n /\ i - 1 \in 0 .. n)
      BY SMTT(30), <1>1
    <2> QED BY <1>1, <1>2, <1>3, <2>1 DEF IsFold
  <1>5. up = body(up)
    <2> HIDE DEF body
    <2> QED BY <1>4
  <1>6. AddSpan(blocks, mark) = up[n]
    BY DEF AddSpan, Before
  <1> HIDE DEF up
  <1>7. \A i \in 0 .. n : up[i] = IF i = 0 THEN Before ELSE round(i, up[i - 1])
    <2> HIDE DEF n, round
    <2> QED BY <1>5
  <1>8. \A i \in 0 .. n : up[i] \in T[i]
    <2> HIDE DEF g, n, round
    <2> DEFINE D == {i \in Nat : i <= n => up[i] \in T[i]}
    <2>1. 0 \in D
      <3>1. up[0] = Before
        BY <1>1, <1>7
      <3> QED BY SMTT(30), <3>1
    <2>2. ASSUME NEW i \in Nat, i \in D PROVE i + 1 \in D
      <3> SUFFICES ASSUME i + 1 <= n PROVE up[i + 1] \in T[i + 1]
        BY SMTT(30)
      <3>1. i <= n /\ i + 1 \in 1 .. n /\ i + 1 \in 0 .. n /\ (i + 1) - 1 = i /\ i + 1 # 0
        BY SMTT(30), <1>1
      <3>2. up[i] \in T[i] /\ up[i + 1] = round(i + 1, up[i])
        BY <1>7, <2>2, <3>1
      <3> QED BY <1>2, <3>1, <3>2
    <2> HIDE DEF D
    <2>3. Nat \subseteq D
      BY <2>1, <2>2, Induction
    <2> QED BY SMTT(30), <1>1, <2>3 DEF D
  <1> QED BY <1>1, <1>6, <1>8

LEMMA BeforeIs ==
  ASSUME CoreRight
  PROVE  Before \in Cores(known) /\ Before.ok /\ Before.known = known
  <1>1. tip \in Block
    BY DEF CoreRight
  <1> QED BY <1>1 DEF Before, Cores, CoreRight

LEMMA AddSpanRight ==
  ASSUME CoreRight, NEW blocks \in Seq(Block), NEW mark
  PROVE  AddSpan(blocks, mark) \in Cores(known)
  <1> DEFINE T == [i \in 0 .. Len(blocks) |-> Cores(known)]
  <1>1. Len(blocks) \in Nat /\ 0 \in 0 .. Len(blocks) /\ Len(blocks) \in 0 .. Len(blocks)
    BY SMTT(30)
  <1>2. ASSUME NEW i \in 1 .. Len(blocks), NEW k \in T[i - 1] PROVE AddBlock(k, blocks[i], mark) \in T[i]
    <2>1. i \in 0 .. Len(blocks) /\ i - 1 \in 0 .. Len(blocks)
      BY SMTT(30), <1>1
    <2>2. k \in Cores(known) /\ T[i] = Cores(known)
      BY <1>2, <2>1
    <2>3. PICK b \in Block : b = blocks[i]
      BY ElementIs
    <2>4. AddBlock(k, b, mark) \in Cores(known)
      BY <2>2, AddBlockIs
    <2> QED BY <2>2, <2>3, <2>4
  <1>3. Before \in T[0] /\ T[Len(blocks)] = Cores(known)
    BY <1>1, BeforeIs
  <1> HIDE DEF T
  <1>4. Adds(blocks, mark, T)
    BY <1>2 DEF Adds
  <1>5. AddSpan(blocks, mark) \in T[Len(blocks)]
    BY <1>3, <1>4, AddSpanFold
  <1> QED BY <1>3, <1>5

(* A span of a valid chain whose parent the node has is taken. *)
LEMMA AddSpanOk ==
  ASSUME CoreRight, NEW t \in Block, NEW h \in Nat \ {0}, NEW blocks, Serves(t, h, blocks), NEW mark,
         Range(ChainTo[t]) \cap BAD = {}, HasBlock(Prev(blocks[1]))
  PROVE  AddSpan(blocks, mark).ok
  <1> DEFINE After(i) == {k \in Cores(known) : k.ok /\ \A j \in 1 .. i : blocks[j] \in k.known}
             T == [i \in 0 .. Len(blocks) |-> After(i)]
  <1>1. blocks \in Seq(Block)
    BY DEF Serves
  <1>2. Len(blocks) \in Nat /\ 0 \in 0 .. Len(blocks) /\ Len(blocks) \in 0 .. Len(blocks)
    BY SMTT(30), <1>1
  <1>3. ASSUME NEW i \in 1 .. Len(blocks), NEW k \in T[i - 1] PROVE AddBlock(k, blocks[i], mark) \in T[i]
    <2>1. i \in 0 .. Len(blocks) /\ i - 1 \in 0 .. Len(blocks)
      BY SMTT(30), <1>2
    <2>2. k \in Cores(known) /\ k.ok /\ (\A j \in 1 .. i - 1 : blocks[j] \in k.known) /\ T[i] = After(i)
      BY <1>3, <2>1
    <2>3. /\ blocks[i] \in Block /\ blocks[i] \in Range(ChainTo[t])
          /\ Prev(blocks[i]) \in Range(ChainTo[t]) /\ (i > 1 => Prev(blocks[i]) = blocks[i - 1])
      BY SMTT(30), ServesIs
    <2>4. blocks[i] \notin BAD /\ Prev(blocks[i]) \notin BAD
      BY <2>3
    <2>5. Prev(blocks[i]) \in k.known
      <3>1. CASE i = 1
        <4>1. Prev(blocks[i]) \in known
          BY <2>4, <3>1 DEF HasBlock, CoreRight
        <4> QED BY <2>2, <4>1, CoresIs
      <3>2. CASE i # 1
        <4>1. i > 1 /\ i - 1 \in 1 .. i - 1
          BY SMTT(30), <3>2
        <4> QED BY <2>2, <2>3, <4>1
      <3> QED BY <3>1, <3>2
    <2>6. PICK m : m = AddBlock(k, blocks[i], mark)
      OBVIOUS
    <2>7. m \in Cores(known) /\ m.ok /\ k.known \union {blocks[i]} = m.known
      <3>1. PICK b \in Block : b = blocks[i]
        BY <2>3
      <3>2. k \in Cores(known) /\ k.ok /\ Prev(b) \in k.known /\ b \notin BAD
        BY <2>2, <2>4, <2>5, <3>1
      <3>3. AddBlock(k, b, mark) \in Cores(known) /\ AddBlock(k, b, mark).ok
            /\ k.known \union {b} = AddBlock(k, b, mark).known
        BY <3>2, AddBlockIs
      <3> QED BY <2>6, <3>1, <3>3
    <2>8. \A j \in 1 .. i : j \in 1 .. i - 1 \/ j = i
      BY SMTT(30)
    <2>9. m \in After(i)
      BY <2>2, <2>7, <2>8
    <2> QED BY <2>2, <2>6, <2>9
  <1>4. Before \in After(0)
    <2>1. \A j \in 1 .. 0 : FALSE
      BY SMTT(30)
    <2> QED BY <2>1, BeforeIs
  <1>5. Before \in T[0] /\ T[Len(blocks)] = After(Len(blocks))
    BY <1>2, <1>4
  <1> HIDE DEF T
  <1>6. Adds(blocks, mark, T)
    BY <1>3 DEF Adds
  <1>7. AddSpan(blocks, mark) \in T[Len(blocks)]
    BY <1>1, <1>5, <1>6, AddSpanFold
  <1> QED BY <1>5, <1>7
=============================================================================
