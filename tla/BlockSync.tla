----------------------------- MODULE BlockSync ------------------------------
(***************************************************************************)
(* t_cryptonote_protocol_handler (cryptonote_protocol_handler.inl): how a  *)
(* node downloads the chain of its peers.  Every connection asks its peer  *)
(* for hashes, reserves a span of them in the shared block queue, asks for *)
(* the blocks, and whoever holds m_sync_lock adds the filled spans to the  *)
(* chain.  Handlers of one connection run one after the other, those of    *)
(* different connections interleave at the steps below.  Peers may be      *)
(* slow, may close, and may serve blocks that do not verify.  The core is  *)
(* what the handler sees of it: the blocks it has and its tip.             *)
(***************************************************************************)
EXTENDS BlockQueue

CONSTANTS
  Conn,        \* connections; an identifier is used again once no trace is left
  Tree,        \* block |-> [prev, height]
  GENESIS,
  BAD,         \* blocks that do not verify
  Peers,       \* [top, faults]: the top blocks of the peers' chains, and a bound on
               \* the times a peer closes or does not answer in time
  LIMIT,       \* get_block_sync_size
  IDS,         \* BLOCKS_IDS_SYNCHRONIZING_DEFAULT_COUNT
  NSPANS,      \* BLOCK_QUEUE_NSPANS_THRESHOLD
  SIZE,        \* the queue's size threshold, in blocks
  NEAR,        \* BLOCK_QUEUE_FORCE_DOWNLOAD_NEAR_BLOCKS
  CALLS        \* bound on the callbacks pending when a timer asks for one

VARIABLES
  top,                  \* connection |-> the top block of its peer's chain; never changes
  known, invalid, tip,  \* the core: blocks on its chains, invalid ones, the top
  target,               \* m_target_blockchain_height
  synchronized,         \* m_synchronized
  added,                \* m_last_add_end_time is set
  queue,                \* m_block_queue
  lock,                 \* the connection that holds m_sync_lock, or NoOne
  pick,                 \* the span the holder of the lock is adding
  ctx,                  \* the connections' contexts
  wire,                 \* per connection, the requests the peer has not answered
  pc,                   \* where the connection's handler is
  blamed,               \* history: connections counted against their hosts
  failed,               \* history: a span was refused
  faults                \* how often peers may still close or not answer in time

core == <<known, invalid, tip, synchronized>>
vars == <<top, known, invalid, tip, target, synchronized, added, queue, lock, pick, ctx, wire,
          pc, blamed, failed, faults>>

Block == DOMAIN Tree
HeightOf(b) == Tree[b].height
Prev(b) == Tree[b].prev
NoOne == "nobody"
NoHash == "null"
NoPick == [start |-> 0, blocks |-> <<>>, connection |-> NoOne]
Unlimited == Max({HeightOf(b) : b \in Block}) + 1

(* Blocks form a tree, one height above their parents; the constants are    *)
(* those of the node: it asks for at least one block at a time and is sent  *)
(* at least one hash.                                                       *)
ASSUME TreeAssumption ==
  /\ IsFiniteSet(Block) /\ GENESIS \in Block /\ HeightOf(GENESIS) = 0 /\ Prev(GENESIS) \notin Block
  /\ \A b \in Block \ {GENESIS} :
       Prev(b) \in Block /\ HeightOf(Prev(b)) \in Nat /\ HeightOf(b) = HeightOf(Prev(b)) + 1
  /\ NoHash \notin Block

ASSUME ConnectionAssumption ==
  /\ NoOne \notin Conn
  /\ \A p \in Peers : p.top \in [Conn -> Block]
  /\ LIMIT \in Nat \ {0} /\ IDS \in Nat \ {0}

(* A chain as a sequence from its genesis (index 1, height 0) to its top. *)
ChainTo ==
  [b \in Block |->
     LET below[n \in 0 .. HeightOf(b)] == IF n = 0 THEN b ELSE Prev(below[n - 1])
     IN [i \in 1 .. HeightOf(b) + 1 |-> below[HeightOf(b) + 1 - i]]]

Remote(c) == HeightOf(top[c]) + 1
HasBlock(b) == b \in known \/ b \in invalid
OnMain(b) == b \in Range(ChainTo[tip])
Height == HeightOf(tip) + 1

-----------------------------------------------------------------------------
(* cryptonote_connection_context *)
Closed ==
  [state |-> "closed", needed |-> <<>>, hashes |-> <<>>, hstart |-> 0, requested |-> {},
   lrh |-> 0, last |-> NoHash, expect |-> "none", eheight |-> 0, nreq |-> 0, score |-> 0,
   calls |-> 0, closing |-> FALSE]

set_state_normal(x) ==
  [x EXCEPT !.state = "normal", !.hstart = 0, !.needed = <<>>, !.hashes = <<>>, !.requested = {}]

Expected(x, h) ==
  IF h < x.hstart \/ h - x.hstart >= Len(x.hashes) THEN NoHash ELSE x.hashes[h - x.hstart + 1]

Live == {c \in Conn : ctx[c].state /= "closed"}

(* What a handler leaves behind: the context, the queue, the request it     *)
(* sends, how it ends and whether it found the node synchronized.           *)
Result(x, q, sent, end, sync) == [x |-> x, q |-> q, sent |-> sent, end |-> end, sync |-> sync]
Nothing == <<>>
Ask(kind, ids) == <<[kind |-> kind, ids |-> ids]>>
Stays(x, q) == Result(x, q, Nothing, "stay", FALSE)
Fails(x, q) == Result(x, q, Nothing, "drop", FALSE)
GoesNormal(x, q, sync) == Result(set_state_normal(x), q, Nothing, "stay", sync)
CalledBack(x) == [x EXCEPT !.state = "standby", !.calls = @ + 1]

-----------------------------------------------------------------------------
(* request_missing_objects.  late: the time since the next span was asked   *)
(* for, or the speeds, allow asking for it again; wedged: nothing has been  *)
(* added for DROP_ON_SYNC_WEDGE_THRESHOLD.                                  *)

should_download_next_span(c, q, late) ==
  /\ Remote(c) > Height
  /\ \/ ~has_next_span(q, Height)
     \/ ~Filled(q, First(q)) /\ late

(* skip_unneeded_hashes: how many hashes it takes out, and what is left. *)
Unneeded(x, q, check) ==
  Leading(x.needed, known \union invalid \union (IF check THEN DOMAIN q.have ELSE {}))

Skip(x, n) ==
  [x EXCEPT !.last = IF n > 0 /\ n = Len(x.needed) THEN x.needed[n] ELSE @,
            !.needed = SubSeq(@, n + 1, Len(@))]

Exhausted(x, n) == n > 0 /\ n = Len(x.needed) /\ x.nreq = 0

(* Mutant of Done: the target is not looked at. *)
DoneEarly(c, x, q) ==
  IF Remote(c) > get_next_needed_height(q, Height)
    THEN Fails(x, q)
    ELSE GoesNormal(x, q, TRUE)

(* Nothing is left to ask this peer for. *)
Done(c, x, q) ==
  IF Remote(c) > get_next_needed_height(q, Height)
    THEN Fails(x, q)
    ELSE GoesNormal(x, q, Height >= target)

(* The end of request_missing_objects: ask for more hashes, or be done. *)
History == [i \in 1 .. Height |-> ChainTo[tip][Height + 1 - i]]

AskForChain(x, q) ==
  IF x.last /= NoHash /\ x.last /= tip
    THEN Result([x EXCEPT !.expect = "chain", !.eheight = Unlimited], q,
                Ask("chain", <<x.last>> \o History), "stay", FALSE)
    ELSE Result([x EXCEPT !.expect = "chain", !.eheight = Height], q,
                Ask("chain", History), "stay", FALSE)

NeedHashes(c, x, q) ==
  IF Height < target /\ lock = NoOne /\ get_next_span(q) /= 0
    THEN Stays(CalledBack(x), q)
    ELSE IF x.lrh < Remote(c) - 1
      THEN AskForChain(x, q)
      ELSE IF x.lrh = Remote(c) - 1 /\ x.requested = {}
        THEN GoesNormal(x, q, Remote(c) >= target /\ Height >= target)
        ELSE Fails(x, q)

(* The request for the blocks of a span. *)
AskForSpan(x, q, span) ==
  Result([x EXCEPT !.expect = "objects", !.eheight = span.start, !.nreq = @ + Len(span.hashes),
                   !.requested = @ \union Range(span.hashes)],
         q, Ask("objects", span.hashes), "stay", FALSE)

(* A span just reserved: its hashes, and those below it, leave                *)
(* m_needed_objects.                                                          *)
TakeNeeded(x, span) ==
  [x EXCEPT !.needed = SubSeq(@, (span.start - (x.lrh - Len(@) + 1)) + span.n + 1, Len(@))]

NoSpanLeft(x, q) ==
  IF Max({Height, get_next_needed_height(q, Height)}) >= target
    THEN GoesNormal(x, q, FALSE)
    ELSE Fails(x, q)

(* Still no span reserved: the next span, if it is scheduled. *)
TakeNext(x, q, span) ==
  IF span.n = 0 THEN NoSpanLeft(x, q)
    ELSE AskForSpan([x EXCEPT !.needed = Among(@, Range(x.needed) \ Range(span.hashes))],
                    q, span)

Reserve(c, x, q, span, force) ==
  IF span.n > 0
    THEN AskForSpan(TakeNeeded(x, span), reserve_span(q, span, c), span)
    ELSE IF force THEN NoSpanLeft(x, q) ELSE TakeNext(x, q, get_next_span_if_scheduled(q))

ReserveFrom(c, x, q, force) ==
  Reserve(c, x, q, SpanToReserve(q, x.lrh + 1 - Len(x.needed), x.lrh, LIMIT, x.needed), force)

FindSpan(c, x, q, force, n) ==
  IF Exhausted(x, n) THEN Done(c, Skip(x, n), q) ELSE ReserveFrom(c, Skip(x, n), q, force)

Request(c, x, q, force, next) ==
  IF x.needed = <<>> /\ ~force
    THEN NeedHashes(c, x, q)
    ELSE IF force /\ next.n > 0
      THEN AskForSpan(x, q, next)
      ELSE IF x.lrh + 1 < Len(x.needed)
        THEN NeedHashes(c, [x EXCEPT !.needed = <<>>, !.lrh = 0], q)
        ELSE FindSpan(c, x, q, force, Unneeded(x, q, FALSE))

Download(c, x, q, force) == Request(c, x, q, force, get_next_span_if_scheduled(q))

(* The queue is full enough: wait, unless the next span can be added. *)
Pause(x, q, wedged) ==
  IF lock = NoOne /\ has_next_span(q, Height) /\ Filled(q, First(q))
    THEN Stays(CalledBack(x), q)
    ELSE IF lock = NoOne /\ added /\ wedged
      THEN Fails(x, q)
      ELSE Stays([x EXCEPT !.state = "standby"], q)

Proceeds(q) == get_num_filled_spans(q) < NSPANS \/ get_data_size(q) < SIZE

NearTop(x, q) ==
  \/ x.needed /= <<>> /\ x.lrh - Len(x.needed) + 1 < Height + NEAR
  \/ get_next_needed_height(q, Height) < Height + NEAR

Unforced(c, x, q, late, wedged) ==
  IF NearTop(x, q) /\ should_download_next_span(c, q, late)
    THEN Download(c, [x EXCEPT !.state = "synchronizing"], q, TRUE)
    ELSE IF NearTop(x, q) \/ Proceeds(q)
      THEN Download(c, [x EXCEPT !.state = "synchronizing"], q, FALSE)
      ELSE Pause(x, q, wedged)

Unskipped(c, x, q, late, wedged, n) ==
  IF Exhausted(x, n) THEN Done(c, Skip(x, n), q) ELSE Unforced(c, Skip(x, n), q, late, wedged)

MissingObjects(c, x, q, force, late, wedged) ==
  IF force THEN Download(c, x, q, TRUE)
    ELSE Unskipped(c, x, q, late, wedged, Unneeded(x, q, TRUE))

request_missing_objects(c, x, q, force, late, wedged) ==
  MissingObjects(c, x, flush_stale_spans(q, Live), force, late, wedged)

-----------------------------------------------------------------------------
Dropping(x) == [x EXCEPT !.closing = TRUE]

(* The handler of c ends with r; a failure is drop_connection(c, false, false). *)
Ends(c, r) ==
  /\ ctx' = [ctx EXCEPT ![c] = IF r.end = "drop" THEN Dropping(r.x) ELSE r.x]
  /\ queue' = IF r.end = "drop" THEN flush_spans(r.q, c, FALSE) ELSE r.q
  /\ wire' = [wire EXCEPT ![c] = @ \o r.sent]
  /\ synchronized' = (synchronized \/ r.sync)

(* add_host_fail; peers that were already found slow are not recorded. *)
Blame(c, why) == blamed' = blamed \union (IF ctx[c].score = 0 THEN {<<c, why>>} ELSE {})

(* drop_connection(c, add_fail, false); why is Unblamed or what it is for.  *)
Unblamed == "no"

Drop(c, why) ==
  /\ ctx' = [ctx EXCEPT ![c] = Dropping(@)]
  /\ queue' = flush_spans(queue, c, FALSE)
  /\ IF why = Unblamed THEN UNCHANGED blamed ELSE Blame(c, why)

Ready(c) == pc[c] = "ready" /\ c \in Live /\ ~ctx[c].closing

-----------------------------------------------------------------------------
(* process_payload_sync_data: the peer's top block, at the handshake and on  *)
(* every timed sync after it.                                                *)
Target == IF target = 0 THEN Height ELSE target

SyncData(c, x, initial) ==
  IF HasBlock(top[c])
    THEN /\ ctx' = [ctx EXCEPT ![c] = set_state_normal(x)]
         /\ synchronized' = (synchronized \/ (initial /\ Remote(c) >= Target /\ Target = Height))
         /\ UNCHANGED <<target, added>>
    ELSE /\ ctx' = [ctx EXCEPT ![c] = [x EXCEPT !.state = "synchronizing", !.calls = @ + 1,
                                                !.nreq = 0]]
         /\ target' = IF Remote(c) > Target THEN Remote(c) ELSE target
         /\ added' = (added /\ ~(Remote(c) > Target /\ target = 0))
         /\ UNCHANGED synchronized

(* do_handshake_with_peer, and handle_handshake for a peer that connects:      *)
(* once the peer's network and peer list are accepted.                        *)
Handshake(c) ==
  /\ c \notin Live
  /\ \A h \in Starts(queue) : queue.spans[h].connection /= c
  /\ SyncData(c, Closed, TRUE)
  /\ UNCHANGED <<top, known, invalid, tip, queue, lock, pick, wire, pc, blamed, failed, faults>>

TimedSync(c) ==
  /\ Ready(c) /\ ctx[c].state /= "synchronizing" /\ ctx[c].calls < CALLS
  /\ SyncData(c, ctx[c], FALSE)
  /\ UNCHANGED <<top, known, invalid, tip, queue, lock, pick, wire, pc, blamed, failed, faults>>

(* check_standby_peers *)
CheckStandby(c) ==
  /\ c \in Live /\ ctx[c].state = "standby" /\ ctx[c].calls < CALLS
  /\ ctx' = [ctx EXCEPT ![c].calls = @ + 1]
  /\ UNCHANGED <<top, core, target, added, queue, lock, pick, wire, pc, blamed, failed, faults>>

(* on_callback, without a notification that the peer is idle. *)
Callback(c) ==
  /\ Ready(c) /\ ctx[c].calls > 0
  /\ IF ctx[c].state = "synchronizing" /\ ctx[c].expect = "none"
       THEN /\ ctx' = [ctx EXCEPT ![c] = [ctx[c] EXCEPT !.calls = @ - 1, !.needed = <<>>,
                                                        !.eheight = Height, !.expect = "chain"]]
            /\ wire' = [wire EXCEPT ![c] = @ \o Ask("chain", History)]
            /\ UNCHANGED pc
       ELSE /\ ctx' = [ctx EXCEPT ![c] = [ctx[c] EXCEPT !.calls = @ - 1,
                         !.state = IF @ = "standby" THEN "synchronizing" ELSE @]]
            /\ pc' = [pc EXCEPT ![c] = IF ctx[c].state = "standby" THEN "try" ELSE @]
            /\ UNCHANGED wire
  /\ UNCHANGED <<top, core, target, added, queue, lock, pick, blamed, failed, faults>>

(* kick_idle_peers and the callback it asks for: the peer has not answered   *)
(* in time.                                                                  *)
IdleCallback(c) ==
  /\ Ready(c) /\ ctx[c].state = "synchronizing" /\ ctx[c].expect /= "none"
  /\ faults > 0 /\ faults' = faults - 1
  /\ IF ctx[c].score >= 0
       THEN /\ ctx' = [ctx EXCEPT ![c] = [ctx[c] EXCEPT !.score = @ - 1, !.expect = "none",
                                                        !.eheight = 0, !.requested = {}]]
            /\ pc' = [pc EXCEPT ![c] = "try"]
            /\ UNCHANGED <<queue, blamed>>
       ELSE Drop(c, "idle") /\ UNCHANGED pc
  /\ UNCHANGED <<top, core, target, added, lock, pick, wire, failed>>

-----------------------------------------------------------------------------
(* The peer's answers. *)

(* find_blockchain_supplement at the peer. *)
SplitHeight(c, ids) ==
  HeightOf(ids[Min({i \in DOMAIN ids : ids[i] \in Range(ChainTo[top[c]])})])

Supplement(c, start) == SubSeq(ChainTo[top[c]], start + 1, Min({start + IDS, Remote(c)}))

(* Mutant of Entry: m_last_response_height is one past the last hash. *)
EntryPast(x, start, ids) ==
  [x EXCEPT !.expect = "none", !.lrh = start + Len(ids), !.hstart = start, !.hashes = ids,
            !.needed = ids]

(* handle_response_chain_entry up to the first hash, which must be one the   *)
(* node has or has downloaded.                                               *)
Entry(x, start, ids) ==
  [x EXCEPT !.expect = "none", !.lrh = start + Len(ids) - 1, !.hstart = start, !.hashes = ids,
            !.needed = ids]

ProvenAt(b, start) == HasBlock(b) \/ (b \in DOMAIN queue.have /\ queue.have[b] = start)

ChainEntry(c, start, ids) ==
  IF ctx[c].expect /= "chain" \/ start + 1 > ctx[c].eheight
    THEN Drop(c, "unasked") /\ UNCHANGED pc
    ELSE IF ~ProvenAt(ids[1], start)
      THEN Drop(c, "hashes") /\ UNCHANGED pc
      ELSE /\ ctx' = [ctx EXCEPT ![c] = Entry(@, start, ids)]
           /\ pc' = [pc EXCEPT ![c] = IF HasBlock(ids[1]) THEN "entry" ELSE "unknown"]
           /\ UNCHANGED <<queue, blamed>>

ChainAnswered(c) ==
  /\ Ready(c) /\ wire[c] /= <<>> /\ Head(wire[c]).kind = "chain"
  /\ wire' = [wire EXCEPT ![c] = Tail(@)]
  /\ ChainEntry(c, SplitHeight(c, Head(wire[c]).ids),
                Supplement(c, SplitHeight(c, Head(wire[c]).ids)))
  /\ UNCHANGED <<top, core, target, added, lock, pick, failed, faults>>

(* The other hashes: no known block may follow an unknown one. *)
BadEntry(c, ids) ==
  \E i \in 2 .. Len(ids) :
    /\ HasBlock(ids[i])
    /\ \/ ids[i] \in invalid
       \/ pc[c] = "unknown"
       \/ \E j \in 2 .. i - 1 : ~HasBlock(ids[j])

EntryTaken(c, r) ==
  /\ Ends(c, IF r.end = "drop" THEN r ELSE [r EXCEPT !.x.nreq = 0])
  /\ target' = IF r.end /= "drop" /\ Remote(c) > target THEN Remote(c) ELSE target

ChainChecked(c) ==
  /\ pc[c] \in {"entry", "unknown"}
  /\ pc' = [pc EXCEPT ![c] = "ready"]
  /\ IF BadEntry(c, ctx[c].hashes)
       THEN Drop(c, "hashes") /\ UNCHANGED <<wire, target, synchronized>>
       ELSE /\ \E late, wedged \in BOOLEAN :
                 EntryTaken(c, request_missing_objects(c, ctx[c], queue, FALSE, late, wedged))
            /\ UNCHANGED blamed
  /\ UNCHANGED <<top, known, invalid, tip, added, lock, pick, failed, faults>>

(* handle_response_get_objects: the blocks must be the expected ones, in     *)
(* order, from no higher than the height asked for, and all that were asked. *)
Refused(x, blocks) ==
  \/ \E i \in DOMAIN blocks :
       \/ Expected(x, HeightOf(blocks[i])) /= blocks[i]
       \/ blocks[i] \notin x.requested
       \/ i > 1 /\ Prev(blocks[i]) /= blocks[i - 1]
  \/ HeightOf(blocks[1]) > x.eheight
  \/ HeightOf(blocks[1]) = 0
  \/ Expected(x, HeightOf(blocks[1]) - 1) /= Prev(blocks[1])
  \/ x.requested /= Range(blocks)

Received(c, blocks) ==
  IF ctx[c].expect /= "objects" \/ blocks = <<>>
    THEN /\ Drop(c, IF ctx[c].expect /= "objects" THEN "unasked" ELSE "objects")
         /\ UNCHANGED <<pc, target>>
    ELSE IF Refused(ctx[c], blocks)
      THEN Drop(c, Unblamed) /\ target' = Max({target, Remote(c)}) /\ UNCHANGED pc
      ELSE /\ queue' = add_filled(queue, HeightOf(blocks[1]), blocks, c)
           /\ ctx' = [ctx EXCEPT ![c] = [ctx[c] EXCEPT !.expect = "none", !.requested = {},
                                                       !.last = blocks[Len(blocks)]]]
           /\ target' = Max({target, Remote(c)})
           /\ pc' = [pc EXCEPT ![c] = "try"]
           /\ UNCHANGED blamed

ObjectsAnswered(c) ==
  /\ Ready(c) /\ wire[c] /= <<>> /\ Head(wire[c]).kind = "objects"
  /\ wire' = [wire EXCEPT ![c] = Tail(@)]
  /\ Received(c, Among(Head(wire[c]).ids, Range(ChainTo[top[c]])))
  /\ UNCHANGED <<top, core, added, lock, pick, failed, faults>>

-----------------------------------------------------------------------------
(* Mutant of TryLock: a connection that does not get the lock returns. *)
TryLockReturns(c) ==
  /\ pc[c] = "try"
  /\ IF lock = NoOne
       THEN lock' = c /\ pc' = [pc EXCEPT ![c] = "adding"]
       ELSE pc' = [pc EXCEPT ![c] = "ready"] /\ UNCHANGED lock
  /\ UNCHANGED <<top, core, target, added, queue, pick, ctx, wire, blamed, failed, faults>>

(* try_add_next_blocks *)
TryLock(c) ==
  /\ pc[c] = "try"
  /\ IF lock = NoOne
       THEN lock' = c /\ pc' = [pc EXCEPT ![c] = "adding"]
       ELSE pc' = [pc EXCEPT ![c] = "request"] /\ UNCHANGED lock
  /\ UNCHANGED <<top, core, target, added, queue, pick, ctx, wire, blamed, failed, faults>>

BlocksAt(h) == queue.spans[h].blocks
OwnerAt(h) == queue.spans[h].connection
ParentAt(h) == Prev(BlocksAt(h)[1])

(* The loop ends: the lock is released and the connection goes back to        *)
(* download, for the next span if nobody else is bringing it.                 *)
StopAdding(c) ==
  /\ lock' = NoOne
  /\ \E late \in BOOLEAN :
       pc' = [pc EXCEPT ![c] = IF should_download_next_span(c, queue, late) THEN "force" ELSE "request"]
  /\ UNCHANGED <<queue, ctx, pick, blamed, failed>>

Leave(c, where) == lock' = NoOne /\ pc' = [pc EXCEPT ![c] = where] /\ UNCHANGED pick

(* drop_connection(id) for the connection a span came from, if it is still there. *)
DropOwner(d) ==
  IF d \in Live THEN Drop(d, "parent") ELSE UNCHANGED <<ctx, queue, blamed>>

(* The first filled span has a parent the node does not have. *)
NoParent(c, h) ==
  IF ParentAt(h) \in DOMAIN queue.have /\ queue.have[ParentAt(h)] + 1 /= h
    THEN DropOwner(OwnerAt(h)) /\ Leave(c, "ready") /\ failed' = TRUE
    ELSE IF ParentAt(h) \in queue.requested
      THEN StopAdding(c)
      ELSE IF h > Height
        THEN Leave(c, "request") /\ UNCHANGED <<queue, ctx, blamed, failed>>
        ELSE /\ queue' = remove_spans(queue, OwnerAt(h), h)
             /\ ctx' = [ctx EXCEPT ![c] = [ctx[c] EXCEPT !.needed = <<>>, !.lrh = 0]]
             /\ Leave(c, "request")
             /\ UNCHANGED <<blamed, failed>>

NextSpan(c, h) ==
  IF h = 0
    THEN StopAdding(c)
    ELSE IF HasBlock(BlocksAt(h)[Len(BlocksAt(h))])
      THEN /\ queue' = remove_spans(queue, OwnerAt(h), h)
           /\ UNCHANGED <<lock, pc, pick, ctx, blamed, failed>>
      ELSE IF ~HasBlock(ParentAt(h))
        THEN NoParent(c, h)
        ELSE /\ pick' = [start |-> h, blocks |-> BlocksAt(h), connection |-> OwnerAt(h)]
             /\ pc' = [pc EXCEPT ![c] = "connecting"]
             /\ UNCHANGED <<queue, lock, ctx, blamed, failed>>

PickSpan(c) ==
  /\ pc[c] = "adding"
  /\ NextSpan(c, get_next_span(queue))
  /\ UNCHANGED <<top, core, target, added, wire, faults>>

(* handle_incoming_block and add_new_block, as much of them as the handler    *)
(* sees: a block the core knows is skipped, one without a parent is an        *)
(* orphan, a bad one fails on the tip as on another branch, and every block   *)
(* adds the same work, so the higher chain is the main one.  mark: a block    *)
(* that fails is kept among the invalid ones.                                 *)
AddBlock(k, b, mark) ==
  IF ~k.ok \/ b \in k.known \/ b \in k.invalid
    THEN k
    ELSE IF Prev(b) \notin k.known \/ b \in BAD
      THEN [k EXCEPT !.ok = FALSE,
                     !.invalid = @ \union (IF mark /\ Prev(b) \in k.known THEN {b} ELSE {})]
      ELSE [k EXCEPT !.known = @ \union {b},
                     !.tip = IF HeightOf(b) > HeightOf(@) THEN b ELSE @]

AddSpan(blocks, mark) ==
  LET upTo[n \in 0 .. Len(blocks)] ==
        IF n = 0 THEN [known |-> known, invalid |-> invalid, tip |-> tip, ok |-> TRUE]
          ELSE AddBlock(upTo[n - 1], blocks[n], mark)
  IN upTo[Len(blocks)]

(* Mutant of SpanFailed: the connection that adds the span is dropped. *)
SpanFailedAdder(c, d, h) ==
  /\ queue' = remove_spans(flush_spans(queue, c, TRUE), d, h)
  /\ ctx' = [ctx EXCEPT ![c] = Dropping(@)]
  /\ blamed' = blamed \union {<<c, "span">>}
  /\ failed' = TRUE
  /\ lock' = NoOne
  /\ pc' = [pc EXCEPT ![c] = "ready"]

(* A span that fails: drop_connections(origin) flushes every span of its      *)
(* connection, the span is removed in any case, and the handler returns.      *)
SpanFailed(c, d, h) ==
  /\ queue' = remove_spans(IF d \in Live THEN flush_spans(queue, d, TRUE) ELSE queue, d, h)
  /\ ctx' = IF d \in Live THEN [ctx EXCEPT ![d] = Dropping(@)] ELSE ctx
  /\ blamed' = blamed \union {<<d, "span">>}
  /\ failed' = TRUE
  /\ lock' = NoOne
  /\ pc' = [pc EXCEPT ![c] = "ready"]

(* Mutant of SpanAdded: the handler returns after one span. *)
SpanAddedReturns(c, d, h) ==
  /\ queue' = remove_spans(queue, d, h)
  /\ lock' = NoOne
  /\ pc' = [pc EXCEPT ![c] = "ready"]
  /\ UNCHANGED <<ctx, blamed, failed>>

SpanAdded(c, d, h) ==
  /\ queue' = remove_spans(queue, d, h)
  /\ pc' = [pc EXCEPT ![c] = "adding"]
  /\ UNCHANGED <<ctx, blamed, failed, lock>>

Connected(c, k) ==
  /\ known' = k.known /\ invalid' = k.invalid /\ tip' = k.tip
  /\ IF k.ok THEN SpanAdded(c, pick.connection, pick.start)
             ELSE SpanFailed(c, pick.connection, pick.start)

ConnectSpan(c) ==
  /\ pc[c] = "connecting"
  /\ \E mark \in BOOLEAN : Connected(c, AddSpan(pick.blocks, mark))
  /\ added' = TRUE
  /\ pick' = NoPick
  /\ UNCHANGED <<top, target, synchronized, wire, faults>>

(* Back to download. *)
RequestMissing(c) ==
  /\ pc[c] \in {"request", "force"}
  /\ \E late, wedged \in BOOLEAN :
       Ends(c, request_missing_objects(c, ctx[c], queue, pc[c] = "force", late, wedged))
  /\ pc' = [pc EXCEPT ![c] = "ready"]
  /\ UNCHANGED <<top, known, invalid, tip, target, added, lock, pick, blamed, failed, faults>>

-----------------------------------------------------------------------------
PeerCloses(c) ==
  /\ c \in Live /\ ~ctx[c].closing /\ faults > 0
  /\ ctx' = [ctx EXCEPT ![c].closing = TRUE]
  /\ faults' = faults - 1
  /\ UNCHANGED <<top, core, target, added, queue, lock, pick, wire, pc, blamed, failed>>

(* on_connection_close *)
OtherRemotes(c) == {Remote(d) : d \in Live \ {c}}

ConnectionClosed(c) ==
  /\ c \in Live /\ ctx[c].closing /\ pc[c] = "ready"
  /\ target' = Min({target, Max({0} \union OtherRemotes(c))})
  /\ queue' = flush_spans(queue, c, FALSE)
  /\ ctx' = [ctx EXCEPT ![c] = Closed]
  /\ wire' = [wire EXCEPT ![c] = <<>>]
  /\ UNCHANGED <<top, core, added, lock, pick, pc, blamed, failed, faults>>

-----------------------------------------------------------------------------
Init ==
  /\ \E p \in Peers : top = p.top /\ faults = p.faults
  /\ known = {GENESIS} /\ invalid = {} /\ tip = GENESIS
  /\ target = 0 /\ synchronized = FALSE /\ added = FALSE
  /\ queue = EmptyQueue /\ lock = NoOne /\ pick = NoPick
  /\ ctx = [c \in Conn |-> Closed]
  /\ wire = [c \in Conn |-> <<>>]
  /\ pc = [c \in Conn |-> "ready"]
  /\ blamed = {} /\ failed = FALSE

Handles(c) ==
  \/ Callback(c) \/ ChainAnswered(c) \/ ChainChecked(c) \/ ObjectsAnswered(c)
  \/ TryLock(c) \/ PickSpan(c) \/ ConnectSpan(c) \/ RequestMissing(c) \/ ConnectionClosed(c)

Next ==
  \E c \in Conn : \/ Handshake(c) \/ TimedSync(c) \/ CheckStandby(c) \/ IdleCallback(c)
                  \/ PeerCloses(c) \/ Handles(c)

Spec == Init /\ [][Next]_vars

-----------------------------------------------------------------------------
(* A hash counts as requested only while some span of the queue is to bring  *)
(* it, and as downloaded only while it is requested: a hash that stayed      *)
(* requested after its span is gone would never be asked for again.          *)
ReservationsCovered ==
  /\ queue.requested \subseteq HashesOf(queue, Starts(queue))
  /\ DOMAIN queue.have \subseteq queue.requested

(* The blocks of a span are those its connection's peer has at its heights,  *)
(* also when the span took the place of another connection's: the peer that  *)
(* pays for a bad span is the one that sent it.                              *)
SpansServed ==
  \A h \in Starts(queue) : \A i \in DOMAIN queue.spans[h].blocks :
    queue.spans[h].blocks[i] = ChainTo[top[queue.spans[h].connection]][h + i]

Honest == {c \in Conn : Range(ChainTo[top[c]]) \cap BAD = {}}

(* No peer with a valid chain is made to pay for a span that fails or has    *)
(* the wrong height, whichever connection adds it; and no peer that answered *)
(* in time is counted against for an answer out of the blue or past the      *)
(* height asked from, however callbacks, timers and the handlers of other    *)
(* connections come between the request and its answer.                      *)
HonestNotBlamed ==
  \A e \in blamed : e[2] /= "unasked" /\ (e[1] \in Honest => e[2] \notin {"span", "parent"})

(* Lists of hashes carry no heights: request_missing_objects counts back     *)
(* from m_last_response_height, although it also takes hashes out of the     *)
(* list one by one, and block_queue counts from the start of a span, also of *)
(* one that took the place of another connection's.  Both counts are the     *)
(* heights of the blocks, so "inconsistent context" is never met and the     *)
(* height a hash was downloaded at is right when have_height is asked.       *)
HeightsRight ==
  /\ \A b \in DOMAIN queue.have : queue.have[b] = HeightOf(b)
  /\ \A c \in Live : LET x == ctx[c] IN
       \A i \in DOMAIN x.needed : HeightOf(x.needed[i]) = x.lrh - Len(x.needed) + i

(* A connection left in the synchronizing state with no request on its way,  *)
(* no callback pending and no handler running: no timer looks at it again.   *)
Stranded(c) ==
  Ready(c) /\ ctx[c].state = "synchronizing" /\ ctx[c].expect = "none" /\ ctx[c].calls = 0

(* Whoever added blocks goes back to download ("Then, we go back to          *)
(* download.", try_add_next_blocks).                                         *)
BackToDownload == \A c \in Conn : ~Stranded(c)

(* No connection is stranded unless a span failed.                           *)
StrandedByFailure == \A c \in Conn : Stranded(c) => failed

(* The node declares itself synchronized (on_connection_synchronized) only   *)
(* when it is as high as every peer with a valid chain it is connected to.   *)
CaughtUp ==
  [][~synchronized /\ synchronized' =>
       \A c \in Live' \cap Honest : ctx'[c].closing \/ HeightOf(tip) + 1 >= Remote(c)]_vars

-----------------------------------------------------------------------------
(* Fairness.  ENABLED is spelt out: Pending(c), Answerable(c) and Due(c) are *)
(* the states in which a handler of c, an answer to c or a timer that looks  *)
(* at c can take a step, Handled(c), Answered(c) and Timer(c) such steps.    *)
Pending(c) ==
  \/ pc[c] /= "ready"
  \/ Ready(c) /\ (ctx[c].calls > 0 \/ wire[c] /= <<>>)
  \/ c \in Live /\ ctx[c].closing

Handled(c) ==
  \/ pc'[c] /= pc[c] \/ wire'[c] /= wire[c]
  \/ ctx'[c].calls < ctx[c].calls
  \/ c \in Live /\ ctx'[c].state = "closed"
  \/ PickSpan(c)

Answerable(c) == Ready(c) /\ wire[c] /= <<>>
Answered(c) == wire[c] /= <<>> /\ wire'[c] = Tail(wire[c])

Due(c) ==
  \/ c \notin Live /\ \A h \in Starts(queue) : queue.spans[h].connection /= c
  \/ Ready(c) /\ ctx[c].state \in {"normal", "standby"} /\ ctx[c].calls < CALLS
     /\ ~HasBlock(top[c])
  \/ c \in Live /\ ctx[c].state = "standby" /\ ctx[c].calls < CALLS

Timer(c) == Handshake(c) \/ TimedSync(c) \/ CheckStandby(c)

(* A handler that can run does (weak), the answers and callbacks queued on a *)
(* connection are handled in turn (strong: other callbacks may come between), *)
(* and the timers fire (weak).                                               *)
Fairness ==
  \A c \in Conn : /\ []<>~Pending(c) \/ []<><<Handled(c)>>_vars
                  /\ <>[]~Answerable(c) \/ []<><<Answered(c)>>_vars
                  /\ []<>~Due(c) \/ []<><<Timer(c)>>_vars

FairSpec == Spec /\ Fairness

(* Unless a span fails, the node ends up at least as high as the best valid  *)
(* chain of its peers, whatever closes, time outs and interleavings there    *)
(* are on the way, and also with peers on another branch.                    *)
Synchronises ==
  []~failed => <>[](\A c \in Honest : HeightOf(tip) >= HeightOf(top[c]))
=============================================================================
