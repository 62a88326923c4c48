-------------------------- MODULE BlockSyncProofs ---------------------------
(***************************************************************************)
(* The steps of BlockSync keep DInv (BlockSyncLemmas), and what follows    *)
(* from it about the spans, the blame and the heights, for any number of   *)
(* connections, any tree of blocks, any thresholds and any bound on        *)
(* faults.                                                                 *)
(***************************************************************************)
EXTENDS BlockSyncLemmas

USE ZenonT(30)

(* The inductive invariant, component by component. *)
LEMMA InitDInv == Init => DInv
  <1> SUFFICES ASSUME Init PROVE DInv
    OBVIOUS
  <1>1. top \in [Conn -> Block]
    BY ConnectionAssumption DEF Init
  <1>2. 0 \in Nat /\ 0 <= 0 /\ 0 \in Int
    BY SMTT(30)
  <1>3. CoreRight
    BY <1>1, <1>2, TreeAssumption DEF Init, CoreRight
  <1>4. QueueRight(top, queue)
    <2>1. queue.spans = <<>> /\ queue.have = <<>>
      BY DEF Init, EmptyQueue
    <2>2. DOMAIN queue.spans = {} /\ DOMAIN queue.have = {}
      BY SMTT(30), <2>1
    <2> QED BY <2>2 DEF QueueRight, Starts
  <1>5. ConnRight(Closed, "ready", <<>>)
    <2>1. ListRight(Closed)
      BY <1>2, EmptyList DEF Closed
    <2> QED BY <1>2, <2>1, EmptyIs DEF Closed, ConnRight
  <1>6. Conns
    BY <1>5 DEF Init, Conns
  <1>7. Locks
    BY DEF Init, Locks
  <1>8. Live = {} /\ blamed = {}
    BY DEF Init, Live, Closed
  <1>9. Targets /\ Blames
    BY <1>8 DEF Targets, Blames
  <1> QED BY <1>3, <1>4, <1>6, <1>7, <1>9 DEF DInv

LEMMA CoreSame ==
  ASSUME CoreRight, UNCHANGED <<top, known, invalid, tip>>, target' \in Nat
  PROVE  CoreRight'
  BY DEF CoreRight

LEMMA QueueSame ==
  ASSUME UNCHANGED top, QueueRight(top, queue')
  PROVE  QueueRight(top, queue)'
  OBVIOUS

(* A step of c that changes nothing of the other connections. *)
LEMMA ConnsStep ==
  ASSUME IInv, Conns, NEW c \in Conn, NEW y, ctx' = [ctx EXCEPT ![c] = y],
         DOMAIN wire' = Conn, \A d \in Conn \ {c} : pc'[d] = pc[d] /\ wire'[d] = wire[d],
         ConnRight(y, pc'[c], wire'[c])
  PROVE  Conns'
  <1>1. ctx'[c] = y /\ \A d \in Conn \ {c} : ctx'[d] = ctx[d]
    BY DEF IInv
  <1>2. ASSUME NEW d \in Conn PROVE ConnRight(ctx'[d], pc'[d], wire'[d])
    <2>1. CASE d = c
      BY <1>1, <2>1
    <2>2. CASE d # c
      BY <1>1, <2>2 DEF Conns
    <2> QED BY <2>1, <2>2
  <1> QED BY <1>2 DEF Conns

LEMMA ConnsIdle ==
  ASSUME IInv, Conns, NEW c \in Conn, UNCHANGED ctx, UNCHANGED wire,
         \A d \in Conn \ {c} : pc'[d] = pc[d], ConnRight(ctx[c], pc'[c], wire[c])
  PROVE  Conns'
  <1>1. ASSUME NEW d \in Conn PROVE ConnRight(ctx'[d], pc'[d], wire'[d])
    <2>1. CASE d = c
      BY <2>1
    <2>2. CASE d # c
      BY <2>2 DEF Conns
    <2> QED BY <2>1, <2>2
  <1> QED BY <1>1 DEF Conns

(* A step that takes no part in adding blocks. *)
LEMMA LocksSame ==
  ASSUME Locks, UNCHANGED <<top, known, invalid, lock, pick>>,
         \A d \in Conn : pc'[d] \in {"adding", "connecting"} => pc'[d] = pc[d]
  PROVE  Locks'
  <1>1. PickRight => PickRight'
    BY DEF PickRight, HasBlock
  <1> QED BY <1>1 DEF Locks

(* The target only rises and no peer joins. *)
LEMMA TargetsSame ==
  ASSUME CoreRight, Targets, UNCHANGED <<top, tip>>, target' \in Nat, target' >= target,
         \A d \in Conn : ctx[d].state = "closed" => ctx'[d].state = "closed"
  PROVE  Targets'
  <1>1. Honest' = Honest /\ Height' = Height /\ \A d \in Conn : Remote(d)' = Remote(d)
    BY DEF Honest, Height, Remote
  <1>2. ASSUME NEW d \in Live' \cap Honest' PROVE Height' >= Remote(d)' \/ target' >= Remote(d)'
    <2>1. d \in Live \cap Honest /\ d \in Conn
      BY <1>1, <1>2 DEF Live
    <2>2. Remote(d) \in Nat
      BY SMTT(30), <2>1, HeightNat DEF Remote, CoreRight
    <2>3. Height >= Remote(d) \/ target >= Remote(d)
      BY <2>1 DEF Targets
    <2>4. target \in Nat
      BY DEF CoreRight
    <2>5. Height >= Remote(d) \/ target' >= Remote(d)
      BY SMTT(30), <2>2, <2>3, <2>4
    <2> QED BY <1>1, <2>1, <2>5
  <1> QED BY <1>2 DEF Targets

LEMMA BlamesSame ==
  ASSUME Blames, UNCHANGED top, NEW w,
         blamed' \subseteq blamed \union {w}, w[2] \notin {"unasked", "parent"},
         w[2] = "span" => w[1] \notin Honest
  PROVE  Blames'
  <1>1. Honest' = Honest
    BY DEF Honest
  <1> QED BY <1>1 DEF Blames

LEMMA BlamesKept ==
  ASSUME Blames, UNCHANGED top, UNCHANGED blamed
  PROVE  Blames'
  <1>1. Honest' = Honest
    BY DEF Honest
  <1> QED BY <1>1 DEF Blames

(* What ConnRight looks at in a context. *)
Alike(x, y) ==
  /\ y.lrh = x.lrh /\ y.last = x.last /\ y.needed = x.needed
  /\ y.score = x.score /\ y.closing = x.closing
  /\ y.expect = x.expect /\ y.eheight = x.eheight

LEMMA AlikeRight ==
  ASSUME NEW x, NEW y, NEW w, Alike(x, y)
  PROVE  (ListRight(x) => ListRight(y)) /\ (Awaits(x, w) => Awaits(y, w))
  BY DEF Alike, ListRight, Awaits

(* process_payload_sync_data *)
LEMMA SyncedConn ==
  ASSUME NEW x, NEW w, IsContext(x), ConnRight(x, "ready", w), x.state # "synchronizing",
         NEW y, \/ y = set_state_normal(x)
                \/ y = [x EXCEPT !.state = "synchronizing", !.calls = @ + 1, !.nreq = 0]
  PROVE  ConnRight(y, "ready", w) /\ y.state # "closed"
  <1>1. x.expect = "none"
    BY DEF ConnRight
  <1>2. x.score = 0 /\ ~x.closing => Awaits(x, w)
    BY <1>1 DEF ConnRight, Awaits
  <1>3. CASE y = set_state_normal(x)
    <2>1. /\ y.lrh = x.lrh /\ y.last = x.last /\ y.needed = <<>> /\ y.expect = x.expect
          /\ y.score = x.score /\ y.closing = x.closing /\ y.state = "normal" /\ y.eheight = x.eheight
      BY <1>3 DEF set_state_normal, IsContext, Fields
    <2>2. ListRight(y) /\ (Awaits(x, w) => Awaits(y, w))
      BY <2>1, EmptyList DEF ConnRight, ListRight, Awaits
    <2> QED BY <1>1, <1>2, <2>1, <2>2 DEF ConnRight
  <1>4. CASE y = [x EXCEPT !.state = "synchronizing", !.calls = @ + 1, !.nreq = 0]
    <2>1. Alike(x, y) /\ y.state = "synchronizing" /\ y.score = x.score /\ y.closing = x.closing /\ y.expect = x.expect
      BY <1>4 DEF Alike, IsContext, Fields
    <2>2. ListRight(y) /\ (Awaits(x, w) => Awaits(y, w))
      BY <2>1, AlikeRight DEF ConnRight
    <2> QED BY <1>1, <1>2, <2>1, <2>2 DEF ConnRight
  <1> QED BY <1>3, <1>4

LEMMA RemoteNat ==
  ASSUME CoreRight, NEW c \in Conn
  PROVE  Remote(c) \in Nat /\ Remote(c) > 0 /\ Height \in Nat /\ Height > 0 /\ target \in Nat
  <1>1. top[c] \in Block /\ tip \in Block /\ target \in Nat
    BY DEF CoreRight
  <1>2. HeightOf(top[c]) \in Nat /\ HeightOf(tip) \in Nat
    BY <1>1, HeightNat
  <1> QED BY SMTT(30), <1>1, <1>2 DEF Remote, Height

(* A valid chain whose top the node has is no higher than the node's. *)
LEMMA HasTop ==
  ASSUME CoreRight, NEW c \in Conn, c \in Honest, HasBlock(top[c])
  PROVE  Height >= Remote(c)
  <1>1. top[c] \in Block /\ tip \in Block
    BY DEF CoreRight
  <1>2. top[c] \in Range(ChainTo[top[c]])
    <2>1. PICK C : C = ChainTo[top[c]] /\ Chain(top[c], C)
      BY <1>1, ChainIs
    <2>2. HeightOf(top[c]) + 1 \in DOMAIN C
      BY SMTT(30), <1>1, <2>1, HeightNat DEF Chain
    <2> QED BY <2>1, <2>2 DEF Chain, Range
  <1>3. top[c] \notin BAD
    BY <1>2 DEF Honest
  <1>4. top[c] \in known
    BY <1>3 DEF HasBlock, CoreRight
  <1>5. HeightOf(top[c]) <= HeightOf(tip) /\ HeightOf(top[c]) \in Nat /\ HeightOf(tip) \in Nat
    BY <1>1, <1>4, HeightNat DEF CoreRight
  <1> QED BY SMTT(30), <1>5 DEF Height, Remote

LEMMA SyncDataTargets ==
  ASSUME IInv, CoreRight, Targets, NEW c \in Conn, NEW x, NEW initial, SyncData(c, x, initial),
         UNCHANGED <<top, tip>>
  PROVE  Targets' /\ target' \in Nat
  <1>1. Honest' = Honest /\ Height' = Height /\ \A d \in Conn : Remote(d)' = Remote(d)
    BY DEF Honest, Height, Remote
  <1>2. \A d \in Conn \ {c} : ctx'[d] = ctx[d]
    BY DEF SyncData, IInv
  <1>3. target' \in Nat /\ target' >= target /\ (target' >= Remote(c) \/ Height >= Remote(c) \/ HasBlock(top[c]))
    <2>1. Remote(c) \in Nat /\ Remote(c) > 0 /\ Height \in Nat /\ Height > 0 /\ target \in Nat
      BY RemoteNat
    <2>2. CASE HasBlock(top[c])
      <3>1. target' = target
        BY <2>2 DEF SyncData
      <3> QED BY SMTT(30), <2>1, <2>2, <3>1
    <2>3. CASE ~HasBlock(top[c])
      <3>1. target' = IF Remote(c) > Target THEN Remote(c) ELSE target
        BY <2>3 DEF SyncData
      <3> QED BY SMTT(30), <2>1, <3>1 DEF Target
    <2> QED BY <2>2, <2>3
  <1>4. ASSUME NEW d \in Live' \cap Honest' PROVE Height' >= Remote(d)' \/ target' >= Remote(d)'
    <2>1. d \in Conn /\ d \in Honest
      BY <1>1, <1>4 DEF Live
    <2>2. Remote(d) \in Nat /\ Height \in Nat /\ target \in Nat
      BY <2>1, RemoteNat
    <2>3. CASE d = c
      BY <1>1, <1>3, <2>1, <2>3, HasTop
    <2>4. CASE d # c
      <3>1. d \in Live
        BY <1>2, <1>4, <2>1, <2>4 DEF Live
      <3>2. Height >= Remote(d) \/ target >= Remote(d)
        BY <2>1, <3>1 DEF Targets
      <3>3. Height >= Remote(d) \/ target' >= Remote(d)
        BY SMTT(30), <1>3, <2>2, <3>2
      <3> QED BY <1>1, <2>1, <3>3
    <2> QED BY <2>3, <2>4
  <1> QED BY <1>3, <1>4 DEF Targets

LEMMA SyncDataRight ==
  ASSUME IInv, DInv, NEW c \in Conn, NEW x, NEW initial, SyncData(c, x, initial), IsContext(x),
         ConnRight(x, "ready", wire[c]), x.state # "synchronizing", pc[c] = "ready",
         UNCHANGED <<top, known, invalid, tip, queue, lock, pick, wire, pc, blamed>>
  PROVE  DInv'
  <1> USE DEF DInv
  <1>1. Targets' /\ target' \in Nat
    BY SyncDataTargets
  <1>2. CoreRight' /\ QueueRight(top, queue)' /\ Blames'
    BY <1>1, CoreSame, BlamesKept
  <1>3. Locks'
    BY LocksSame
  <1> DEFINE y == IF HasBlock(top[c]) THEN set_state_normal(x)
                    ELSE [x EXCEPT !.state = "synchronizing", !.calls = @ + 1, !.nreq = 0]
  <1>4. ctx' = [ctx EXCEPT ![c] = y]
    BY DEF SyncData
  <1>5. ConnRight(y, "ready", wire[c])
    BY SyncedConn
  <1> HIDE DEF y
  <1>6. Conns'
    <2>1. DOMAIN wire' = Conn
      BY DEF Conns
    <2> QED BY <1>4, <1>5, <2>1, ConnsStep
  <1> QED BY <1>1, <1>2, <1>3, <1>6

LEMMA ClosedRight == ConnRight(Closed, "ready", <<>>) /\ IsContext(Closed) /\ Closed.state # "synchronizing"
  <1>1. 0 \in Nat /\ 0 <= 0 /\ 0 \in Int
    BY SMTT(30)
  <1>2. ListRight(Closed)
    BY <1>1, EmptyList DEF Closed
  <1> QED BY <1>1, <1>2, EmptyIs DEF Closed, ConnRight, IsContext, Fields

LEMMA HandshakeRight ==
  ASSUME IInv, DInv, NEW c \in Conn, Handshake(c) \/ TimedSync(c)
  PROVE  DInv'
  <1>1. ConnRight(ctx[c], pc[c], wire[c]) /\ IsContext(ctx[c])
    BY DEF DInv, Conns, IInv
  <1>2. CASE Handshake(c)
    <2>1. ctx[c].state = "closed" /\ wire[c] = <<>> /\ pc[c] = "ready"
      BY <1>1, <1>2 DEF Handshake, Live, ConnRight
    <2>2. ConnRight(Closed, "ready", <<>>) /\ IsContext(Closed) /\ Closed.state # "synchronizing"
      BY ClosedRight
    <2> QED BY <1>2, <2>1, <2>2, SyncDataRight DEF Handshake
  <1>3. CASE TimedSync(c)
    BY <1>1, <1>3, SyncDataRight DEF TimedSync, Ready
  <1> QED BY <1>2, <1>3

(* A step of c that leaves the core, the queue and the lock alone. *)
LEMMA OwnStep ==
  ASSUME IInv, DInv, NEW c \in Conn, NEW y, ctx' = [ctx EXCEPT ![c] = y], y.state # "closed" => ctx[c].state # "closed",
         DOMAIN wire' = Conn, \A d \in Conn \ {c} : pc'[d] = pc[d] /\ wire'[d] = wire[d],
         ConnRight(y, pc'[c], wire'[c]), pc'[c] \in {"adding", "connecting"} => pc'[c] = pc[c],
         target' \in Nat, target' >= target,
         UNCHANGED <<top, known, invalid, tip, lock, pick>>
  PROVE  CoreRight' /\ Conns' /\ Locks' /\ Targets'
  <1> USE DEF DInv
  <1>1. CoreRight' /\ Conns'
    BY CoreSame, ConnsStep
  <1>2. Locks'
    BY LocksSame
  <1>3. \A d \in Conn : ctx[d].state = "closed" => ctx'[d].state = "closed"
    BY DEF IInv
  <1>4. Targets'
    BY <1>3, TargetsSame
  <1> QED BY <1>1, <1>2, <1>4

LEMMA NatOrder ==
  ASSUME NEW n \in Nat
  PROVE  n >= n
  BY SMTT(30)

LEMMA TargetNat ==
  ASSUME DInv
  PROVE  target \in Nat /\ target >= target
  BY NatOrder DEF DInv, CoreRight

(* drop_connection, of any connection. *)
LEMMA DroppingConn ==
  ASSUME NEW x, NEW where, NEW w, IsContext(x), ConnRight(x, where, w)
  PROVE  ConnRight(Dropping(x), where, w) /\ Dropping(x).state = x.state
  <1> DEFINE y == Dropping(x)
  <1>1. /\ y.lrh = x.lrh /\ y.last = x.last /\ y.needed = x.needed /\ y.expect = x.expect
        /\ y.score = x.score /\ y.closing = TRUE /\ y.state = x.state
    BY DEF Dropping, IsContext, Fields
  <1> HIDE DEF y
  <1>2. ListRight(y)
    BY <1>1 DEF ConnRight, ListRight
  <1>3. ConnRight(y, where, w)
    BY <1>1, <1>2 DEF ConnRight
  <1> QED BY <1>1, <1>3 DEF y

LEMMA DropRight ==
  ASSUME IInv, DInv, NEW c \in Conn, NEW why, Drop(c, why), why \notin {"span", "parent"},
         why = "unasked" => ctx[c].score # 0,
         DOMAIN wire' = Conn, wire'[c] \in Seq(Asks), ctx[c].state # "closed",
         \A d \in Conn \ {c} : wire'[d] = wire[d], UNCHANGED pc, target' \in Nat, target' >= target,
         UNCHANGED <<top, known, invalid, tip, lock, pick>>
  PROVE  DInv'
  <1> DEFINE y == Dropping(ctx[c])
  <1>1. ConnRight(ctx[c], pc[c], wire[c]) /\ IsContext(ctx[c])
    BY DEF DInv, Conns, IInv
  <1>2. ConnRight(ctx[c], pc[c], wire[c]) => ConnRight(y, pc[c], wire'[c])
    <2>1. y.state = ctx[c].state /\ y.closing = TRUE
      BY <1>1 DEF Dropping, IsContext, Fields
    <2>2. ConnRight(y, pc[c], wire[c])
      BY <1>1, DroppingConn
    <2> HIDE DEF y
    <2> QED BY <2>1, <2>2 DEF ConnRight
  <1>3. y.state = ctx[c].state
    BY <1>1, DroppingConn
  <1>4. ctx' = [ctx EXCEPT ![c] = y] /\ queue' = flush_spans(queue, c, FALSE)
    BY DEF Drop
  <1> HIDE DEF y
  <1>5. CoreRight' /\ Conns' /\ Locks' /\ Targets'
    BY <1>1, <1>2, <1>3, <1>4, OwnStep
  <1>6. QueueRight(top, queue)'
    BY <1>4, FlushRight DEF DInv
  <1>7. Blames'
    <2>1. CASE why = Unblamed \/ ctx[c].score # 0
      <3>1. blamed' = blamed
        BY <2>1 DEF Drop, Blame
      <3> QED BY <3>1, BlamesKept DEF DInv
    <2>2. CASE ~(why = Unblamed \/ ctx[c].score # 0)
      <3>1. blamed' \subseteq blamed \union {<<c, why>>} /\ why # "unasked"
        BY <2>2 DEF Drop, Blame
      <3>2. <<c, why>>[2] = why
        OBVIOUS
      <3>3. PICK v : v = <<c, why>>
        OBVIOUS
      <3> QED BY <3>1, <3>2, <3>3, BlamesSame DEF DInv
    <2> QED BY <2>1, <2>2
  <1> QED BY <1>5, <1>6, <1>7 DEF DInv

LEMMA CheckStandbyRight ==
  ASSUME IInv, DInv, NEW c \in Conn, CheckStandby(c)
  PROVE  DInv'
  <1> DEFINE y == [ctx[c] EXCEPT !.calls = @ + 1]
  <1>1. ConnRight(ctx[c], pc[c], wire[c]) /\ IsContext(ctx[c]) /\ DOMAIN wire = Conn
    BY DEF DInv, Conns, IInv
  <1>2. ctx' = [ctx EXCEPT ![c] = y] /\ UNCHANGED <<top, known, invalid, tip, target, queue, lock, pick, wire, pc, blamed>>
    BY DEF CheckStandby, core
  <1>3. Alike(ctx[c], y) /\ y.state = ctx[c].state
    BY <1>1 DEF Alike, IsContext, Fields
  <1> HIDE DEF y
  <1>4. ConnRight(y, pc[c], wire[c])
    BY <1>1, <1>3, AlikeRight DEF ConnRight, Alike
  <1>5. CoreRight' /\ Conns' /\ Locks' /\ Targets'
    BY <1>1, <1>2, <1>3, <1>4, TargetNat, OwnStep
  <1> QED BY <1>2, <1>5, BlamesKept DEF DInv

LEMMA PeerClosesRight ==
  ASSUME IInv, DInv, NEW c \in Conn, PeerCloses(c)
  PROVE  DInv'
  <1>1. ConnRight(ctx[c], pc[c], wire[c]) /\ IsContext(ctx[c]) /\ DOMAIN wire = Conn
    BY DEF DInv, Conns, IInv
  <1>2. /\ ctx' = [ctx EXCEPT ![c] = Dropping(ctx[c])]
        /\ UNCHANGED <<top, known, invalid, tip, target, queue, lock, pick, wire, pc, blamed>>
    BY DEF PeerCloses, core, Dropping
  <1>3. PICK y : y = Dropping(ctx[c])
    OBVIOUS
  <1>4. ConnRight(y, pc[c], wire[c]) /\ y.state = ctx[c].state
    BY <1>1, <1>3, DroppingConn
  <1>5. CoreRight' /\ Conns' /\ Locks' /\ Targets'
    BY <1>1, <1>2, <1>3, <1>4, TargetNat, OwnStep
  <1> QED BY <1>2, <1>5, BlamesKept DEF DInv

LEMMA AskIs ==
  ASSUME NEW m \in Asks, NEW w \in Seq(Asks)
  PROVE  /\ w \o <<m>> \in Seq(Asks) /\ w \o <<>> = w /\ <<m>>[1] = m /\ Len(<<m>>) = 1
         /\ <<>> \o <<m>> = <<m>>
  BY SMTT(30)

(* Nothing is on its way to a peer that is asked for nothing. *)
LEMMA NothingAsked ==
  ASSUME NEW x, NEW w \in Seq(Asks), x.expect = "none", Awaits(x, w)
  PROVE  w = <<>>
  <1>1. CASE Len(w) = 1 /\ w[1].kind = x.expect
    <2>1. w[1] \in Asks
      BY SMTT(30), <1>1
    <2>2. w[1].kind \in {"chain", "objects"}
      BY <2>1 DEF Asks
    <2> QED BY <1>1, <2>2
  <1> QED BY <1>1 DEF Awaits

(* A request is sent. *)
LEMMA SentRight ==
  ASSUME NEW x, NEW y, NEW where, NEW w, NEW m \in Asks, ConnRight(x, where, w), x.expect = "none",
         x.state # "closed", ListRight(y), y.score = x.score, y.closing = x.closing,
         y.state = "synchronizing", y.expect = m.kind, Bounded(m, y.eheight)
  PROVE  ConnRight(y, "ready", w \o <<m>>)
  <1>1. w \in Seq(Asks) /\ w \o <<m>> \in Seq(Asks)
    BY AskIs DEF ConnRight
  <1>2. ASSUME x.score = 0, ~x.closing PROVE Awaits(y, w \o <<m>>)
    <2>1. w = <<>>
      BY <1>1, <1>2, NothingAsked DEF ConnRight
    <2>2. w \o <<m>> = <<m>> /\ <<m>>[1] = m /\ Len(<<m>>) = 1
      BY <1>1, <2>1, AskIs
    <2> QED BY <2>2 DEF Awaits
  <1> QED BY <1>1, <1>2 DEF ConnRight

LEMMA CallbackRight ==
  ASSUME IInv, DInv, NEW c \in Conn, Callback(c)
  PROVE  DInv'
  <1>1. /\ ConnRight(ctx[c], pc[c], wire[c]) /\ IsContext(ctx[c]) /\ DOMAIN wire = Conn
        /\ DOMAIN pc = Conn /\ CoreRight /\ pc[c] = "ready" /\ ctx[c].state # "closed" /\ ~ctx[c].closing
    BY DEF DInv, Conns, IInv, Callback, Ready, Live
  <1>2. UNCHANGED <<top, known, invalid, tip, target, queue, lock, pick, blamed>>
    BY DEF Callback, core
  <1>3. QueueRight(top, queue)' /\ Blames'
    BY <1>2, BlamesKept DEF DInv
  <1>4. CASE ctx[c].state = "synchronizing" /\ ctx[c].expect = "none"
    <2> DEFINE y == [ctx[c] EXCEPT !.calls = @ - 1, !.needed = <<>>, !.eheight = Height,
                                   !.expect = "chain"]
               m == [kind |-> "chain", ids |-> History]
    <2>1. ctx' = [ctx EXCEPT ![c] = y] /\ UNCHANGED pc /\ wire' = [wire EXCEPT ![c] = @ \o <<m>>]
      BY <1>4 DEF Callback, Ask
    <2>2. /\ y.lrh = ctx[c].lrh /\ y.last = ctx[c].last /\ y.needed = <<>> /\ y.expect = "chain"
          /\ y.score = ctx[c].score /\ y.closing = ctx[c].closing /\ y.state = ctx[c].state /\ y.eheight = Height
      BY <1>1 DEF IsContext, Fields
    <2>3. m \in Asks /\ m.kind = "chain" /\ Bounded(m, Height)
      BY <1>1, HistoryIs DEF Asks, Descends, Bounded
    <2> HIDE DEF y, m
    <2>4. ListRight(y)
      BY <1>1, <2>2, EmptyList DEF ConnRight, ListRight
    <2>5. ConnRight(y, "ready", wire[c] \o <<m>>)
      BY <1>1, <1>4, <2>2, <2>3, <2>4, SentRight
    <2>6. ConnRight(y, pc'[c], wire'[c]) /\ DOMAIN wire' = Conn /\ \A d \in Conn \ {c} : wire'[d] = wire[d]
      BY <1>1, <2>1, <2>5
    <2>7. CoreRight' /\ Conns' /\ Locks' /\ Targets'
      BY <1>1, <1>2, <2>1, <2>2, <2>6, TargetNat, OwnStep
    <2> QED BY <1>3, <2>7 DEF DInv
  <1>5. CASE ~(ctx[c].state = "synchronizing" /\ ctx[c].expect = "none")
    <2> DEFINE y == [ctx[c] EXCEPT !.calls = @ - 1,
                                   !.state = IF @ = "standby" THEN "synchronizing" ELSE @]
    <2>1. /\ ctx' = [ctx EXCEPT ![c] = y]
          /\ pc' = [pc EXCEPT ![c] = IF ctx[c].state = "standby" THEN "try" ELSE @] /\ UNCHANGED wire
      BY <1>5 DEF Callback
    <2>2. /\ Alike(ctx[c], y) /\ y.state = IF ctx[c].state = "standby" THEN "synchronizing" ELSE ctx[c].state
      BY <1>1 DEF Alike, IsContext, Fields
    <2> HIDE DEF y
    <2>3. pc'[c] = IF ctx[c].state = "standby" THEN "try" ELSE "ready"
      BY <1>1, <2>1
    <2>4. ctx[c].state = "standby" => ctx[c].expect = "none"
      BY <1>1 DEF ConnRight
    <2>5. ConnRight(y, pc'[c], wire'[c])
      BY <1>1, <2>1, <2>2, <2>3, <2>4, AlikeRight DEF ConnRight, Alike
    <2>6. /\ DOMAIN wire' = Conn /\ \A d \in Conn \ {c} : pc'[d] = pc[d] /\ wire'[d] = wire[d]
          /\ pc'[c] \in {"adding", "connecting"} => pc'[c] = pc[c]
      BY <1>1, <2>1, <2>3
    <2>7. CoreRight' /\ Conns' /\ Locks' /\ Targets'
      BY <1>1, <1>2, <2>1, <2>2, <2>5, <2>6, TargetNat, OwnStep
    <2> QED BY <1>3, <2>7 DEF DInv
  <1> QED BY <1>4, <1>5

LEMMA IdleCallbackRight ==
  ASSUME IInv, DInv, NEW c \in Conn, IdleCallback(c)
  PROVE  DInv'
  <1>1. /\ ConnRight(ctx[c], pc[c], wire[c]) /\ IsContext(ctx[c]) /\ DOMAIN wire = Conn
        /\ DOMAIN pc = Conn /\ pc[c] = "ready" /\ ctx[c].state = "synchronizing"
    BY DEF DInv, Conns, IInv, IdleCallback, Ready
  <1>2. UNCHANGED <<top, known, invalid, tip, target, lock, pick, wire>>
    BY DEF IdleCallback, core
  <1>3. CASE ctx[c].score >= 0
    <2> DEFINE y == [ctx[c] EXCEPT !.score = @ - 1, !.expect = "none", !.eheight = 0,
                                   !.requested = {}]
    <2>1. /\ ctx' = [ctx EXCEPT ![c] = y]
          /\ pc' = [pc EXCEPT ![c] = "try"] /\ UNCHANGED <<queue, blamed>>
      BY <1>3 DEF IdleCallback
    <2>2. /\ y.lrh = ctx[c].lrh /\ y.last = ctx[c].last /\ y.needed = ctx[c].needed /\ y.expect = "none"
          /\ y.score = ctx[c].score - 1 /\ y.state = "synchronizing"
      BY <1>1 DEF IsContext, Fields
    <2> HIDE DEF y
    <2>3. y.score \in Int /\ y.score <= 0 /\ y.score # 0
      BY SMTT(30), <1>1, <2>2 DEF ConnRight
    <2>4. ConnRight(y, pc'[c], wire'[c])
      BY <1>1, <1>2, <2>1, <2>2, <2>3 DEF ConnRight, ListRight
    <2>5. DOMAIN wire' = Conn /\ (\A d \in Conn \ {c} : pc'[d] = pc[d] /\ wire'[d] = wire[d]) /\ pc'[c] = "try"
      BY <1>1, <1>2, <2>1
    <2>6. CoreRight' /\ Conns' /\ Locks' /\ Targets'
      BY <1>1, <1>2, <2>1, <2>2, <2>4, <2>5, TargetNat, OwnStep
    <2> QED BY <1>2, <2>1, <2>6, BlamesKept DEF DInv
  <1>4. CASE ~(ctx[c].score >= 0)
    <2>1. Drop(c, "idle") /\ UNCHANGED pc
      BY <1>4 DEF IdleCallback
    <2>2. PICK why : why = "idle"
      OBVIOUS
    <2>3. wire'[c] \in Seq(Asks) /\ target' \in Nat /\ target' >= target
      BY <1>1, <1>2, TargetNat DEF ConnRight
    <2> QED BY <1>1, <1>2, <2>1, <2>2, <2>3, DropRight
  <1> QED BY <1>3, <1>4

-----------------------------------------------------------------------------
(* The peer's answers. *)

(* find_blockchain_supplement: the split is one of the hashes asked from. *)
LEMMA SplitIs ==
  ASSUME NEW c \in Conn, top[c] \in Block, NEW ids \in Seq(Block), GENESIS \in Range(ids)
  PROVE  /\ SplitHeight(c, ids) \in 0 .. HeightOf(top[c])
         /\ \E i \in 1 .. Len(ids) : SplitHeight(c, ids) = HeightOf(ids[i])
  <1> DEFINE S == {i \in DOMAIN ids : ids[i] \in Range(ChainTo[top[c]])}
  <1>1. DOMAIN ids = 1 .. Len(ids) /\ Len(ids) \in Nat
    BY SMTT(30)
  <1>2. S \subseteq Nat
    BY SMTT(30), <1>1
  <1>3. S # {}
    <2>1. PICK i \in DOMAIN ids : ids[i] = GENESIS
      BY DEF Range
    <2>2. i \in S
      BY <2>1, GenesisFirst
    <2> QED BY <2>2
  <1>4. PICK k : k = Min(S)
    OBVIOUS
  <1>5. k \in S
    <2> HIDE DEF S
    <2> QED BY <1>2, <1>3, <1>4, MinIs
  <1>6. SplitHeight(c, ids) = HeightOf(ids[k]) /\ k \in 1 .. Len(ids)
    BY <1>1, <1>4, <1>5 DEF SplitHeight
  <1>7. HeightOf(ids[k]) + 1 \in 1 .. HeightOf(top[c]) + 1 /\ ids[k] \in Block
    BY <1>5, OnChain
  <1>8. HeightOf(ids[k]) \in 0 .. HeightOf(top[c])
    BY SMTT(30), <1>7, HeightNat
  <1> QED BY <1>6, <1>8

(* handle_response_chain_entry: the list and m_last_response_height. *)
LEMMA EntryRight ==
  ASSUME NEW c \in Conn, top[c] \in Block, NEW start \in 0 .. HeightOf(top[c]), NEW x, IsContext(x), ListRight(x)
  PROVE  ListRight(Entry(x, start, Supplement(c, start)))
  <1> DEFINE m == Min({start + IDS, Remote(c)})
             ids == Supplement(c, start)
             y == Entry(x, start, ids)
  <1>1. HeightOf(top[c]) \in Nat /\ IDS \in Nat \ {0} /\ Remote(c) = HeightOf(top[c]) + 1
    BY HeightNat, ConnectionAssumption DEF Remote
  <1>2. PICK a \in Int : a = start + IDS
    BY SMTT(30), <1>1
  <1>3. PICK b \in Int : b = Remote(c)
    BY SMTT(30), <1>1
  <1>4. m = IF a <= b THEN a ELSE b
    BY <1>2, <1>3, MinOfTwo
  <1>5. m \in start + 1 .. HeightOf(top[c]) + 1
    BY SMTT(30), <1>1, <1>2, <1>3, <1>4
  <1>6. ids = SubSeq(ChainTo[top[c]], start + 1, m)
    BY DEF Supplement
  <1> HIDE DEF m, ids
  <1>7. Run(ids, start) /\ Len(ids) = m - start
    BY <1>5, <1>6, SupplementRun
  <1>8. /\ start + Len(ids) - 1 \in Nat /\ Len(ids) <= (start + Len(ids) - 1) + 1
        /\ (start + Len(ids) - 1) - Len(ids) + 1 = start
    BY SMTT(30), <1>1, <1>5, <1>7
  <1>9. y.lrh = start + Len(ids) - 1 /\ y.needed = ids /\ y.last = x.last
    BY DEF Entry, IsContext, Fields
  <1> HIDE DEF y
  <1>10. ListRight(y)
    BY <1>7, <1>8, <1>9 DEF ListRight
  <1> QED BY <1>10 DEF y, ids

LEMMA TailIs ==
  ASSUME NEW S, NEW w \in Seq(S), w # <<>>
  PROVE  Head(w) \in S /\ Tail(w) \in Seq(S) /\ Head(w) = w[1] /\ (Len(w) = 1 => Tail(w) = <<>>)
  <1>1. Head(w) = w[1] /\ Len(w) \in Nat /\ Len(w) # 0
    BY SMTT(30)
  <1>2. Head(w) \in S
    BY SMTT(30), <1>1
  <1>3. PICK t : t = Tail(w)
    OBVIOUS
  <1>4. t \in Seq(S) /\ Len(t) = Len(w) - 1
    BY SMTT(30), <1>1, <1>3
  <1>5. Len(w) = 1 => t = <<>>
    BY SMTT(30), <1>1, <1>4
  <1> QED BY <1>1, <1>2, <1>3, <1>4, <1>5

LEMMA ChainAnsweredRight ==
  ASSUME IInv, DInv, NEW c \in Conn, ChainAnswered(c)
  PROVE  DInv'
  <1> DEFINE x == ctx[c]
             m == Head(wire[c])
  <1>1. /\ ConnRight(x, pc[c], wire[c]) /\ IsContext(x) /\ DOMAIN wire = Conn
        /\ DOMAIN pc = Conn /\ CoreRight /\ pc[c] = "ready" /\ x.state # "closed" /\ ~x.closing
    BY DEF DInv, Conns, IInv, ChainAnswered, Ready, Live
  <1>2. /\ wire[c] # <<>> /\ m.kind = "chain" /\ wire' = [wire EXCEPT ![c] = Tail(wire[c])]
        /\ UNCHANGED <<top, known, invalid, tip, target, lock, pick>>
    BY DEF ChainAnswered, core
  <1>3. wire[c] \in Seq(Asks)
    BY <1>1 DEF ConnRight
  <1>4. m \in Asks /\ Tail(wire[c]) \in Seq(Asks) /\ m = wire[c][1] /\ (Len(wire[c]) = 1 => Tail(wire[c]) = <<>>)
    BY <1>2, <1>3, TailIs
  <1>5. m.ids \in Seq(Block) /\ GENESIS \in Range(m.ids)
    BY <1>2, <1>4 DEF Asks
  <1>6. top[c] \in Block
    BY <1>1 DEF CoreRight
  <1>7. PICK start : start = SplitHeight(c, m.ids)
    OBVIOUS
  <1>8. start \in 0 .. HeightOf(top[c]) /\ \E i \in 1 .. Len(m.ids) : start = HeightOf(m.ids[i])
    BY <1>5, <1>6, <1>7, SplitIs
  <1>9. PICK ids : ids = Supplement(c, start)
    OBVIOUS
  <1>10. ChainEntry(c, start, ids)
    BY <1>7, <1>9 DEF ChainAnswered
  <1>11. x.score = 0 => Len(wire[c]) = 1 /\ m.kind = x.expect /\ Bounded(m, x.eheight)
    BY <1>1, <1>2, <1>4 DEF ConnRight, Awaits
  <1>12. x.score = 0 => x.expect = "chain" /\ ~(start + 1 > x.eheight)
    <2> SUFFICES ASSUME x.score = 0 PROVE x.expect = "chain" /\ ~(start + 1 > x.eheight)
      OBVIOUS
    <2>1. x.expect = "chain" /\ x.eheight \in Nat /\ start + 1 <= x.eheight
      BY <1>2, <1>8, <1>11 DEF Bounded
    <2>2. start \in Nat
      BY SMTT(30), <1>6, <1>8, HeightNat
    <2> QED BY SMTT(30), <2>1, <2>2
  <1>13. /\ DOMAIN wire' = Conn /\ wire'[c] = Tail(wire[c]) /\ (\A d \in Conn \ {c} : wire'[d] = wire[d])
         /\ target' \in Nat /\ target' >= target
    BY <1>1, <1>2, TargetNat
  <1>14. CASE \E why : Drop(c, why) /\ UNCHANGED pc /\ why \notin {"span", "parent"}
                       /\ (why = "unasked" => x.score # 0)
    BY <1>1, <1>2, <1>4, <1>13, <1>14, DropRight
  <1>15. CASE /\ x.expect = "chain" /\ ctx' = [ctx EXCEPT ![c] = Entry(@, start, ids)]
              /\ pc' = [pc EXCEPT ![c] = IF HasBlock(ids[1]) THEN "entry" ELSE "unknown"]
              /\ UNCHANGED <<queue, blamed>>
    <2> DEFINE y == Entry(x, start, ids)
    <2>1. y.expect = "none" /\ y.score = x.score /\ y.state = x.state
      BY <1>1 DEF Entry, IsContext, Fields
    <2>2. ListRight(y)
      BY <1>1, <1>6, <1>8, <1>9, EntryRight DEF ConnRight
    <2>3. ctx' = [ctx EXCEPT ![c] = y]
      BY <1>15
    <2> HIDE DEF y
    <2>4. x.state = "synchronizing"
      BY <1>1, <1>15 DEF ConnRight
    <2>5. y.score = 0 => Awaits(y, wire'[c])
      BY <1>4, <1>11, <1>13, <2>1 DEF Awaits
    <2>6. ConnRight(y, pc'[c], wire'[c])
      BY <1>1, <1>4, <1>13, <2>1, <2>2, <2>4, <2>5 DEF ConnRight
    <2>7. (\A d \in Conn \ {c} : pc'[d] = pc[d]) /\ pc'[c] \notin {"adding", "connecting"}
      BY <1>1, <1>15
    <2>8. CoreRight' /\ Conns' /\ Locks' /\ Targets'
      BY <1>1, <1>2, <1>13, <2>3, <2>6, <2>7, OwnStep
    <2> QED BY <1>2, <1>15, <2>8, BlamesKept DEF DInv
  <1>16. CASE x.expect # "chain" \/ start + 1 > x.eheight
    <2>1. Drop(c, "unasked") /\ UNCHANGED pc /\ x.score # 0
      BY <1>10, <1>12, <1>16 DEF ChainEntry
    <2> QED BY <1>14, <2>1
  <1>17. CASE ~(x.expect # "chain" \/ start + 1 > x.eheight) /\ ~ProvenAt(ids[1], start)
    <2>1. PICK why : why = "hashes"
      OBVIOUS
    <2>2. Drop(c, why) /\ UNCHANGED pc /\ why \notin {"span", "parent"} /\ why # "unasked"
      BY <1>10, <1>17, <2>1 DEF ChainEntry
    <2> QED BY <1>14, <2>2
  <1>18. CASE ~(x.expect # "chain" \/ start + 1 > x.eheight) /\ ProvenAt(ids[1], start)
    BY <1>10, <1>15, <1>18 DEF ChainEntry
  <1> QED BY <1>16, <1>17, <1>18

(* The end of a handler that went back to download. *)
LEMMA EndedConn ==
  ASSUME NEW x, NEW where, NEW w, ConnRight(x, where, w), where # "ready",
         NEW r, RightFor(r, x.score, x.closing)
  PROVE  ConnRight(r.x, "ready", w \o r.sent)
  <1>1. x.expect = "none" /\ x.state = "synchronizing" /\ w \in Seq(Asks)
    BY DEF ConnRight
  <1>2. ListRight(r.x) /\ r.x.score = x.score /\ r.x.closing = x.closing
    BY DEF RightFor
  <1>3. CASE r.sent = <<>> /\ r.x.expect = "none" /\ r.x.state # "closed"
    <2>1. w \o r.sent = w
      BY SMTT(30), <1>1, <1>3
    <2>2. x.score = 0 /\ ~x.closing => w = <<>>
      BY <1>1, NothingAsked DEF ConnRight
    <2>3. x.score = 0 /\ ~x.closing => Awaits(r.x, w)
      BY <1>3, <2>2 DEF Awaits
    <2> QED BY <1>1, <1>2, <1>3, <2>1, <2>3 DEF ConnRight
  <1>4. CASE Sends(r)
    <2>1. PICK m \in Asks : /\ r.sent = <<m>> /\ r.x.expect = m.kind /\ r.x.state = "synchronizing"
                            /\ Bounded(m, r.x.eheight)
      BY <1>4 DEF Sends
    <2> QED BY <1>1, <1>2, <2>1, SentRight
  <1> QED BY <1>3, <1>4 DEF RightFor

LEMMA EndsRight ==
  ASSUME IInv, DInv, NEW c \in Conn, pc[c] # "ready", pc' = [pc EXCEPT ![c] = "ready"],
         NEW r, RightFor(r, ctx[c].score, ctx[c].closing), IsContext(r.x), Ends(c, r),
         target' \in Nat, target' >= target,
         UNCHANGED <<top, known, invalid, tip, lock, pick, blamed>>
  PROVE  DInv'
  <1>1. ConnRight(ctx[c], pc[c], wire[c]) /\ DOMAIN wire = Conn /\ DOMAIN pc = Conn
    BY DEF DInv, Conns, IInv
  <1>2. PICK w : w = wire[c] \o r.sent
    OBVIOUS
  <1>3. ConnRight(r.x, "ready", w)
    BY <1>1, <1>2, EndedConn
  <1>4. PICK y : y = IF r.end = "drop" THEN Dropping(r.x) ELSE r.x
    OBVIOUS
  <1>5. ConnRight(y, "ready", w) /\ (y.state # "closed" => ctx[c].state # "closed")
    <2>1. ctx[c].state # "closed"
      BY <1>1 DEF ConnRight
    <2> QED BY <1>3, <1>4, <2>1, DroppingConn
  <1>6. ctx' = [ctx EXCEPT ![c] = y] /\ wire' = [wire EXCEPT ![c] = w]
    BY <1>2, <1>4 DEF Ends
  <1>7. /\ wire'[c] = w /\ DOMAIN wire' = Conn /\ (\A d \in Conn \ {c} : pc'[d] = pc[d] /\ wire'[d] = wire[d])
        /\ pc'[c] = "ready"
    BY <1>1, <1>6
  <1>8. CoreRight' /\ Conns' /\ Locks' /\ Targets'
    BY <1>1, <1>5, <1>6, <1>7, OwnStep
  <1>9. QueueRight(top, queue)'
    <2>1. QueueRight(top, r.q)
      BY DEF RightFor
    <2>2. QueueRight(top, flush_spans(r.q, c, FALSE))
      BY <2>1, FlushRight
    <2> QED BY <2>1, <2>2 DEF Ends
  <1> QED BY <1>8, <1>9, BlamesKept DEF DInv

(* It was called with the context and the queue of the state. *)
LEMMA Requested ==
  ASSUME IInv, DInv, NEW c \in Conn, pc[c] # "ready", NEW force, NEW late, NEW wedged,
         NEW r, r = request_missing_objects(c, ctx[c], queue, force, late, wedged)
  PROVE  RightFor(r, ctx[c].score, ctx[c].closing) /\ Sound(r)
  <1>1. ConnRight(ctx[c], pc[c], wire[c]) /\ IsContext(ctx[c]) /\ Covered(queue) /\ CoreRight /\ QueueRight(top, queue)
    BY DEF DInv, Conns, IInv
  <1>2. From(ctx[c], ctx[c].score, ctx[c].closing)
    BY <1>1 DEF ConnRight, From
  <1>3. PICK x, s, e : x = ctx[c] /\ s = ctx[c].score /\ e = ctx[c].closing
    OBVIOUS
  <1>4. RightFor(r, s, e)
    BY <1>1, <1>2, <1>3, RequestMissingRight
  <1> QED BY <1>1, <1>3, <1>4, RequestMissingSound

LEMMA RequestMissingStep ==
  ASSUME IInv, DInv, NEW c \in Conn, RequestMissing(c)
  PROVE  DInv'
  <1>1. /\ pc[c] # "ready" /\ pc' = [pc EXCEPT ![c] = "ready"]
        /\ UNCHANGED <<top, known, invalid, tip, target, lock, pick, blamed>>
    BY DEF RequestMissing
  <1>2. PICK late, wedged \in BOOLEAN :
          Ends(c, request_missing_objects(c, ctx[c], queue, pc[c] = "force", late, wedged))
    BY DEF RequestMissing
  <1>3. PICK r, force : force = (pc[c] = "force") /\ r = request_missing_objects(c, ctx[c], queue, force, late, wedged)
    OBVIOUS
  <1>4. RightFor(r, ctx[c].score, ctx[c].closing) /\ Sound(r) /\ Ends(c, r)
    BY <1>1, <1>2, <1>3, Requested
  <1>5. IsContext(r.x)
    BY <1>4 DEF Sound
  <1>6. target' \in Nat /\ target' >= target
    BY <1>1, TargetNat
  <1> QED BY <1>1, <1>4, <1>5, <1>6, EndsRight

LEMMA RaisedTarget ==
  ASSUME CoreRight, NEW c \in Conn, \/ target' = Max({target, Remote(c)})
                                    \/ target' = target \/ (target' = Remote(c) /\ Remote(c) > target)
  PROVE  target' \in Nat /\ target' >= target
  <1>1. Remote(c) \in Nat /\ target \in Nat
    BY RemoteNat
  <1>2. PICK a, b \in Int : a = target /\ b = Remote(c)
    BY SMTT(30), <1>1
  <1>3. Max({a, b}) = IF a >= b THEN a ELSE b
    BY MaxOfTwo
  <1> QED BY SMTT(30), <1>1, <1>2, <1>3

LEMMA ChainCheckedRight ==
  ASSUME IInv, DInv, NEW c \in Conn, ChainChecked(c)
  PROVE  DInv'
  <1>1. /\ pc[c] # "ready" /\ pc' = [pc EXCEPT ![c] = "ready"] /\ CoreRight /\ DOMAIN pc = Conn
        /\ UNCHANGED <<top, known, invalid, tip, lock, pick>>
    BY DEF ChainChecked, DInv, IInv
  <1>2. CASE BadEntry(c, ctx[c].hashes)
    <2>1. Drop(c, "hashes") /\ UNCHANGED <<wire, target>>
      BY <1>2 DEF ChainChecked
    <2>2. ConnRight(ctx[c], pc[c], wire[c]) /\ IsContext(ctx[c]) /\ DOMAIN wire = Conn
      BY DEF DInv, Conns, IInv
    <2>3. PICK y : y = Dropping(ctx[c])
      OBVIOUS
    <2>4. ConnRight(y, pc[c], wire[c]) /\ y.state = ctx[c].state /\ y.closing = TRUE
      <3>1. y.closing = TRUE
        BY <2>2, <2>3 DEF Dropping, IsContext, Fields
      <3> QED BY <2>2, <2>3, <3>1, DroppingConn
    <2>5. ConnRight(y, "ready", wire[c])
      BY <2>4 DEF ConnRight
    <2>6. ctx' = [ctx EXCEPT ![c] = y] /\ queue' = flush_spans(queue, c, FALSE)
      BY <2>1, <2>3 DEF Drop
    <2>7. CoreRight' /\ Conns' /\ Locks' /\ Targets'
      <3>1. (\A d \in Conn \ {c} : pc'[d] = pc[d]) /\ pc'[c] = "ready" /\ target' \in Nat /\ target' >= target
        BY <1>1, <2>1, TargetNat
      <3> QED BY <1>1, <2>1, <2>2, <2>4, <2>5, <2>6, <3>1, OwnStep
    <2>8. QueueRight(top, queue)'
      BY <1>1, <2>6, FlushRight DEF DInv
    <2>9. Blames'
      <3>1. PICK v : v = <<c, "hashes">>
        OBVIOUS
      <3>2. blamed' \subseteq blamed \union {v}
        BY <2>1, <3>1 DEF Drop, Blame
      <3>3. v[2] \notin {"unasked", "parent"} /\ v[2] # "span"
        BY <3>1
      <3> QED BY <1>1, <3>2, <3>3, BlamesSame DEF DInv
    <2> QED BY <2>7, <2>8, <2>9 DEF DInv
  <1>3. CASE ~BadEntry(c, ctx[c].hashes)
    <2>1. PICK late, wedged \in BOOLEAN :
            EntryTaken(c, request_missing_objects(c, ctx[c], queue, FALSE, late, wedged))
      BY <1>3 DEF ChainChecked
    <2>2. PICK r : r = request_missing_objects(c, ctx[c], queue, FALSE, late, wedged)
      OBVIOUS
    <2>3. RightFor(r, ctx[c].score, ctx[c].closing) /\ Sound(r)
      BY <1>1, <2>2, Requested
    <2>4. PICK t : t = [r EXCEPT !.x.nreq = 0]
      OBVIOUS
    <2>5. Ends(c, IF r.end = "drop" THEN r ELSE t)
      BY <2>1, <2>2, <2>4 DEF EntryTaken
    <2>6. RightFor(t, ctx[c].score, ctx[c].closing) /\ IsContext(t.x)
      <3>1. /\ t.q = r.q /\ t.end = r.end /\ t.sent = r.sent /\ t.sync = r.sync
            /\ t.x = [r.x EXCEPT !.nreq = 0]
        BY <2>3, <2>4 DEF Sound
      <3>2. /\ IsContext(t.x) /\ t.x.state = r.x.state /\ t.x.expect = r.x.expect /\ t.x.eheight = r.x.eheight
            /\ t.x.lrh = r.x.lrh /\ t.x.needed = r.x.needed /\ t.x.last = r.x.last
            /\ t.x.score = r.x.score /\ t.x.closing = r.x.closing
        BY <2>3, <3>1 DEF Sound, IsContext, Fields
      <3>3. ListRight(t.x)
        BY <2>3, <3>2 DEF RightFor, ListRight
      <3>4. Sends(r) => Sends(t)
        BY <3>1, <3>2 DEF Sends
      <3> QED BY <2>3, <3>1, <3>2, <3>3, <3>4 DEF RightFor
    <2>7. PICK u : u = IF r.end = "drop" THEN r ELSE t
      OBVIOUS
    <2>8. RightFor(u, ctx[c].score, ctx[c].closing) /\ IsContext(u.x) /\ Ends(c, u)
      BY <2>3, <2>5, <2>6, <2>7 DEF Sound
    <2>9. target' \in Nat /\ target' >= target
      <3>1. target' = target \/ (target' = Remote(c) /\ Remote(c) > target)
        BY <2>1, <2>2 DEF EntryTaken
      <3> QED BY <1>1, <3>1, RaisedTarget
    <2>10. UNCHANGED blamed
      BY <1>3 DEF ChainChecked
    <2> QED BY <1>1, <2>8, <2>9, <2>10, EndsRight
  <1> QED BY <1>2, <1>3

(* handle_response_get_objects: what is taken follows on from one another,  *)
(* above the genesis block.                                                 *)
LEMMA TakenServes ==
  ASSUME NEW t \in Block, NEW x, NEW s \in Seq(Range(ChainTo[t])), s # <<>>, ~Refused(x, s)
  PROVE  /\ Serves(t, HeightOf(s[1]), s) /\ HeightOf(s[1]) \in Nat \ {0} /\ s[Len(s)] \in Block
  <1>1. Len(s) \in Nat /\ Len(s) > 0 /\ DOMAIN s = 1 .. Len(s) /\ Len(s) \in 1 .. Len(s)
    BY SMTT(30)
  <1>2. ASSUME NEW i \in 2 .. Len(s) PROVE Prev(s[i]) = s[i - 1]
    <2>1. i \in DOMAIN s /\ i > 1
      BY SMTT(30), <1>1
    <2> QED BY <2>1 DEF Refused
  <1>3. HeightOf(s[1]) # 0
    BY DEF Refused
  <1>4. Serves(t, HeightOf(s[1]), s) /\ HeightOf(s[1]) \in Nat \ {0}
    BY <1>1, <1>2, <1>3, ServedRun
  <1>5. s[Len(s)] \in Range(ChainTo[t])
    BY <1>1, ElementIs
  <1> QED BY <1>4, <1>5, OnChain

LEMMA ObjectsAnsweredRight ==
  ASSUME IInv, DInv, NEW c \in Conn, ObjectsAnswered(c)
  PROVE  DInv'
  <1> DEFINE x == ctx[c]
             m == Head(wire[c])
  <1>1. /\ ConnRight(x, pc[c], wire[c]) /\ IsContext(x) /\ DOMAIN wire = Conn
        /\ DOMAIN pc = Conn /\ CoreRight /\ pc[c] = "ready" /\ x.state # "closed" /\ ~x.closing
        /\ QueueRight(top, queue) /\ Covered(queue)
    BY DEF DInv, Conns, IInv, ObjectsAnswered, Ready, Live
  <1>2. /\ wire[c] # <<>> /\ m.kind = "objects" /\ wire' = [wire EXCEPT ![c] = Tail(wire[c])]
        /\ UNCHANGED <<top, known, invalid, tip, lock, pick>>
    BY DEF ObjectsAnswered, core
  <1>3. wire[c] \in Seq(Asks)
    BY <1>1 DEF ConnRight
  <1>4. m \in Asks /\ Tail(wire[c]) \in Seq(Asks) /\ m = wire[c][1] /\ (Len(wire[c]) = 1 => Tail(wire[c]) = <<>>)
    BY <1>2, <1>3, TailIs
  <1>5. m.ids \in Seq(Block) /\ top[c] \in Block
    BY <1>1, <1>4 DEF Asks, CoreRight
  <1>6. PICK blocks : blocks = Among(m.ids, Range(ChainTo[top[c]]))
    OBVIOUS
  <1>7. blocks \in Seq(Range(ChainTo[top[c]])) /\ Received(c, blocks)
    BY <1>5, <1>6, AmongIn DEF ObjectsAnswered
  <1>8. x.score = 0 => Len(wire[c]) = 1 /\ x.expect = "objects"
    BY <1>1, <1>2, <1>4 DEF ConnRight, Awaits
  <1>9. DOMAIN wire' = Conn /\ wire'[c] = Tail(wire[c]) /\ (\A d \in Conn \ {c} : wire'[d] = wire[d])
    BY <1>1, <1>2
  <1>10. target' \in Nat /\ target' >= target
    <2>1. target' = target \/ target' = Max({target, Remote(c)})
      BY <1>7 DEF Received
    <2> QED BY <1>1, <2>1, RaisedTarget
  <1>11. CASE x.expect # "objects" \/ blocks = <<>>
    <2>1. PICK why : why = IF x.expect # "objects" THEN "unasked" ELSE "objects"
      OBVIOUS
    <2>2. /\ Drop(c, why) /\ UNCHANGED pc /\ why \notin {"span", "parent"}
          /\ why = "unasked" => x.score # 0
      BY <1>7, <1>8, <1>11, <2>1 DEF Received
    <2> QED BY <1>1, <1>2, <1>4, <1>9, <1>10, <2>2, DropRight
  <1>12. CASE ~(x.expect # "objects" \/ blocks = <<>>) /\ Refused(x, blocks)
    <2>1. PICK why : why = Unblamed
      OBVIOUS
    <2>2. Drop(c, why) /\ UNCHANGED pc /\ why \notin {"span", "parent"} /\ why # "unasked"
      BY <1>7, <1>12, <2>1 DEF Received, Unblamed
    <2> QED BY <1>1, <1>2, <1>4, <1>9, <1>10, <2>2, DropRight
  <1>13. CASE ~(x.expect # "objects" \/ blocks = <<>>) /\ ~Refused(x, blocks)
    <2> DEFINE y == [x EXCEPT !.expect = "none", !.requested = {}, !.last = blocks[Len(blocks)]]
    <2>1. /\ queue' = add_filled(queue, HeightOf(blocks[1]), blocks, c)
          /\ ctx' = [ctx EXCEPT ![c] = y] /\ pc' = [pc EXCEPT ![c] = "try"] /\ UNCHANGED blamed
      BY <1>7, <1>13 DEF Received
    <2>2. /\ y.expect = "none" /\ y.score = x.score /\ y.state = x.state /\ y.closing = x.closing
          /\ y.lrh = x.lrh /\ y.needed = x.needed /\ y.last = blocks[Len(blocks)]
      BY <1>1 DEF IsContext, Fields
    <2> HIDE DEF y
    <2>3. /\ Serves(top[c], HeightOf(blocks[1]), blocks) /\ HeightOf(blocks[1]) \in Nat \ {0}
          /\ blocks[Len(blocks)] \in Block
      BY <1>5, <1>7, <1>13, TakenServes
    <2>4. ListRight(y)
      BY <1>1, <2>2, <2>3 DEF ConnRight, ListRight
    <2>5. x.state = "synchronizing"
      BY <1>1, <1>13 DEF ConnRight
    <2>6. y.score = 0 => Awaits(y, wire'[c])
      BY <1>4, <1>8, <1>9, <2>2 DEF Awaits
    <2>7. (\A d \in Conn \ {c} : pc'[d] = pc[d]) /\ pc'[c] = "try"
      BY <1>1, <2>1
    <2>8. ConnRight(y, pc'[c], wire'[c])
      BY <1>1, <1>4, <1>9, <2>2, <2>4, <2>5, <2>6 DEF ConnRight
    <2>9. CoreRight' /\ Conns' /\ Locks' /\ Targets'
      BY <1>1, <1>2, <1>9, <1>10, <2>1, <2>7, <2>8, OwnStep
    <2>10. QueueRight(top, queue')
      <3>1. PICK h \in Nat \ {0} : h = HeightOf(blocks[1])
        BY <2>3
      <3> QED BY <1>1, <2>1, <2>3, <3>1, AddFilledRight
    <2> QED BY <1>2, <2>1, <2>9, <2>10, QueueSame, BlamesKept DEF DInv
  <1> QED BY <1>11, <1>12, <1>13

-----------------------------------------------------------------------------
(* try_add_next_blocks *)

(* A step that changes no context. *)
LEMMA IdleStep ==
  ASSUME IInv, DInv, NEW c \in Conn, UNCHANGED <<ctx, wire, top, target, known, invalid, tip, blamed>>,
         \A d \in Conn \ {c} : pc'[d] = pc[d], ConnRight(ctx[c], pc'[c], wire[c]),
         QueueRight(top, queue'), Locks'
  PROVE  DInv'
  <1>1. Conns'
    BY ConnsIdle DEF DInv
  <1>2. CoreRight' /\ Blames' /\ QueueRight(top, queue)'
    BY TargetNat, CoreSame, BlamesKept, QueueSame DEF DInv
  <1>3. Targets'
    <2>1. CoreRight /\ Targets /\ target' \in Nat /\ target' >= target
      BY TargetNat DEF DInv
    <2>2. \A d \in Conn : ctx[d].state = "closed" => ctx'[d].state = "closed"
      OBVIOUS
    <2> QED BY <2>1, <2>2, TargetsSame
  <1> QED BY <1>1, <1>2, <1>3 DEF DInv

(* Only the connection that has the lock is adding. *)
LEMMA OneAdds ==
  ASSUME DInv, NEW c \in Conn, lock \in {NoOne, c}, NEW d \in Conn \ {c}
  PROVE  pc[d] \notin {"adding", "connecting"}
  BY ConnectionAssumption DEF DInv, Locks

LEMMA TryLockRight ==
  ASSUME IInv, DInv, NEW c \in Conn, TryLock(c)
  PROVE  DInv'
  <1>1. /\ ConnRight(ctx[c], pc[c], wire[c]) /\ DOMAIN pc = Conn /\ pc[c] = "try"
        /\ UNCHANGED <<ctx, wire, top, target, known, invalid, tip, blamed, queue, pick>>
    BY DEF DInv, Conns, IInv, TryLock, core
  <1>2. /\ \A d \in Conn \ {c} : pc'[d] = pc[d]
        /\ pc'[c] \in {"adding", "request"} /\ (pc'[c] = "adding" => lock = NoOne /\ lock' = c)
        /\ lock' # lock => lock = NoOne
    BY <1>1 DEF TryLock
  <1>3. ConnRight(ctx[c], pc'[c], wire[c])
    BY <1>1, <1>2 DEF ConnRight
  <1>4. PickRight => PickRight'
    BY <1>1 DEF PickRight, HasBlock
  <1>5. Locks'
    <2>1. ASSUME NEW d \in Conn
          PROVE  /\ pc'[d] \in {"adding", "connecting"} => lock' = d
                 /\ pc'[d] = "connecting" => PickRight'
      <3>1. CASE d = c
        BY <1>2, <3>1
      <3>2. CASE d # c /\ lock = NoOne
        BY <1>2, <3>2, OneAdds
      <3>3. CASE d # c /\ lock # NoOne
        BY <1>2, <1>4, <3>3 DEF DInv, Locks
      <3> QED BY <3>1, <3>2, <3>3
    <2> QED BY <2>1 DEF Locks
  <1>6. QueueRight(top, queue')
    BY <1>1 DEF DInv
  <1> QED BY <1>1, <1>2, <1>3, <1>5, <1>6, IdleStep

(* The span picked: it has blocks, its height is theirs, and so is the one  *)
(* the block queue has for its parent.                                      *)
LEMMA PickedSpan ==
  ASSUME DInv, NEW h, h = get_next_span(queue), h # 0
  PROVE  /\ h \in Nat \ {0} /\ OwnerAt(h) \in Conn /\ Len(BlocksAt(h)) > 0
         /\ Serves(top[OwnerAt(h)], h, BlocksAt(h))
         /\ ParentAt(h) \in DOMAIN queue.have => queue.have[ParentAt(h)] + 1 = h
  <1>1. QueueRight(top, queue) /\ CoreRight
    BY DEF DInv
  <1>2. Filled(queue, h) /\ SpanRight(top, h, queue.spans[h])
    BY <1>1, NextSpanIs
  <1>3. PICK s, t : s = BlocksAt(h) /\ t = top[OwnerAt(h)]
    OBVIOUS
  <1>4. h \in Nat \ {0} /\ OwnerAt(h) \in Conn /\ Serves(t, h, s) /\ s # <<>>
    BY <1>2, <1>3 DEF SpanRight, BlocksAt, OwnerAt, Filled
  <1>5. t \in Block
    BY <1>1, <1>3, <1>4 DEF CoreRight
  <1>6. s \in Seq(Block)
    BY <1>4 DEF Serves
  <1>7. Len(s) > 0 /\ 1 \in 1 .. Len(s) /\ h + 1 - 1 = h
    BY SMTT(30), <1>4, <1>6
  <1>8. s[1] \in Block /\ HeightOf(s[1]) = h
    <2>1. s[1] \in Block /\ HeightOf(s[1]) = h + 1 - 1
      BY SMTT(30), <1>4, <1>5, <1>7, ServesIs
    <2> QED BY <1>7, <2>1
  <1>9. ASSUME Prev(s[1]) \in DOMAIN queue.have PROVE queue.have[Prev(s[1])] + 1 = h
    <2>1. Prev(s[1]) \in Block /\ queue.have[Prev(s[1])] = HeightOf(Prev(s[1]))
      BY <1>1, <1>9 DEF QueueRight
    <2> QED BY <1>8, <2>1, Above
  <1> QED BY <1>3, <1>4, <1>7, <1>9 DEF ParentAt

(* The lock is released. *)
LEMMA Released ==
  ASSUME IInv, DInv, NEW c \in Conn, lock = c, lock' = NoOne, NEW where, pc' = [pc EXCEPT ![c] = where],
         where \notin {"adding", "connecting"}
  PROVE  Locks'
  <1>1. pc'[c] = where /\ \A d \in Conn \ {c} : pc'[d] = pc[d]
    BY DEF IInv
  <1>2. ASSUME NEW d \in Conn PROVE pc'[d] \notin {"adding", "connecting"}
    <2>1. CASE d = c
      BY <1>1, <2>1
    <2>2. CASE d # c
      BY <1>1, <2>2, OneAdds
    <2> QED BY <2>1, <2>2
  <1> QED BY <1>2 DEF Locks

LEMMA PickSpanRight ==
  ASSUME IInv, DInv, NEW c \in Conn, PickSpan(c)
  PROVE  DInv'
  <1> DEFINE x == ctx[c]
  <1>1. /\ ConnRight(x, pc[c], wire[c]) /\ IsContext(x) /\ DOMAIN pc = Conn /\ pc[c] = "adding"
        /\ DOMAIN wire = Conn /\ CoreRight /\ QueueRight(top, queue)
        /\ UNCHANGED <<wire, top, target, known, invalid, tip>>
    BY DEF DInv, Conns, IInv, PickSpan, core
  <1>2. lock = c
    BY <1>1 DEF DInv, Locks
  <1>3. PICK h : h = get_next_span(queue)
    OBVIOUS
  <1>4. NextSpan(c, h)
    BY <1>3 DEF PickSpan
  <1>5. ASSUME NEW where, where # "ready" PROVE ConnRight(x, where, wire[c])
    BY <1>1 DEF ConnRight
  <1>6. ASSUME NEW where, where \notin {"ready", "adding", "connecting"}, lock' = NoOne,
               pc' = [pc EXCEPT ![c] = where], UNCHANGED <<queue, ctx, blamed>>
        PROVE  DInv'
    <2>1. Locks'
      BY <1>2, <1>6, Released
    <2>2. ConnRight(x, pc'[c], wire[c]) /\ \A d \in Conn \ {c} : pc'[d] = pc[d]
      BY <1>1, <1>5, <1>6
    <2>3. QueueRight(top, queue')
      BY <1>1, <1>6
    <2> QED BY <1>1, <1>6, <2>1, <2>2, <2>3, IdleStep
  <1>7. CASE StopAdding(c)
    <2>1. PICK late \in BOOLEAN :
            pc' = [pc EXCEPT ![c] = IF should_download_next_span(c, queue, late) THEN "force" ELSE "request"]
      BY <1>7 DEF StopAdding
    <2>2. PICK where : where = IF should_download_next_span(c, queue, late) THEN "force" ELSE "request"
      OBVIOUS
    <2>3. where \in {"force", "request"} /\ pc' = [pc EXCEPT ![c] = where]
      BY <2>1, <2>2
    <2> QED BY <1>6, <1>7, <2>3 DEF StopAdding
  <1>8. CASE h # 0 /\ HasBlock(BlocksAt(h)[Len(BlocksAt(h))])
    <2>1. queue' = remove_spans(queue, OwnerAt(h), h) /\ UNCHANGED <<lock, pc, pick, ctx, blamed>>
      BY <1>4, <1>8 DEF NextSpan
    <2>2. QueueRight(top, queue')
      BY <1>1, <2>1, FlushRight
    <2>3. Locks'
      BY <1>1, <2>1, LocksSame DEF DInv
    <2> QED BY <1>1, <2>1, <2>2, <2>3, IdleStep
  <1>9. CASE h # 0 /\ NoParent(c, h)
    <2>1. ParentAt(h) \in DOMAIN queue.have => queue.have[ParentAt(h)] + 1 = h
      BY <1>3, <1>9, PickedSpan
    <2>2. CASE ParentAt(h) \in queue.requested
      BY <1>7, <1>9, <2>1, <2>2 DEF NoParent
    <2>3. CASE ParentAt(h) \notin queue.requested /\ h > Height
      <3>1. Leave(c, "request") /\ UNCHANGED <<queue, ctx, blamed>>
        BY <1>9, <2>1, <2>3 DEF NoParent
      <3>2. PICK where : where = "request"
        OBVIOUS
      <3> QED BY <1>6, <3>1, <3>2 DEF Leave
    <2>4. CASE ParentAt(h) \notin queue.requested /\ ~(h > Height)
      <3> DEFINE y == [x EXCEPT !.needed = <<>>, !.lrh = 0]
      <3>1. /\ queue' = remove_spans(queue, OwnerAt(h), h) /\ ctx' = [ctx EXCEPT ![c] = y]
            /\ lock' = NoOne /\ pc' = [pc EXCEPT ![c] = "request"] /\ UNCHANGED <<pick, blamed>>
        BY <1>9, <2>1, <2>4 DEF NoParent, Leave
      <3>2. /\ y.expect = x.expect /\ y.score = x.score /\ y.state = x.state /\ y.closing = x.closing
            /\ y.lrh = 0 /\ y.needed = <<>> /\ y.last = x.last /\ y.eheight = x.eheight
        BY <1>1 DEF IsContext, Fields
      <3> HIDE DEF y
      <3>3. ListRight(y)
        <4>1. 0 \in Nat
          BY SMTT(30)
        <4> QED BY <1>1, <3>2, <4>1, EmptyList DEF ConnRight, ListRight
      <3>4. ConnRight(y, "request", wire[c])
        BY <1>1, <3>2, <3>3 DEF ConnRight, Awaits
      <3>5. PICK where : where = "request"
        OBVIOUS
      <3>6. Locks'
        BY <1>2, <3>1, <3>5, Released
      <3>7. ConnRight(y, pc'[c], wire'[c]) /\ \A d \in Conn \ {c} : pc'[d] = pc[d]
        BY <1>1, <3>1, <3>4
      <3>8. Conns'
        BY <1>1, <3>1, <3>7, ConnsStep DEF DInv
      <3>9. QueueRight(top, queue')
        BY <1>1, <3>1, FlushRight
      <3>10. CoreRight' /\ target' \in Nat /\ target' >= target
        BY <1>1, TargetNat, CoreSame
      <3>11. Targets'
        <4>1. \A d \in Conn : ctx[d].state = "closed" => ctx'[d].state = "closed"
          BY <1>1, <3>1, <3>2 DEF IInv
        <4> QED BY <1>1, <3>10, <4>1, TargetsSame DEF DInv
      <3>12. Blames'
        BY <1>1, <3>1, BlamesKept DEF DInv
      <3> QED BY <1>1, <3>6, <3>8, <3>9, <3>10, <3>11, <3>12, QueueSame DEF DInv
    <2> QED BY <2>2, <2>3, <2>4
  <1>10. CASE h # 0 /\ HasBlock(ParentAt(h)) /\ ~HasBlock(BlocksAt(h)[Len(BlocksAt(h))])
    <2>1. /\ pick' = [start |-> h, blocks |-> BlocksAt(h), connection |-> OwnerAt(h)]
          /\ pc' = [pc EXCEPT ![c] = "connecting"] /\ UNCHANGED <<queue, lock, ctx, blamed>>
      BY <1>4, <1>10 DEF NextSpan
    <2>2. /\ h \in Nat \ {0} /\ OwnerAt(h) \in Conn /\ Len(BlocksAt(h)) > 0
          /\ Serves(top[OwnerAt(h)], h, BlocksAt(h))
      BY <1>3, <1>10, PickedSpan
    <2>3. pick'.start = h /\ pick'.blocks = BlocksAt(h) /\ pick'.connection = OwnerAt(h)
      BY <2>1
    <2>4. PickRight'
      BY <1>1, <1>10, <2>2, <2>3 DEF PickRight, HasBlock, ParentAt
    <2>5. pc'[c] = "connecting" /\ \A d \in Conn \ {c} : pc'[d] = pc[d]
      BY <1>1, <2>1
    <2>6. Locks'
      <3>1. ASSUME NEW d \in Conn PROVE pc'[d] \in {"adding", "connecting"} => lock' = d
        BY <1>2, <2>1, <2>5 DEF DInv, Locks
      <3> QED BY <2>4, <3>1 DEF Locks
    <2>7. ConnRight(x, pc'[c], wire[c])
      BY <1>5, <2>5
    <2>8. QueueRight(top, queue')
      BY <1>1, <2>1
    <2> QED BY <1>1, <2>1, <2>5, <2>6, <2>7, <2>8, IdleStep
  <1> QED BY <1>4, <1>7, <1>8, <1>9, <1>10 DEF NextSpan

(* The chain only grows. *)
LEMMA TargetsGrow ==
  ASSUME CoreRight, Targets, UNCHANGED <<top, target>>, tip' \in Block, HeightOf(tip) <= HeightOf(tip'),
         \A d \in Conn : ctx[d].state = "closed" => ctx'[d].state = "closed"
  PROVE  Targets'
  <1>1. Honest' = Honest /\ \A d \in Conn : Remote(d)' = Remote(d)
    BY DEF Honest, Remote
  <1>2. Height' = HeightOf(tip') + 1 /\ HeightOf(tip) \in Nat /\ HeightOf(tip') \in Nat
    BY HeightNat DEF Height, CoreRight
  <1>3. ASSUME NEW d \in Live' \cap Honest' PROVE Height' >= Remote(d)' \/ target' >= Remote(d)'
    <2>1. d \in Live \cap Honest /\ d \in Conn
      BY <1>1, <1>3 DEF Live
    <2>2. Remote(d) \in Nat /\ Height = HeightOf(tip) + 1
      BY <2>1, RemoteNat DEF Height
    <2>3. Height >= Remote(d) \/ target >= Remote(d)
      BY <2>1 DEF Targets
    <2>4. HeightOf(tip') + 1 >= Remote(d) \/ target >= Remote(d)
      BY SMTT(30), <1>2, <2>2, <2>3
    <2> QED BY <1>1, <1>2, <2>1, <2>4
  <1> QED BY <1>3 DEF Targets

LEMMA CoreGrows ==
  ASSUME CoreRight, NEW k \in Cores(known), known' = k.known, invalid' = k.invalid, tip' = k.tip,
         UNCHANGED <<top, target>>
  PROVE  CoreRight' /\ tip' \in Block /\ HeightOf(tip) <= HeightOf(tip')
  <1>1. /\ k.known \subseteq Block /\ k.invalid \subseteq BAD /\ known \subseteq k.known /\ k.tip \in k.known
        /\ \A b \in k.known : HeightOf(b) <= HeightOf(k.tip)
    BY DEF Cores
  <1> QED BY <1>1 DEF CoreRight

LEMMA ConnectSpanRight ==
  ASSUME IInv, DInv, NEW c \in Conn, ConnectSpan(c)
  PROVE  DInv'
  <1>1. /\ DOMAIN pc = Conn /\ DOMAIN ctx = Conn /\ DOMAIN wire = Conn /\ pc[c] = "connecting"
        /\ CoreRight /\ QueueRight(top, queue) /\ UNCHANGED <<wire, top, target>>
        /\ \A e \in Conn : ConnRight(ctx[e], pc[e], wire[e]) /\ IsContext(ctx[e])
    BY DEF DInv, Conns, IInv, ConnectSpan
  <1>2. lock = c /\ PickRight
    BY <1>1 DEF DInv, Locks
  <1>3. PICK mark \in BOOLEAN : Connected(c, AddSpan(pick.blocks, mark))
    BY DEF ConnectSpan
  <1>4. PICK k, blocks, d, h : k = AddSpan(blocks, mark) /\ blocks = pick.blocks /\ d = pick.connection /\ h = pick.start
    OBVIOUS
  <1>5. blocks \in Seq(Block) /\ Serves(top[d], h, blocks) /\ d \in Conn /\ h \in Nat \ {0} /\ HasBlock(Prev(blocks[1]))
    BY <1>2, <1>4 DEF PickRight, Serves
  <1>6. k \in Cores(known)
    BY <1>1, <1>4, <1>5, AddSpanRight
  <1>7. known' = k.known /\ invalid' = k.invalid /\ tip' = k.tip
    BY <1>3, <1>4 DEF Connected
  <1>8. CoreRight' /\ tip' \in Block /\ HeightOf(tip) <= HeightOf(tip')
    BY <1>1, <1>6, <1>7, CoreGrows
  <1>9. CASE k.ok
    <2>1. SpanAdded(c, d, h)
      BY <1>3, <1>4, <1>9 DEF Connected
    <2>2. queue' = remove_spans(queue, d, h) /\ pc' = [pc EXCEPT ![c] = "adding"] /\ UNCHANGED <<ctx, blamed, lock>>
      BY <2>1 DEF SpanAdded
    <2>3. QueueRight(top, queue')
      BY <1>1, <2>2, FlushRight
    <2>4. pc'[c] = "adding" /\ \A e \in Conn \ {c} : pc'[e] = pc[e]
      BY <1>1, <2>2
    <2>5. ConnRight(ctx[c], pc'[c], wire[c])
      BY <1>1, <2>4 DEF ConnRight
    <2>6. Conns'
      BY <1>1, <2>2, <2>4, <2>5, ConnsIdle DEF DInv
    <2>7. Locks'
      <3>1. ASSUME NEW e \in Conn \ {c} PROVE pc'[e] \notin {"adding", "connecting"}
        BY <1>2, <2>4, <3>1, OneAdds
      <3> QED BY <1>2, <2>2, <2>4, <3>1 DEF Locks
    <2>8. Targets'
      BY <1>1, <1>8, <2>2, TargetsGrow DEF DInv
    <2>9. Blames'
      BY <1>1, <2>2, BlamesKept DEF DInv
    <2> QED BY <1>1, <1>8, <2>3, <2>6, <2>7, <2>8, <2>9, QueueSame DEF DInv
  <1>10. CASE ~k.ok
    <2>1. SpanFailed(c, d, h)
      BY <1>3, <1>4, <1>10 DEF Connected
    <2>2. /\ queue' = remove_spans(IF d \in Live THEN flush_spans(queue, d, TRUE) ELSE queue, d, h)
          /\ ctx' = (IF d \in Live THEN [ctx EXCEPT ![d] = Dropping(@)] ELSE ctx)
          /\ blamed' = blamed \union {<<d, "span">>} /\ lock' = NoOne /\ pc' = [pc EXCEPT ![c] = "ready"]
      BY <2>1 DEF SpanFailed
    <2>3. QueueRight(top, queue')
      <3>1. PICK q : q = IF d \in Live THEN flush_spans(queue, d, TRUE) ELSE queue
        OBVIOUS
      <3>2. QueueRight(top, q)
        BY <1>1, <3>1, FlushRight
      <3> QED BY <2>2, <3>1, <3>2, FlushRight
    <2>4. pc'[c] = "ready" /\ \A e \in Conn \ {c} : pc'[e] = pc[e]
      BY <1>1, <2>2
    <2>5. ASSUME NEW e \in Conn PROVE ConnRight(ctx'[e], pc'[e], wire'[e]) /\ ctx'[e].state = ctx[e].state
      <3>1. ConnRight(ctx[e], pc'[e], wire[e]) /\ IsContext(ctx[e])
        BY <1>1, <2>4 DEF ConnRight
      <3>2. PICK x, y, p, w : x = ctx[e] /\ y = Dropping(x) /\ p = pc'[e] /\ w = wire[e]
        OBVIOUS
      <3>3. ConnRight(y, p, w) /\ y.state = x.state
        BY <3>1, <3>2, DroppingConn
      <3>4. ctx'[e] = y \/ ctx'[e] = x
        BY <1>1, <2>2, <3>2
      <3> QED BY <1>1, <3>1, <3>2, <3>3, <3>4
    <2>6. Conns'
      BY <1>1, <2>5 DEF Conns
    <2>7. Locks'
      <3>1. PICK where : where = "ready"
        OBVIOUS
      <3> QED BY <1>2, <2>2, <3>1, Released
    <2>8. Targets'
      BY <1>1, <1>8, <2>5, TargetsGrow DEF DInv
    <2>9. d \notin Honest
      <3>1. SUFFICES ASSUME d \in Honest PROVE FALSE
        OBVIOUS
      <3>2. PICK t \in Block : t = top[d]
        BY <1>1, <1>5 DEF CoreRight
      <3>3. Range(ChainTo[t]) \cap BAD = {}
        BY <3>1, <3>2 DEF Honest
      <3>4. AddSpan(blocks, mark).ok
        BY <1>1, <1>5, <3>2, <3>3, AddSpanOk
      <3> QED BY <1>4, <1>10, <3>4
    <2>10. Blames'
      <3>1. PICK v : v = <<d, "span">>
        OBVIOUS
      <3>2. v[1] = d /\ v[2] = "span"
        BY <3>1
      <3>3. blamed' \subseteq blamed \union {v} /\ v[2] \notin {"unasked", "parent"}
        BY <2>2, <3>1, <3>2
      <3> QED BY <1>1, <2>9, <3>2, <3>3, BlamesSame DEF DInv
    <2> QED BY <1>1, <1>8, <2>3, <2>6, <2>7, <2>8, <2>10, QueueSame DEF DInv
  <1> QED BY <1>9, <1>10

-----------------------------------------------------------------------------
(* on_connection_close: the target is lowered to the best of the others. *)
LEMMA LoweredTarget ==
  ASSUME CoreRight, NEW c \in Conn, target' = Min({target, Max({0} \union OtherRemotes(c))})
  PROVE  /\ target' \in Nat
         /\ \A d \in Live \ {c} : target >= Remote(d) => target' >= Remote(d)
  <1>1. PICK k \in Nat : \A b \in Block : HeightOf(b) <= k
    BY HeightBound
  <1> DEFINE S == {0} \union OtherRemotes(c)
  <1>2. S \subseteq 0 .. k + 1 /\ S # {}
    <2>1. ASSUME NEW d \in Live \ {c} PROVE Remote(d) \in 0 .. k + 1
      <3>1. top[d] \in Block
        BY <2>1 DEF Live, CoreRight
      <3>2. HeightOf(top[d]) \in Nat /\ HeightOf(top[d]) <= k
        BY <1>1, <3>1, HeightNat
      <3> QED BY SMTT(30), <3>2 DEF Remote
    <2>2. 0 \in 0 .. k + 1
      BY SMTT(30)
    <2> QED BY <2>1, <2>2 DEF OtherRemotes
  <1>3. \A d \in Live \ {c} : Remote(d) \in S
    BY DEF OtherRemotes
  <1> HIDE DEF S
  <1>4. PICK n \in Nat : n = k + 1
    BY SMTT(30)
  <1>5. Max(S) \in S /\ \A y \in S : Max(S) >= y
    BY <1>2, <1>4, MaxIs
  <1>6. Max(S) \in Nat /\ target \in Nat
    <2>1. PICK a \in 0 .. k + 1 : a = Max(S)
      BY <1>2, <1>5
    <2>2. a \in Nat
      BY SMTT(30)
    <2> QED BY <2>1, <2>2 DEF CoreRight
  <1>7. PICK a, b \in Int : a = target /\ b = Max(S)
    BY SMTT(30), <1>6
  <1>8. target' = IF a <= b THEN a ELSE b
    BY <1>7, MinOfTwo DEF S
  <1>9. target' \in Nat
    BY <1>6, <1>7, <1>8
  <1>10. ASSUME NEW d \in Live \ {c}, target >= Remote(d) PROVE target' >= Remote(d)
    <2>1. Max(S) >= Remote(d)
      BY <1>3, <1>5
    <2> QED BY <1>7, <1>8, <1>10, <2>1
  <1> QED BY <1>9, <1>10

LEMMA ConnectionClosedRight ==
  ASSUME IInv, DInv, NEW c \in Conn, ConnectionClosed(c)
  PROVE  DInv'
  <1>1. /\ DOMAIN wire = Conn /\ DOMAIN ctx = Conn /\ CoreRight /\ QueueRight(top, queue) /\ pc[c] = "ready"
        /\ UNCHANGED <<top, known, invalid, tip, lock, pick, pc, blamed>>
    BY DEF DInv, Conns, IInv, ConnectionClosed, core
  <1>2. /\ target' = Min({target, Max({0} \union OtherRemotes(c))}) /\ queue' = flush_spans(queue, c, FALSE)
        /\ ctx' = [ctx EXCEPT ![c] = Closed] /\ wire' = [wire EXCEPT ![c] = <<>>]
    BY DEF ConnectionClosed
  <1>3. target' \in Nat /\ \A d \in Live \ {c} : target >= Remote(d) => target' >= Remote(d)
    BY <1>1, <1>2, LoweredTarget
  <1>4. CoreRight' /\ QueueRight(top, queue')
    BY <1>1, <1>2, <1>3, CoreSame, FlushRight
  <1>5. PICK y : y = Closed
    OBVIOUS
  <1>6. Conns'
    <2>1. ConnRight(y, "ready", <<>>)
      BY <1>5, ClosedRight
    <2>2. wire'[c] = <<>> /\ DOMAIN wire' = Conn /\ \A d \in Conn \ {c} : wire'[d] = wire[d]
      BY <1>1, <1>2
    <2> QED BY <1>1, <1>2, <1>5, <2>1, <2>2, ConnsStep DEF DInv
  <1>7. Locks'
    BY <1>1, LocksSame DEF DInv
  <1>8. Blames'
    BY <1>1, BlamesKept DEF DInv
  <1>9. Targets'
    <2>1. Honest' = Honest /\ Height' = Height /\ \A d \in Conn : Remote(d)' = Remote(d)
      BY <1>1 DEF Honest, Height, Remote
    <2>2. ASSUME NEW d \in Live' \cap Honest' PROVE Height' >= Remote(d)' \/ target' >= Remote(d)'
      <3>1. d \in Conn /\ d # c
        BY <1>1, <1>2, <2>2 DEF Live, Closed
      <3>2. d \in Live \cap Honest
        BY <1>1, <1>2, <2>1, <2>2, <3>1 DEF Live
      <3>3. Height >= Remote(d) \/ target >= Remote(d)
        BY <3>2 DEF DInv, Targets
      <3> QED BY <1>3, <2>1, <3>1, <3>2, <3>3
    <2> QED BY <2>2 DEF Targets
  <1> QED BY <1>1, <1>4, <1>6, <1>7, <1>8, <1>9, QueueSame DEF DInv

LEMMA StutterRight ==
  ASSUME DInv, UNCHANGED vars
  PROVE  DInv'
  <1>1. UNCHANGED <<top, known, invalid, tip, target, queue, lock, pick, ctx, wire, pc, blamed>>
    BY DEF vars
  <1>2. CoreRight' /\ Blames' /\ QueueRight(top, queue)'
    BY <1>1, TargetNat, CoreSame, BlamesKept, QueueSame DEF DInv
  <1>3. Conns'
    BY <1>1 DEF DInv, Conns
  <1>4. Locks'
    BY <1>1, LocksSame DEF DInv
  <1>5. Targets'
    <2>1. CoreRight /\ Targets /\ target' \in Nat /\ target' >= target
      BY <1>1, TargetNat DEF DInv
    <2> QED BY <1>1, <2>1, TargetsSame
  <1> QED BY <1>2, <1>3, <1>4, <1>5 DEF DInv

LEMMA NextDInv == IInv /\ DInv /\ [Next]_vars => DInv'
  <1> SUFFICES ASSUME IInv, DInv, [Next]_vars PROVE DInv'
    OBVIOUS
  <1>1. CASE UNCHANGED vars
    BY <1>1, StutterRight
  <1>2. ASSUME NEW c \in Conn, Handles(c) PROVE DInv'
    BY <1>2, CallbackRight, ChainAnsweredRight, ChainCheckedRight, ObjectsAnsweredRight, TryLockRight,
       PickSpanRight, ConnectSpanRight, RequestMissingStep, ConnectionClosedRight DEF Handles
  <1> QED BY <1>1, <1>2, HandshakeRight, CheckStandbyRight, IdleCallbackRight, PeerClosesRight DEF Next

LEMMA DataInvariance == Spec => [](IInv /\ DInv)
  <1>1. Init => IInv /\ DInv
    BY InitIInv, InitDInv
  <1>2. (IInv /\ DInv) /\ [Next]_vars => (IInv /\ DInv)'
    BY NextIInv, NextDInv
  <1> QED BY <1>1, <1>2, PTL DEF Spec

-----------------------------------------------------------------------------
(* The results. *)

(* Every block of a span is the one its connection's peer has at that        *)
(* height, whichever connections reserved, replaced and filled the span.     *)
THEOREM SpansAreServed == Spec => []SpansServed
  <1>1. ASSUME DInv PROVE SpansServed
    <2>1. ASSUME NEW h \in Starts(queue), NEW i \in DOMAIN queue.spans[h].blocks
          PROVE  queue.spans[h].blocks[i] = ChainTo[top[queue.spans[h].connection]][h + i]
      <3>1. PICK t, s : t = top[queue.spans[h].connection] /\ s = queue.spans[h].blocks
        OBVIOUS
      <3>2. Serves(t, h, s)
        BY <1>1, <3>1 DEF DInv, QueueRight, SpanRight
      <3>3. s \in Seq(Block)
        BY <3>2 DEF Serves
      <3>4. i \in 1 .. Len(s)
        BY SMTT(30), <3>1, <3>3
      <3> QED BY <3>1, <3>2, <3>4 DEF Serves
    <2> QED BY <2>1 DEF SpansServed
  <1> QED BY <1>1, DataInvariance, PTL

(* A peer with a valid chain is never dropped and counted against for a span *)
(* that fails to be added or that has the wrong height, and no peer that     *)
(* answered in time for an answer that was not asked for.                    *)
THEOREM HonestPeersNotBlamed == Spec => []HonestNotBlamed
  <1>1. DInv => HonestNotBlamed
    BY DEF DInv, Blames, HonestNotBlamed
  <1> QED BY <1>1, DataInvariance, PTL

(* The heights request_missing_objects and block_queue count up are those of *)
(* the blocks.                                                               *)
THEOREM HeightsAreRight == Spec => []HeightsRight
  <1>1. ASSUME DInv PROVE HeightsRight
    <2>1. \A b \in DOMAIN queue.have : queue.have[b] = HeightOf(b)
      BY <1>1 DEF DInv, QueueRight
    <2>2. ASSUME NEW c \in Live, NEW i \in DOMAIN ctx[c].needed
          PROVE  HeightOf(ctx[c].needed[i]) = ctx[c].lrh - Len(ctx[c].needed) + i
      <3>1. PICK x : x = ctx[c]
        OBVIOUS
      <3>2. c \in Conn
        BY DEF Live
      <3>3. ListRight(x)
        BY <1>1, <3>1, <3>2 DEF DInv, Conns, ConnRight
      <3>4. PICK s, n : s = x.needed /\ n = x.lrh
        OBVIOUS
      <3>5. n \in Nat /\ s \in Seq(Block) /\ Run(s, n - Len(s) + 1)
        BY <3>3, <3>4 DEF ListRight, Run
      <3>6. i \in 1 .. Len(s) /\ Len(s) \in Nat
        BY SMTT(30), <3>1, <3>4, <3>5
      <3>7. HeightOf(s[i]) = (n - Len(s) + 1) + i - 1
        BY <3>5, <3>6 DEF Run
      <3>8. (n - Len(s) + 1) + i - 1 = n - Len(s) + i
        BY SMTT(30), <3>5, <3>6
      <3> QED BY <3>1, <3>4, <3>7, <3>8
    <2> QED BY <2>1, <2>2 DEF HeightsRight
  <1> QED BY <1>1, DataInvariance, PTL

(* Who declares the node synchronized. *)
LEMMA SyncedByHandler ==
  ASSUME IInv, DInv, NEW d \in Conn, ChainChecked(d) \/ RequestMissing(d), ~synchronized, synchronized'
  PROVE  Height >= target /\ Live' \subseteq Live
  <1>1. pc[d] # "ready" /\ ConnRight(ctx[d], pc[d], wire[d])
    BY DEF ChainChecked, RequestMissing, DInv, Conns
  <1>2. d \in Live
    BY <1>1 DEF ConnRight, Live
  <1>3. \A e \in Conn \ {d} : ctx'[e] = ctx[e]
    BY DEF ChainChecked, RequestMissing, EntryTaken, Ends, Drop, IInv
  <1>4. Live' \subseteq Live
    BY <1>2, <1>3 DEF Live
  <1>5. ASSUME NEW r, RightFor(r, ctx[d].score, ctx[d].closing), synchronized' = (synchronized \/ r.sync)
        PROVE  Height >= target
    BY <1>5 DEF RightFor
  <1>6. CASE RequestMissing(d)
    <2>1. PICK late, wedged \in BOOLEAN :
            Ends(d, request_missing_objects(d, ctx[d], queue, pc[d] = "force", late, wedged))
      BY <1>6 DEF RequestMissing
    <2>2. PICK r, force : force = (pc[d] = "force") /\ r = request_missing_objects(d, ctx[d], queue, force, late, wedged)
      OBVIOUS
    <2>3. RightFor(r, ctx[d].score, ctx[d].closing) /\ Ends(d, r)
      BY <1>1, <2>1, <2>2, Requested
    <2> QED BY <1>4, <1>5, <2>3 DEF Ends
  <1>7. CASE ChainChecked(d)
    <2>1. ~BadEntry(d, ctx[d].hashes)
      BY <1>7 DEF ChainChecked
    <2>2. PICK late, wedged \in BOOLEAN :
            EntryTaken(d, request_missing_objects(d, ctx[d], queue, FALSE, late, wedged))
      BY <1>7, <2>1 DEF ChainChecked
    <2>3. PICK r : r = request_missing_objects(d, ctx[d], queue, FALSE, late, wedged)
      OBVIOUS
    <2>4. RightFor(r, ctx[d].score, ctx[d].closing) /\ Sound(r)
      BY <1>1, <2>3, Requested
    <2>5. synchronized' = (synchronized \/ r.sync)
      <3>1. [r EXCEPT !.x.nreq = 0].sync = r.sync
        BY <2>4 DEF Sound
      <3> QED BY <2>2, <2>3, <3>1 DEF EntryTaken, Ends
    <2> QED BY <1>4, <1>5, <2>4, <2>5
  <1> QED BY <1>6, <1>7

LEMMA SyncedByHandshake ==
  ASSUME IInv, DInv, NEW d \in Conn, Handshake(d), ~synchronized, synchronized'
  PROVE  HasBlock(top[d]) /\ Target = Height /\ Live' \subseteq Live \union {d}
  <1>1. HasBlock(top[d]) /\ Target = Height
    BY DEF Handshake, SyncData
  <1>2. \A e \in Conn \ {d} : ctx'[e] = ctx[e]
    BY DEF Handshake, SyncData, IInv
  <1> QED BY <1>1, <1>2 DEF Live

(* The node declares itself synchronized only when it is as high as every    *)
(* connected peer with a valid chain: m_target_height is never below the     *)
(* height of a connected peer the node has not caught up with.               *)
THEOREM SynchronizedMeansCaughtUp == Spec => CaughtUp
  <1> DEFINE Step == ~synchronized /\ synchronized' =>
                       \A c \in Live' \cap Honest : ctx'[c].closing \/ HeightOf(tip) + 1 >= Remote(c)
  <1>1. ASSUME IInv, DInv, [Next]_vars PROVE [Step]_vars
    <2> SUFFICES ASSUME Next, ~synchronized, synchronized', NEW c \in Live' \cap Honest
                 PROVE  HeightOf(tip) + 1 >= Remote(c)
      BY <1>1
    <2>1. c \in Conn /\ c \in Honest
      BY DEF Live
    <2>2. CoreRight /\ Targets
      BY <1>1 DEF DInv
    <2>3. Remote(c) \in Nat /\ Remote(c) > 0 /\ Height \in Nat /\ target \in Nat
      BY <2>1, <2>2, RemoteNat
    <2>4. c \in Live => Height >= Remote(c) \/ target >= Remote(c)
      BY <2>1, <2>2 DEF Targets
    <2>5. PICK d \in Conn : Handshake(d) \/ ChainChecked(d) \/ RequestMissing(d)
      BY DEF Next, Handles, TimedSync, SyncData, CheckStandby, IdleCallback, PeerCloses, Callback, ChainAnswered,
             ObjectsAnswered, TryLock, PickSpan, ConnectSpan, ConnectionClosed, core
    <2>6. CASE ChainChecked(d) \/ RequestMissing(d)
      <3>1. Height >= target /\ c \in Live
        BY <1>1, <2>6, SyncedByHandler
      <3>2. Height >= Remote(c)
        BY SMTT(30), <2>3, <2>4, <3>1
      <3> QED BY <3>2 DEF Height
    <2>7. CASE Handshake(d)
      <3>1. HasBlock(top[d]) /\ Target = Height /\ (c \in Live \/ c = d)
        BY <1>1, <2>7, SyncedByHandshake
      <3>2. CASE c = d
        BY <2>1, <2>2, <3>1, <3>2, HasTop DEF Height
      <3>3. CASE c \in Live
        <4>1. Height >= Remote(c)
          BY SMTT(30), <2>3, <2>4, <3>1, <3>3 DEF Target
        <4> QED BY <4>1 DEF Height
      <3> QED BY <3>1, <3>2, <3>3
    <2> QED BY <2>5, <2>6, <2>7
  <1> HIDE DEF Step
  <1>2. Spec => [][Step]_vars
    BY <1>1, DataInvariance, PTL DEF Spec
  <1> QED BY <1>2 DEF CaughtUp, Step

=============================================================================
