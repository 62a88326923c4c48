# CryLo verification

TLA+ models of the CryLo node (C++, of the Monero and Wownero family) and of its desktop wallet (Electron), the TLC
configurations that check them, and TLAPS proofs of the central theorems. Paths of the node are below `src/src`, those of the
desktop wallet below `src/electron`. `PROJECT.json` lists every run, the source lines of every definition, the mutants that
show that each property can fail, and the hazards each property is aimed at.

## The system and its parts

CryLo differs from its ancestors in its emission (a linear decrease to a floor, then a hard cap), in a coinbase that is split
between the miner, a vested half and three funds, and in a desktop wallet that also signs for an EVM side chain, Nexus.

| Part | State | Operations | What makes it hard | What has to be true | Module |
|---|---|---|---|---|---|
| Emission and coinbase (`cryptonote_basic_impl.cpp`, `cryptonote_tx_utils.cpp`, `blockchain.cpp`) | none | `get_block_reward`, `construct_miner_tx`, `validate_miner_transaction` | rounding, cap and penalty together, exhausted supply | a node's own coinbase is valid; weight costs reward | `Emission` |
| Supply (`blockchain.cpp`) | blocks with coins and weights | add, pop | a saturating count of coins | supply bounded, every coin counted | `ChainSupply` |
| Block weights (`blockchain.cpp`, `rolling_median.h`) | weights, medians, a rolling median cache | `update_next_cumulative_weight_limit`, `get_long_term_block_weight_median` | a cache keyed on a tip that pops and aborted batches move | the cache answers as the stored chain would | `BlockWeight`, `WeightCache`, `RollingMedian` |
| Main and alternative chains (`blockchain.cpp`) | main chain, alternative and invalid blocks | add, pop, switch, roll back, batches | a switch that fails half way | a failed switch restores; no double spend | `ChainPool` |
| Transaction pool (`tx_pool.cpp`) | stored transactions; key images, sorted list, verdicts, weight in memory | add, take, prune, return, time out, load | two copies of one state, cached verdicts, a limit | indexes match the database; the daemon starts again | `TxPool`, `ChainPool` |
| Block template (`blockchain.cpp`) | cached template | create, invalidate | a cache against chain and pool | a template that is handed out can be mined | `ChainPool` |
| Hard forks (`hardfork.cpp`) | version per height, vote window | add, reorganise, pop, rescan | votes that leave the window restored on pops | no version early, none late when miners vote | `HardFork` |
| Synchronisation (`cryptonote_protocol_handler.inl`, `block_queue.cpp`) | block queue, connection contexts, the add lock | hash lists, spans, adding, standby, idle, close | handlers of several connections over one queue | no hash lost, nobody stuck, the right peer pays, the node catches up | `BlockQueue`, `BlockSync` |
| Backend processes (`main.js`) | window, wallet-rpc process, shutdown flag | start, wait, kill, quit | events during awaits, two ways to quit | wallet-rpc is stopped when a window is closed; start and quit end | `BackendLifecycle` |
| Wallet session (`app.js`, `main.js`, `wallet_rpc_server.cpp`) | page state, the one open wallet, key files | create, open, restore, switch, bind a Nexus key | replies for an earlier wallet, timeouts, crashes | the page works on the wallet it names; no key is lost | `WalletSession` |
| Mining tab (`app.js`, `core_rpc_server.cpp`, `miner.cpp`) | button, timer, field, miner | start, stop, poll | overlapping ticks, late requests | an active tab is polled, a stop noticed | `MiningControl` |
| Bridge (`app.js`, `main.js`) | sessions, deposits, poll, record | request, transfer, poll | partial failure, late transfers | never pays more than asked | `BridgeIn` |
| Nexus actions (`app.js`, `main.js`) | jobs, nonces, balances | stake, unstake, claim, release, buy back, burn, register, gas | concurrent clicks on one account | approvals not mixed, no nonce gap, completed is done | `NexusActions` |

The desktop wallet talks to the daemon and to wallet-rpc over JSON-RPC, to the bridge service over HTTP and to a Nexus node
over its RPC. Its page is single threaded and awaits every call; nothing serialises two clicks. In the node the chain and the
pool work under one pair of locks, so an operation of them is one action, and the chain tells the pool of blocks added and
popped. The handlers of different connections run at the same time; they share the block queue, and whoever gets
`m_sync_lock` adds the blocks of everyone.

## Modules

| Module | State | Actions |
|---|---|---|
| `BlockWeight` | operators: `Median`, `LastN`, `EffectiveMedian`, `NextLongTermWeight` | |
| `Emission` | operators: `GetBlockReward`, the shares, `MinerOuts`, `ValidateMinerTx`, `NextGenerated` | |
| `ChainSupply` | `ledger` (block, reward, coins generated, weights as the database stores them), `median` (`m_current_block_cumul_weight_median`) | `ConnectBlock`: what `handle_block_to_main_chain` does with coins and weights; `DisconnectBlocks` |
| `WeightedChain` | operators on a chain of weights, shared by `ChainSupply` and the next two | |
| `LongTermMedian` | abstract: the chain, the chain on disk while a batch is open, the medians in force | batches, additions, pops, aborts, restarts, each with the median of the stored weights |
| `WeightCache` | the same and the cache: the block it is filed under and its window | the same actions, answered through `Request`; implements `LongTermMedian` |
| `RollingMedian` | operators: the two heaps of `rolling_median_t`, `insert` and `median` | run beside `WeightCache` in `MCWeightCache` |
| `HardFork` | blocks with version and vote, `m_hf_versions`, the vote window, the version in force; as history, the heights and versions of the alternative blocks let in so far (`admitted`) | `AddBlock`, `PopBlocks`, `Switch` (with rollback), `Restart` |
| `TxPool` | operators on the pool: `add_tx`, `prune`, `fill_block_template`, `validate`, `init` | |
| `ChainPool` | main chain, alternative and invalid blocks, stored pool, its indexes in memory, the template | `ReceiveBlocks` (a whole batch), `ReceiveTx`, `SetRelayed`, `RemoveStuck`, `pop_blocks`, `create_block_template`, `Restart` |
| `BlockQueue` | operators on a queue of spans: `reserve_span`, `add_filled`, `flush_spans`, ... | |
| `BlockSync` | the queue, the add lock, a context and a handler position per connection, what is on the wire, the core as the handler sees it | handshake, timed sync, callbacks, answers, the steps of `try_add_next_blocks`, close |
| `MiningControl` | `State.miningActive`, the timer handle, the live intervals, the read-only address field, requests in flight, the daemon's miner | clicks, tab changes, ticks; `Serve`, `Resume`, `TimeOut` for requests |
| `WalletSession` | page, wallet-rpc's open wallet, wallet files, key files, registrations, requests on the wire, replies | clicks; `WalletRpc` serves one request at a time, `MainProcess` the Nexus ones in steps, `Resume` runs a continuation |
| `BridgeIn` | sessions of `startCryLoBridgeIn`, deposits, the poll timer and its ticks, `cryloBridgePending` | request, transfer, timeout, late transfer, mint, tick, restart |
| `BackendLifecycle` | window, `startBackend`, `shuttingDown`, the handler of `window-all-closed`, processes | launch, answers and failures, spawn, exit, close, kill, quit; `MenuQuit`, which passes by the handler |
| `NexusActions` | jobs (clicks), transactions sent and mined per account, balances, one NFT, `operator.json` | click, gas check, nonce, send, wait, break off, mine, switch, restart |

A handler of the page or of Electron's main process is cut at its awaits: a continuation is one action. Amounts and names are
small sets. The modules of the desktop wallet share the wallet that is open; each takes the changes of it that
`WalletSession` allows (open, switch, none during a switch) as actions of its own, so that each can be read alone.

In the node an operation under the chain's locks is one action, from the first check to the last assignment: a batch of
blocks with every switch and rollback it causes, or a pop with the transactions it returns. `BlockSync` cuts a handler where
another connection's handler can come between: between receiving blocks and taking `m_sync_lock`, between choosing a span and
adding it, and before the request that follows. One call of `request_missing_objects` is a step.

## Runs

| Run | Question | Result |
|---|---|---|
| `chain_supply` | blocks and pops with right and wrong coinbases until the supply is used up | coins counted are coins paid, within the supply; weight costs reward; the limit holds while coins remain |
| `weight_cache` | additions, pops, aborted batches, restarts, with a window of odd and even sizes | the cache and its heaps answer as the stored chain would: `WeightCache` implements `LongTermMedian` |
| `hard_fork` | every vote, with pops, switches, rollbacks and restarts | no version is early; with the votes templates carry, none is late, and no block is lost to a rollback or a restart. Alternative blocks have the version that was voted for their height when they arrived |
| `chain_pool` | three branches, a shorter one with more work than a longer one, with conflicting and dependent transactions, loose ones, pruning, time outs, failed switches, aborted batches, templates, restarts | indexes, verdicts and template agree with chain and stored pool; only a command takes work off the chain; the daemon starts again |
| `block_sync` | two connections to peers that are level, of which one is behind, on another branch or bad, with closes and time outs | no hash is lost or put at a wrong height, the right peer pays, synchronized means caught up, and the node catches up unless a span fails |
| `sync_stranded` | does a connection that added blocks go back to download? | violated: one that finds another's span bad returns and is never looked at again |
| `mining_control` | clicks, ticks, timeouts and late requests | an active tab is always polled, and a stopped miner is noticed |
| `wallet_session` | session changes with loads in flight | while requests are answered in time and changes do not overlap, page, wallet-rpc and Nexus binding agree; the key bound is that of the wallet or of one whose name gives the same file |
| `nexus_keys` | key creation with failures, retries, timeouts, crashes | every key that is registered or shown is on disk |
| `bridge_in` | two sessions with lost answers, late transfers, switches, restarts | never more than asked, to the nearest unit; a finished session has paid all to one address; completed means the deposit polled for is minted |
| `backend_lifecycle` | two launches with crashing, slow and stubborn processes | startup ends, closing quits; a launch leaves at most one wallet-rpc, and none if its window was closed after startup had ended |
| `nexus_actions` | any two of the eleven actions at once | own approvals, no gap, completed is done, the file names registered accounts |

`sync_stranded` states the comment at `cryptonote_protocol_handler.inl:1328-1330`. The connection that holds `m_sync_lock` adds
the spans of all; when one of another connection's does not verify, it drops that connection, removes the span and returns
(1544, 1564, and 1407 for a wrong height) without asking its own peer for more. It is left synchronizing with no request and no
callback, which neither the idle timer (only connections that wait for an answer), nor the standby timer, nor a timed sync
(only normal ones) looks at. `StrandedByFailure`, which is proved, says that this is the only way to get there.

Met while modelling and excluded from the properties above, each by a named condition.

In the node:

- the genesis coinbase is counted as the schedule's reward and not as what it pays, so more than the supply can be issued
  (`EveryCoinCounted` is about the blocks above genesis);
- once the supply is used up `get_block_reward` returns before its weight check (`cryptonote_basic_impl.cpp:99`;
  `WithinLimitWhileEmitting`);
- an aborted batch (`blockchain.cpp:5030`) takes back the stored pool and the chain, but not the pool's indexes, the medians or
  the version in force (`aborted` in `ChainPool`, `stale` in `WeightCache`). The pool can then hold two loose spenders of one
  key image, against the comment at `tx_pool.cpp:479`, and the next start stops at `tx_pool.cpp:1893`;
- after `pop_blocks` an alternative block can sit on the tip, where the blocks that build on it are refused (`popped`);
- `m_txpool_weight` counts a transaction again when it moves from stem to fluff or block; the pool prunes early;
- an alternative block whose transaction is in the pool as a stem with failing inputs is refused (`Supplement`);
- honest peers that answer in time are counted against in three ways, which is why `HonestNotBlamed` names the reasons it
  excludes: a peer that is behind, or on another branch, can be made to ask for another connection's span, which it does not
  have (`should_download_next_span`); the hashes of an answer can be added by another connection between request and answer, so
  that an unknown hash is followed by known ones; and a span filled after its reservation was flushed leaves no record of its
  hashes, so that the first hash of the next chain request is unknown when the answer comes. The last two need four heights
  and lists of four hashes with peers that agree;
- `have_block` also says yes to invalid blocks, so a bad peer's height does not keep a node from saying it is synchronized
  (`CaughtUp` is about peers with valid chains).

In the desktop wallet:

- a create form that is done still reacts to Enter and closes the wallet behind the continue button, and a request that times
  out may still be served and change the open wallet (`orderly` in `WalletSession`);
- a Nexus address that arrives after a switch is shown for the wallet now open; two wallet names that become one file name
  (`my-wallet` and `my_wallet`; `main.js:348-350`, `379`) share one Nexus key, bound to the address of the first: two of the names
  of `wallet_session` do, and `BoundAsAsked` says which wallets a key may be bound to;
- the address field of the mining tab keeps the earlier wallet's address after a switch (`app.js:1068`);
- a window closed while `get_info` is under way leaves the wallet-rpc that is spawned afterwards (`ended` in
  `BackendLifecycle`), and Quit in the menu (`main.js:1238`) closes the windows without `window-all-closed`, so that nothing is
  stopped (`MenuQuit`): `EndedStopsWalletRpc` then says only that a single wallet-rpc is left;
- a failed buyback is reported as completed (`Failed` in `NexusActions`);
- of several deposits the bridge polls for the first only (`app.js:1628`), and a late poll of one session clears the timer of
  the next, so `CompletedIsMinted` is about the first deposit of some finished session.

## Bounds

- `chain_supply`: three linear blocks, a supply that runs out on the fourth, seven blocks. All phases of the reward happen:
  linear, floor, cut by the cap, none. Weights lie below, between and above the median and its double. Basis points are out of
  400, which gives the floors of the real ones. Naturals are faithful to the widths of the code: all sums of the node stay
  below 2^64 because the supply does; the product with the penalty is 128 bits wide; the others are 64 bits wide and fit, that
  of the linear decrease because it is at most 2.3e11 * 3.7e6, those with the basis points of a fund (at most 75) as long as
  reward and fees of one block are below 2.4 million coins, about half of the supply, and that of two weights as long as each
  is below 2^32.
- `weight_cache`: a window of five blocks and six blocks of two weights: it fills, slides, shrinks under pops and is rebuilt.
- `hard_fork`: a window of three, three versions that begin at heights 0, 2 and 3, five blocks; a switch takes away and brings up
  to two blocks (`MaxReorg`), so that votes leave the window, come back and decide a version. The version of an alternative block
  is the voted one for its height (`check_for_height`) in some state so far, since blocks let in earlier stay; it can be below the
  version its height would have by the table.
- `chain_pool`: seven blocks above genesis on three branches, each with its cumulative difficulty, of which a branch of two
  blocks outweighs one of three and one of four outweighs all and ends in a bad block; three transactions, two of which spend
  one key image and one of which spends the other's output; room for two in the pool, a count of up to four; one transaction
  that times out. After an aborted batch one state is looked at.
- `block_sync`: two connections, five heights, spans of two blocks, hash lists of four, a queue that is full with one span, one
  pending callback a timer may add to. Two faults (a close or a time out) when one peer is behind, one otherwise. A connection's
  identifier is used again once the queue holds nothing of it, in place of a fresh one. Peers' chains do not grow.
- `mining_control`: three requests in flight and two intervals, enough for a start, a stop and a tick to overlap.
- `wallet_session`: three names, two of which lead to one key file, two addresses, two requests; disorderly sessions are cut
  off by a state constraint, since the properties say nothing of them before the next restart. `SessionAgrees` is about orderly
  sessions: requests are answered in time and a change begins after the last one ended. `BoundAsAsked` needs `inTurn`: orderly
  so far, and no wallet created, opened or restored while an address that a Nexus key is to be bound to was being fetched.
- `nexus_keys`: one name, two keys, two requests, so that a retry meets its own earlier attempt.
- `bridge_in`: chunks of four units, a limit of three chunks, amounts in tenths of a unit, so that `toFixed` rounds: one below
  half a unit, of one chunk, of two, of two with a tail too small to be printed without an exponent, and above the limit; three
  payments shared by two sessions.
- `backend_lifecycle`: two launches, so that a leftover process meets the next one; three attempts per wait.
- `nexus_actions`: two clicks, two wallets, one unit of each balance, which makes the second of two actions fail.

Symmetry is used for wallets, names, sessions and clicks, which no definition tells apart, and not with liveness.

## Fairness

`mining_control`: intervals fire, and a request is answered or times out (`rpcCall` and `daemonHttp` set a timeout). Strong
fairness of the tick only makes up for the bounded slots. `backend_lifecycle`: timers fire and requests end; nothing is
assumed of the processes, the daemon or the user. `block_sync`: a handler that can run does (weak: `Pending`, `Handled`), what
is queued on a connection is handled in turn (strong: `Answerable`, `Answered`, since callbacks come between), timers fire
(weak: `Due`, `Timer`); peers may fail to answer in time only as often as the bound on faults says. The conditions under which
these steps are enabled are written out. That a transaction sent to Nexus can be mined is stated as the absence of
nonce gaps, without fairness.

## What is proved

The theorems hold for every value of the constants that meets the assumptions named in the modules: `SupplyAssumption`,
`FeeAssumption` and `VersionAssumption` (`Emission`), `WeightAssumption`, `ChainAssumption`, `WeightedChainAssumption`,
`ForksAssumption`, `TxAssumption` (`TxPool`), `BlocksAssumption` and `WorkAssumption` (`ChainPool`), `TreeAssumption` and
`ConnectionAssumption` (`BlockSync`), `SessionBounds`, `BackendBounds`, `MiningBounds`, `BridgeBounds`, `NexusBounds`. They are
types, positive sizes, and `None` (`Nil` in `NexusActions`) not being a value; `ForksAssumption` says that forks are listed by
version and height, `TreeAssumption` and `BlocksAssumption` that a block is one above its predecessor, `WorkAssumption` that it
adds work, `TxAssumption` that a transaction spends a key image once and that the orders by fee and by hash list every
transaction once. TLC evaluates each of them.

| Module | Theorem | States |
|---|---|---|
| `SupplyProofs` | `TypeCorrect` | the types of the chain's records |
| | `SupplyBounded`, `CoinsCounted`, `WeightCostsReward`, `LimitHoldsWhileEmitting` | the invariants of `chain_supply` |
| | `PenaltyIsStrict` | the assertion of `get_block_reward`, for every median and weight |
| | `OwnCoinbaseAccepted` | a node's own coinbase passes its validation exactly when every fund gets a unit |
| | `CacheImplementsMedian` | the refinement: `WeightCache` implements `LongTermMedian` |
| | `CacheFiledRight`, `EstimateReadsTip`, `LimitsOfTheChain` | cache, estimate and limits are those of the stored chain |
| `HardForkProofs` | `NoForkIsEarly`, `StoredVersionsAreChecked` | for every table of forks and all votes, alternative blocks of voted versions below the table's included |
| | `ForksAreOnSchedule`, `NoBlockIsLost` | with the votes templates carry, when one vote decides |
| `ChainPoolProofs` | `IndexesAlwaysMatch`, `CanAlwaysStart` | the pool in memory is the pool on disk, and what is on disk loads, unless a batch was aborted |
| | `ChainStaysValid`, `VerdictsStayRight`, `TemplatesStayMinable` | chain, cached verdicts and template, aborted batches included |
| | `AlternativesStayLow`, `ChainNeverLighter` | no alternative waits on the tip; only a command takes work off the chain |
| `BlockSyncLemmas` | `RequestsAreCovered`, `OnlyFailureStrands` | shapes: no hash is lost, nobody is stuck unless a span failed |
| `BlockSyncProofs` | `SpansAreServed`, `HonestPeersNotBlamed`, `HeightsAreRight`, `SynchronizedMeansCaughtUp` | data: blocks, heights, blame, the target |
| `WalletProofs` | `KeysSafe`, `KeyFilesStay` | no known key without its file, no file changed |
| | `SessionsAgree`, `KeysBoundAsAsked` | the invariants of `wallet_session`, whatever names share a file |
| | `NoncesHaveNoGap`, `ApprovalsAreOwn`, `CompletedWasDone`, `ConfigWasRegistered` | the invariants of `nexus_actions` |
| | `WalletRpcIsStopped` | the safety of `backend_lifecycle` |
| `ElectronProofs` | `BridgeNeverOverpays`, `BridgeDoneIsWhole`, `BridgeCompletedIsMinted` | the invariants of `bridge_in` |
| | `MiningIsPolled` | the safety of `mining_control` |

Proofs too long for one module are in two: `BlockSyncLemmas` and `ChainPoolLemmas` hold what is shown of the single operations.
`SupplyProofs` begins with the lemmas on medians that both its halves rest on. None of the invariants is inductive alone.

*Supply.* That a block is within its limit is a statement about the median of the blocks below it, while `ConnectBlock`
compares with the stored `median`; so `IInv` adds that `median` is that of the chain, bounds the height, and says of each block
that it is `Sound` for the prefix below it. `Sound` depends only on that prefix, which neither `ConnectBlock` nor
`DisconnectBlocks` changes; for the new block it follows from `AcceptedReward`, which draws on `GetBlockRewardBounds`,
`PenaltyIsStrict` and `NextGeneratedIsSum`. The arithmetic core is that two roundings down of a product stay below the base
reward as soon as the weight exceeds the median.

*Weights.* The refinement rests on `RequestRight`: from a cache whose contents belong to the block it is filed under, a request
yields the window at the tip, by a hit, a shift or a refill. That the cache stays filed right is inductive even when its block
was popped or its batch aborted, because a block stands for the chain below it.

*Hard forks.* The code counts votes step by step over a sliding window. The proof replaces the count by a closed form, the
votes of the last `WINDOW` blocks of the chain, and shows that adding a block, popping one and rescanning all lead from the
closed form to the closed form. `ForkInv` adds that the fork in force is the one the votes chose and that stored versions
belong to their blocks. For the schedule, `OneVote` (each threshold is met by one vote, as in the tables of `hardforks.cpp`)
and votes for the last fork only make every vote decide at once; without them a fork may come late, which the models show and
the theorems exclude.

*Chain and pool.* `IInv` says of the database (`Stored`) that the main chain is one of the tree whose blocks were each valid on
the chain below, that no transaction is both mined and in the pool, and that a mark of failure is right about the chain to the
block it names; of memory that the verdicts of `m_input_cache` are right about the chain as it is (`CacheRight`), that a
template for the tip could be mined (`TemplateRight`), and, unless a batch was aborted, that key images, sorted list and weight
are those of the stored pool (`Indexed`); and that alternatives are off the main chain (`Beside`) and, unless blocks were
popped by command, of no more work than its tip (`Low`). An operation is a loop over transactions or blocks, often a loop of
loops with an early way out: a batch that switches, fails on the third block and rolls back. Each loop is a recursive function
of the number of rounds, and `FoldExists` carries an invariant of the round through it (`PruneIs`, `ReturnIs`, `GatherIs`,
`ConnectAllIs`, ...). Two steps need more than an invariant. A rollback must find every transaction of the blocks it puts back:
`Keeps` says that a transaction which was mined, or in the pool by a block (`Has`), still is, whatever the failed switch did,
and such a one is neither pruned nor refused. And connecting a block reads the pool while it empties it, so `Gathers` says
after each round which transactions were taken, that they are those of the block up to there, and that they do not conflict.
What the indexes are after a step is `Inserted` and `Removed`: a key image is listed under exactly its spenders in the pool.
`NeverLighter` follows from what a switch returns (`Switches`): a chain with more work, or the one there was.

*Synchronisation, shapes.* Every lemma on an operation of the queue takes a covered queue to a covered queue; between the halves
of `add_blocks` the hashes of the new span are the exception, which `CoveredBut` carries. `Sound` says what each way out of
`request_missing_objects` leaves behind: a request, a parked state, or a dropped connection. `IInv` says so of every connection
whose handler is not running.

*Synchronisation, data.* `DInv` is added on top. `QueueRight`: the blocks and the hashes of a span are a run of one branch from
its height, the blocks those of its connection's peer, and a hash counts as downloaded at its own height. `Conns`: the hashes a
connection still needs are a run that ends at `m_last_response_height`, and a request on the wire is the one the context expects,
no higher than the height noted for it (`Awaits`, `Bounded`), so no answer is unasked for. `Locks`: only the holder of the lock is
between choosing a span and adding it, so the span is still there. `Targets`: the target is no lower than an honest peer the node
has not caught up with, through the lowering on close. `Blames` is then what the drops in each handler add. Chains of the tree are
recursive functions; what they hold is proved by induction over heights (`ChainIs`).

*Keys and sessions.* `KeyInv` also says of every key on its way, in a registration or in a reply the page has not taken yet, that
its file is written, and that requests name wallets the user typed. A new file is only written where there was none, so the
keys on disk only grow. `OrderInv` says what an orderly session has on the wire and in the inbox at each point of a change, since
`SessionAgrees` is about the moment after the last reply; `TurnInv` that a request to bind which names a wallet carries its
address, and that a key file carries the address of a wallet whose name leads to it.

*Bridge.* A session's payments are a split of the amount entered, rounded, so what is sent is a partial sum of it; `IInv`
relates the step a session is at, its deposits and the transfers given up or late. The sums are recursive functions over
payments.

*Desktop processes, mining, Nexus.* `BackendInv`: a launch has at most one living wallet-rpc, the one `walletProc` refers to.
`MiningInv`: the interval the page knows is set, and a start under way has one of the bounded intervals set aside. The
invariant of `NexusActions` says of each account that every nonce up to one a handler holds is mined or waits in the pool
(`Reached`), and of each handler, at the stage it is at, what the chain has of its click: its approval right below the nonce it
is to use, what it waits for, and what it reports.

Induction is by a lemma for sets (`Induction`: a set that holds 0 and with `n` also `n + 1` holds every natural), proved from
well-foundedness, since the library's rules with a predicate parameter are out of the provers' reach. With it the recursive
functions of the models are shown to have the values their equations say.

Only model-checked:

- `HeapAgrees`, the heaps of `RollingMedian` against the sorted window: recursive operators again (the refinement proof is about
  the window itself);
- liveness (`Synchronises`, `StopIsNoticed`, `StartupEnds`, `CloseQuits`): out of the prover's reach, and so is `ENABLED`;
- the violation of `sync_stranded`.

## What is not modelled

- Cryptography, proof of work, serialisation, LMDB, sockets, the command line tools: what they accept or deliver is an input of
  the models. Difficulty needs wide arithmetic over many blocks; scaled down it would round differently.
- `BlockSync` takes every block to add the same work, so that `add_new_block` switches to the longer chain; `ChainPool` compares
  the work of each. When a peer closes is an input.
- Of the protocol handler: pruned peers, incoming connections, fluffy blocks and transaction messages; of the relay, the choice
  of peers and the random delays. The peer lists of `p2p`.
- The wallet library: its refresh and balance depend on outputs and keys of every block. Multisig and the message store are
  inherited unchanged and not used by the desktop wallet.
- The bridge service, the contracts and the Nexus node are external; they are modelled from how the desktop wallet uses them.
  The views and plain sends of the desktop wallet show the reply of one call.
- `translations`: some 288,000 lines of message catalogues, by far the largest part of the repository, are data without
  behaviour. The share of the repository's lines that the modules stand for is small for that reason.
