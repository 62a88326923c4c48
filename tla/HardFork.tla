------------------------------ MODULE HardFork ------------------------------
(***************************************************************************)
(* HardFork (cryptonote_basic/hardfork.cpp): the version in force is       *)
(* raised by the votes in a window of the last blocks, stored per height   *)
(* in the database, and repaired when blocks are popped, a chain switch    *)
(* succeeds or is rolled back, and the daemon restarts.  A block is its    *)
(* major version and its vote (minor version); block heights count from 0, *)
(* so the block at height h is chain[h + 1].  Everything here runs under   *)
(* m_blockchain_lock, so an operation of Blockchain is one action.         *)
(***************************************************************************)
EXTENDS Integers, Sequences, FiniteSetsExt

CONSTANTS
  Forks,       \* heights: sequence of [version, height, threshold]
  WINDOW,      \* window_size
  Votes,       \* the votes blocks carry
  MaxHeight,   \* bound on the height of the chain
  MaxReorg     \* bound on the blocks a switch takes away and brings

(* What add_fork accepts. *)
ASSUME ForksAssumption ==
  /\ WINDOW \in Nat /\ WINDOW > 0
  /\ Votes \subseteq Nat /\ MaxHeight \in Nat /\ MaxHeight > 0
  /\ MaxReorg \in Nat
  /\ Forks \in Seq([version : Nat, height : Nat, threshold : 0 .. 100])
  /\ Len(Forks) > 0 /\ Forks[1].height = 0
  /\ \A n \in 1 .. Len(Forks) - 1 :
       /\ Forks[n].version < Forks[n + 1].version
       /\ Forks[n].height < Forks[n + 1].height

VARIABLES
  chain,      \* the blocks of the database
  stored,     \* m_hf_versions: the version stored for a height, kept by a pop
  window,     \* versions
  index,      \* current_fork_index, from 1
  admitted,   \* history: [height, version] of the alternative blocks let in so far
  unanimous,  \* history: every block seen after genesis voted for the last fork
  last        \* history: what the last operation was

vars == <<chain, stored, window, index, admitted, unanimous, last>>

Versions == {Forks[n].version : n \in 1 .. Len(Forks)}
LastVersion == Forks[Len(Forks)].version
Genesis == [version |-> Forks[1].version, vote |-> Forks[1].version]
NotStored == 0

(* The state the operations below hand on. *)
State == [chain |-> chain, stored |-> stored, window |-> window, index |-> index]

Becomes(s) ==
  /\ chain' = s.chain
  /\ stored' = s.stored
  /\ window' = s.window
  /\ index' = s.index

-----------------------------------------------------------------------------
(* get_effective_version of a block's vote *)
EffectiveVote(b) == Min({b.vote, LastVersion})

(* last_versions, summed from the last fork down to fork n *)
VotesFor(w, n) ==
  LET later == {Forks[k].version : k \in n .. Len(Forks)}
  IN Cardinality({i \in 1 .. Len(w) : w[i] \in later})

Threshold(n) == (WINDOW * Forks[n].threshold + 99) \div 100

get_voted_fork_index(s, height) ==
  LET voted == {n \in 1 .. Len(Forks) :
                  height >= Forks[n].height /\ VotesFor(s.window, n) >= Threshold(n)}
  IN IF voted = {} THEN s.index ELSE Max(voted)

(* The last fork whose height was reached, votes aside. *)
ForkAt(height) == Max({n \in 1 .. Len(Forks) : n = 1 \/ height >= Forks[n].height})

get_ideal_version(height) == Forks[ForkAt(height)].version

(* get_current_version: what the next block has to be *)
CurrentVersion == Forks[index].version

Raise(s, height) ==
  [s EXCEPT !.index = Max({@, get_voted_fork_index(s, height)})]

do_check(s, b) ==
  /\ b.version = Forks[s.index].version
  /\ b.vote >= Forks[s.index].version

(* check_for_height: what an alternative block of a height has to be, by   *)
(* the votes in the window of the main chain when it arrives.              *)
check_for_height(s, height) ==
  [height |-> height, version |-> Forks[get_voted_fork_index(s, height)].version]

(* The alternative blocks that are let in at s. *)
LetIn(s) == {check_for_height(s, h) : h \in 1 .. MaxHeight - 1}

(* A vote enters the window and the oldest ones make room for it. *)
Slide(w, v) == Append(SubSeq(w, Max({1, Len(w) - WINDOW + 2}), Len(w)), v)

(* Mutant: the version that the block's own vote brings is stored for it. *)
AddStoringNext(s, b, height) ==
  IF ~ do_check(s, b) THEN s
  ELSE LET r == Raise([s EXCEPT !.window = Slide(@, EffectiveVote(b))], height + 1)
       IN [r EXCEPT !.stored[height] = Forks[r.index].version]

(* add; what it returns is do_check. *)
add(s, b, height) ==
  IF ~ do_check(s, b) THEN s
  ELSE Raise([s EXCEPT
                !.stored[height] = Forks[s.index].version,
                !.window = Slide(@, EffectiveVote(b))], height + 1)

VotesOfBlocks(c, from, to) == [i \in 1 .. to - from + 1 |-> EffectiveVote(c[from + i])]

(* add for every block above height, whatever it returns. *)
AddAbove(s, height) ==
  LET above == Len(s.chain) - 1 - height
      added[n \in 0 .. above] ==
        IF n = 0 THEN s ELSE add(added[n - 1], s.chain[height + n + 1], height + n)
  IN added[above]

(* Mutant: the votes counted again do not raise the version. *)
ReorganizeUnraised(s, height) ==
  LET from == Max({height - (WINDOW - 1), 0})
      start == IF height = 0 THEN Forks[1].version ELSE s.stored[height]
      lowered == Max({n \in 1 .. s.index : n = 1 \/ Forks[n].version <= start})
  IN AddAbove([s EXCEPT !.window = VotesOfBlocks(s.chain, from, height),
                        !.index = lowered], height)

reorganize_from_block_height(s, height) ==
  LET from == Max({height - (WINDOW - 1), 0})
      start == IF height = 0 THEN Forks[1].version ELSE s.stored[height]
      lowered == Max({n \in 1 .. s.index : n = 1 \/ Forks[n].version <= start})
      counted == [s EXCEPT !.window = VotesOfBlocks(s.chain, from, height),
                           !.index = lowered]
  IN AddAbove(Raise(counted, height + 1), height)

(* init, by rescan_from_block_height: count the votes of the last blocks   *)
(* and start from the version stored for the tip.                          *)
rescan(s) ==
  LET tip == Len(s.chain) - 1
      from == Max({Len(s.chain) - WINDOW, 0})
      known == {n \in 1 .. Len(Forks) : Forks[n].version = s.stored[tip]}
  IN Raise([s EXCEPT !.window = VotesOfBlocks(s.chain, from, tip),
                     !.index = IF known = {} THEN Len(Forks) ELSE Min(known)],
           Len(s.chain))

(* The versions stored for the blocks above height. *)
StoredAbove(s, height) == [i \in 1 .. Len(s.chain) - height |-> s.stored[height + i - 1]]

(* Mutant: the version in force stays when a block is popped. *)
PopKeepingIndex(s, height) ==
  [s EXCEPT !.chain = SubSeq(@, 1, height),
            !.window = SubSeq(StoredAbove(s, height) \o @, 1, Len(@))]

(* pop_block_from_blockchain with on_block_popped(1) until height blocks   *)
(* are left: for each, the newest vote leaves the window and the version   *)
(* stored for the height enters it as the oldest.                          *)
PopTo(s, height) ==
  IF height = Len(s.chain) THEN s
  ELSE [s EXCEPT !.chain = SubSeq(@, 1, height),
                 !.window = SubSeq(StoredAbove(s, height) \o @, 1, Len(@)),
                 !.index = ForkAt(height)]

(* handle_block_to_main_chain for the versions: the block is checked,      *)
(* stored and then added to the window.                                    *)
Connect(s, b) ==
  add([s EXCEPT !.chain = Append(@, b)], b, Len(s.chain))

(* One block after r, unless one before it was refused. *)
ConnectNext(r, b) ==
  IF r.ok /\ do_check(r.state, b) THEN [ok |-> TRUE, state |-> Connect(r.state, b)]
  ELSE [ok |-> FALSE, state |-> r.state]

(* Blocks are connected in order until one is refused. *)
ConnectAll(s, blocks) ==
  LET after[n \in 0 .. Len(blocks)] ==
        IF n = 0 THEN [ok |-> TRUE, state |-> s]
        ELSE ConnectNext(after[n - 1], blocks[n])
  IN after[Len(blocks)]

rollback_blockchain_switching(s, original, split) ==
  LET back == ConnectAll(reorganize_from_block_height(PopTo(s, split), split - 1),
                         original)
  IN IF back.ok THEN reorganize_from_block_height(back.state, split - 1)
     ELSE back.state

(* The alternative chain is the given blocks and, unless they are all of   *)
(* it, a block that is refused.  The blocks it replaces become             *)
(* alternatives, checked before the votes are counted again.               *)
switch_to_alternative_blockchain(s, split, blocks, all) ==
  LET original == SubSeq(s.chain, split + 1, Len(s.chain))
      r == ConnectAll(PopTo(s, split), blocks)
  IN IF r.ok /\ all
     THEN [ok |-> TRUE, letin |-> LetIn(r.state),
           state |-> reorganize_from_block_height(r.state, split - 1)]
     ELSE [ok |-> FALSE, letin |-> {},
           state |-> rollback_blockchain_switching(r.state, original, split)]

(* Mutant: a block is compared with the version of the height above it. *)
KeptByNextHeight(s) ==
  Max({h \in 1 .. Len(s.chain) :
         /\ \/ h = 1
            \/ s.chain[h].version = get_ideal_version(h)
         /\ \A k \in h + 1 .. Len(s.chain) :
              s.chain[k].version # get_ideal_version(k)})

(* The blocks at the top that Blockchain::init pops: their version is not  *)
(* the ideal one of their height.  m_hardfork hears of it once, at the end.*)
KeptAtInit(s) ==
  Max({h \in 1 .. Len(s.chain) :
         /\ \/ h = 1
            \/ s.chain[h].version = get_ideal_version(h - 1)
         /\ \A k \in h + 1 .. Len(s.chain) :
              s.chain[k].version # get_ideal_version(k - 1)})

Start(s) ==
  LET kept == KeptAtInit(s)
      scanned == rescan(s)
  IN IF kept = Len(s.chain) THEN scanned
     ELSE reorganize_from_block_height(
            [scanned EXCEPT !.chain = SubSeq(@, 1, kept)], kept - 1)

-----------------------------------------------------------------------------
Blocks == [version : Versions, vote : Votes]
AllForLast(blocks) == \A i \in DOMAIN blocks : blocks[i].vote >= LastVersion

(* reset_and_set_genesis_block *)
Init ==
  LET s == Connect([chain |-> <<>>, window |-> <<>>, index |-> 1,
                    stored |-> [h \in 0 .. MaxHeight - 1 |-> NotStored]], Genesis)
  IN /\ chain = s.chain
     /\ stored = s.stored
     /\ window = s.window
     /\ index = s.index
     /\ admitted = {}
     /\ unanimous = TRUE
     /\ last = "start"

(* The alternatives that can be on record: let in before or at this state. *)
Alternatives == admitted \cup LetIn(State)

AddBlock ==
  /\ Len(chain) < MaxHeight
  /\ \E b \in Blocks :
       /\ do_check(State, b)
       /\ Becomes(Connect(State, b))
       /\ unanimous' = (unanimous /\ AllForLast(<<b>>))
  /\ admitted' = Alternatives
  /\ last' = "add"

PopBlocks ==
  /\ \E height \in 1 .. Len(chain) - 1 : Becomes(PopTo(State, height))
  /\ admitted' = Alternatives
  /\ last' = "pop"
  /\ UNCHANGED unanimous

(* The alternative blocks above split, up to the first one that is refused *)
(* when it is connected; if all are given, the last one arrives now.       *)
AltBlocks(split, n, all, known) ==
  {blocks \in [1 .. n -> Blocks] :
     /\ \A i \in 1 .. n :
          /\ blocks[i].vote >= blocks[i].version
          /\ [height |-> split + i - 1, version |-> blocks[i].version] \in known
     /\ all => check_for_height(State, split + n - 1).version = blocks[n].version}

(* An alternative chain of more work replaces the blocks above split; work *)
(* is not length, so it may have fewer blocks than it replaces, or more.   *)
Switch ==
  LET known == Alternatives
  IN \E split \in Max({1, Len(chain) - MaxReorg}) .. Len(chain) - 1 :
     \E n \in 0 .. Min({MaxReorg, MaxHeight - split}) :
     \E all \in {n > 0, FALSE} : \E blocks \in AltBlocks(split, n, all, known) :
       LET r == switch_to_alternative_blockchain(State, split, blocks, all)
       IN /\ Becomes(r.state)
          /\ admitted' = known \cup r.letin
          /\ last' = IF r.ok THEN "switch" ELSE "rollback"
          /\ unanimous' = (unanimous /\ AllForLast(blocks))

(* Alternatives are dropped at a start, unless --keep-alt-blocks is given. *)
Restart ==
  /\ Becomes(Start(State))
  /\ \E keep_alt_blocks \in BOOLEAN :
       admitted' = IF keep_alt_blocks THEN Alternatives ELSE {}
  /\ last' = "start"
  /\ UNCHANGED unanimous

Next == AddBlock \/ PopBlocks \/ Switch \/ Restart

Spec == Init /\ [][Next]_vars

-----------------------------------------------------------------------------
(* Whatever the blocks vote and however the chain was popped, switched or  *)
(* rescanned, no version is in force before the height hardforks.cpp gives *)
(* it, neither for the next block nor for one on the chain.                *)
NeverEarly ==
  /\ CurrentVersion <= get_ideal_version(Len(chain))
  /\ \A h \in 1 .. Len(chain) : chain[h].version <= get_ideal_version(h - 1)

(* The version stored for a height is the version of its block, so what    *)
(* HardFork::get answers for a past block is what the block was checked    *)
(* against.                                                                *)
StoredIsChecked == \A h \in 1 .. Len(chain) : stored[h - 1] = chain[h].version

(* When every miner votes as create_block_template does, every version     *)
(* takes force at its own height and the version in force is the one       *)
(* templates are made with, after any sequence of pops, switches,          *)
(* rollbacks and restarts.                                                 *)
OnSchedule == unanimous => CurrentVersion = get_ideal_version(Len(chain))

(* When every miner votes as create_block_template does, a failed switch   *)
(* gives back all of the original chain (the rollback never reaches its    *)
(* PANIC return) and a restart pops nothing.                               *)
ChainGivenBack ==
  [][unanimous' /\ last' \in {"rollback", "start"} => chain' = chain]_vars
=============================================================================
