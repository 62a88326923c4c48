--------------------------- MODULE RollingMedian ----------------------------
(***************************************************************************)
(* epee::misc_utils::rolling_median_t: the last N values in a circular     *)
(* queue and, over it, a heap of queue positions whose index 0 is the      *)
(* middle, with the larger values under the positive indices and the       *)
(* smaller ones under the negative indices.  side is 1 for the heap of     *)
(* larger values (minheap in the code) and -1 for the other.               *)
(***************************************************************************)
EXTENDS Integers

CONSTANTS
  N,             \* capacity
  Unwritten      \* what data holds before its first write: never compared

Below(i) == IF i >= 0 THEN i \div 2 ELSE -((-i) \div 2)   \* i / 2 in C++
Count(m, side) == IF side = 1 THEN m.minCt ELSE m.maxCt
Room(side) == IF side = 1 THEN (N - 1) \div 2 ELSE N \div 2

InitialPos(n) == ((n + 1) \div 2) * (IF n % 2 = 1 THEN -1 ELSE 1)

Clear(data) ==
  [data |-> data,
   pos |-> [n \in 0..(N - 1) |-> InitialPos(n)],
   heap |-> [p \in {InitialPos(n) : n \in 0..(N - 1)} |->
               CHOOSE n \in 0..(N - 1) : InitialPos(n) = p],
   idx |-> 0, minCt |-> 0, maxCt |-> 0, sz |-> 0]

New == Clear([n \in 0..(N - 1) |-> Unwritten])

mmless(m, i, j) == m.data[m.heap[i]] < m.data[m.heap[j]]

mmexchange(m, i, j) ==
  LET h == [m.heap EXCEPT ![i] = m.heap[j], ![j] = m.heap[i]]
  IN  [m EXCEPT !.heap = h, !.pos = [@ EXCEPT ![h[i]] = i, ![h[j]] = j]]

(* On this side, i holds a value that belongs nearer the middle than j's. *)
Nearer(m, side, i, j) == IF side = 1 THEN mmless(m, i, j) ELSE mmless(m, j, i)

(* minSortDown, maxSortDown *)
RECURSIVE SortDown(_, _, _)
SortDown(m, side, i) ==
  LET first == 2 * i
      child == IF side * first < Count(m, side) /\ Nearer(m, side, first + side, first)
               THEN first + side ELSE first
  IN  IF side * first <= Count(m, side) /\ Nearer(m, side, child, Below(child))
      THEN SortDown(mmexchange(m, child, Below(child)), side, child)
      ELSE m

(* minSortUp, maxSortUp: the heap and the index the value came to rest at. *)
RECURSIVE SortUp(_, _, _)
SortUp(m, side, i) ==
  IF side * i > 0 /\ Nearer(m, side, i, Below(i))
  THEN SortUp(mmexchange(m, i, Below(i)), side, Below(i))
  ELSE [m |-> m, at |-> i]

(* The value just written is on this side, at p. *)
SettleSide(m, side, p) ==
  LET up == SortUp(m, side, p)
  IN  IF /\ up.at = 0
         /\ side = 1 \/ m.minCt > 0
         /\ Nearer(up.m, -side, -side, 0)
      THEN SortDown(mmexchange(up.m, -side, 0), -side, -side)
      ELSE up.m

(* The value just written is in the middle. *)
SettleMiddle(m) ==
  LET Pull(x, side) ==
        LET up == SortUp(x, side, side)
        IN  IF Count(x, side) = 0 THEN x
            ELSE IF up.at = 0 THEN SortDown(up.m, side, side) ELSE up.m
  IN  Pull(Pull(m, -1), 1)

(* Mutant: a replaced value is only ever moved towards the middle. *)
InsertUpOnly(m, v) ==
  LET p       == m.pos[m.idx]
      side    == IF p > 0 THEN 1 ELSE -1
      growing == p # 0 /\ Count(m, side) < Room(side)
      written == [m EXCEPT !.data[m.idx] = v,
                           !.idx = (@ + 1) % N,
                           !.sz = IF @ < N THEN @ + 1 ELSE N,
                           !.minCt = IF growing /\ side = 1 THEN @ + 1 ELSE @,
                           !.maxCt = IF growing /\ side = -1 THEN @ + 1 ELSE @]
  IN  IF p = 0 THEN SettleMiddle(written) ELSE SettleSide(written, side, p)

insert(m, v) ==
  LET p       == m.pos[m.idx]
      old     == m.data[m.idx]
      side    == IF p > 0 THEN 1 ELSE -1
      growing == p # 0 /\ Count(m, side) < Room(side)
      written == [m EXCEPT !.data[m.idx] = v,
                           !.idx = (@ + 1) % N,
                           !.sz = IF @ < N THEN @ + 1 ELSE N,
                           !.minCt = IF growing /\ side = 1 THEN @ + 1 ELSE @,
                           !.maxCt = IF growing /\ side = -1 THEN @ + 1 ELSE @]
  IN  IF p = 0 THEN SettleMiddle(written)
      ELSE IF ~growing /\ side * v > side * old THEN SortDown(written, side, p)
      ELSE SettleSide(written, side, p)

median(m) ==
  LET v == m.data[m.heap[0]]
  IN  IF m.minCt < m.maxCt THEN (v + m.data[m.heap[-1]]) \div 2 ELSE v

(* The values held, oldest first. *)
Contents(m) == [k \in 1..m.sz |-> m.data[(m.idx - m.sz + k - 1) % N]]
=============================================================================
