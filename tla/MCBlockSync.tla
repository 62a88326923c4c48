---------------------------- MODULE MCBlockSync -----------------------------
(* The TLC instance of BlockSync: the chain g, m1 .. m4, another valid block *)
(* v2 and one that does not verify, w2, at height 2.  The second peer is     *)
(* level with the first, behind it, on another branch, or on a bad chain.    *)
EXTENDS BlockSync

CONSTANTS a, b

MCTree ==
  [g  |-> [prev |-> "none", height |-> 0], m1 |-> [prev |-> "g", height |-> 1],
   m2 |-> [prev |-> "m1", height |-> 2],   m3 |-> [prev |-> "m2", height |-> 3],
   m4 |-> [prev |-> "m3", height |-> 4],
   v2 |-> [prev |-> "m1", height |-> 2],   w2 |-> [prev |-> "m1", height |-> 2]]

Tops(s, t, n) == [top |-> [c \in Conn |-> IF c = a THEN s ELSE t], faults |-> n]
MCPeers == {Tops("m3", "m2", 2), Tops("m4", "m4", 1), Tops("m3", "v2", 1), Tops("m3", "w2", 1)}
=============================================================================
