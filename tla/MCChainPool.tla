---------------------------- MODULE MCChainPool -----------------------------
EXTENDS ChainPool

Node(prev, height, work, txs, badMiner) ==
  [prev |-> prev, height |-> height, work |-> work, txs |-> txs, badMiner |-> badMiner]

(* Two branches.  t1 and t2 spend the same key image and t3 spends an      *)
(* output of t1, so b2 has wrong inputs on b1; c4 has a wrong miner        *)
(* transaction.  a2 has more work than the longer chain up to c3.          *)
MCTree ==
  [g  |-> Node("none", 0, 1, <<>>, FALSE),
   a1 |-> Node("g", 1, 2, <<"t1">>, FALSE),
   a2 |-> Node("a1", 2, 5, <<"t3">>, FALSE),
   b1 |-> Node("g", 1, 2, <<"t2">>, FALSE),
   b2 |-> Node("b1", 2, 3, <<"t1">>, FALSE),
   c2 |-> Node("b1", 2, 3, <<>>, FALSE),
   c3 |-> Node("c2", 3, 4, <<>>, FALSE),
   c4 |-> Node("c3", 4, 6, <<>>, TRUE)]

MCSpends == [t1 |-> <<"k1">>, t2 |-> <<"k2", "k1">>, t3 |-> <<"k3">>]
MCNeeds == [t1 |-> {}, t2 |-> {}, t3 |-> {"t1"}]
MCFeeOrder == <<"t3", "t1", "t2">>
MCHashOrder == <<"t2", "t3", "t1">>
=============================================================================
