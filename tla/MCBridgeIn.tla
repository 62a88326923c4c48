---------------------------- MODULE MCBridgeIn ----------------------------
(* TLC instances of BridgeIn.  Amounts are scaled: a chunk is four units,   *)
(* and a single unit stands for an amount that prints with an exponent.     *)
(* The amounts round to nothing, to one chunk, to 4 + 3 and to 4 + 4 + 1,   *)
(* and are a tenth of a unit above the limit.                               *)
EXTENDS BridgeIn, TLC

(* Sessions are alike, and so are wallets. *)
BridgeSymmetry == {p @@ q : p \in Permutations(Sessions), q \in Permutations(Wallets)}

============================================================================
