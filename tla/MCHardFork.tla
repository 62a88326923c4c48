----------------------------- MODULE MCHardFork -----------------------------
EXTENDS HardFork

(* The shape of testnet_hard_forks: three versions, one vote is enough. *)
MCForks == <<[version |-> 17, height |-> 0, threshold |-> 1],
             [version |-> 18, height |-> 2, threshold |-> 1],
             [version |-> 19, height |-> 3, threshold |-> 1]>>
=============================================================================
