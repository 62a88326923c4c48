--------------------------- MODULE MCNexusActions ---------------------------
(* TLC instances of NexusActions. *)
EXTENDS NexusActions, TLC

(* Clicks are alike, and so are wallets. *)
NexusSymmetry == {p @@ q : p \in Permutations(Jobs), q \in Permutations(Wallets)}
============================================================================
