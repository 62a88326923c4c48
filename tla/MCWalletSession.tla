-------------------------- MODULE MCWalletSession --------------------------
(* TLC instances of WalletSession.                                          *)
EXTENDS WalletSession, TLC

CONSTANTS n1, n2, n3, f1, f2

(* Two names such as "my-savings" and "my_savings" share a key file, a name *)
(* such as "spending" has its own.                                          *)
SafeFileName(n) == IF n = n3 THEN f2 ELSE f1

(* Nothing tells addresses apart, nor the two names that share a file. *)
SessionSymmetry == {p @@ q : p \in Permutations(Addrs), q \in Permutations({n1, n2})}

(* What the session run is about; a disorderly session only ends in a       *)
(* restart.                                                                 *)
OrderlySession == orderly
============================================================================
