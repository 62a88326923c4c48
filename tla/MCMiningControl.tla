-------------------------- MODULE MCMiningControl --------------------------
(* TLC instances of MiningControl.                                          *)
EXTENDS MiningControl

============================================================================
