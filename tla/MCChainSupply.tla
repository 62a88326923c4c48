--------------------------- MODULE MCChainSupply ----------------------------
(***************************************************************************)
(* ChainSupply on a schedule of three linear blocks whose supply runs out  *)
(* on the fourth block.  Basis points are out of 400, which gives the same *)
(* floors as 75, 25 and 50 out of 10000.                                   *)
(***************************************************************************)
EXTENDS ChainSupply

(* Version 17 up to height 1 and 21 from height 2, as on mainnet. *)
MCVersionAt(h) == IF h < 2 THEN 17 ELSE 21

FiveOuts(total) ==
  <<Out("miner", InstantAmount(total)), Out("miner", VestedAmount(total)),
    Out("dev", DevAmount(total)), Out("liquidity", LiquidityAmount(total)),
    Out("gas", GasAmount(total))>>

(* The split the rules ask for, the one the node itself builds, and        *)
(* coinbases that pay too much, the wrong halves, nobody or another key.   *)
MCCoinbases(total) ==
  LET five == FiveOuts(total)
  IN  {five,
       MinerOuts(total, 21) \o FundOut("dev", DevAmount(total))
         \o FundOut("liquidity", LiquidityAmount(total))
         \o FundOut("gas", GasAmount(total)),
       [five EXCEPT ![5].amount = @ + 1],
       [five EXCEPT ![1].amount = @ + 1, ![4].amount = 0],
       [five EXCEPT ![3].to = "miner"],
       <<Out("miner", total)>>,
       <<>>}
=============================================================================
