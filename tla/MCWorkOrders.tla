---------------------------- MODULE MCWorkOrders ----------------------------
(* WorkOrders for TLC: a unit is 10 native units, so that one purchase is     *)
(* less than the largest order and a margin can fall between the regimes.     *)
EXTENDS WorkOrders, TLC

CONSTANTS o1, o2
MCRequired == (o1 :> 9) @@ (o2 :> 25)
MCBounty   == (o1 :> 2) @@ (o2 :> 4)
=============================================================================
