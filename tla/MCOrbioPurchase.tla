--------------------------- MODULE MCOrbioPurchase ---------------------------
(* Small instances of OrbioPurchase for TLC. *)
EXTENDS OrbioPurchase, TLC

CONSTANTS a1, a2

(* a1 needs several purchases and a human for each; a2 one autonomous one.  *)
Targets == a1 :> 8 @@ a2 :> 2
=============================================================================
