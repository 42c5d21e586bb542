--------------------------- MODULE MCConsequential ---------------------------
(* Small instances of Consequential for TLC. *)
EXTENDS Consequential, TLC

CONSTANTS o1, o2, o3, t1, t2, w1, w2

(* Two operations presented with one token and a third with its own, on a   *)
(* treasury of two credits.  o1 and o3 can be in ESCROW together, so that a *)
(* second settlement of one has the other's credits to take; o2 and o3      *)
(* cannot both be paid for.                                                 *)
TwoShare  == o1 :> t1 @@ o2 :> t1 @@ o3 :> t2
ThreeCost == o1 :> 1 @@ o2 :> 2 @@ o3 :> 1

(* Two operations with tokens of their own. *)
TwoTokens == o1 :> t1 @@ o2 :> t2
EqualCost == o1 :> 1 @@ o2 :> 1

(* Reconciliation requests answered by one service. *)
OneReconciler == [r \in Reconcilers |-> CHOOSE s \in Services : TRUE]

WorkerSymmetry == Permutations({w1, w2})
=============================================================================
