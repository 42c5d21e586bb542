---------------------------- MODULE MCMarketplace ----------------------------
(* Small instances of Marketplace for TLC. *)
EXTENDS Marketplace, TLC

CONSTANTS o1, o2, A, B, C, s1, s2, r1

(* Both orders come from A, so that ESCROW can hold two bounties: only then *)
(* can a bounty leave twice.  5 splits into a reserve of 1 and a mission    *)
(* share of 4.                                                              *)
FromA    == [o \in Orders |-> A]
Bounties == [o \in Orders |-> 5]
RichA    == [c \in Orgs |-> IF c = A THEN 10 ELSE 0]

(* The orders, the two settlers and the two providers are alike. *)
Symmetric == UNION {Permutations(s) : s \in {Orders, {B, C} \cap Orgs, Settlers}}
=============================================================================
