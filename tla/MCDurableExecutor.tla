-------------------------- MODULE MCDurableExecutor --------------------------
(* DurableExecutor for TLC: two tokens for one proposal, so that a failed     *)
(* operation can be retried twice at once, and one for another proposal.      *)
EXTENDS DurableExecutor, TLC

CONSTANTS k1, k2, t1, t2, t3, a, b
MCBound == (t1 :> <<k1, a>>) @@ (t2 :> <<k1, a>>) @@ (t3 :> <<k2, a>>)
MCFee   == (k1 :> 1) @@ (k2 :> 2)
=============================================================================
