---------------------------- MODULE MCGovernance ----------------------------
EXTENDS Governance, TLC

CONSTANTS A, a1, a2, alice, bob, e1, i1, i2, r1, r2, p1, c1, c2

\* Two administrators approve the resumption of one organisation.
Approval(approver) ==
    [org |-> A, action |-> "CIRCUIT_BREAKER_RESUME", payload |-> A, approver |-> approver]

Content == (a1 :> Approval(alice)) @@ (a2 :> Approval(bob))

ExecBound == e1 :> i1

\* No state holds an approver: exchanging the two approvals exchanges them too.
CallSymmetry == Permutations({r1, r2}) \cup Permutations({c1, c2}) \cup Permutations({a1, a2})
=============================================================================
