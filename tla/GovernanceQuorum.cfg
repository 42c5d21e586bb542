SPECIFICATION GovernanceSpec
CONSTANTS
    A = A
    a1 = a1
    a2 = a2
    alice = alice
    bob = bob
    e1 = e1
    i1 = i1
    i2 = i2
    r1 = r1
    r2 = r2
    p1 = p1
    c1 = c1
    c2 = c2
    None = None
    Orgs = {A}
    Approvals = {a1, a2}
    Approvers = {alice, bob}
    Signed <- Content
    ResumeCalls = {r1, r2}
    PauseCalls = {p1}
    ExecApprovals = {e1}
    Intents = {i1, i2}
    Bound <- ExecBound
    ConsumeCalls = {c1, c2}
    MaxPauses = 2
    MaxCrashes = 1
SYMMETRY CallSymmetry
INVARIANTS TrailTellsState ExecutionApprovalSingleUse
PROPERTY ImplementsQuorumBreaker
CHECK_DEADLOCK FALSE
