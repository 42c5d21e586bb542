SPECIFICATION Spec
CONSTANTS
    o1 = o1
    o2 = o2
    o3 = o3
    t1 = t1
    t2 = t2
    w1 = w1
    w2 = w2
    None = None
    Ops = {o1, o2, o3}
    Tokens = {t1, t2}
    TokenOf <- TwoShare
    Amount <- ThreeCost
    InitialTreasury = 2
    Workers = {w1, w2}
    Reconcilers = {r1}
    Services = {s1}
    ServiceOf <- OneReconciler
    MaxCrashes = 1
    SerialExecution = TRUE
    OperatorWaits = TRUE
    TokensExpire = TRUE
SYMMETRY WorkerSymmetry
INVARIANTS
    SettledAtMostOnce
    TerminalUnambiguous
    SubmittedAtMostOnce
    Conservation
    SettlementFollowsEvidence
    TokenFundsOneOperation
PROPERTIES
    
    ImplementsSettlement
CHECK_DEADLOCK FALSE
