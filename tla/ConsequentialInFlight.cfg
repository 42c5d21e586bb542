SPECIFICATION Spec
CONSTANTS
    o1 = o1
    o2 = o2
    o3 = o3
    t1 = t1
    t2 = t2
    w1 = w1
    w2 = w2
    None = None
    Ops = {o1, o2}
    Tokens = {t1, t2}
    TokenOf <- TwoTokens
    Amount <- EqualCost
    InitialTreasury = 2
    Workers = {w1, w2}
    Reconcilers = {r1}
    Services = {s1}
    ServiceOf <- OneReconciler
    MaxCrashes = 0
    SerialExecution = TRUE
    OperatorWaits = FALSE
    TokensExpire = FALSE
INVARIANTS SettledAtMostOnce
CHECK_DEADLOCK FALSE
