SPECIFICATION FairSpec
CONSTANTS
    k1 = k1
    k2 = k2
    t1 = t1
    t2 = t2
    t3 = t3
    a = a
    b = b
    Keys = {k1, k2}
    Contents = {a, b}
    Tokens = {t1, t2, t3}
    Bound <- MCBound
    Fee <- MCFee
    InitialTreasury = 2
    MaxCalls = 3
    MaxCrashes = 1
INVARIANTS
    FeesAccounted
    IdempotencyKept
PROPERTIES
    SuccessIsFinal
    StartedResolves
CHECK_DEADLOCK FALSE
