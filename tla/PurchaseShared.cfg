SPECIFICATION Spec
CONSTANTS
    a1 = a1
    a2 = a2
    Agents = {a1, a2}
    Target <- Targets
    Cleared = {a1, a2}
    MaxIterations = 3
    MaxCumulative = 9
    MaxSingle = 4
    AutonomousCeiling = 3
    AbsoluteCeiling = 4
    Unit = 2
    ExpectedFill = 9800
    FillRates = {9800, 7000}
    InitialTreasury = 5
    InitialUsdg = 11
    MaxApprovals = 3
    MaxCrashes = 1
INVARIANTS EscrowSound EvidenceDecides PurchasesAccounted SpendAuthorised
CHECK_DEADLOCK FALSE
