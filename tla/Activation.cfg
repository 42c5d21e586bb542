SPECIFICATION Spec
CONSTANTS
    Settings <- MCSettings
    StrayBlobs <- MCStrayBlobs
    PolicyMaxFee = 2
    InitialCredit = 2
    MaxPolls = 2
    MaxRuns = 3
    MaxLive = 2
    MaxFaults = 1
INVARIANTS
    ReportTruthful
    CarefulActivatesOnce
    RunsBounded
    NoncesSequential
CHECK_DEADLOCK FALSE
