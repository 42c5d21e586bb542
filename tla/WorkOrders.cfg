SPECIFICATION Spec
CONSTANTS
    o1 = o1
    o2 = o2
    Orders = {o1, o2}
    Required <- MCRequired
    Bounty <- MCBounty
    MaxRequests = 2
    MaxLive = 2
    MaxCrashes = 1
    Unit = 10
    Fill = 9800
    MaxSingle = 50
    Expansion = 4
    Standby = 2
    Answers = {"SUCCESS", "FAILURE", "TIMEOUT_FILLED"}
    Verdicts = {TRUE, FALSE}
    InitialTreasury = 3
    None = None
INVARIANTS
    PoolsAccounted
    RowsTruthful
PROPERTIES
    StandbyHaltsSpending
CHECK_DEADLOCK FALSE
