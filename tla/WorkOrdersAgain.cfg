SPECIFICATION Spec
CONSTANTS
    o1 = o1
    o2 = o2
    Orders = {o1, o2}
    Required <- MCRequired
    Bounty <- MCBounty
    MaxRequests = 2
    MaxLive = 1
    MaxCrashes = 0
    Unit = 10
    Fill = 9800
    MaxSingle = 50
    Expansion = 4
    Standby = 2
    Answers = {"SUCCESS"}
    Verdicts = {TRUE}
    InitialTreasury = 3
    None = None
INVARIANTS
    RevenueOnce
CHECK_DEADLOCK FALSE
