SPECIFICATION Spec
CONSTANTS
    o1 = o1
    o2 = o2
    A = A
    B = B
    C = C
    s1 = s1
    s2 = s2
    r1 = r1
    None = None
    Orgs = {A, B, C}
    Orders = {o1, o2}
    ClientOf <- FromA
    Bounty <- Bounties
    InitialTreasury <- RichA
    ReservePercent = 20
    Qualified = {B, C}
    Settlers = {s1, s2}
    Refunders = {r1}
    MaxCrashes = 1
SYMMETRY Symmetric
INVARIANTS PayoutBacked CompletedIsPaid LedgersAccounted
PROPERTIES ClaimedOnce
CHECK_DEADLOCK FALSE
