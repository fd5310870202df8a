SPECIFICATION FairSpec
CONSTANTS
    a = a
    b = b
    Markets = {a, b}
    Liquidity <- Rank
    TopN = 1
    Scanners = {s1, s2}
    DiscoveryEvery = 2
    Prints <- FewPrints
    Limit = 2
    Pollers = {p1}
    s1 = s1
    s2 = s2
    p1 = p1
    Deployments <- TwoScannersOrAPoller
    InitialListing = {b}
    MaxRelists = 1
    MaxFaults = 2
INVARIANTS
    TypeOK
    TrackedIsKept
    NeverTwiceInARun
    CursorCovers
PROPERTIES
    UniverseConverges
    PrintsArrive
