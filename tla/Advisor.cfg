SPECIFICATION AdvisorFairSpec
CONSTANTS
    a = a
    b = b
    Markets = {a, b}
    Order <- ByName
    Tag <- OneTheme
    ResolveTime <- AThenB
    Bankroll = 1000
    FracDivisor = 1
    Cap = 50
    CorrCap = 50
    Margin = 1
    Costs = 0
    Quotes <- FewQuotes
    Records <- FewRecords
    Histories <- AllWonOrLost
    DrawdownThreshold = 4
    DriftThreshold = 50
    HighConfidence = 70
    Cooldown = 3
    MaxRelists = 1
    MaxFaults = 1
    Scanned <- ScannedQuotes
    Configs <- BoldConfig
    Defaults <- ReplayConfig
    NoRow = NoRow
    Asks = {40, 55}
    ArbsBeside <- TwoSets
    MinMultiplier = 0
    ListLimit = 2
    DetailLimit = 2
    MaxScans = 2
    MaxChanges = 3
INVARIANTS
    AdvisorTypeOK
    ReplayIsSolvent
    ReplayIsCausal
    SizedAsOfRaising
    StakesAreModest
    PayingFirst
    ListedCanBeOpened
    AgreesWithReplay
PROPERTIES
    AtMostOncePerCooldown
    SilenceIsExplained
    SignalsAreEarned
    DeployedMonitorAnnounces
