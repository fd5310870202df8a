\* No manual mode and no dry run: every submission raises and rolls back.
CONSTANTS
    Consumers = {c1}
    Handlers = {h1, h2}
    IntentIds = {i1, i2}
    NoOne = NoOne
    Malformed = malformed
    small = small
    mid = mid
    large = large
    odd = odd
    Signals = {small, mid, odd}
    Directional <- MCDirectional
    Stake <- MCStake
    Settings <- MCSettings
    Enabled = TRUE
    DryRun = FALSE
    RequireApproval = FALSE
    HotCap = 3
    MaxTime = 1
    MaxOffers = 2
SPECIFICATION FairSpec
INVARIANTS
    OnlyApprovedIsSigned
PROPERTIES
    EveryTransactionEnds
    EveryMessageHandled
