\* The default mode: every trade waits for a human, submission is a dry run.
CONSTANTS
    Consumers = {c1}
    Handlers = {h1, h2}
    IntentIds = {i1, i2}
    NoOne = NoOne
    Malformed = malformed
    small = small
    mid = mid
    large = large
    odd = odd
    Signals = {small, large}
    Directional <- MCDirectional
    Stake <- MCStake
    Settings <- MCSettings
    Enabled = FALSE
    DryRun = TRUE
    RequireApproval = TRUE
    HotCap = 3
    MaxTime = 1
    MaxOffers = 3
SPECIFICATION Spec
SYMMETRY Symmetry
INVARIANTS
    TypeOK
    NoncesDense
    NothingTwice
    PendingExact
PROPERTIES
    StoreOnlyGrows
    ImplementsLifecycle
