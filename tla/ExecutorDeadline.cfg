\* The clock moves while an approval is under way.
CONSTANTS
    Consumers = {c1}
    Handlers = {h1, h2}
    IntentIds = {i1, i2}
    NoOne = NoOne
    Malformed = malformed
    small = small
    mid = mid
    large = large
    odd = odd
    Signals = {small, odd}
    Directional <- MCDirectional
    Stake <- MCStake
    Settings <- MCSettings
    Enabled = FALSE
    DryRun = TRUE
    RequireApproval = TRUE
    HotCap = 3
    MaxTime = 2
    MaxOffers = 2
SPECIFICATION Spec
SYMMETRY Symmetry
PROPERTIES
    SignedBeforeDeadline
