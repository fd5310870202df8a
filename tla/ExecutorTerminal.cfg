\* The hot-wallet cap is below the per-trade cap.
CONSTANTS
    Consumers = {c1}
    Handlers = {h1, h2}
    IntentIds = {i1, i2}
    NoOne = NoOne
    Malformed = malformed
    small = small
    mid = mid
    large = large
    odd = odd
    Signals = {mid, odd}
    Directional <- MCDirectional
    Stake <- MCStake
    Settings <- MCSettings
    Enabled = FALSE
    DryRun = TRUE
    RequireApproval = TRUE
    HotCap = 1
    MaxTime = 1
    MaxOffers = 2
SPECIFICATION Spec
SYMMETRY Symmetry
PROPERTIES
    TerminalIsFinal
