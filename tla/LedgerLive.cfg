\* One loop of each kind, with cycles that fail.
CONSTANTS
    m1 = m1
    m2 = m2
    Markets = {m1, m2}
    Followed = {m1}
    Feed <- CrowdedFeed
    Bets <- OneBet
    Watchers = {w1}
    Capturers = {c1}
    Poller = w1
    NoOne = NoOne
    FillCheck = TRUE
    JournalLimit = 1
    CaptureLimit = 1
SPECIFICATION FairSpec
PROPERTIES
    EverythingSettles
    PredictionsJournaled
