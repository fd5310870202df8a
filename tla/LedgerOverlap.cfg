\* Two watchers and two capturers, whose transactions overlap, over one market.
CONSTANTS
    m1 = m1
    m2 = m2
    Markets = {m1}
    Followed = {m1}
    Feed <- FlippingFeed
    Bets <- TwoBets
    Watchers = {w1, w2}
    Capturers = {c1, c2}
    Poller = w1
    NoOne = NoOne
    FillCheck = TRUE
    JournalLimit = 2
    CaptureLimit = 2
SPECIFICATION Spec
SYMMETRY Symmetry
INVARIANTS
    TypeOK
    JournaledOncePerWatcher
    OneOpenTradePerCapturer
    RecordsAgree
PROPERTIES
    SettledIsFinal
