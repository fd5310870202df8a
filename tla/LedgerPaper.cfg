\* The loop and the one-shot CLI of paper capture.
CONSTANTS
    m1 = m1
    m2 = m2
    Markets = {m1}
    Followed = {m1}
    Feed <- FlippingFeed
    Bets = {}
    Watchers = {w1}
    Capturers = {c1, c2}
    Poller = w1
    NoOne = NoOne
    FillCheck = TRUE
    JournalLimit = 2
    CaptureLimit = 2
SPECIFICATION Spec
INVARIANT
    AtMostOneOpenTrade
