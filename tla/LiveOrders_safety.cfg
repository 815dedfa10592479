SPECIFICATION FairSpec
CONSTANTS
    o1 = o1
    p1 = p1
    p2 = p2
    Processes <- TwoProcesses
    Home <- AtFirst
    Orders <- OneOrder
    Venue <- OnCcxt
    ExchangeId <- DistinctIds
    Unanswerable <- NoOrder
    PAPER_TRADING = FALSE
    PENDING_TO_UNKNOWN = 1
    NOT_FOUND_GRACE = 2
    BATCH_LIMIT = 1
    MAX_ATTEMPTS = 3
    HandlerBound = 0
    LandingBound = 1
    MaxFaults = 1
INVARIANTS
    LiveOrderIsVisible
    RejectedMeansNotPlaced
    FinalFillIsTrue
PROPERTIES
    ClosedRowKeepsItsEnd
    DoubtIsResolved
    EndIsRecorded
