SPECIFICATION FairSpec
CONSTANTS
    r1 = r1
    r2 = r2
    r3 = r3
    k1 = k1
    None = None
    Requests = {r1, r2, r3}
    KeyOf <- OneKey
    Content <- ThirdDiffers
    Outcomes = {"placed", "failed"}
    TTL = 2
    RequestBound = 1
    MaxFaults = 2
CHECK_DEADLOCK FALSE
INVARIANTS
    OneRunPerKey
PROPERTIES
    EveryRequestIsAnswered
    ImplementsOncePerKey
