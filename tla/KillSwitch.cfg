SPECIFICATION SwitchFairSpec
CONSTANTS
    i1 = i1
    i2 = i2
    o1 = o1
    c1 = c1
    Nothing = Nothing
    Instances = {i1, i2}
    Orders = {o1}
    Commands = {c1}
    At <- Crossed
    EnvOn = {i1}
    MaxOutages = 2
INVARIANTS
    ClearedOnlyIfOff
PROPERTIES
    EngagedUntilReleased
    EngagedReachesAll
CHECK_DEADLOCK FALSE
