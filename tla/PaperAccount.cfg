SPECIFICATION FairSpec
CONSTANTS
    o1 = o1
    o2 = o2
    o3 = o3
    c1 = c1
    x1 = x1
    x2 = x2
    Orders = {o1, o2, o3}
    Earlier = {o3}
    Closers = {c1}
    Monitor = Monitor
    Prices = {1, 2}
    Exchanges = {x1, x2}
    Exchange <- LastApart
    Side <- Mixed
    Quantity <- One
    WithStop = {o1}
    WithTarget = {o1}
    PAPER_START_CAPITAL = 3
    MaxPositionPct = 70
    MaxExposurePct = 100
    MaxLossPct = 50
    PoolSize = 2
    None = None
    MaxDisturbances = 1
INVARIANTS
PROPERTIES
    WithinExposure
    LossStopsOrders
    EndedRowKeepsResult
    OrdersEnd
    StopsAreHonoured
