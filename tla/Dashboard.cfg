CONSTANTS
  t1 = t1
  t2 = t2
  t3 = t3
  week = week
  month = month
  None = None
  Tickets <- MCDashboard_Tickets
  Ranges <- MCDashboard_Ranges
  MaxPending = 2
  TTL = 1
  MaxVersion = 1
  MaxMoves = 1
  MaxIdle = 1
  MaxBuilds = 2
  MaxQueue = 1
  MaxFaults = 1
SPECIFICATION FairSpec
INVARIANTS OneStream
PROPERTIES TicketsLast ShowsSelectedRange CatchesUp
