CONSTANTS
  s1 = s1
  s2 = s2
  Null = Null
  Signals <- MCOutcomes_Signals
  Kinds <- MCOutcomes_Kinds
  Shapes <- MCOutcomes_Shapes
  HourTicks = 3
  Hold = 3
  LastClose = 3
  Limit = 1
  CreateBy = 1
  MaxTime = 7
  MaxLag = 1
SPECIFICATION OutcomesFairSpec
CHECK_DEADLOCK FALSE
INVARIANTS OutcomeFollowsHours
PROPERTIES EverySignalCloses
