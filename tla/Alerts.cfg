CONSTANTS
  a1 = a1
  s1 = s1
  t1 = t1
  t2 = t2
  t3 = t3
  p1 = p1
  p2 = p2
  Null = Null
  Alerts <- MCAlerts_Alerts
  Symbols <- MCAlerts_Symbols
  Processes <- MCAlerts_Processes
  Survivor = p1
  Ticks <- MCAlerts_Ticks
  ProcessOf <- MCAlerts_ProcessOf
  Targets = {1, 2}
  Prices = {1}
  DayLength = 3
  QuietStart = 2
  QuietEnd = 1
  DigestHour = 1
  Snooze = 1
  MaxEdits = 1
  MaxFailures = 1
SPECIFICATION AlertsFairSpec
INVARIANTS PausesHold NotifiedOnce
PROPERTIES QuietHoursKept DueAlertFires HeldBackIsMailed
