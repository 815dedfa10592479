CONSTANTS
  j1 = j1
  j2 = j2
  c1 = c1
  f1 = f1
  None = None
  Jobs <- TwoJobs
  Crypto <- MCScans_Crypto
  Forex <- MCScans_Forex
  MaxPolls = 2
  MaxFaults = 1
SPECIFICATION FairSpec
CHECK_DEADLOCK FALSE
INVARIANTS ResultsAreStored
PROPERTIES EndedJobIsFinal ScanEnds
