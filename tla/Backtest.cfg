CONSTANTS
  s1 = s1
  s2 = s2
  Missing = Missing
  Requested <- MCBacktest_Requested
  Dates <- MCBacktest_Dates
  Rate <- MCBacktest_Rate
  Prices <- MCBacktest_Prices
  Capital = 4
  Risk = 1
  MaxPositions = 2
  MaxQty = 2
  MaxFailures = 2
SPECIFICATION BacktestSpec
CHECK_DEADLOCK FALSE
INVARIANTS EquityIsExplained PortfolioIsExplained
