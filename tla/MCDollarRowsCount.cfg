CONSTANTS
  Cores <- MCCores
  Spelled <- MCSpelled
  Tickers <- MCTickers
  Tables <- MCTables

SPECIFICATION Spec

INVARIANT DollarRowsCount
