CONSTANTS
  c1 = c1
  c2 = c2
  s1 = s1
  s2 = s2
  None = None
  Free = Free
  Absent = Absent
  Clients <- MCClients
  RetryMax = 2
  Syncs <- MCSyncs
  Contracts <- MCContracts
  SymbolOf <- MCSymbolOf
  Holdings <- MCFewHoldings
  MaxTrades = 1

SPECIFICATION Spec

INVARIANT EveryPositionUpserted
