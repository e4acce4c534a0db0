CONSTANTS
  c1 = c1
  c2 = c2
  s1 = s1
  s2 = s2
  None = None
  Free = Free
  Absent = Absent
  Clients <- MCClients
  RetryMax = 2
  Syncs <- MCSyncs
  Contracts <- MCOneContract
  SymbolOf <- MCSymbolOf
  Holdings <- MCFewHoldings
  MaxTrades = 2

SPECIFICATION FairSpec

INVARIANTS
  VerifiedOnly
  SessionsOwned
  SettledSynced

PROPERTY ConnectEnds
