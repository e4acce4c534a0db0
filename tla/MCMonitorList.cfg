CONSTANTS
  s1 = s1
  s2 = s2
  Accounts = {1, 2}
  Syncs <- MCSyncs
  RetryMax = 2
  MaxToggles = 1
  MaxStragglers = 1

SPECIFICATION FairSpec

INVARIANTS
  SettledAligned

PROPERTIES
  SyncEnds
