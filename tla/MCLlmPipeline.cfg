CONSTANTS
  w1 = w1
  w2 = w2
  q1 = q1
  Free = Free
  Workers <- MCWorkers
  Operators <- MCNoOperators
  Limit = 2
  Costs = {1}
  LastPeriod = 0
  MaxFaults = 1
  MaxReleases = 0
  MaxLosses = 1
  Tweets = {"t1", "t2"}
  Known = {"t1"}
  Tickers = {"NVDA", "TSLA"}
  MaxReplays = 1

SPECIFICATION Spec
SYMMETRY Symmetry

INVARIANTS
  EventsAreNew
  StrandedByFaults

PROPERTY Relayed
