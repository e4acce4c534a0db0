CONSTANTS
  w1 = w1
  w2 = w2
  q1 = q1
  Free = Free
  Workers <- MCOneWorker
  Operators <- MCOneOperator
  Limit = 1
  Costs = {1}
  LastPeriod = 1
  MaxFaults = 1
  MaxReleases = 1
  MaxLosses = 1
  Tweets = {"t1", "t2"}
  Known = {"t1", "t2"}
  Tickers = {}
  MaxReplays = 0

SPECIFICATION FairSpec

INVARIANT OverspendBounded
PROPERTY TripEnds
