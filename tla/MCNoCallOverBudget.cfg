CONSTANTS
  w1 = w1
  w2 = w2
  q1 = q1
  Free = Free
  Workers <- MCOneWorker
  Operators <- MCNoOperators
  Limit = 1
  Costs = {1}
  LastPeriod = 0
  MaxFaults = 1
  MaxReleases = 0
  MaxLosses = 1
  Tweets = {"t1", "t2"}
  Known = {"t1", "t2"}
  Tickers = {"NVDA"}
  MaxReplays = 0

SPECIFICATION Spec

PROPERTY NoCallOverBudget
