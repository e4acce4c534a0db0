CONSTANTS
  w1 = w1
  w2 = w2
  q1 = q1
  t1 = t1
  t2 = t2
  t3 = t3
  Free = Free
  NoTweet = NoTweet
  Workers <- MCWorkers
  Operators <- MCOneOperator
  Tweets <- MCThreeTweets
  Limit = 1
  Costs = {1}
  LastPeriod = 0
  MaxFaults = 1
  MaxReleases = 0
  MaxLosses = 1
  MaxReplays = 1

SPECIFICATION Spec
SYMMETRY Symmetry

INVARIANTS
  RowIsNew
  StrandedByFaults
  OverspendBounded
  SpentMeansTripped

PROPERTIES
  Relayed
