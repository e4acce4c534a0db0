CHECK_DEADLOCK FALSE

CONSTANTS
  w1 = w1
  w2 = w2
  q1 = q1
  t1 = t1
  t2 = t2
  t3 = t3
  Free = Free
  NoTweet = NoTweet
  Workers <- MCWorkers
  Operators <- MCNoOperators
  Tweets <- MCTweets
  Limit = 2
  Costs = {1}
  LastPeriod = 0
  MaxFaults = 1
  MaxReleases = 0
  MaxLosses = 1
  MaxReplays = 1

SPECIFICATION Spec

PROPERTY NoTweetLost
