CONSTANTS
  a1 = a1
  x1 = x1
  Free = Free
  NoEvent = NoEvent
  Analysts <- MCAnalysts
  Executors <- MCExecutors
  Tweets = {"t1"}
  Tickers = {"NVDA"}
  Limit = 2
  Costs = {1}
  MaxTweetReplays = 1
  MaxFaults = 1
  MaxLosses = 1
  Plans <- MCPlans
  LiveTrading = FALSE
  LastTime = 1
  Capital = 1000
  MaxPositionPct = 2
  MaxTotalExposurePct = 20
  MaxTradesPerDay = 10
  MaxDrawdownPct = 3
  DailyPnl = 0
  AllowAfterHours = FALSE
  OpenTimes = {1}

SPECIFICATION FairSpec

INVARIANTS
  OneBrokerOrder
  Journaled
  NoOrderWhileActive

PROPERTIES
  SwitchKept
  Drains
