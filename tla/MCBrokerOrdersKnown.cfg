CONSTANTS
  w1 = w1
  w2 = w2
  q1 = q1
  Free = Free
  NoEvent = NoEvent
  Workers <- MCOneWorker
  Requests <- MCNoRequests
  Events = {"e1", "e2"}
  Known = {"e1", "e2"}
  Plans <- OnePlan
  LiveTrading = FALSE
  MaxReplays = 0
  MaxFaults = 1
  LastTime = 1
  Capital = 1000
  MaxPositionPct = 2
  MaxTotalExposurePct = 20
  MaxTradesPerDay = 10
  MaxDrawdownPct = 3
  DailyPnl = 0
  AllowAfterHours = FALSE
  OpenTimes <- MCOpenTimes

SPECIFICATION Spec

INVARIANT BrokerOrdersKnown
