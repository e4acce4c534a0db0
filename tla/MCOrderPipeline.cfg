CONSTANTS
  w1 = w1
  w2 = w2
  q1 = q1
  Free = Free
  NoEvent = NoEvent
  Workers <- MCWorkers
  Requests <- MCNoRequests
  Events = {"e1", "e2"}
  Known = {"e1", "e2"}
  Plans <- MCPlans
  LiveTrading = FALSE
  MaxReplays = 1
  MaxFaults = 1
  LastTime = 3
  Capital = 1000
  MaxPositionPct = 2
  MaxTotalExposurePct = 20
  MaxTradesPerDay = 1
  MaxDrawdownPct = 3
  DailyPnl = 0
  AllowAfterHours = FALSE
  OpenTimes = {1, 3}

SPECIFICATION Spec
SYMMETRY Symmetry

INVARIANTS
  TypeOK
  OneOrderPerEvent
  SecondOnlyAfterLoss
  OrdersAudited
  CapAfterFirstSecond
