CONSTANTS
  Ids = {1, 2, 3}
  Gateways = {1, 2}
  Segs = {"s1"}
  NoSeg = NoSeg
  NoRow = NoRow
  Sessions = {t1, t2}
  Requests = {"a", "b"}
  Body <- TriageBody
  Provisioned = {}
  RequireAuth = FALSE
  MaxItems = 3
  MaxFuture = 3
  MaxNow = 0
  MaxAttempts <- Once
  MaxFaults = 1
  Workers = {w1}
  Detail <- TriageDetail
  NoScore = NoScore
  Dashboards = {d1}
  LayerLimit = 1
SPECIFICATION FairDashboardSpec
CHECK_DEADLOCK FALSE
INVARIANTS DashboardTypeOK StaleScoreWillBeRedone TriageInv
PROPERTIES DashboardsConverge ScoresConverge PushEnds TriageEnds TriageKeepsLedger
