CONSTANTS
  Ids = {1, 2, 3}
  Gateways = {1, 2}
  Segs = {"s1"}
  NoSeg = NoSeg
  NoRow = NoRow
  Sessions = {t1, t2}
  Requests = {"a", "b", "c"}
  Body <- RivalsBody
  Provisioned = {}
  RequireAuth = FALSE
  MaxItems = 2
  MaxFuture = 3
  MaxNow = 0
  MaxAttempts <- Once
  MaxFaults = 0

SPECIFICATION FairSpec
CHECK_DEADLOCK FALSE
PROPERTIES SurvivorNeverRegresses
