CONSTANTS
  Ids = {1, 2, 3, 4}
  Gateways = {1, 2}
  Segs = {"s1"}
  NoSeg = NoSeg
  NoRow = NoRow
  Sessions = {t1, t2}
  Requests = {"a", "b", "c", "d"}
  Body <- OneGatewayBody
  Provisioned = {}
  RequireAuth = FALSE
  MaxItems = 2
  MaxFuture = 3
  MaxNow = 0
  MaxAttempts <- Once
  MaxFaults = 0
  Readers = {2}
  Admins = {adm}
  PageLimit = 1
SPECIFICATION FairSyncSpec
CHECK_DEADLOCK FALSE
INVARIANTS SyncTypeOK NothingSkipped NoEntrySkipped LastPageCompletes OneRowPerSegment MergedItemsAccounted SyncInv
PROPERTIES SurvivorNeverRegresses RowSequenceGrows ReplicasConverge
