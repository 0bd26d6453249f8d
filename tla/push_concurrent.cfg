CONSTANTS
  Ids = {1, 2, 3}
  Gateways = {1, 2}
  Segs = {"s1"}
  NoSeg = NoSeg
  NoRow = NoRow
  Sessions = {t1, t2}
  Requests = {"a", "b", "c"}
  Body <- TwoGatewayBody
  Provisioned = {}
  RequireAuth = FALSE
  MaxItems = 2
  MaxFuture = 3
  MaxNow = 1
  MaxAttempts <- RetryA
  MaxFaults = 1

SPECIFICATION Spec
CHECK_DEADLOCK FALSE
INVARIANTS TypeOK SequenceIdsUnique BatchRecordedOnce AcceptedIsRecorded AcceptedReportIsStored InductiveInv
PROPERTIES SosWriteOnce OwnWritesKept BatchesAreAtomic
