---------------------------- MODULE SyncPushInv -----------------------------
(***************************************************************************)
(* The inductive invariant of SyncPush: what holds of the sessions between *)
(* their statements, which the properties of the tables rest on.           *)
(***************************************************************************)
EXTENDS SyncPush

Working == {"item", "nextval", "write", "log", "commit"}

\* What a session holds follows from where it is: an item while it writes one,
\* locks and uncommitted rows only inside the transaction, and at the commit the
\* log row of its own batch with its own count.
Shape(t) ==
  /\ tx[t].pc \in {"nextval", "write"} => HasItem(t)
  /\ tx[t].pc \notin Working => tx[t].writes = NoWrites /\ ~tx[t].locked
  /\ tx[t].pc # "commit" => tx[t].log = {}
  /\ tx[t].pc = "commit" =>
       \E l \in tx[t].log : /\ tx[t].log = {l}
                            /\ l.key = Key(tx[t].req)
                            /\ l.applied = tx[t].applied
  /\ tx[t].pc = "reply" =>
       \E l \in log : l.key = Key(tx[t].req) /\ l.applied = tx[t].applied

SessionShape == \A t \in Sessions : Shape(t)

\* A gateway row is locked by one session at a time; a working session has locked
\* its own, unless authentication is on and the gateway does not exist.
GatewayLocks ==
  /\ \A t, u \in Sessions : t # u /\ tx[t].locked /\ tx[u].locked => GatewayOf(t) # GatewayOf(u)
  /\ \A t \in Sessions :
       /\ tx[t].pc \in Working => tx[t].locked \/ (RequireAuth /\ GatewayOf(t) \notin gateways)
       /\ tx[t].pc = "commit" => tx[t].locked
       /\ RequireAuth /\ tx[t].locked => GatewayOf(t) \in gateways

\* The batch a session is about to commit is not recorded.
PendingUnrecorded == \A t \in Sessions : tx[t].pc = "commit" => ~Logged(Key(tx[t].req))

\* Sequence ids of a session: of its uncommitted rows, of its log row, and the
\* one it has taken but not used.
RowSeqs(t) == {tx[t].writes[x].seq : x \in {y \in Ids : tx[t].writes[y] # NoRow}}
LogSeqs(t) == {l.seq : l \in tx[t].log}
TakenSeq(t) == IF tx[t].pc \in {"write", "log"} THEN {tx[t].seq} ELSE {}
SeqsOf(t) == RowSeqs(t) \cup LogSeqs(t) \cup TakenSeq(t)

\* Sequence ids of the committed tables.
TableSeqs ==
  {reports[x].seq : x \in {y \in Ids : reports[y] # NoRow}} \cup {l.seq : l \in log}

\* No sequence id is held twice, committed or not.
SequenceIdsOwned ==
  /\ \A n \in TableSeqs : n <= seq
  /\ \A t \in Sessions :
       /\ \A n \in SeqsOf(t) : n <= seq /\ n \notin TableSeqs
       /\ \A u \in Sessions : t # u => SeqsOf(t) \cap SeqsOf(u) = {}
       /\ \A x, y \in Ids : /\ tx[t].writes[x] # NoRow /\ tx[t].writes[y] # NoRow
                            /\ tx[t].writes[x].seq = tx[t].writes[y].seq
                            => x = y
       /\ RowSeqs(t) \cap (LogSeqs(t) \cup TakenSeq(t)) = {}

\* A row is being written by one session at a time, and what replaces a committed
\* row is not an SOS and has the kind of the row.
RowLocks ==
  /\ \A t, u \in Sessions, x \in Ids :
       tx[t].writes[x] # NoRow /\ tx[u].writes[x] # NoRow => t = u
  /\ \A t \in Sessions, x \in Ids :
       tx[t].writes[x] # NoRow /\ reports[x] # NoRow =>
         /\ reports[x].kind = tx[t].writes[x].kind
         /\ reports[x].kind # "sos"

\* A planned UPDATE aims at a row of the item's kind, which is not an SOS.
Fits(t) ==
  tx[t].pc \in {"nextval", "write"} /\ tx[t].action = "update" =>
    /\ View(t)[tx[t].target] # NoRow
    /\ View(t)[tx[t].target].kind = CurrentItem(t).kind
    /\ CurrentItem(t).kind # "sos"

UpdatesFitTheirRow == \A t \in Sessions : Fits(t)

\* The write set of session t: rows of its own gateway, no more of them than it has
\* counted, and with sequence ids below that of the log row they are entered with.
Uncommitted(t) == {x \in Ids : tx[t].writes[x] # NoRow}

WriteSet(t) ==
  /\ IsFiniteSet(Uncommitted(t)) /\ Cardinality(Uncommitted(t)) <= tx[t].applied
  /\ \A x \in Uncommitted(t) : tx[t].writes[x].gw = GatewayOf(t)
  /\ tx[t].pc = "log" => \A n \in RowSeqs(t) : n < tx[t].seq
  /\ \A l \in tx[t].log : \A n \in RowSeqs(t) : n < l.seq

WriteSets == \A t \in Sessions : WriteSet(t)

\* What session t has written, or plans to write, over a row of its own gateway is
\* no older than that row and does not revive it.
KeepsOwnRows(t) ==
  /\ \A x \in Uncommitted(t) :
       reports[x] # NoRow /\ reports[x].gw = GatewayOf(t)
         => NotRegressed(reports[x], tx[t].writes[x])
  /\ tx[t].pc \in {"nextval", "write"} /\ tx[t].action = "update" =>
       LET old == View(t)[tx[t].target]
       IN  old.gw = GatewayOf(t) =>
             /\ CurrentItem(t).upd >= old.upd
             /\ old.tomb => IncomingIsTombstone(CurrentItem(t))

OwnRowsInOrder == \A t \in Sessions : KeepsOwnRows(t)

\* What the client of ingest must do: pushes sent under one key report the same ids.
OneContentPerKey == \A r, s \in Requests : Key(r) = Key(s) => ReportedById(r) = ReportedById(s)

\* Session t sees every report by primary key among the items behind it and every row
\* it has touched; a planned one goes to its own id, and the log row is written after
\* the last item.
ItemsOnTheWay(t) ==
  /\ \A j \in DOMAIN Body[tx[t].req].items :
       LET item == ReceivedItem(tx[t].req, j)
       IN  j < tx[t].i /\ ~BySegment(item) => StoredAs(View(t), item.id, item.kind)
  /\ \A x \in tx[t].touched : View(t)[x] # NoRow
  /\ tx[t].pc \in {"nextval", "write"} /\ ~BySegment(CurrentItem(t)) =>
       tx[t].target = CurrentItem(t).id
  /\ tx[t].pc \in {"log", "commit"} => ~HasItem(t)

RecordedReportsStored ==
  \A r \in Requests : Logged(Key(r)) =>
    \A p \in Reported[Key(r)] : StoredAs(reports, p[1], p[2])

QueuedAreStored == \A q \in queue : Logged(q.key) /\ \A x \in q.ids : reports[x] # NoRow

ReportsKept == (\A t \in Sessions : ItemsOnTheWay(t)) /\ RecordedReportsStored /\ QueuedAreStored

\* All of it: the theorems about SyncPush are proved from these parts.
InductiveInv ==
  /\ TypeOK
  /\ SessionShape
  /\ GatewayLocks
  /\ PendingUnrecorded
  /\ SequenceIdsUnique
  /\ SequenceIdsOwned
  /\ RowLocks
  /\ UpdatesFitTheirRow
  /\ WriteSets
  /\ OwnRowsInOrder
  /\ ReportsKept
  /\ BatchRecordedOnce
  /\ AcceptedIsRecorded
=============================================================================
