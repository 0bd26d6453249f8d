---------------------------- MODULE SyncPullInv -----------------------------
(***************************************************************************)
(* Pushes of one gateway, with readers beside them.  The lock on the       *)
(* gateway row is then a lock on everything a push does: what the policy   *)
(* and the pull promise holds, and this is the invariant that shows it.    *)
(***************************************************************************)
EXTENDS SyncPull, SyncPushInv

\* All pushes come from one gateway.
OneGateway == \A r, s \in Requests : Body[r].gw = Body[s].gw

\* Every row is of the gateway; who has written something holds its lock.
RowsOfTheGateway ==
  /\ \A x \in Ids, r \in Requests : reports[x] # NoRow => reports[x].gw = Body[r].gw
  /\ \A t \in Sessions : Uncommitted(t) # {} \/ tx[t].log # {} => tx[t].locked

\* The sequence ids of the lock's holder lie above everything committed.
PendingAbove ==
  \A t \in Sessions : tx[t].locked => \A n \in SeqsOf(t), m \in TableSeqs : m < n

\* Log ids are committed in order, and none is 0, where paging starts.
PendingIds ==
  /\ \A l \in log : l.id <= logIds
  /\ \A t \in Sessions : \A p \in tx[t].log :
       0 < p.id /\ p.id <= logIds /\ \A l \in log : l.id < p.id

Stored == {x \in Ids : reports[x] # NoRow}

FiniteTables == IsFiniteSet(Stored) /\ IsFiniteSet(log)

-----------------------------------------------------------------------------
(* Segments. *)

\* Rows of a segment in a table.
Matching(table, kind, seg) ==
  {x \in Ids : table[x] # NoRow /\ table[x].kind = kind /\ table[x].seg = seg}

OneRowEach(table) ==
  \A kind \in {"road", "supply"}, seg \in Segs :
    \A x, y \in Matching(table, kind, seg) : x = y

\* The holder of the lock knows of no second row of a segment and plans none.
SegmentsInHand(t) ==
  tx[t].locked =>
    /\ OneRowEach(View(t))
    /\ tx[t].pc \in {"nextval", "write"} /\ BySegment(CurrentItem(t)) =>
         LET same == Matching(View(t), CurrentItem(t).kind, CurrentItem(t).seg)
         IN  IF tx[t].action = "insert" THEN same = {} ELSE tx[t].target \in same

OneRowKept == OneRowEach(reports) /\ \A t \in Sessions : SegmentsInHand(t)

-----------------------------------------------------------------------------
(* Merged items. *)

\* A key stands for one content, and an id reported without a segment is not one
\* that is reported with a segment.
SameItemsPerKey ==
  \A r, s \in Requests : Key(r) = Key(s) =>
    /\ DOMAIN Body[r].items = DOMAIN Body[s].items
    /\ \A i \in DOMAIN Body[r].items : ReceivedItem(r, i) = ReceivedItem(s, i)

SegmentedIds ==
  UNION {{ReceivedItem(r, i).id :
            i \in {j \in DOMAIN Body[r].items : BySegment(ReceivedItem(r, j))}} : r \in Requests}

IdsKeepSegment ==
  \A r \in Requests : \A i \in DOMAIN Body[r].items :
    LET item == ReceivedItem(r, i)
    IN  item.kind # "sos" /\ item.seg = NoSeg => item.id \notin SegmentedIds

\* Table accounts for item, pushed by gw.
AccountedIn(table, item, gw) ==
  \E x \in Matching(table, item.kind, item.seg) : Accounts(table[x], item, gw)

\* Rows with a segment are stored under the id of an item with one.
SegmentRowsIn(table) ==
  \A x \in Ids : table[x] # NoRow /\ BySegment(table[x]) => x \in SegmentedIds

\* What the holder of the lock sees accounts for the items behind it; a row with a
\* segment stays in it; an item that does not go to a row of its segment goes to the
\* row of its own id.
ItemsBehind(t) ==
  /\ tx[t].pc \in {"replay", "gateway"} => tx[t].i = 1
  /\ tx[t].locked =>
       /\ SegmentRowsIn(View(t))
       /\ \A x \in Uncommitted(t) :
            reports[x] # NoRow /\ BySegment(reports[x]) => tx[t].writes[x].seg = reports[x].seg
       /\ \A j \in DOMAIN Body[tx[t].req].items :
            LET item == ReceivedItem(tx[t].req, j)
            IN  j < tx[t].i /\ BySegment(item) => AccountedIn(View(t), item, GatewayOf(t))
       /\ tx[t].pc \in {"nextval", "write"}
            /\ (tx[t].action = "insert" \/ ~BySegment(CurrentItem(t)))
            => tx[t].target = CurrentItem(t).id

MergedKept ==
  /\ SegmentRowsIn(reports)
  /\ \A t \in Sessions : ItemsBehind(t)
  /\ MergedItemsAccounted

-----------------------------------------------------------------------------
(* Readers. *)

\* A cursor is a value the sequence has had, what an administrator has got is in the
\* log.
ReadersInRange ==
  /\ \A g \in Readers : cursor[g] <= seq
  /\ \A a \in Admins : audit[a] \subseteq log

\* No cursor has passed a sequence id that is still to be committed.
ReadersBehind ==
  \A g \in Readers, t \in Sessions : tx[t].locked => \A n \in SeqsOf(t) : cursor[g] < n

\* All of it, for the pushes of one gateway.
OneGatewayInv ==
  /\ RowsOfTheGateway
  /\ PendingAbove
  /\ PendingIds
  /\ FiniteTables
  /\ OneRowKept
  /\ (SameItemsPerKey /\ IdsKeepSegment => MergedKept)

SyncInv ==
  /\ InductiveInv
  /\ SyncTypeOK
  /\ ReadersInRange
  /\ OneGateway => OneGatewayInv /\ ReadersBehind /\ NothingSkipped /\ NoEntrySkipped
=============================================================================
