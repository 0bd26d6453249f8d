---------------------------- MODULE SyncPushRows ----------------------------
(***************************************************************************)
(* What happens to a stored report: pushes never remove it, never change   *)
(* its kind and, if it is an SOS, never change it at all.                  *)
(***************************************************************************)
EXTENDS SyncPushSafety

\* The rows of table reports survive the step.
RowsSurvive ==
  \A x \in Ids : reports[x] # NoRow =>
    /\ reports'[x] # NoRow
    /\ reports'[x].kind = reports[x].kind
    /\ reports[x].kind = "sos" => reports'[x] = reports[x]

\* Unless it commits, a step leaves table reports alone.
LEMMA ReportsChangeAtCommit ==
  ASSUME TypeOK, [Next]_vars, reports' # reports
  PROVE  \E t \in Sessions : Commit(t)
<1> USE DEF tables
<1>1. ASSUME NEW t \in Sessions, NEW r \in Requests, Begin(t, r) PROVE FALSE
  BY <1>1, BeginDoes
<1>2. ASSUME NEW t \in Sessions, Moves(t) \/ TouchGateway(t) PROVE FALSE
  BY <1>2, MovesDo, TouchGatewayDoes
<1>3. ASSUME NEW t \in Sessions, NextValue(t) \/ NextLogValue(t) PROVE FALSE
  BY <1>3, NextValuesDo
<1>4. ASSUME NEW t \in Sessions, WriteItem(t) \/ WriteLog(t) PROVE FALSE
  BY <1>4, WriteItemDoes, WriteLogDoes
<1>5. ASSUME NEW t \in Sessions, Resets(t) PROVE FALSE
  BY <1>5, ResetsDo
<1>6. QED
  BY <1>1, <1>2, <1>3, <1>4, <1>5, StepKinds

LEMMA RowsSurviveStep == TypeOK /\ RowLocks /\ [Next]_vars => RowsSurvive
<1> SUFFICES ASSUME TypeOK, RowLocks, [Next]_vars PROVE RowsSurvive
  OBVIOUS
<1>1. CASE reports' = reports
  BY <1>1 DEF RowsSurvive
<1>2. ASSUME NEW t \in Sessions, Commit(t) PROVE RowsSurvive
  <2>1. reports' = View(t)
    BY <1>2, CommitDoes
  <2>2. QED
    BY <2>1 DEF View, RowLocks, RowsSurvive
<1>3. QED
  BY <1>1, <1>2, ReportsChangeAtCommit
-----------------------------------------------------------------------------
(* A planned UPDATE fits the row it will replace. *)

LEMMA DecisionFits ==
  ASSUME NEW table, NEW item \in Item, NEW gw, ~KindConflict(table, item),
         Decision(table, item, gw).action = "update"
  PROVE  LET x == Decision(table, item, gw).id
         IN  table[x] # NoRow /\ table[x].kind = item.kind /\ item.kind # "sos"
<1> DEFINE x == CHOOSE y \in Found(table, item) : TRUE
<1>1. item.kind # "sos"
  BY DEF Decision, DecideSosMerge
<1>2. Found(table, item) # {} /\ Decision(table, item, gw).id = x
  BY <1>1 DEF Decision, DecideRoadLikeMerge
<1>3. x \in Found(table, item)
  BY <1>2
<1> HIDE DEF x
<1>4. table[x] # NoRow
  BY <1>3 DEF Found, Canonical
<1>5. table[x].kind = item.kind
  BY <1>3 DEF KindConflict
<1>6. QED
  BY <1>1, <1>2, <1>4, <1>5

\* A session that is not stepping keeps its plan, whoever commits.
LEMMA FitsOthers ==
  ASSUME TypeOK, RowsSurvive, NEW u \in Sessions, tx'[u] = tx[u], Fits(u)
  PROVE  Fits(u)'
<1> SUFFICES ASSUME tx[u].pc \in {"nextval", "write"}, tx[u].action = "update"
             PROVE  /\ View(u)'[tx[u].target] # NoRow
                    /\ View(u)'[tx[u].target].kind = CurrentItem(u).kind
                    /\ CurrentItem(u).kind # "sos"
  BY DEF Fits, CurrentItem
<1>1. tx[u].target \in Ids
  BY SessionType DEF Session
<1>2. /\ View(u)[tx[u].target] # NoRow
      /\ View(u)[tx[u].target].kind = CurrentItem(u).kind
      /\ CurrentItem(u).kind # "sos"
  BY DEF Fits
<1>3. QED
  BY <1>1, <1>2 DEF View, RowsSurvive

LEMMA FitsReadItem ==
  ASSUME TypeOK, NEW t \in Sessions, ReadItem(t)
  PROVE  Fits(t)'
<1> DEFINE d == Decision(View(t), CurrentItem(t), GatewayOf(t))
<1>0. tx[t] \in Session
  BY SessionType
<1>1. /\ tx'[t] = [tx[t] EXCEPT !.pc = "nextval", !.action = d.action, !.target = d.id]
      /\ HasItem(t) /\ ~KindConflict(View(t), CurrentItem(t)) /\ reports' = reports
  BY BecomesOthers DEF ReadItem, tables
<1>2. d.action = "update" =>
        /\ View(t)[d.id] # NoRow
        /\ View(t)[d.id].kind = CurrentItem(t).kind
        /\ CurrentItem(t).kind # "sos"
  BY <1>1, CurrentItemType, DecisionFits
<1> HIDE DEF d
<1>3. /\ tx'[t].action = d.action /\ tx'[t].target = d.id
      /\ tx'[t].req = tx[t].req /\ tx'[t].i = tx[t].i /\ tx'[t].writes = tx[t].writes
  BY <1>0, <1>1 DEF Session
<1>4. View(t)' = View(t) /\ CurrentItem(t)' = CurrentItem(t)
  BY <1>1, <1>3 DEF View, CurrentItem
<1>5. QED
  BY <1>2, <1>3, <1>4 DEF Fits

LEMMA FitsNextValue ==
  ASSUME TypeOK, NEW t \in Sessions, NextValue(t), Fits(t)
  PROVE  Fits(t)'
<1>1. /\ \A f \in {"req", "i", "action", "target", "writes"} : tx'[t][f] = tx[t][f]
      /\ tx[t].pc = "nextval" /\ reports' = reports
  BY NextValuesDo DEF NextValue, tables
<1>2. View(t)' = View(t) /\ CurrentItem(t)' = CurrentItem(t)
  BY <1>1 DEF View, CurrentItem
<1>3. QED
  BY <1>1, <1>2 DEF Fits

LEMMA FitsStep ==
  TypeOK /\ SessionShape /\ RowLocks /\ UpdatesFitTheirRow /\ [Next]_vars
    => UpdatesFitTheirRow'
<1> SUFFICES ASSUME TypeOK, SessionShape, RowLocks, UpdatesFitTheirRow, [Next]_vars,
                    NEW u \in Sessions
             PROVE  Fits(u)'
  BY DEF UpdatesFitTheirRow
<1>1. CASE tx'[u] = tx[u]
  BY <1>1, FitsOthers, RowsSurviveStep DEF UpdatesFitTheirRow
<1>2. CASE tx'[u].pc \notin {"nextval", "write"}
  BY <1>2 DEF Fits
<1>3. ASSUME NEW t \in Sessions, NEW r \in Requests, Begin(t, r) PROVE Fits(u)'
  BY <1>1, <1>2, <1>3, BeginDoes DEF Alone
<1>4. ASSUME NEW t \in Sessions, Moves(t) PROVE Fits(u)'
  BY <1>1, <1>2, <1>4, MovesDo, FitsReadItem DEF Alone
<1>5. ASSUME NEW t \in Sessions, TouchGateway(t) PROVE Fits(u)'
  BY <1>1, <1>2, <1>5, TouchGatewayDoes DEF Alone
<1>6. ASSUME NEW t \in Sessions, NextValue(t) PROVE Fits(u)'
  BY <1>1, <1>6, NextValuesDo, FitsNextValue DEF Alone, UpdatesFitTheirRow
<1>7. ASSUME NEW t \in Sessions, NextLogValue(t) PROVE Fits(u)'
  <2>1. tx[t].pc = "item"
    BY <1>7 DEF NextLogValue
  <2>2. QED
    BY <1>1, <1>2, <1>7, <2>1, NextValuesDo DEF Alone
<1>8. ASSUME NEW t \in Sessions, WriteItem(t) \/ WriteLog(t) PROVE Fits(u)'
  BY <1>1, <1>2, <1>8, WriteItemDoes, WriteLogDoes DEF Alone
<1>9. ASSUME NEW t \in Sessions, Commit(t) PROVE Fits(u)'
  BY <1>1, <1>2, <1>9, CommitDoes DEF Alone
<1>10. ASSUME NEW t \in Sessions, Resets(t) PROVE Fits(u)'
  BY <1>1, <1>2, <1>10, ResetsDo DEF Alone
<1>11. QED
  BY <1>1, <1>3, <1>4, <1>5, <1>6, <1>7, <1>8, <1>9, <1>10, StepKinds
-----------------------------------------------------------------------------
(* One writer per row. *)

LEMMA RowLocksKept ==
  ASSUME RowLocks, reports' = reports,
         \A u \in Sessions : tx'[u].writes = tx[u].writes \/ tx'[u].writes = NoWrites
  PROVE  RowLocks'
<1>1. \A u \in Sessions, x \in Ids :
        tx'[u].writes[x] # NoRow => tx[u].writes[x] # NoRow /\ tx'[u].writes = tx[u].writes
  BY DEF NoWrites
<1>2. QED
  BY <1>1 DEF RowLocks

LEMMA RowLocksWriteItem ==
  ASSUME TypeOK, SessionShape, RowLocks, UpdatesFitTheirRow, NEW t \in Sessions, WriteItem(t)
  PROVE  RowLocks'
<1> DEFINE w == tx[t].target
<1>0. /\ tx[t] \in Session /\ w \in Ids /\ tx[t].writes \in [Ids -> Row \cup {NoRow}]
      /\ HasItem(t) /\ tx[t].pc = "write"
  BY SessionType, WriteItemDoes DEF Session, SessionShape, Shape
<1>1. /\ tx'[t].writes = [tx[t].writes EXCEPT ![w] = NewRow(t)]
      /\ reports' = reports
      /\ \A u \in Sessions \ {t} : tx'[u] = tx[u] /\ tx[u].writes[w] = NoRow
  BY WriteItemDoes DEF Alone, RowHolders, tables
<1>2. \A x \in Ids : x # w => tx'[t].writes[x] = tx[t].writes[x]
  BY <1>0, <1>1
<1>3. tx'[t].writes[w].kind = CurrentItem(t).kind
  BY <1>0, <1>1 DEF NewRow, StoredRow
<1>4. ASSUME reports[w] # NoRow
      PROVE  reports[w].kind = CurrentItem(t).kind /\ reports[w].kind # "sos"
  <2>1. View(t)[w] # NoRow
    BY <1>0, <1>4 DEF View
  <2>2. tx[t].action = "update"
    BY <1>0, <2>1, WriteItemDoes DEF WriteViolatesConstraint, Session
  <2>3. View(t)[w].kind = CurrentItem(t).kind /\ CurrentItem(t).kind # "sos"
    BY <1>0, <2>2 DEF UpdatesFitTheirRow, Fits
  <2>4. CASE tx[t].writes[w] # NoRow
    BY <1>0, <1>4, <2>3, <2>4 DEF View, RowLocks
  <2>5. CASE tx[t].writes[w] = NoRow
    BY <1>0, <2>3, <2>5 DEF View
  <2>6. QED
    BY <2>4, <2>5
<1> HIDE DEF w
<1>5. ASSUME NEW x \in Ids, NEW u \in Sessions, tx'[u].writes[x] # NoRow,
             reports[x] # NoRow
      PROVE  reports[x].kind = tx'[u].writes[x].kind /\ reports[x].kind # "sos"
  <2>1. CASE u = t /\ x = w
    BY <1>3, <1>4, <1>5, <2>1
  <2>2. CASE u # t \/ x # w
    <3>1. tx'[u].writes[x] = tx[u].writes[x]
      BY <1>1, <1>2, <2>2
    <3>2. QED
      BY <1>5, <3>1 DEF RowLocks
  <2>3. QED
    BY <2>1, <2>2
<1>6. ASSUME NEW x \in Ids, NEW u \in Sessions, NEW v \in Sessions, u # v,
             tx'[u].writes[x] # NoRow, tx'[v].writes[x] # NoRow
      PROVE  FALSE
  <2>1. CASE x = w
    <3>1. \A s \in Sessions \ {t} : tx'[s].writes[w] = NoRow
      BY <1>1
    <3>2. QED
      BY <1>6, <2>1, <3>1
  <2>2. CASE x # w
    <3>1. \A s \in Sessions : tx'[s].writes[x] = tx[s].writes[x]
      BY <1>1, <1>2, <2>2
    <3>2. QED
      BY <1>6, <3>1 DEF RowLocks
  <2>3. QED
    BY <2>1, <2>2
<1>7. QED
  BY <1>1, <1>5, <1>6 DEF RowLocks

LEMMA RowLocksCommit ==
  ASSUME TypeOK, RowLocks, NEW t \in Sessions, Commit(t)
  PROVE  RowLocks'
<1>1. /\ reports' = View(t) /\ tx'[t].writes = NoWrites
      /\ \A u \in Sessions \ {t} : tx'[u] = tx[u]
  BY CommitDoes DEF Alone
<1>2. ASSUME NEW u \in Sessions, NEW x \in Ids, tx'[u].writes[x] # NoRow
      PROVE  u # t /\ tx'[u] = tx[u] /\ reports'[x] = reports[x]
  <2>1. u # t
    BY <1>1, <1>2 DEF NoWrites
  <2>2. tx[t].writes[x] = NoRow
    BY <1>1, <1>2, <2>1 DEF RowLocks
  <2>3. QED
    BY <1>1, <2>1, <2>2 DEF View
<1>3. QED
  BY <1>2 DEF RowLocks

LEMMA RowLocksStep ==
  TypeOK /\ SessionShape /\ RowLocks /\ UpdatesFitTheirRow /\ [Next]_vars => RowLocks'
<1> SUFFICES ASSUME TypeOK, SessionShape, RowLocks, UpdatesFitTheirRow, [Next]_vars
             PROVE  RowLocks'
  OBVIOUS
<1> USE DEF tables
<1>1. CASE UNCHANGED <<sequences, tables, tx>>
  BY <1>1, RowLocksKept
<1>2. ASSUME NEW t \in Sessions, NEW r \in Requests, Begin(t, r) PROVE RowLocks'
  BY <1>2, BeginDoes, RowLocksKept DEF Alone, Bare
<1>3. ASSUME NEW t \in Sessions, Moves(t) PROVE RowLocks'
  BY <1>3, MovesDo, RowLocksKept DEF Alone
<1>4. ASSUME NEW t \in Sessions, TouchGateway(t) PROVE RowLocks'
  BY <1>4, TouchGatewayDoes, RowLocksKept DEF Alone
<1>5. ASSUME NEW t \in Sessions, NextValue(t) \/ NextLogValue(t) PROVE RowLocks'
  BY <1>5, NextValuesDo, RowLocksKept DEF Alone
<1>6. ASSUME NEW t \in Sessions, WriteLog(t) PROVE RowLocks'
  BY <1>6, WriteLogDoes, RowLocksKept DEF Alone
<1>7. ASSUME NEW t \in Sessions, Resets(t) PROVE RowLocks'
  BY <1>7, ResetsDo, RowLocksKept DEF Alone, Bare
<1>8. QED
  BY <1>1, <1>2, <1>3, <1>4, <1>5, <1>6, <1>7, RowLocksWriteItem, RowLocksCommit, StepKinds
-----------------------------------------------------------------------------
LEMMA RowLocksInit == Init => RowLocks /\ UpdatesFitTheirRow
<1> SUFFICES ASSUME Init PROVE RowLocks /\ UpdatesFitTheirRow
  OBVIOUS
<1>1. \A t \in Sessions : tx[t].pc = "idle" /\ tx[t].writes = NoWrites
  BY IdleIsBare DEF Init, Bare
<1>2. QED
  BY <1>1 DEF RowLocks, UpdatesFitTheirRow, Fits, NoWrites

\* No push of any client, in any order or concurrency, changes a stored SOS,
\* removes a report or changes the kind of one.
THEOREM StoredSosIsFinal == Spec => SosWriteOnce
<1> DEFINE I == TypeOK /\ SessionShape /\ RowLocks /\ UpdatesFitTheirRow
<1>1. Init => I
  BY TypeInit, ShapeInit, RowLocksInit
<1>2. I /\ [Next]_vars => I'
  BY TypeStep, ShapeStep, RowLocksStep, FitsStep
<1>3. I /\ [Next]_vars =>
        [\A x \in Ids : reports[x] # NoRow =>
           /\ reports'[x] # NoRow /\ reports'[x].kind = reports[x].kind
           /\ reports[x].kind = "sos" => reports'[x] = reports[x]]_vars
  BY RowsSurviveStep DEF RowsSurvive
<1>4. QED
  BY <1>1, <1>2, <1>3, PTL DEF Spec, SosWriteOnce

-----------------------------------------------------------------------------
(* What an accepted push reports by primary key is stored. *)

\* What session u has seen stays, with its kind.
ViewGrows(u) ==
  \A x \in Ids : View(u)[x] # NoRow =>
    View(u)'[x] # NoRow /\ View(u)'[x].kind = View(u)[x].kind

LEMMA NewRowIsRow ==
  ASSUME TypeOK, SessionShape, NEW t \in Sessions, WriteItem(t)
  PROVE  /\ HasItem(t) /\ tx[t].target \in Ids
         /\ NewRow(t) # NoRow /\ NewRow(t).kind = CurrentItem(t).kind
         /\ tx'[t].writes[tx[t].target] = NewRow(t)
         /\ \A x \in Ids \ {tx[t].target} : tx'[t].writes[x] = tx[t].writes[x]
<1>1. /\ HasItem(t) /\ tx[t].target \in Ids /\ tx[t].seq \in Nat
      /\ tx[t].writes \in [Ids -> Row \cup {NoRow}]
  BY SessionType DEF WriteItem, SessionShape, Shape, Session
<1>2. NewRow(t) \in Row
  BY <1>1, CurrentItemType, SessionType, StoredRowType DEF NewRow
<1>3. NewRow(t).kind = CurrentItem(t).kind
  BY DEF NewRow, StoredRow
<1>4. tx'[t].writes = [tx[t].writes EXCEPT ![tx[t].target] = NewRow(t)]
  BY WriteItemDoes
<1>5. QED
  BY <1>1, <1>2, <1>3, <1>4, NoRowIsNoRow

LEMMA ViewSurvives ==
  ASSUME TypeOK, SessionShape, RowLocks, UpdatesFitTheirRow, [Next]_vars, NEW u \in Sessions,
         tx'[u].writes = tx[u].writes \/ WriteItem(u) \/ Commit(u)
  PROVE  ViewGrows(u)
<1>1. CASE tx'[u].writes = tx[u].writes
  BY <1>1, RowsSurviveStep DEF View, RowsSurvive, ViewGrows
<1>2. CASE WriteItem(u)
  <2> DEFINE w == tx[u].target
  <2>1. reports' = reports
    BY <1>2, WriteItemDoes DEF tables
  <2>2. /\ w \in Ids /\ NewRow(u) # NoRow /\ NewRow(u).kind = CurrentItem(u).kind
        /\ tx'[u].writes[w] = NewRow(u)
        /\ \A x \in Ids \ {w} : tx'[u].writes[x] = tx[u].writes[x]
    BY <1>2, NewRowIsRow
  <2>3. ASSUME View(u)[w] # NoRow PROVE View(u)[w].kind = CurrentItem(u).kind
    <3>1. tx[u].action = "update" /\ tx[u].pc = "write"
      BY <1>2, <2>3, WriteItemDoes, SessionType DEF WriteViolatesConstraint, Session
    <3>2. QED
      BY <3>1 DEF UpdatesFitTheirRow, Fits
  <2> HIDE DEF w
  <2>4. View(u)'[w] = NewRow(u) /\ \A x \in Ids \ {w} : View(u)'[x] = View(u)[x]
    BY <2>1, <2>2 DEF View
  <2>5. QED
    BY <2>2, <2>3, <2>4 DEF ViewGrows
<1>3. CASE Commit(u)
  <2>1. reports' = View(u) /\ tx'[u].writes = NoWrites
    BY <1>3, CommitDoes
  <2>2. \A x \in Ids : View(u)'[x] = View(u)[x]
    BY <2>1 DEF View, NoWrites
  <2>3. QED
    BY <2>2 DEF ViewGrows
<1>4. QED
  BY <1>1, <1>2, <1>3

LEMMA SentItems ==
  ASSUME NEW r \in Requests, NEW j \in DOMAIN Body[r].items
  PROVE  j \in Nat \ {0} /\ j <= Len(Body[r].items) /\ Body[r].items[j] \in Item
         /\ Body[r].items[j].id \in Ids
<1>1. Body[r].items \in Seq(Item)
  BY BodyIsPush DEF Push
<1>2. j \in Nat \ {0} /\ j <= Len(Body[r].items) /\ Body[r].items[j] \in Item
  BY <1>1
<1>3. QED
  BY <1>2 DEF Item

\* The conversion of a received item leaves its id and its kind alone.
LEMMA ReceivedItems ==
  ASSUME NEW r \in Requests, NEW j \in DOMAIN Body[r].items
  PROVE  ReceivedItem(r, j) \in Item /\ ReceivedItem(r, j).id \in Ids
         /\ ReceivedItem(r, j).kind \in Kinds
<1>1. Body[r].items[j] \in Item
  BY SentItems
<1>2. ReceivedItem(r, j) \in Item
  BY <1>1 DEF ReceivedItem, Item
<1>3. QED
  BY <1>2 DEF Item

\* An item without a segment is merged with the row of its own id: it is written there,
\* or it is left out because there is a row of its kind.
LEMMA DecisionById ==
  ASSUME NEW table, NEW item \in Item, NEW gw, ~BySegment(item), ~KindConflict(table, item)
  PROVE  /\ Decision(table, item, gw).id = item.id
         /\ Decision(table, item, gw).action = "noop" => StoredAs(table, item.id, item.kind)
<1>1. Found(table, item) \subseteq {item.id}
  BY DEF Found
<1>2. Found(table, item) # {} => (CHOOSE y \in Found(table, item) : TRUE) = item.id
  BY <1>1
<1>3. Decision(table, item, gw).id = item.id
  BY <1>2 DEF Decision, DecideSosMerge, DecideRoadLikeMerge
<1>4. Decision(table, item, gw).action = "noop" => Found(table, item) # {}
  BY DEF Decision, DecideSosMerge, DecideRoadLikeMerge
<1>5. item.id \in Found(table, item) => StoredAs(table, item.id, item.kind)
  BY DEF Found, KindConflict, StoredAs
<1>6. QED
  BY <1>1, <1>3, <1>4, <1>5

LEMMA ItemsStay ==
  ASSUME NEW u, ItemsOnTheWay(u), ViewGrows(u), TypeOK, u \in Sessions,
         \A f \in {"req", "i", "touched"} : tx'[u][f] = tx[u][f],
         tx'[u].pc \in {"nextval", "write"} =>
           tx[u].pc \in {"nextval", "write"} /\ tx'[u].target = tx[u].target,
         tx'[u].pc \in {"log", "commit"} => tx[u].pc \in {"log", "commit"} \/ ~HasItem(u)
  PROVE  ItemsOnTheWay(u)'
<1> DEFINE item(j) == ReceivedItem(tx[u].req, j)
<1>1. /\ tx'[u].req = tx[u].req /\ tx'[u].i = tx[u].i /\ tx'[u].touched = tx[u].touched
      /\ CurrentItem(u)' = CurrentItem(u) /\ HasItem(u)' = HasItem(u)
  BY DEF CurrentItem, HasItem
<1>2. \A j \in DOMAIN Body[tx[u].req].items : item(j).id \in Ids
  BY SessionType, ReceivedItems
<1>3. tx[u].touched \subseteq Ids
  BY SessionType DEF Session
<1>4. \A j \in DOMAIN Body[tx[u].req].items : j < tx[u].i /\ ~BySegment(item(j)) =>
        StoredAs(View(u)', item(j).id, item(j).kind)
  BY <1>2 DEF ItemsOnTheWay, ViewGrows, StoredAs
<1>5. \A x \in tx[u].touched : View(u)'[x] # NoRow
  BY <1>3 DEF ItemsOnTheWay, ViewGrows
<1>6. QED
  BY <1>1, <1>4, <1>5 DEF ItemsOnTheWay, StoredAs

LEMMA ItemsFromStart ==
  ASSUME NEW u, tx'[u].req \in Requests, tx'[u].i = 1, tx'[u].touched = {},
         tx'[u].pc \in {"idle", "replay"}
  PROVE  ItemsOnTheWay(u)'
<1>1. \A j \in DOMAIN Body[tx'[u].req].items : ~(j < 1)
  BY SentItems
<1>2. QED
  BY <1>1 DEF ItemsOnTheWay

LEMMA ItemInHand ==
  ASSUME TypeOK, NEW t \in Sessions, HasItem(t)
  PROVE  tx[t].i \in DOMAIN Body[tx[t].req].items /\ CurrentItem(t) \in Item
<1>1. Body[tx[t].req] \in Push /\ tx[t].i \in Nat \ {0} /\ tx[t].i <= Len(Body[tx[t].req].items)
  BY SessionType, BodyIsPush DEF Session, HasItem
<1>2. Body[tx[t].req].items \in Seq(Item)
  BY <1>1 DEF Push
<1>3. QED
  BY <1>1, <1>2, CurrentItemType

LEMMA ItemSkipped ==
  ASSUME TypeOK, NEW t \in Sessions, SkipItem(t), ItemsOnTheWay(t)
  PROVE  ItemsOnTheWay(t)'
<1> DEFINE items == Body[tx[t].req].items
           item(j) == ReceivedItem(tx[t].req, j)
<1>0. tx[t] \in Session
  BY SessionType
<1>1. /\ tx'[t] = [tx[t] EXCEPT !.i = @ + 1] /\ tx[t].pc = "item" /\ HasItem(t)
      /\ reports' = reports /\ ~KindConflict(View(t), CurrentItem(t))
      /\ Decision(View(t), CurrentItem(t), GatewayOf(t)).action = "noop"
  BY BecomesOthers DEF SkipItem, tables
<1>2. /\ tx'[t].i = tx[t].i + 1 /\ tx'[t].req = tx[t].req /\ tx'[t].touched = tx[t].touched
      /\ tx'[t].pc = "item" /\ tx'[t].writes = tx[t].writes
  BY <1>0, <1>1 DEF Session
<1>3. View(t)' = View(t)
  BY <1>1, <1>2 DEF View
<1>4. ~BySegment(CurrentItem(t)) => StoredAs(View(t), CurrentItem(t).id, CurrentItem(t).kind)
  BY <1>1, ItemInHand, DecisionById
<1>5. ASSUME NEW j \in DOMAIN items, j < tx[t].i + 1, ~BySegment(item(j))
      PROVE  StoredAs(View(t), item(j).id, item(j).kind)
  <2>1. j \in Nat /\ tx[t].i \in Nat
    BY <1>0, SentItems, SessionType DEF Session
  <2>2. j < tx[t].i \/ j = tx[t].i
    BY <1>5, <2>1
  <2>3. QED
    BY <1>4, <1>5, <2>2 DEF ItemsOnTheWay, CurrentItem
<1>6. QED
  BY <1>2, <1>3, <1>5 DEF ItemsOnTheWay

LEMMA ItemRead ==
  ASSUME TypeOK, NEW t \in Sessions, ReadItem(t), ItemsOnTheWay(t)
  PROVE  ItemsOnTheWay(t)'
<1> DEFINE item == CurrentItem(t)
           d == Decision(View(t), item, GatewayOf(t))
<1>0. tx[t] \in Session
  BY SessionType
<1>1. /\ tx'[t] = [tx[t] EXCEPT !.pc = "nextval", !.action = d.action, !.target = d.id]
      /\ reports' = reports /\ HasItem(t) /\ ~KindConflict(View(t), item)
  BY BecomesOthers DEF ReadItem, tables
<1>2. ~BySegment(item) => d.id = item.id
  BY <1>1, ItemInHand, DecisionById
<1> HIDE DEF d
<1>3. /\ tx'[t].i = tx[t].i /\ tx'[t].req = tx[t].req /\ tx'[t].touched = tx[t].touched
      /\ tx'[t].pc = "nextval" /\ tx'[t].writes = tx[t].writes /\ tx'[t].target = d.id
  BY <1>0, <1>1 DEF Session
<1>4. View(t)' = View(t) /\ CurrentItem(t)' = item
  BY <1>1, <1>3 DEF View, CurrentItem
<1>5. QED
  BY <1>2, <1>3, <1>4 DEF ItemsOnTheWay

LEMMA ItemWritten ==
  ASSUME TypeOK, SessionShape, NEW t \in Sessions, WriteItem(t), ItemsOnTheWay(t), ViewGrows(t)
  PROVE  ItemsOnTheWay(t)'
<1> DEFINE items == Body[tx[t].req].items
           item(j) == ReceivedItem(tx[t].req, j)
           w == tx[t].target
<1>0. tx[t] \in Session
  BY SessionType
<1>1. /\ tx'[t].i = tx[t].i + 1 /\ tx'[t].req = tx[t].req
      /\ tx'[t].touched = tx[t].touched \cup {w}
      /\ tx'[t].pc = "item" /\ tx[t].pc = "write"
  BY WriteItemDoes, CountersWrite
<1>2. /\ HasItem(t) /\ w \in Ids /\ NewRow(t) # NoRow /\ NewRow(t).kind = CurrentItem(t).kind
      /\ tx'[t].writes[w] = NewRow(t)
  BY NewRowIsRow
<1>3. StoredAs(View(t)', w, CurrentItem(t).kind)
  BY <1>2 DEF View, StoredAs
<1>4. ~BySegment(CurrentItem(t)) => w = CurrentItem(t).id
  BY <1>1 DEF ItemsOnTheWay
<1>5. /\ \A j \in DOMAIN items : item(j).id \in Ids /\ j \in Nat
      /\ tx[t].touched \subseteq Ids /\ tx[t].i \in Nat
  BY <1>0, SessionType, SentItems, ReceivedItems DEF Session
<1> HIDE DEF w
<1>6. ASSUME NEW j \in DOMAIN items, j < tx[t].i + 1, ~BySegment(item(j))
      PROVE  StoredAs(View(t)', item(j).id, item(j).kind)
  <2>1. j < tx[t].i \/ j = tx[t].i
    BY <1>5, <1>6
  <2>2. CASE j < tx[t].i
    BY <1>5, <1>6, <2>2 DEF ItemsOnTheWay, ViewGrows, StoredAs
  <2>3. CASE j = tx[t].i
    BY <1>3, <1>4, <1>6, <2>3 DEF CurrentItem
  <2>4. QED
    BY <2>1, <2>2, <2>3
<1>7. \A x \in tx[t].touched \cup {w} : View(t)'[x] # NoRow
  BY <1>3, <1>5 DEF ItemsOnTheWay, ViewGrows, StoredAs
<1>8. QED
  BY <1>1, <1>6, <1>7 DEF ItemsOnTheWay, StoredAs

LEMMA ItemsOnTheWayStep ==
  ASSUME TypeOK, SessionShape, RowLocks, UpdatesFitTheirRow, [Next]_vars,
         NEW u \in Sessions, ItemsOnTheWay(u)
  PROVE  ItemsOnTheWay(u)'
<1>0. tx'[u].req \in Requests /\ tx[u].pc \in Steps
  BY TypeStep, SessionType DEF TypeOK, Session
<1>1. CASE tx'[u] = tx[u]
  BY <1>1, ViewSurvives, ItemsStay
<1>2. ASSUME NEW r \in Requests, Begin(u, r) PROVE ItemsOnTheWay(u)'
  BY <1>0, <1>2, BeginDoes, CountersStart, ItemsFromStart
<1>3. CASE Resets(u)
  BY <1>0, <1>3, ResetsDo, CountersStart, ItemsFromStart
<1>4. CASE FindReplay(u) \/ FindNoReplay(u)
  <2>1. /\ \A f \in {"req", "i", "touched", "writes"} : tx'[u][f] = tx[u][f]
        /\ tx'[u].pc \notin {"nextval", "write", "log", "commit"}
    <3>1. ~SkipItem(u) /\ ~ReadItem(u) /\ tx[u].pc = "replay" /\ Moves(u)
      BY <1>4 DEF FindReplay, FindNoReplay, SkipItem, ReadItem, Moves
    <3>2. QED
      BY <3>1, MovesDo, CountersMove
  <2>2. QED
    BY <2>1, ViewSurvives, ItemsStay
<1>5. CASE SkipItem(u) \/ ReadItem(u)
  BY <1>5, ItemSkipped, ItemRead
<1>6. CASE TouchGateway(u)
  BY <1>6, TouchGatewayDoes, CountersKept, ViewSurvives, ItemsStay
<1>7. CASE NextValue(u) \/ NextLogValue(u)
  <2>1. tx'[u].pc \in {"log", "commit"} => ~HasItem(u)
    BY <1>7, NextValuesDo DEF NextValue, NextLogValue
  <2>2. tx'[u].pc \in {"nextval", "write"} => tx[u].pc = "nextval"
    BY <1>7, NextValuesDo
  <2>3. QED
    BY <1>7, <2>1, <2>2, NextValuesDo, CountersKept, ViewSurvives, ItemsStay
<1>8. CASE WriteItem(u)
  BY <1>8, ViewSurvives, ItemWritten
<1>9. CASE WriteLog(u)
  BY <1>9, WriteLogDoes, CountersKept, ViewSurvives, ItemsStay
<1>10. CASE Commit(u)
  BY <1>10, CommitDoes, CountersKept, ViewSurvives, ItemsStay
<1>11. ASSUME NEW t \in Sessions, NEW r \in Requests, Begin(t, r) PROVE ItemsOnTheWay(u)'
  BY <1>1, <1>2, <1>11, BeginDoes DEF Alone
<1>12. ASSUME NEW t \in Sessions, Moves(t) \/ TouchGateway(t) PROVE ItemsOnTheWay(u)'
  BY <1>1, <1>4, <1>5, <1>6, <1>12, MovesDo, TouchGatewayDoes DEF Alone, Moves
<1>13. ASSUME NEW t \in Sessions, NextValue(t) \/ NextLogValue(t) PROVE ItemsOnTheWay(u)'
  BY <1>1, <1>7, <1>13, NextValuesDo DEF Alone
<1>14. ASSUME NEW t \in Sessions, WriteItem(t) \/ WriteLog(t) PROVE ItemsOnTheWay(u)'
  BY <1>1, <1>8, <1>9, <1>14, WriteItemDoes, WriteLogDoes DEF Alone
<1>15. ASSUME NEW t \in Sessions, Commit(t) \/ Resets(t) PROVE ItemsOnTheWay(u)'
  BY <1>1, <1>3, <1>10, <1>15, CommitDoes, ResetsDo DEF Alone
<1>16. QED
  BY <1>1, <1>11, <1>12, <1>13, <1>14, <1>15, StepKinds

\* A commit stores what its push reports by primary key, or finds it stored.
LEMMA CommitStores ==
  ASSUME TypeOK, NEW t \in Sessions, Commit(t), ItemsOnTheWay(t),
         NEW p \in ReportedById(tx[t].req)
  PROVE  StoredAs(View(t), p[1], p[2])
<1> DEFINE item(j) == ReceivedItem(tx[t].req, j)
<1>1. PICK j \in DOMAIN Body[tx[t].req].items :
        ~BySegment(item(j)) /\ p = <<item(j).id, item(j).kind>>
  BY DEF ReportedById
<1>2. ~HasItem(t)
  BY CommitDoes DEF ItemsOnTheWay, Commit
<1>3. j \in Nat /\ j <= Len(Body[tx[t].req].items) /\ tx[t].i \in Nat
      /\ Len(Body[tx[t].req].items) \in Nat
  BY SentItems, SessionType, BodyIsPush DEF Session, Push
<1>4. j < tx[t].i
  BY <1>2, <1>3 DEF HasItem
<1>5. QED
  BY <1>1, <1>4 DEF ItemsOnTheWay

LEMMA ReportedUnderKey ==
  ASSUME NEW r \in Requests, NEW p
  PROVE  /\ p \in Reported[Key(r)] => p \in ReportedById(r) /\ p[1] \in Ids
         /\ (\A s \in Requests : Key(s) = Key(r) => p \in ReportedById(s)) /\ p \in Ids \X Kinds
              => p \in Reported[Key(r)]
<1>1. Reported[Key(r)] =
        {q \in UNION {ReportedById(s) : s \in SentUnder(Key(r))} :
           \A s \in SentUnder(Key(r)) : q \in ReportedById(s)}
  BY DEF Reported
<1>2. r \in SentUnder(Key(r)) /\ \A s \in SentUnder(Key(r)) : s \in Requests /\ Key(s) = Key(r)
  BY DEF SentUnder
<1>3. p \in ReportedById(r) => p[1] \in Ids
  BY ReceivedItems DEF ReportedById
<1>4. QED
  BY <1>1, <1>2, <1>3

LEMMA RecordedReportsStep ==
  ASSUME TypeOK, SessionShape, RowLocks, UpdatesFitTheirRow, RecordedReportsStored, [Next]_vars,
         \A t \in Sessions : ItemsOnTheWay(t)
  PROVE  RecordedReportsStored'
<1> SUFFICES ASSUME NEW r \in Requests, Logged(Key(r))', NEW p \in Reported[Key(r)]
             PROVE  StoredAs(reports', p[1], p[2])
  BY DEF RecordedReportsStored, Reported, Key, StoredAs
<1>0. p[1] \in Ids
  BY ReportedUnderKey
<1>1. CASE Logged(Key(r))
  BY <1>0, <1>1, RowsSurviveStep DEF RecordedReportsStored, RowsSurvive, StoredAs
<1>2. CASE ~Logged(Key(r))
  <2>1. PICK t \in Sessions : Commit(t)
    <3>1. log' # log
      BY <1>2 DEF Logged, Key
    <3>2. ASSUME NEW t \in Sessions, Moves(t) \/ TouchGateway(t) \/ Resets(t) PROVE log' = log
      BY <3>2, MovesDo, TouchGatewayDoes, ResetsDo DEF tables
    <3>3. ASSUME NEW t \in Sessions, NEW s \in Requests, Begin(t, s) PROVE log' = log
      BY <3>3, BeginDoes DEF tables
    <3>4. ASSUME NEW t \in Sessions,
                 NextValue(t) \/ NextLogValue(t) \/ WriteItem(t) \/ WriteLog(t)
          PROVE  log' = log
      BY <3>4, NextValuesDo, WriteItemDoes, WriteLogDoes DEF tables
    <3>5. QED
      BY <3>1, <3>2, <3>3, <3>4, StepKinds DEF tables
  <2>2. PICK l \in tx[t].log : tx[t].log = {l} /\ l.key = Key(tx[t].req)
    BY <2>1, CommitDoes DEF SessionShape, Shape
  <2>3. Key(tx[t].req) = Key(r)
    BY <1>2, <2>1, <2>2, CommitDoes DEF Logged, Key
  <2>4. tx[t].req \in Requests /\ p \in ReportedById(tx[t].req)
    BY <2>1, <2>3, SessionType, ReportedUnderKey DEF Session
  <2>5. QED
    BY <2>1, <2>4, CommitStores, CommitDoes
<1>3. QED
  BY <1>1, <1>2

LEMMA QueueGrowsAtReply ==
  ASSUME [Next]_vars, queue' # queue
  PROVE  \E t \in Sessions : Reply(t)
<1>1. \A t \in Sessions : ~Fail(t) /\ ~BrokerError(t) /\ ~Crash(t)
  BY DEF Fail, BrokerError, Crash, RollBack
<1>2. \A t \in Sessions : ~RejectKind(t) /\ ~WriteError(t) /\ ~LogError(t) /\ ~DeadlockVictim(t)
  BY DEF RejectKind, WriteError, LogError, DeadlockVictim, RollBack
<1>3. \A t \in Sessions : /\ ~FindReplay(t) /\ ~FindNoReplay(t) /\ ~TouchGateway(t)
                          /\ ~SkipItem(t) /\ ~ReadItem(t) /\ ~WriteItem(t)
  BY DEF FindReplay, FindNoReplay, TouchGateway, SkipItem, ReadItem, WriteItem
<1>4. \A t \in Sessions : ~NextValue(t) /\ ~NextLogValue(t) /\ ~WriteLog(t) /\ ~Commit(t)
  BY DEF NextValue, NextLogValue, WriteLog, Commit
<1>5. \A r \in Requests : ~Refuse(r) /\ \A t \in Sessions : ~Begin(t, r)
  BY DEF Refuse, Begin
<1>6. ~Tick /\ ~UNCHANGED vars
  BY DEF Tick, vars
<1>7. QED
  BY <1>1, <1>2, <1>3, <1>4, <1>5, <1>6 DEF Next, Work

LEMMA QueuedStep ==
  ASSUME TypeOK, SessionShape, RowLocks, QueuedAreStored, [Next]_vars,
         \A t \in Sessions : ItemsOnTheWay(t)
  PROVE  QueuedAreStored'
<1>1. \A k : Logged(k) => Logged(k)'
  BY LogGrows DEF Logged
<1>2. \A x \in Ids : reports[x] # NoRow => reports'[x] # NoRow
  BY RowsSurviveStep DEF RowsSurvive
<1>3. ASSUME NEW q \in queue PROVE Logged(q.key)' /\ \A x \in q.ids : reports'[x] # NoRow
  <2>1. q.ids \subseteq Ids /\ Logged(q.key) /\ \A x \in q.ids : reports[x] # NoRow
    BY DEF TypeOK, QueuedAreStored
  <2>2. QED
    BY <1>1, <1>2, <2>1
<1>4. ASSUME NEW q \in queue' \ queue
      PROVE  Logged(q.key)' /\ \A x \in q.ids : reports'[x] # NoRow
  <2>1. PICK t \in Sessions : Reply(t)
    BY <1>4, QueueGrowsAtReply
  <2>2. q.key = Key(tx[t].req) /\ q.ids = tx[t].touched
    BY <1>4, <2>1 DEF Reply
  <2>3. Logged(q.key) /\ tx[t].writes = NoWrites
    BY <2>1, <2>2 DEF Reply, SessionShape, Shape, Logged, Working
  <2>4. q.ids \subseteq Ids
    BY <2>2, SessionType DEF Session
  <2>5. \A x \in q.ids : View(t)[x] # NoRow /\ View(t)[x] = reports[x]
    BY <2>2, <2>3, <2>4 DEF ItemsOnTheWay, View, NoWrites
  <2>6. QED
    BY <1>1, <1>2, <2>3, <2>4, <2>5
<1>5. QED
  BY <1>3, <1>4 DEF QueuedAreStored

LEMMA ReportsKeptInit == Init => ReportsKept
<1> SUFFICES ASSUME Init PROVE ReportsKept
  OBVIOUS
<1>1. log = {} /\ queue = {} /\ \A t \in Sessions : tx[t] = IdleSession
  BY DEF Init
<1>2. IdleSession.i = 1
  BY DEF IdleSession
<1>3. IdleSession.touched = {} /\ IdleSession.pc = "idle"
  BY DEF IdleSession
<1>4. ASSUME NEW t \in Sessions PROVE ItemsOnTheWay(t)
  <2>1. tx[t].i = 1 /\ tx[t].touched = {} /\ tx[t].pc = "idle" /\ tx[t].req \in Requests
    BY <1>1, <1>2, <1>3, IdleSessionType DEF Session
  <2>2. \A j \in DOMAIN Body[tx[t].req].items : ~(j < 1)
    BY <2>1, SentItems
  <2>3. QED
    BY <2>1, <2>2 DEF ItemsOnTheWay
<1>5. QED
  BY <1>1, <1>4 DEF ReportsKept, RecordedReportsStored, QueuedAreStored, Logged

LEMMA ReportsKeptStep ==
  TypeOK /\ SessionShape /\ RowLocks /\ UpdatesFitTheirRow /\ ReportsKept /\ [Next]_vars => ReportsKept'
<1> SUFFICES ASSUME TypeOK, SessionShape, RowLocks, UpdatesFitTheirRow, ReportsKept, [Next]_vars
             PROVE  ReportsKept'
  OBVIOUS
<1>1. \A t \in Sessions : ItemsOnTheWay(t)'
  BY ItemsOnTheWayStep DEF ReportsKept
<1>2. RecordedReportsStored' /\ QueuedAreStored'
  BY RecordedReportsStep, QueuedStep DEF ReportsKept
<1>3. QED
  BY <1>1, <1>2 DEF ReportsKept

\* If a client uses a key for one content, as its batch ids are meant to be, what a push
\* that was answered 200 reports by primary key, every SOS for one, is stored, whoever
\* else pushes the same ids; and a triage task is queued for stored reports of a recorded
\* batch only.
THEOREM AcceptedReportsAreStored ==
  ASSUME OneContentPerKey
  PROVE  Spec => []AcceptedReportIsStored
<1> DEFINE I == TypeOK /\ SessionShape /\ RowLocks /\ UpdatesFitTheirRow /\ ReportsKept
                /\ AcceptedIsRecorded
<1>1. Init => I
  BY TypeInit, ShapeInit, RowLocksInit, ReportsKeptInit DEF Init, AcceptedIsRecorded
<1>2. I /\ [Next]_vars => I'
  BY TypeStep, ShapeStep, RowLocksStep, FitsStep, ReportsKeptStep, AcceptedStep
<1>3. I => AcceptedReportIsStored
  <2> SUFFICES ASSUME I PROVE AcceptedReportIsStored
    OBVIOUS
  <2>1. ASSUME NEW a \in answers, a.code = 200, NEW p \in ReportedById(a.req)
        PROVE  StoredAs(reports, p[1], p[2])
    <3>1. a.req \in Requests /\ Logged(Key(a.req))
      BY <2>1 DEF TypeOK, Answer, AcceptedIsRecorded, Logged
    <3>2. p \in Ids \X Kinds
      BY <2>1, <3>1, ReceivedItems DEF ReportedById
    <3>3. p \in Reported[Key(a.req)]
      BY <2>1, <3>1, <3>2, ReportedUnderKey DEF OneContentPerKey
    <3>4. QED
      BY <3>1, <3>3 DEF ReportsKept, RecordedReportsStored
  <2>2. QED
    BY <2>1 DEF AcceptedReportIsStored, ReportsKept, QueuedAreStored
<1>4. QED
  BY <1>1, <1>2, <1>3, PTL DEF Spec

\* Whatever clients do with their keys, triage tasks are queued after the commit, for
\* rows that are stored and a batch that is recorded.
THEOREM QueuedReportsAreStored == Spec => []QueuedAreStored
<1> DEFINE I == TypeOK /\ SessionShape /\ RowLocks /\ UpdatesFitTheirRow /\ ReportsKept
<1>1. Init => I
  BY TypeInit, ShapeInit, RowLocksInit, ReportsKeptInit
<1>2. I /\ [Next]_vars => I'
  BY TypeStep, ShapeStep, RowLocksStep, FitsStep, ReportsKeptStep
<1>3. I => QueuedAreStored
  BY DEF ReportsKept
<1>4. QED
  BY <1>1, <1>2, <1>3, PTL DEF Spec
=============================================================================
