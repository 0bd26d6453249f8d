--------------------------- MODULE SyncPushProofs ---------------------------
(* Theorems of SyncPush, for every value of its constants. *)
EXTENDS SyncPushInv, TLAPS

-----------------------------------------------------------------------------
(* What the helpers return. *)

LEMMA IdleSessionType == IdleSession \in Session
<1>1. (CHOOSE r \in Requests : TRUE) \in Requests
  BY SessionsAndRequests
<1>2. (CHOOSE x \in Ids : TRUE) \in Ids
  BY IdsAreNumbers
<1>3. NoWrites \in [Ids -> Row \cup {NoRow}]
  BY DEF NoWrites
<1>4. QED
  BY <1>1, <1>2, <1>3 DEF IdleSession, Session, Steps

LEMMA KeyType == ASSUME NEW r \in Requests PROVE Key(r) \in Keys
  BY BodyIsPush DEF Key, Keys, Push

LEMMA ItemType ==
  ASSUME NEW r \in Requests, NEW i \in Nat \ {0}, i <= Len(Body[r].items)
  PROVE  ReceivedItem(r, i) \in Item
<1>1. Body[r] \in Push
  BY BodyIsPush
<1>2. Body[r].items[i] \in Item
  BY <1>1 DEF Push
<1>3. QED
  BY <1>2 DEF ReceivedItem, Item

LEMMA StoredRowType ==
  ASSUME NEW item \in Item, NEW gw \in Gateways, NEW n \in Nat
  PROVE  StoredRow(item, gw, n) \in Row
<1>1. TombstoneDeletedAt(item) \in Nat
  BY DEF TombstoneDeletedAt, Item, NoTime
<1>2. IncomingIsTombstone(item) \in BOOLEAN
  BY DEF IncomingIsTombstone, Item
<1>3. QED
  BY <1>1, <1>2 DEF StoredRow, Row, Item, NoTime

LEMMA ViewType ==
  ASSUME TypeOK, NEW t \in Sessions
  PROVE  View(t) \in [Ids -> Row \cup {NoRow}]
<1>1. tx[t] \in Session
  BY DEF TypeOK
<1>2. tx[t].writes \in [Ids -> Row \cup {NoRow}]
  BY <1>1 DEF Session
<1>3. QED
  BY <1>2 DEF TypeOK, View

LEMMA FoundType ==
  ASSUME NEW table, NEW item \in Item
  PROVE  Found(table, item) \subseteq Ids
  BY DEF Found, Canonical, Item

LEMMA DecisionType ==
  ASSUME NEW table, NEW item \in Item, NEW gw
  PROVE  /\ Decision(table, item, gw).action \in {"insert", "update", "noop"}
         /\ Decision(table, item, gw).id \in Ids
<1>1. item.id \in Ids
  BY DEF Item
<1>2. Found(table, item) \subseteq Ids
  BY FoundType
<1>3. Found(table, item) # {} => (CHOOSE y \in Found(table, item) : TRUE) \in Ids
  BY <1>2
<1>4. QED
  BY <1>1, <1>3 DEF Decision, DecideSosMerge, DecideRoadLikeMerge
-----------------------------------------------------------------------------
(* Type correctness. *)


LEMMA BecomesType ==
  ASSUME TypeOK, NEW t, NEW s \in Session, Becomes(t, s)
  PROVE  tx' \in [Sessions -> Session]
  BY DEF TypeOK, Becomes

\* What is known of a busy session.
LEMMA SessionType ==
  ASSUME TypeOK, NEW t \in Sessions
  PROVE  /\ tx[t] \in Session
         /\ tx[t].req \in Requests
         /\ GatewayOf(t) \in Gateways
         /\ Key(tx[t].req) \in Keys
<1>1. tx[t] \in Session
  BY DEF TypeOK
<1>2. tx[t].req \in Requests
  BY <1>1 DEF Session
<1>3. QED
  BY <1>1, <1>2, KeyType, BodyIsPush DEF GatewayOf, Push

LEMMA CurrentItemType ==
  ASSUME TypeOK, NEW t \in Sessions, HasItem(t)
  PROVE  CurrentItem(t) \in Item
  BY SessionType, ItemType DEF Session, HasItem, CurrentItem

LEMMA RollBackType ==
  ASSUME TypeOK, NEW t \in Sessions, NEW code \in {422, 500}, RollBack(t, code),
         faults' \in Nat, logIds' \in Nat
  PROVE  TypeOK'
<1> DEFINE no == FALSE
<1>1. AnswerWith(tx[t].req, code, no, 0) /\ no \in BOOLEAN
  BY DEF RollBack
<1> HIDE DEF no
<1>2. answers' \subseteq Answer
  BY <1>1, SessionType DEF AnswerWith, Answer, TypeOK
<1>3. tx' \in [Sessions -> Session]
  BY BecomesType, IdleSessionType DEF RollBack
<1>4. QED
  BY <1>2, <1>3 DEF TypeOK, RollBack, tables, sequences

LEMMA TypeInit == Init => TypeOK
  BY IdleSessionType, ProvisionedAreGateways
  DEF Init, TypeOK, NoWrites

\* A step that changes the state of session t and nothing else.
LEMMA LocalStepType ==
  ASSUME TypeOK, NEW t, NEW s \in Session, Becomes(t, s),
         UNCHANGED <<client, sequences, tables, queue>>
  PROVE  TypeOK'
  BY BecomesType DEF TypeOK, client, sequences, tables

LEMMA TypeStep == TypeOK /\ SessionShape /\ [Next]_vars => TypeOK'
<1> SUFFICES ASSUME TypeOK, SessionShape, [Next]_vars PROVE TypeOK'
  OBVIOUS
<1>1. CASE UNCHANGED vars
  BY <1>1 DEF TypeOK, vars
<1>2. CASE Tick
  BY <1>2 DEF TypeOK, Tick, tables, sequences
<1>3. ASSUME NEW r \in Requests, Refuse(r) PROVE TypeOK'
  <2>1. EarlyCode(r) \in {200, 400, 413, 422, 500}
    BY DEF EarlyCode
  <2> DEFINE no == FALSE
  <2>2. AnswerWith(r, EarlyCode(r), no, 0) /\ no \in BOOLEAN
    BY <1>3 DEF Refuse
  <2> HIDE DEF no
  <2>3. answers' \subseteq Answer
    BY <2>1, <2>2 DEF AnswerWith, Answer, TypeOK
  <2>4. QED
    BY <1>3, <2>3 DEF TypeOK, Refuse, Send, tables, sequences
<1>4. ASSUME NEW t \in Sessions, NEW r \in Requests, Begin(t, r) PROVE TypeOK'
  <2>1. [IdleSession EXCEPT !.pc = "replay", !.req = r] \in Session
    BY IdleSessionType DEF Session, Steps
  <2>2. tx' \in [Sessions -> Session]
    BY <1>4, <2>1, BecomesType DEF Begin
  <2>3. QED
    BY <1>4, <2>2 DEF TypeOK, Begin, Send, tables, sequences
<1>5. ASSUME NEW t \in Sessions, Work(t) PROVE TypeOK'
  <2>0. tx[t] \in Session /\ tx[t].req \in Requests /\ GatewayOf(t) \in Gateways
        /\ Key(tx[t].req) \in Keys
    BY SessionType
  <2>1. CASE FindReplay(t)
    <3>1. PICK l \in log :
            Becomes(t, [tx[t] EXCEPT !.pc = "reply", !.replay = TRUE, !.applied = l.applied])
      BY <2>1 DEF FindReplay
    <3>2. l.applied \in Nat
      BY DEF TypeOK, LogRow
    <3>3. [tx[t] EXCEPT !.pc = "reply", !.replay = TRUE, !.applied = l.applied] \in Session
      BY <2>0, <3>2 DEF Session, Steps
    <3>4. QED
      BY <2>1, <3>1, <3>3, LocalStepType DEF FindReplay
  <2>2. CASE FindNoReplay(t)
    <3>1. [tx[t] EXCEPT !.pc = "gateway"] \in Session
      BY <2>0 DEF Session, Steps
    <3>2. QED
      BY <2>2, <3>1, LocalStepType DEF FindNoReplay
  <2>3. CASE TouchGateway(t)
    <3> DEFINE b == ~RequireAuth \/ GatewayOf(t) \in gateways
    <3>1. b \in BOOLEAN
      OBVIOUS
    <3>2. Becomes(t, [tx[t] EXCEPT !.pc = "item", !.locked = b])
      BY <2>3 DEF TouchGateway
    <3> HIDE DEF b
    <3>3. [tx[t] EXCEPT !.pc = "item", !.locked = b] \in Session
      BY <2>0, <3>1 DEF Session, Steps
    <3>4. QED
      BY <2>3, <3>2, <3>3, LocalStepType DEF TouchGateway
  <2>4. CASE SkipItem(t)
    <3>1. [tx[t] EXCEPT !.i = @ + 1] \in Session
      BY <2>0 DEF Session
    <3>2. QED
      BY <2>4, <3>1, LocalStepType DEF SkipItem
  <2>5. CASE ReadItem(t)
    <3> DEFINE d == Decision(View(t), CurrentItem(t), GatewayOf(t))
    <3>1. CurrentItem(t) \in Item
      BY <2>5, CurrentItemType DEF ReadItem
    <3>2. d.action \in {"insert", "update"} /\ d.id \in Ids
      BY <2>5, <3>1, DecisionType DEF ReadItem
    <3>3. Becomes(t, [tx[t] EXCEPT !.pc = "nextval", !.action = d.action, !.target = d.id])
      BY <2>5 DEF ReadItem
    <3> HIDE DEF d
    <3>4. [tx[t] EXCEPT !.pc = "nextval", !.action = d.action, !.target = d.id] \in Session
      BY <2>0, <3>2 DEF Session, Steps
    <3>5. QED
      BY <2>5, <3>3, <3>4, LocalStepType DEF ReadItem
  <2>6. CASE NextValue(t) \/ NextLogValue(t)
    <3>1. seq + 1 \in Nat
      BY DEF TypeOK
    <3>2. /\ [tx[t] EXCEPT !.pc = "write", !.seq = seq + 1] \in Session
          /\ [tx[t] EXCEPT !.pc = "log", !.seq = seq + 1] \in Session
      BY <2>0, <3>1 DEF Session, Steps
    <3>3. tx' \in [Sessions -> Session]
      BY <2>6, <3>2, BecomesType DEF NextValue, NextLogValue
    <3>4. QED
      BY <2>6, <3>1, <3>3 DEF TypeOK, NextValue, NextLogValue, client, tables
  <2>7. CASE WriteItem(t)
    <3> DEFINE row == StoredRow(CurrentItem(t), GatewayOf(t), tx[t].seq)
               w == [tx[t].writes EXCEPT ![tx[t].target] = row]
    <3>1. CurrentItem(t) \in Item
      <4>1. HasItem(t)
        BY <2>7 DEF WriteItem, SessionShape, Shape
      <4>2. QED
        BY <4>1, CurrentItemType
    <3>2. row \in Row
      BY <2>0, <3>1, StoredRowType DEF Session
    <3> HIDE DEF row
    <3>3. w \in [Ids -> Row \cup {NoRow}]
      BY <2>0, <3>2 DEF Session
    <3>4. Becomes(t, [tx[t] EXCEPT !.pc = "item", !.i = @ + 1, !.writes = w,
                                   !.touched = @ \cup {tx[t].target}, !.applied = @ + 1])
      BY <2>7 DEF WriteItem, row
    <3> HIDE DEF w
    <3>a. /\ tx[t].i + 1 \in Nat \ {0}
          /\ tx[t].touched \cup {tx[t].target} \in SUBSET Ids
          /\ tx[t].applied + 1 \in Nat
      BY <2>0 DEF Session
    <3>5. [tx[t] EXCEPT !.pc = "item", !.i = @ + 1, !.writes = w,
                        !.touched = @ \cup {tx[t].target}, !.applied = @ + 1] \in Session
      BY <2>0, <3>3, <3>a DEF Session, Steps
    <3>6. QED
      BY <2>7, <3>4, <3>5, LocalStepType DEF WriteItem
  <2>9. CASE WriteLog(t)
    <3>1. NewLogRow(t) \in LogRow
      BY <2>0 DEF NewLogRow, LogRow, TypeOK, Session
    <3>2. [tx[t] EXCEPT !.pc = "commit", !.log = {NewLogRow(t)}] \in Session
      BY <2>0, <3>1 DEF Session, Steps
    <3>3. tx' \in [Sessions -> Session]
      BY <2>9, <3>2, BecomesType DEF WriteLog
    <3>4. QED
      BY <2>9, <3>3 DEF TypeOK, WriteLog, client, tables
  <2>10. CASE Commit(t)
    <3>1. View(t) \in [Ids -> Row \cup {NoRow}]
      BY ViewType
    <3>2. NoWrites \in [Ids -> Row \cup {NoRow}] /\ tx[t].log \subseteq LogRow
      BY <2>0 DEF NoWrites, Session
    <3>3. [tx[t] EXCEPT !.pc = "reply", !.locked = FALSE, !.writes = NoWrites, !.log = {}]
            \in Session
      BY <2>0, <3>2 DEF Session, Steps
    <3>4. tx' \in [Sessions -> Session]
      BY <2>10, <3>3, BecomesType DEF Commit
    <3>5. QED
      BY <2>0, <2>10, <3>1, <3>2, <3>4 DEF TypeOK, Commit, client, sequences
  <2>11. CASE Reply(t)
    <3>1. AnswerWith(tx[t].req, 200, tx[t].replay, tx[t].applied)
      BY <2>11 DEF Reply
    <3>2. answers' \subseteq Answer
      BY <2>0, <3>1 DEF AnswerWith, Answer, Session, TypeOK
    <3>3. tx' \in [Sessions -> Session]
      BY <2>11, BecomesType, IdleSessionType DEF Reply
    <3>4. tx[t].touched \in SUBSET Ids
      BY <2>0 DEF Session
    <3>5. queue' \subseteq [key : Keys, ids : SUBSET Ids]
      BY <2>0, <2>11, <3>4 DEF Reply, TypeOK
    <3>6. QED
      BY <2>11, <3>2, <3>3, <3>5 DEF TypeOK, Reply, sequences, tables
  <2>12. CASE RejectKind(t) \/ WriteError(t) \/ LogError(t) \/ DeadlockVictim(t)
    BY <2>12, RollBackType DEF RejectKind, WriteError, LogError, DeadlockVictim, TypeOK
  <2>13. QED
    BY <1>5, <2>1, <2>2, <2>3, <2>4, <2>5, <2>6, <2>7, <2>9, <2>10, <2>11, <2>12
    DEF Work
<1>6. ASSUME NEW t \in Sessions, Fail(t) \/ BrokerError(t) PROVE TypeOK'
  BY <1>6, RollBackType DEF Fail, BrokerError, Fault, TypeOK
<1>7. ASSUME NEW t \in Sessions, Crash(t) PROVE TypeOK'
  <2>1. tx' \in [Sessions -> Session]
    BY <1>7, BecomesType, IdleSessionType DEF Crash
  <2>2. QED
    BY <1>7, <2>1 DEF TypeOK, Crash, Fault, sequences, tables
<1>8. QED
  BY <1>1, <1>2, <1>3, <1>4, <1>5, <1>6, <1>7 DEF Next

-----------------------------------------------------------------------------
(* The state of the sessions. *)

\* A step of session t leaves the others where they are.
LEMMA BecomesOthers ==
  ASSUME TypeOK, NEW t \in Sessions, NEW s, Becomes(t, s)
  PROVE  tx'[t] = s /\ \A u \in Sessions \ {t} : tx'[u] = tx[u]
  BY DEF Becomes, TypeOK

LEMMA ShapeKept ==
  ASSUME NEW t, Shape(t), tx'[t] = tx[t], log \subseteq log'
  PROVE  Shape(t)'
  BY DEF Shape, HasItem, Working

LEMMA IdleShape ==
  ASSUME NEW t, tx'[t] = IdleSession
  PROVE  Shape(t)'
  BY DEF Shape, IdleSession, Working

\* Only the session that steps is to be looked at.
LEMMA ShapeOfOne ==
  ASSUME TypeOK, SessionShape, NEW t \in Sessions, NEW s, Becomes(t, s), log \subseteq log',
         Shape(t)'
  PROVE  SessionShape'
<1>1. \A u \in Sessions \ {t} : Shape(u)'
  BY BecomesOthers, ShapeKept DEF SessionShape
<1>2. QED
  BY <1>1 DEF SessionShape

LEMMA ShapeOfReset ==
  ASSUME TypeOK, SessionShape, NEW t \in Sessions, Becomes(t, IdleSession), log' = log
  PROVE  SessionShape'
  BY BecomesOthers, IdleShape, ShapeOfOne

LEMMA ShapeInit == Init => SessionShape
<1> SUFFICES ASSUME Init, NEW t \in Sessions PROVE Shape(t)
  BY DEF SessionShape
<1>1. tx[t] = IdleSession
  BY DEF Init
<1>2. QED
  BY <1>1 DEF Shape, IdleSession, Working

LEMMA ShapeStep == TypeOK /\ SessionShape /\ [Next]_vars => SessionShape'
<1> SUFFICES ASSUME TypeOK, SessionShape, [Next]_vars PROVE SessionShape'
  OBVIOUS
<1> USE DEF tables, sequences, client
<1>1. ASSUME tx' = tx, log' = log PROVE SessionShape'
  BY <1>1, ShapeKept DEF SessionShape
<1>2. CASE UNCHANGED vars \/ Tick \/ \E r \in Requests : Refuse(r)
  BY <1>1, <1>2 DEF vars, Tick, Refuse
<1>3. ASSUME NEW t \in Sessions, NEW r \in Requests, Begin(t, r) PROVE SessionShape'
  <2>1. tx'[t] = [IdleSession EXCEPT !.pc = "replay", !.req = r]
    BY <1>3, BecomesOthers DEF Begin
  <2>2. Shape(t)'
    BY <2>1 DEF Shape, IdleSession, Working
  <2>3. QED
    BY <1>3, <2>2, ShapeOfOne DEF Begin
<1>4. ASSUME NEW t \in Sessions, Work(t) PROVE SessionShape'
  <2>0. tx[t] \in Session /\ Shape(t)
    BY SessionType DEF SessionShape
  <2>1. CASE FindReplay(t)
    <3>1. PICK l \in log :
            /\ l.key = Key(tx[t].req)
            /\ Becomes(t, [tx[t] EXCEPT !.pc = "reply", !.replay = TRUE, !.applied = l.applied])
      BY <2>1 DEF FindReplay
    <3>2. tx'[t] = [tx[t] EXCEPT !.pc = "reply", !.replay = TRUE, !.applied = l.applied]
      BY <3>1, BecomesOthers
    <3>3. tx[t].pc = "replay" /\ log' = log
      BY <2>1 DEF FindReplay
    <3>4. Shape(t)'
      BY <2>0, <3>1, <3>2, <3>3 DEF Shape, Working, Session
    <3>5. QED
      BY <3>1, <3>3, <3>4, ShapeOfOne
  <2>2. CASE FindNoReplay(t)
    <3>1. tx'[t] = [tx[t] EXCEPT !.pc = "gateway"]
      BY <2>2, BecomesOthers DEF FindNoReplay
    <3>2. Shape(t)'
      BY <2>0, <2>2, <3>1 DEF FindNoReplay, Shape, Working, Session
    <3>3. QED
      BY <2>2, <3>2, ShapeOfOne DEF FindNoReplay
  <2>3. CASE TouchGateway(t)
    <3>1. tx'[t] = [tx[t] EXCEPT !.pc = "item",
                                 !.locked = ~RequireAuth \/ GatewayOf(t) \in gateways]
      BY <2>3, BecomesOthers DEF TouchGateway
    <3>2. Shape(t)'
      BY <2>0, <2>3, <3>1 DEF TouchGateway, Shape, Working, Session
    <3>3. QED
      BY <2>3, <3>2, ShapeOfOne DEF TouchGateway
  <2>4. CASE SkipItem(t)
    <3>1. tx'[t] = [tx[t] EXCEPT !.i = @ + 1]
      BY <2>4, BecomesOthers DEF SkipItem
    <3>2. Shape(t)'
      BY <2>0, <2>4, <3>1 DEF SkipItem, Shape, Working, Session
    <3>3. QED
      BY <2>4, <3>2, ShapeOfOne DEF SkipItem
  <2>5. CASE ReadItem(t)
    <3> DEFINE d == Decision(View(t), CurrentItem(t), GatewayOf(t))
    <3>1. tx'[t] = [tx[t] EXCEPT !.pc = "nextval", !.action = d.action, !.target = d.id]
      BY <2>5, BecomesOthers DEF ReadItem
    <3>2. tx[t].pc = "item" /\ HasItem(t) /\ log' = log
      BY <2>5 DEF ReadItem
    <3> HIDE DEF d
    <3>3. Shape(t)'
      BY <2>0, <3>1, <3>2 DEF Shape, Working, Session, HasItem
    <3>4. QED
      BY <2>5, <3>3, ShapeOfOne DEF ReadItem
  <2>6. CASE NextValue(t)
    <3>1. tx'[t] = [tx[t] EXCEPT !.pc = "write", !.seq = seq + 1]
      BY <2>6, BecomesOthers DEF NextValue
    <3>2. Shape(t)'
      BY <2>0, <2>6, <3>1 DEF NextValue, Shape, Working, Session, HasItem
    <3>3. QED
      BY <2>6, <3>2, ShapeOfOne DEF NextValue
  <2>7. CASE WriteItem(t)
    <3> DEFINE w == [tx[t].writes EXCEPT ![tx[t].target] =
                       StoredRow(CurrentItem(t), GatewayOf(t), tx[t].seq)]
    <3>1. tx'[t] = [tx[t] EXCEPT !.pc = "item", !.i = @ + 1, !.writes = w,
                                 !.touched = @ \cup {tx[t].target}, !.applied = @ + 1]
      BY <2>7, BecomesOthers DEF WriteItem
    <3>2. tx[t].pc = "write" /\ log' = log
      BY <2>7 DEF WriteItem
    <3> HIDE DEF w
    <3>3. Shape(t)'
      BY <2>0, <3>1, <3>2 DEF Shape, Working, Session
    <3>4. QED
      BY <2>7, <3>3, ShapeOfOne DEF WriteItem
  <2>8. CASE NextLogValue(t)
    <3>1. tx'[t] = [tx[t] EXCEPT !.pc = "log", !.seq = seq + 1]
      BY <2>8, BecomesOthers DEF NextLogValue
    <3>2. Shape(t)'
      BY <2>0, <2>8, <3>1 DEF NextLogValue, Shape, Working, Session
    <3>3. QED
      BY <2>8, <3>2, ShapeOfOne DEF NextLogValue
  <2>9. CASE WriteLog(t)
    <3>1. tx'[t] = [tx[t] EXCEPT !.pc = "commit", !.log = {NewLogRow(t)}]
      BY <2>9, BecomesOthers DEF WriteLog
    <3>2. NewLogRow(t).key = Key(tx[t].req) /\ NewLogRow(t).applied = tx[t].applied
      BY DEF NewLogRow
    <3>3. Shape(t)'
      BY <2>0, <3>1, <3>2 DEF Shape, Working, Session
    <3>4. QED
      BY <2>9, <3>3, ShapeOfOne DEF WriteLog
  <2>10. CASE Commit(t)
    <3>1. tx'[t] = [tx[t] EXCEPT !.pc = "reply", !.locked = FALSE,
                                 !.writes = NoWrites, !.log = {}]
      BY <2>10, BecomesOthers DEF Commit
    <3>2. log' = log \cup tx[t].log /\ tx[t].pc = "commit"
      BY <2>10 DEF Commit
    <3>3. Shape(t)'
      BY <2>0, <3>1, <3>2 DEF Shape, Working, Session
    <3>4. QED
      BY <2>10, <3>2, <3>3, ShapeOfOne DEF Commit
  <2>11. CASE Reply(t) \/ RejectKind(t) \/ WriteError(t) \/ LogError(t) \/ DeadlockVictim(t)
    BY <2>11, ShapeOfReset
    DEF Reply, RejectKind, WriteError, LogError, DeadlockVictim, RollBack
  <2>12. QED
    BY <1>4, <2>1, <2>2, <2>3, <2>4, <2>5, <2>6, <2>7, <2>8, <2>9, <2>10, <2>11 DEF Work
<1>5. ASSUME NEW t \in Sessions, Fail(t) \/ BrokerError(t) \/ Crash(t) PROVE SessionShape'
  BY <1>5, ShapeOfReset DEF Fail, BrokerError, Crash, RollBack
<1>6. QED
  BY <1>2, <1>3, <1>4, <1>5 DEF Next

\* The variables keep their types in every behaviour.
THEOREM TypeCorrect == Spec => []TypeOK
<1>1. Init => TypeOK /\ SessionShape
  BY TypeInit, ShapeInit
<1>2. TypeOK /\ SessionShape /\ [Next]_vars => TypeOK' /\ SessionShape'
  BY TypeStep, ShapeStep
<1>3. QED
  BY <1>1, <1>2, PTL DEF Spec
=============================================================================
