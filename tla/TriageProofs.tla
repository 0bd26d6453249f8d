---------------------------- MODULE TriageProofs ----------------------------
(***************************************************************************)
(* Triage beside ingest: workers change nothing that pushes rest on, so    *)
(* that ingest keeps its invariant and implements the ledger beside any    *)
(* number of workers; and with one worker no stale score is final.         *)
(***************************************************************************)
EXTENDS TriageInv, SyncPushLedger

-----------------------------------------------------------------------------
(* Ingest beside workers. *)

\* What a worker does to the state of ingest: nothing but to the columns of triage.
TriageColumnsOnly ==
  /\ UNCHANGED <<now, attempts, answers, seq, logIds, gateways, log, tx, queue>>
  /\ faults' \in Nat
  /\ reports' \in [Ids -> Row \cup {NoRow}]
  /\ \A x \in Ids :
       /\ reports'[x] = NoRow <=> reports[x] = NoRow
       /\ reports[x] # NoRow =>
            /\ reports'[x].kind = reports[x].kind /\ reports'[x].seg = reports[x].seg
            /\ reports'[x].upd = reports[x].upd /\ reports'[x].gw = reports[x].gw
            /\ reports'[x].tomb = reports[x].tomb /\ reports'[x].seq = reports[x].seq

\* The sequence ids of the tables stay, and no session notices anything.
LEMMA ColumnsSeqs ==
  ASSUME TypeOK, SeqInv, TriageColumnsOnly
  PROVE  SeqInv'
<1>0. /\ tx' = tx /\ log' = log /\ seq' = seq
      /\ \A x \in Ids : /\ reports'[x] = NoRow <=> reports[x] = NoRow
                        /\ reports[x] # NoRow => reports'[x].seq = reports[x].seq
  BY DEF TriageColumnsOnly
<1>1. TableSeqs' = TableSeqs
  BY <1>0 DEF TableSeqs
<1>2. \A t \in Sessions : SeqsOf(t)' = SeqsOf(t) /\ RowSeqs(t)' = RowSeqs(t)
                          /\ LogSeqs(t)' = LogSeqs(t) /\ TakenSeq(t)' = TakenSeq(t)
  BY <1>0 DEF SeqsOf, RowSeqs, LogSeqs, TakenSeq
<1>3. SequenceIdsUnique'
  BY <1>0 DEF SeqInv, SequenceIdsUnique
<1>4. SequenceIdsOwned'
  BY <1>0, <1>1, <1>2 DEF SeqInv, SequenceIdsOwned
<1>5. QED
  BY <1>3, <1>4 DEF SeqInv

LEMMA ColumnsView ==
  ASSUME TypeOK, TriageColumnsOnly, NEW t \in Sessions, NEW x \in Ids
  PROVE  /\ View(t)'[x] = NoRow <=> View(t)[x] = NoRow
         /\ View(t)[x] # NoRow =>
              /\ View(t)'[x].kind = View(t)[x].kind /\ View(t)'[x].upd = View(t)[x].upd
              /\ View(t)'[x].gw = View(t)[x].gw /\ View(t)'[x].tomb = View(t)[x].tomb
  BY DEF TriageColumnsOnly, View

LEMMA ColumnsRows ==
  ASSUME TypeOK, RowLocks, UpdatesFitTheirRow, OwnRowsInOrder, ReportsKept, TriageColumnsOnly
  PROVE  RowLocks' /\ UpdatesFitTheirRow' /\ OwnRowsInOrder' /\ ReportsKept'
<1>0. /\ tx' = tx /\ log' = log /\ queue' = queue
      /\ \A x \in Ids :
           /\ reports'[x] = NoRow <=> reports[x] = NoRow
           /\ reports[x] # NoRow =>
                /\ reports'[x].kind = reports[x].kind /\ reports'[x].upd = reports[x].upd
                /\ reports'[x].gw = reports[x].gw /\ reports'[x].tomb = reports[x].tomb
  BY DEF TriageColumnsOnly
<1>1. RowLocks'
  BY <1>0 DEF RowLocks
<1>2. ASSUME NEW t \in Sessions
      PROVE  /\ CurrentItem(t)' = CurrentItem(t) /\ GatewayOf(t)' = GatewayOf(t)
             /\ Uncommitted(t)' = Uncommitted(t) /\ HasItem(t)' = HasItem(t)
             /\ tx[t].target \in Ids /\ tx[t].touched \subseteq Ids
             /\ tx[t].req \in Requests
  BY <1>0, SessionType DEF CurrentItem, GatewayOf, Uncommitted, HasItem, Session
<1>3. ASSUME NEW t \in Sessions PROVE Fits(t)'
  BY <1>0, <1>2, ColumnsView DEF UpdatesFitTheirRow, Fits
<1>4. ASSUME NEW t \in Sessions PROVE KeepsOwnRows(t)'
  <2>1. \A x \in Uncommitted(t) : x \in Ids
    BY DEF Uncommitted
  <2>2. \A x \in Uncommitted(t) : reports'[x] # NoRow /\ reports'[x].gw = GatewayOf(t)
          => NotRegressed(reports'[x], tx[t].writes[x])
    BY <1>0, <2>1 DEF OwnRowsInOrder, KeepsOwnRows, NotRegressed
  <2>3. tx[t].pc \in {"nextval", "write"} /\ tx[t].action = "update" =>
          LET old == View(t)'[tx[t].target]
          IN  old.gw = GatewayOf(t) =>
                /\ CurrentItem(t).upd >= old.upd
                /\ old.tomb => IncomingIsTombstone(CurrentItem(t))
    BY <1>2, ColumnsView DEF OwnRowsInOrder, KeepsOwnRows, UpdatesFitTheirRow, Fits
  <2>4. QED
    BY <1>0, <1>2, <2>2, <2>3 DEF KeepsOwnRows
<1>5. ASSUME NEW t \in Sessions PROVE ItemsOnTheWay(t)'
  <2>1. ViewGrows(t)
    BY ColumnsView DEF ViewGrows
  <2>2. QED
    BY <1>0, <1>2, <2>1, ItemsStay DEF ReportsKept, ItemsOnTheWay
<1>6. RecordedReportsStored' /\ QueuedAreStored'
  <2>1. \A r \in Requests : \A p \in Reported[Key(r)] : p[1] \in Ids
    BY ReportedUnderKey
  <2>2. \A q \in queue : q.ids \subseteq Ids
    BY DEF TypeOK
  <2>4. \A k : Logged(k)' <=> Logged(k)
    BY <1>0 DEF Logged
  <2>5. RecordedReportsStored'
    BY <1>0, <2>1, <2>4 DEF ReportsKept, RecordedReportsStored, StoredAs
  <2>6. QueuedAreStored'
    BY <1>0, <2>2, <2>4 DEF ReportsKept, QueuedAreStored
  <2>7. QED
    BY <2>5, <2>6
<1>7. QED
  BY <1>1, <1>3, <1>4, <1>5, <1>6 DEF UpdatesFitTheirRow, OwnRowsInOrder, ReportsKept

LEMMA ColumnsKeepIngest == InductiveInv /\ TriageColumnsOnly => InductiveInv'
<1> SUFFICES ASSUME InductiveInv, TriageColumnsOnly PROVE InductiveInv'
  OBVIOUS
<1>0. /\ UNCHANGED <<now, attempts, answers, seq, logIds, gateways, log, tx, queue>>
      /\ faults' \in Nat /\ reports' \in [Ids -> Row \cup {NoRow}]
  BY DEF TriageColumnsOnly
<1>1. TypeOK'
  BY <1>0 DEF InductiveInv, TypeOK
<1>2. SessionShape' /\ GatewayLocks' /\ PendingUnrecorded'
  BY <1>0 DEF InductiveInv, SessionShape, Shape, HasItem, GatewayLocks, GatewayOf,
     PendingUnrecorded, Logged, Key
<1>3. WriteSets'
  BY <1>0 DEF InductiveInv, WriteSets, WriteSet, Uncommitted, RowSeqs, GatewayOf
<1>4. BatchRecordedOnce' /\ AcceptedIsRecorded'
  BY <1>0 DEF InductiveInv, BatchRecordedOnce, AcceptedIsRecorded, Key
<1>5. SequenceIdsUnique' /\ SequenceIdsOwned'
  BY ColumnsSeqs DEF InductiveInv, SeqInv
<1>6. RowLocks' /\ UpdatesFitTheirRow' /\ OwnRowsInOrder' /\ ReportsKept'
  BY ColumnsRows DEF InductiveInv
<1>7. QED
  BY <1>1, <1>2, <1>3, <1>4, <1>5, <1>6 DEF InductiveInv

\* A push that fails to end a deadlock with a worker: a rollback like any other.
LEMMA VictimDoes ==
  ASSUME TypeOK, NEW t \in Sessions, SessionVictim(t)
  PROVE  /\ tx'[t] = IdleSession /\ Alone(t)
         /\ tx'[t].pc = "idle" /\ Bare(tx'[t])
         /\ UNCHANGED <<now, attempts, faults, seq, logIds, tables, queue, triageOnly>>
         /\ \A a \in answers' \ answers : a.code # 200
<1>1. Becomes(t, IdleSession) /\ UNCHANGED <<now, attempts, faults, seq, logIds, tables, queue, triageOnly>>
  BY DEF SessionVictim, RollBack
<1>2. \A a \in answers' \ answers : a.code # 200
  BY DEF SessionVictim, RollBack, AnswerWith
<1>3. QED
  BY <1>1, <1>2, BecomesOthers, IdleIsBare DEF Alone

LEMMA VictimKeepsIngest ==
  ASSUME InductiveInv, NEW t \in Sessions, SessionVictim(t)
  PROVE  InductiveInv'
<1> USE DEF tables, Alone, Bare
<1>0. /\ TypeOK /\ SessionShape /\ GatewayLocks /\ RowLocks /\ UpdatesFitTheirRow /\ WriteSets
      /\ OwnRowsInOrder /\ ReportsKept /\ BatchRecordedOnce /\ PendingUnrecorded /\ AcceptedIsRecorded
      /\ SeqInv
  BY DEF InductiveInv, SeqInv
<1>1. /\ tx'[t] = IdleSession /\ \A u \in Sessions \ {t} : tx'[u] = tx[u]
      /\ tx'[t].pc = "idle" /\ tx'[t].writes = NoWrites /\ tx'[t].log = {} /\ tx'[t].locked = FALSE
      /\ UNCHANGED <<now, attempts, faults, seq, logIds, gateways, reports, log, queue>>
  BY <1>0, VictimDoes
<1>2. TypeOK'
  BY <1>0, <1>1, RollBackType DEF SessionVictim, TypeOK
<1>3. SessionShape'
  BY <1>0, <1>1, ShapeOfReset DEF SessionVictim, RollBack
<1>4. GatewayLocks'
  BY <1>0, <1>1, LocksReleased DEF Working
<1>5. SeqInv'
  BY <1>0, <1>1, SeqsShrink DEF TakenSeq
<1>6. RowLocks'
  BY <1>0, <1>1, RowLocksKept
<1>7. BatchRecordedOnce' /\ PendingUnrecorded'
  BY <1>0, <1>1 DEF BatchRecordedOnce, PendingUnrecorded, Logged, Key
<1>8. AcceptedIsRecorded'
  BY <1>0, <1>1, VictimDoes DEF AcceptedIsRecorded, Key
<1>9. ASSUME NEW u \in Sessions PROVE Fits(u)' /\ KeepsOwnRows(u)' /\ WriteSet(u)' /\ ItemsOnTheWay(u)'
  <2>1. CASE u = t
    <3>1. tx'[t].applied \in Nat /\ tx'[t].req \in Requests
      BY <1>2, SessionType DEF TypeOK, Session
    <3>2. tx'[t].i = 1 /\ tx'[t].touched = {}
      <4>1. IdleSession.i = 1
        BY DEF IdleSession
      <4>2. IdleSession.touched = {}
        BY DEF IdleSession
      <4>3. QED
        BY <1>1, <4>1, <4>2
    <3>3. Fits(t)'
      BY <1>1 DEF Fits
    <3>4. KeepsOwnRows(t)'
      BY <1>1, OwnRowsEmptied
    <3>5. WriteSet(t)'
      BY <1>1, <3>1, WriteSetEmptied
    <3>6. ItemsOnTheWay(t)'
      BY <1>1, <3>1, <3>2, ItemsFromStart
    <3>7. QED
      BY <2>1, <3>3, <3>4, <3>5, <3>6
  <2>2. CASE u # t
    <3>1. tx'[u] = tx[u] /\ reports' = reports
      BY <1>1, <2>2
    <3>2. RowsSurvive /\ ViewGrows(u)
      BY <1>1, <3>1 DEF RowsSurvive, ViewGrows, View
    <3>3. Fits(u)'
      BY <1>0, <3>1, <3>2, FitsOthers DEF UpdatesFitTheirRow
    <3>4. KeepsOwnRows(u)'
      BY <1>0, <3>1, OwnRowsKept DEF OwnRowsInOrder
    <3>5. WriteSet(u)'
      BY <1>0, <3>1, WriteSetKept DEF WriteSets
    <3>6. ItemsOnTheWay(u)'
      BY <1>0, <3>1, <3>2, ItemsStay DEF ReportsKept, ItemsOnTheWay
    <3>7. QED
      BY <3>3, <3>4, <3>5, <3>6
  <2>3. QED
    BY <2>1, <2>2
<1>10. RecordedReportsStored' /\ QueuedAreStored'
  BY <1>0, <1>1 DEF ReportsKept, RecordedReportsStored, StoredAs, QueuedAreStored, Logged
<1>11. UpdatesFitTheirRow' /\ OwnRowsInOrder' /\ WriteSets' /\ ReportsKept'
  BY <1>9, <1>10 DEF UpdatesFitTheirRow, OwnRowsInOrder, WriteSets, ReportsKept
<1>12. QED
  BY <1>2, <1>3, <1>4, <1>5, <1>6, <1>7, <1>8, <1>11 DEF InductiveInv, SeqInv

-----------------------------------------------------------------------------
(* The steps of the whole system. *)

\* A step of ingest itself, or of a session that fails for a worker's sake.
PushStep == [Next]_vars \/ \E t \in Sessions : SessionVictim(t)

LEMMA PushKeepsIngest == InductiveInv /\ PushStep => InductiveInv'
  BY InductiveInvStep, VictimKeepsIngest DEF PushStep

\* A worker's step that leaves the tables alone.
WorkerMoves(w) == TakeTask(w) \/ ReadReport(w) \/ UpdateReport(w) \/ WorkerVictim(w) \/ WorkerDies(w)

LEMMA SessionsPush ==
  ASSUME NEW t \in Sessions, SessionStep(t) \/ SessionFault(t)
  PROVE  [Next]_vars
  BY DEF SessionStep, SessionFault, Next

LEMMA WorkerMovesDo ==
  ASSUME TriageTypeOK, NEW w \in Workers, WorkerMoves(w)
  PROVE  /\ UNCHANGED <<now, attempts, answers, seq, logIds, gateways, reports, log, tx, queue, scores>>
         /\ faults' \in Nat
         /\ \A v \in Workers \ {w} : worker'[v] = worker[v]
<1>1. UNCHANGED <<now, attempts, answers, sequences, tables, tx, queue, scores>>
  BY DEF WorkerMoves, TakeTask, ReadReport, UpdateReport, WorkerVictim, WorkerDies, DropTask, vars,
     sequences, tables
<1>2. faults' \in Nat
  <2>1. faults \in Nat
    BY DEF TriageTypeOK, TypeOK
  <2>2. faults' = faults \/ faults' = faults + 1
    BY DEF WorkerMoves, TakeTask, ReadReport, UpdateReport, WorkerVictim, WorkerDies, vars, Fault
  <2>3. QED
    BY <2>1, <2>2
<1>3. \A v \in Workers \ {w} : worker'[v] = worker[v]
  <2>1. worker \in [Workers -> Worker]
    BY DEF TriageTypeOK
  <2>2. \E s : WorkerBecomes(w, s)
    BY DEF WorkerMoves, TakeTask, ReadReport, UpdateReport, WorkerVictim, WorkerDies, DropTask
  <2>3. QED
    BY <2>1, <2>2 DEF WorkerBecomes
<1>4. QED
  BY <1>1, <1>2, <1>3 DEF sequences, tables

LEMMA WorkerBecomesOthers ==
  ASSUME TriageTypeOK, NEW w \in Workers, NEW s, WorkerBecomes(w, s)
  PROVE  worker'[w] = s /\ \A v \in Workers \ {w} : worker'[v] = worker[v]
  BY DEF TriageTypeOK, WorkerBecomes

LEMMA CommitColumnsOnly ==
  ASSUME TriageTypeOK, NEW w \in Workers, CommitTriage(w),
         \A x \in Ids : worker[w].marked[x] # NoRow => reports[x] # NoRow
  PROVE  TriageColumnsOnly
<1>1. UNCHANGED <<now, attempts, faults, answers, seq, logIds, gateways, log, tx, queue>>
  BY DEF CommitTriage, client, sequences
<1>2. reports \in [Ids -> Row \cup {NoRow}]
  BY DEF TriageTypeOK, TypeOK
<1>3. ASSUME NEW x \in Ids
      PROVE  reports'[x] = IF worker[w].marked[x] = NoRow THEN reports[x]
                           ELSE [reports[x] EXCEPT !.triage = "completed"]
  BY DEF CommitTriage
<1>4. ASSUME NEW row \in Row, NEW new, new = [row EXCEPT !.triage = "completed"]
      PROVE  /\ new \in Row /\ new # NoRow
             /\ new.kind = row.kind /\ new.seg = row.seg /\ new.upd = row.upd
             /\ new.gw = row.gw /\ new.tomb = row.tomb /\ new.seq = row.seq
  <2>1. new \in Row
    BY <1>4 DEF Row
  <2>2. QED
    BY <1>4, <2>1, NoRowIsNoRow DEF Row
<1>5. ASSUME NEW x \in Ids
      PROVE  /\ reports'[x] \in Row \cup {NoRow}
             /\ reports'[x] = NoRow <=> reports[x] = NoRow
             /\ reports[x] # NoRow =>
                  /\ reports'[x].kind = reports[x].kind /\ reports'[x].seg = reports[x].seg
                  /\ reports'[x].upd = reports[x].upd /\ reports'[x].gw = reports[x].gw
                  /\ reports'[x].tomb = reports[x].tomb /\ reports'[x].seq = reports[x].seq
  <2>1. CASE worker[w].marked[x] = NoRow
    BY <1>2, <1>3, <2>1
  <2>2. CASE worker[w].marked[x] # NoRow
    <3>1. reports[x] \in Row /\ reports[x] # NoRow
      BY <1>2, <2>2
    <3>2. reports'[x] = [reports[x] EXCEPT !.triage = "completed"]
      BY <1>3, <2>2
    <3>3. QED
      BY <1>4, <3>1, <3>2
  <2>3. QED
    BY <2>1, <2>2
<1>6. reports' \in [Ids -> Row \cup {NoRow}]
  BY <1>5 DEF CommitTriage
<1>7. QED
  BY <1>1, <1>5, <1>6 DEF TriageColumnsOnly, TriageTypeOK, TypeOK
-----------------------------------------------------------------------------
(* What workers may expect of a step of the pushes. *)

\* Session t acts, by one of its actions of ingest.
SessionActs(t) ==
  \/ Moves(t) \/ TouchGateway(t) \/ NextValue(t) \/ NextLogValue(t) \/ WriteItem(t)
  \/ WriteLog(t) \/ Commit(t) \/ Resets(t)

LEMMA SessionsAct ==
  ASSUME NEW t \in Sessions, SessionStep(t) \/ SessionFault(t)
  PROVE  SessionActs(t)
  BY DEF SessionStep, SessionFault, Work, SessionActs, Moves, Resets

LEMMA ActsAlone ==
  ASSUME TypeOK, NEW t \in Sessions, SessionActs(t)
  PROVE  Alone(t)
  BY MovesDo, TouchGatewayDoes, NextValuesDo, WriteItemDoes, WriteLogDoes, CommitDoes, ResetsDo
  DEF SessionActs

\* A step that is not a worker's.
NoWorkersStep ==
  \/ Clients \/ UNCHANGED triageVars
  \/ \E t \in Sessions : SessionStep(t) \/ SessionVictim(t) \/ SessionFault(t)

LEMMA TriageStepKinds ==
  ASSUME [TriageNext]_triageVars
  PROVE  NoWorkersStep \/ \E w \in Workers : WorkerMoves(w) \/ CommitTriage(w)
  BY DEF TriageNext, NoWorkersStep, SessionWork, WorkerWork, WorkerMoves

LEMMA NoWorkersPush == NoWorkersStep => PushStep /\ UNCHANGED <<worker, taken>>
<1>1. Clients \/ UNCHANGED triageVars => [Next]_vars /\ UNCHANGED <<worker, taken>>
  BY DEF Clients, Next, triageVars, triageOnly
<1>2. \A t \in Sessions : SessionStep(t) \/ SessionFault(t) => [Next]_vars /\ UNCHANGED <<worker, taken>>
  BY SessionsPush DEF SessionStep, SessionFault
<1>3. \A t \in Sessions : SessionVictim(t) => UNCHANGED <<worker, taken>>
  BY DEF SessionVictim, triageOnly
<1>4. QED
  BY <1>1, <1>2, <1>3 DEF NoWorkersStep, PushStep

LEMMA PushSeqs ==
  ASSUME TypeOK, SessionShape, PushStep
  PROVE  /\ seq' \in Nat /\ seq <= seq'
         /\ \A u \in Sessions : \A n \in SeqsOf(u)' : n \in SeqsOf(u) \/ n = seq + 1
<1>1. seq' \in Nat /\ seq <= seq'
  <2>1. \A t \in Sessions : SessionVictim(t) => seq' = seq
    BY VictimDoes
  <2>2. seq \in Nat
    BY DEF TypeOK
  <2>3. QED
    BY <2>1, <2>2, SeqGrows DEF PushStep
<1>2. ASSUME NEW u \in Sessions, NEW n \in SeqsOf(u)' PROVE n \in SeqsOf(u) \/ n = seq + 1
  <2>1. ASSUME tx'[u] = tx[u] PROVE n \in SeqsOf(u)
    BY <1>2, <2>1 DEF SeqsOf, RowSeqs, LogSeqs, TakenSeq
  <2>2. ASSUME Bare(tx'[u]), tx'[u].pc \notin {"write", "log"} PROVE FALSE
    BY <1>2, <2>2 DEF SeqsOf, RowSeqs, LogSeqs, TakenSeq, Bare, NoWrites
  <2>3. ASSUME NEW t \in Sessions, NEW r \in Requests, Begin(t, r) PROVE n \in SeqsOf(u)
    BY <2>1, <2>2, <2>3, BeginDoes DEF Alone
  <2>4. ASSUME NEW t \in Sessions, Resets(t) \/ SessionVictim(t) PROVE n \in SeqsOf(u)
    BY <2>1, <2>2, <2>4, ResetsDo, VictimDoes DEF Alone
  <2>5. ASSUME NEW t \in Sessions, Commit(t) PROVE n \in SeqsOf(u)
    BY <2>1, <2>2, <2>5, CommitDoes DEF Alone, Bare
  <2>6. ASSUME NEW t \in Sessions, Moves(t) \/ WriteItem(t) \/ WriteLog(t) \/ TouchGateway(t)
        PROVE  n \in SeqsOf(u)
    <3>1. Alone(t)
      BY <2>6, ActsAlone DEF SessionActs
    <3>2. SeqsOf(t)' \subseteq SeqsOf(t)
      BY <2>6, SeqsAfter
    <3>3. QED
      BY <1>2, <2>1, <3>1, <3>2 DEF Alone
  <2>7. ASSUME NEW t \in Sessions, NextValue(t) \/ NextLogValue(t)
        PROVE  n \in SeqsOf(u) \/ n = seq + 1
    BY <1>2, <2>1, <2>7, NextValuesDo, SeqsAfter DEF Alone
  <2>8. CASE UNCHANGED <<sequences, tables, tx>>
    BY <2>1, <2>8
  <2>9. QED
    BY <2>3, <2>4, <2>5, <2>6, <2>7, <2>8, StepKinds DEF PushStep
<1>3. QED
  BY <1>1, <1>2

\* Rows stay, the queue grows, and a row that changes comes from a session's write set.
LEMMA PushRows ==
  ASSUME InductiveInv, PushStep
  PROVE  /\ queue \subseteq queue'
         /\ \A x \in Ids : reports[x] # NoRow => reports'[x] # NoRow
         /\ reports' = reports \/ \E t \in Sessions : Commit(t) /\ reports' = View(t)
<1>0. TypeOK /\ RowLocks
  BY DEF InductiveInv
<1>1. ASSUME NEW t \in Sessions, SessionVictim(t) PROVE queue' = queue /\ reports' = reports
  BY <1>0, <1>1, VictimDoes DEF tables
<1>2. ASSUME [Next]_vars PROVE queue \subseteq queue'
  <2>1. \A t \in Sessions : Reply(t) => queue \subseteq queue'
    BY DEF Reply
  <2>2. QED
    BY <1>2, <2>1, QueueGrowsAtReply
<1>3. ASSUME [Next]_vars PROVE \A x \in Ids : reports[x] # NoRow => reports'[x] # NoRow
  BY <1>0, <1>3, RowsSurviveStep DEF RowsSurvive
<1>4. ASSUME [Next]_vars
      PROVE  reports' = reports \/ \E t \in Sessions : Commit(t) /\ reports' = View(t)
  BY <1>0, <1>4, ReportsChangeAtCommit, CommitDoes
<1>5. QED
  BY <1>1, <1>2, <1>3, <1>4 DEF PushStep

\* Scores are reset where rows change, and only there.
LEMMA PushScores ==
  ASSUME TriageTypeOK, NoWorkersStep
  PROVE  /\ \A x \in Ids : reports'[x] # reports[x] => scores'[x] = NoScore
         /\ \A x \in Ids : reports'[x] = reports[x] => scores'[x] = scores[x]
         /\ \A x \in Ids : scores'[x] \in {scores[x], NoScore}
         /\ scores' \in [Ids -> 0..100 \cup {NoScore}]
<1>0. scores \in [Ids -> 0..100 \cup {NoScore}] /\ TypeOK
  BY DEF TriageTypeOK
<1>1. UNCHANGED <<reports, scores>> \/ ResetScores
  <2>1. Clients \/ UNCHANGED triageVars => UNCHANGED <<reports, scores>>
    <3>1. \A t \in Sessions, r \in Requests : Begin(t, r) => reports' = reports
      BY DEF Begin, tables
    <3>2. QED
      BY <3>1 DEF Clients, Tick, Refuse, triageVars, vars, triageOnly, tables
  <2>2. \A t \in Sessions : SessionStep(t) => ResetScores
    BY DEF SessionStep
  <2>3. \A t \in Sessions : SessionVictim(t) => UNCHANGED <<reports, scores>>
    BY <1>0, VictimDoes DEF tables, triageOnly
  <2>4. \A t \in Sessions : SessionFault(t) => UNCHANGED <<reports, scores>>
    BY DEF SessionFault, Fail, BrokerError, Crash, RollBack, tables
  <2>5. QED
    BY <2>1, <2>2, <2>3, <2>4 DEF NoWorkersStep
<1>2. CASE UNCHANGED <<reports, scores>>
  BY <1>0, <1>2
<1>3. CASE ResetScores
  BY <1>0, <1>3 DEF ResetScores
<1>4. QED
  BY <1>1, <1>2, <1>3
-----------------------------------------------------------------------------
(* What a worker's step does. *)

LEMMA IdleWorkerIs ==
  /\ IdleWorker \in Worker
  /\ IdleWorker.pc = "idle" /\ IdleWorker.left = {} /\ IdleWorker.row = NoRow
  /\ IdleWorker.marked = NoWrites
<1>1. IdleWorker \in Worker
  BY IdsAreNumbers DEF IdleWorker, Worker, NoWrites
<1>2. IdleWorker.pc = "idle" /\ IdleWorker.left = {}
  BY DEF IdleWorker
<1>3. IdleWorker.row = NoRow /\ IdleWorker.marked = NoWrites
  BY DEF IdleWorker
<1>4. QED
  BY <1>1, <1>2, <1>3

LEMMA WorkerType ==
  ASSUME TriageTypeOK, NEW w \in Workers
  PROVE  /\ worker[w] \in Worker
         /\ worker[w].id \in Ids /\ worker[w].left \subseteq Ids
         /\ worker[w].row \in Row \cup {NoRow}
         /\ worker[w].marked \in [Ids -> Row \cup {NoRow}]
  BY DEF TriageTypeOK, Worker

LEMMA TakeTaskDoes ==
  ASSUME TriageTypeOK, NEW w \in Workers, TakeTask(w)
  PROVE  \E task \in queue \ taken :
           /\ taken' = taken \cup {task} /\ task.ids \subseteq Ids
           /\ worker'[w] \in Worker /\ worker'[w].pc = "next" /\ worker'[w].left = task.ids
           /\ worker'[w].row = NoRow /\ worker'[w].marked = NoWrites
           /\ lost' = lost /\ worker[w].pc = "idle"
<1>1. PICK task \in queue \ taken :
        /\ taken' = taken \cup {task}
        /\ WorkerBecomes(w, [IdleWorker EXCEPT !.pc = "next", !.left = task.ids])
  BY DEF TakeTask
<1>2. task.ids \subseteq Ids
  BY DEF TriageTypeOK, TypeOK
<1>3. worker'[w] = [IdleWorker EXCEPT !.pc = "next", !.left = task.ids]
  BY <1>1, WorkerBecomesOthers
<1>4. /\ worker'[w] \in Worker /\ worker'[w].pc = "next" /\ worker'[w].left = task.ids
      /\ worker'[w].row = NoRow /\ worker'[w].marked = NoWrites
  BY <1>2, <1>3, IdleWorkerIs DEF Worker
<1>5. lost' = lost /\ worker[w].pc = "idle"
  BY DEF TakeTask
<1>6. QED
  BY <1>1, <1>2, <1>4, <1>5

LEMMA ReadReportDoes ==
  ASSUME TriageTypeOK, NEW w \in Workers, ReadReport(w)
  PROVE  \E x \in worker[w].left :
           /\ x \in Ids /\ worker[w].pc = "next"
           /\ worker'[w] \in Worker /\ worker'[w].pc = "update" /\ worker'[w].id = x
           /\ worker'[w].row = reports[x]
           /\ worker'[w].left = worker[w].left /\ worker'[w].marked = worker[w].marked
           /\ UNCHANGED <<taken, lost>>
<1>1. PICK x \in worker[w].left :
        WorkerBecomes(w, [worker[w] EXCEPT !.pc = "update", !.id = x, !.row = reports[x]])
  BY DEF ReadReport
<1>2. x \in Ids /\ worker[w] \in Worker /\ reports[x] \in Row \cup {NoRow}
  BY WorkerType DEF TriageTypeOK, TypeOK
<1>3. worker'[w] = [worker[w] EXCEPT !.pc = "update", !.id = x, !.row = reports[x]]
  BY <1>1, WorkerBecomesOthers
<1>4. /\ worker'[w] \in Worker /\ worker'[w].pc = "update" /\ worker'[w].id = x
      /\ worker'[w].row = reports[x]
      /\ worker'[w].left = worker[w].left /\ worker'[w].marked = worker[w].marked
  BY <1>2, <1>3 DEF Worker
<1>5. worker[w].pc = "next" /\ UNCHANGED <<taken, lost>>
  BY DEF ReadReport
<1>6. QED
  BY <1>2, <1>4, <1>5

LEMMA UpdateReportDoes ==
  ASSUME TriageTypeOK, NEW w \in Workers, UpdateReport(w)
  PROVE  LET x == worker[w].id
         IN  /\ worker[w].pc = "update"
             /\ \A t \in Sessions : tx[t].writes[x] = NoRow
             /\ worker'[w] \in Worker /\ worker'[w].pc = "next" /\ worker'[w].row = NoRow
             /\ worker'[w].left = worker[w].left \ {x}
             /\ worker'[w].marked[x] = worker[w].row
             /\ \A y \in Ids \ {x} : worker'[w].marked[y] = worker[w].marked[y]
             /\ UNCHANGED <<taken, lost>>
<1> DEFINE x == worker[w].id
           marks == [worker[w].marked EXCEPT ![x] = worker[w].row]
<1>1. /\ worker[w] \in Worker /\ x \in Ids /\ worker[w].row \in Row \cup {NoRow}
      /\ worker[w].marked \in [Ids -> Row \cup {NoRow}] /\ worker[w].left \subseteq Ids
  BY WorkerType
<1>2. worker'[w] = [worker[w] EXCEPT !.pc = "next", !.left = @ \ {x}, !.row = NoRow,
                                     !.marked = marks]
  BY WorkerBecomesOthers DEF UpdateReport
<1>3. /\ marks \in [Ids -> Row \cup {NoRow}] /\ marks[x] = worker[w].row
      /\ \A y \in Ids \ {x} : marks[y] = worker[w].marked[y]
  BY <1>1
<1> HIDE DEF marks
<1>4. /\ worker'[w] \in Worker /\ worker'[w].pc = "next" /\ worker'[w].row = NoRow
      /\ worker'[w].left = worker[w].left \ {x} /\ worker'[w].marked = marks
  BY <1>1, <1>2, <1>3 DEF Worker
<1>5. worker[w].pc = "update" /\ Waiting(w) = {} /\ UNCHANGED <<taken, lost>>
  BY DEF UpdateReport
<1>6. \A t \in Sessions : tx[t].writes[x] = NoRow
  BY <1>5, WorkersAreNotSessions DEF Waiting
<1>7. QED
  BY <1>3, <1>4, <1>5, <1>6

LEMMA DropTaskDoes ==
  ASSUME TriageTypeOK, NEW w \in Workers, WorkerVictim(w) \/ WorkerDies(w)
  PROVE  /\ worker'[w] = IdleWorker /\ taken' = taken
         /\ lost' = lost \cup worker[w].left \cup {x \in Ids : worker[w].marked[x] # NoRow}
  BY WorkerBecomesOthers DEF WorkerVictim, WorkerDies, DropTask

LEMMA CommitTriageDoes ==
  ASSUME TriageTypeOK, NEW w \in Workers, CommitTriage(w)
  PROVE  /\ worker'[w] = IdleWorker /\ UNCHANGED <<taken, lost, queue, tx, seq, log>>
         /\ \A v \in Workers \ {w} : worker'[v] = worker[v]
         /\ worker[w].pc = "next" /\ worker[w].left = {}
         /\ \A x \in Ids : worker[w].marked[x] = NoRow => UNCHANGED <<reports[x], scores[x]>>
         /\ \A x \in Ids : worker[w].marked[x] # NoRow =>
              /\ reports'[x] = [reports[x] EXCEPT !.triage = "completed"]
              /\ scores'[x] = ComputePriorityScore(worker[w].marked[x])
<1>1. worker'[w] = IdleWorker /\ \A v \in Workers \ {w} : worker'[v] = worker[v]
  BY WorkerBecomesOthers DEF CommitTriage
<1>2. /\ worker[w].pc = "next" /\ worker[w].left = {}
      /\ UNCHANGED <<taken, lost, queue, tx, seq, log>>
  BY DEF CommitTriage, sequences
<1>3. \A x \in Ids :
        /\ reports'[x] = IF worker[w].marked[x] = NoRow THEN reports[x]
                         ELSE [reports[x] EXCEPT !.triage = "completed"]
        /\ scores'[x] = IF worker[w].marked[x] = NoRow THEN scores[x]
                        ELSE ComputePriorityScore(worker[w].marked[x])
  BY DEF CommitTriage
<1>4. QED
  BY <1>1, <1>2, <1>3

\* triage_logic.py:30: a score is at most 100.
LEMMA ScoreRange == ASSUME NEW row PROVE ComputePriorityScore(row) \in 0..100
<1>1. BaseScore(row) \in 0..100
  BY DEF BaseScore
<1>2. \A n \in Nat : AtMost100(n) \in 0..100
  BY DEF AtMost100
<1> DEFINE high == IF Detail[row.upd].high THEN 20 ELSE 0
           hurt == IF Detail[row.upd].hurt THEN 15 ELSE 0
<1>3. high \in Nat /\ hurt \in Nat
  OBVIOUS
<1>4. ComputePriorityScore(row) = AtMost100(AtMost100(BaseScore(row) + high) + hurt)
  BY DEF ComputePriorityScore
<1> HIDE DEF high, hurt
<1>5. AtMost100(BaseScore(row) + high) \in 0..100
  BY <1>1, <1>2, <1>3
<1>6. QED
  BY <1>2, <1>3, <1>4, <1>5
-----------------------------------------------------------------------------
(* Types, and ingest's own invariant. *)

LEMMA WorkersColumnsOnly ==
  ASSUME TriageTypeOK, WorkerShapes, NEW w \in Workers, WorkerMoves(w) \/ CommitTriage(w)
  PROVE  TriageColumnsOnly
<1>1. CASE WorkerMoves(w)
  BY <1>1, WorkerMovesDo DEF TriageColumnsOnly, TriageTypeOK, TypeOK
<1>2. CASE CommitTriage(w)
  BY <1>2, CommitColumnsOnly DEF WorkerShapes, WorkerShape
<1>3. QED
  BY <1>1, <1>2

LEMMA IngestStep ==
  InductiveInv /\ TriageTypeOK /\ WorkerShapes /\ [TriageNext]_triageVars => InductiveInv'
  BY TriageStepKinds, NoWorkersPush, PushKeepsIngest, WorkersColumnsOnly, ColumnsKeepIngest

LEMMA TriageTypeStep ==
  InductiveInv /\ TriageTypeOK /\ WorkerShapes /\ [TriageNext]_triageVars => TriageTypeOK'
<1> SUFFICES ASSUME InductiveInv, TriageTypeOK, WorkerShapes, [TriageNext]_triageVars
             PROVE  TriageTypeOK'
  OBVIOUS
<1>0. /\ TypeOK /\ TypeOK'
      /\ scores \in [Ids -> 0..100 \cup {NoScore}] /\ worker \in [Workers -> Worker]
      /\ taken \subseteq queue /\ lost \subseteq Ids
  BY IngestStep DEF InductiveInv, TriageTypeOK
<1>1. CASE NoWorkersStep
  <2>1. UNCHANGED <<worker, taken>> /\ queue \subseteq queue'
    BY <1>1, NoWorkersPush, PushRows
  <2>2. scores' \in [Ids -> 0..100 \cup {NoScore}]
    BY <1>1, PushScores
  <2>3. lost' \subseteq Ids
    <3>1. \A t \in Sessions : tx[t].touched \subseteq Ids
      BY <1>0, SessionType DEF Session
    <3>2. \A t \in Sessions : SessionFault(t) => lost' \subseteq Ids
      BY <1>0, <3>1 DEF SessionFault
    <3>3. \A t \in Sessions : SessionStep(t) \/ SessionVictim(t) => lost' \subseteq lost
      BY DEF SessionStep, SessionVictim, triageOnly
    <3>4. Clients \/ UNCHANGED triageVars => lost' = lost
      BY DEF Clients, triageVars, triageOnly
    <3>5. QED
      BY <1>0, <1>1, <3>2, <3>3, <3>4 DEF NoWorkersStep
  <2>4. QED
    BY <1>0, <2>1, <2>2, <2>3 DEF TriageTypeOK
<1>2. ASSUME NEW w \in Workers, WorkerMoves(w) \/ CommitTriage(w),
             worker'[w] \in Worker, taken' \subseteq queue, lost' \subseteq Ids
      PROVE  TriageTypeOK'
  <2>1. worker' \in [Workers -> Worker]
    <3>1. \E state : WorkerBecomes(w, state)
      BY <1>2 DEF WorkerMoves, TakeTask, ReadReport, UpdateReport, WorkerVictim, WorkerDies,
         DropTask, CommitTriage
    <3>2. QED
      BY <1>0, <1>2, <3>1 DEF WorkerBecomes
  <2>2. queue' = queue
    BY <1>2, WorkerMovesDo, CommitTriageDoes
  <2>3. scores' \in [Ids -> 0..100 \cup {NoScore}]
    <3>1. CASE WorkerMoves(w)
      BY <1>0, <3>1, WorkerMovesDo
    <3>2. CASE CommitTriage(w)
      BY <1>0, <3>2, ScoreRange DEF CommitTriage
    <3>3. QED
      BY <1>2, <3>1, <3>2
  <2>4. QED
    BY <1>0, <1>2, <2>1, <2>2, <2>3 DEF TriageTypeOK
<1>3. ASSUME NEW w \in Workers, TakeTask(w) PROVE TriageTypeOK'
  BY <1>0, <1>2, <1>3, TakeTaskDoes DEF WorkerMoves
<1>4. ASSUME NEW w \in Workers, ReadReport(w) PROVE TriageTypeOK'
  BY <1>0, <1>2, <1>4, ReadReportDoes DEF WorkerMoves
<1>5. ASSUME NEW w \in Workers, UpdateReport(w) PROVE TriageTypeOK'
  BY <1>0, <1>2, <1>5, UpdateReportDoes DEF WorkerMoves
<1>6. ASSUME NEW w \in Workers, WorkerVictim(w) \/ WorkerDies(w) PROVE TriageTypeOK'
  <2>1. lost' \subseteq Ids
    BY <1>0, <1>6, DropTaskDoes, WorkerType
  <2>2. QED
    BY <1>0, <1>2, <1>6, <2>1, DropTaskDoes, IdleWorkerIs DEF WorkerMoves
<1>7. ASSUME NEW w \in Workers, CommitTriage(w) PROVE TriageTypeOK'
  BY <1>0, <1>2, <1>7, CommitTriageDoes, IdleWorkerIs
<1>8. QED
  BY <1>1, <1>3, <1>4, <1>5, <1>6, <1>7, TriageStepKinds DEF WorkerMoves

-----------------------------------------------------------------------------
(* Workers between their steps. *)

LEMMA WorkerShapeKept ==
  ASSUME TriageTypeOK, NEW w \in Workers, WorkerShape(w), worker'[w] = worker[w],
         \A x \in Ids : reports[x] # NoRow => reports'[x] # NoRow
  PROVE  WorkerShape(w)'
  BY WorkerType DEF WorkerShape

LEMMA WorkerShapesStep ==
  InductiveInv /\ TriageTypeOK /\ WorkerShapes /\ [TriageNext]_triageVars => WorkerShapes'
<1> SUFFICES ASSUME InductiveInv, TriageTypeOK, WorkerShapes, [TriageNext]_triageVars,
                    NEW v \in Workers
             PROVE  WorkerShape(v)'
  BY DEF WorkerShapes
<1>0. WorkerShape(v) /\ worker[v].left \subseteq Ids /\ worker[v].id \in Ids
      /\ worker[v].marked \in [Ids -> Row \cup {NoRow}]
  BY WorkerType DEF WorkerShapes
<1>1. CASE NoWorkersStep
  BY <1>0, <1>1, NoWorkersPush, PushRows, WorkerShapeKept
<1>2. ASSUME NEW w \in Workers, WorkerMoves(w) \/ CommitTriage(w), v # w PROVE WorkerShape(v)'
  <2>1. \A x \in Ids : reports[x] # NoRow => reports'[x] # NoRow
    BY <1>2, WorkersColumnsOnly DEF TriageColumnsOnly
  <2>2. worker'[v] = worker[v]
    BY <1>2, WorkerMovesDo, CommitTriageDoes
  <2>3. QED
    BY <1>0, <2>1, <2>2, WorkerShapeKept
<1>3. ASSUME worker'[v] = IdleWorker PROVE WorkerShape(v)'
  BY <1>3, IdleWorkerIs DEF WorkerShape, NoWrites
<1>4. ASSUME TakeTask(v) PROVE WorkerShape(v)'
  <2>1. PICK task \in queue \ taken :
          /\ task.ids \subseteq Ids
          /\ worker'[v].pc = "next" /\ worker'[v].left = task.ids
          /\ worker'[v].row = NoRow /\ worker'[v].marked = NoWrites
    BY <1>4, TakeTaskDoes
  <2>2. reports' = reports
    BY <1>4, WorkerMovesDo DEF WorkerMoves
  <2>3. \A x \in task.ids : reports[x] # NoRow
    BY DEF InductiveInv, ReportsKept, QueuedAreStored
  <2>4. QED
    BY <2>1, <2>2, <2>3 DEF WorkerShape, NoWrites
<1>5. ASSUME ReadReport(v) PROVE WorkerShape(v)'
  <2>1. PICK x \in worker[v].left :
          /\ worker[v].pc = "next"
          /\ worker'[v].pc = "update" /\ worker'[v].id = x /\ worker'[v].row = reports[x]
          /\ worker'[v].left = worker[v].left /\ worker'[v].marked = worker[v].marked
    BY <1>5, ReadReportDoes
  <2>2. reports' = reports
    BY <1>5, WorkerMovesDo DEF WorkerMoves
  <2>3. QED
    BY <1>0, <2>1, <2>2 DEF WorkerShape
<1>6. ASSUME UpdateReport(v) PROVE WorkerShape(v)'
  <2> DEFINE x == worker[v].id
  <2>1. /\ worker[v].pc = "update"
        /\ worker'[v].pc = "next" /\ worker'[v].row = NoRow
        /\ worker'[v].left = worker[v].left \ {x}
        /\ \A y \in Ids \ {x} : worker'[v].marked[y] = worker[v].marked[y]
    BY <1>6, UpdateReportDoes
  <2>2. reports' = reports
    BY <1>6, WorkerMovesDo DEF WorkerMoves
  <2>3. x \in worker[v].left /\ reports[x] # NoRow
    BY <1>0, <2>1 DEF WorkerShape
  <2> HIDE DEF x
  <2>4. QED
    BY <1>0, <2>1, <2>2, <2>3 DEF WorkerShape
<1>7. QED
  BY <1>1, <1>2, <1>3, <1>4, <1>5, <1>6, TriageStepKinds, DropTaskDoes, CommitTriageDoes
  DEF WorkerMoves

-----------------------------------------------------------------------------
(* Locks. *)

\* A session comes to hold a row only by writing it, when no worker has updated it.
LEMMA PushWrites ==
  ASSUME TypeOK, NoWorkersStep, NEW u \in Sessions, NEW x \in Ids, tx[u].writes[x] = NoRow,
         tx'[u].writes[x] # NoRow
  PROVE  MarkHolders(x) = {}
<1>1. tx'[u].writes # tx[u].writes /\ ~Bare(tx'[u])
  BY DEF Bare, NoWrites
<1>2. ASSUME NEW t \in Sessions, NEW r \in Requests, Begin(t, r) PROVE FALSE
  BY <1>1, <1>2, BeginDoes DEF Alone
<1>3. ASSUME NEW t \in Sessions, Resets(t) \/ SessionVictim(t) PROVE FALSE
  BY <1>1, <1>3, ResetsDo, VictimDoes DEF Alone
<1>4. CASE Clients \/ UNCHANGED triageVars
  BY <1>1, <1>2, <1>4 DEF Clients, Tick, Refuse, triageVars, vars
<1>5. ASSUME NEW t \in Sessions, SessionFault(t) PROVE FALSE
  BY <1>3, <1>5 DEF SessionFault, Resets
<1>6. ASSUME NEW t \in Sessions, SessionStep(t) PROVE MarkHolders(x) = {}
  <2>1. SessionActs(t)
    BY <1>6, SessionsAct
  <2>2. u = t
    BY <1>1, <2>1, ActsAlone DEF Alone
  <2>3. \A f \in {"writes"} : tx'[t][f] # tx[t][f]
    BY <1>1, <2>2
  <2>4. ~(Moves(t) \/ TouchGateway(t) \/ NextValue(t) \/ NextLogValue(t) \/ WriteLog(t))
    BY <2>3, MovesDo, TouchGatewayDoes, NextValuesDo, WriteLogDoes
  <2>5. ~Commit(t)
    BY <1>1, <2>2, CommitDoes DEF Bare
  <2>6. WriteItem(t)
    BY <1>3, <2>1, <2>4, <2>5 DEF SessionActs
  <2>7. tx[t].writes \in [Ids -> Row \cup {NoRow}]
    BY SessionType DEF Session
  <2>8. x = tx[t].target /\ tx[t].pc = "write"
    BY <2>2, <2>6, <2>7, WriteItemDoes
  <2>9. QED
    BY <1>6, <2>8 DEF SessionStep
<1>7. QED
  BY <1>3, <1>4, <1>5, <1>6 DEF NoWorkersStep

LEMMA MarkLocksStep ==
  InductiveInv /\ TriageTypeOK /\ MarkLocks /\ [TriageNext]_triageVars => MarkLocks'
<1> SUFFICES ASSUME InductiveInv, TriageTypeOK, MarkLocks, [TriageNext]_triageVars,
                    NEW v \in Workers, NEW t \in Sessions, NEW x \in Ids,
                    worker'[v].marked[x] # NoRow
             PROVE  tx'[t].writes[x] = NoRow
  BY DEF MarkLocks
<1>0. TypeOK
  BY DEF InductiveInv
<1>1. CASE NoWorkersStep
  <2>1. worker[v].marked[x] # NoRow
    BY <1>1, NoWorkersPush
  <2>2. tx[t].writes[x] = NoRow /\ MarkHolders(x) # {}
    BY <2>1 DEF MarkLocks, MarkHolders
  <2>3. QED
    BY <1>0, <1>1, <2>2, PushWrites
<1>2. ASSUME NEW w \in Workers, WorkerMoves(w) \/ CommitTriage(w) PROVE tx'[t].writes[x] = NoRow
  <2>1. tx' = tx
    BY <1>2, WorkerMovesDo, CommitTriageDoes
  <2>2. CASE worker[v].marked[x] # NoRow
    BY <2>1, <2>2 DEF MarkLocks
  <2>3. CASE worker[v].marked[x] = NoRow
    <3>1. v = w
      BY <1>2, <2>3, WorkerMovesDo, CommitTriageDoes
    <3>2. worker'[v].marked # NoWrites /\ worker'[v].marked # worker[v].marked
      BY <2>3 DEF NoWrites
    <3>3. UpdateReport(v)
      BY <1>2, <3>1, <3>2, TakeTaskDoes, ReadReportDoes, DropTaskDoes, CommitTriageDoes,
         IdleWorkerIs DEF WorkerMoves
    <3>4. x = worker[v].id
      BY <2>3, <3>3, UpdateReportDoes
    <3>5. QED
      BY <2>1, <3>3, <3>4, UpdateReportDoes
  <2>4. QED
    BY <2>2, <2>3
<1>3. QED
  BY <1>1, <1>2, TriageStepKinds

-----------------------------------------------------------------------------
(* What workers have read. *)

LEMMA ReadRows ==
  ASSUME TriageTypeOK, NEW w \in Workers, NEW x \in Ids, NEW row \in HasRead(w, x)
  PROVE  row \in Row
  BY WorkerType DEF HasRead

LEMMA NothingRead ==
  ASSUME NEW w, NEW x \in Ids, worker'[w].pc # "update", worker'[w].marked = NoWrites
  PROVE  HasRead(w, x)' = {}
  BY DEF HasRead, NoWrites

\* A worker reads nothing but what is stored at the time.
LEMMA ReadsAfter ==
  ASSUME TriageTypeOK, NEW w \in Workers, WorkerMoves(w) \/ CommitTriage(w),
         NEW v \in Workers, NEW x \in Ids, NEW row \in HasRead(v, x)'
  PROVE  row \in HasRead(v, x) \/ (ReadReport(v) /\ row = reports[x])
<1>1. CASE v # w
  <2>1. worker'[v] = worker[v]
    BY <1>1, WorkerMovesDo, CommitTriageDoes
  <2>2. QED
    BY <2>1 DEF HasRead
<1>2. ASSUME TakeTask(v) \/ WorkerVictim(v) \/ WorkerDies(v) \/ CommitTriage(v) PROVE FALSE
  <2>1. worker'[v].pc # "update" /\ worker'[v].marked = NoWrites
    BY <1>2, TakeTaskDoes, DropTaskDoes, CommitTriageDoes, IdleWorkerIs
  <2>2. QED
    BY <2>1, NothingRead
<1>3. ASSUME ReadReport(v) PROVE row \in HasRead(v, x) \/ row = reports[x]
  <2>1. PICK y \in worker[v].left :
          /\ worker'[v].id = y /\ worker'[v].row = reports[y]
          /\ worker'[v].marked = worker[v].marked
    BY <1>3, ReadReportDoes
  <2>2. QED
    BY <2>1 DEF HasRead
<1>4. ASSUME UpdateReport(v) PROVE row \in HasRead(v, x)
  <2> DEFINE y == worker[v].id
  <2>1. /\ worker[v].pc = "update" /\ worker'[v].pc = "next"
        /\ worker'[v].marked[y] = worker[v].row
        /\ \A z \in Ids \ {y} : worker'[v].marked[z] = worker[v].marked[z]
    BY <1>4, UpdateReportDoes
  <2>2. row = worker'[v].marked[x] /\ row # NoRow
    BY <2>1 DEF HasRead
  <2>3. QED
    BY <2>1, <2>2 DEF HasRead
<1>5. QED
  BY <1>1, <1>2, <1>3, <1>4 DEF WorkerMoves

LEMMA ReadsDatedStep ==
  ASSUME InductiveInv, TriageTypeOK, WorkerShapes, ReadsDated, [TriageNext]_triageVars
  PROVE  ReadsDated'
<1> SUFFICES ASSUME NEW v \in Workers, NEW x \in Ids, NEW row \in HasRead(v, x)'
             PROVE  /\ row.seq <= seq'
                    /\ \A t \in Sessions : row.seq \notin SeqsOf(t)'
                    /\ row.seq = reports'[x].seq =>
                         row.kind = reports'[x].kind /\ row.upd = reports'[x].upd
  BY DEF ReadsDated
<1>0. /\ TypeOK /\ SessionShape /\ SequenceIdsOwned
      /\ seq \in Nat /\ reports \in [Ids -> Row \cup {NoRow}]
  BY DEF InductiveInv, TypeOK
<1>1. CASE NoWorkersStep
  <2>1. row \in HasRead(v, x)
    BY <1>1, NoWorkersPush DEF HasRead
  <2>2. /\ row.seq \in Nat /\ row.seq <= seq
        /\ \A t \in Sessions : row.seq \notin SeqsOf(t)
        /\ row.seq = reports[x].seq => row.kind = reports[x].kind /\ row.upd = reports[x].upd
    BY <2>1, ReadRows DEF ReadsDated, Row
  <2>3. PushStep
    BY <1>1, NoWorkersPush
  <2>4. row.seq <= seq' /\ row.seq # seq + 1
    BY <1>0, <2>2, <2>3, PushSeqs
  <2>5. \A t \in Sessions : row.seq \notin SeqsOf(t)'
    BY <1>0, <2>2, <2>3, <2>4, PushSeqs
  <2>6. reports'[x] = reports[x] \/ reports'[x].seq # row.seq
    <3>1. ASSUME NEW t \in Sessions, reports' = View(t)
          PROVE  reports'[x] = reports[x] \/ reports'[x].seq # row.seq
      <4>1. CASE tx[t].writes[x] = NoRow
        BY <3>1, <4>1 DEF View
      <4>2. CASE tx[t].writes[x] # NoRow
        BY <2>2, <3>1, <4>2 DEF View, SeqsOf, RowSeqs
      <4>3. QED
        BY <4>1, <4>2
    <3>2. QED
      BY <2>3, <3>1, PushRows
  <2>7. QED
    BY <2>2, <2>4, <2>5, <2>6
<1>2. ASSUME NEW w \in Workers, WorkerMoves(w) \/ CommitTriage(w)
      PROVE  /\ row.seq <= seq'
             /\ \A t \in Sessions : row.seq \notin SeqsOf(t)'
             /\ row.seq = reports'[x].seq =>
                  row.kind = reports'[x].kind /\ row.upd = reports'[x].upd
  <2>1. /\ seq' = seq /\ tx' = tx
        /\ reports'[x] = NoRow <=> reports[x] = NoRow
        /\ reports[x] # NoRow =>
             /\ reports'[x].kind = reports[x].kind /\ reports'[x].upd = reports[x].upd
             /\ reports'[x].seq = reports[x].seq
    BY <1>2, WorkersColumnsOnly DEF TriageColumnsOnly
  <2>2. \A t \in Sessions : SeqsOf(t)' = SeqsOf(t)
    BY <2>1 DEF SeqsOf, RowSeqs, LogSeqs, TakenSeq
  <2>3. /\ row.seq <= seq
        /\ \A t \in Sessions : row.seq \notin SeqsOf(t)
        /\ row.seq = reports[x].seq => row.kind = reports[x].kind /\ row.upd = reports[x].upd
    <3>1. CASE row \in HasRead(v, x)
      BY <3>1 DEF ReadsDated
    <3>2. CASE ReadReport(v) /\ row = reports[x]
      <4>1. row # NoRow
        BY DEF HasRead
      <4>2. row.seq \in TableSeqs
        BY <3>2, <4>1 DEF TableSeqs
      <4>3. QED
        BY <1>0, <3>2, <4>2 DEF SequenceIdsOwned
    <3>3. QED
      BY <1>2, <3>1, <3>2, ReadsAfter
  <2>4. QED
    BY <2>1, <2>2, <2>3
<1>3. QED
  BY <1>1, <1>2, TriageStepKinds

-----------------------------------------------------------------------------
(* What sessions hand over. *)

LEMMA TouchedStep ==
  ASSUME InductiveInv, HandOvers, PushStep, NEW u \in Sessions
  PROVE  /\ tx'[u].pc \in {"replay", "gateway"} => tx'[u].touched = {}
         /\ Uncommitted(u)' \subseteq tx'[u].touched
         /\ tx'[u].pc = "reply" /\ tx'[u].touched # {} =>
              (tx[u].pc = "reply" /\ tx'[u] = tx[u]) \/ Commit(u)
<1> DEFINE Good == /\ tx'[u].pc \in {"replay", "gateway"} => tx'[u].touched = {}
                   /\ Uncommitted(u)' \subseteq tx'[u].touched
                   /\ tx'[u].pc = "reply" /\ tx'[u].touched # {} =>
                        (tx[u].pc = "reply" /\ tx'[u] = tx[u]) \/ Commit(u)
<1> SUFFICES Good
  OBVIOUS
<1>0. /\ TypeOK /\ SessionShape
      /\ tx[u].pc \in {"replay", "gateway"} => tx[u].touched = {}
      /\ Uncommitted(u) \subseteq tx[u].touched
  BY DEF InductiveInv, HandOvers, HandOver
<1>1. ASSUME tx'[u] = tx[u] PROVE Good
  BY <1>0, <1>1 DEF Uncommitted
<1>2. ASSUME tx'[u].touched = {}, Bare(tx'[u]) PROVE Good
  BY <1>2 DEF Uncommitted, Bare, NoWrites
<1>3. ASSUME Resets(u) \/ \E r \in Requests : Begin(u, r) PROVE Good
  BY <1>0, <1>2, <1>3, CountersStart, ResetsDo, BeginDoes
<1>4. ASSUME SessionVictim(u) PROVE Good
  <2>1. tx'[u] = IdleSession
    BY <1>0, <1>4, VictimDoes
  <2>2. tx'[u].touched = {} /\ Bare(tx'[u])
    <3>1. IdleSession.touched = {}
      BY DEF IdleSession
    <3>2. QED
      BY <2>1, <3>1, IdleIsBare
  <2>3. QED
    BY <1>2, <2>2
<1>5. ASSUME Moves(u) PROVE Good
  <2>1. tx'[u].touched = tx[u].touched
    BY <1>0, <1>5, CountersMove
  <2>2. /\ \A f \in {"writes"} : tx'[u][f] = tx[u][f]
        /\ tx[u].pc \in {"replay", "item"}
        /\ tx'[u].pc \in {"reply", "gateway", "item", "nextval"}
        /\ tx'[u].pc \in Working <=> tx[u].pc \in Working
    BY <1>0, <1>5, MovesDo
  <2>3. Uncommitted(u)' = Uncommitted(u)
    BY <2>2 DEF Uncommitted
  <2>4. tx'[u].pc \in {"reply", "gateway"} => tx[u].touched = {}
    BY <1>0, <2>2 DEF Working
  <2>5. QED
    BY <1>0, <2>1, <2>2, <2>3, <2>4
<1>6. ASSUME TouchGateway(u) \/ NextValue(u) \/ NextLogValue(u) \/ WriteLog(u) PROVE Good
  <2>1. \A f \in {"touched"} : tx'[u][f] = tx[u][f]
    BY <1>0, <1>6, CountersKept
  <2>2. \A f \in {"writes"} : tx'[u][f] = tx[u][f]
    BY <1>0, <1>6, TouchGatewayDoes, NextValuesDo, WriteLogDoes
  <2>3. tx'[u].pc \in {"item", "write", "log", "commit"}
    BY <1>0, <1>6, TouchGatewayDoes, NextValuesDo, WriteLogDoes
  <2>4. QED
    BY <1>0, <2>1, <2>2, <2>3 DEF Uncommitted
<1>7. ASSUME WriteItem(u) PROVE Good
  <2>1. tx'[u].touched = tx[u].touched \cup {tx[u].target} /\ tx'[u].pc = "item"
    BY <1>0, <1>7, CountersWrite, WriteItemDoes
  <2>2. \A x \in Ids \ {tx[u].target} : tx'[u].writes[x] = tx[u].writes[x]
    BY <1>0, <1>7, NewRowIsRow
  <2>3. QED
    BY <1>0, <2>1, <2>2 DEF Uncommitted
<1>8. ASSUME Commit(u) PROVE Good
  <2>1. tx'[u].pc = "reply" /\ tx'[u].writes = NoWrites
    BY <1>0, <1>8, CommitDoes
  <2>2. QED
    BY <1>8, <2>1 DEF Uncommitted, NoWrites
<1>9. ASSUME NEW t \in Sessions, t # u, Alone(t) PROVE Good
  BY <1>1, <1>9 DEF Alone
<1>10. ASSUME NEW t \in Sessions, SessionActs(t) PROVE Good
  BY <1>0, <1>3, <1>5, <1>6, <1>7, <1>8, <1>9, <1>10, ActsAlone DEF SessionActs
<1>11. ASSUME NEW t \in Sessions, SessionVictim(t) PROVE Good
  BY <1>0, <1>4, <1>9, <1>11, VictimDoes
<1>12. ASSUME NEW t \in Sessions, NEW r \in Requests, Begin(t, r) PROVE Good
  BY <1>0, <1>3, <1>9, <1>12, BeginDoes
<1>13. ASSUME UNCHANGED tx PROVE Good
  BY <1>1, <1>13
<1> HIDE DEF Good
<1>14. QED
  BY <1>10, <1>11, <1>12, <1>13, StepKinds DEF PushStep, SessionActs

LEMMA HandOversPush ==
  ASSUME InductiveInv, HandOvers, PushStep
  PROVE  HandOvers'
<1>0. TypeOK /\ SessionShape /\ PendingUnrecorded /\ QueuedAreStored
  BY DEF InductiveInv, ReportsKept
<1> DEFINE Answering(u) == tx[u].pc = "reply" /\ tx[u].touched # {}
<1>1. ASSUME NEW u \in Sessions, Answering(u)'
      PROVE  (tx'[u] = tx[u] /\ Answering(u)) \/ Commit(u)
  BY <1>1, TouchedStep
<1>2. \A u \in Sessions : Answering(u) => Logged(Key(tx[u].req))
  BY <1>0 DEF SessionShape, Shape, Logged
<1>3. \A u \in Sessions : Commit(u) =>
        /\ ~Logged(Key(tx[u].req)) /\ tx'[u].req = tx[u].req /\ queue' = queue /\ Alone(u)
        /\ tx[u].pc = "commit"
  <2>1. \A u \in Sessions : Commit(u) => queue' = queue
    BY DEF Commit
  <2>2. QED
    BY <1>0, <2>1, CommitDoes DEF PendingUnrecorded
<1>4. ASSUME NEW u \in Sessions, Answering(u)', NEW task \in queue'
      PROVE  task.key # Key(tx'[u].req)
  <2>1. CASE Commit(u)
    <3>1. Logged(task.key)
      BY <1>0, <1>3, <2>1 DEF QueuedAreStored
    <3>2. QED
      BY <1>3, <2>1, <3>1
  <2>2. CASE tx'[u] = tx[u] /\ Answering(u) /\ task \in queue
    BY <2>2 DEF HandOvers, HandOver
  <2>3. CASE tx'[u] = tx[u] /\ Answering(u) /\ task \notin queue
    <3>1. PICK s \in Sessions : Reply(s)
      <4>1. \A t \in Sessions : SessionVictim(t) => queue' = queue
        BY <1>0, VictimDoes
      <4>2. QED
        BY <1>4, <2>3, <4>1, QueueGrowsAtReply DEF PushStep
    <3>2. tx[s].touched # {} /\ task.key = Key(tx[s].req) /\ tx[s].pc = "reply"
      BY <2>3, <3>1 DEF Reply
    <3>3. s # u
      BY <1>0, <2>3, <3>1, ResetsDo DEF Resets
    <3>4. QED
      BY <2>3, <3>2, <3>3 DEF HandOvers, HandOver
  <2>4. QED
    BY <1>1, <1>4, <2>1, <2>2, <2>3
<1>5. ASSUME NEW u \in Sessions, NEW v \in Sessions, Answering(u)', Answering(v)',
             Key(tx'[u].req) = Key(tx'[v].req)
      PROVE  u = v
  <2>1. CASE Commit(u) /\ Commit(v)
    <3>1. tx'[v].pc = "reply"
      BY <1>5
    <3>2. QED
      BY <1>3, <2>1, <3>1 DEF Alone
  <2>2. CASE tx'[u] = tx[u] /\ Answering(u) /\ tx'[v] = tx[v] /\ Answering(v)
    BY <1>5, <2>2 DEF HandOvers, HandOver
  <2>3. CASE tx'[u] = tx[u] /\ Answering(u) /\ Commit(v)
    BY <1>2, <1>3, <1>5, <2>3
  <2>4. CASE Commit(u) /\ tx'[v] = tx[v] /\ Answering(v)
    BY <1>2, <1>3, <1>5, <2>4
  <2>5. QED
    BY <1>1, <1>5, <2>1, <2>2, <2>3, <2>4
<1>6. QED
  BY <1>4, <1>5, TouchedStep DEF HandOvers, HandOver, Key

LEMMA HandOversStep ==
  ASSUME InductiveInv, TriageTypeOK, HandOvers, [TriageNext]_triageVars
  PROVE  HandOvers'
<1>1. ASSUME NEW w \in Workers, WorkerMoves(w) \/ CommitTriage(w) PROVE HandOvers'
  <2>1. tx' = tx /\ queue' = queue
    BY <1>1, WorkerMovesDo, CommitTriageDoes
  <2>2. QED
    BY <2>1 DEF HandOvers, HandOver, Uncommitted, Key
<1>2. QED
  BY <1>1, TriageStepKinds, NoWorkersPush, HandOversPush

-----------------------------------------------------------------------------
(* Scores, with one worker. *)

LEMMA ReplacedHaveNoScoreStep ==
  ASSUME OneWorker, TriageTypeOK, InductiveInv, ReplacedHaveNoScore, [TriageNext]_triageVars
  PROVE  ReplacedHaveNoScore'
<1> SUFFICES ASSUME NEW v \in Workers, NEW x \in Ids, NEW row \in HasRead(v, x)',
                    row.seq # reports'[x].seq
             PROVE  scores'[x] = NoScore
  BY DEF ReplacedHaveNoScore
<1>1. CASE NoWorkersStep
  <2>1. row \in HasRead(v, x)
    BY <1>1, NoWorkersPush DEF HasRead
  <2>2. CASE reports'[x] = reports[x]
    <3>1. scores[x] = NoScore
      BY <2>1, <2>2 DEF ReplacedHaveNoScore
    <3>2. QED
      BY <1>1, <2>2, <3>1, PushScores
  <2>3. CASE reports'[x] # reports[x]
    BY <1>1, <2>3, PushScores
  <2>4. QED
    BY <2>2, <2>3
<1>2. ASSUME NEW w \in Workers, WorkerMoves(w) PROVE scores'[x] = NoScore
  <2>1. reports' = reports /\ scores' = scores
    BY <1>2, WorkerMovesDo
  <2>2. row \in HasRead(v, x)
    BY <1>2, <2>1, ReadsAfter
  <2>3. QED
    BY <2>1, <2>2 DEF ReplacedHaveNoScore
<1>3. ASSUME NEW w \in Workers, CommitTriage(w) PROVE FALSE
  <2>1. v = w
    BY DEF OneWorker
  <2>2. worker'[v].pc # "update" /\ worker'[v].marked = NoWrites
    BY <1>3, <2>1, CommitTriageDoes, IdleWorkerIs
  <2>3. QED
    BY <2>2, NothingRead
<1>4. QED
  BY <1>1, <1>2, <1>3, TriageStepKinds

LEMMA SameScore ==
  ASSUME NEW a, NEW b, a.kind = b.kind, a.upd = b.upd
  PROVE  ComputePriorityScore(a) = ComputePriorityScore(b)
  BY DEF ComputePriorityScore, BaseScore

LEMMA LostStays ==
  ASSUME NEW x, x \in lost, reports'[x] = reports[x],
         NoWorkersStep
  PROVE  x \in lost'
<1>1. \A t \in Sessions : SessionStep(t) \/ SessionVictim(t) \/ SessionFault(t) => x \in lost'
  BY DEF SessionStep, SessionVictim, SessionFault, triageOnly
<1>2. Clients \/ UNCHANGED triageVars => x \in lost'
  BY DEF Clients, triageVars, triageOnly
<1>3. QED
  BY <1>1, <1>2 DEF NoWorkersStep

\* No one waits for a session that has committed.
LEMMA AnsweringIsNoVictim ==
  ASSUME TypeOK, SessionShape, NEW t \in Sessions, tx[t].pc = "reply"
  PROVE  ~DeadlockVictim(t) /\ ~SessionVictim(t)
<1>1. tx[t].writes = NoWrites /\ ~tx[t].locked
  BY DEF SessionShape, Shape, Working
<1>2. \A u \in Sessions : t \notin WaitsFor(u)
  <2>1. \A u \in Sessions : tx[u].target \in Ids
    BY SessionType DEF Session
  <2>2. QED
    BY <1>1, <2>1 DEF WaitsFor, GatewayHolders, RowHolders, NoWrites
<1>3. ~DeadlockVictim(t)
  BY <1>2 DEF DeadlockVictim
<1>4. ~SessionVictim(t)
  BY DEF SessionVictim, MixedCycle, Waiting, WaitsFor
<1>5. QED
  BY <1>3, <1>4

\* The hand-over of a session that has committed goes into the broker, or is lost.
LEMMA HandOverGoesOn ==
  ASSUME InductiveInv, TriageTypeOK, HandOvers, NoWorkersStep, NEW t \in Sessions,
         tx[t].pc = "reply", NEW x \in tx[t].touched
  PROVE  \/ tx'[t] = tx[t]
         \/ \E task \in queue' \ taken' : x \in task.ids
         \/ x \in lost'
<1>0. TypeOK /\ SessionShape
  BY DEF InductiveInv
<1>1. ASSUME NEW u \in Sessions, SessionStep(u), u # t PROVE tx'[t] = tx[t]
  BY <1>0, <1>1, SessionsAct, ActsAlone DEF Alone
<1>2. ASSUME NEW u \in Sessions, SessionFault(u), u # t PROVE tx'[t] = tx[t]
  BY <1>0, <1>2, SessionsAct, ActsAlone DEF Alone
<1>3. ASSUME NEW u \in Sessions, SessionVictim(u) PROVE tx'[t] = tx[t]
  BY <1>0, <1>3, AnsweringIsNoVictim, VictimDoes DEF Alone
<1>4. ASSUME SessionFault(t) PROVE x \in lost'
  BY <1>4 DEF SessionFault
<1>5. ASSUME SessionStep(t) PROVE \E task \in queue' \ taken' : x \in task.ids
  <2>1. Work(t) /\ ~DeadlockVictim(t) /\ taken' = taken
    BY <1>0, <1>5, AnsweringIsNoVictim DEF SessionStep
  <2>2. Reply(t)
    BY <2>1 DEF Work, FindReplay, FindNoReplay, TouchGateway, SkipItem, ReadItem, NextValue,
       WriteItem, NextLogValue, WriteLog, Commit, RejectKind, WriteError, LogError
  <2> DEFINE task == [key |-> Key(tx[t].req), ids |-> tx[t].touched]
  <2>3. task \in queue' /\ x \in task.ids
    BY <2>2 DEF Reply
  <2>4. task \notin queue
    BY DEF HandOvers, HandOver
  <2>5. task \notin taken'
    BY <2>1, <2>4 DEF TriageTypeOK
  <2>6. QED
    BY <2>3, <2>5
<1>6. CASE Clients \/ UNCHANGED triageVars
  <2>1. \A u \in Sessions, r \in Requests : Begin(u, r) => tx'[t] = tx[t]
    BY <1>0, BeginDoes DEF Alone
  <2>2. QED
    BY <1>6, <2>1 DEF Clients, Tick, Refuse, triageVars, vars
<1>7. QED
  BY <1>1, <1>2, <1>3, <1>4, <1>5, <1>6 DEF NoWorkersStep

LEMMA StaleScorePush ==
  ASSUME InductiveInv, TriageTypeOK, HandOvers, StaleScoreWillBeRedone, NoWorkersStep,
         NEW x \in Ids, reports'[x] # NoRow
  PROVE  Scored(x)' \/ StillToScore(x)' \/ x \in lost'
<1>0. TypeOK
  BY DEF InductiveInv
<1>1. CASE reports'[x] # reports[x]
  <2>1. PICK t \in Sessions : Commit(t) /\ reports' = View(t)
    BY <1>1, NoWorkersPush, PushRows
  <2>2. x \in Uncommitted(t)
    BY <1>1, <2>1 DEF View, Uncommitted
  <2>3. x \in tx[t].touched
    BY <2>2 DEF HandOvers, HandOver
  <2>4. \A f \in {"touched"} : tx'[t][f] = tx[t][f]
    BY <1>0, <2>1, CountersKept
  <2>5. tx'[t].pc = "reply" /\ x \in tx'[t].touched
    BY <1>0, <2>1, <2>3, <2>4, CommitDoes
  <2>6. QED
    BY <2>5 DEF StillToScore
<1>2. CASE reports'[x] = reports[x]
  <2>1. UNCHANGED <<worker, taken>> /\ queue \subseteq queue' /\ scores'[x] = scores[x]
    BY <1>2, NoWorkersPush, PushRows, PushScores
  <2>2. x \in lost => x \in lost'
    BY <1>2, LostStays
  <2>3. CASE Scored(x)
    BY <1>2, <2>1, <2>3 DEF Scored
  <2>4. CASE x \in lost
    BY <2>2, <2>4
  <2>5. ASSUME NEW task \in queue \ taken, x \in task.ids PROVE StillToScore(x)'
    BY <2>1, <2>5 DEF StillToScore
  <2>6. ASSUME NEW t \in Sessions, tx[t].pc = "reply", x \in tx[t].touched
        PROVE  StillToScore(x)' \/ x \in lost'
    <3>1. CASE tx'[t] = tx[t]
      BY <2>6, <3>1 DEF StillToScore
    <3>2. CASE \E task \in queue' \ taken' : x \in task.ids
      BY <3>2 DEF StillToScore
    <3>3. QED
      BY <2>6, <3>1, <3>2, HandOverGoesOn
  <2>7. ASSUME NEW w \in Workers,
               \/ x \in worker[w].left /\ ~(worker[w].pc = "update" /\ worker[w].id = x)
               \/ worker[w].row # NoRow /\ worker[w].id = x /\ worker[w].row.seq = reports[x].seq
               \/ worker[w].marked[x] # NoRow /\ worker[w].marked[x].seq = reports[x].seq
        PROVE  StillToScore(x)'
    BY <1>2, <2>1, <2>7 DEF StillToScore
  <2>8. Scored(x) \/ StillToScore(x) \/ x \in lost
    BY <1>2 DEF StaleScoreWillBeRedone
  <2>9. QED
    BY <2>3, <2>4, <2>5, <2>6, <2>7, <2>8 DEF StillToScore
<1>3. QED
  BY <1>1, <1>2


\* A report the worker had read, and that nothing has replaced since, is scored by the
\* worker's commit; one that was replaced had no score to begin with.
LEMMA CommitScores ==
  ASSUME InductiveInv, TriageTypeOK, WorkerShapes, ReadsDated, NEW w \in Workers, CommitTriage(w),
         NEW x \in Ids, reports[x] # NoRow,
         worker[w].marked[x] # NoRow => worker[w].marked[x].seq = reports[x].seq,
         worker[w].marked[x] = NoRow => Scored(x)
  PROVE  Scored(x)'
<1>1. CASE worker[w].marked[x] = NoRow
  BY <1>1, CommitTriageDoes DEF Scored
<1>2. CASE worker[w].marked[x] # NoRow
  <2> DEFINE row == worker[w].marked[x]
  <2>1. row \in HasRead(w, x)
    BY <1>2 DEF HasRead
  <2>2. row.kind = reports[x].kind /\ row.upd = reports[x].upd
    BY <1>2, <2>1 DEF ReadsDated
  <2>3. /\ reports'[x] = [reports[x] EXCEPT !.triage = "completed"]
        /\ scores'[x] = ComputePriorityScore(row)
    BY <1>2, CommitTriageDoes
  <2>4. reports[x] \in Row
    BY DEF TriageTypeOK, TypeOK
  <2>5. /\ reports'[x].triage = "completed"
        /\ reports'[x].kind = reports[x].kind /\ reports'[x].upd = reports[x].upd
    BY <2>3, <2>4 DEF Row
  <2> HIDE DEF row
  <2>6. ComputePriorityScore(row) = ComputePriorityScore(reports'[x])
    BY <2>2, <2>5, SameScore
  <2>7. QED
    BY <2>3, <2>5, <2>6 DEF Scored
<1>3. QED
  BY <1>1, <1>2

LEMMA StaleScoreWork ==
  ASSUME OneWorker, InductiveInv, TriageTypeOK, WorkerShapes, ReadsDated, ReplacedHaveNoScore,
         StaleScoreWillBeRedone, NEW w \in Workers, WorkerMoves(w) \/ CommitTriage(w),
         NEW x \in Ids, reports'[x] # NoRow
  PROVE  Scored(x)' \/ StillToScore(x)' \/ x \in lost'
<1> DEFINE Ahead == x \in worker[w].left /\ ~(worker[w].pc = "update" /\ worker[w].id = x)
           AtHand == worker[w].row # NoRow /\ worker[w].id = x
                     /\ worker[w].row.seq = reports[x].seq
           Marked == worker[w].marked[x] # NoRow /\ worker[w].marked[x].seq = reports[x].seq
<1>0. /\ reports[x] # NoRow /\ reports'[x].seq = reports[x].seq
      /\ queue' = queue /\ tx' = tx
      /\ WorkerShape(w)
      /\ worker[w].id \in Ids /\ worker[w].left \subseteq Ids
  BY WorkersColumnsOnly, WorkerType DEF TriageColumnsOnly, WorkerShapes
\* What the worker has left to do, after the step.
<1>1. (Ahead \/ AtHand \/ Marked)' => StillToScore(x)'
  BY DEF StillToScore
<1>2. ASSUME NEW t \in Sessions, tx[t].pc = "reply", x \in tx[t].touched PROVE StillToScore(x)'
  BY <1>0, <1>2 DEF StillToScore
<1>3. ASSUME NEW task \in queue \ taken, x \in task.ids PROVE StillToScore(x)'
  <2>1. CASE task \notin taken'
    BY <1>0, <1>3, <2>1 DEF StillToScore
  <2>2. CASE task \in taken'
    <3>1. TakeTask(w)
      BY <1>3, <2>2, ReadReportDoes, UpdateReportDoes, DropTaskDoes, CommitTriageDoes
      DEF WorkerMoves
    <3>2. worker'[w].pc = "next" /\ worker'[w].left = task.ids
      BY <1>3, <2>2, <3>1, TakeTaskDoes
    <3>3. Ahead'
      BY <1>3, <3>2
    <3>4. QED
      BY <1>1, <3>3
  <2>3. QED
    BY <2>1, <2>2
<1>4. ASSUME Ahead PROVE Scored(x)' \/ StillToScore(x)' \/ x \in lost'
  <2>1. CASE TakeTask(w) \/ CommitTriage(w)
    BY <1>0, <1>4, <2>1, TakeTaskDoes, CommitTriageDoes, IdleWorkerIs DEF WorkerShape
  <2>2. CASE ReadReport(w)
    <3>1. PICK y \in worker[w].left :
            /\ worker'[w].pc = "update" /\ worker'[w].id = y /\ worker'[w].row = reports[y]
            /\ worker'[w].left = worker[w].left
      BY <2>2, ReadReportDoes
    <3>2. (Ahead \/ AtHand)'
      BY <1>0, <1>4, <3>1
    <3>3. QED
      BY <1>1, <3>2
  <2>3. CASE UpdateReport(w)
    <3>1. Ahead'
      BY <1>4, <2>3, UpdateReportDoes
    <3>2. QED
      BY <1>1, <3>1
  <2>4. CASE WorkerVictim(w) \/ WorkerDies(w)
    BY <1>4, <2>4, DropTaskDoes
  <2>5. QED
    BY <2>1, <2>2, <2>3, <2>4 DEF WorkerMoves
<1>5. ASSUME AtHand PROVE Scored(x)' \/ StillToScore(x)' \/ x \in lost'
  <2>1. worker[w].pc = "update" /\ x \in worker[w].left
    BY <1>0, <1>5 DEF WorkerShape
  <2>2. CASE TakeTask(w) \/ CommitTriage(w) \/ ReadReport(w)
    BY <2>1, <2>2, TakeTaskDoes, CommitTriageDoes, ReadReportDoes
  <2>3. CASE UpdateReport(w)
    <3>1. Marked'
      BY <1>0, <1>5, <2>3, UpdateReportDoes
    <3>2. QED
      BY <1>1, <3>1
  <2>4. CASE WorkerVictim(w) \/ WorkerDies(w)
    BY <2>1, <2>4, DropTaskDoes
  <2>5. QED
    BY <2>2, <2>3, <2>4 DEF WorkerMoves
<1>6. ASSUME Marked PROVE Scored(x)' \/ StillToScore(x)' \/ x \in lost'
  <2>1. CASE TakeTask(w)
    <3>1. worker[w].marked = NoWrites
      BY <1>0, <2>1, TakeTaskDoes, IdleWorkerIs DEF WorkerShape
    <3>2. QED
      BY <1>6, <3>1 DEF NoWrites
  <2>2. CASE ReadReport(w)
    <3>1. Marked'
      BY <1>0, <1>6, <2>2, ReadReportDoes
    <3>2. QED
      BY <1>1, <3>1
  <2>3. CASE UpdateReport(w)
    <3>1. worker[w].id # x
      BY <1>0, <1>6, <2>3, UpdateReportDoes DEF WorkerShape
    <3>2. Marked'
      BY <1>0, <1>6, <2>3, <3>1, UpdateReportDoes
    <3>3. QED
      BY <1>1, <3>2
  <2>4. CASE WorkerVictim(w) \/ WorkerDies(w)
    BY <1>6, <2>4, DropTaskDoes
  <2>5. CASE CommitTriage(w)
    BY <1>0, <1>6, <2>5, CommitScores
  <2>6. QED
    BY <2>1, <2>2, <2>3, <2>4, <2>5 DEF WorkerMoves
<1>7. ASSUME Scored(x) PROVE Scored(x)'
  <2>1. CASE WorkerMoves(w)
    BY <1>7, <2>1, WorkerMovesDo DEF Scored
  <2>2. CASE CommitTriage(w)
    <3>1. worker[w].marked[x] # NoRow => worker[w].marked[x].seq = reports[x].seq
      <4>1. scores[x] # NoScore
        BY <1>7, ScoreRange, NoScoreIsNoNumber DEF Scored
      <4>2. worker[w].marked[x] # NoRow => worker[w].marked[x] \in HasRead(w, x)
        BY DEF HasRead
      <4>3. QED
        BY <4>1, <4>2 DEF ReplacedHaveNoScore
    <3>2. QED
      BY <1>0, <1>7, <2>2, <3>1, CommitScores
  <2>3. QED
    BY <2>1, <2>2
<1>8. /\ Scored(x) \/ StillToScore(x) \/ x \in lost
      /\ x \in lost => x \in lost'
  <2>1. WorkerMoves(w) => lost \subseteq lost'
    BY DEF WorkerMoves, TakeTask, ReadReport, UpdateReport, WorkerVictim, WorkerDies, DropTask
  <2>2. CommitTriage(w) => lost' = lost
    BY DEF CommitTriage
  <2>3. QED
    BY <1>0, <2>1, <2>2 DEF StaleScoreWillBeRedone
<1>9. StillToScore(x) =>
        \/ \E task \in queue \ taken : x \in task.ids
        \/ \E t \in Sessions : tx[t].pc = "reply" /\ x \in tx[t].touched
        \/ Ahead \/ AtHand \/ Marked
  BY DEF StillToScore, OneWorker
<1>10. QED
  BY <1>0, <1>2, <1>3, <1>4, <1>5, <1>6, <1>7, <1>8, <1>9

LEMMA StaleScoreStep ==
  ASSUME OneWorker, InductiveInv, TriageTypeOK, WorkerShapes, ReadsDated, HandOvers,
         ReplacedHaveNoScore, StaleScoreWillBeRedone, [TriageNext]_triageVars
  PROVE  StaleScoreWillBeRedone'
  BY TriageStepKinds, StaleScorePush, StaleScoreWork DEF StaleScoreWillBeRedone

-----------------------------------------------------------------------------
(* The whole invariant. *)

LEMMA TriageInvInit == TriageInit => TriageInv
<1> SUFFICES ASSUME TriageInit PROVE TriageInv
  OBVIOUS
<1>0. Init /\ InductiveInv /\ \A w \in Workers : worker[w] = IdleWorker
  BY InductiveInvInit DEF TriageInit
<1>1. TriageTypeOK
  BY <1>0, IdleWorkerIs DEF TriageInit, TriageTypeOK, InductiveInv, Init
<1>2. \A w \in Workers : worker[w].pc = "idle" /\ worker[w].left = {}
                         /\ worker[w].row = NoRow /\ worker[w].marked = NoWrites
  BY <1>0, IdleWorkerIs
<1>3. WorkerShapes /\ MarkLocks
  BY <1>0, <1>2 DEF WorkerShapes, WorkerShape, MarkLocks, NoWrites
<1>4. \A w \in Workers, x \in Ids : HasRead(w, x) = {}
  BY <1>2 DEF HasRead, NoWrites
<1>5. ReadsDated /\ ReplacedHaveNoScore
  BY <1>4 DEF ReadsDated, ReplacedHaveNoScore
<1>6. HandOvers
  <2>1. \A t \in Sessions : tx[t].writes = NoWrites /\ tx[t].pc = "idle"
    BY <1>0, IdleIsBare DEF Init, Bare
  <2>2. QED
    BY <2>1 DEF HandOvers, HandOver, Uncommitted, NoWrites
<1>7. StaleScoreWillBeRedone
  BY <1>0 DEF Init, NoWrites, StaleScoreWillBeRedone
<1>8. QED
  BY <1>0, <1>1, <1>3, <1>5, <1>6, <1>7 DEF TriageInv

LEMMA TriageInvStep == TriageInv /\ [TriageNext]_triageVars => TriageInv'
<1> SUFFICES ASSUME TriageInv, [TriageNext]_triageVars PROVE TriageInv'
  OBVIOUS
<1>0. /\ InductiveInv /\ TriageTypeOK /\ WorkerShapes /\ MarkLocks /\ ReadsDated /\ HandOvers
      /\ OneWorker => ReplacedHaveNoScore /\ StaleScoreWillBeRedone
  BY DEF TriageInv
<1>1. InductiveInv' /\ TriageTypeOK' /\ WorkerShapes'
  BY <1>0, IngestStep, TriageTypeStep, WorkerShapesStep
<1>2. MarkLocks' /\ ReadsDated' /\ HandOvers'
  BY <1>0, MarkLocksStep, ReadsDatedStep, HandOversStep
<1>3. OneWorker => ReplacedHaveNoScore' /\ StaleScoreWillBeRedone'
  BY <1>0, ReplacedHaveNoScoreStep, StaleScoreStep
<1>4. OneWorker' <=> OneWorker
  BY DEF OneWorker
<1>5. QED
  BY <1>1, <1>2, <1>3, <1>4 DEF TriageInv

\* The invariant of workers beside pushes holds in every state.
THEOREM TriageInvariant == TriageSpec => []TriageInv
BY TriageInvInit, TriageInvStep, PTL DEF TriageSpec

\* Pushes keep the whole of ingest's invariant beside any number of workers, whose
\* transactions lock, complete and score the rows that pushes replace.  Every property
\* of the tables that rests on it (sequence ids, one row per batch in sync_logs, true
\* answers) therefore holds beside them too.
THEOREM IngestHoldsBesideTriage == TriageSpec => []InductiveInv
<1>1. TriageInv => InductiveInv
  BY DEF TriageInv
<1>2. QED
  BY <1>1, TriageInvariant, PTL

\* Types of tasks, workers and scores; triage_logic.py:12: scores range from 0 to 100.
THEOREM TriageTypeCorrect == TriageSpec => []TriageTypeOK
<1>1. TriageInv => TriageTypeOK
  BY DEF TriageInv
<1>2. QED
  BY <1>1, TriageInvariant, PTL

\* With one worker a report is completed with the score of what it says now, or it is
\* on its way to that score, or its task was dropped: whatever pushes replace between
\* the read and the update, and whoever fails in between.
THEOREM StaleScoreIsRedone ==
  ASSUME OneWorker
  PROVE  TriageSpec => []StaleScoreWillBeRedone
<1>1. TriageInv => StaleScoreWillBeRedone
  BY DEF TriageInv
<1>2. QED
  BY <1>1, TriageInvariant, PTL

-----------------------------------------------------------------------------
(* The ledger, without the columns of triage. *)

LEMMA SameTriagedCardinality == \A S : TriagedLedger!Cardinality(S) = Cardinality(S)
  BY Zenon DEF TriagedLedger!Cardinality, Cardinality

Erased(row) == IF row = NoRow THEN NoRow ELSE [row EXCEPT !.triage = "pending"]

LEMMA ErasedKeeps ==
  ASSUME NEW row \in Row
  PROVE  /\ Erased(row) # NoRow
         /\ Erased(row).kind = row.kind /\ Erased(row).gw = row.gw /\ Erased(row).seq = row.seq
<1>1. row # NoRow
  BY NoRowIsNoRow
<1>2. Erased(row) = [row EXCEPT !.triage = "pending"]
  BY <1>1 DEF Erased
<1>3. Erased(row) \in Row
  BY <1>2 DEF Row
<1>4. QED
  BY <1>2, <1>3, NoRowIsNoRow DEF Row

LEMMA UntriagedIs == \A x \in Ids : Untriaged[x] = Erased(reports[x])
  BY DEF Untriaged, Erased

LEMMA UntriagedIsAfter == \A x \in Ids : Untriaged'[x] = Erased(reports'[x])
  BY DEF Untriaged, Erased

\* What ingest enters in the ledger it also enters in the one without triage columns.
LEMMA EntryWithoutTriage ==
  ASSUME TypeOK, TypeOK', NEW r \in Requests, NEW e, e.key = Key(r), Ledger!Enter(e)
  PROVE  TriagedLedger!Enter(e)
<1>0. /\ \A x \in Ids : reports[x] \in Row \cup {NoRow} /\ reports'[x] \in Row \cup {NoRow}
      /\ \A x \in Ids : Untriaged[x] = Erased(reports[x]) /\ Untriaged'[x] = Erased(reports'[x])
      /\ Erased(NoRow) = NoRow
  BY UntriagedIs, UntriagedIsAfter DEF TypeOK, Erased
<1>1. /\ \A x \in Ids : /\ Untriaged[x] = NoRow <=> reports[x] = NoRow
                        /\ reports[x] # NoRow => /\ Untriaged[x].seq = reports[x].seq
                                                 /\ Untriaged[x].kind = reports[x].kind
      /\ \A x \in Ids : reports'[x] # NoRow => /\ Untriaged'[x] # NoRow
                                               /\ Untriaged'[x].seq = reports'[x].seq
                                               /\ Untriaged'[x].kind = reports'[x].kind
                                               /\ Untriaged'[x].gw = reports'[x].gw
  BY <1>0, ErasedKeeps
<1>2. TriagedLedger!Held(Untriaged, log) = Ledger!Held(reports, log)
  BY <1>1 DEF TriagedLedger!Held, Ledger!Held
<1>3. /\ \A f \in log : f.key # e.key
      /\ log' = log \cup {e}
      /\ e.seq \notin Ledger!Held(reports, log)
      /\ \A p \in Reported[e.key] : reports'[p[1]] # NoRow /\ reports'[p[1]].kind = p[2]
      /\ \A x \in Ledger!Written :
           /\ reports'[x] # NoRow
           /\ reports'[x].gw = e.key[1]
           /\ reports'[x].seq \notin Ledger!Held(reports, log)
           /\ reports'[x].seq < e.seq
           /\ \A y \in Ledger!Written : reports'[y].seq = reports'[x].seq => x = y
           /\ reports[x] # NoRow => reports'[x].kind = reports[x].kind /\ reports[x].kind # "sos"
  BY DEF Ledger!Enter
<1>4. Cardinality(Ledger!Written) <= e.applied
  BY SameCardinality, Zenon DEF Ledger!Enter
<1>5. ASSUME NEW x \in Ids PROVE Untriaged'[x] # Untriaged[x] <=> reports'[x] # reports[x]
  <2>1. reports'[x] = reports[x] => Untriaged'[x] = Untriaged[x]
    BY <1>0
  <2>2. ASSUME reports'[x] # reports[x], Untriaged'[x] = Untriaged[x] PROVE FALSE
    <3>1. x \in Ledger!Written
      BY <2>2 DEF Ledger!Written
    <3>2. reports'[x] # NoRow /\ reports'[x].seq \notin Ledger!Held(reports, log)
      BY <1>3, <3>1
    <3>3. reports[x] # NoRow /\ reports[x].seq = reports'[x].seq
      BY <1>1, <2>2, <3>2
    <3>4. QED
      BY <3>2, <3>3 DEF Ledger!Held
  <2>3. QED
    BY <2>1, <2>2
<1>6. TriagedLedger!Written = Ledger!Written
  BY <1>5 DEF TriagedLedger!Written, Ledger!Written
<1>7. ASSUME NEW x \in TriagedLedger!Written
      PROVE  /\ Untriaged'[x] # NoRow
             /\ Untriaged'[x].gw = e.key[1]
             /\ Untriaged'[x].seq \notin TriagedLedger!Held(Untriaged, log)
             /\ Untriaged'[x].seq < e.seq
             /\ \A y \in TriagedLedger!Written : Untriaged'[y].seq = Untriaged'[x].seq => x = y
             /\ Untriaged[x] # NoRow =>
                  Untriaged'[x].kind = Untriaged[x].kind /\ Untriaged[x].kind # "sos"
  <2>1. \A y \in TriagedLedger!Written : y \in Ids /\ y \in Ledger!Written
    BY <1>6 DEF Ledger!Written
  <2>2. QED
    BY <1>1, <1>2, <1>3, <2>1
<1>8. /\ Cardinality(TriagedLedger!Written) <= e.applied
      /\ e.seq \notin TriagedLedger!Held(Untriaged, log)
  BY <1>2, <1>3, <1>4, <1>6
<1>9. \A p \in Reported[e.key] : Untriaged'[p[1]] # NoRow /\ Untriaged'[p[1]].kind = p[2]
  <2>1. \A p \in Reported[e.key] : p[1] \in Ids
    BY ReportedUnderKey
  <2>2. QED
    BY <1>1, <1>3, <2>1
<1>10. QED
  BY <1>3, <1>7, <1>8, <1>9, SameTriagedCardinality, Zenon DEF TriagedLedger!Enter

LEMMA LedgerStep ==
  ASSUME TriageInv, [TriageNext]_triageVars
  PROVE  [TriagedLedger!LedgerNext]_<<Untriaged, log>>
<1>0. /\ InductiveInv /\ TypeOK /\ TypeOK' /\ TriageTypeOK /\ WorkerShapes
  BY TriageInvStep DEF TriageInv, InductiveInv
<1>1. ASSUME reports' = reports, log' = log PROVE UNCHANGED <<Untriaged, log>>
  BY <1>1 DEF Untriaged
<1>2. ASSUME [Next]_vars PROVE [TriagedLedger!LedgerNext]_<<Untriaged, log>>
  <2>1. CASE <<reports, log>>' = <<reports, log>>
    BY <1>1, <2>1
  <2>2. CASE <<reports, log>>' # <<reports, log>>
    <3>1. PICK t \in Sessions : Commit(t)
      BY <1>0, <1>2, <2>2, TablesChangeAtCommit
    <3>2. PICK e \in log' \ log : e.key = Key(tx[t].req) /\ Ledger!Enter(e)
      BY <1>0, <3>1, CommitEnters DEF InductiveInv, RecordedOnce, SeqInv
    <3>3. TriagedLedger!Enter(e)
      BY <1>0, <3>2, EntryWithoutTriage, SessionType DEF Session
    <3>4. QED
      BY <3>2, <3>3 DEF TriagedLedger!LedgerNext
  <2>3. QED
    BY <2>1, <2>2
<1>3. ASSUME NEW t \in Sessions, SessionVictim(t) PROVE UNCHANGED <<Untriaged, log>>
  BY <1>0, <1>1, <1>3, VictimDoes DEF tables
<1>4. ASSUME NEW w \in Workers, WorkerMoves(w) PROVE UNCHANGED <<Untriaged, log>>
  BY <1>0, <1>1, <1>4, WorkerMovesDo
<1>5. ASSUME NEW w \in Workers, CommitTriage(w) PROVE UNCHANGED <<Untriaged, log>>
  <2>1. ASSUME NEW x \in Ids PROVE Erased(reports'[x]) = Erased(reports[x])
    <3>1. CASE worker[w].marked[x] = NoRow
      BY <1>0, <1>5, <3>1, CommitTriageDoes
    <3>2. CASE worker[w].marked[x] # NoRow
      <4>1. reports[x] \in Row /\ reports[x] # NoRow
        BY <1>0, <3>2 DEF WorkerShapes, WorkerShape, TypeOK
      <4>2. reports'[x] = [reports[x] EXCEPT !.triage = "completed"]
        BY <1>0, <1>5, <3>2, CommitTriageDoes
      <4>3. reports'[x] \in Row /\ reports'[x] # NoRow
        BY <4>1, <4>2, NoRowIsNoRow DEF Row
      <4>4. QED
        BY <4>1, <4>2, <4>3 DEF Erased, Row
    <3>3. QED
      BY <3>1, <3>2
  <2>2. Untriaged' = Untriaged
    BY <2>1 DEF Untriaged, Erased
  <2>3. QED
    BY <1>0, <1>5, <2>2, CommitTriageDoes
<1>6. QED
  BY <1>2, <1>3, <1>4, <1>5, TriageStepKinds, NoWorkersPush DEF PushStep

\* With the columns of triage erased, pushes and any number of workers implement the
\* ledger: no commit of a worker undoes, repeats or splits what a push has entered.
THEOREM TriageKeepsTheLedger == TriageSpec => TriageKeepsLedger
<1>1. TriageInit => TriagedLedger!LedgerInit
  <2>1. TriageInit => \A x \in Ids : reports[x] = NoRow
    BY DEF TriageInit, Init, NoWrites
  <2>2. QED
    BY <2>1 DEF TriageInit, Init, TriagedLedger!LedgerInit, Untriaged
<1>2. TriageInv /\ [TriageNext]_triageVars => [TriagedLedger!LedgerNext]_<<Untriaged, log>>
  BY LedgerStep
<1>3. QED
  BY <1>1, <1>2, TriageInvInit, TriageInvStep, PTL
  DEF TriageSpec, TriageKeepsLedger, TriagedLedger!LedgerSpec

-----------------------------------------------------------------------------
(* Dashboards. *)

\* Dashboards only read: with them, the system is still triage beside pushes, and
\* keeps all of the above.
THEOREM DashboardsOnlyRead == DashboardSpec => TriageSpec
<1>1. DashboardInit => TriageInit
  BY DEF DashboardInit
<1>2. [DashboardNext]_dashboardVars => [TriageNext]_triageVars
  BY DEF DashboardNext, DashboardWork, BuildLayers, StoreLayers, Expire, dashboardVars
<1>3. QED
  BY <1>1, <1>2, PTL DEF DashboardSpec, TriageSpec

\* Types of the cache and of what dashboards have built, those of triage included.
THEOREM DashboardTypeCorrect == DashboardSpec => []DashboardTypeOK
<1> DEFINE CopiesOK == cache \in Copy /\ building \in [Dashboards -> Copy]
<1>1. DashboardInit => CopiesOK
  BY DEF DashboardInit, Copy
<1>2. CopiesOK /\ [DashboardNext]_dashboardVars => CopiesOK'
  <2>1. \A copy \in Copy : Aged(copy) \in Copy
    BY DEF Aged, Copy
  <2>2. QED
    BY <2>1 DEF DashboardNext, Aging, DashboardWork, BuildLayers, StoreLayers, Expire,
       dashboardVars, Copy
<1>3. TriageTypeOK /\ CopiesOK => DashboardTypeOK
  BY DEF DashboardTypeOK
<1> HIDE DEF CopiesOK
<1>4. QED
  BY <1>1, <1>2, <1>3, DashboardsOnlyRead, TriageTypeCorrect, PTL DEF DashboardSpec
=============================================================================
