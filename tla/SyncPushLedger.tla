--------------------------- MODULE SyncPushLedger ---------------------------
(***************************************************************************)
(* Ingest implements the ledger: whatever sessions, locks, retries, faults *)
(* and rollbacks do, the tables change as BatchLedger says.  With it, that *)
(* a gateway never undoes its own newer write, and the whole inductive     *)
(* invariant.                                                              *)
(***************************************************************************)
EXTENDS SyncPushRows, SyncPushSequence, FiniteSetTheorems

-----------------------------------------------------------------------------
(* The write set of a session. *)

LEMMA EmptyWriteSet ==
  ASSUME NEW t, tx[t].writes = NoWrites, tx[t].log = {}, tx[t].pc # "log", tx[t].applied \in Nat
  PROVE  WriteSet(t)
<1>1. Uncommitted(t) = {} /\ RowSeqs(t) = {}
  BY DEF Uncommitted, RowSeqs, NoWrites
<1>2. IsFiniteSet(Uncommitted(t)) /\ Cardinality(Uncommitted(t)) = 0
  BY <1>1, FS_EmptySet
<1>3. QED
  BY <1>1, <1>2 DEF WriteSet

LEMMA WriteSetEmptied ==
  ASSUME NEW t, Bare(tx'[t]), tx'[t].pc # "log", tx'[t].applied \in Nat
  PROVE  WriteSet(t)'
<1>1. Uncommitted(t)' = {} /\ RowSeqs(t)' = {} /\ tx'[t].log = {}
  BY DEF Uncommitted, RowSeqs, NoWrites, Bare
<1>2. IsFiniteSet(Uncommitted(t)') /\ Cardinality(Uncommitted(t)') = 0
  BY <1>1, FS_EmptySet
<1>3. QED
  BY <1>1, <1>2 DEF WriteSet

LEMMA WriteSetKept ==
  ASSUME NEW t, WriteSet(t), tx'[t].writes = tx[t].writes, tx'[t].log = tx[t].log,
         tx'[t].req = tx[t].req, tx'[t].applied = tx[t].applied,
         tx'[t].pc = "log" => tx[t].pc = "log" /\ tx'[t].seq = tx[t].seq
  PROVE  WriteSet(t)'
<1>1. Uncommitted(t)' = Uncommitted(t) /\ RowSeqs(t)' = RowSeqs(t) /\ GatewayOf(t)' = GatewayOf(t)
  BY DEF Uncommitted, RowSeqs, GatewayOf
<1>2. QED
  BY <1>1 DEF WriteSet

LEMMA WriteSetOfLogValue ==
  ASSUME TypeOK, SeqInv, NEW t \in Sessions, WriteSet(t), NextLogValue(t)
  PROVE  WriteSet(t)'
<1>1. /\ tx'[t].writes = tx[t].writes /\ tx'[t].log = tx[t].log
      /\ tx'[t].req = tx[t].req /\ tx'[t].seq = seq + 1
      /\ tx'[t].applied = tx[t].applied
  BY NextValuesDo, CountersKept
<1>2. Uncommitted(t)' = Uncommitted(t) /\ RowSeqs(t)' = RowSeqs(t) /\ GatewayOf(t)' = GatewayOf(t)
  BY <1>1 DEF Uncommitted, RowSeqs, GatewayOf
<1>3. \A n \in RowSeqs(t) : n \in Nat /\ n <= seq
  BY SeqTypes DEF SeqInv, SequenceIdsOwned, SeqsOf
<1>4. \A n \in RowSeqs(t) : n < seq + 1
  BY <1>3 DEF TypeOK
<1>5. QED
  BY <1>1, <1>2, <1>4 DEF WriteSet

LEMMA WriteSetOfLog ==
  ASSUME TypeOK, NEW t \in Sessions, WriteSet(t), WriteLog(t)
  PROVE  WriteSet(t)'
<1>1. /\ tx'[t].writes = tx[t].writes /\ tx'[t].log = {NewLogRow(t)}
      /\ tx'[t].req = tx[t].req /\ tx[t].pc = "log" /\ tx'[t].pc = "commit"
      /\ tx'[t].applied = tx[t].applied /\ NewLogRow(t).seq = tx[t].seq
  BY WriteLogDoes, CountersKept DEF NewLogRow
<1>2. Uncommitted(t)' = Uncommitted(t) /\ RowSeqs(t)' = RowSeqs(t) /\ GatewayOf(t)' = GatewayOf(t)
  BY <1>1 DEF Uncommitted, RowSeqs, GatewayOf
<1>3. QED
  BY <1>1, <1>2 DEF WriteSet

LEMMA WriteSetOfItem ==
  ASSUME TypeOK, SessionShape, NEW t \in Sessions, WriteSet(t), WriteItem(t)
  PROVE  WriteSet(t)'
<1> DEFINE w == tx[t].target
<1>0. /\ tx[t] \in Session /\ w \in Ids /\ tx[t].writes \in [Ids -> Row \cup {NoRow}]
      /\ HasItem(t) /\ tx[t].seq \in Nat /\ tx[t].applied \in Nat
  BY SessionType DEF Session, WriteItem, SessionShape, Shape
<1>1. /\ tx'[t].writes = [tx[t].writes EXCEPT ![w] = NewRow(t)]
      /\ tx'[t].pc = "item" /\ tx[t].pc = "write" /\ tx'[t].log = tx[t].log
      /\ tx'[t].req = tx[t].req
      /\ tx'[t].applied = tx[t].applied + 1
  BY WriteItemDoes, CountersWrite
<1>2. tx[t].log = {}
  BY <1>1 DEF SessionShape, Shape
<1>3. NewRow(t) \in Row /\ NewRow(t).gw = GatewayOf(t)
  BY <1>0, CurrentItemType, SessionType, StoredRowType DEF NewRow, StoredRow
<1>4. NewRow(t) # NoRow
  BY <1>3, NoRowIsNoRow
<1> HIDE DEF w
<1>5. Uncommitted(t)' = Uncommitted(t) \cup {w}
  BY <1>0, <1>1, <1>4 DEF Uncommitted
<1>6. IsFiniteSet(Uncommitted(t)')
  BY <1>5, FS_AddElement DEF WriteSet
<1>7. Cardinality(Uncommitted(t)') <= tx[t].applied + 1
  <2>1. /\ IsFiniteSet(Uncommitted(t)) /\ Cardinality(Uncommitted(t)) <= tx[t].applied
        /\ Cardinality(Uncommitted(t)) \in Nat
    BY FS_CardinalityType DEF WriteSet
  <2>2. \/ Cardinality(Uncommitted(t) \cup {w}) = Cardinality(Uncommitted(t))
        \/ Cardinality(Uncommitted(t) \cup {w}) = Cardinality(Uncommitted(t)) + 1
    BY <2>1, FS_AddElement
  <2>3. QED
    BY <1>0, <1>5, <2>1, <2>2
<1>8. GatewayOf(t)' = GatewayOf(t)
  BY <1>1 DEF GatewayOf
<1>9. \A x \in Uncommitted(t)' : tx'[t].writes[x].gw = GatewayOf(t)
  <2>1. tx'[t].writes[w] = NewRow(t) /\ \A x \in Ids \ {w} : tx'[t].writes[x] = tx[t].writes[x]
    BY <1>0, <1>1
  <2>2. QED
    BY <1>3, <1>5, <2>1 DEF WriteSet, Uncommitted
<1>10. QED
  BY <1>1, <1>2, <1>6, <1>7, <1>8, <1>9 DEF WriteSet

LEMMA WriteSetsStep ==
  TypeOK /\ SessionShape /\ SeqInv /\ WriteSets /\ [Next]_vars => WriteSets'
<1> SUFFICES ASSUME TypeOK, SessionShape, SeqInv, WriteSets, [Next]_vars,
                    NEW u \in Sessions
             PROVE  WriteSet(u)'
  BY DEF WriteSets
<1>0. WriteSet(u) /\ tx[u].applied \in Nat
  BY SessionType DEF WriteSets, Session
<1>1. CASE tx'[u] = tx[u]
  BY <1>0, <1>1, WriteSetKept
<1>2. ASSUME Bare(tx'[u]), tx'[u].pc # "log", tx'[u].applied \in Nat PROVE WriteSet(u)'
  BY <1>2, WriteSetEmptied
<1>3. ASSUME NEW t \in Sessions, NEW r \in Requests, Begin(t, r) PROVE WriteSet(u)'
  BY <1>1, <1>2, <1>3, BeginDoes, CountersStart DEF Alone
<1>4. ASSUME NEW t \in Sessions, Resets(t) PROVE WriteSet(u)'
  BY <1>1, <1>2, <1>4, ResetsDo, CountersStart DEF Alone
<1>5. ASSUME NEW t \in Sessions, Moves(t) PROVE WriteSet(u)'
  <2>1. CASE u # t
    BY <1>1, <1>5, <2>1, MovesDo DEF Alone
  <2>2. CASE FindReplay(t) /\ u = t
    <3>1. tx[t].writes = NoWrites /\ tx[t].log = {} /\ tx[t].locked = FALSE
      BY <2>2, SessionType DEF FindReplay, SessionShape, Shape, Working, Session
    <3>2. tx'[t].writes = NoWrites /\ tx'[t].log = {} /\ tx'[t].locked = FALSE /\ tx'[t].pc # "log"
      BY <1>5, <3>1, MovesDo
    <3>3. tx'[t].applied \in Nat
      BY <2>2, SessionType, TypeStep DEF Session, TypeOK
    <3>4. QED
      BY <1>2, <2>2, <3>2, <3>3 DEF Bare
  <2>3. CASE u = t /\ ~FindReplay(t)
    BY <1>0, <1>5, <2>3, MovesDo, CountersMove, WriteSetKept
  <2>4. QED
    BY <2>1, <2>2, <2>3
<1>6. ASSUME NEW t \in Sessions, TouchGateway(t) PROVE WriteSet(u)'
  BY <1>0, <1>1, <1>6, TouchGatewayDoes, CountersKept, WriteSetKept DEF Alone
<1>7. ASSUME NEW t \in Sessions, NextValue(t) PROVE WriteSet(u)'
  <2>1. tx'[t].pc = "write"
    BY <1>7, NextValuesDo DEF NextValue
  <2>2. QED
    BY <1>0, <1>1, <1>7, <2>1, NextValuesDo, CountersKept, WriteSetKept DEF Alone
<1>8. ASSUME NEW t \in Sessions, NextLogValue(t) PROVE WriteSet(u)'
  BY <1>0, <1>1, <1>8, NextValuesDo, WriteSetOfLogValue DEF Alone
<1>9. ASSUME NEW t \in Sessions, WriteLog(t) PROVE WriteSet(u)'
  BY <1>0, <1>1, <1>9, WriteLogDoes, WriteSetOfLog DEF Alone
<1>10. ASSUME NEW t \in Sessions, WriteItem(t) PROVE WriteSet(u)'
  BY <1>0, <1>1, <1>10, WriteItemDoes, WriteSetOfItem DEF Alone
<1>11. ASSUME NEW t \in Sessions, Commit(t) PROVE WriteSet(u)'
  BY <1>0, <1>1, <1>2, <1>11, CommitDoes, CountersKept DEF Alone, Bare
<1>12. CASE UNCHANGED <<sequences, tables, tx>>
  BY <1>1, <1>12
<1>13. QED
  BY <1>3, <1>4, <1>5, <1>6, <1>7, <1>8, <1>9, <1>10, <1>11, <1>12, StepKinds

LEMMA WriteSetsInit == Init => WriteSets
<1> SUFFICES ASSUME Init, NEW t \in Sessions PROVE WriteSet(t)
  BY DEF WriteSets
<1>1. tx[t] = IdleSession
  BY DEF Init
<1>2. tx[t].writes = NoWrites /\ tx[t].log = {} /\ tx[t].pc # "log"
  BY <1>1, IdleIsBare DEF Bare
<1>3. tx[t].applied \in Nat
  BY <1>1, IdleSessionType DEF Session
<1>4. QED
  BY <1>2, <1>3, EmptyWriteSet

-----------------------------------------------------------------------------
(* Ingest implements the ledger. *)

LEMMA TablesChangeAtCommit ==
  ASSUME TypeOK, [Next]_vars, <<reports, log>>' # <<reports, log>>
  PROVE  \E t \in Sessions : Commit(t)
<1> USE DEF tables
<1>1. ASSUME NEW t \in Sessions, NEW r \in Requests, Begin(t, r) PROVE FALSE
  BY <1>1, BeginDoes
<1>2. ASSUME NEW t \in Sessions, Moves(t) \/ TouchGateway(t) PROVE FALSE
  BY <1>2, MovesDo, TouchGatewayDoes
<1>3. ASSUME NEW t \in Sessions, NextValue(t) \/ NextLogValue(t) PROVE FALSE
  BY <1>3, NextValuesDo
<1>4. ASSUME NEW t \in Sessions, WriteItem(t) \/ WriteLog(t) PROVE FALSE
  BY <1>4, WriteItemDoes, WriteLogDoes
<1>5. ASSUME NEW t \in Sessions, Resets(t) PROVE FALSE
  BY <1>5, ResetsDo
<1>6. QED
  BY <1>1, <1>2, <1>3, <1>4, <1>5, StepKinds

\* The instance counts like this module.
LEMMA SameCardinality == \A S : Ledger!Cardinality(S) = Cardinality(S)
  BY Zenon DEF Ledger!Cardinality, Cardinality

\* What a commit must have stored is what every push under its key reports.
LEMMA CommitIsComplete ==
  ASSUME TypeOK, ReportsKept, NEW t \in Sessions, Commit(t)
  PROVE  \A p \in Reported[Key(tx[t].req)] : reports'[p[1]] # NoRow /\ reports'[p[1]].kind = p[2]
<1>1. tx[t].req \in Requests /\ reports' = View(t)
  BY CommitDoes, SessionType DEF Session
<1>2. Reported[Key(tx[t].req)] \subseteq ReportedById(tx[t].req)
  BY <1>1, ReportedUnderKey
<1>3. \A p \in ReportedById(tx[t].req) : StoredAs(View(t), p[1], p[2])
  BY CommitStores DEF ReportsKept
<1>4. QED
  BY <1>1, <1>2, <1>3 DEF StoredAs

\* A commit is an entry: the batch of the session, with the rows it has written.
LEMMA CommitEnters ==
  ASSUME TypeOK, SessionShape, RecordedOnce, SeqInv, RowLocks, WriteSets, ReportsKept,
         NEW t \in Sessions, Commit(t)
  PROVE  \E e \in log' \ log : e.key = Key(tx[t].req) /\ Ledger!Enter(e)
<1>0. WriteSet(t) /\ Shape(t)
  BY DEF WriteSets, SessionShape
<1>1. PICK e \in tx[t].log : /\ tx[t].log = {e} /\ e.key = Key(tx[t].req)
                             /\ e.applied = tx[t].applied
  BY <1>0, CommitDoes DEF Shape
<1>2. /\ reports' = View(t) /\ log' = log \cup {e} /\ tx[t].pc = "commit"
      /\ e \in LogRow /\ tx[t].writes \in [Ids -> Row \cup {NoRow}]
  BY <1>1, CommitDoes, SessionType DEF Session
<1>3. \A f \in log : f.key # e.key
  BY <1>1, <1>2 DEF RecordedOnce, PendingUnrecorded, Logged
<1>4. Ledger!Held(reports, log) = TableSeqs
  BY DEF Ledger!Held, TableSeqs
<1>5. /\ e.seq \notin TableSeqs
      /\ \A n \in RowSeqs(t) : n \notin TableSeqs /\ n < e.seq
  <2>1. e.seq \in SeqsOf(t) /\ RowSeqs(t) \subseteq SeqsOf(t)
    BY <1>1 DEF SeqsOf, LogSeqs
  <2>2. QED
    BY <1>0, <1>1, <2>1 DEF SeqInv, SequenceIdsOwned, WriteSet
<1>6. Ledger!Written \subseteq Uncommitted(t)
  BY <1>2 DEF Ledger!Written, Uncommitted, View
<1>7. Cardinality(Ledger!Written) <= e.applied
  <2>1. /\ IsFiniteSet(Uncommitted(t)) /\ Cardinality(Uncommitted(t)) <= tx[t].applied
    BY <1>0 DEF WriteSet
  <2>2. /\ IsFiniteSet(Ledger!Written)
        /\ Cardinality(Ledger!Written) <= Cardinality(Uncommitted(t))
    BY <1>6, <2>1, FS_Subset
  <2>3. /\ Cardinality(Ledger!Written) \in Nat /\ Cardinality(Uncommitted(t)) \in Nat
        /\ tx[t].applied \in Nat
    BY <2>1, <2>2, FS_CardinalityType, SessionType DEF Session
  <2>4. QED
    BY <1>1, <2>1, <2>2, <2>3
<1>8. ASSUME NEW x \in Ledger!Written
      PROVE  /\ reports'[x] # NoRow
             /\ reports'[x].gw = e.key[1]
             /\ reports'[x].seq \notin TableSeqs
             /\ reports'[x].seq < e.seq
             /\ \A y \in Ledger!Written : reports'[y].seq = reports'[x].seq => x = y
             /\ reports[x] # NoRow =>
                  reports'[x].kind = reports[x].kind /\ reports[x].kind # "sos"
  <2>1. \A y \in Ledger!Written : /\ y \in Ids /\ tx[t].writes[y] # NoRow
                                  /\ reports'[y] = tx[t].writes[y]
    BY <1>2, <1>6 DEF Uncommitted, View
  <2>2. reports'[x].seq \in RowSeqs(t)
    BY <2>1 DEF RowSeqs
  <2>3. reports'[x].gw = e.key[1]
    BY <1>0, <1>1, <2>1 DEF WriteSet, Uncommitted, Key, GatewayOf
  <2>4. \A y \in Ledger!Written : reports'[y].seq = reports'[x].seq => x = y
    BY <2>1 DEF SeqInv, SequenceIdsOwned
  <2>5. reports[x] # NoRow => reports'[x].kind = reports[x].kind /\ reports[x].kind # "sos"
    BY <2>1 DEF RowLocks
  <2>6. QED
    BY <1>5, <2>1, <2>2, <2>3, <2>4, <2>5
<1>9. Ledger!Enter(e)
  <2>1. /\ \A f \in log : f.key # e.key
        /\ log' = log \cup {e}
        /\ Cardinality(Ledger!Written) <= e.applied
        /\ e.seq \notin Ledger!Held(reports, log)
    BY <1>2, <1>3, <1>4, <1>5, <1>7
  <2>2. \A x \in Ledger!Written :
          /\ reports'[x] # NoRow
          /\ reports'[x].gw = e.key[1]
          /\ reports'[x].seq \notin Ledger!Held(reports, log)
          /\ reports'[x].seq < e.seq
          /\ \A y \in Ledger!Written : reports'[y].seq = reports'[x].seq => x = y
          /\ reports[x] # NoRow =>
               reports'[x].kind = reports[x].kind /\ reports[x].kind # "sos"
    BY <1>4, <1>8
  <2>3. \A p \in Reported[e.key] : reports'[p[1]] # NoRow /\ reports'[p[1]].kind = p[2]
    BY <1>1, CommitIsComplete
  <2>4. QED
    BY <2>1, <2>2, <2>3, SameCardinality, Zenon DEF Ledger!Enter
<1>10. e \in log' \ log
  BY <1>2, <1>3
<1>11. QED
  BY <1>1, <1>9, <1>10

LedgerInv ==
  /\ TypeOK /\ SessionShape /\ GatewayLocks /\ RecordedOnce /\ SeqInv
  /\ RowLocks /\ UpdatesFitTheirRow /\ WriteSets /\ ReportsKept

LEMMA LedgerInvInit == Init => LedgerInv
  BY TypeInit, ShapeInit, GatewayLocksInit, RecordedOnceInit, SeqsInit, RowLocksInit,
     WriteSetsInit, ReportsKeptInit DEF LedgerInv

LEMMA LedgerInvStep == LedgerInv /\ [Next]_vars => LedgerInv'
<1> SUFFICES ASSUME LedgerInv, [Next]_vars PROVE LedgerInv'
  OBVIOUS
<1> USE DEF LedgerInv
<1>1. TypeOK' /\ SessionShape' /\ GatewayLocks' /\ RecordedOnce'
  BY TypeStep, ShapeStep, GatewayLocksStep, RecordedOnceStep
<1>2. SeqInv' /\ RowLocks' /\ UpdatesFitTheirRow' /\ WriteSets'
  BY SeqsStep, RowLocksStep, FitsStep, WriteSetsStep
<1>3. ReportsKept'
  BY ReportsKeptStep
<1>4. QED
  BY <1>1, <1>2, <1>3

\* Push sessions, their locks, retries, errors and crashes implement the ledger: a
\* batch takes effect in one step or not at all, at most once, under fresh sequence ids,
\* and leaves out nothing it reports by primary key.
THEOREM IngestIsALedger == Spec => BatchesAreAtomic
<1>1. Init => LedgerInv
  BY LedgerInvInit
<1>2. LedgerInv /\ [Next]_vars => LedgerInv'
  BY LedgerInvStep
<1>3. Init => Ledger!LedgerInit
  BY DEF Init, Ledger!LedgerInit, NoWrites
<1>4. LedgerInv /\ [Next]_vars => [Ledger!LedgerNext]_<<reports, log>>
  <2> SUFFICES ASSUME LedgerInv, [Next]_vars, <<reports, log>>' # <<reports, log>>
               PROVE  Ledger!LedgerNext
    OBVIOUS
  <2>1. PICK t \in Sessions : Commit(t)
    BY TablesChangeAtCommit DEF LedgerInv
  <2>2. QED
    BY <2>1, CommitEnters DEF LedgerInv, Ledger!LedgerNext
<1>5. QED
  BY <1>1, <1>2, <1>3, <1>4, PTL DEF Spec, BatchesAreAtomic, Ledger!LedgerSpec

-----------------------------------------------------------------------------
(* A gateway's own writes. *)

LEMMA DecisionInOrder ==
  ASSUME NEW table \in [Ids -> Row \cup {NoRow}], NEW item \in Item, NEW gw \in Gateways,
         ~KindConflict(table, item), Decision(table, item, gw).action = "update"
  PROVE  LET old == table[Decision(table, item, gw).id]
         IN  item.upd >= old.upd /\ (old.tomb => IncomingIsTombstone(item))
<1> DEFINE x == CHOOSE y \in Found(table, item) : TRUE
<1>1. item.kind # "sos"
  BY DEF Decision, DecideSosMerge
<1>2. Found(table, item) # {} /\ Decision(table, item, gw).id = x
  BY <1>1 DEF Decision, DecideRoadLikeMerge
<1>3. ~BlockedByTombstone(item, table[x]) /\ IncomingBeatsExistingRow(item, gw, x, table[x])
  BY <1>1, <1>2 DEF Decision, DecideRoadLikeMerge
<1>4. table[x] \in Row
  BY <1>2, FoundType, DecisionFits
<1> HIDE DEF x
<1>5. item.upd \in Nat /\ table[x].upd \in Nat
  BY <1>4 DEF Item, Row
<1>6. item.upd > table[x].upd \/ item.upd = table[x].upd
  BY <1>3 DEF IncomingBeatsExistingRow, TupleGreater, WinnerTuple
<1>7. QED
  BY <1>2, <1>3, <1>5, <1>6 DEF BlockedByTombstone

LEMMA OwnRowsEmptied ==
  ASSUME NEW t, tx'[t].writes = NoWrites, tx'[t].pc \notin {"nextval", "write"}
  PROVE  KeepsOwnRows(t)'
  BY DEF KeepsOwnRows, Uncommitted, NoWrites

LEMMA OwnRowsKept ==
  ASSUME NEW t, KeepsOwnRows(t), reports' = reports,
         tx'[t].writes = tx[t].writes, tx'[t].req = tx[t].req,
         tx'[t].pc \in {"nextval", "write"} =>
           /\ tx[t].pc \in {"nextval", "write"}
           /\ \A f \in {"i", "action", "target"} : tx'[t][f] = tx[t][f]
  PROVE  KeepsOwnRows(t)'
<1>1. /\ Uncommitted(t)' = Uncommitted(t) /\ GatewayOf(t)' = GatewayOf(t)
      /\ View(t)' = View(t)
  BY DEF Uncommitted, GatewayOf, View
<1>2. tx'[t].pc \in {"nextval", "write"} => CurrentItem(t)' = CurrentItem(t)
  BY DEF CurrentItem
<1>3. QED
  BY <1>1, <1>2 DEF KeepsOwnRows

LEMMA OwnRowsReadItem ==
  ASSUME TypeOK, NEW t \in Sessions, KeepsOwnRows(t), ReadItem(t)
  PROVE  KeepsOwnRows(t)'
<1> DEFINE d == Decision(View(t), CurrentItem(t), GatewayOf(t))
<1>0. tx[t] \in Session
  BY SessionType
<1>1. /\ tx'[t] = [tx[t] EXCEPT !.pc = "nextval", !.action = d.action, !.target = d.id]
      /\ HasItem(t) /\ ~KindConflict(View(t), CurrentItem(t)) /\ reports' = reports
  BY BecomesOthers DEF ReadItem, tables
<1>2. d.action = "update" =>
        /\ CurrentItem(t).upd >= View(t)[d.id].upd
        /\ View(t)[d.id].tomb => IncomingIsTombstone(CurrentItem(t))
  BY <1>1, CurrentItemType, ViewType, SessionType, DecisionInOrder
<1> HIDE DEF d
<1>3. /\ tx'[t].action = d.action /\ tx'[t].target = d.id
      /\ tx'[t].req = tx[t].req /\ tx'[t].i = tx[t].i /\ tx'[t].writes = tx[t].writes
  BY <1>0, <1>1 DEF Session
<1>4. /\ View(t)' = View(t) /\ CurrentItem(t)' = CurrentItem(t)
      /\ Uncommitted(t)' = Uncommitted(t) /\ GatewayOf(t)' = GatewayOf(t)
  BY <1>1, <1>3 DEF View, CurrentItem, Uncommitted, GatewayOf
<1>5. QED
  BY <1>1, <1>2, <1>3, <1>4 DEF KeepsOwnRows

LEMMA OwnRowsWriteItem ==
  ASSUME TypeOK, SessionShape, UpdatesFitTheirRow, WriteSets,
         NEW t \in Sessions, KeepsOwnRows(t), WriteItem(t)
  PROVE  KeepsOwnRows(t)'
<1> DEFINE w == tx[t].target
<1>0. /\ tx[t] \in Session /\ w \in Ids /\ tx[t].writes \in [Ids -> Row \cup {NoRow}]
      /\ HasItem(t) /\ CurrentItem(t) \in Item /\ tx[t].pc = "write"
      /\ View(t)[w] \in Row \cup {NoRow} /\ reports[w] \in Row \cup {NoRow}
      /\ GatewayOf(t) \in Gateways /\ tx[t].seq \in Nat
  BY SessionType, CurrentItemType, ViewType DEF Session, WriteItem, SessionShape, Shape, TypeOK
<1>1. /\ tx'[t].writes = [tx[t].writes EXCEPT ![w] = NewRow(t)]
      /\ tx'[t].pc = "item" /\ tx'[t].req = tx[t].req /\ reports' = reports
  BY WriteItemDoes DEF tables
<1>2. tx'[t].writes[w] = NewRow(t) /\ \A x \in Ids \ {w} : tx'[t].writes[x] = tx[t].writes[x]
  BY <1>0, <1>1
<1>3. GatewayOf(t)' = GatewayOf(t)
  BY <1>1 DEF GatewayOf
<1>4. ASSUME reports[w] # NoRow, reports[w].gw = GatewayOf(t)
      PROVE  NotRegressed(reports[w], NewRow(t))
  <2>1. View(t)[w] # NoRow
    BY <1>0, <1>4 DEF View
  <2>2. tx[t].action = "update"
    BY <1>0, <2>1, WriteItemDoes DEF WriteViolatesConstraint, Session
  <2>3. View(t)[w].gw = GatewayOf(t) /\ NotRegressed(reports[w], View(t)[w])
    <3>1. CASE w \in Uncommitted(t)
      BY <1>0, <1>4, <3>1 DEF WriteSets, WriteSet, Uncommitted, View, KeepsOwnRows
    <3>2. CASE w \notin Uncommitted(t)
      <4>1. View(t)[w] = reports[w] /\ reports[w].upd \in Nat
        BY <1>0, <1>4, <3>2 DEF Uncommitted, View, Row
      <4>2. QED
        BY <1>4, <4>1 DEF NotRegressed
    <3>3. QED
      BY <3>1, <3>2
  <2>4. /\ CurrentItem(t).upd >= View(t)[w].upd
        /\ View(t)[w].tomb => IncomingIsTombstone(CurrentItem(t))
        /\ CurrentItem(t).kind # "sos"
    BY <1>0, <2>2, <2>3 DEF KeepsOwnRows, UpdatesFitTheirRow, Fits
  <2>5. /\ NewRow(t).upd = CurrentItem(t).upd
        /\ NewRow(t).tomb = IncomingIsTombstone(CurrentItem(t))
    BY <2>4 DEF NewRow, StoredRow, IncomingIsTombstone
  <2>6. reports[w].upd \in Nat /\ View(t)[w].upd \in Nat /\ CurrentItem(t).upd \in Nat
    BY <1>0, <1>4, <2>1 DEF Row, Item
  <2>7. NewRow(t).upd >= reports[w].upd
    BY <2>3, <2>4, <2>5, <2>6 DEF NotRegressed
  <2>8. reports[w].tomb => NewRow(t).tomb
    BY <2>3, <2>4, <2>5 DEF NotRegressed
  <2>9. QED
    BY <2>7, <2>8 DEF NotRegressed
<1> HIDE DEF w
<1>5. ASSUME NEW x \in Uncommitted(t)', reports[x] # NoRow, reports[x].gw = GatewayOf(t)
      PROVE  NotRegressed(reports[x], tx'[t].writes[x])
  <2>1. CASE x = w
    BY <1>2, <1>4, <1>5, <2>1
  <2>2. CASE x # w
    <3>1. x \in Uncommitted(t) /\ tx'[t].writes[x] = tx[t].writes[x]
      BY <1>2, <1>5, <2>2 DEF Uncommitted
    <3>2. QED
      BY <1>5, <3>1 DEF KeepsOwnRows
  <2>3. QED
    BY <2>1, <2>2
<1>6. ASSUME NEW x \in Uncommitted(t)', reports'[x] # NoRow, reports'[x].gw = GatewayOf(t)'
      PROVE  NotRegressed(reports'[x], tx'[t].writes[x])
  BY <1>1, <1>3, <1>5, <1>6
<1>7. QED
  BY <1>1, <1>6 DEF KeepsOwnRows, NotRegressed

\* Rows of the gateway of a working session do not change under it: only another
\* session that has locked the same gateway row could change them.
LEMMA OwnRowsOthers ==
  ASSUME TypeOK, GatewayLocks, RowLocks, WriteSets, NEW t \in Sessions, Commit(t),
         NEW u \in Sessions \ {t}, KeepsOwnRows(u)
  PROVE  KeepsOwnRows(u)'
<1>1. /\ tx'[u] = tx[u] /\ reports' = View(t) /\ tx[t].pc = "commit"
      /\ tx[u].target \in Ids
  BY CommitDoes, SessionType DEF Alone, Session
<1>2. /\ Uncommitted(u)' = Uncommitted(u) /\ GatewayOf(u)' = GatewayOf(u)
      /\ CurrentItem(u)' = CurrentItem(u)
  BY <1>1 DEF Uncommitted, GatewayOf, CurrentItem
<1>3. \A x \in Uncommitted(u) : reports'[x] = reports[x]
  BY <1>1 DEF Uncommitted, View, RowLocks
<1>4. ASSUME NEW x \in Uncommitted(u), reports'[x] # NoRow, reports'[x].gw = GatewayOf(u)
      PROVE  NotRegressed(reports'[x], tx[u].writes[x])
  BY <1>3, <1>4 DEF KeepsOwnRows
<1>5. ASSUME tx[u].pc \in {"nextval", "write"}, tx[u].action = "update",
             View(u)'[tx[u].target].gw = GatewayOf(u)
      PROVE  /\ CurrentItem(u).upd >= View(u)'[tx[u].target].upd
             /\ View(u)'[tx[u].target].tomb => IncomingIsTombstone(CurrentItem(u))
  <2> DEFINE x == tx[u].target
  <2>1. GatewayOf(t) # GatewayOf(u)
    BY <1>1, <1>5 DEF GatewayLocks, Working
  <2>2. View(u)'[x] = View(u)[x]
    <3>1. CASE x \in Uncommitted(u)
      BY <1>1, <3>1 DEF Uncommitted, View
    <3>2. CASE x \in Uncommitted(t) /\ x \notin Uncommitted(u)
      <4>1. View(u)'[x] = tx[t].writes[x]
        BY <1>1, <3>2 DEF Uncommitted, View
      <4>2. tx[t].writes[x].gw = GatewayOf(t)
        BY <3>2 DEF WriteSets, WriteSet
      <4>3. QED
        BY <1>5, <2>1, <4>1, <4>2
    <3>3. CASE x \notin Uncommitted(t) /\ x \notin Uncommitted(u)
      BY <1>1, <3>3 DEF Uncommitted, View
    <3>4. QED
      BY <3>1, <3>2, <3>3
  <2>3. QED
    BY <1>5, <2>2 DEF KeepsOwnRows
<1>6. QED
  BY <1>1, <1>2, <1>4, <1>5 DEF KeepsOwnRows

LEMMA OwnRowsStep ==
  LedgerInv /\ OwnRowsInOrder /\ [Next]_vars => OwnRowsInOrder'
<1> SUFFICES ASSUME LedgerInv, OwnRowsInOrder, [Next]_vars, NEW u \in Sessions
             PROVE  KeepsOwnRows(u)'
  BY DEF OwnRowsInOrder
<1> USE DEF tables
<1>0. KeepsOwnRows(u)
  BY DEF OwnRowsInOrder
<1>a. TypeOK
  BY DEF LedgerInv
<1>1. ASSUME tx'[u] = tx[u], reports' = reports PROVE KeepsOwnRows(u)'
  BY <1>0, <1>1, OwnRowsKept
<1>2. ASSUME NEW t \in Sessions, NEW r \in Requests, Begin(t, r) PROVE KeepsOwnRows(u)'
  BY <1>a, <1>1, <1>2, BeginDoes, OwnRowsEmptied DEF Alone, Bare
<1>3. ASSUME NEW t \in Sessions, Resets(t) PROVE KeepsOwnRows(u)'
  BY <1>a, <1>1, <1>3, ResetsDo, OwnRowsEmptied DEF Alone, Bare
<1>4. ASSUME NEW t \in Sessions, Moves(t) PROVE KeepsOwnRows(u)'
  <2>1. CASE u # t
    BY <1>a, <1>1, <1>4, <2>1, MovesDo DEF Alone
  <2>2. CASE u = t /\ ReadItem(t)
    BY <1>0, <1>a, <2>2, OwnRowsReadItem
  <2>3. CASE u = t /\ ~ReadItem(t)
    <3>1. tx'[t].pc \notin {"nextval", "write"} /\ reports' = reports
          /\ tx'[t].writes = tx[t].writes /\ tx'[t].req = tx[t].req
      BY <1>a, <1>4, <2>3, MovesDo
    <3>2. QED
      BY <1>0, <2>3, <3>1, OwnRowsKept
  <2>4. QED
    BY <2>1, <2>2, <2>3
<1>5. ASSUME NEW t \in Sessions, TouchGateway(t) PROVE KeepsOwnRows(u)'
  BY <1>0, <1>a, <1>1, <1>5, TouchGatewayDoes, OwnRowsKept DEF Alone
<1>6. ASSUME NEW t \in Sessions, NextValue(t) \/ NextLogValue(t) PROVE KeepsOwnRows(u)'
  BY <1>0, <1>a, <1>1, <1>6, NextValuesDo, OwnRowsKept DEF Alone
<1>7. ASSUME NEW t \in Sessions, WriteLog(t) PROVE KeepsOwnRows(u)'
  BY <1>0, <1>a, <1>1, <1>7, WriteLogDoes, OwnRowsKept DEF Alone
<1>8. ASSUME NEW t \in Sessions, WriteItem(t) PROVE KeepsOwnRows(u)'
  BY <1>0, <1>1, <1>8, WriteItemDoes, OwnRowsWriteItem DEF Alone, LedgerInv
<1>9. ASSUME NEW t \in Sessions, Commit(t) PROVE KeepsOwnRows(u)'
  BY <1>0, <1>9, CommitDoes, OwnRowsOthers, OwnRowsEmptied DEF LedgerInv
<1>10. CASE UNCHANGED <<sequences, tables, tx>>
  BY <1>1, <1>10
<1>11. QED
  BY <1>2, <1>3, <1>4, <1>5, <1>6, <1>7, <1>8, <1>9, <1>10, StepKinds

LEMMA OwnRowsInit == Init => OwnRowsInOrder
<1> SUFFICES ASSUME Init, NEW t \in Sessions PROVE KeepsOwnRows(t)
  BY DEF OwnRowsInOrder
<1>1. tx[t].pc = "idle" /\ tx[t].writes = NoWrites
  BY IdleIsBare DEF Init, Bare
<1>2. QED
  BY <1>1 DEF KeepsOwnRows, Uncommitted, NoWrites

\* What a step makes of the rows of the gateway that writes them.
OwnRowsRespected ==
  \A x \in Ids :
    reports[x] # NoRow /\ reports'[x] # NoRow /\ reports'[x].gw = reports[x].gw
      => NotRegressed(reports[x], reports'[x])

LEMMA OwnRowsRespectedStep ==
  LedgerInv /\ OwnRowsInOrder /\ [Next]_vars => OwnRowsRespected
<1> SUFFICES ASSUME LedgerInv, OwnRowsInOrder, [Next]_vars,
                    NEW x \in Ids, reports[x] # NoRow, reports'[x] # NoRow,
                    reports'[x].gw = reports[x].gw
             PROVE  NotRegressed(reports[x], reports'[x])
  BY DEF OwnRowsRespected
<1>1. reports[x].upd \in Nat
  BY DEF LedgerInv, TypeOK, Row
<1>2. CASE reports'[x] = reports[x]
  BY <1>1, <1>2 DEF NotRegressed
<1>3. CASE reports'[x] # reports[x]
  <2>1. PICK t \in Sessions : Commit(t)
    BY <1>3, ReportsChangeAtCommit DEF LedgerInv
  <2>2. x \in Uncommitted(t) /\ reports'[x] = tx[t].writes[x]
    BY <1>3, <2>1 DEF Commit, View, Uncommitted
  <2>3. reports[x].gw = GatewayOf(t)
    BY <2>2 DEF LedgerInv, WriteSets, WriteSet
  <2>4. QED
    BY <2>2, <2>3 DEF OwnRowsInOrder, KeepsOwnRows
<1>4. QED
  BY <1>2, <1>3

\* However the pushes of a gateway are repeated, reordered or run side by side with
\* those of others, none replaces a newer row of its own gateway by an older one, and
\* none brings a report its gateway has deleted back to life.
THEOREM OwnWritesAreKept == Spec => OwnWritesKept
<1>1. Init => LedgerInv /\ OwnRowsInOrder
  BY LedgerInvInit, OwnRowsInit
<1>2. LedgerInv /\ OwnRowsInOrder /\ [Next]_vars => LedgerInv' /\ OwnRowsInOrder'
  BY LedgerInvStep, OwnRowsStep
<1>3. LedgerInv /\ OwnRowsInOrder /\ [Next]_vars =>
        [\A x \in Ids :
           reports[x] # NoRow /\ reports'[x] # NoRow /\ reports'[x].gw = reports[x].gw
             => NotRegressed(reports[x], reports'[x])]_vars
  BY OwnRowsRespectedStep DEF OwnRowsRespected
<1>4. QED
  BY <1>1, <1>2, <1>3, PTL DEF Spec, OwnWritesKept

-----------------------------------------------------------------------------
(* How the sequence and the ids that sessions hold move in a step. *)

LEMMA SeqGrows ==
  ASSUME TypeOK, [Next]_vars
  PROVE  seq' \in Nat /\ seq <= seq'
<1> USE DEF sequences
<1>1. CASE UNCHANGED <<sequences, tables, tx>>
  BY <1>1 DEF TypeOK
<1>2. ASSUME NEW t \in Sessions, NEW r \in Requests, Begin(t, r) PROVE seq' = seq
  BY <1>2, BeginDoes
<1>3. ASSUME NEW t \in Sessions, Moves(t) \/ TouchGateway(t) \/ Commit(t) PROVE seq' = seq
  BY <1>3, MovesDo, TouchGatewayDoes, CommitDoes
<1>4. ASSUME NEW t \in Sessions, WriteItem(t) \/ WriteLog(t) \/ Resets(t) PROVE seq' = seq
  BY <1>4, WriteItemDoes, WriteLogDoes, ResetsDo
<1>5. ASSUME NEW t \in Sessions, NextValue(t) \/ NextLogValue(t) PROVE seq' = seq + 1
  BY <1>5, NextValuesDo
<1>6. seq \in Nat
  BY DEF TypeOK
<1>7. seq' = seq \/ seq' = seq + 1
  BY <1>1, <1>2, <1>3, <1>4, <1>5, StepKinds
<1>8. QED
  BY <1>6, <1>7

LEMMA SeqsAfter ==
  ASSUME TypeOK, SessionShape, NEW t \in Sessions
  PROVE  /\ NextValue(t) \/ NextLogValue(t) => SeqsOf(t)' \subseteq SeqsOf(t) \cup {seq + 1}
         /\ Moves(t) \/ WriteItem(t) \/ WriteLog(t) => SeqsOf(t)' \subseteq SeqsOf(t)
         /\ TouchGateway(t) => SeqsOf(t)' = {}
<1>1. ASSUME NextValue(t) \/ NextLogValue(t)
      PROVE  SeqsOf(t)' \subseteq SeqsOf(t) \cup {seq + 1}
  <2>1. /\ tx'[t].writes = tx[t].writes /\ tx'[t].log = tx[t].log /\ tx'[t].seq = seq + 1
    BY <1>1, NextValuesDo
  <2>2. RowSeqs(t)' = RowSeqs(t) /\ LogSeqs(t)' = LogSeqs(t) /\ TakenSeq(t)' \subseteq {seq + 1}
    BY <2>1 DEF RowSeqs, LogSeqs, TakenSeq
  <2>3. QED
    BY <2>2 DEF SeqsOf
<1>2. ASSUME Moves(t) PROVE SeqsOf(t)' \subseteq SeqsOf(t)
  <2>1. /\ tx'[t].writes = tx[t].writes /\ tx'[t].log = tx[t].log
        /\ tx'[t].pc \notin {"write", "log"}
    BY <1>2, MovesDo
  <2>2. RowSeqs(t)' = RowSeqs(t) /\ LogSeqs(t)' = LogSeqs(t) /\ TakenSeq(t)' = {}
    BY <2>1 DEF RowSeqs, LogSeqs, TakenSeq
  <2>3. QED
    BY <2>2 DEF SeqsOf
<1>3. ASSUME WriteItem(t) PROVE SeqsOf(t)' \subseteq SeqsOf(t)
  <2>1. /\ tx[t].target \in Ids /\ tx'[t].writes[tx[t].target] = NewRow(t)
        /\ \A x \in Ids \ {tx[t].target} : tx'[t].writes[x] = tx[t].writes[x]
    BY <1>3, NewRowIsRow
  <2>2. /\ tx'[t].log = tx[t].log /\ tx[t].pc = "write" /\ tx'[t].pc = "item"
    BY <1>3, WriteItemDoes
  <2>3. NewRow(t).seq = tx[t].seq
    BY DEF NewRow, StoredRow
  <2>4. RowSeqs(t)' \subseteq RowSeqs(t) \cup {tx[t].seq}
    BY <2>1, <2>3 DEF RowSeqs
  <2>5. LogSeqs(t)' = LogSeqs(t) /\ TakenSeq(t)' = {} /\ TakenSeq(t) = {tx[t].seq}
    BY <2>2 DEF LogSeqs, TakenSeq
  <2>6. QED
    BY <2>4, <2>5 DEF SeqsOf
<1>4. ASSUME WriteLog(t) PROVE SeqsOf(t)' \subseteq SeqsOf(t)
  <2>1. /\ tx[t].pc = "log" /\ tx'[t].pc = "commit"
        /\ tx'[t].writes = tx[t].writes /\ tx'[t].log = {NewLogRow(t)}
        /\ NewLogRow(t).seq = tx[t].seq
    BY <1>4, WriteLogDoes DEF NewLogRow
  <2>2. /\ RowSeqs(t)' = RowSeqs(t) /\ LogSeqs(t)' = {tx[t].seq}
        /\ TakenSeq(t)' = {} /\ TakenSeq(t) = {tx[t].seq}
    BY <2>1 DEF RowSeqs, LogSeqs, TakenSeq
  <2>3. QED
    BY <2>2 DEF SeqsOf
<1>5. ASSUME TouchGateway(t) PROVE SeqsOf(t)' = {}
  <2>1. /\ tx'[t].writes = NoWrites /\ tx'[t].log = {} /\ tx'[t].pc = "item"
    BY <1>5, TouchGatewayDoes DEF SessionShape, Shape, Working
  <2>2. RowSeqs(t)' = {} /\ LogSeqs(t)' = {} /\ TakenSeq(t)' = {}
    BY <2>1 DEF RowSeqs, LogSeqs, TakenSeq, NoWrites
  <2>3. QED
    BY <2>2 DEF SeqsOf
<1>6. QED
  BY <1>1, <1>2, <1>3, <1>4, <1>5

LEMMA SeqsOfOthers ==
  ASSUME NEW t, Alone(t)
  PROVE  \A u \in Sessions \ {t} : SeqsOf(u)' = SeqsOf(u) /\ tx'[u].locked = tx[u].locked
  BY DEF Alone, SeqsOf, RowSeqs, LogSeqs, TakenSeq

-----------------------------------------------------------------------------
(* The whole invariant. *)

LEMMA InductiveInvParts ==
  InductiveInv <=> LedgerInv /\ OwnRowsInOrder /\ AcceptedIsRecorded
  BY DEF InductiveInv, LedgerInv, RecordedOnce, SeqInv

LEMMA InductiveInvInit == Init => InductiveInv
  BY InductiveInvParts, LedgerInvInit, OwnRowsInit
  DEF Init, AcceptedIsRecorded

LEMMA InductiveInvStep == InductiveInv /\ [Next]_vars => InductiveInv'
<1> SUFFICES ASSUME InductiveInv, [Next]_vars PROVE InductiveInv'
  OBVIOUS
<1>1. LedgerInv' /\ OwnRowsInOrder'
  BY InductiveInvParts, LedgerInvStep, OwnRowsStep
<1>2. AcceptedIsRecorded'
  BY InductiveInvParts, AcceptedStep DEF LedgerInv
<1>3. (LedgerInv /\ OwnRowsInOrder /\ AcceptedIsRecorded)' => InductiveInv'
  BY DEF InductiveInv, LedgerInv, RecordedOnce, SeqInv
<1>4. QED
  BY <1>1, <1>2, <1>3

\* The invariant that the runs check is inductive: it holds at the start and every
\* step keeps it.
THEOREM InvariantIsInductive == Spec => []InductiveInv
  BY InductiveInvInit, InductiveInvStep, PTL DEF Spec
=============================================================================
