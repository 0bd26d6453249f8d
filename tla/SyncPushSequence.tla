-------------------------- MODULE SyncPushSequence --------------------------
(***************************************************************************)
(* Who holds which value of server_sequence_global: a session from nextval *)
(* on, in the variable, then in an uncommitted row, until the commit hands *)
(* it to the tables.                                                       *)
(***************************************************************************)
EXTENDS SyncPushSafety

SeqInv == SequenceIdsUnique /\ SequenceIdsOwned

LEMMA SeqTypes ==
  ASSUME TypeOK
  PROVE  TableSeqs \subseteq Nat /\ \A t \in Sessions : SeqsOf(t) \subseteq Nat
<1>1. TableSeqs \subseteq Nat
  <2>1. \A x \in Ids : reports[x] # NoRow => reports[x].seq \in Nat
    BY DEF TypeOK, Row
  <2>2. \A l \in log : l.seq \in Nat
    BY DEF TypeOK, LogRow
  <2>3. QED
    BY <2>1, <2>2 DEF TableSeqs
<1>2. ASSUME NEW t \in Sessions PROVE SeqsOf(t) \subseteq Nat
  <2>1. /\ tx[t].seq \in Nat /\ tx[t].log \subseteq LogRow
        /\ tx[t].writes \in [Ids -> Row \cup {NoRow}]
    BY SessionType DEF Session
  <2>2. \A x \in Ids : tx[t].writes[x] # NoRow => tx[t].writes[x].seq \in Nat
    BY <2>1 DEF Row
  <2>3. \A l \in tx[t].log : l.seq \in Nat
    BY <2>1 DEF LogRow
  <2>4. QED
    BY <2>1, <2>2, <2>3 DEF SeqsOf, RowSeqs, LogSeqs, TakenSeq
<1>3. QED
  BY <1>1, <1>2

\* Sessions keep what they hold or let go of it.
LEMMA SeqsShrink ==
  ASSUME TypeOK, SeqInv, UNCHANGED <<seq, tables>>,
         \A u \in Sessions : /\ tx'[u].writes = tx[u].writes \/ tx'[u].writes = NoWrites
                             /\ tx'[u].log = tx[u].log \/ tx'[u].log = {}
                             /\ TakenSeq(u)' \subseteq TakenSeq(u)
  PROVE  SeqInv'
<1>0. UNCHANGED <<seq, reports, log>> /\ TableSeqs' = TableSeqs
  BY DEF tables, TableSeqs
<1>1. SequenceIdsUnique'
  BY <1>0 DEF SeqInv, SequenceIdsUnique
<1>2. ASSUME NEW u \in Sessions
      PROVE  RowSeqs(u)' \subseteq RowSeqs(u) /\ LogSeqs(u)' \subseteq LogSeqs(u)
  <2>1. \A x \in Ids : NoWrites[x] = NoRow
    BY DEF NoWrites
  <2>2. QED
    BY <2>1 DEF RowSeqs, LogSeqs
<1>3. \A u \in Sessions : SeqsOf(u)' \subseteq SeqsOf(u)
  BY <1>2 DEF SeqsOf
<1>4. ASSUME NEW u \in Sessions, NEW x \in Ids, NEW y \in Ids,
             tx'[u].writes[x] # NoRow, tx'[u].writes[y] # NoRow,
             tx'[u].writes[x].seq = tx'[u].writes[y].seq
      PROVE  x = y
  BY <1>4 DEF SeqInv, SequenceIdsOwned, NoWrites
<1>5. SequenceIdsOwned'
  BY <1>0, <1>2, <1>3, <1>4 DEF SeqInv, SequenceIdsOwned
<1>6. QED
  BY <1>1, <1>5 DEF SeqInv

LEMMA SeqsNextValue ==
  ASSUME TypeOK, SessionShape, SeqInv, NEW t \in Sessions, NextValue(t) \/ NextLogValue(t)
  PROVE  SeqInv'
<1>0. /\ seq' = seq + 1 /\ seq \in Nat /\ reports' = reports /\ log' = log
      /\ tx'[t].writes = tx[t].writes /\ tx'[t].log = tx[t].log
      /\ \A u \in Sessions \ {t} : tx'[u] = tx[u]
      /\ tx[t].pc \notin {"write", "log"} /\ tx'[t].seq = seq + 1
  BY NextValuesDo DEF Alone, tables, TypeOK
<1>1. SequenceIdsUnique'
  <2>1. \A x \in Ids : reports[x] # NoRow => reports[x].seq \in Nat
    BY DEF TypeOK, Row
  <2>2. \A l \in log : l.seq \in Nat
    BY DEF TypeOK, LogRow
  <2>3. QED
    BY <1>0, <2>1, <2>2 DEF SeqInv, SequenceIdsUnique
<1>2. TableSeqs' = TableSeqs
  BY <1>0 DEF TableSeqs
<1>3. \A u \in Sessions : RowSeqs(u)' = RowSeqs(u) /\ LogSeqs(u)' = LogSeqs(u)
  BY <1>0 DEF RowSeqs, LogSeqs
<1>4. TakenSeq(t) = {} /\ TakenSeq(t)' \subseteq {seq + 1}
  BY <1>0 DEF TakenSeq
<1>5. /\ SeqsOf(t)' \subseteq SeqsOf(t) \cup {seq + 1}
      /\ \A u \in Sessions \ {t} : SeqsOf(u)' = SeqsOf(u) /\ TakenSeq(u)' = TakenSeq(u)
  BY <1>0, <1>3, <1>4 DEF SeqsOf, TakenSeq
<1>6. /\ \A n \in TableSeqs : n \in Nat /\ n <= seq
      /\ \A u \in Sessions : \A n \in SeqsOf(u) : n \in Nat /\ n <= seq
  BY SeqTypes DEF SeqInv, SequenceIdsOwned
<1>7. /\ seq + 1 \notin TableSeqs
      /\ \A u \in Sessions : seq + 1 \notin SeqsOf(u)
  BY <1>0, <1>6
<1>8. \A n \in TableSeqs' : n <= seq'
  BY <1>0, <1>2, <1>6
<1>9. ASSUME NEW u \in Sessions
      PROVE  /\ \A n \in SeqsOf(u)' : n <= seq' /\ n \notin TableSeqs'
             /\ \A v \in Sessions : u # v => SeqsOf(u)' \cap SeqsOf(v)' = {}
             /\ RowSeqs(u)' \cap (LogSeqs(u)' \cup TakenSeq(u)') = {}
  <2>1. \A n \in SeqsOf(u)' : n <= seq' /\ n \notin TableSeqs'
    <3>1. ASSUME NEW n \in SeqsOf(u)' PROVE n <= seq' /\ n \notin TableSeqs'
      <4>1. n \in SeqsOf(u) \/ n = seq + 1
        BY <1>5, <3>1
      <4>2. CASE n \in SeqsOf(u)
        BY <1>0, <1>2, <1>6, <4>2 DEF SeqInv, SequenceIdsOwned
      <4>3. CASE n = seq + 1
        BY <1>0, <1>2, <1>7, <4>3
      <4>4. QED
        BY <4>1, <4>2, <4>3
    <3>2. QED
      BY <3>1
  <2>2. ASSUME NEW v \in Sessions, u # v PROVE SeqsOf(u)' \cap SeqsOf(v)' = {}
    <3>1. SeqsOf(u) \cap SeqsOf(v) = {}
      BY <2>2 DEF SeqInv, SequenceIdsOwned
    <3>2. QED
      BY <1>5, <1>7, <2>2, <3>1
  <2>3. RowSeqs(u)' \cap (LogSeqs(u)' \cup TakenSeq(u)') = {}
    <3>1. RowSeqs(u) \cap (LogSeqs(u) \cup TakenSeq(u)) = {} /\ RowSeqs(u) \subseteq SeqsOf(u)
      BY DEF SeqInv, SequenceIdsOwned, SeqsOf
    <3>2. QED
      BY <1>3, <1>4, <1>5, <1>7, <3>1
  <2>4. QED
    BY <2>1, <2>2, <2>3
<1>10. \A u \in Sessions : \A x, y \in Ids :
         /\ tx'[u].writes[x] # NoRow /\ tx'[u].writes[y] # NoRow
         /\ tx'[u].writes[x].seq = tx'[u].writes[y].seq
         => x = y
  BY <1>0 DEF SeqInv, SequenceIdsOwned
<1>11. SequenceIdsOwned'
  BY <1>8, <1>9, <1>10 DEF SequenceIdsOwned
<1>12. QED
  BY <1>1, <1>11 DEF SeqInv

\* Session t moves a value from one place to another; the tables do not change.
LEMMA SeqsMove ==
  ASSUME SeqInv, NEW t \in Sessions, Alone(t), UNCHANGED <<seq, reports, log>>,
         SeqsOf(t)' \subseteq SeqsOf(t),
         \A x, y \in Ids : /\ tx'[t].writes[x] # NoRow /\ tx'[t].writes[y] # NoRow
                          /\ tx'[t].writes[x].seq = tx'[t].writes[y].seq
                          => x = y,
         RowSeqs(t)' \cap (LogSeqs(t)' \cup TakenSeq(t)') = {}
  PROVE  SeqInv'
<1>1. SequenceIdsUnique'
  BY DEF SeqInv, SequenceIdsUnique
<1>2. TableSeqs' = TableSeqs
  BY DEF TableSeqs
<1>3. ASSUME NEW u \in Sessions \ {t}
      PROVE  /\ tx'[u] = tx[u] /\ RowSeqs(u)' = RowSeqs(u) /\ LogSeqs(u)' = LogSeqs(u)
             /\ TakenSeq(u)' = TakenSeq(u) /\ SeqsOf(u)' = SeqsOf(u)
  <2>1. tx'[u] = tx[u]
    BY <1>3 DEF Alone
  <2>2. RowSeqs(u)' = RowSeqs(u) /\ LogSeqs(u)' = LogSeqs(u) /\ TakenSeq(u)' = TakenSeq(u)
    BY <2>1 DEF RowSeqs, LogSeqs, TakenSeq
  <2>3. QED
    BY <2>1, <2>2 DEF SeqsOf
<1>4. \A u \in Sessions : SeqsOf(u)' \subseteq SeqsOf(u)
  BY <1>3
<1>5. \A u \in Sessions : RowSeqs(u)' \cap (LogSeqs(u)' \cup TakenSeq(u)') = {}
  BY <1>3 DEF SeqInv, SequenceIdsOwned
<1>6. ASSUME NEW u \in Sessions, NEW x \in Ids, NEW y \in Ids,
             tx'[u].writes[x] # NoRow, tx'[u].writes[y] # NoRow,
             tx'[u].writes[x].seq = tx'[u].writes[y].seq
      PROVE  x = y
  BY <1>3, <1>6 DEF SeqInv, SequenceIdsOwned
<1>7. SequenceIdsOwned'
  BY <1>2, <1>4, <1>5, <1>6 DEF SeqInv, SequenceIdsOwned
<1>8. QED
  BY <1>1, <1>7 DEF SeqInv

LEMMA SeqsWriteItem ==
  ASSUME TypeOK, SessionShape, SeqInv, NEW t \in Sessions, WriteItem(t)
  PROVE  SeqInv'
<1> DEFINE w == tx[t].target
<1>0. /\ tx[t] \in Session /\ w \in Ids /\ tx[t].writes \in [Ids -> Row \cup {NoRow}]
  BY SessionType DEF Session
<1>1. /\ Alone(t) /\ tx[t].pc = "write" /\ tx'[t].pc = "item"
      /\ tx'[t].writes = [tx[t].writes EXCEPT ![w] = NewRow(t)]
      /\ tx[t].log = {} /\ tx'[t].log = {}
      /\ UNCHANGED <<seq, reports, log>>
  BY WriteItemDoes DEF sequences, tables, SessionShape, Shape
<1>2. NewRow(t).seq = tx[t].seq
  BY DEF NewRow, StoredRow
<1>3. tx'[t].writes[w].seq = tx[t].seq /\ \A x \in Ids : x # w => tx'[t].writes[x] = tx[t].writes[x]
  BY <1>0, <1>1, <1>2
<1>4. TakenSeq(t) = {tx[t].seq} /\ TakenSeq(t)' = {} /\ LogSeqs(t) = {} /\ LogSeqs(t)' = {}
  BY <1>1 DEF TakenSeq, LogSeqs
<1> HIDE DEF w
<1>5. RowSeqs(t)' \subseteq RowSeqs(t) \cup {tx[t].seq}
  BY <1>3 DEF RowSeqs
<1>6. \A x \in Ids : tx[t].writes[x] # NoRow => tx[t].writes[x].seq # tx[t].seq
  <2>1. tx[t].seq \notin RowSeqs(t)
    BY <1>4 DEF SeqInv, SequenceIdsOwned
  <2>2. QED
    BY <2>1 DEF RowSeqs
<1>7. ASSUME NEW x \in Ids, NEW y \in Ids,
             tx'[t].writes[x] # NoRow, tx'[t].writes[y] # NoRow,
             tx'[t].writes[x].seq = tx'[t].writes[y].seq
      PROVE  x = y
  BY <1>3, <1>6, <1>7 DEF SeqInv, SequenceIdsOwned
<1>8. SeqsOf(t)' \subseteq SeqsOf(t)
  BY <1>4, <1>5 DEF SeqsOf
<1>9. QED
  BY <1>1, <1>4, <1>7, <1>8, SeqsMove

LEMMA SeqsWriteLog ==
  ASSUME TypeOK, SessionShape, SeqInv, NEW t \in Sessions, WriteLog(t)
  PROVE  SeqInv'
<1>1. /\ Alone(t) /\ tx[t].pc = "log" /\ tx'[t].pc = "commit"
      /\ tx'[t].writes = tx[t].writes /\ tx'[t].log = {NewLogRow(t)} /\ NewLogRow(t).seq = tx[t].seq
      /\ UNCHANGED <<seq, reports, log>>
  BY WriteLogDoes DEF tables, NewLogRow
<1>2. /\ TakenSeq(t) = {tx[t].seq} /\ TakenSeq(t)' = {}
      /\ LogSeqs(t)' = {tx[t].seq} /\ RowSeqs(t)' = RowSeqs(t)
  BY <1>1 DEF TakenSeq, LogSeqs, RowSeqs
<1>3. SeqsOf(t)' \subseteq SeqsOf(t)
  BY <1>2 DEF SeqsOf
<1>4. RowSeqs(t)' \cap (LogSeqs(t)' \cup TakenSeq(t)') = {}
  BY <1>2 DEF SeqInv, SequenceIdsOwned
<1>5. \A x, y \in Ids : /\ tx'[t].writes[x] # NoRow /\ tx'[t].writes[y] # NoRow
                        /\ tx'[t].writes[x].seq = tx'[t].writes[y].seq
                        => x = y
  BY <1>1 DEF SeqInv, SequenceIdsOwned
<1>6. QED
  BY <1>1, <1>3, <1>4, <1>5, SeqsMove
-----------------------------------------------------------------------------
LEMMA SeqsCommit ==
  ASSUME TypeOK, SessionShape, SeqInv, NEW t \in Sessions, Commit(t)
  PROVE  SeqInv'
<1>0. PICK l \in tx[t].log : tx[t].log = {l}
  BY CommitDoes DEF SessionShape, Shape
<1>1. /\ Alone(t) /\ tx[t].pc = "commit" /\ tx'[t].pc = "reply"
      /\ tx'[t].writes = NoWrites /\ tx'[t].log = {}
      /\ reports' = View(t) /\ log' = log \cup {l} /\ seq' = seq
  BY <1>0, CommitDoes DEF sequences
\* Where the values of the new tables come from.
<1>2. ASSUME NEW x \in Ids, reports'[x] # NoRow
      PROVE  \/ /\ tx[t].writes[x] # NoRow /\ reports'[x] = tx[t].writes[x]
                /\ reports'[x].seq \in RowSeqs(t)
             \/ /\ reports[x] # NoRow /\ reports'[x] = reports[x]
                /\ reports'[x].seq \in TableSeqs
  BY <1>1, <1>2 DEF View, RowSeqs, TableSeqs
<1>3. LogSeqs(t) = {l.seq} /\ (\A m \in log : m.seq \in TableSeqs)
  BY <1>0 DEF LogSeqs, TableSeqs
<1>4. /\ RowSeqs(t) \cap TableSeqs = {} /\ LogSeqs(t) \cap TableSeqs = {}
      /\ RowSeqs(t) \cap LogSeqs(t) = {}
      /\ \A n \in TableSeqs \cup RowSeqs(t) \cup LogSeqs(t) : n <= seq
  BY DEF SeqInv, SequenceIdsOwned, SeqsOf
<1>5. SequenceIdsUnique'
  <2>1. ASSUME NEW x \in Ids, reports'[x] # NoRow
        PROVE  reports'[x].seq <= seq' /\ \A m \in log' : m.seq # reports'[x].seq
    <3>1. reports'[x].seq <= seq'
      BY <1>1, <1>2, <1>4, <2>1
    <3>2. ASSUME NEW m \in log', m.seq = reports'[x].seq PROVE FALSE
      <4>1. CASE m = l
        BY <1>2, <1>3, <1>4, <2>1, <3>2, <4>1
      <4>2. CASE m \in log
        BY <1>2, <1>3, <1>4, <2>1, <3>2, <4>2 DEF SeqInv, SequenceIdsUnique
      <4>3. QED
        BY <1>1, <4>1, <4>2
    <3>3. QED
      BY <3>1, <3>2
  <2>2. ASSUME NEW x \in Ids, NEW y \in Ids, reports'[x] # NoRow, reports'[y] # NoRow,
               reports'[x].seq = reports'[y].seq
        PROVE  x = y
    BY <1>2, <1>4, <2>2 DEF SeqInv, SequenceIdsUnique, SequenceIdsOwned
  <2>3. ASSUME NEW m \in log' PROVE m.seq <= seq'
    BY <1>1, <1>3, <1>4, <2>3
  <2>4. ASSUME NEW m \in log', NEW n \in log', m.seq = n.seq PROVE m = n
    BY <1>1, <1>3, <1>4, <2>4 DEF SeqInv, SequenceIdsUnique
  <2>5. QED
    BY <2>1, <2>2, <2>3, <2>4 DEF SequenceIdsUnique
<1>6. TableSeqs' \subseteq TableSeqs \cup RowSeqs(t) \cup LogSeqs(t)
  <2>1. ASSUME NEW n \in TableSeqs'
        PROVE  n \in TableSeqs \cup RowSeqs(t) \cup LogSeqs(t)
    <3>1. \/ \E x \in Ids : reports'[x] # NoRow /\ n = reports'[x].seq
          \/ \E m \in log' : n = m.seq
      BY <2>1 DEF TableSeqs
    <3>2. QED
      BY <1>1, <1>2, <1>3, <3>1
  <2>2. QED
    BY <2>1
<1>7. SeqsOf(t)' = {} /\ RowSeqs(t)' = {}
  BY <1>1 DEF SeqsOf, RowSeqs, LogSeqs, TakenSeq, NoWrites
<1>8. ASSUME NEW u \in Sessions \ {t}
      PROVE  /\ tx'[u] = tx[u] /\ RowSeqs(u)' = RowSeqs(u) /\ LogSeqs(u)' = LogSeqs(u)
             /\ TakenSeq(u)' = TakenSeq(u) /\ SeqsOf(u)' = SeqsOf(u)
  BY <1>1 DEF Alone, SeqsOf, RowSeqs, LogSeqs, TakenSeq
<1>9. ASSUME NEW u \in Sessions, NEW n \in SeqsOf(u)' PROVE n <= seq' /\ n \notin TableSeqs'
  <2>1. u # t /\ n \in SeqsOf(u)
    BY <1>7, <1>8, <1>9
  <2>2. n <= seq /\ n \notin TableSeqs /\ n \notin SeqsOf(t)
    BY <2>1 DEF SeqInv, SequenceIdsOwned
  <2>3. QED
    BY <1>1, <1>6, <2>2 DEF SeqsOf
<1>10. ASSUME NEW u \in Sessions, NEW v \in Sessions, u # v
       PROVE  SeqsOf(u)' \cap SeqsOf(v)' = {}
  BY <1>7, <1>8, <1>10 DEF SeqInv, SequenceIdsOwned
<1>11. \A u \in Sessions : RowSeqs(u)' \cap (LogSeqs(u)' \cup TakenSeq(u)') = {}
  BY <1>7, <1>8 DEF SeqInv, SequenceIdsOwned
<1>12. ASSUME NEW u \in Sessions, NEW x \in Ids, NEW y \in Ids,
              tx'[u].writes[x] # NoRow, tx'[u].writes[y] # NoRow,
              tx'[u].writes[x].seq = tx'[u].writes[y].seq
       PROVE  x = y
  <2>1. u # t
    BY <1>1, <1>12 DEF NoWrites
  <2>2. QED
    BY <1>8, <1>12, <2>1 DEF SeqInv, SequenceIdsOwned
<1>13. \A n \in TableSeqs' : n <= seq'
  BY <1>1, <1>4, <1>6
<1>14. SequenceIdsOwned'
  BY <1>9, <1>10, <1>11, <1>12, <1>13 DEF SequenceIdsOwned
<1>15. QED
  BY <1>5, <1>14 DEF SeqInv

LEMMA SeqsStep == TypeOK /\ SessionShape /\ SeqInv /\ [Next]_vars => SeqInv'
<1> SUFFICES ASSUME TypeOK, SessionShape, SeqInv, [Next]_vars PROVE SeqInv'
  OBVIOUS
<1> USE DEF Alone, TakenSeq
<1>1. CASE UNCHANGED <<sequences, tables, tx>>
  BY <1>1, SeqsShrink DEF sequences
<1>2. ASSUME NEW t \in Sessions, NEW r \in Requests, Begin(t, r) PROVE SeqInv'
  BY <1>2, BeginDoes, SeqsShrink DEF Bare, sequences
<1>3. ASSUME NEW t \in Sessions, Moves(t) PROVE SeqInv'
  BY <1>3, MovesDo, SeqsShrink DEF sequences
<1>4. ASSUME NEW t \in Sessions, TouchGateway(t) PROVE SeqInv'
  BY <1>4, TouchGatewayDoes, SeqsShrink DEF sequences
<1>5. ASSUME NEW t \in Sessions, Resets(t) PROVE SeqInv'
  BY <1>5, ResetsDo, SeqsShrink DEF Bare
<1>6. QED
  BY <1>1, <1>2, <1>3, <1>4, <1>5, SeqsNextValue, SeqsWriteItem, SeqsWriteLog,
     SeqsCommit, StepKinds

LEMMA SeqsInit == Init => SeqInv
<1> SUFFICES ASSUME Init PROVE SeqInv
  OBVIOUS
<1>1. /\ seq = 0 /\ log = {} /\ reports = NoWrites
      /\ \A t \in Sessions : tx[t].pc = "idle" /\ tx[t].writes = NoWrites /\ tx[t].log = {}
  BY IdleIsBare DEF Init, Bare
<1>2. TableSeqs = {} /\ \A t \in Sessions : SeqsOf(t) = {} /\ RowSeqs(t) = {}
  BY <1>1 DEF TableSeqs, SeqsOf, RowSeqs, LogSeqs, TakenSeq, NoWrites
<1>3. SequenceIdsUnique
  BY <1>1 DEF SequenceIdsUnique, NoWrites
<1>4. SequenceIdsOwned
  BY <1>1, <1>2 DEF SequenceIdsOwned, NoWrites
<1>5. QED
  BY <1>3, <1>4 DEF SeqInv

\* No two rows of reports and sync_logs ever share a value of
\* server_sequence_global, and the sequence is never behind a row.
THEOREM SequenceIdsAreUnique == Spec => []SequenceIdsUnique
<1> DEFINE I == TypeOK /\ SessionShape /\ SeqInv
<1>1. Init => I
  BY TypeInit, ShapeInit, SeqsInit
<1>2. I /\ [Next]_vars => I'
  BY TypeStep, ShapeStep, SeqsStep
<1>3. I => SequenceIdsUnique
  BY DEF SeqInv
<1>4. QED
  BY <1>1, <1>2, <1>3, PTL DEF Spec
=============================================================================
