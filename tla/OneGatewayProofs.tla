-------------------------- MODULE OneGatewayProofs --------------------------
(***************************************************************************)
(* What pushes of one gateway keep, for any number of sessions, retries,   *)
(* faults and readers: the lock on the gateway row makes one push at a     *)
(* time read and write, so rows only move forward, sequence and log ids    *)
(* are committed in order, and nobody who reads from a cursor misses a row.*)
(* The runs lost_update, duplicate_canonical and skipped_row show that two *)
(* gateways are enough to break each of these.                             *)
(***************************************************************************)
EXTENDS SyncPullInv, SyncPushLedger, WellFoundedInduction

-----------------------------------------------------------------------------
(* Least and greatest numbers. *)

LEMMA LessThanIsWellFounded == IsWellFoundedOn({p \in Nat \X Nat : p[1] < p[2]}, Nat)
  BY NatLessThanWellFounded, Zenon DEF OpToRel

LEMMA Smallest ==
  ASSUME NEW T \in SUBSET Nat, T # {}
  PROVE  \E x \in T : \A y \in T : x <= y
<1> DEFINE R == {p \in Nat \X Nat : p[1] < p[2]}
<1>1. IsWellFoundedOn(R, Nat)
  BY LessThanIsWellFounded
<1>2. \A x, y \in Nat : <<y, x>> \notin R => x <= y
  OBVIOUS
<1> HIDE DEF R
<1>3. PICK x \in T : \A y \in T : ~ (<<y, x>> \in R)
  BY <1>1, WFMin
<1>4. QED
  BY <1>2, <1>3

LEMMA Greatest ==
  ASSUME NEW S \in SUBSET Nat, S # {}, NEW b \in Nat, \A n \in S : n <= b
  PROVE  \E x \in S : \A y \in S : y <= x
<1> DEFINE T == {b - n : n \in S}
<1>1. \A n \in S : n \in Nat /\ b - n \in Nat
  OBVIOUS
<1>2. PICK n \in S : TRUE
  OBVIOUS
<1>3. b - n \in T
  BY <1>2
<1>4. T \in SUBSET Nat /\ T # {}
  BY <1>1, <1>3
<1>5. PICK z \in T : \A y \in T : z <= y
  BY <1>4, Smallest
<1>6. PICK x \in S : z = b - x
  BY <1>5
<1>7. ASSUME NEW y \in S PROVE y <= x
  <2>1. b - y \in T
    OBVIOUS
  <2>2. b - x <= b - y
    BY <1>5, <1>6, <2>1
  <2>3. QED
    BY <1>1, <1>6, <2>2
<1>8. QED
  BY <1>7

-----------------------------------------------------------------------------
(* One lock for everything. *)

LEMMA OneHolder ==
  ASSUME OneGateway, TypeOK, GatewayLocks, NEW t \in Sessions, NEW u \in Sessions,
         tx[t].locked, tx[u].locked
  PROVE  t = u
<1>1. GatewayOf(t) = GatewayOf(u)
  BY SessionType DEF OneGateway, GatewayOf
<1>2. QED
  BY <1>1 DEF GatewayLocks

\* Who commits holds the lock, so nobody else does.
LEMMA CommitterAlone ==
  ASSUME OneGateway, TypeOK, GatewayLocks, NEW t \in Sessions, Commit(t)
  PROVE  \A u \in Sessions : tx[u].locked <=> u = t
<1>1. tx[t].locked
  BY CommitDoes DEF GatewayLocks
<1>2. QED
  BY <1>1, OneHolder

LEMMA NobodyLocksAfterCommit ==
  ASSUME OneGateway, TypeOK, GatewayLocks, NEW t \in Sessions, Commit(t)
  PROVE  \A u \in Sessions : ~tx'[u].locked
  BY CommitterAlone, CommitDoes DEF Alone

LEMMA HoldersStep ==
  InductiveInv /\ OneGateway /\ RowsOfTheGateway /\ [Next]_vars => RowsOfTheGateway'
<1> SUFFICES ASSUME InductiveInv, OneGateway, RowsOfTheGateway, [Next]_vars
             PROVE  RowsOfTheGateway'
  OBVIOUS
<1>0. TypeOK /\ SessionShape /\ GatewayLocks /\ WriteSets
  BY DEF InductiveInv
<1>1. ASSUME NEW x \in Ids, NEW r \in Requests, reports'[x] # NoRow
      PROVE  reports'[x].gw = Body[r].gw
  <2>1. CASE reports'[x] = reports[x]
    BY <1>1, <2>1 DEF RowsOfTheGateway
  <2>2. CASE reports'[x] # reports[x]
    <3>1. PICK t \in Sessions : Commit(t)
      BY <1>0, <2>2, ReportsChangeAtCommit
    <3>2. x \in Uncommitted(t) /\ reports'[x] = tx[t].writes[x]
      BY <2>2, <3>1 DEF Commit, View, Uncommitted
    <3>3. reports'[x].gw = GatewayOf(t)
      BY <1>0, <3>2 DEF WriteSets, WriteSet
    <3>4. QED
      BY <1>0, <3>3, SessionType DEF GatewayOf, OneGateway
  <2>3. QED
    BY <2>1, <2>2
<1>2. ASSUME NEW u \in Sessions, Uncommitted(u)' # {} \/ tx'[u].log # {}
      PROVE  tx'[u].locked
  <2>1. ASSUME tx'[u].writes = tx[u].writes, tx'[u].log = tx[u].log,
               tx'[u].locked = tx[u].locked
        PROVE  tx'[u].locked
    BY <1>2, <2>1 DEF RowsOfTheGateway, Uncommitted
  <2>2. ASSUME tx'[u].writes = NoWrites, tx'[u].log = {} PROVE FALSE
    BY <1>2, <2>2 DEF Uncommitted, NoWrites
  <2>3. ASSUME NEW t \in Sessions, NEW r \in Requests, Begin(t, r) PROVE tx'[u].locked
    BY <1>0, <2>1, <2>2, <2>3, BeginDoes DEF Alone, Bare
  <2>4. ASSUME NEW t \in Sessions, Resets(t) PROVE tx'[u].locked
    BY <1>0, <2>1, <2>2, <2>4, ResetsDo DEF Alone, Bare
  <2>5. ASSUME NEW t \in Sessions, Commit(t) PROVE tx'[u].locked
    BY <1>0, <2>1, <2>2, <2>5, CommitDoes DEF Alone
  <2>6. ASSUME NEW t \in Sessions, Moves(t) PROVE tx'[u].locked
    BY <1>0, <2>1, <2>6, MovesDo DEF Alone
  <2>7. ASSUME NEW t \in Sessions, NextValue(t) \/ NextLogValue(t) PROVE tx'[u].locked
    BY <1>0, <2>1, <2>7, NextValuesDo DEF Alone
  <2>8. ASSUME NEW t \in Sessions, TouchGateway(t) PROVE tx'[u].locked
    <3>1. CASE u = t
      <4>1. tx[t].writes = NoWrites /\ tx[t].log = {}
        BY <1>0, <2>8, TouchGatewayDoes DEF SessionShape, Shape, Working
      <4>2. QED
        BY <1>0, <2>2, <2>8, <3>1, <4>1, TouchGatewayDoes
    <3>2. QED
      BY <1>0, <2>1, <2>8, <3>1, TouchGatewayDoes DEF Alone
  <2>9. ASSUME NEW t \in Sessions, WriteItem(t) \/ WriteLog(t) PROVE tx'[u].locked
    <3>1. tx[t].pc \in Working /\ GatewayStored(t)
      BY <1>0, <2>9, WriteItemDoes, WriteLogDoes DEF Working, WriteViolatesConstraint
    <3>2. tx[t].locked
      BY <1>0, <3>1 DEF GatewayLocks, GatewayStored
    <3>3. tx'[t].locked
      BY <1>0, <2>9, <3>2, WriteItemDoes, WriteLogDoes
    <3>4. QED
      BY <1>0, <2>1, <2>9, <3>3, WriteItemDoes, WriteLogDoes DEF Alone
  <2>10. CASE UNCHANGED <<sequences, tables, tx>>
    BY <2>1, <2>10
  <2>11. QED
    BY <2>3, <2>4, <2>5, <2>6, <2>7, <2>8, <2>9, <2>10, StepKinds
<1>3. QED
  BY <1>1, <1>2 DEF RowsOfTheGateway

-----------------------------------------------------------------------------
(* Sequence ids are committed in order. *)

\* How the ids of a session and the tables change in a step, for what is to be shown of
\* the lock's holder: every id it holds after the step it held before, or is the next
\* of the sequence; or the lock is free.
LEMMA HolderSeqs ==
  ASSUME InductiveInv, OneGateway, [Next]_vars, NEW u \in Sessions, tx'[u].locked,
         NEW n \in SeqsOf(u)'
  PROVE  /\ UNCHANGED <<reports, log>>
         /\ (tx[u].locked /\ n \in SeqsOf(u)) \/ n = seq + 1
<1>0. TypeOK /\ SessionShape /\ GatewayLocks
  BY DEF InductiveInv
<1> USE DEF tables
<1>1. ASSUME NEW t \in Sessions, NEW r \in Requests, Begin(t, r)
      PROVE  UNCHANGED <<reports, log>> /\ tx[u].locked /\ n \in SeqsOf(u)
  <2>1. Alone(t) /\ tx'[t].locked = FALSE /\ UNCHANGED <<reports, log>>
    BY <1>0, <1>1, BeginDoes DEF Bare
  <2>2. QED
    BY <2>1, SeqsOfOthers
<1>2. ASSUME NEW t \in Sessions, Resets(t)
      PROVE  UNCHANGED <<reports, log>> /\ tx[u].locked /\ n \in SeqsOf(u)
  <2>1. Alone(t) /\ tx'[t].locked = FALSE /\ UNCHANGED <<reports, log>>
    BY <1>0, <1>2, ResetsDo DEF Bare
  <2>2. QED
    BY <2>1, SeqsOfOthers
<1>3. ASSUME NEW t \in Sessions, Commit(t) PROVE FALSE
  BY <1>0, <1>3, NobodyLocksAfterCommit
<1>4. ASSUME NEW t \in Sessions, Moves(t) \/ WriteItem(t) \/ WriteLog(t)
      PROVE  UNCHANGED <<reports, log>> /\ tx[u].locked /\ n \in SeqsOf(u)
  <2>1. Alone(t) /\ UNCHANGED <<reports, log>> /\ tx'[t].locked = tx[t].locked
    BY <1>0, <1>4, MovesDo, WriteItemDoes, WriteLogDoes
  <2>2. QED
    BY <1>0, <1>4, <2>1, SeqsAfter, SeqsOfOthers
<1>5. ASSUME NEW t \in Sessions, NextValue(t) \/ NextLogValue(t)
      PROVE  UNCHANGED <<reports, log>> /\ ((tx[u].locked /\ n \in SeqsOf(u)) \/ n = seq + 1)
  BY <1>0, <1>5, NextValuesDo, SeqsAfter, SeqsOfOthers
<1>6. ASSUME NEW t \in Sessions, TouchGateway(t)
      PROVE  UNCHANGED <<reports, log>> /\ tx[u].locked /\ n \in SeqsOf(u)
  BY <1>0, <1>6, TouchGatewayDoes, SeqsAfter, SeqsOfOthers
<1>7. CASE UNCHANGED <<sequences, tables, tx>>
  BY <1>7 DEF SeqsOf, RowSeqs, LogSeqs, TakenSeq
<1>8. QED
  BY <1>1, <1>2, <1>3, <1>4, <1>5, <1>6, <1>7, StepKinds

LEMMA PendingAboveStep ==
  InductiveInv /\ OneGateway /\ PendingAbove /\ [Next]_vars => PendingAbove'
<1> SUFFICES ASSUME InductiveInv, OneGateway, PendingAbove, [Next]_vars,
                    NEW u \in Sessions, tx'[u].locked, NEW n \in SeqsOf(u)',
                    NEW m \in TableSeqs'
             PROVE  m < n
  BY DEF PendingAbove
<1>1. UNCHANGED <<reports, log>> /\ ((tx[u].locked /\ n \in SeqsOf(u)) \/ n = seq + 1)
  BY HolderSeqs
<1>2. m \in TableSeqs
  BY <1>1 DEF TableSeqs
<1>3. m \in Nat /\ seq \in Nat /\ m <= seq
  BY <1>2, SeqTypes DEF InductiveInv, SequenceIdsOwned, TypeOK
<1>4. QED
  BY <1>1, <1>2, <1>3 DEF PendingAbove

-----------------------------------------------------------------------------
(* Log ids are committed in order. *)

LEMMA LogIdsGrow ==
  ASSUME TypeOK, [Next]_vars
  PROVE  logIds' \in Nat /\ logIds <= logIds'
<1> USE DEF sequences
<1>0. logIds \in Nat
  BY DEF TypeOK
<1>1. ASSUME UNCHANGED vars PROVE logIds' = logIds
  BY <1>1 DEF vars
<1>2. ASSUME Tick \/ \E r \in Requests : Refuse(r) \/ \E t \in Sessions : Begin(t, r)
      PROVE  logIds' = logIds
  BY <1>2 DEF Tick, Refuse, Begin
<1>3. ASSUME NEW t \in Sessions,
             FindReplay(t) \/ FindNoReplay(t) \/ TouchGateway(t) \/ SkipItem(t) \/ ReadItem(t)
      PROVE  logIds' = logIds
  BY <1>3 DEF FindReplay, FindNoReplay, TouchGateway, SkipItem, ReadItem
<1>4. ASSUME NEW t \in Sessions,
             NextValue(t) \/ WriteItem(t) \/ NextLogValue(t) \/ Commit(t) \/ Reply(t)
      PROVE  logIds' = logIds
  BY <1>4 DEF NextValue, WriteItem, NextLogValue, Commit, Reply
<1>5. ASSUME NEW t \in Sessions, WriteLog(t) \/ LogError(t)
      PROVE  logIds' = logIds + 1
  BY <1>5 DEF WriteLog, LogError
<1>6. ASSUME NEW t \in Sessions,
             \/ RejectKind(t) \/ WriteError(t) \/ DeadlockVictim(t)
             \/ Fail(t) \/ BrokerError(t) \/ Crash(t)
      PROVE  logIds' = logIds
  BY <1>6 DEF RejectKind, WriteError, DeadlockVictim, Fail, BrokerError, Crash
<1>7. logIds' = logIds \/ logIds' = logIds + 1
  BY <1>1, <1>2, <1>3, <1>4, <1>5, <1>6 DEF Next, Work
<1>8. QED
  BY <1>0, <1>7

LEMMA PendingIdsKept ==
  ASSUME TypeOK, PendingIds, log' = log, logIds' \in Nat, logIds <= logIds',
         \A u \in Sessions : tx'[u].log = tx[u].log \/ tx'[u].log = {}
  PROVE  PendingIds'
<1>1. \A l \in log : l.id \in Nat
  BY DEF TypeOK, LogRow
<1>2. \A u \in Sessions : \A p \in tx[u].log : p.id \in Nat
  BY SessionType DEF Session, LogRow
<1>3. logIds \in Nat
  BY DEF TypeOK
<1>4. QED
  BY <1>1, <1>2, <1>3 DEF PendingIds

LEMMA PendingIdsStep ==
  InductiveInv /\ OneGateway /\ RowsOfTheGateway /\ PendingIds /\ [Next]_vars => PendingIds'
<1> SUFFICES ASSUME InductiveInv, OneGateway, RowsOfTheGateway, PendingIds, [Next]_vars
             PROVE  PendingIds'
  OBVIOUS
<1> USE DEF tables
<1>0. TypeOK /\ SessionShape /\ GatewayLocks
  BY DEF InductiveInv
<1>a. logIds' \in Nat /\ logIds <= logIds' /\ logIds \in Nat
  BY <1>0, LogIdsGrow DEF TypeOK
<1>b. \A l \in log : l.id \in Nat
  BY <1>0 DEF TypeOK, LogRow
<1>1. ASSUME log' = log,
             \A u \in Sessions : tx'[u].log = tx[u].log \/ tx'[u].log = {}
      PROVE  PendingIds'
  BY <1>0, <1>1, <1>a, PendingIdsKept
<1>2. ASSUME NEW t \in Sessions, NEW r \in Requests, Begin(t, r) PROVE PendingIds'
  BY <1>0, <1>1, <1>2, BeginDoes DEF Alone, Bare
<1>3. ASSUME NEW t \in Sessions, Resets(t) PROVE PendingIds'
  BY <1>0, <1>1, <1>3, ResetsDo DEF Alone, Bare
<1>4. ASSUME NEW t \in Sessions, Moves(t) PROVE PendingIds'
  BY <1>0, <1>1, <1>4, MovesDo DEF Alone
<1>5. ASSUME NEW t \in Sessions, TouchGateway(t) PROVE PendingIds'
  BY <1>0, <1>1, <1>5, TouchGatewayDoes DEF Alone
<1>6. ASSUME NEW t \in Sessions, NextValue(t) \/ NextLogValue(t) PROVE PendingIds'
  BY <1>0, <1>1, <1>6, NextValuesDo DEF Alone
<1>7. ASSUME NEW t \in Sessions, WriteItem(t) PROVE PendingIds'
  BY <1>0, <1>1, <1>7, WriteItemDoes DEF Alone
<1>8. ASSUME NEW t \in Sessions, WriteLog(t) PROVE PendingIds'
  <2>1. /\ Alone(t) /\ tx'[t].log = {NewLogRow(t)} /\ log' = log /\ logIds' = logIds + 1
        /\ NewLogRow(t).id = logIds + 1
    BY <1>0, <1>8, WriteLogDoes DEF WriteLog, NewLogRow
  <2>2. \A l \in log : l.id <= logIds' /\ l.id < logIds'
    BY <1>a, <1>b, <2>1 DEF PendingIds
  <2>3. ASSUME NEW u \in Sessions, NEW p \in tx'[u].log
        PROVE  0 < p.id /\ p.id <= logIds' /\ \A l \in log : l.id < p.id
    <3>1. CASE u = t
      BY <1>a, <2>1, <2>2, <2>3, <3>1
    <3>2. CASE u # t
      <4>1. p \in tx[u].log /\ p.id \in Nat
        BY <1>0, <2>1, <2>3, <3>2, SessionType DEF Alone, Session, LogRow
      <4>2. QED
        BY <1>a, <4>1 DEF PendingIds
    <3>3. QED
      BY <3>1, <3>2
  <2>4. QED
    BY <2>1, <2>2, <2>3 DEF PendingIds
<1>9. ASSUME NEW t \in Sessions, Commit(t) PROVE PendingIds'
  <2>1. Alone(t) /\ tx'[t].log = {} /\ log' = log \cup tx[t].log /\ logIds' = logIds
    BY <1>0, <1>9, CommitDoes DEF sequences
  <2>2. \A u \in Sessions \ {t} : tx[u].log = {}
    BY <1>0, <1>9, CommitterAlone DEF RowsOfTheGateway
  <2>3. \A u \in Sessions : tx'[u].log = {}
    BY <2>1, <2>2 DEF Alone
  <2>4. QED
    BY <2>1, <2>3 DEF PendingIds
<1>10. CASE UNCHANGED <<sequences, tables, tx>>
  BY <1>1, <1>10
<1>11. QED
  BY <1>2, <1>3, <1>4, <1>5, <1>6, <1>7, <1>8, <1>9, <1>10, StepKinds

-----------------------------------------------------------------------------
(* The tables stay finite. *)

LEMMA FiniteTablesStep ==
  InductiveInv /\ FiniteTables /\ [Next]_vars => FiniteTables'
<1> SUFFICES ASSUME InductiveInv, FiniteTables, [Next]_vars PROVE FiniteTables'
  OBVIOUS
<1>0. TypeOK /\ SessionShape /\ WriteSets
  BY DEF InductiveInv
<1>1. CASE <<reports, log>>' = <<reports, log>>
  <2>1. Stored' = Stored
    BY <1>1 DEF Stored
  <2>2. QED
    BY <1>1, <2>1 DEF FiniteTables
<1>2. CASE <<reports, log>>' # <<reports, log>>
  <2>1. PICK t \in Sessions : Commit(t)
    BY <1>0, <1>2, TablesChangeAtCommit
  <2>2. PICK e \in tx[t].log : tx[t].log = {e}
    BY <1>0, <2>1, CommitDoes DEF SessionShape, Shape
  <2>3. reports' = View(t) /\ log' = log \cup {e}
    BY <1>0, <2>1, <2>2, CommitDoes
  <2>4. Stored' \subseteq Stored \cup Uncommitted(t)
    BY <2>3 DEF Stored, Uncommitted, View
  <2>5. IsFiniteSet(Stored \cup Uncommitted(t))
    BY <1>0, FS_Union DEF FiniteTables, WriteSets, WriteSet
  <2>6. IsFiniteSet(Stored') /\ IsFiniteSet(log')
    BY <2>3, <2>4, <2>5, FS_Subset, FS_AddElement DEF FiniteTables
  <2>7. QED
    BY <2>6 DEF FiniteTables
<1>3. QED
  BY <1>1, <1>2

-----------------------------------------------------------------------------
(* Readers. *)

\* To the pushes, a reader's step is a stuttering step.
LEMMA ReadersStep ==
  ASSUME [SyncNext]_syncVars
  PROVE  /\ [Next]_vars
         /\ \/ UNCHANGED <<cursor, replica, audit>>
            \/ UNCHANGED vars /\ ((\E g \in Readers : Pull(g)) \/ \E a \in Admins : Conflicts(a))
  BY DEF SyncNext, syncVars, Pull, Conflicts

\* The cursor a pull returns: the greatest sequence id on the page.
LEMMA MaxIsGreatest ==
  ASSUME TypeOK, SequenceIdsOwned, NEW since \in Nat, since <= seq,
         NEW page \in SUBSET Stored
  PROVE  LET n == MaxSequenceId(page, since)
         IN  /\ n \in Nat /\ since <= n /\ n <= seq
             /\ n = since \/ \E y \in page : n = reports[y].seq
<1> DEFINE S == {since} \cup {reports[x].seq : x \in page}
<1>1. \A x \in page : reports[x].seq \in TableSeqs
  BY DEF Stored, TableSeqs
<1>2. \A x \in page : reports[x].seq \in Nat /\ reports[x].seq <= seq
  BY <1>1, SeqTypes DEF SequenceIdsOwned
<1>3. S \in SUBSET Nat /\ S # {} /\ (\A n \in S : n <= seq) /\ seq \in Nat
  BY <1>2 DEF TypeOK
<1>4. \E n \in S : \A m \in S : m <= n
  BY <1>3, Greatest
<1>5. \E n \in S : n >= since /\ \A x \in page : n >= reports[x].seq
  <2>1. PICK n \in S : \A m \in S : m <= n
    BY <1>4
  <2>2. since <= n /\ \A x \in page : reports[x].seq <= n
    BY <2>1
  <2>3. n \in Nat
    BY <1>3
  <2>4. QED
    BY <1>2, <2>2, <2>3
<1>6. /\ MaxSequenceId(page, since) \in S
      /\ MaxSequenceId(page, since) >= since
  BY <1>5 DEF MaxSequenceId
<1>7. QED
  BY <1>3, <1>6

LEMMA PageOfStored == ASSUME NEW since PROVE Page(since) \in SUBSET Stored
  BY DEF Page, Stored

\* Every row after since that is not on the page comes after the rows on it.
LEMMA PageComplete ==
  ASSUME TypeOK, FiniteTables, NEW since \in Nat, NEW x \in Stored \ Page(since),
         since < reports[x].seq, NEW y \in Page(since)
  PROVE  reports[y].seq < reports[x].seq
<1> SUFFICES ASSUME reports[x].seq <= reports[y].seq PROVE FALSE
  <2>1. x \in Ids /\ reports[x] # NoRow /\ y \in Ids /\ reports[y] # NoRow
    BY PageOfStored DEF Stored
  <2>2. reports[x].seq \in Nat /\ reports[y].seq \in Nat
    BY <2>1 DEF TypeOK, Row
  <2>3. QED
    BY <2>2
<1>1. \A z \in Stored : z \in Ids /\ reports[z] # NoRow /\ reports[z].seq \in Nat
  BY DEF Stored, TypeOK, Row
<1>2. y \in Stored /\ Cardinality(UpTo(y, since)) <= PageLimit
  BY PageOfStored DEF Page
<1>3. UpTo(x, since) \subseteq UpTo(y, since) /\ UpTo(y, since) \subseteq Stored
  BY <1>1, <1>2 DEF UpTo, Stored
<1>4. /\ IsFiniteSet(UpTo(y, since)) /\ IsFiniteSet(UpTo(x, since))
      /\ Cardinality(UpTo(x, since)) <= Cardinality(UpTo(y, since))
  BY <1>3, FS_Subset DEF FiniteTables
<1>5. Cardinality(UpTo(x, since)) <= PageLimit
  BY <1>2, <1>4, FS_CardinalityType, PageHoldsARow
<1>6. QED
  BY <1>1, <1>5 DEF Page

LEMMA GreatestId ==
  ASSUME NEW A \in SUBSET LogRow, NEW b \in Nat, \A l \in A : l.id <= b
  PROVE  LET n == CHOOSE n \in {0} \cup {l.id : l \in A} : \A l \in A : l.id <= n
         IN  /\ n \in Nat /\ \A l \in A : l.id <= n
             /\ n = 0 \/ \E l \in A : n = l.id
<1> DEFINE S == {0} \cup {l.id : l \in A}
<1>1. \A l \in A : l.id \in Nat
  BY DEF LogRow
<1>2. S \in SUBSET Nat /\ S # {} /\ \A n \in S : n <= b
  BY <1>1
<1>3. PICK n \in S : \A m \in S : m <= n
  BY <1>2, Greatest
<1>4. \A l \in A : l.id <= n
  BY <1>3
<1>5. QED
  BY <1>1, <1>3, <1>4

\* The same for a page of the log.
LEMMA EntriesComplete ==
  ASSUME TypeOK, FiniteTables, NEW since \in Nat, NEW l \in log \ Entries(since),
         since < l.id, NEW m \in Entries(since)
  PROVE  m.id < l.id
<1> SUFFICES ASSUME l.id <= m.id PROVE FALSE
  BY DEF TypeOK, LogRow, Entries
<1> DEFINE Before(e) == {k \in log : since < k.id /\ k.id <= e.id}
<1>1. \A k \in log : k.id \in Nat
  BY DEF TypeOK, LogRow
<1>2. m \in log /\ Cardinality(Before(m)) <= PageLimit
  BY DEF Entries
<1>3. Before(l) \subseteq Before(m) /\ Before(m) \subseteq log
  BY <1>1, <1>2
<1>4. /\ IsFiniteSet(Before(m)) /\ IsFiniteSet(Before(l))
      /\ Cardinality(Before(l)) <= Cardinality(Before(m))
  BY <1>3, FS_Subset DEF FiniteTables
<1>5. Cardinality(Before(l)) <= PageLimit
  <2> HIDE DEF Before
  <2>1. QED
    BY <1>2, <1>4, FS_CardinalityType, PageHoldsARow
<1>6. QED
  BY <1>1, <1>5 DEF Entries

LEMMA PullDoes ==
  ASSUME TypeOK, SyncTypeOK, SequenceIdsOwned, ReadersInRange, NEW g \in Readers, Pull(g)
  PROVE  LET page == Page(cursor[g])
         IN  /\ UNCHANGED <<vars, audit>>
             /\ cursor[g] \in Nat /\ cursor[g] <= seq
             /\ cursor'[g] \in Nat /\ cursor'[g] <= seq
             /\ cursor'[g] = cursor[g] \/ \E y \in page : cursor'[g] = reports[y].seq
             /\ cursor' = [cursor EXCEPT ![g] = cursor'[g]]
             /\ \A x \in Ids : replica'[g][x] = IF x \in page THEN reports[x] ELSE replica[g][x]
             /\ \A h \in Readers \ {g} : replica'[h] = replica[h] /\ cursor'[h] = cursor[h]
<1>1. cursor \in [Readers -> Nat] /\ cursor[g] \in Nat /\ cursor[g] <= seq
  BY DEF SyncTypeOK, ReadersInRange
<1>2. cursor'[g] = MaxSequenceId(Page(cursor[g]), cursor[g])
  BY <1>1 DEF Pull
<1>3. /\ cursor'[g] \in Nat /\ cursor'[g] <= seq
      /\ cursor'[g] = cursor[g] \/ \E y \in Page(cursor[g]) : cursor'[g] = reports[y].seq
  BY <1>1, <1>2, MaxIsGreatest, PageOfStored
<1>4. cursor' = [cursor EXCEPT ![g] = cursor'[g]]
  BY <1>1, <1>2 DEF Pull
<1>5. \A x \in Ids : replica'[g][x] = IF x \in Page(cursor[g]) THEN reports[x] ELSE replica[g][x]
  BY DEF Pull, SyncTypeOK
<1>6. \A h \in Readers \ {g} : replica'[h] = replica[h] /\ cursor'[h] = cursor[h]
  BY <1>1 DEF Pull, SyncTypeOK
<1>7. UNCHANGED <<vars, audit>>
  BY DEF Pull
<1>8. QED
  BY <1>1, <1>3, <1>4, <1>5, <1>6, <1>7

LEMMA ConflictsDo ==
  ASSUME SyncTypeOK, NEW a \in Admins, Conflicts(a)
  PROVE  /\ UNCHANGED <<vars, cursor, replica>>
         /\ audit'[a] = audit[a] \cup Entries(SinceId(a))
         /\ \A b \in Admins \ {a} : audit'[b] = audit[b]
         /\ audit' \in [Admins -> SUBSET LogRow]
<1>1. /\ UNCHANGED <<vars, cursor, replica>>
      /\ audit' = [audit EXCEPT ![a] = @ \cup Entries(SinceId(a))]
  BY DEF Conflicts
<1>2. Entries(SinceId(a)) \subseteq LogRow
  BY DEF Entries, SyncTypeOK, TypeOK
<1>3. audit \in [Admins -> SUBSET LogRow]
  BY DEF SyncTypeOK
<1> DEFINE page == Entries(SinceId(a))
<1> HIDE DEF page
<1>4. audit' = [audit EXCEPT ![a] = @ \cup page] /\ page \subseteq LogRow
  BY <1>1, <1>2 DEF page
<1>5. audit'[a] = audit[a] \cup page /\ \A b \in Admins \ {a} : audit'[b] = audit[b]
  BY <1>3, <1>4
<1>6. audit' \in [Admins -> SUBSET LogRow]
  BY <1>3, <1>4
<1>7. QED
  BY <1>1, <1>5, <1>6 DEF page

LEMMA TypeUnchanged == TypeOK /\ UNCHANGED vars => TypeOK'
  BY DEF TypeOK, vars

LEMMA ReadersTypeStep ==
  InductiveInv /\ SyncTypeOK /\ ReadersInRange /\ TypeOK' /\ [SyncNext]_syncVars
    => SyncTypeOK' /\ ReadersInRange'
<1> SUFFICES ASSUME InductiveInv, SyncTypeOK, ReadersInRange, TypeOK', [SyncNext]_syncVars
             PROVE  SyncTypeOK' /\ ReadersInRange'
  OBVIOUS
<1>0. TypeOK /\ SequenceIdsOwned /\ [Next]_vars
  BY ReadersStep DEF InductiveInv
<1>1. CASE UNCHANGED <<cursor, replica, audit>>
  <2>1. seq' \in Nat /\ seq <= seq' /\ seq \in Nat /\ log \subseteq log'
    BY <1>0, SeqGrows, LogGrows DEF TypeOK
  <2>2. \A g \in Readers : cursor[g] \in Nat /\ cursor[g] <= seq
    BY DEF SyncTypeOK, ReadersInRange
  <2>3. \A g \in Readers : cursor'[g] <= seq'
    BY <1>1, <2>1, <2>2
  <2>4. \A a \in Admins : audit'[a] \subseteq log'
    BY <1>1, <2>1 DEF ReadersInRange
  <2>5. QED
    BY <1>1, <2>3, <2>4 DEF SyncTypeOK, ReadersInRange
<1>2. ASSUME NEW g \in Readers, Pull(g) PROVE SyncTypeOK' /\ ReadersInRange'
  <2>1. /\ UNCHANGED <<seq, log, reports, audit>>
        /\ cursor' = [cursor EXCEPT ![g] = cursor'[g]]
        /\ cursor'[g] \in Nat /\ cursor'[g] <= seq
        /\ \A h \in Readers \ {g} : cursor'[h] = cursor[h]
    BY <1>0, <1>2, PullDoes DEF vars
  <2>2. cursor' \in [Readers -> Nat]
    BY <2>1 DEF SyncTypeOK
  <2>3. replica' \in [Readers -> [Ids -> Row \cup {NoRow}]]
    <3> DEFINE new == [x \in Ids |-> IF x \in Page(cursor[g]) THEN reports[x] ELSE replica[g][x]]
    <3>1. new \in [Ids -> Row \cup {NoRow}]
      BY DEF SyncTypeOK, TypeOK
    <3>2. replica' = [replica EXCEPT ![g] = new]
      BY <1>2 DEF Pull
    <3> HIDE DEF new
    <3>3. QED
      BY <3>1, <3>2 DEF SyncTypeOK
  <2>4. \A h \in Readers : cursor'[h] <= seq'
    BY <2>1 DEF ReadersInRange
  <2>5. QED
    BY <2>1, <2>2, <2>3, <2>4 DEF SyncTypeOK, ReadersInRange
<1>3. ASSUME NEW a \in Admins, Conflicts(a) PROVE SyncTypeOK' /\ ReadersInRange'
  <2>1. /\ UNCHANGED <<seq, log, cursor, replica>>
        /\ audit'[a] = audit[a] \cup Entries(SinceId(a))
        /\ \A b \in Admins \ {a} : audit'[b] = audit[b]
        /\ audit' \in [Admins -> SUBSET LogRow]
    BY <1>3, ConflictsDo DEF vars
  <2>2. Entries(SinceId(a)) \subseteq log
    BY DEF Entries
  <2>3. \A b \in Admins : audit'[b] \subseteq log
    BY <2>1, <2>2 DEF ReadersInRange
  <2>4. QED
    BY <2>1, <2>3 DEF SyncTypeOK, ReadersInRange
<1>4. QED
  BY <1>1, <1>2, <1>3, ReadersStep

LEMMA ReadersBehindStep ==
  InductiveInv /\ SyncTypeOK /\ ReadersInRange /\ OneGateway /\ OneGatewayInv /\ ReadersBehind
    /\ [SyncNext]_syncVars => ReadersBehind'
<1> SUFFICES ASSUME InductiveInv, SyncTypeOK, ReadersInRange, OneGateway, OneGatewayInv,
                    ReadersBehind, [SyncNext]_syncVars,
                    NEW h \in Readers, NEW t \in Sessions, tx'[t].locked,
                    NEW n \in SeqsOf(t)'
             PROVE  cursor'[h] < n
  BY DEF ReadersBehind
<1>0. TypeOK /\ SequenceIdsOwned /\ [Next]_vars /\ seq \in Nat
      /\ cursor[h] \in Nat /\ cursor[h] <= seq
  BY ReadersStep DEF InductiveInv, TypeOK, SyncTypeOK, ReadersInRange
<1>1. CASE cursor' = cursor
  <2>1. (tx[t].locked /\ n \in SeqsOf(t)) \/ n = seq + 1
    BY <1>0, HolderSeqs
  <2>2. QED
    BY <1>0, <1>1, <2>1 DEF ReadersBehind
<1>2. ASSUME NEW g \in Readers, Pull(g) PROVE cursor'[h] < n
  <2>1. /\ UNCHANGED <<reports, log, tx>>
        /\ cursor'[g] = cursor[g] \/ \E y \in Page(cursor[g]) : cursor'[g] = reports[y].seq
        /\ h # g => cursor'[h] = cursor[h]
    BY <1>0, <1>2, PullDoes DEF vars
  <2>2. tx[t].locked /\ n \in SeqsOf(t)
    BY <2>1 DEF SeqsOf, RowSeqs, LogSeqs, TakenSeq
  <2>3. \A y \in Page(cursor[g]) : reports[y].seq \in TableSeqs
    BY PageOfStored DEF Stored, TableSeqs
  <2>4. \A m \in TableSeqs : m < n
    BY <2>2 DEF OneGatewayInv, PendingAbove
  <2>5. cursor[h] < n
    BY <2>2 DEF ReadersBehind
  <2>6. QED
    BY <2>1, <2>3, <2>4, <2>5
<1>3. QED
  BY <1>1, <1>2, ReadersStep DEF Conflicts

LEMMA NothingSkippedStep ==
  InductiveInv /\ SyncTypeOK /\ ReadersInRange /\ OneGateway /\ OneGatewayInv /\ ReadersBehind
    /\ NothingSkipped /\ [SyncNext]_syncVars => NothingSkipped'
<1> SUFFICES ASSUME InductiveInv, SyncTypeOK, ReadersInRange, OneGateway, OneGatewayInv,
                    ReadersBehind, NothingSkipped, [SyncNext]_syncVars,
                    NEW h \in Readers, NEW x \in Ids,
                    reports'[x] # NoRow, reports'[x].seq <= cursor'[h]
             PROVE  replica'[h][x] = reports'[x]
  BY DEF NothingSkipped
<1>0. TypeOK /\ SequenceIdsOwned /\ GatewayLocks /\ [Next]_vars /\ cursor[h] \in Nat
  BY ReadersStep DEF InductiveInv, SyncTypeOK
<1>1. CASE UNCHANGED <<cursor, replica>>
  <2>1. CASE reports'[x] = reports[x]
    BY <1>1, <2>1 DEF NothingSkipped
  <2>2. CASE reports'[x] # reports[x]
    <3>1. PICK t \in Sessions : Commit(t)
      BY <1>0, <2>2, ReportsChangeAtCommit
    <3>2. x \in Uncommitted(t) /\ reports'[x] = tx[t].writes[x]
      BY <2>2, <3>1 DEF Commit, View, Uncommitted
    <3>3. reports'[x].seq \in SeqsOf(t)
      BY <3>2 DEF SeqsOf, RowSeqs, Uncommitted
    <3>4. tx[t].locked
      BY <3>2 DEF OneGatewayInv, RowsOfTheGateway
    <3>5. cursor[h] < reports'[x].seq /\ reports'[x].seq \in Nat
      BY <1>0, <3>3, <3>4, SeqTypes DEF ReadersBehind
    <3>6. QED
      BY <1>0, <1>1, <3>5
  <2>3. QED
    BY <2>1, <2>2
<1>2. ASSUME NEW g \in Readers, Pull(g) PROVE replica'[h][x] = reports'[x]
  <2>1. /\ reports' = reports /\ cursor[g] \in Nat
        /\ cursor'[g] = cursor[g] \/ \E y \in Page(cursor[g]) : cursor'[g] = reports[y].seq
        /\ h # g => cursor'[h] = cursor[h] /\ replica'[h] = replica[h]
        /\ replica'[g][x] = IF x \in Page(cursor[g]) THEN reports[x] ELSE replica[g][x]
    BY <1>0, <1>2, PullDoes DEF vars
  <2>2. CASE h # g
    BY <2>1, <2>2 DEF NothingSkipped
  <2>3. CASE h = g /\ x \in Page(cursor[g])
    BY <2>1, <2>3
  <2>4. CASE h = g /\ x \notin Page(cursor[g])
    <3>1. reports[x].seq \in Nat /\ x \in Stored
      BY <2>1 DEF Stored, InductiveInv, TypeOK, Row
    <3>2. ~(cursor[g] < reports[x].seq)
      <4> SUFFICES ASSUME cursor[g] < reports[x].seq PROVE FALSE
        OBVIOUS
      <4>1. PICK y \in Page(cursor[g]) : cursor'[g] = reports[y].seq
        BY <2>1, <2>4, <3>1
      <4>2. reports[y].seq < reports[x].seq /\ reports[y].seq \in Nat
        BY <1>0, <2>1, <2>4, <3>1, PageComplete, PageOfStored
        DEF OneGatewayInv, Stored, TypeOK, Row
      <4>3. QED
        BY <2>1, <2>4, <3>1, <4>1, <4>2
    <3>3. reports[x].seq <= cursor[g]
      BY <2>1, <3>1, <3>2
    <3>4. QED
      BY <2>1, <2>4, <3>3 DEF NothingSkipped
  <2>5. QED
    BY <2>2, <2>3, <2>4
<1>3. QED
  BY <1>1, <1>2, ReadersStep DEF Conflicts

LEMMA NoEntrySkippedStep ==
  InductiveInv /\ SyncTypeOK /\ ReadersInRange /\ OneGatewayInv /\ NoEntrySkipped
    /\ PendingIds' /\ SyncTypeOK' /\ ReadersInRange' /\ [SyncNext]_syncVars
    => NoEntrySkipped'
<1> SUFFICES ASSUME InductiveInv, SyncTypeOK, ReadersInRange, OneGatewayInv, NoEntrySkipped,
                    PendingIds', SyncTypeOK', ReadersInRange', [SyncNext]_syncVars,
                    NEW b \in Admins, NEW l \in log', l.id <= SinceId(b)'
             PROVE  l \in audit'[b]
  BY DEF NoEntrySkipped
<1>0. TypeOK /\ SessionShape /\ [Next]_vars /\ PendingIds /\ FiniteTables
  BY ReadersStep DEF InductiveInv, OneGatewayInv
<1>1. /\ SinceId(b) \in Nat /\ \A m \in audit[b] : m.id <= SinceId(b)
      /\ SinceId(b) = 0 \/ \E m \in audit[b] : SinceId(b) = m.id
  <2>1. /\ audit[b] \in SUBSET LogRow /\ logIds \in Nat
        /\ \A m \in audit[b] : m.id <= logIds
    BY <1>0 DEF SyncTypeOK, TypeOK, ReadersInRange, PendingIds
  <2>2. QED
    BY <2>1, GreatestId DEF SinceId
<1>2. /\ SinceId(b)' \in Nat
      /\ SinceId(b)' = 0 \/ \E m \in audit'[b] : SinceId(b)' = m.id
  <2>1. /\ audit'[b] \in SUBSET LogRow /\ logIds' \in Nat
        /\ \A m \in audit'[b] : m.id <= logIds'
    BY DEF SyncTypeOK, TypeOK, ReadersInRange, PendingIds
  <2>2. QED
    BY <2>1, GreatestId DEF SinceId
<1>3. l.id \in Nat /\ \A m \in log : m.id \in Nat
  BY <1>0 DEF SyncTypeOK, TypeOK, LogRow
<1>4. CASE audit' = audit
  <2>1. SinceId(b)' = SinceId(b)
    BY <1>4 DEF SinceId
  <2>2. CASE l \in log
    BY <1>4, <2>1, <2>2 DEF NoEntrySkipped
  <2>3. CASE l \notin log
    <3>1. PICK t \in Sessions : Commit(t)
      BY <1>0, <2>3, TablesChangeAtCommit
    <3>2. l \in tx[t].log
      BY <1>0, <2>3, <3>1, CommitDoes
    <3>3. 0 < l.id /\ \A m \in log : m.id < l.id
      BY <1>0, <3>2 DEF PendingIds
    <3>4. \A m \in audit[b] : m \in log
      BY DEF ReadersInRange
    <3>5. CASE SinceId(b) = 0
      BY <1>3, <2>1, <3>3, <3>5
    <3>6. ASSUME NEW m \in audit[b], SinceId(b) = m.id PROVE FALSE
      BY <1>3, <2>1, <3>3, <3>4, <3>6
    <3>7. QED
      BY <1>1, <3>5, <3>6
  <2>4. QED
    BY <2>2, <2>3
<1>5. ASSUME NEW a \in Admins, Conflicts(a) PROVE l \in audit'[b]
  <2> DEFINE page == Entries(SinceId(b))
  <2>1. /\ log' = log
        /\ b = a => audit'[b] = audit[b] \cup page
        /\ b # a => audit'[b] = audit[b]
    BY <1>5, ConflictsDo DEF vars
  <2>2. CASE b # a
    BY <2>1, <2>2 DEF NoEntrySkipped, SinceId
  <2>3. CASE b = a
    <3> SUFFICES ASSUME l \notin audit[b], l \notin page PROVE FALSE
      BY <2>1, <2>3
    <3>1. SinceId(b) < l.id
      BY <1>1, <1>3, <2>1 DEF NoEntrySkipped
    <3>2. PICK m \in audit'[b] : SinceId(b)' = m.id
      BY <1>1, <1>2, <1>3, <3>1
    <3>3. m \in log /\ m.id \in Nat
      BY <1>3, <2>1 DEF ReadersInRange
    <3>4. m \in page
      BY <1>1, <1>3, <2>1, <2>3, <3>1, <3>2, <3>3
    <3>5. m.id < l.id
      BY <1>0, <1>1, <2>1, <3>1, <3>4, EntriesComplete
    <3>6. QED
      BY <1>3, <3>2, <3>3, <3>5
  <2>4. QED
    BY <2>2, <2>3
<1>6. QED
  BY <1>4, <1>5, ReadersStep DEF Pull

-----------------------------------------------------------------------------
(* One row per segment. *)

\* While somebody holds the lock the tables do not change.
LEMMA HolderStable ==
  ASSUME InductiveInv, OneGateway, [Next]_vars, NEW u \in Sessions, tx'[u].locked
  PROVE  reports' = reports /\ log' = log
<1>1. TypeOK /\ GatewayLocks
  BY DEF InductiveInv
<1>2. ASSUME NEW t \in Sessions, Commit(t) PROVE FALSE
  BY <1>1, <1>2, NobodyLocksAfterCommit
<1>3. QED
  BY <1>1, <1>2, TablesChangeAtCommit

\* What brings a session to a state in which it holds the lock.
LEMMA HolderKinds ==
  ASSUME InductiveInv, [Next]_vars, NEW u \in Sessions, tx'[u].locked
  PROVE  \/ tx'[u] = tx[u]
         \/ SkipItem(u) \/ ReadItem(u) \/ TouchGateway(u) \/ NextValue(u)
         \/ NextLogValue(u) \/ WriteItem(u) \/ WriteLog(u)
<1>0. TypeOK /\ SessionShape
  BY DEF InductiveInv
<1>1. ASSUME NEW t \in Sessions, NEW r \in Requests, Begin(t, r) PROVE tx'[u] = tx[u]
  BY <1>0, <1>1, BeginDoes DEF Alone, Bare
<1>2. ASSUME NEW t \in Sessions, Resets(t) PROVE tx'[u] = tx[u]
  BY <1>0, <1>2, ResetsDo DEF Alone, Bare
<1>3. ASSUME NEW t \in Sessions, Commit(t) PROVE tx'[u] = tx[u]
  BY <1>0, <1>3, CommitDoes DEF Alone
<1>4. ASSUME NEW t \in Sessions, Moves(t) PROVE tx'[u] = tx[u] \/ SkipItem(u) \/ ReadItem(u)
  <2>1. CASE u # t
    BY <1>0, <1>4, <2>1, MovesDo DEF Alone
  <2>2. ASSUME u = t, FindReplay(t) \/ FindNoReplay(t) PROVE FALSE
    <3>1. ~tx[t].locked
      BY <1>0, <2>2 DEF SessionShape, Shape, Working, FindReplay, FindNoReplay
    <3>2. tx'[t].locked = tx[t].locked
      BY <1>0, <1>4, MovesDo
    <3>3. QED
      BY <2>2, <3>1, <3>2
  <2>3. QED
    BY <1>4, <2>1, <2>2 DEF Moves
<1>5. ASSUME NEW t \in Sessions, TouchGateway(t) \/ NextValue(t) \/ NextLogValue(t)
      PROVE  tx'[u] = tx[u] \/ u = t
  BY <1>0, <1>5, TouchGatewayDoes, NextValuesDo DEF Alone
<1>6. ASSUME NEW t \in Sessions, WriteItem(t) \/ WriteLog(t) PROVE tx'[u] = tx[u] \/ u = t
  BY <1>0, <1>6, WriteItemDoes, WriteLogDoes DEF Alone
<1>7. QED
  BY <1>1, <1>2, <1>3, <1>4, <1>5, <1>6, StepKinds

\* The decision on an item that goes by segment, where there is one row for it at most.
LEMMA DecisionBySegment ==
  ASSUME NEW table \in [Ids -> Row \cup {NoRow}], NEW item \in Item, NEW gw,
         OneRowEach(table), BySegment(item)
  PROVE  LET same == Matching(table, item.kind, item.seg)
             d == Decision(table, item, gw)
         IN  /\ d.action = "insert" => same = {} /\ d.id = item.id
             /\ d.action # "insert" => d.id \in same
             /\ d.action = "noop" =>
                  \/ BlockedByTombstone(item, table[d.id])
                  \/ ~IncomingBeatsExistingRow(item, gw, d.id, table[d.id])
<1> DEFINE same == Matching(table, item.kind, item.seg)
           found == Found(table, item)
<1>1. item.kind \in {"road", "supply"} /\ item.seg \in Segs /\ item.kind # "sos"
  BY DEF BySegment, Item, Kinds
<1>2. found = Canonical(table, item.kind, item.seg) /\ found \subseteq same
  BY DEF Found, Canonical, Matching
<1>3. \A x, y \in same : x = y
  BY <1>1 DEF OneRowEach
<1>4. \A x \in same : table[x] # NoRow /\ table[x].seq \in Nat
  BY DEF Matching, Row
<1>5. same \subseteq found
  BY <1>2, <1>3, <1>4 DEF Canonical, Matching
<1>6. CASE found = {}
  <2>1. Decision(table, item, gw) = [action |-> "insert", id |-> item.id]
    BY <1>1, <1>6 DEF Decision, DecideRoadLikeMerge
  <2>2. same = {}
    BY <1>5, <1>6
  <2>3. QED
    BY <2>1, <2>2
<1>7. CASE found # {}
  <2> DEFINE x == CHOOSE y \in found : TRUE
  <2>1. x \in found /\ x \in same
    BY <1>2, <1>7
  <2>2. Decision(table, item, gw) = DecideRoadLikeMerge(item, gw, x, table[x])
    BY <1>1, <1>7 DEF Decision
  <2>3. table[x] # NoRow
    BY <1>4, <2>1
  <2> HIDE DEF x
  <2>4. Decision(table, item, gw) \in {[action |-> "update", id |-> x], [action |-> "noop", id |-> x]}
    BY <2>2, <2>3 DEF DecideRoadLikeMerge
  <2>5. Decision(table, item, gw).action = "noop" =>
          \/ BlockedByTombstone(item, table[x])
          \/ ~IncomingBeatsExistingRow(item, gw, x, table[x])
    BY <2>2, <2>3 DEF DecideRoadLikeMerge
  <2>6. QED
    BY <2>1, <2>4, <2>5
<1>8. QED
  BY <1>6, <1>7

\* What session t sees after it has written an item.
LEMMA ViewWritten ==
  ASSUME TypeOK, SessionShape, NEW t \in Sessions, WriteItem(t)
  PROVE  /\ reports' = reports /\ tx'[t].pc = "item"
         /\ tx'[t].req = tx[t].req /\ tx'[t].locked = tx[t].locked /\ tx'[t].i = tx[t].i + 1
         /\ HasItem(t) /\ CurrentItem(t) \in Item /\ tx[t].target \in Ids
         /\ NewRow(t) \in Row /\ NewRow(t) # NoRow
         /\ NewRow(t).kind = CurrentItem(t).kind /\ NewRow(t).seg = CurrentItem(t).seg
         /\ NewRow(t).upd = CurrentItem(t).upd /\ NewRow(t).gw = GatewayOf(t)
         /\ View(t)'[tx[t].target] = NewRow(t)
         /\ \A x \in Ids \ {tx[t].target} : View(t)'[x] = View(t)[x]
<1>1. /\ reports' = reports /\ tx'[t].pc = "item" /\ tx'[t].req = tx[t].req
      /\ tx'[t].locked = tx[t].locked /\ tx'[t].i = tx[t].i + 1
  BY WriteItemDoes, CountersWrite DEF tables
<1>2. /\ HasItem(t) /\ tx[t].target \in Ids /\ NewRow(t) # NoRow
      /\ tx'[t].writes[tx[t].target] = NewRow(t)
      /\ \A x \in Ids \ {tx[t].target} : tx'[t].writes[x] = tx[t].writes[x]
  BY NewRowIsRow
<1>3. CurrentItem(t) \in Item /\ GatewayOf(t) \in Gateways /\ tx[t].seq \in Nat
  BY <1>2, CurrentItemType, SessionType DEF Session
<1>4. NewRow(t) \in Row
  BY <1>3, StoredRowType DEF NewRow
<1>5. /\ NewRow(t).kind = CurrentItem(t).kind /\ NewRow(t).seg = CurrentItem(t).seg
      /\ NewRow(t).upd = CurrentItem(t).upd /\ NewRow(t).gw = GatewayOf(t)
  BY DEF NewRow, StoredRow
<1>6. /\ View(t)'[tx[t].target] = NewRow(t)
      /\ \A x \in Ids \ {tx[t].target} : View(t)'[x] = View(t)[x]
  BY <1>1, <1>2 DEF View
<1>7. QED
  BY <1>1, <1>2, <1>3, <1>4, <1>5, <1>6

LEMMA SegmentsWritten ==
  ASSUME TypeOK, SessionShape, NEW t \in Sessions, WriteItem(t), tx[t].locked,
         SegmentsInHand(t)
  PROVE  OneRowEach(View(t)')
<1> DEFINE w == tx[t].target
           item == CurrentItem(t)
<1>1. /\ w \in Ids /\ NewRow(t) # NoRow
      /\ NewRow(t).kind = item.kind /\ NewRow(t).seg = item.seg
      /\ View(t)'[w] = NewRow(t)
      /\ \A x \in Ids \ {w} : View(t)'[x] = View(t)[x]
      /\ tx[t].pc = "write"
  BY ViewWritten, WriteItemDoes
<1>2. /\ OneRowEach(View(t))
      /\ BySegment(item) =>
           LET same == Matching(View(t), item.kind, item.seg)
           IN  IF tx[t].action = "insert" THEN same = {} ELSE w \in same
  BY <1>1 DEF SegmentsInHand
<1> SUFFICES ASSUME NEW kind \in {"road", "supply"}, NEW seg \in Segs,
                    NEW x \in Matching(View(t)', kind, seg),
                    NEW y \in Matching(View(t)', kind, seg)
             PROVE  x = y
  BY DEF OneRowEach
<1>3. \A z \in Matching(View(t)', kind, seg) : z = w \/ z \in Matching(View(t), kind, seg)
  BY <1>1 DEF Matching
<1>4. w \in Matching(View(t)', kind, seg) =>
        BySegment(item) /\ kind = item.kind /\ seg = item.seg
  BY <1>1, NoSegIsNoSegment DEF Matching, BySegment
<1> HIDE DEF w, item
<1>5. \A a, b \in Matching(View(t), kind, seg) : a = b
  BY <1>2 DEF OneRowEach
<1>6. CASE w \in Matching(View(t)', kind, seg)
  <2>1. \A z \in Matching(View(t), kind, seg) : z = w
    BY <1>2, <1>4, <1>5, <1>6
  <2>2. QED
    BY <1>3, <2>1
<1>7. CASE w \notin Matching(View(t)', kind, seg)
  BY <1>3, <1>5, <1>7
<1>8. QED
  BY <1>6, <1>7

\* The plan of a session that has read a row of the segment, or none.
LEMMA SegmentRead ==
  ASSUME TypeOK, NEW t \in Sessions, ReadItem(t), tx[t].locked, SegmentsInHand(t)
  PROVE  SegmentsInHand(t)'
<1> DEFINE item == CurrentItem(t)
           d == Decision(View(t), item, GatewayOf(t))
<1>0. tx[t] \in Session
  BY SessionType
<1>1. /\ tx'[t] = [tx[t] EXCEPT !.pc = "nextval", !.action = d.action, !.target = d.id]
      /\ HasItem(t) /\ reports' = reports /\ d.action # "noop"
  BY BecomesOthers DEF ReadItem, tables
<1>2. item \in Item /\ View(t) \in [Ids -> Row \cup {NoRow}] /\ OneRowEach(View(t))
  BY <1>1, CurrentItemType, ViewType DEF SegmentsInHand
<1>3. BySegment(item) =>
        LET same == Matching(View(t), item.kind, item.seg)
        IN  IF d.action = "insert" THEN same = {} ELSE d.id \in same
  BY <1>2, DecisionBySegment
<1> HIDE DEF d
<1>4. /\ tx'[t].action = d.action /\ tx'[t].target = d.id
      /\ tx'[t].req = tx[t].req /\ tx'[t].i = tx[t].i /\ tx'[t].writes = tx[t].writes
  BY <1>0, <1>1 DEF Session
<1>5. View(t)' = View(t) /\ CurrentItem(t)' = item
  BY <1>1, <1>4 DEF View, CurrentItem
<1>6. QED
  BY <1>2, <1>3, <1>4, <1>5 DEF SegmentsInHand

LEMMA OneRowKeptStep ==
  InductiveInv /\ OneGateway /\ RowsOfTheGateway /\ OneRowKept /\ [Next]_vars => OneRowKept'
<1> SUFFICES ASSUME InductiveInv, OneGateway, RowsOfTheGateway, OneRowKept, [Next]_vars
             PROVE  OneRowKept'
  OBVIOUS
<1>0. TypeOK /\ SessionShape /\ GatewayLocks
  BY DEF InductiveInv
<1>1. OneRowEach(reports')
  <2>1. CASE reports' = reports
    BY <2>1 DEF OneRowKept
  <2>2. ASSUME NEW t \in Sessions, Commit(t) PROVE OneRowEach(reports')
    <3>1. tx[t].locked /\ reports' = View(t)
      BY <1>0, <2>2, CommitDoes, CommitterAlone
    <3>2. QED
      BY <3>1 DEF OneRowKept, SegmentsInHand
  <2>3. QED
    BY <1>0, <2>1, <2>2, ReportsChangeAtCommit
<1>2. ASSUME NEW u \in Sessions, tx'[u].locked PROVE SegmentsInHand(u)'
  <2>0. reports' = reports /\ SegmentsInHand(u)
    BY <1>2, HolderStable DEF OneRowKept
  <2>1. ASSUME tx[u].locked, tx'[u].writes = tx[u].writes,
               tx'[u].pc \in {"nextval", "write"} =>
                 /\ tx[u].pc \in {"nextval", "write"}
                 /\ \A f \in {"req", "i", "action", "target"} : tx'[u][f] = tx[u][f]
        PROVE  SegmentsInHand(u)'
    <3>1. View(u)' = View(u) /\ (tx'[u].pc \in {"nextval", "write"} => CurrentItem(u)' = CurrentItem(u))
      BY <2>0, <2>1 DEF View, CurrentItem
    <3>2. QED
      BY <2>0, <2>1, <3>1 DEF SegmentsInHand
  <2>2. CASE tx'[u] = tx[u]
    BY <1>2, <2>1, <2>2
  <2>3. CASE SkipItem(u)
    <3>1. Moves(u) /\ ~ReadItem(u)
      BY <2>3 DEF Moves, SkipItem, ReadItem
    <3>2. QED
      BY <1>0, <1>2, <2>1, <3>1, MovesDo
  <2>4. CASE ReadItem(u)
    <3>1. tx[u].locked
      BY <1>0, <1>2, <2>4, MovesDo DEF Moves
    <3>2. QED
      BY <1>0, <2>0, <2>4, <3>1, SegmentRead
  <2>5. CASE TouchGateway(u)
    <3>1. tx'[u].writes = NoWrites /\ tx'[u].pc = "item"
      BY <1>0, <2>5, TouchGatewayDoes DEF SessionShape, Shape, Working
    <3>2. \A x \in Ids : View(u)'[x] = reports[x]
      BY <2>0, <3>1 DEF View, NoWrites
    <3>3. OneRowEach(View(u)')
      BY <3>2 DEF OneRowKept, OneRowEach, Matching
    <3>4. QED
      BY <3>1, <3>3 DEF SegmentsInHand
  <2>6. CASE NextValue(u)
    BY <1>0, <1>2, <2>1, <2>6, NextValuesDo DEF NextValue
  <2>7. CASE NextLogValue(u)
    <3>1. tx[u].pc = "item"
      BY <2>7 DEF NextLogValue
    <3>2. QED
      BY <1>0, <1>2, <2>1, <2>7, <3>1, NextValuesDo
  <2>8. CASE WriteItem(u)
    <3>1. tx[u].locked /\ tx'[u].pc = "item"
      BY <1>0, <1>2, <2>8, WriteItemDoes
    <3>2. OneRowEach(View(u)')
      BY <1>0, <2>0, <2>8, <3>1, SegmentsWritten
    <3>3. QED
      BY <3>1, <3>2 DEF SegmentsInHand
  <2>9. CASE WriteLog(u)
    BY <1>0, <1>2, <2>1, <2>9, WriteLogDoes
  <2>10. QED
    BY <1>2, <2>2, <2>3, <2>4, <2>5, <2>6, <2>7, <2>8, <2>9, HolderKinds
<1>3. \A u \in Sessions : SegmentsInHand(u)'
  BY <1>2 DEF SegmentsInHand
<1>4. QED
  BY <1>1, <1>3 DEF OneRowKept

-----------------------------------------------------------------------------
(* What was merged stays accounted for. *)

LEMMA AccountsKept ==
  ASSUME NEW old \in Row, NEW new \in Row, NEW item \in Item, NEW gw \in Gateways,
         NotRegressed(old, new), new.gw = old.gw, Accounts(old, item, gw)
  PROVE  Accounts(new, item, gw)
<1>1. /\ old.upd \in Nat /\ new.upd \in Nat /\ item.upd \in Nat
      /\ old.gw \in Nat /\ new.gw \in Nat /\ gw \in Nat
  BY GatewaysAreNumbers DEF Row, Item
<1>2. new.upd >= old.upd /\ (old.tomb => new.tomb)
  BY DEF NotRegressed
<1>3. CASE old.tomb /\ ~IncomingIsTombstone(item)
  BY <1>2, <1>3 DEF Accounts
<1>4. CASE old.upd > item.upd
  <2>1. new.upd > item.upd
    BY <1>1, <1>2, <1>4
  <2>2. QED
    BY <2>1 DEF Accounts
<1>5. CASE old.upd = item.upd /\ old.gw >= gw
  <2>1. new.upd > item.upd \/ (new.upd = item.upd /\ new.gw >= gw)
    BY <1>1, <1>2, <1>5
  <2>2. QED
    BY <2>1 DEF Accounts
<1>6. QED
  BY <1>3, <1>4, <1>5 DEF Accounts

\* Rows that keep their segment go on accounting for the item.
LEMMA AccountedKept ==
  ASSUME NEW old \in [Ids -> Row \cup {NoRow}], NEW new \in [Ids -> Row \cup {NoRow}],
         NEW item \in Item, BySegment(item), NEW gw \in Gateways,
         \A x \in Ids : old[x] # NoRow /\ BySegment(old[x]) =>
           /\ new[x] # NoRow /\ new[x].kind = old[x].kind /\ new[x].seg = old[x].seg
           /\ new[x].gw = old[x].gw /\ NotRegressed(old[x], new[x]),
         AccountedIn(old, item, gw)
  PROVE  AccountedIn(new, item, gw)
<1>1. PICK x \in Matching(old, item.kind, item.seg) : Accounts(old[x], item, gw)
  BY DEF AccountedIn
<1>2. x \in Ids /\ old[x] # NoRow /\ old[x].kind = item.kind /\ old[x].seg = item.seg
  BY <1>1 DEF Matching
<1>3. BySegment(old[x])
  BY <1>2 DEF BySegment
<1>4. /\ new[x] # NoRow /\ new[x].kind = item.kind /\ new[x].seg = item.seg
      /\ new[x].gw = old[x].gw /\ NotRegressed(old[x], new[x])
  BY <1>2, <1>3
<1>5. old[x] \in Row /\ new[x] \in Row
  BY <1>2, <1>4
<1>6. Accounts(new[x], item, gw)
  BY <1>1, <1>4, <1>5, AccountsKept
<1>7. x \in Matching(new, item.kind, item.seg)
  BY <1>2, <1>4 DEF Matching
<1>8. QED
  BY <1>6, <1>7 DEF AccountedIn

LEMMA ItemsOfPushes ==
  ASSUME NEW r \in Requests, NEW j \in DOMAIN Body[r].items
  PROVE  /\ ReceivedItem(r, j) \in Item /\ j \in Nat /\ Body[r].gw \in Gateways
         /\ BySegment(ReceivedItem(r, j)) => ReceivedItem(r, j).id \in SegmentedIds
<1>1. j \in Nat \ {0} /\ j <= Len(Body[r].items)
  BY SentItems
<1>2. ReceivedItem(r, j) \in Item
  BY <1>1, ItemType
<1>3. Body[r].gw \in Gateways
  BY BodyIsPush DEF Push
<1>4. BySegment(ReceivedItem(r, j)) => ReceivedItem(r, j).id \in SegmentedIds
  BY DEF SegmentedIds
<1>5. QED
  BY <1>1, <1>2, <1>3, <1>4

\* Rows that session t sees are of its gateway.
LEMMA SeenRowsAreOwn ==
  ASSUME InductiveInv, RowsOfTheGateway, NEW t \in Sessions, NEW x \in Ids,
         View(t)[x] # NoRow
  PROVE  View(t)[x].gw = GatewayOf(t) /\ View(t)[x] \in Row
<1>0. TypeOK
  BY DEF InductiveInv
<1>1. View(t)[x] \in Row
  BY <1>0, ViewType
<1>2. ASSUME tx[t].writes[x] # NoRow PROVE View(t)[x].gw = GatewayOf(t)
  BY <1>2 DEF InductiveInv, WriteSets, WriteSet, Uncommitted, View
<1>3. ASSUME tx[t].writes[x] = NoRow PROVE View(t)[x].gw = GatewayOf(t)
  BY <1>0, <1>3, SessionType DEF RowsOfTheGateway, View, GatewayOf
<1>4. QED
  BY <1>1, <1>2, <1>3

\* An update of a row that has a segment comes from an item of that segment and is no
\* regression.
LEMMA SegmentUpdated ==
  ASSUME InductiveInv, RowsOfTheGateway, IdsKeepSegment, NEW t \in Sessions, WriteItem(t),
         tx[t].locked, SegmentsInHand(t), ItemsBehind(t),
         View(t)[tx[t].target] # NoRow, BySegment(View(t)[tx[t].target])
  PROVE  LET old == View(t)[tx[t].target]
         IN  /\ NewRow(t).kind = old.kind /\ NewRow(t).seg = old.seg
             /\ NewRow(t).gw = old.gw /\ NotRegressed(old, NewRow(t))
<1> DEFINE w == tx[t].target
           item == CurrentItem(t)
<1>0. TypeOK /\ SessionShape
  BY DEF InductiveInv
<1>1. /\ w \in Ids /\ HasItem(t) /\ item \in Item /\ tx[t].pc = "write"
      /\ NewRow(t).kind = item.kind /\ NewRow(t).seg = item.seg
      /\ NewRow(t).upd = item.upd /\ NewRow(t).gw = GatewayOf(t)
  BY <1>0, ViewWritten, WriteItemDoes
<1>2. tx[t].action = "update"
  BY <1>0, WriteItemDoes, SessionType DEF WriteViolatesConstraint, Session
<1>3. item.kind = View(t)[w].kind /\ item.kind # "sos"
  BY <1>1, <1>2 DEF InductiveInv, UpdatesFitTheirRow, Fits
<1>4. View(t)[w].gw = GatewayOf(t)
  BY <1>1, SeenRowsAreOwn
<1>5. item.upd >= View(t)[w].upd /\ (View(t)[w].tomb => IncomingIsTombstone(item))
  BY <1>1, <1>2, <1>4 DEF InductiveInv, OwnRowsInOrder, KeepsOwnRows
<1>6. BySegment(item)
  <2> SUFFICES ASSUME ~BySegment(item) PROVE FALSE
    OBVIOUS
  <2>1. item.seg = NoSeg
    BY <1>3 DEF BySegment
  <2>2. w = item.id /\ w \in SegmentedIds
    BY <1>1 DEF ItemsBehind, SegmentRowsIn
  <2>3. /\ tx[t].req \in Requests /\ tx[t].i \in DOMAIN Body[tx[t].req].items
        /\ item = ReceivedItem(tx[t].req, tx[t].i)
    BY <1>0, <1>1, SessionType, ItemInHand DEF CurrentItem
  <2> HIDE DEF item, w
  <2>4. item.id \notin SegmentedIds
    BY <1>3, <2>1, <2>3 DEF IdsKeepSegment
  <2>5. QED
    BY <2>2, <2>4
<1>7. w \in Matching(View(t), item.kind, item.seg)
  BY <1>1, <1>2, <1>6 DEF SegmentsInHand
<1>8. item.seg = View(t)[w].seg
  BY <1>7 DEF Matching
<1>9. NewRow(t).tomb = IncomingIsTombstone(item)
  BY <1>3 DEF NewRow, StoredRow, IncomingIsTombstone
<1>10. NotRegressed(View(t)[w], NewRow(t))
  BY <1>1, <1>5, <1>9 DEF NotRegressed
<1>11. QED
  BY <1>1, <1>3, <1>4, <1>8, <1>10

StartsAtOne(t) == tx[t].pc \in {"replay", "gateway"} => tx[t].i = 1

LEMMA StartsAtOneStep ==
  ASSUME TypeOK, [Next]_vars, NEW u \in Sessions, StartsAtOne(u)
  PROVE  StartsAtOne(u)'
<1>1. CASE tx'[u] = tx[u]
  BY <1>1 DEF StartsAtOne
<1>2. CASE tx'[u].i = 1 \/ tx'[u].pc \notin {"replay", "gateway"}
  BY <1>2 DEF StartsAtOne
<1>3. ASSUME NEW t \in Sessions, NEW r \in Requests, Begin(t, r) PROVE StartsAtOne(u)'
  BY <1>1, <1>2, <1>3, BeginDoes, CountersStart DEF Alone
<1>4. ASSUME NEW t \in Sessions, Resets(t) PROVE StartsAtOne(u)'
  BY <1>1, <1>2, <1>4, ResetsDo DEF Alone
<1>5. ASSUME NEW t \in Sessions, Moves(t) PROVE StartsAtOne(u)'
  <2>1. CASE u # t
    BY <1>1, <1>5, <2>1, MovesDo DEF Alone
  <2>2. ASSUME u = t, tx'[t].pc = "gateway" PROVE tx'[u].i = 1
    <3>1. tx[t].pc = "replay"
      BY <1>5, <2>2, MovesDo DEF Working
    <3>2. ~SkipItem(t)
      BY <3>1 DEF SkipItem
    <3>3. QED
      BY <1>5, <2>2, <3>1, <3>2, CountersMove DEF StartsAtOne
  <2>3. tx'[t].pc # "replay"
    BY <1>5, MovesDo
  <2>4. QED
    BY <1>2, <2>1, <2>2, <2>3
<1>6. ASSUME NEW t \in Sessions, TouchGateway(t) \/ NextValue(t) \/ NextLogValue(t)
      PROVE  StartsAtOne(u)'
  BY <1>1, <1>2, <1>6, TouchGatewayDoes, NextValuesDo DEF Alone
<1>7. ASSUME NEW t \in Sessions, WriteItem(t) \/ WriteLog(t) \/ Commit(t)
      PROVE  StartsAtOne(u)'
  BY <1>1, <1>2, <1>7, WriteItemDoes, WriteLogDoes, CommitDoes DEF Alone
<1>8. QED
  BY <1>1, <1>3, <1>4, <1>5, <1>6, <1>7, StepKinds

LEMMA BehindKept ==
  ASSUME NEW u, ItemsBehind(u), StartsAtOne(u)', tx[u].locked, reports' = reports,
         \A f \in {"writes", "req", "i"} : tx'[u][f] = tx[u][f],
         tx'[u].pc \in {"nextval", "write"} =>
           /\ tx[u].pc \in {"nextval", "write"}
           /\ tx'[u].action = tx[u].action /\ tx'[u].target = tx[u].target
  PROVE  ItemsBehind(u)'
<1>1. /\ View(u)' = View(u) /\ CurrentItem(u)' = CurrentItem(u)
      /\ GatewayOf(u)' = GatewayOf(u) /\ Uncommitted(u)' = Uncommitted(u)
  BY DEF View, CurrentItem, GatewayOf, Uncommitted
<1>2. \A j : ReceivedItem(tx[u].req, j)' = ReceivedItem(tx[u].req, j)
  BY DEF ReceivedItem
<1>3. \A j \in DOMAIN Body[tx[u].req].items :
        LET item == ReceivedItem(tx[u].req, j)
        IN  j < tx[u].i /\ BySegment(item) => AccountedIn(View(u), item, GatewayOf(u))
  BY DEF ItemsBehind
<1>4. /\ SegmentRowsIn(View(u))
      /\ \A x \in Uncommitted(u) :
           reports[x] # NoRow /\ BySegment(reports[x]) => tx[u].writes[x].seg = reports[x].seg
      /\ tx[u].pc \in {"nextval", "write"}
           /\ (tx[u].action = "insert" \/ ~BySegment(CurrentItem(u)))
           => tx[u].target = CurrentItem(u).id
  BY DEF ItemsBehind
<1>5. QED
  BY <1>1, <1>2, <1>3, <1>4 DEF ItemsBehind, StartsAtOne

LEMMA BehindTouched ==
  ASSUME TypeOK, SessionShape, SegmentRowsIn(reports), NEW u \in Sessions, ItemsBehind(u),
         TouchGateway(u)
  PROVE  ItemsBehind(u)'
<1>1. /\ tx'[u].writes = NoWrites /\ tx'[u].pc = "item" /\ tx'[u].req = tx[u].req
      /\ tx'[u].i = tx[u].i /\ tx[u].pc = "gateway" /\ reports' = reports
  BY TouchGatewayDoes, CountersKept DEF SessionShape, Shape, Working, tables
<1>2. tx'[u].i = 1 /\ tx[u].req \in Requests
  BY <1>1, SessionType DEF ItemsBehind
<1>3. \A x \in Ids : View(u)'[x] = reports[x]
  BY <1>1 DEF View, NoWrites
<1>4. SegmentRowsIn(View(u)') /\ Uncommitted(u)' = {}
  BY <1>1, <1>3 DEF SegmentRowsIn, Uncommitted, NoWrites
<1>5. \A j \in DOMAIN Body[tx[u].req].items : ~(j < 1)
  BY <1>2, SentItems
<1>6. QED
  BY <1>1, <1>2, <1>4, <1>5 DEF ItemsBehind

LEMMA BehindSkipped ==
  ASSUME InductiveInv, RowsOfTheGateway, NEW u \in Sessions, ItemsBehind(u), SegmentsInHand(u),
         tx[u].locked, SkipItem(u)
  PROVE  ItemsBehind(u)'
<1> DEFINE item == CurrentItem(u)
           d == Decision(View(u), item, GatewayOf(u))
<1>0. TypeOK /\ tx[u] \in Session /\ tx[u].i \in Nat /\ tx[u].req \in Requests
      /\ GatewayOf(u) \in Gateways
  BY SessionType DEF InductiveInv, Session
<1>1. /\ tx'[u] = [tx[u] EXCEPT !.i = @ + 1] /\ tx[u].pc = "item" /\ HasItem(u)
      /\ reports' = reports /\ d.action = "noop"
  BY <1>0, BecomesOthers DEF SkipItem, tables
<1>2. /\ tx'[u].i = tx[u].i + 1 /\ tx'[u].req = tx[u].req
      /\ tx'[u].pc = "item" /\ tx'[u].writes = tx[u].writes
  BY <1>0, <1>1 DEF Session
<1>3. /\ View(u)' = View(u) /\ Uncommitted(u)' = Uncommitted(u) /\ GatewayOf(u)' = GatewayOf(u)
  BY <1>1, <1>2 DEF View, Uncommitted, GatewayOf
<1>4. item \in Item /\ View(u) \in [Ids -> Row \cup {NoRow}] /\ OneRowEach(View(u))
  BY <1>0, <1>1, CurrentItemType, ViewType DEF SegmentsInHand
<1>5. ASSUME BySegment(item) PROVE AccountedIn(View(u), item, GatewayOf(u))
  <2>1. /\ d.id \in Matching(View(u), item.kind, item.seg)
        /\ \/ BlockedByTombstone(item, View(u)[d.id])
           \/ ~IncomingBeatsExistingRow(item, GatewayOf(u), d.id, View(u)[d.id])
    BY <1>1, <1>4, <1>5, DecisionBySegment
  <2> HIDE DEF d, item
  <2> DEFINE ex == View(u)[d.id]
  <2>2. ex \in Row
    BY <1>4, <2>1 DEF Matching
  <2>3. /\ ex.upd \in Nat /\ ex.gw \in Nat /\ item.upd \in Nat /\ GatewayOf(u) \in Nat
    BY <1>0, <1>4, <2>2, GatewaysAreNumbers DEF Row, Item
  <2> HIDE DEF ex
  <2>4. ASSUME ~IncomingBeatsExistingRow(item, GatewayOf(u), d.id, ex)
        PROVE  ex.upd > item.upd \/ (ex.upd = item.upd /\ ex.gw >= GatewayOf(u))
    BY <2>3, <2>4 DEF IncomingBeatsExistingRow, TupleGreater, WinnerTuple
  <2>5. Accounts(ex, item, GatewayOf(u))
    BY <2>1, <2>4 DEF Accounts, BlockedByTombstone, ex
  <2>6. QED
    BY <2>1, <2>5 DEF AccountedIn, ex
<1>6. ASSUME NEW j \in DOMAIN Body[tx[u].req].items, j < tx[u].i + 1,
             BySegment(ReceivedItem(tx[u].req, j))
      PROVE  AccountedIn(View(u), ReceivedItem(tx[u].req, j), GatewayOf(u))
  <2>1. j \in Nat
    BY <1>0, SentItems
  <2>2. j < tx[u].i \/ j = tx[u].i
    BY <1>0, <1>6, <2>1
  <2>3. CASE j < tx[u].i
    BY <1>6, <2>3 DEF ItemsBehind
  <2>4. CASE j = tx[u].i
    BY <1>5, <1>6, <2>4 DEF CurrentItem
  <2>5. QED
    BY <2>2, <2>3, <2>4
<1>7. \A x \in Uncommitted(u) :
        reports[x] # NoRow /\ BySegment(reports[x]) => tx[u].writes[x].seg = reports[x].seg
  BY DEF ItemsBehind
<1>8. SegmentRowsIn(View(u))
  BY DEF ItemsBehind
<1>9. \A j : ReceivedItem(tx[u].req, j)' = ReceivedItem(tx[u].req, j)
  BY <1>2 DEF ReceivedItem
<1> HIDE DEF item, d
<1>10. QED
  BY <1>1, <1>2, <1>3, <1>6, <1>7, <1>8, <1>9 DEF ItemsBehind

LEMMA BehindRead ==
  ASSUME InductiveInv, NEW u \in Sessions, ItemsBehind(u), SegmentsInHand(u),
         tx[u].locked, ReadItem(u)
  PROVE  ItemsBehind(u)'
<1> DEFINE item == CurrentItem(u)
           d == Decision(View(u), item, GatewayOf(u))
<1>0. TypeOK /\ tx[u] \in Session
  BY SessionType DEF InductiveInv
<1>1. /\ tx'[u] = [tx[u] EXCEPT !.pc = "nextval", !.action = d.action, !.target = d.id]
      /\ HasItem(u) /\ ~KindConflict(View(u), item) /\ reports' = reports
  BY <1>0, BecomesOthers DEF ReadItem, tables
<1>2. item \in Item /\ View(u) \in [Ids -> Row \cup {NoRow}] /\ OneRowEach(View(u))
  BY <1>0, <1>1, CurrentItemType, ViewType DEF SegmentsInHand
<1>3. d.action = "insert" \/ ~BySegment(item) => d.id = item.id
  <2>1. CASE BySegment(item)
    BY <1>2, <2>1, DecisionBySegment
  <2>2. CASE ~BySegment(item)
    BY <1>1, <1>2, <2>2, DecisionById
  <2>3. QED
    BY <2>1, <2>2
<1> HIDE DEF d
<1>4. /\ tx'[u].action = d.action /\ tx'[u].target = d.id /\ tx'[u].pc = "nextval"
      /\ tx'[u].req = tx[u].req /\ tx'[u].i = tx[u].i /\ tx'[u].writes = tx[u].writes
  BY <1>0, <1>1 DEF Session
<1>5. /\ View(u)' = View(u) /\ CurrentItem(u)' = item
      /\ GatewayOf(u)' = GatewayOf(u) /\ Uncommitted(u)' = Uncommitted(u)
  BY <1>1, <1>4 DEF View, CurrentItem, GatewayOf, Uncommitted
<1>6. \A j : ReceivedItem(tx[u].req, j)' = ReceivedItem(tx[u].req, j)
  BY <1>4 DEF ReceivedItem
<1>7. \A j \in DOMAIN Body[tx[u].req].items :
        j < tx[u].i /\ BySegment(ReceivedItem(tx[u].req, j))
          => AccountedIn(View(u), ReceivedItem(tx[u].req, j), GatewayOf(u))
  BY DEF ItemsBehind
<1>8. /\ SegmentRowsIn(View(u))
      /\ \A x \in Uncommitted(u) :
           reports[x] # NoRow /\ BySegment(reports[x]) => tx[u].writes[x].seg = reports[x].seg
  BY DEF ItemsBehind
<1> HIDE DEF item
<1>9. QED
  BY <1>1, <1>3, <1>4, <1>5, <1>6, <1>7, <1>8 DEF ItemsBehind

LEMMA BehindWritten ==
  ASSUME InductiveInv, RowsOfTheGateway, IdsKeepSegment, NEW u \in Sessions, WriteItem(u),
         ItemsBehind(u), SegmentsInHand(u), tx[u].locked
  PROVE  ItemsBehind(u)'
<1> DEFINE w == tx[u].target
           item == CurrentItem(u)
<1>0. /\ TypeOK /\ SessionShape
      /\ tx[u] \in Session /\ tx[u].i \in Nat /\ tx[u].req \in Requests
      /\ GatewayOf(u) \in Gateways /\ GatewayOf(u) \in Nat
  BY SessionType, GatewaysAreNumbers DEF InductiveInv, Session
<1>1. /\ reports' = reports /\ tx'[u].pc = "item"
      /\ tx'[u].req = tx[u].req /\ tx'[u].i = tx[u].i + 1
      /\ HasItem(u) /\ item \in Item /\ w \in Ids
      /\ NewRow(u) \in Row /\ NewRow(u) # NoRow
      /\ NewRow(u).kind = item.kind /\ NewRow(u).seg = item.seg
      /\ NewRow(u).upd = item.upd /\ NewRow(u).gw = GatewayOf(u)
      /\ View(u)'[w] = NewRow(u)
      /\ \A x \in Ids \ {w} : View(u)'[x] = View(u)[x]
  BY <1>0, ViewWritten
<1>2. /\ tx'[u].writes[w] = NewRow(u) /\ tx[u].pc = "write"
      /\ \A x \in Ids \ {w} : tx'[u].writes[x] = tx[u].writes[x]
  BY <1>0, NewRowIsRow, WriteItemDoes
<1>3. ASSUME View(u)[w] # NoRow, BySegment(View(u)[w])
      PROVE  /\ NewRow(u).kind = View(u)[w].kind /\ NewRow(u).seg = View(u)[w].seg
             /\ NewRow(u).gw = View(u)[w].gw /\ NotRegressed(View(u)[w], NewRow(u))
  BY <1>3, SegmentUpdated
<1>4. View(u) \in [Ids -> Row \cup {NoRow}] /\ View(u)' \in [Ids -> Row \cup {NoRow}]
  <2>1. View(u) \in [Ids -> Row \cup {NoRow}]
    BY <1>0, ViewType
  <2>2. \A x \in Ids : View(u)'[x] \in Row \cup {NoRow}
    BY <1>1, <2>1
  <2>3. View(u)' \in [Ids -> Row \cup {NoRow}]
    BY <2>2 DEF View
  <2>4. QED
    BY <2>1, <2>3
<1>5. \A x \in Ids : View(u)[x] # NoRow /\ BySegment(View(u)[x]) =>
        /\ View(u)'[x] # NoRow
        /\ View(u)'[x].kind = View(u)[x].kind /\ View(u)'[x].seg = View(u)[x].seg
        /\ View(u)'[x].gw = View(u)[x].gw /\ NotRegressed(View(u)[x], View(u)'[x])
  <2> SUFFICES ASSUME NEW x \in Ids, View(u)[x] # NoRow, BySegment(View(u)[x])
               PROVE  /\ View(u)'[x] # NoRow
                      /\ View(u)'[x].kind = View(u)[x].kind /\ View(u)'[x].seg = View(u)[x].seg
                      /\ View(u)'[x].gw = View(u)[x].gw /\ NotRegressed(View(u)[x], View(u)'[x])
    OBVIOUS
  <2>1. CASE x = w
    BY <1>1, <1>3, <2>1
  <2>2. CASE x # w
    <3>1. View(u)'[x] = View(u)[x] /\ View(u)[x].upd \in Nat
      BY <1>1, <1>4, <2>2 DEF Row
    <3>2. QED
      BY <3>1 DEF NotRegressed
  <2>3. QED
    BY <2>1, <2>2
<1>6. SegmentRowsIn(View(u)')
  <2> SUFFICES ASSUME NEW x \in Ids, View(u)'[x] # NoRow, BySegment(View(u)'[x])
               PROVE  x \in SegmentedIds
    BY DEF SegmentRowsIn
  <2>1. CASE x # w
    BY <1>1, <2>1 DEF ItemsBehind, SegmentRowsIn
  <2>2. CASE x = w
    <3>1. BySegment(item)
      BY <1>1, <2>2 DEF BySegment
    <3>2. CASE tx[u].action = "insert"
      <4>1. w = item.id
        BY <1>2, <3>2 DEF ItemsBehind
      <4>2. tx[u].i \in DOMAIN Body[tx[u].req].items
        BY <1>0, <1>1, ItemInHand
      <4>3. item = ReceivedItem(tx[u].req, tx[u].i)
        BY DEF CurrentItem
      <4> HIDE DEF item, w
      <4>4. QED
        BY <1>0, <2>2, <3>1, <4>1, <4>2, <4>3, ItemsOfPushes
    <3>3. CASE tx[u].action # "insert"
      <4>1. w \in Matching(View(u), item.kind, item.seg)
        BY <1>2, <3>1, <3>3 DEF SegmentsInHand
      <4>2. View(u)[w] # NoRow /\ BySegment(View(u)[w])
        BY <3>1, <4>1 DEF Matching, BySegment
      <4>3. QED
        BY <1>1, <2>2, <4>2 DEF ItemsBehind, SegmentRowsIn
    <3>4. QED
      BY <3>2, <3>3
  <2>3. QED
    BY <2>1, <2>2
<1>7. ASSUME NEW x \in Ids, tx'[u].writes[x] # NoRow, reports[x] # NoRow,
             BySegment(reports[x])
      PROVE  tx'[u].writes[x].seg = reports[x].seg
  <2>1. CASE x # w
    BY <1>2, <1>7, <2>1 DEF ItemsBehind, Uncommitted
  <2>2. CASE x = w
    <3>1. /\ View(u)[w] # NoRow /\ View(u)[w].seg = reports[w].seg
          /\ View(u)[w].kind = reports[w].kind
      <4>1. CASE tx[u].writes[w] = NoRow
        BY <1>1, <1>7, <2>2, <4>1 DEF View
      <4>2. CASE tx[u].writes[w] # NoRow
        BY <1>1, <1>7, <2>2, <4>2 DEF View, Uncommitted, ItemsBehind, InductiveInv, RowLocks
      <4>3. QED
        BY <4>1, <4>2
    <3>2. BySegment(View(u)[w])
      BY <1>7, <2>2, <3>1 DEF BySegment
    <3>3. QED
      BY <1>2, <1>3, <2>2, <3>1, <3>2
  <2>3. QED
    BY <2>1, <2>2
<1>8. ASSUME NEW j \in DOMAIN Body[tx[u].req].items, j < tx[u].i + 1,
             BySegment(ReceivedItem(tx[u].req, j))
      PROVE  AccountedIn(View(u)', ReceivedItem(tx[u].req, j), GatewayOf(u))
  <2>1. j \in Nat /\ ReceivedItem(tx[u].req, j) \in Item
    BY <1>0, ItemsOfPushes
  <2>2. j < tx[u].i \/ j = tx[u].i
    BY <1>0, <1>8, <2>1
  <2>3. CASE j < tx[u].i
    <3>1. AccountedIn(View(u), ReceivedItem(tx[u].req, j), GatewayOf(u))
      BY <1>8, <2>3 DEF ItemsBehind
    <3> DEFINE old == View(u)
               new == View(u)'
               received == ReceivedItem(tx[u].req, j)
    <3>2. /\ old \in [Ids -> Row \cup {NoRow}] /\ new \in [Ids -> Row \cup {NoRow}]
          /\ received \in Item /\ BySegment(received) /\ AccountedIn(old, received, GatewayOf(u))
          /\ \A x \in Ids : old[x] # NoRow /\ BySegment(old[x]) =>
               /\ new[x] # NoRow /\ new[x].kind = old[x].kind /\ new[x].seg = old[x].seg
               /\ new[x].gw = old[x].gw /\ NotRegressed(old[x], new[x])
      BY <1>4, <1>5, <1>8, <2>1, <3>1
    <3> HIDE DEF old, new, received
    <3>3. AccountedIn(new, received, GatewayOf(u))
      BY <1>0, <3>2, AccountedKept
    <3>4. QED
      BY <3>3 DEF new, received
  <2>4. CASE j = tx[u].i
    <3>1. ReceivedItem(tx[u].req, j) = item
      BY <2>4 DEF CurrentItem
    <3>2. w \in Matching(View(u)', item.kind, item.seg)
      BY <1>1 DEF Matching
    <3>3. Accounts(View(u)'[w], item, GatewayOf(u))
      BY <1>0, <1>1 DEF Accounts
    <3>4. QED
      BY <3>1, <3>2, <3>3 DEF AccountedIn
  <2>5. QED
    BY <2>2, <2>3, <2>4
<1>9. GatewayOf(u)' = GatewayOf(u) /\ \A j : ReceivedItem(tx[u].req, j)' = ReceivedItem(tx[u].req, j)
  BY <1>1 DEF GatewayOf, ReceivedItem
<1> HIDE DEF item, w
<1>10. QED
  BY <1>1, <1>6, <1>7, <1>8, <1>9 DEF ItemsBehind, Uncommitted

LEMMA BehindStep ==
  ASSUME InductiveInv, OneGateway, RowsOfTheGateway, OneRowKept, IdsKeepSegment, MergedKept,
         [Next]_vars, NEW u \in Sessions
  PROVE  ItemsBehind(u)'
<1>0. /\ TypeOK /\ SessionShape /\ ItemsBehind(u) /\ SegmentsInHand(u)
      /\ SegmentRowsIn(reports) /\ StartsAtOne(u)
  BY DEF InductiveInv, MergedKept, OneRowKept, ItemsBehind, StartsAtOne
<1>1. StartsAtOne(u)'
  BY <1>0, StartsAtOneStep
<1>2. CASE ~tx'[u].locked
  BY <1>1, <1>2 DEF ItemsBehind, StartsAtOne
<1>3. CASE tx'[u].locked
  <2>1. reports' = reports
    BY <1>3, HolderStable
  <2>2. CASE tx'[u] = tx[u]
    BY <1>0, <1>1, <1>3, <2>1, <2>2, BehindKept
  <2>3. CASE SkipItem(u) \/ ReadItem(u)
    <3>1. tx[u].locked
      BY <1>0, <1>3, <2>3, MovesDo DEF Moves
    <3>2. QED
      BY <1>0, <2>3, <3>1, BehindSkipped, BehindRead
  <2>4. CASE TouchGateway(u)
    BY <1>0, <2>4, BehindTouched
  <2>5. CASE NextValue(u) \/ NextLogValue(u)
    <3>1. /\ tx[u].locked
          /\ \A f \in {"writes", "req", "i"} : tx'[u][f] = tx[u][f]
          /\ tx'[u].action = tx[u].action /\ tx'[u].target = tx[u].target
          /\ tx'[u].pc \in {"nextval", "write"} => tx[u].pc \in {"nextval", "write"}
      BY <1>0, <1>3, <2>5, NextValuesDo
    <3>2. QED
      BY <1>0, <1>1, <2>1, <3>1, BehindKept
  <2>6. CASE WriteItem(u)
    <3>1. tx[u].locked
      BY <1>0, <1>3, <2>6, WriteItemDoes
    <3>2. QED
      BY <1>0, <2>6, <3>1, BehindWritten
  <2>7. CASE WriteLog(u)
    <3>1. /\ tx[u].locked /\ tx'[u].pc = "commit"
          /\ \A f \in {"writes", "req", "i"} : tx'[u][f] = tx[u][f]
      BY <1>0, <1>3, <2>7, WriteLogDoes, CountersKept
    <3>2. QED
      BY <1>0, <1>1, <2>1, <3>1, BehindKept
  <2>8. QED
    BY <1>3, <2>2, <2>3, <2>4, <2>5, <2>6, <2>7, HolderKinds
<1>4. QED
  BY <1>2, <1>3

\* A commit leaves rows in their segments, and none regresses.
LEMMA CommitKeepsSegments ==
  ASSUME InductiveInv, OneGateway, RowsOfTheGateway, MergedKept, NEW t \in Sessions, Commit(t),
         NEW x \in Ids, reports[x] # NoRow, BySegment(reports[x])
  PROVE  /\ reports'[x] # NoRow
         /\ reports'[x].kind = reports[x].kind /\ reports'[x].seg = reports[x].seg
         /\ reports'[x].gw = reports[x].gw /\ NotRegressed(reports[x], reports'[x])
<1>0. TypeOK /\ GatewayLocks /\ tx[t].req \in Requests /\ reports[x].upd \in Nat
  BY SessionType DEF InductiveInv, TypeOK, Row
<1>1. reports' = View(t) /\ tx[t].locked
  BY <1>0, CommitDoes, CommitterAlone
<1>2. CASE tx[t].writes[x] = NoRow
  <2>1. reports'[x] = reports[x]
    BY <1>1, <1>2 DEF View
  <2>2. QED
    BY <1>0, <2>1 DEF NotRegressed
<1>3. CASE tx[t].writes[x] # NoRow
  <2>1. reports'[x] = tx[t].writes[x] /\ x \in Uncommitted(t)
    BY <1>1, <1>3 DEF View, Uncommitted
  <2>2. reports'[x].kind = reports[x].kind
    BY <2>1, <1>3 DEF InductiveInv, RowLocks
  <2>3. reports'[x].seg = reports[x].seg
    BY <1>1, <2>1 DEF MergedKept, ItemsBehind
  <2>4. reports[x].gw = GatewayOf(t)
    BY <1>0 DEF RowsOfTheGateway, GatewayOf
  <2>5. reports'[x].gw = GatewayOf(t)
    BY <2>1 DEF InductiveInv, WriteSets, WriteSet
  <2>6. NotRegressed(reports[x], reports'[x])
    BY <2>1, <2>4 DEF InductiveInv, OwnRowsInOrder, KeepsOwnRows
  <2>7. QED
    BY <1>3, <2>1, <2>2, <2>3, <2>4, <2>5, <2>6
<1>4. QED
  BY <1>2, <1>3

LEMMA AccountedStep ==
  ASSUME InductiveInv, OneGateway, RowsOfTheGateway, SameItemsPerKey, MergedKept,
         TypeOK', [Next]_vars, NEW r \in Requests, Logged(Key(r))',
         NEW i \in DOMAIN Body[r].items, BySegment(ReceivedItem(r, i))
  PROVE  AccountedIn(reports', ReceivedItem(r, i), Body[r].gw)
<1>0. /\ TypeOK /\ SessionShape /\ GatewayLocks
      /\ ReceivedItem(r, i) \in Item /\ i \in Nat /\ Body[r].gw \in Gateways
      /\ reports \in [Ids -> Row \cup {NoRow}] /\ reports' \in [Ids -> Row \cup {NoRow}]
  BY ItemsOfPushes DEF InductiveInv, TypeOK
<1>1. ASSUME Logged(Key(r)) PROVE AccountedIn(reports, ReceivedItem(r, i), Body[r].gw)
  BY <1>1 DEF MergedKept, MergedItemsAccounted, AccountedIn, Matching
<1>2. ASSUME NEW t \in Sessions, Commit(t)
      PROVE  AccountedIn(reports', ReceivedItem(r, i), Body[r].gw)
  <2>1. CASE Logged(Key(r))
    <3> DEFINE old == reports
               new == reports'
               received == ReceivedItem(r, i)
    <3>1. /\ old \in [Ids -> Row \cup {NoRow}] /\ new \in [Ids -> Row \cup {NoRow}]
          /\ received \in Item /\ BySegment(received) /\ AccountedIn(old, received, Body[r].gw)
          /\ \A x \in Ids : old[x] # NoRow /\ BySegment(old[x]) =>
               /\ new[x] # NoRow /\ new[x].kind = old[x].kind /\ new[x].seg = old[x].seg
               /\ new[x].gw = old[x].gw /\ NotRegressed(old[x], new[x])
      BY <1>0, <1>1, <1>2, <2>1, CommitKeepsSegments
    <3> HIDE DEF old, new, received
    <3>2. AccountedIn(new, received, Body[r].gw)
      BY <1>0, <3>1, AccountedKept
    <3>3. QED
      BY <3>2 DEF new, received
  <2>2. CASE ~Logged(Key(r))
    <3>1. PICK l \in tx[t].log : tx[t].log = {l} /\ l.key = Key(tx[t].req)
      BY <1>0, <1>2, CommitDoes DEF SessionShape, Shape
    <3>2. Key(tx[t].req) = Key(r) /\ tx[t].req \in Requests
      BY <1>0, <1>2, <2>2, <3>1, CommitDoes, SessionType DEF Logged, Key
    <3>3. /\ i \in DOMAIN Body[tx[t].req].items
          /\ ReceivedItem(tx[t].req, i) = ReceivedItem(r, i)
          /\ GatewayOf(t) = Body[r].gw
      BY <3>2 DEF SameItemsPerKey, GatewayOf, Key
    <3>4. i < tx[t].i
      <4>1. ~HasItem(t)
        BY <1>0, <1>2, CommitDoes DEF InductiveInv, ReportsKept, ItemsOnTheWay
      <4>2. i <= Len(Body[tx[t].req].items) /\ tx[t].i \in Nat
            /\ Len(Body[tx[t].req].items) \in Nat
        BY <1>0, <3>2, <3>3, SentItems, SessionType, BodyIsPush DEF Session, Push
      <4>3. QED
        BY <1>0, <4>1, <4>2 DEF HasItem
    <3>5. tx[t].locked /\ reports' = View(t)
      BY <1>0, <1>2, CommitDoes, CommitterAlone
    <3>6. QED
      BY <3>3, <3>4, <3>5 DEF MergedKept, ItemsBehind
  <2>3. QED
    BY <2>1, <2>2
<1>3. CASE <<reports, log>>' = <<reports, log>>
  <2>1. Logged(Key(r))
    BY <1>3 DEF Logged, Key
  <2>2. QED
    BY <1>1, <1>3, <2>1
<1>4. QED
  BY <1>0, <1>2, <1>3, TablesChangeAtCommit

LEMMA MergedKeptStep ==
  ASSUME InductiveInv, OneGateway, RowsOfTheGateway, OneRowKept, SameItemsPerKey,
         IdsKeepSegment, MergedKept, TypeOK', [Next]_vars
  PROVE  MergedKept'
<1>0. TypeOK /\ GatewayLocks
  BY DEF InductiveInv
<1>1. SegmentRowsIn(reports')
  <2>1. CASE reports' = reports
    BY <2>1 DEF MergedKept
  <2>2. ASSUME NEW t \in Sessions, Commit(t) PROVE SegmentRowsIn(reports')
    <3>1. tx[t].locked /\ reports' = View(t)
      BY <1>0, <2>2, CommitDoes, CommitterAlone
    <3>2. QED
      BY <3>1 DEF MergedKept, ItemsBehind
  <2>3. QED
    BY <1>0, <2>1, <2>2, ReportsChangeAtCommit
<1>2. \A u \in Sessions : ItemsBehind(u)'
  BY BehindStep
<1>3. ASSUME NEW r \in Requests, Logged(Key(r))',
             NEW i \in DOMAIN Body[r].items, BySegment(ReceivedItem(r, i))
      PROVE  AccountedIn(reports', ReceivedItem(r, i), Body[r].gw)
  BY <1>3, AccountedStep
<1>4. MergedItemsAccounted'
  BY <1>3 DEF MergedItemsAccounted, AccountedIn, Matching, ReceivedItem, BySegment
<1>5. SegmentRowsIn(reports)'
  BY <1>1 DEF SegmentRowsIn, SegmentedIds, BySegment, ReceivedItem
<1>6. QED
  BY <1>2, <1>4, <1>5 DEF MergedKept

-----------------------------------------------------------------------------
(* The whole invariant, with and without readers. *)

LEMMA OneGatewayInvInit == Init => OneGatewayInv
<1> SUFFICES ASSUME Init PROVE OneGatewayInv
  OBVIOUS
<1>1. /\ reports = NoWrites /\ log = {}
      /\ \A t \in Sessions : tx[t].locked = FALSE /\ tx[t].writes = NoWrites /\ tx[t].log = {}
      /\ \A t \in Sessions : tx[t].pc = "idle"
  BY IdleIsBare DEF Init, Bare
<1>2. RowsOfTheGateway /\ PendingAbove /\ PendingIds
  BY <1>1 DEF RowsOfTheGateway, PendingAbove, PendingIds, Uncommitted, NoWrites
<1>3. FiniteTables
  <2>1. Stored = {} /\ log = {}
    BY <1>1 DEF Stored, NoWrites
  <2>2. QED
    BY <2>1, FS_EmptySet DEF FiniteTables
<1>4. OneRowKept
  BY <1>1 DEF OneRowKept, OneRowEach, SegmentsInHand, Matching, NoWrites
<1>5. MergedKept
  <2>1. SegmentRowsIn(reports)
    BY <1>1 DEF SegmentRowsIn, NoWrites
  <2>2. \A t \in Sessions : ItemsBehind(t)
    BY <1>1 DEF ItemsBehind
  <2>3. MergedItemsAccounted
    BY <1>1 DEF MergedItemsAccounted, Logged
  <2>4. QED
    BY <2>1, <2>2, <2>3 DEF MergedKept
<1>6. QED
  BY <1>2, <1>3, <1>4, <1>5 DEF OneGatewayInv

LEMMA OneGatewayInvStep ==
  ASSUME OneGateway
  PROVE  InductiveInv /\ OneGatewayInv /\ [Next]_vars => OneGatewayInv'
<1> SUFFICES ASSUME InductiveInv, OneGatewayInv, [Next]_vars PROVE OneGatewayInv'
  OBVIOUS
<1>1. TypeOK'
  BY InductiveInvStep DEF InductiveInv
<1>2. RowsOfTheGateway' /\ PendingAbove'
  BY HoldersStep, PendingAboveStep DEF OneGatewayInv
<1>3. PendingIds' /\ FiniteTables' /\ OneRowKept'
  BY PendingIdsStep, FiniteTablesStep, OneRowKeptStep DEF OneGatewayInv
<1>4. SameItemsPerKey /\ IdsKeepSegment => MergedKept'
  BY <1>1, MergedKeptStep DEF OneGatewayInv
<1>5. (SameItemsPerKey /\ IdsKeepSegment)' => SameItemsPerKey /\ IdsKeepSegment
  BY DEF SameItemsPerKey, IdsKeepSegment, SegmentedIds, ReceivedItem, BySegment, Key
<1>6. QED
  BY <1>2, <1>3, <1>4, <1>5 DEF OneGatewayInv

LEMMA SyncInvInit == SyncInit => SyncInv
<1> SUFFICES ASSUME SyncInit PROVE SyncInv
  OBVIOUS
<1>1. InductiveInv /\ OneGatewayInv /\ TypeOK
  BY InductiveInvInit, OneGatewayInvInit DEF SyncInit, InductiveInv
<1>2. /\ reports = NoWrites /\ log = {} /\ seq = 0
      /\ \A t \in Sessions : tx[t].locked = FALSE
  BY IdleIsBare DEF SyncInit, Init, Bare
<1>3. SyncTypeOK
  BY <1>1 DEF SyncInit, SyncTypeOK, NoWrites
<1>4. ReadersInRange
  BY <1>2 DEF SyncInit, ReadersInRange
<1>5. ReadersBehind /\ NothingSkipped /\ NoEntrySkipped
  BY <1>2 DEF ReadersBehind, NothingSkipped, NoEntrySkipped, NoWrites
<1>6. QED
  BY <1>1, <1>3, <1>4, <1>5 DEF SyncInv

LEMMA SyncInvStep == SyncInv /\ [SyncNext]_syncVars => SyncInv'
<1> SUFFICES ASSUME SyncInv, [SyncNext]_syncVars PROVE SyncInv'
  OBVIOUS
<1>1. InductiveInv' /\ TypeOK'
  BY ReadersStep, InductiveInvStep DEF SyncInv, InductiveInv
<1>2. SyncTypeOK' /\ ReadersInRange'
  BY <1>1, ReadersTypeStep DEF SyncInv
<1>3. ASSUME OneGateway
      PROVE  OneGatewayInv' /\ ReadersBehind' /\ NothingSkipped' /\ NoEntrySkipped'
  <2>1. OneGatewayInv' /\ PendingIds'
    BY <1>3, ReadersStep, OneGatewayInvStep DEF SyncInv, OneGatewayInv
  <2>2. ReadersBehind' /\ NothingSkipped'
    BY <1>3, ReadersBehindStep, NothingSkippedStep DEF SyncInv
  <2>3. NoEntrySkipped'
    BY <1>2, <1>3, <2>1, NoEntrySkippedStep DEF SyncInv
  <2>4. QED
    BY <2>1, <2>2, <2>3
<1>4. OneGateway' => OneGateway
  BY DEF OneGateway
<1>5. QED
  BY <1>1, <1>2, <1>3, <1>4 DEF SyncInv

\* Readers change nothing that pushes can see: every behaviour with readers is one of
\* SyncPush, so that all that is proved of SyncPush holds beside any readers.
THEOREM ReadersOnlyRead == SyncSpec => Spec
<1>1. SyncInit => Init
  BY DEF SyncInit
<1>2. [SyncNext]_syncVars => [Next]_vars
  BY ReadersStep
<1>3. QED
  BY <1>1, <1>2, PTL DEF SyncSpec, Spec

\* The invariant that the run one_gateway checks is inductive.
THEOREM SyncInvariantIsInductive == SyncSpec => []SyncInv
  BY SyncInvInit, SyncInvStep, PTL DEF SyncSpec

\* Cursors, replicas and log pages hold what they should, whoever pushes.
THEOREM SyncTypeCorrect == SyncSpec => []SyncTypeOK
<1>1. SyncInv => SyncTypeOK
  BY DEF SyncInv
<1>2. QED
  BY <1>1, SyncInvariantIsInductive, PTL

\* GET /v1/sync/pull from the last cursor misses no committed row, as long as the pushes
\* come from one gateway: for any page size, any number of sessions, retries and faults.
THEOREM PullSkipsNothing ==
  ASSUME OneGateway
  PROVE  SyncSpec => []NothingSkipped
<1>1. SyncInv => NothingSkipped
  BY DEF SyncInv
<1>2. QED
  BY <1>1, SyncInvariantIsInductive, PTL

\* An administrator who pages through sync_logs by id misses no batch of the gateway.
THEOREM ConflictsSkipNothing ==
  ASSUME OneGateway
  PROVE  SyncSpec => []NoEntrySkipped
<1>1. SyncInv => NoEntrySkipped
  BY DEF SyncInv
<1>2. QED
  BY <1>1, SyncInvariantIsInductive, PTL

\* A page that is the last one by has_more completes what its reader has: nothing
\* committed is neither on it nor held already.
THEOREM LastPagesComplete ==
  ASSUME OneGateway
  PROVE  SyncSpec => []LastPageCompletes
<1>0. PageLimit \in Nat
  BY PageHoldsARow
<1>1. ASSUME SyncInv PROVE LastPageCompletes
  <2>1. /\ FiniteTables /\ NothingSkipped /\ NoEntrySkipped
        /\ cursor \in [Readers -> Nat]
        /\ \A x \in Ids : reports[x] # NoRow => reports[x].seq \in Nat
    BY <1>1 DEF SyncInv, OneGatewayInv, SyncTypeOK, TypeOK, Row
  <2>2. ASSUME NEW g \in Readers, ~HasMore(cursor[g]), NEW x \in Ids, reports[x] # NoRow,
               replica[g][x] # reports[x]
        PROVE  x \in Page(cursor[g])
    <3> DEFINE after == {y \in Ids : reports[y] # NoRow /\ reports[y].seq > cursor[g]}
    <3>1. reports[x].seq > cursor[g]
      BY <2>1, <2>2 DEF NothingSkipped
    <3>2. after \subseteq Stored /\ IsFiniteSet(after)
      BY <2>1, FS_Subset DEF FiniteTables, Stored
    <3>3. UpTo(x, cursor[g]) \subseteq after
      BY <2>1 DEF UpTo
    <3>4. Cardinality(after) \in Nat /\ Cardinality(UpTo(x, cursor[g])) \in Nat
          /\ Cardinality(UpTo(x, cursor[g])) <= Cardinality(after)
      BY <3>2, <3>3, FS_Subset, FS_CardinalityType
    <3>5. ~(Cardinality(after) > PageLimit)
      BY <2>2 DEF HasMore
    <3> HIDE DEF after
    <3>6. Cardinality(UpTo(x, cursor[g])) <= PageLimit
      BY <1>0, <3>4, <3>5
    <3>7. QED
      BY <2>2, <3>1, <3>6 DEF Page
  <2>3. ASSUME NEW a \in Admins, ~MoreEntries(SinceId(a)), NEW l \in log, l \notin audit[a]
        PROVE  l \in Entries(SinceId(a))
    <3> DEFINE since == SinceId(a)
               after == {k \in log : k.id > since}
               upTo == {k \in log : since < k.id /\ k.id <= l.id}
    <3>0. since \in Nat /\ \A k \in log : k.id \in Nat
      <4>1. /\ audit[a] \in SUBSET LogRow /\ logIds \in Nat
            /\ \A m \in audit[a] : m.id <= logIds
            /\ log \subseteq LogRow
        BY <1>1 DEF SyncInv, OneGatewayInv, SyncTypeOK, TypeOK, ReadersInRange, PendingIds
      <4>2. QED
        BY <4>1, GreatestId DEF SinceId, LogRow
    <3> HIDE DEF since
    <3>1. l.id > since
      BY <2>1, <2>3, <3>0 DEF NoEntrySkipped, since
    <3>2. IsFiniteSet(after)
      BY <2>1, FS_Subset DEF FiniteTables
    <3>3. upTo \subseteq after
      BY <3>0
    <3>4. Cardinality(after) \in Nat /\ Cardinality(upTo) \in Nat
          /\ Cardinality(upTo) <= Cardinality(after)
      BY <3>2, <3>3, FS_Subset, FS_CardinalityType
    <3>5. ~(Cardinality(after) > PageLimit)
      BY <2>3 DEF MoreEntries, since
    <3>6. Cardinality(upTo) <= PageLimit
      BY <1>0, <3>4, <3>5
    <3>7. QED
      BY <2>3, <3>1, <3>6 DEF Entries, since
  <2>4. QED
    BY <2>2, <2>3 DEF LastPageCompletes
<1>2. SyncInv => LastPageCompletes
  BY <1>1
<1>3. QED
  BY <1>2, SyncInvariantIsInductive, PTL

-----------------------------------------------------------------------------
(* What the policy promises, for the pushes of one gateway. *)

LEMMA OneGatewayInvHolds ==
  ASSUME OneGateway
  PROVE  Spec => [](InductiveInv /\ OneGatewayInv)
<1>1. Init => InductiveInv /\ OneGatewayInv
  BY InductiveInvInit, OneGatewayInvInit
<1>2. InductiveInv /\ OneGatewayInv /\ [Next]_vars => InductiveInv' /\ OneGatewayInv'
  BY InductiveInvStep, OneGatewayInvStep
<1>3. QED
  BY <1>1, <1>2, PTL DEF Spec

\* One gateway, however its pushes are retried or run side by side, has one row for a
\* (kind, segment_key).
THEOREM OneRowPerSegmentOfGateway ==
  ASSUME OneGateway
  PROVE  Spec => []OneRowPerSegment
<1>1. InductiveInv /\ OneGatewayInv => OneRowPerSegment
  <2> SUFFICES ASSUME InductiveInv, OneGatewayInv, NEW x \in Ids, NEW y \in Ids,
                      reports[x] # NoRow, reports[y] # NoRow, reports[x].seg # NoSeg,
                      reports[x].seg = reports[y].seg,
                      reports[x].kind \in {"road", "supply"},
                      reports[x].kind = reports[y].kind
               PROVE  x = y
    BY DEF OneRowPerSegment
  <2> DEFINE kind == reports[x].kind
             seg == reports[x].seg
  <2>1. seg \in Segs
    BY DEF InductiveInv, TypeOK, Row
  <2>2. x \in Matching(reports, kind, seg) /\ y \in Matching(reports, kind, seg)
    BY DEF Matching
  <2>3. OneRowEach(reports)
    BY DEF OneGatewayInv, OneRowKept
  <2>4. QED
    BY <2>1, <2>2, <2>3 DEF OneRowEach
<1>2. QED
  BY <1>1, OneGatewayInvHolds, PTL

\* Nothing that one gateway has had merged is lost to an older update: what is recorded
\* is accounted for.  The gateway must use a key for one content, and must not report
\* under one id now with a segment and now without.
THEOREM MergedItemsAreAccounted ==
  ASSUME OneGateway, SameItemsPerKey, IdsKeepSegment
  PROVE  Spec => []MergedItemsAccounted
<1>1. InductiveInv /\ OneGatewayInv => MergedItemsAccounted
  BY DEF OneGatewayInv, MergedKept
<1>2. QED
  BY <1>1, OneGatewayInvHolds, PTL

\* With pushes of one gateway the surviving row never moves to an older update, nor
\* from a tombstone back to life.
THEOREM SurvivorsNeverRegress ==
  ASSUME OneGateway
  PROVE  Spec => SurvivorNeverRegresses
<1>1. InductiveInv /\ OneGatewayInv /\ (InductiveInv /\ OneGatewayInv)' /\ [Next]_vars =>
        [\A x \in Ids : reports[x] # NoRow /\ reports'[x] # NoRow
           => NotRegressed(reports[x], reports'[x])]_vars
  <2> SUFFICES ASSUME InductiveInv, OneGatewayInv, (InductiveInv /\ OneGatewayInv)', [Next]_vars,
                      NEW x \in Ids, reports[x] # NoRow, reports'[x] # NoRow
               PROVE  NotRegressed(reports[x], reports'[x])
    OBVIOUS
  <2>1. OwnRowsRespected
    BY InductiveInvParts, OwnRowsRespectedStep
  <2>2. reports'[x].gw = reports[x].gw
    BY SessionsAndRequests DEF OneGatewayInv, RowsOfTheGateway
  <2>3. QED
    BY <2>1, <2>2 DEF OwnRowsRespected
<1>2. QED
  BY <1>1, OneGatewayInvHolds, PTL DEF Spec, SurvivorNeverRegresses

\* With pushes of one gateway the sequence id of a row only grows.
THEOREM RowSequencesGrow ==
  ASSUME OneGateway
  PROVE  Spec => RowSequenceGrows
<1>1. InductiveInv /\ OneGatewayInv /\ [Next]_vars =>
        [\A x \in Ids : reports[x] # NoRow /\ reports'[x] # reports[x]
           => reports'[x].seq > reports[x].seq]_vars
  <2> SUFFICES ASSUME InductiveInv, OneGatewayInv, [Next]_vars,
                      NEW x \in Ids, reports[x] # NoRow, reports'[x] # reports[x]
               PROVE  reports'[x].seq > reports[x].seq
    OBVIOUS
  <2>0. TypeOK
    BY DEF InductiveInv
  <2>1. PICK t \in Sessions : Commit(t)
    BY <2>0, ReportsChangeAtCommit
  <2>2. x \in Uncommitted(t) /\ reports'[x] = tx[t].writes[x]
    BY <2>1 DEF Commit, View, Uncommitted
  <2>3. reports'[x].seq \in SeqsOf(t) /\ reports[x].seq \in TableSeqs
    BY <2>2 DEF SeqsOf, RowSeqs, TableSeqs, Uncommitted
  <2>4. tx[t].locked
    BY <2>2 DEF OneGatewayInv, RowsOfTheGateway
  <2>5. reports[x].seq < reports'[x].seq
    BY <2>3, <2>4 DEF OneGatewayInv, PendingAbove
  <2>6. reports[x].seq \in Nat /\ reports'[x].seq \in Nat
    BY <2>0, <2>3, SeqTypes
  <2>7. QED
    BY <2>5, <2>6
<1>2. QED
  BY <1>1, OneGatewayInvHolds, PTL DEF Spec, RowSequenceGrows
=============================================================================
