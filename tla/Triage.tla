------------------------------- MODULE Triage -------------------------------
(***************************************************************************)
(* Triage beside the pushes of SyncPush: Celery workers take the tasks     *)
(* that Reply has put into the broker, read each report of the task,       *)
(* compute its priority score and mark it completed, in one transaction    *)
(* of their own.  Pushes go on meanwhile, and wait for the rows a worker   *)
(* has updated, as the worker waits for theirs.                            *)
(*                                                                         *)
(* A task is acknowledged when it is taken, so one whose worker fails is   *)
(* not run again.  The ids of a task are worked in any order.              *)
(***************************************************************************)
EXTENDS SyncPush

CONSTANTS
  Workers,  \* worker processes
  Detail,   \* Detail[upd]: what status and payload of that update say
  NoScore   \* priority_score NULL

ASSUME WorkersAreNotSessions == Workers \cap Sessions = {}
ASSUME NoScoreIsNoNumber == NoScore \notin Nat

\* alarm: the status is one of an alarm; high, hurt: the payload says so.
ASSUME DetailOfEveryReport ==
  /\ \A upd \in DOMAIN Detail : Detail[upd] \in [alarm : BOOLEAN, high : BOOLEAN, hurt : BOOLEAN]
  /\ \A r \in Requests : \A i \in DOMAIN Body[r].items : Body[r].items[i].upd \in DOMAIN Detail

VARIABLES
  scores,  \* committed column priority_score
  worker,  \* what each worker is doing
  taken,   \* tasks taken from the broker
  lost     \* history: reports a task of which was dropped, and not replaced since

triageOnly == <<scores, worker, taken, lost>>
triageVars == <<vars, scores, worker, taken, lost>>

\* left: ids to do; id, row: the report being scored; marked: for each row the
\* transaction has updated, the report its score was computed from.
Worker == [pc : {"idle", "next", "update"}, left : SUBSET Ids, id : Ids,
           row : Row \cup {NoRow}, marked : [Ids -> Row \cup {NoRow}]]
IdleWorker == [pc |-> "idle", left |-> {}, id |-> CHOOSE x \in Ids : TRUE,
               row |-> NoRow, marked |-> NoWrites]

-----------------------------------------------------------------------------
(* The score of a report. *)

AtMost100(n) == IF n > 100 THEN 100 ELSE n

BaseScore(row) ==
  CASE row.kind = "sos" -> 100
    [] row.kind = "road" /\ Detail[row.upd].alarm -> 75
    [] row.kind = "supply" /\ Detail[row.upd].alarm -> 70
    [] OTHER -> 15

\* Mutation: the additions are not capped.
UncappedScore(row) ==
  BaseScore(row) + (IF Detail[row.upd].high THEN 20 ELSE 0) + (IF Detail[row.upd].hurt THEN 15 ELSE 0)

ComputePriorityScore(row) ==
  LET high == AtMost100(BaseScore(row) + IF Detail[row.upd].high THEN 20 ELSE 0)
  IN  AtMost100(high + IF Detail[row.upd].hurt THEN 15 ELSE 0)

-----------------------------------------------------------------------------
(* Who waits for whom. *)

\* Workers whose open transaction has updated row x.
MarkHolders(x) == {w \in Workers : worker[w].marked[x] # NoRow}

Waiting(a) ==
  IF a \in Sessions
  THEN WaitsFor(a) \cup (IF tx[a].pc = "write" THEN MarkHolders(tx[a].target) ELSE {})
  ELSE IF worker[a].pc = "update"
  THEN {t \in Sessions : tx[t].writes[worker[a].id] # NoRow} \cup (MarkHolders(worker[a].id) \ {a})
  ELSE {}

\* Mutation: PostgreSQL and the worker's transactions do not see each other's waits.
NoMixedCycle(a) == FALSE

\* a is in a cycle of waits that some worker is part of.
MixedCycle(a) ==
  /\ Waiting(a) # {}
  /\ \E S \in SUBSET (Sessions \cup Workers) :
       a \in S /\ S \cap Workers # {} /\ UNION {Waiting(b) : b \in S} = S

-----------------------------------------------------------------------------
TriageInit ==
  /\ Init
  /\ scores = [x \in Ids |-> NoScore]
  /\ worker = [w \in Workers |-> IdleWorker]
  /\ taken = {}
  /\ lost = {}

\* A push writes NULL into priority_score of every row it writes.
ResetScores == scores' = [x \in Ids |-> IF reports'[x] # reports[x] THEN NoScore ELSE scores[x]]

\* A step of a session that waits for no worker.  A row it commits has a task of its own.
SessionStep(t) ==
  /\ tx[t].pc = "write" => MarkHolders(tx[t].target) = {}
  /\ Work(t)
  /\ ResetScores
  /\ lost' = {x \in lost : reports'[x] = reports[x]}
  /\ UNCHANGED <<worker, taken>>

\* A session fails to end a deadlock with a worker.
SessionVictim(t) ==
  /\ MixedCycle(t)
  /\ RollBack(t, 500)
  /\ UNCHANGED <<faults, logIds, triageOnly>>

\* The hand-over of the touched reports fails, or the process dies before it.
SessionFault(t) ==
  /\ Fail(t) \/ BrokerError(t) \/ Crash(t)
  /\ lost' = IF tx[t].pc = "reply" THEN lost \cup tx[t].touched ELSE lost
  /\ UNCHANGED <<scores, worker, taken>>

WorkerBecomes(w, state) == worker' = [worker EXCEPT ![w] = state]

TakeTask(w) ==
  /\ worker[w].pc = "idle"
  /\ \E task \in queue \ taken :
       /\ taken' = taken \cup {task}
       /\ WorkerBecomes(w, [IdleWorker EXCEPT !.pc = "next", !.left = task.ids])
  /\ UNCHANGED <<vars, scores, lost>>

\* Mutation: reports that are completed already are left alone.
ReadPendingReport(w) ==
  /\ worker[w].pc = "next"
  /\ \E x \in worker[w].left :
       WorkerBecomes(w, IF reports[x].triage = "completed"
                        THEN [worker[w] EXCEPT !.left = @ \ {x}]
                        ELSE [worker[w] EXCEPT !.pc = "update", !.id = x, !.row = reports[x]])
  /\ UNCHANGED <<vars, scores, taken, lost>>

\* session.get: the committed report, which is there because rows are never removed.
ReadReport(w) ==
  /\ worker[w].pc = "next"
  /\ \E x \in worker[w].left :
       WorkerBecomes(w, [worker[w] EXCEPT !.pc = "update", !.id = x, !.row = reports[x]])
  /\ UNCHANGED <<vars, scores, taken, lost>>

\* UPDATE of the two triage columns, whatever report the row holds by now.
UpdateReport(w) ==
  LET x == worker[w].id
  IN  /\ worker[w].pc = "update"
      /\ Waiting(w) = {}
      /\ WorkerBecomes(w, [worker[w] EXCEPT !.pc = "next", !.left = @ \ {x}, !.row = NoRow,
                                            !.marked[x] = worker[w].row])
      /\ UNCHANGED <<vars, scores, taken, lost>>

\* Mutation: the whole object that was read is written back.
CommitWholeRows(w) ==
  LET marked == worker[w].marked
  IN  /\ worker[w].pc = "next" /\ worker[w].left = {}
      /\ reports' = [x \in Ids |-> IF marked[x] = NoRow THEN reports[x]
                                   ELSE [marked[x] EXCEPT !.triage = "completed"]]
      /\ scores' = [x \in Ids |-> IF marked[x] = NoRow THEN scores[x]
                                  ELSE ComputePriorityScore(marked[x])]
      /\ WorkerBecomes(w, IdleWorker)
      /\ UNCHANGED <<client, sequences, gateways, log, tx, queue, taken, lost>>

CommitTriage(w) ==
  LET marked == worker[w].marked
  IN  /\ worker[w].pc = "next" /\ worker[w].left = {}
      /\ reports' = [x \in Ids |-> IF marked[x] = NoRow THEN reports[x]
                                   ELSE [reports[x] EXCEPT !.triage = "completed"]]
      /\ scores' = [x \in Ids |-> IF marked[x] = NoRow THEN scores[x]
                                  ELSE ComputePriorityScore(marked[x])]
      /\ WorkerBecomes(w, IdleWorker)
      /\ UNCHANGED <<client, sequences, gateways, log, tx, queue, taken, lost>>

\* The task ends with an exception, or its process dies: rolled back, not run again.
DropTask(w) ==
  /\ WorkerBecomes(w, IdleWorker)
  /\ lost' = lost \cup worker[w].left \cup {x \in Ids : worker[w].marked[x] # NoRow}
  /\ UNCHANGED <<now, attempts, answers, sequences, tables, tx, queue, scores, taken>>

WorkerVictim(w) == MixedCycle(w) /\ DropTask(w) /\ UNCHANGED faults
WorkerDies(w) == Fault /\ worker[w].pc # "idle" /\ DropTask(w)

-----------------------------------------------------------------------------
SessionWork(t) == SessionStep(t) \/ SessionVictim(t)

WorkerWork(w) ==
  TakeTask(w) \/ ReadReport(w) \/ UpdateReport(w) \/ CommitTriage(w) \/ WorkerVictim(w)

Clients ==
  /\ Tick \/ (\E r \in Requests : Refuse(r)) \/ (\E t \in Sessions, r \in Requests : Begin(t, r))
  /\ UNCHANGED triageOnly

TriageNext ==
  \/ Clients
  \/ \E t \in Sessions : SessionWork(t) \/ SessionFault(t)
  \/ \E w \in Workers : WorkerWork(w) \/ WorkerDies(w)

TriageSpec == TriageInit /\ [][TriageNext]_triageVars

-----------------------------------------------------------------------------
\* Types of the worker's state; triage_logic.py:12: scores range from 0 to 100.
TriageTypeOK ==
  /\ TypeOK
  /\ scores \in [Ids -> 0..100 \cup {NoScore}]
  /\ worker \in [Workers -> Worker]
  /\ taken \subseteq queue
  /\ lost \subseteq Ids

\* Report x is completed with the score of what it says now.
Scored(x) == reports[x].triage = "completed" /\ scores[x] = ComputePriorityScore(reports[x])

\* Some task still has to read report x, or has read the report it is now.
StillToScore(x) ==
  \/ \E task \in queue \ taken : x \in task.ids
  \/ \E t \in Sessions : tx[t].pc = "reply" /\ x \in tx[t].touched
  \/ \E w \in Workers :
       \/ x \in worker[w].left /\ ~(worker[w].pc = "update" /\ worker[w].id = x)
       \/ worker[w].row # NoRow /\ worker[w].id = x /\ worker[w].row.seq = reports[x].seq
       \/ worker[w].marked[x] # NoRow /\ worker[w].marked[x].seq = reports[x].seq

\* tasks/triage.py:15: a report that is not completed with its own score is on its
\* way to it, unless a task of it was dropped.  The worker reads a report, and updates
\* the row after a push may have replaced it.
StaleScoreWillBeRedone ==
  \A x \in Ids : reports[x] # NoRow => Scored(x) \/ StillToScore(x) \/ x \in lost

\* Once pushes cease every report whose task was not dropped ends completed, with the
\* score of its last update.
ScoresConverge ==
  <>[](\A x \in Ids : reports[x] # NoRow => Scored(x) \/ x \in lost)

\* Tasks end, although their locks and those of pushes can form cycles.
TriageEnds == \A w \in Workers : worker[w].pc # "idle" ~> worker[w].pc = "idle"

\* Triage changes nothing of a report but its triage columns: with those erased, the
\* system still implements the ledger.
Untriaged == [x \in Ids |-> IF reports[x] = NoRow THEN NoRow
                            ELSE [reports[x] EXCEPT !.triage = "pending"]]
TriagedLedger == INSTANCE BatchLedger WITH rows <- Untriaged, ledger <- log
TriageKeepsLedger == TriagedLedger!LedgerSpec
=============================================================================
