------------------------------ MODULE TriageInv ------------------------------
(***************************************************************************)
(* Workers beside pushes: what holds of the reports a worker has read      *)
(* while pushes replace them, of its locks, and of the tasks handed over.  *)
(***************************************************************************)
EXTENDS Dashboard, SyncPushInv

\* Tasks run one after the other.
OneWorker == \A v, w \in Workers : v = w

\* What worker w has read of report x: as the report it is scoring, or as one whose row
\* it has updated.
HasRead(w, x) ==
  ({worker[w].marked[x]} \cup {row \in {worker[w].row} : worker[w].pc = "update" /\ worker[w].id = x})
    \ {NoRow}

\* A worker holds nothing between tasks, scores a report that is left to do, and
\* updates each row once; its reports are stored.
WorkerShape(w) ==
  /\ worker[w].pc = "idle" => worker[w] = IdleWorker
  /\ worker[w].pc # "update" => worker[w].row = NoRow
  /\ worker[w].pc = "update" => worker[w].id \in worker[w].left /\ worker[w].row # NoRow
  /\ \A x \in worker[w].left : reports[x] # NoRow /\ worker[w].marked[x] = NoRow
  /\ \A x \in Ids : worker[w].marked[x] # NoRow => reports[x] # NoRow

WorkerShapes == \A w \in Workers : WorkerShape(w)

\* A row is locked by a worker or by a session, not by both.
MarkLocks ==
  \A w \in Workers, t \in Sessions, x \in Ids :
    worker[w].marked[x] # NoRow => tx[t].writes[x] = NoRow

\* The sequence id of a report tells whether it is still what a worker has read: no
\* session will commit another under that id.
ReadsDated ==
  \A w \in Workers, x \in Ids : \A row \in HasRead(w, x) :
    /\ row.seq <= seq
    /\ \A t \in Sessions : row.seq \notin SeqsOf(t)
    /\ row.seq = reports[x].seq => row.kind = reports[x].kind /\ row.upd = reports[x].upd

\* A session hands over all it has written, and a batch is handed over once.
HandOver(t) ==
  /\ tx[t].pc \in {"replay", "gateway"} => tx[t].touched = {}
  /\ Uncommitted(t) \subseteq tx[t].touched
  /\ tx[t].pc = "reply" /\ tx[t].touched # {} =>
       /\ \A task \in queue : task.key # Key(tx[t].req)
       /\ \A u \in Sessions : tx[u].pc = "reply" /\ tx[u].touched # {}
                              /\ Key(tx[u].req) = Key(tx[t].req) => u = t

HandOvers == \A t \in Sessions : HandOver(t)

\* A report that was replaced under its only worker has no score until that worker
\* commits.
ReplacedHaveNoScore ==
  \A w \in Workers, x \in Ids : \A row \in HasRead(w, x) :
    row.seq # reports[x].seq => scores[x] = NoScore

TriageInv ==
  /\ InductiveInv
  /\ TriageTypeOK
  /\ WorkerShapes
  /\ MarkLocks
  /\ ReadsDated
  /\ HandOvers
  /\ OneWorker => ReplacedHaveNoScore /\ StaleScoreWillBeRedone
=============================================================================
