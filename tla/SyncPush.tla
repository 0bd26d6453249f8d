------------------------------ MODULE SyncPush ------------------------------
(***************************************************************************)
(* Batch ingest: POST /v1/sync/push and gRPC PushBatch, both of which run  *)
(* MergeService.apply_batch in one PostgreSQL READ COMMITTED transaction.  *)
(*                                                                         *)
(* A session t serves one push at a time.  Every statement it awaits is an *)
(* action, because other sessions run at each await: a SELECT reads what   *)
(* is committed at that moment plus the session's own writes; a written    *)
(* row is private and locked until COMMIT publishes the whole write set;   *)
(* nextval is never rolled back.                                           *)
(***************************************************************************)
EXTENDS MergePolicy, Sequences, FiniteSets

CONSTANTS
  Sessions,     \* database sessions of the HTTP and gRPC servers
  Requests,     \* names of the pushes clients send, and send again
  Body,         \* Body[r]: what push r contains
  Provisioned,  \* gateways already in table gateways
  RequireAuth,  \* REQUIRE_GATEWAY_AUTH
  MaxItems,     \* MAX_SYNC_BATCH_ITEMS
  MaxFuture,    \* MAX_FUTURE_SKEW_SECONDS
  MaxNow,       \* bound: the server clock stops here
  MaxAttempts,  \* bound: how often push r is sent, MaxAttempts[r]
  MaxFaults     \* bound: spontaneous errors and crashes

\* admitted: the ids of the HTTP headers are those of the body; over gRPC, the
\* client's version is recent enough.
Push == [via : {"http", "grpc"}, gw : Gateways, batch : Nat,
         admitted : BOOLEAN, items : Seq(Item)]

ASSUME SessionsAndRequests == Sessions # {} /\ Requests # {}
ASSUME BodyIsPush == Body \in [Requests -> Push]
ASSUME ProvisionedAreGateways == Provisioned \subseteq Gateways
ASSUME FlagIsBoolean == RequireAuth \in BOOLEAN
ASSUME LimitsAreNumbers ==
  /\ MaxItems \in Nat /\ MaxFuture \in Nat /\ MaxNow \in Nat
  /\ MaxAttempts \in [Requests -> Nat] /\ MaxFaults \in Nat

VARIABLES
  now,       \* the server clock
  seq,       \* last value of server_sequence_global
  logIds,    \* last value of the sync_logs.id sequence
  gateways,  \* committed keys of table gateways
  reports,   \* committed table reports, NoRow where there is no row
  log,       \* committed table sync_logs
  tx,        \* what each session is doing
  attempts,  \* how often each push was sent
  faults,    \* spontaneous failures so far
  answers,   \* responses clients have received
  queue      \* triage tasks handed to the broker

tables == <<gateways, reports, log>>
sequences == <<seq, logIds>>
client == <<now, attempts, faults, answers>>
vars == <<now, seq, logIds, gateways, reports, log, tx, attempts, faults, answers, queue>>

Steps == {"idle", "replay", "gateway", "item", "nextval", "write",
          "log", "commit", "reply"}

Keys == Gateways \X Nat
LogRow == [key : Keys, seq : Nat, id : Nat, applied : Nat]

Session == [pc : Steps, req : Requests, i : Nat \ {0}, action : {"insert", "update"},
            target : Ids, seq : Nat, locked : BOOLEAN,
            writes : [Ids -> Row \cup {NoRow}], touched : SUBSET Ids,
            applied : Nat, log : SUBSET LogRow, replay : BOOLEAN]

Answer == [req : Requests, code : {200, 400, 413, 422, 500},
           replay : BOOLEAN, applied : Nat]

NoWrites == [x \in Ids |-> NoRow]

IdleSession ==
  [pc |-> "idle", req |-> CHOOSE r \in Requests : TRUE, i |-> 1,
   action |-> "insert", target |-> CHOOSE x \in Ids : TRUE, seq |-> 0,
   locked |-> FALSE, writes |-> NoWrites, touched |-> {}, applied |-> 0,
   log |-> {}, replay |-> FALSE]

-----------------------------------------------------------------------------
(* The request as the merge service sees it. *)

Key(r) == <<Body[r].gw, Body[r].batch>>

\* The protobuf conversion never fills is_tombstone.
ReceivedItem(r, i) ==
  IF Body[r].via = "grpc" THEN [Body[r].items[i] EXCEPT !.tomb = FALSE]
  ELSE Body[r].items[i]

TooFarInFuture(item) == item.created > now + MaxFuture \/ item.upd > now + MaxFuture

\* The authentication of an HTTP push queries through the request's session,
\* which begins a transaction; the route's session.begin() then raises.
SessionAlreadyBegun(r) == RequireAuth /\ Body[r].via = "http"

\* The answer to a push that never reaches its first statement; 200 when it does.
\* Over gRPC every other code stands for a call that fails.
EarlyCode(r) ==
  IF SessionAlreadyBegun(r) THEN 500
  ELSE IF ~Body[r].admitted THEN 400
  ELSE IF Len(Body[r].items) > MaxItems THEN 413
  ELSE IF \E i \in DOMAIN Body[r].items : TooFarInFuture(Body[r].items[i]) THEN 422
  ELSE 200

-----------------------------------------------------------------------------
(* What a statement of session t sees, and what makes it wait. *)

\* Table reports as session t reads it: the committed rows under its own writes.
View(t) == [x \in Ids |-> IF tx[t].writes[x] # NoRow THEN tx[t].writes[x] ELSE reports[x]]

CurrentItem(t) == ReceivedItem(tx[t].req, tx[t].i)
HasItem(t) == tx[t].i <= Len(Body[tx[t].req].items)
GatewayOf(t) == Body[tx[t].req].gw
Logged(k) == \E l \in log : l.key = k

\* Sessions t has to wait for before it may write row x / its gateway row.
RowHolders(t, x) == {u \in Sessions \ {t} : tx[u].writes[x] # NoRow}
GatewayHolders(t) == {u \in Sessions \ {t} : tx[u].locked /\ GatewayOf(u) = GatewayOf(t)}

\* The gateway row exists for the foreign keys of reports and sync_logs.
GatewayStored(t) == GatewayOf(t) \in gateways \/ tx[t].locked

\* Mutation: segment keys are ignored.
NeverBySegment(item) == FALSE

\* Merge by segment; SOS items and items without a segment go by primary key.
BySegment(item) == item.kind # "sos" /\ item.seg # NoSeg

\* The canonical rows of a segment: of several, the one with the greatest sequence id.
Canonical(table, kind, seg) ==
  LET matching == {x \in Ids : table[x] # NoRow /\ table[x].kind = kind /\ table[x].seg = seg}
  IN  {x \in matching : \A y \in matching : table[y].seq <= table[x].seq}

\* The row an item is merged with: no id, or one.
Found(table, item) ==
  IF BySegment(item) THEN Canonical(table, item.kind, item.seg)
  ELSE {x \in {item.id} : table[x] # NoRow}

\* Mutation: the kind of a row found by primary key is not compared.
NoKindCheck(table, item) == FALSE

KindConflict(table, item) ==
  \E x \in Found(table, item) : table[x].kind # item.kind

Decision(table, item, gw) ==
  LET x  == IF Found(table, item) = {} THEN item.id
            ELSE CHOOSE y \in Found(table, item) : TRUE
      ex == IF Found(table, item) = {} THEN NoRow ELSE table[x]
  IN  IF item.kind = "sos" THEN DecideSosMerge(item, ex)
      ELSE DecideRoadLikeMerge(item, gw, x, ex)

-----------------------------------------------------------------------------
Init ==
  /\ now = 0 /\ seq = 0 /\ logIds = 0
  /\ gateways = Provisioned
  /\ reports = NoWrites
  /\ log = {}
  /\ tx = [t \in Sessions |-> IdleSession]
  /\ attempts = [r \in Requests |-> 0]
  /\ faults = 0
  /\ answers = {}
  /\ queue = {}

Tick ==
  /\ now < MaxNow
  /\ now' = now + 1
  /\ UNCHANGED <<sequences, tables, tx, attempts, faults, answers, queue>>

\* The state of session t after the step.
Becomes(t, session) == tx' = [tx EXCEPT ![t] = session]

Send(r) ==
  /\ attempts[r] < MaxAttempts[r]
  /\ attempts' = [attempts EXCEPT ![r] = @ + 1]

AnswerWith(r, code, replay, applied) ==
  answers' = answers \cup {[req |-> r, code |-> code, replay |-> replay, applied |-> applied]}

\* A push refused before it touches the database.
Refuse(r) ==
  /\ Send(r)
  /\ EarlyCode(r) # 200
  /\ AnswerWith(r, EarlyCode(r), FALSE, 0)
  /\ UNCHANGED <<now, sequences, tables, tx, faults, queue>>

\* Session t opens its transaction for push r.
Begin(t, r) ==
  /\ tx[t].pc = "idle"
  /\ Send(r)
  /\ EarlyCode(r) = 200
  /\ Becomes(t, [IdleSession EXCEPT !.pc = "replay", !.req = r])
  /\ UNCHANGED <<now, sequences, tables, faults, answers, queue>>

\* Mutation: a replay reports nothing applied.
FindReplayUncounted(t) ==
  /\ tx[t].pc = "replay" /\ Logged(Key(tx[t].req))
  /\ Becomes(t, [tx[t] EXCEPT !.pc = "reply", !.replay = TRUE])
  /\ UNCHANGED <<client, sequences, tables, queue>>

\* SELECT of the sync_logs row finds the batch: the stored counts are the answer.
FindReplay(t) ==
  /\ tx[t].pc = "replay"
  /\ \E l \in log :
       /\ l.key = Key(tx[t].req)
       /\ Becomes(t, [tx[t] EXCEPT !.pc = "reply", !.replay = TRUE, !.applied = l.applied])
  /\ UNCHANGED <<client, sequences, tables, queue>>

\* The batch is not there, as far as committed rows tell.
FindNoReplay(t) ==
  /\ tx[t].pc = "replay"
  /\ ~Logged(Key(tx[t].req))
  /\ Becomes(t, [tx[t] EXCEPT !.pc = "gateway"])
  /\ UNCHANGED <<client, sequences, tables, queue>>

\* Mutation: the gateway row is inserted only if it is missing, which locks nothing.
TouchGatewayUnlocked(t) ==
  /\ tx[t].pc = "gateway"
  /\ Becomes(t, [tx[t] EXCEPT !.pc = "item", !.locked = TRUE])
  /\ UNCHANGED <<client, sequences, tables, queue>>

\* Upsert of the gateway row, locked until the transaction ends.  With
\* authentication on it is an UPDATE, which locks nothing if there is no row.
TouchGateway(t) ==
  /\ tx[t].pc = "gateway"
  /\ GatewayHolders(t) = {}
  /\ Becomes(t, [tx[t] EXCEPT !.pc = "item",
                              !.locked = ~RequireAuth \/ GatewayOf(t) \in gateways])
  /\ UNCHANGED <<client, sequences, tables, queue>>

-----------------------------------------------------------------------------
(* One item of the batch: read the row it merges with, take a sequence id, *)
(* write.                                                                  *)

SkipItem(t) ==
  /\ tx[t].pc = "item" /\ HasItem(t)
  /\ ~KindConflict(View(t), CurrentItem(t))
  /\ Decision(View(t), CurrentItem(t), GatewayOf(t)).action = "noop"
  /\ Becomes(t, [tx[t] EXCEPT !.i = @ + 1])
  /\ UNCHANGED <<client, sequences, tables, queue>>

ReadItem(t) ==
  LET d == Decision(View(t), CurrentItem(t), GatewayOf(t))
  IN  /\ tx[t].pc = "item" /\ HasItem(t)
      /\ ~KindConflict(View(t), CurrentItem(t))
      /\ d.action # "noop"
      /\ Becomes(t, [tx[t] EXCEPT !.pc = "nextval", !.action = d.action, !.target = d.id])
      /\ UNCHANGED <<client, sequences, tables, queue>>

\* Mutation: the sequence is read without being advanced.
PeekValue(t) ==
  /\ tx[t].pc = "nextval"
  /\ Becomes(t, [tx[t] EXCEPT !.pc = "write", !.seq = seq + 1])
  /\ UNCHANGED <<client, sequences, tables, queue>>

NextValue(t) ==
  /\ tx[t].pc = "nextval"
  /\ seq' = seq + 1
  /\ Becomes(t, [tx[t] EXCEPT !.pc = "write", !.seq = seq + 1])
  /\ UNCHANGED <<client, logIds, tables, queue>>

\* The primary key of an INSERT is taken, or the row's gateway does not exist.
WriteViolatesConstraint(t) ==
  \/ tx[t].action = "insert" /\ View(t)[tx[t].target] # NoRow
  \/ ~GatewayStored(t)

\* Mutation: every item is committed on its own.
WriteItemAutocommit(t) ==
  /\ tx[t].pc = "write" /\ ~WriteViolatesConstraint(t)
  /\ reports' = [reports EXCEPT ![tx[t].target] =
                    StoredRow(CurrentItem(t), GatewayOf(t), tx[t].seq)]
  /\ Becomes(t, [tx[t] EXCEPT !.pc = "item", !.i = @ + 1, !.applied = @ + 1])
  /\ UNCHANGED <<client, sequences, gateways, log, queue>>

\* Mutation: an UPDATE leaves server_sequence_id as it is.
WriteItemKeepsSequence(t) ==
  /\ tx[t].pc = "write"
  /\ RowHolders(t, tx[t].target) = {}
  /\ ~WriteViolatesConstraint(t)
  /\ LET old == View(t)[tx[t].target]
         kept == IF old = NoRow THEN tx[t].seq ELSE old.seq
     IN  Becomes(t, [tx[t] EXCEPT !.pc = "item",
                                 !.i = @ + 1,
                                 !.writes = [@ EXCEPT ![tx[t].target] =
                                     StoredRow(CurrentItem(t), GatewayOf(t), kept)],
                                 !.touched = @ \cup {tx[t].target},
                                 !.applied = @ + 1])
  /\ UNCHANGED <<client, sequences, tables, queue>>

\* INSERT, or UPDATE ... WHERE id = target, which replaces whatever row has been
\* committed under that id since it was read.
WriteItem(t) ==
  /\ tx[t].pc = "write"
  /\ RowHolders(t, tx[t].target) = {}
  /\ ~WriteViolatesConstraint(t)
  /\ Becomes(t, [tx[t] EXCEPT !.pc = "item",
                              !.i = @ + 1,
                              !.writes = [@ EXCEPT ![tx[t].target] =
                                  StoredRow(CurrentItem(t), GatewayOf(t), tx[t].seq)],
                              !.touched = @ \cup {tx[t].target},
                              !.applied = @ + 1])
  /\ UNCHANGED <<client, sequences, tables, queue>>

-----------------------------------------------------------------------------
(* The end of the batch. *)

NextLogValue(t) ==
  /\ tx[t].pc = "item" /\ ~HasItem(t)
  /\ seq' = seq + 1
  /\ Becomes(t, [tx[t] EXCEPT !.pc = "log", !.seq = seq + 1])
  /\ UNCHANGED <<client, logIds, tables, queue>>

NewLogRow(t) ==
  [key |-> Key(tx[t].req), seq |-> tx[t].seq, id |-> logIds + 1, applied |-> tx[t].applied]

\* Mutation: no unique constraint on (gateway_id, batch_id).
WriteLogUnchecked(t) ==
  /\ tx[t].pc = "log"
  /\ logIds' = logIds + 1
  /\ Becomes(t, [tx[t] EXCEPT !.pc = "commit", !.log = {NewLogRow(t)}])
  /\ UNCHANGED <<client, seq, tables, queue>>

\* INSERT INTO sync_logs, flushed by the commit.
WriteLog(t) ==
  /\ tx[t].pc = "log"
  /\ ~Logged(Key(tx[t].req)) /\ GatewayStored(t)
  /\ logIds' = logIds + 1
  /\ Becomes(t, [tx[t] EXCEPT !.pc = "commit", !.log = {NewLogRow(t)}])
  /\ UNCHANGED <<client, seq, tables, queue>>

\* The write set, the log row and a new gateway become visible at once.
Commit(t) ==
  /\ tx[t].pc = "commit"
  /\ reports' = View(t)
  /\ log' = log \cup tx[t].log
  /\ gateways' = gateways \cup {GatewayOf(t)}
  /\ Becomes(t, [tx[t] EXCEPT !.pc = "reply", !.locked = FALSE,
                              !.writes = NoWrites, !.log = {}])
  /\ UNCHANGED <<client, sequences, queue>>

\* After the commit: hand the touched reports to the broker, then answer.
Reply(t) ==
  /\ tx[t].pc = "reply"
  /\ queue' = IF tx[t].touched = {} THEN queue
              ELSE queue \cup {[key |-> Key(tx[t].req), ids |-> tx[t].touched]}
  /\ AnswerWith(tx[t].req, 200, tx[t].replay, tx[t].applied)
  /\ Becomes(t, IdleSession)
  /\ UNCHANGED <<now, attempts, faults, sequences, tables>>

-----------------------------------------------------------------------------
(* Everything that ends a push early.  A rollback discards the write set and *)
(* releases the locks; sequence values stay consumed.                        *)

RollBack(t, code) ==
  /\ Becomes(t, IdleSession)
  /\ AnswerWith(tx[t].req, code, FALSE, 0)
  /\ UNCHANGED <<now, attempts, seq, tables, queue>>

\* The id of the item is taken by a report of another kind.
RejectKind(t) ==
  /\ tx[t].pc = "item" /\ HasItem(t)
  /\ KindConflict(View(t), CurrentItem(t))
  /\ RollBack(t, 422)
  /\ UNCHANGED <<faults, logIds>>

\* An IntegrityError of the flush; no handler maps it.
WriteError(t) ==
  /\ tx[t].pc = "write"
  /\ RowHolders(t, tx[t].target) = {}
  /\ WriteViolatesConstraint(t)
  /\ RollBack(t, 500)
  /\ UNCHANGED <<faults, logIds>>

\* The unique constraint (gateway_id, batch_id), or the log's foreign key.  The
\* failed INSERT has taken an id.
LogError(t) ==
  /\ tx[t].pc = "log"
  /\ Logged(Key(tx[t].req)) \/ ~GatewayStored(t)
  /\ RollBack(t, 500)
  /\ logIds' = logIds + 1
  /\ UNCHANGED faults

\* The sessions t is waiting for.
WaitsFor(t) ==
  IF tx[t].pc = "gateway" THEN GatewayHolders(t)
  ELSE IF tx[t].pc = "write" THEN RowHolders(t, tx[t].target)
  ELSE {}

\* Mutation: nothing detects deadlocks.
NoDeadlockDetection(t) == FALSE

\* PostgreSQL breaks a cycle of waiting sessions by failing one of them.
DeadlockVictim(t) ==
  /\ \E S \in SUBSET Sessions : t \in S /\ UNION {WaitsFor(u) : u \in S} = S
  /\ RollBack(t, 500)
  /\ UNCHANGED <<faults, logIds>>

InTransaction(t) == tx[t].pc \notin {"idle", "reply"}

Fault ==
  /\ faults < MaxFaults
  /\ faults' = faults + 1

\* A database error or the test-only fault of the merge loop.
Fail(t) ==
  /\ Fault
  /\ InTransaction(t)
  /\ RollBack(t, 500)
  /\ UNCHANGED logIds

\* The broker refuses the task: the batch is committed, the answer is an error.
BrokerError(t) ==
  /\ Fault
  /\ tx[t].pc = "reply" /\ tx[t].touched # {}
  /\ RollBack(t, 500)
  /\ UNCHANGED logIds

\* The server or the connection dies: no answer, whatever was not committed is gone.
Crash(t) ==
  /\ Fault
  /\ tx[t].pc # "idle"
  /\ Becomes(t, IdleSession)
  /\ UNCHANGED <<now, attempts, answers, sequences, tables, queue>>

-----------------------------------------------------------------------------
\* Everything the server does for a push once it is begun.
Work(t) ==
  \/ FindReplay(t) \/ FindNoReplay(t) \/ TouchGateway(t)
  \/ SkipItem(t) \/ ReadItem(t) \/ NextValue(t) \/ WriteItem(t)
  \/ NextLogValue(t) \/ WriteLog(t) \/ Commit(t) \/ Reply(t)
  \/ RejectKind(t) \/ WriteError(t) \/ LogError(t) \/ DeadlockVictim(t)

Next ==
  \/ Tick
  \/ \E r \in Requests : Refuse(r)
  \/ \E t \in Sessions, r \in Requests : Begin(t, r)
  \/ \E t \in Sessions : Work(t) \/ Fail(t) \/ BrokerError(t) \/ Crash(t)

Spec == Init /\ [][Next]_vars

\* The event loop and the database eventually run every session that can run.
FairSpec == Spec /\ \A t \in Sessions : WF_vars(Work(t))

-----------------------------------------------------------------------------
(* What ingest keeps. *)

\* Types of the variables.
TypeOK ==
  /\ now \in Nat /\ seq \in Nat /\ logIds \in Nat
  /\ gateways \subseteq Gateways
  /\ reports \in [Ids -> Row \cup {NoRow}]
  /\ log \subseteq LogRow
  /\ tx \in [Sessions -> Session]
  /\ attempts \in [Requests -> Nat] /\ faults \in Nat
  /\ answers \subseteq Answer
  /\ queue \subseteq [key : Keys, ids : SUBSET Ids]

\* Every value of server_sequence_global is used by at most one row of reports
\* or sync_logs, and none lies beyond the sequence's last value.  The values
\* are taken by several sessions, outlive rollbacks, and replace each other
\* when a row is updated.
SequenceIdsUnique ==
  /\ \A x \in Ids : reports[x] # NoRow =>
       /\ reports[x].seq <= seq
       /\ \A y \in Ids : reports[y] # NoRow /\ reports[y].seq = reports[x].seq => x = y
       /\ \A l \in log : l.seq # reports[x].seq
  /\ \A l \in log : l.seq <= seq /\ \A m \in log : l.seq = m.seq => l = m

\* A batch is recorded once, however often and however concurrently it is sent.
BatchRecordedOnce == \A l, m \in log : l.key = m.key => l = m

\* A 200 tells the truth for good: its batch is recorded, with the applied
\* count of the answer, whichever attempt, session or crash produced it.
AcceptedIsRecorded ==
  \A a \in answers : a.code = 200 =>
    \E l \in log : l.key = Key(a.req) /\ l.applied = a.applied

\* What push r reports by primary key: SOS, and road and supply without a segment.
ReportedById(r) ==
  {<<ReceivedItem(r, i).id, ReceivedItem(r, i).kind>> :
     i \in {j \in DOMAIN Body[r].items : ~BySegment(ReceivedItem(r, j))}}

StoredAs(table, x, kind) == table[x] # NoRow /\ table[x].kind = kind

\* What was reported by primary key in a push answered 200, every SOS for one, is
\* stored as what it was reported, whoever else used the id; and triage tasks are only
\* ever queued for stored reports of a recorded batch.
AcceptedReportIsStored ==
  /\ \A a \in answers : a.code = 200 =>
       \A p \in ReportedById(a.req) : StoredAs(reports, p[1], p[2])
  /\ \A q \in queue : Logged(q.key) /\ \A x \in q.ids : reports[x] # NoRow

\* Pushes never change a stored SOS, never remove a row and never change its kind.
SosWriteOnce ==
  [][\A x \in Ids : reports[x] # NoRow =>
       /\ reports'[x] # NoRow /\ reports'[x].kind = reports[x].kind
       /\ reports[x].kind = "sos" => reports'[x] = reports[x]]_vars

\* Row x of table old, as replaced in table new, was overruled by the merge
\* policy: neither an older update nor a live row over a tombstone.
NotRegressed(old, new) ==
  /\ new.upd >= old.upd
  /\ old.tomb => new.tomb

\* A gateway never undoes its own newer write: pushes of one gateway are ordered
\* by the lock on its gateways row, from before their first read to the commit.
OwnWritesKept ==
  [][\A x \in Ids :
       reports[x] # NoRow /\ reports'[x] # NoRow /\ reports'[x].gw = reports[x].gw
         => NotRegressed(reports[x], reports'[x])]_vars

\* merge_policy.py:6,11: the surviving row never moves to an older update, nor
\* from a tombstone back to life.
SurvivorNeverRegresses ==
  [][\A x \in Ids : reports[x] # NoRow /\ reports'[x] # NoRow
        => NotRegressed(reports[x], reports'[x])]_vars

\* The sequence id of a row, the ordering signal of the pull, only grows.
RowSequenceGrows ==
  [][\A x \in Ids : reports[x] # NoRow /\ reports'[x] # reports[x]
        => reports'[x].seq > reports[x].seq]_vars

\* API_SPEC.md:67: one canonical row per (kind, segment_key).
OneRowPerSegment ==
  \A x, y \in Ids :
    /\ reports[x] # NoRow /\ reports[y] # NoRow
    /\ reports[x].seg # NoSeg /\ reports[x].seg = reports[y].seg
    /\ reports[x].kind \in {"road", "supply"} /\ reports[x].kind = reports[y].kind
    => x = y

\* Row ex has taken item, pushed by gw, into account: it is at least as recent,
\* or a tombstone that a live item cannot replace.
Accounts(ex, item, gw) ==
  \/ ex.tomb /\ ~IncomingIsTombstone(item)
  \/ ex.upd > item.upd
  \/ ex.upd = item.upd /\ ex.gw >= gw

\* Every road or supply item of a recorded batch is accounted for by a row of
\* its segment: nothing that was merged is lost to an older update.
MergedItemsAccounted ==
  \A r \in Requests : Logged(Key(r)) =>
    \A i \in DOMAIN Body[r].items :
      LET item == ReceivedItem(r, i)
      IN  BySegment(item) =>
            \E x \in Ids : /\ reports[x] # NoRow
                           /\ reports[x].kind = item.kind /\ reports[x].seg = item.seg
                           /\ Accounts(reports[x], item, Body[r].gw)

\* What every push under one key reports by primary key.
SentUnder(k) == {r \in Requests : Key(r) = k}
Reported ==
  [k \in {Key(r) : r \in Requests} |->
    {p \in UNION {ReportedById(r) : r \in SentUnder(k)} :
       \A r \in SentUnder(k) : p \in ReportedById(r)}]

\* The sessions, locks and retries of ingest implement the ledger: batches take
\* effect in one step or not at all, at most once, with fresh sequence ids, and
\* leave out nothing they report by primary key.
Ledger == INSTANCE BatchLedger WITH rows <- reports, ledger <- log
BatchesAreAtomic == Ledger!LedgerSpec

\* API_SPEC.md:357: a push whose batch is recorded is answered with the stored
\* counts, not with an error.
RecordedBatchIsReplayed ==
  [][\A a \in answers' \ answers : a.code = 500 => ~Logged(Key(a.req))]_vars

\* API_SPEC.md:86: with REQUIRE_GATEWAY_AUTH, a push carries the gateway's bearer
\* secret.  One that does, and that nothing fails, is not answered with an error 500.
AuthenticatedPushIsServed ==
  \A a \in answers : RequireAuth /\ Body[a.req].via = "http" => a.code # 500

\* API_SPEC.md:76: a segment whose canonical row is a tombstone has no live row
\* ever after.
DeletedSegmentsStayDeleted ==
  \A seg \in Segs, kind \in {"road", "supply"} :
    LET live == \E x \in Ids : /\ reports[x] # NoRow /\ ~reports[x].tomb
                              /\ reports[x].kind = kind /\ reports[x].seg = seg
        dead == \E x \in Canonical(reports, kind, seg) : reports[x].tomb
    IN  [](dead => []~live)

\* Every push that is begun ends, answered or cut off: waits for row and gateway
\* locks are not forever.
PushEnds == \A t \in Sessions : tx[t].pc # "idle" ~> tx[t].pc = "idle"
=============================================================================
