# Jibon Sathu backend: specification

TLA+ models of the Zone A backend: the cloud side that gateways ("Zone B") push
batches of road, supply and SOS reports to, and pull merged reports from. The
modules are translated from the Python source; `PROJECT.json` maps every definition
to the lines it stands for. Paths below are relative to the repository.

## The system

| Part | State it keeps | Operations | Hard behaviour |
|---|---|---|---|
| Merge policy (`app/services/merge_policy.py`) | none | decide insert, update or no-op for an item and the row it meets | ties, tombstones, repeated SOS ids |
| Batch ingest (`merge_service.py`, `sync_push.py`, `server_sequence.py`, `api/routes/sync.py`) | tables `gateways`, `reports`, `sync_logs`; sequence `server_sequence_global` | apply a batch in one transaction | every `await` lets other sessions run; READ COMMITTED reads without row locks; retries; crashes; lock cycles |
| gRPC ingest (`app/grpc_service`) | the same tables | the same merge, after a protobuf conversion | must mean what the HTTP push means |
| Pull (`sync_pull.py`) | the reader's cursor (kept by the gateway) | a page of reports after a sequence id | sequence ids become visible out of order |
| Conflicts log (`GET /v1/sync/conflicts`) | none | page `sync_logs` by id | the same question for `sync_logs.id` |
| Gateway authentication (`deps/gateway_auth.py`, `scripts/provision_gateway.py`) | secret hash and `revoked_at` in `gateways` | check a bearer secret; provision | shares the request's database session |
| Triage (`triage_enqueue.py`, `worker.py`, `tasks/triage.py`) | broker queue; `triage_status`, `priority_score` of reports | enqueue after commit; score a report | lost hand-over, stale scores, eager mode inside the event loop |
| Model registry (`model_publish.py`, `routes/models.py`, `scripts/publish_model.py`) | table `model_artifacts`, files on disk | publish, describe, download | file and row are not one transaction; concurrent publishes |
| Analytics (`analytics_service.py`) | a cache with a time to live | two read-only queries | stale answers up to the time to live |
| Rate limits, health, dev listing, export and demo scripts, gateway simulator | - | - | - |

Gateways call ingest and pull over HTTP, or ingest over gRPC in the same process.
All sessions share the PostgreSQL tables and nothing else: what one awaits, others
use to run. After its commit a push hands the ids of the reports it wrote to the
broker; the worker updates two columns of those reports in transactions of its own.

What makes each part correct: the policy is deterministic, keeps the most recent
report and never revives a deleted one; a batch takes effect in one step or not at all,
once, leaves out no report that it names by primary key, and its answer stays true; an SOS is never changed; a reader that follows its
cursor ends with the server's rows; triage reaches every accepted report and scores
what is stored; the published row and file of a model belong together.

## Modules

| Module | What it is | Code |
|---|---|---|
| `MergePolicy` | pure operators: items, rows, the two decisions, the stored row | `merge_policy.py`; the values written by `merge_service.py:150-236` |
| `SyncPush` | batch ingest, one action per awaited statement | `merge_service.py`, `routes/sync.py`, `grpc_service/ingest.py`, `triage_enqueue.py` |
| `SyncPull` | `SyncPush` with gateways that page through the reports and administrators that page through the log | `sync_pull.py`, `routes/sync.py:51-100` |
| `Triage` | `SyncPush` with the workers that score what pushes have written | `tasks/triage.py`, `triage_logic.py`, `db_sync.py`, `worker.py` |
| `Dashboard` | `Triage` with the map layers and their cache | `analytics_service.py`, `routes/analytics.py` |
| `ModelRegistry` | publishing, fetching and verifying models | `model_publish.py`, `routes/models.py`, `publish_model.py`, `gateway_sim.py:290-341` |
| `ModelCatalog` | abstract specification: releases are promoted atomically | what `API_SPEC.md:297` promises |
| `BatchLedger` | abstract specification: batches enter a ledger, atomically and once | what `merge_service.py:4-8` promises |
| `SyncPushInv` | the invariant of the sessions between their statements | - |
| `SyncPullInv` | what holds besides when all pushes come from one gateway, and of its readers | - |
| `SyncPushProofs`, `SyncPushSafety`, `SyncPushRows`, `SyncPushSequence`, `SyncPushLedger` | theorems of `SyncPush`: types; `sync_logs` and answers; SOS rows; sequence ids; refinement of `BatchLedger` and own rows | - |
| `TriageInv` | what holds of workers beside pushes | - |
| `ModelRegistryInv` | what holds of rows and files when every version has one upload | - |
| `OneGatewayProofs` | theorems of `SyncPull`: nothing is skipped, and what one gateway may rely on | - |
| `TriageProofs` | theorems of `Triage` and `Dashboard`: pushes beside workers, stale scores, refinement of `BatchLedger`, types | - |
| `RegistryProofs` | theorems of `ModelRegistry`: types, one latest row, answers, refinement of `ModelCatalog`, rows and files | - |
| `MCSyncPush`, `MCSyncPull`, `MCTriage`, `MCModelRegistry` | the pushes and uploads the runs send | - |

### SyncPush

A *session* `t` is a database session of one push. `tx[t]` is a record: `pc` is the
statement it is about to run, `req` the push, `i` the item, `writes` the rows it has
written and not committed, `locked` whether it holds its `gateways` row, `log` its
uncommitted `sync_logs` row.

| Action | Code |
|---|---|
| `Refuse` | the checks before any statement: authentication's own transaction, header ids, batch size, clock skew |
| `Begin` | `async with session.begin()` |
| `FindReplay`, `FindNoReplay` | SELECT of the `sync_logs` row (263-276) |
| `TouchGateway` | upsert (or UPDATE, with authentication) of the gateway row (278-297); waits for its lock |
| `SkipItem`, `ReadItem`, `RejectKind` | read the row the item merges with, and decide (139-195) |
| `NextValue`, `NextLogValue` | `SELECT nextval('server_sequence_global')` |
| `WriteItem`, `WriteError` | INSERT or UPDATE and its flush; waits for the row lock; primary and foreign keys |
| `WriteLog`, `LogError` | INSERT of the `sync_logs` row, flushed by the commit; unique constraint |
| `Commit`, `Reply`, `BrokerError` | COMMIT; the hand-over to the broker, then the answer |
| `DeadlockVictim` | PostgreSQL fails one session of a lock cycle |
| `Fail`, `Crash` | a database error or the test fault; the process or the connection dies |

PostgreSQL is modelled from how the code uses it: a SELECT sees the rows committed
at that moment, under the session's own writes (`View`); a written row is private
and locked to the end of the transaction; `nextval` is never rolled back; an INSERT
waits for another session's uncommitted row of the same key. UPDATE goes by primary
key, so after a wait it replaces whatever was committed.

Abstractions. Ids and gateways are numbers, so comparing their string forms is
comparing the numbers. `status`, `payload`, `created_at` and the audit JSON are not
stored, because no decision reads them. Instants are naturals; naive datetimes,
which make the clock check raise, are left out. A push with authentication on
carries valid credentials. A broker is configured. The rate limiter is left out: it
refuses before there is any effect. Answers are the HTTP codes; over gRPC anything
but 200 stands for a failed call. Client and server may both lose an answer: `Crash`
in state `reply`, and every push may be sent several times, also while it runs.

### SyncPull

`Pull(g)` is one response: the first `PageLimit` rows after the cursor (one SELECT,
so committed rows only), copied into the reader's replica, and `max_sequence_id`
as the new cursor. A lost response changes nothing. `Conflicts(a)` is one page of
`GET /v1/sync/conflicts`, after the last id the administrator has. `HasMore` and
`MoreEntries` are the flags of the two responses: the SELECT asks for one row more than
a page holds.

### Triage

A *worker* `w` runs one task at a time, in one transaction. `left` are the ids it has
still to do, `row` the report it has read, `marked` what each row it has updated was
scored from; a row in `marked` is locked.

| Action | Code |
|---|---|
| `SessionStep` | a step of `SyncPush`, unless the row it writes is locked by a worker; a row it commits has score NULL |
| `TakeTask` | Celery delivers a task, acknowledged at once (the default) |
| `ReadReport` | `session.get`, `compute_priority_score` |
| `UpdateReport` | UPDATE by id of the two triage columns; waits for the row lock |
| `CommitTriage` | the commit of `sync_session_scope` |
| `SessionVictim`, `WorkerVictim` | PostgreSQL fails one member of a lock cycle with a worker in it |
| `WorkerDies`, `SessionFault` | a worker or a push fails; the reports of its task are `lost`: not queued, or not scored again |

`lost` is a history variable, which nothing reads but the properties: it records the
reports a task of which was dropped, until a push replaces them and hands over a task of
their own. A hand-over that is lost after the commit (the crash of a push, or a broker
that refuses) leaves its reports pending until they are pushed again; the code has no
other remedy, so the properties exempt `lost`.

What status and payload of a report say (alarm, high priority, casualties) is `Detail`
of its update. `ReadReport` takes the ids in any order, which includes the order of the
task. Rows are never removed, so `session.get` finds them.

`TriageKeepsLedger` is a refinement again: with the triage column erased, pushes and
workers together implement `BatchLedger`.

### Dashboard

`BuildLayers`, `StoreLayers` and `Expire` are the SELECT of a request that misses the
cache, the SETEX with its answer, and the end of the time to live. Of a copy of the
layers only its age is kept, `current` or `stale`, and every step of `Triage` that
changes `Layers` turns a current copy stale (`Aging`): no code reads a copy for
anything but to pass it on. The SOS queue is a single uncached SELECT and has no action.

### ModelRegistry

Two stores: `artifacts`, the committed table, and `files`. A *publisher* is a request
of the API or a run of the script; `targets` are the rows its UPDATE has found, and
`cleared` those it has locked and written.

| Action | Code |
|---|---|
| `Reject` | keys, name, version, size (`routes/models.py:139-147`) |
| `OpenFile`, `WriteBytes` | `write_bytes`: the file is emptied, then filled (`model_publish.py:35`) |
| `StartClear`, `Clear` | UPDATE ... is_latest = false: its snapshot, then its locks |
| `Insert` | INSERT and flush, against the two unique indexes; waits for uncommitted rows |
| `InsertFails` | the flush raises an IntegrityError; `AfterIntegrityError`: the route goes on to remove the file (`routes/models.py:161`), the script ends |
| `CommitPublish`, `ReplyPublished` | commit, answer 201 |
| `Unlink` | the route removes the file (163) and answers 409 |
| `PublishError`, `PublishCrash` | any other error, answered 500, also after a COMMIT that is durable but not confirmed; a crash |
| `Describe` | `GET .../latest`, or `latest_model_version` of a pull |
| `Download`, `NoDownload` | the row is read again; headers; 304 and 404 |
| `Stream`, `Verify` | the file is opened after the headers; the gateway compares hashes |

A file's bytes and their SHA-256 are one value; `Torn` is a file that is not complete.
A file is streamed in one step: a mixture of two contents is no other case than `Torn`.
The unique indexes are checked together, after all waits. A publish that PostgreSQL
fails in a deadlock of INSERTs (possible with three publishes of one model) is a
`PublishError`. `ModelRegistry` implements `ModelCatalog`, whose step adds a release and
makes it the current one: only `CommitPublish` takes it.

### BatchLedger

The promise without sessions: a step enters one new batch and writes rows of its
gateway, at most as many as its applied count, each with a sequence id nobody holds
and smaller than the entry's; kinds stay and SOS rows are never replaced. The step is
complete in what the batch reports by primary key (`Reported`: SOS, and road and supply
without a segment): each of those reports is stored afterwards under its kind. Whether
an item of a segment is written depends on the merge, so the ledger says nothing of
those; that none is lost is `MergedItemsAccounted`, for one gateway.
`SyncPush` implements it (`BatchesAreAtomic`) with `rows <- reports`, `ledger <- log`:
only `Commit` takes an abstract step, everything else stutters.

## Runs

| Run | Shows | Bounds |
|---|---|---|
| `push_concurrent` | types; unique sequence ids; a batch recorded once; answers 200 stay true; accepted reports by primary key, every SOS among them, are stored, and no SOS is changed; a gateway never undoes its own newer write; atomic batches; the invariant of the proofs | 2 sessions, 2 gateways, 3 batches (5 items on 3 ids), one batch sent twice, one failure or crash |
| `one_gateway` | with one pushing gateway: neither a reader nor an administrator skips anything, a response without `has_more` completes what its reader has, one row per segment, no merged item is lost, no row regresses, sequence ids of a row grow, replicas converge; the invariant of the proofs | 2 sessions, 4 batches (7 items on 4 ids), pages of one row |
| `triage` | one worker: a stale score is never final unless a task of the stored report was dropped, scores converge, pushes and tasks end, triage changes nothing else, the map catches up; the invariant of the proofs | 2 sessions, 2 batches (5 items on 3 ids), 1 worker, 1 dashboard, a map of one row, one failure or crash |
| `model_registry` | distinct versions: one latest row per model, rows and files agree, downloads match their ETag, 201 is final, promotion is atomic, publishes end, a gateway ends with the latest model; the invariants of the proofs | 2 publishers, 4 uploads (3 accepted) of 2 models, one sent twice, one gateway, one failure or crash |

The bounds let the interesting cases happen: two sessions are enough for every race
of one push with another and for a lock cycle (the locks are exclusive, and two
batches write the same two rows in opposite orders); the third batch is a later write
of the first gateway, so that an own newer write can be undone if the gateway lock is
missing; one repeated batch covers replay, the retry in flight, and the retry after a
crash. In `triage` the two batches write a road and a supply in opposite orders, so
that a worker and a session can wait for each other, and either batch can replace what
the other's task has read. In `model_registry` the two versions of one model meet on
both indexes, one published by the route and one by the script, and the gateway's model
changes with the first release of the other one. For the properties the theorems below state they remove the bounds.

Deadlock checking is off in all runs: `MaxAttempts` bounds how often a push or an upload
is sent, after which the system has nothing to do.

Eight runs show where the documents promise more than the code keeps; each names the
sentence in `findings` of `PROJECT.json`.

| Run | What TLC finds |
|---|---|
| `lost_update` | two gateways: an older update replaces a newer one committed between the read and the UPDATE (also a live report a tombstone) |
| `duplicate_canonical` | two gateways insert the first row of a segment at once |
| `retry_in_flight` | a retry concurrent with its first attempt is answered 500, although the batch is recorded |
| `detached_segment` | a delete repeated without `segment_key` detaches the tombstone, and the segment comes back to life |
| `authenticated_push` | with `REQUIRE_GATEWAY_AUTH` every HTTP push is answered 500: the session is in a transaction already |
| `skipped_row` | a row committed behind a reader's cursor is never pulled |
| `republished_version` | a version published again, by a retry or with other content, overwrites, and with the 409 removes, the file of the registered one |
| `stale_score` | two workers: the older task updates a report last, and the wrong score stays |

`one_gateway` is their counterpart: the row lock on `gateways`, taken before the first
read and kept to the commit, orders all batches of one gateway, and with a single
pushing gateway the promises hold. `triage` is the counterpart of `stale_score` (one
worker process runs tasks one after the other, so a report that is replaced under a task
is scored again by a later one), and `model_registry` that of `republished_version`: each
version has one upload, and a client sends that again only after an answer that refused
it, 409 or 422. A 500 and a lost answer do not say whether the version is registered: a
client that repeats its upload after one of them meets the duplicate check, and the 409
removes the file of its own first attempt. `republished_version` has such a client
(`Impatient`), `model_registry` leaves it out.

Three hazards keep a limit. Rows that go backwards (`merge_service.py:230`) and log ids
that appear out of order (`routes/sync.py:79`) need two pushing gateways:
`RowSequenceGrows` and `NoEntrySkipped` say that one gateway is safe, and with two the
failure is that of `skipped_row`, since all three ids are drawn before the commit. A lost
hand-over (`routes/sync.py:39`) is exempted, as said of `lost`.

Fairness. `FairSpec` asks weak fairness of `Work(t)`: the event loop runs every ready
coroutine, PostgreSQL grants a lock that stays free and finds deadlocks (after
`deadlock_timeout`). Nothing is assumed of clients, crashes or failures. `FairSyncSpec`
adds that a reader keeps polling, as the API asks of gateways. `FairDashboardSpec` adds
the workers (Celery delivers tasks), dashboards that keep refreshing, and the time to
live, which Redis enforces. `FairRegistrySpec` asks it of each publish and of a gateway
that repeats the documented workflow (`API_SPEC.md:309`). Weak fairness is enough
throughout: a lock is released at the end of a transaction, PostgreSQL queues those who
wait for one, and the runs bound the number of pushes and uploads, so nobody is overtaken
for ever.

## Proofs

Checked by TLAPS for every value of the constants, from the named assumptions
of `MergePolicy`, `SyncPush` (ids and gateways are numbers, bodies are well-typed
pushes, there is a session, a push and an id), `SyncPull` (readers are gateways, a page
holds a row), `Triage` (workers are no sessions, "no score" is no number, reports have
details), `Dashboard` (the limit is a number) and `ModelRegistry` (uploads are
publications, there is one, attempts are counted). What a theorem needs beyond those is
an ASSUME of its own.

- `TypeCorrect`: `Spec => []TypeOK`. Not inductive alone: that the item a session
  writes exists, and where log rows come from, is `SessionShape`.
- `BatchesRecordedOnce`: `Spec => []BatchRecordedOnce`. The unique check and the commit
  are two steps. `PendingUnrecorded` (the batch a session is about to commit is not
  recorded) bridges them, and it survives another session's commit because of
  `GatewayLocks`: a session at its commit holds its gateway row, so two of them have
  different gateways and hence different keys.
- `AcceptedAreRecorded`: `Spec => []AcceptedIsRecorded`. `SessionShape` keeps, from the
  commit or the replay to the answer, the recorded row the answer is taken from; the
  log only grows.
- `StoredSosIsFinal`: `Spec => SosWriteOnce`, an action property. The test that a row
  is no SOS and the write of it are separate statements, with a wait for the row lock
  between them. `UpdatesFitTheirRow` carries the result of the test from `ReadItem` to
  `WriteItem`: kinds of rows never change, so another session's commit cannot turn
  the planned target into an SOS. `RowLocks` carries it from the write to the commit:
  a row has one uncommitted writer, so nobody commits an SOS under it.
- `AcceptedReportsAreStored`: `Spec => []AcceptedReportIsStored`, if pushes under one batch key
  report the same by primary key (`OneContentPerKey`; a replay is answered 200 without a
  look at its items, so without this there is nothing to prove). `ItemsOnTheWay`: an item
  that was skipped met a row of its id and kind, and rows are never removed and keep their
  kind; at the commit every report by primary key is stored or in the write set.
  `QueuedReportsAreStored` comes with it: tasks name stored rows of recorded batches.
- `SequenceIdsAreUnique`: `Spec => []SequenceIdsUnique`. `SequenceIdsOwned` follows a
  value from `nextval` through the session's variable and its uncommitted row to the
  tables: it has one holder at a time, and none is ahead of the sequence.
- `IngestIsALedger`: `Spec => BatchesAreAtomic`, the refinement of `BatchLedger`. A commit
  writes its whole write set and its entry at once; `WriteSets` says what is in it (rows
  of its own gateway, no more than it has counted, with ids below the entry's),
  `PendingUnrecorded` that the entry is new, `SequenceIdsOwned` that the ids are fresh,
  `RowLocks` that kinds and SOS rows survive, and `ItemsOnTheWay` that nothing reported by
  primary key is missing (`CommitIsComplete`). Every other step stutters.
- `OwnWritesAreKept`: `Spec => OwnWritesKept`, an action property. `OwnRowsInOrder`: what
  a session plans or holds over a row of its own gateway is not older than it. Rows of
  this gateway are committed by holders of its lock only (`WriteSets`, `GatewayLocks`), so
  nothing moves between the read of such a row and the commit. This is exactly what is
  missing for rows of other gateways (`lost_update`).
- `InvariantIsInductive`: `Spec => []InductiveInv`, all of these parts together.

`OneGatewayProofs` is about `SyncPull`, for any readers, page size, sessions and retries.
`ReadersOnlyRead` (`SyncSpec => Spec`) carries the theorems above over. `OneGateway`, all
pushes name one gateway, makes its row lock a lock on the whole ingest: sessions that hold
anything hold the lock (`RowsOfTheGateway`), so at most one does. `SyncInvariantIsInductive`
is `SyncSpec => []SyncInv`, and from it:

- `PullSkipsNothing` and `ConflictsSkipNothing`: the values that the holder has drawn lie
  above all committed ones (`PendingAbove`, `PendingIds`), so no cursor can have passed
  them (`ReadersBehind`). Within one response, a page is the least `PageLimit` rows after
  the cursor, and its greatest sequence id is the new cursor: that a row below it is on
  the page is a counting argument over the finite tables (`FiniteTables`).
- `LastPagesComplete`: if no more rows lie beyond the cursor than a page holds, the page is
  all of them, and what lies behind the cursor is held already (`PullSkipsNothing`).
- `OneRowPerSegmentOfGateway`: the holder sees no second row of a segment in its view and
  plans an INSERT only where the view has none (`SegmentsInHand`); nobody commits under it.
- `MergedItemsAreAccounted`, if a key stands for one content (`SameItemsPerKey`) and no id
  is reported with a segment and without one (`IdsKeepSegment`): items behind the holder
  are accounted for in its view (`ItemsBehind`), and a row that accounts for an item is
  replaced only by one that accounts for it too.
- `SurvivorsNeverRegress`, `RowSequencesGrow`: `OwnRowsInOrder` and `PendingAbove` at the
  commit. `SyncTypeCorrect` needs no `OneGateway`.

The hypotheses are needed: with two gateways `skipped_row`, `duplicate_canonical` and
`lost_update` show the conclusions violated, and `detached_segment` shows what an id does
that loses its segment. They are also meaningful: the batches of `one_gateway`, which runs
two sessions at once, satisfy all of them.

`TriageProofs` is about any sessions, workers and failures.

- `IngestHoldsBesideTriage` (`TriageSpec => []InductiveInv`, part of `TriageInvariant`): a commit of a worker changes
  the column `triage` of rows and nothing else, and no conjunct of `InductiveInv` reads it
  but the types. Steps of pushes are steps of `SyncPush`, whose preservation is proved
  already. `TriageTypeCorrect` and `DashboardTypeCorrect` are the types.
- `TriageKeepsTheLedger`: `TriageSpec => TriageKeepsLedger`. With the column erased a
  commit of a push is still one step of `BatchLedger`, and all that workers do stutters.
- `StaleScoreIsRedone`: for one worker, `TriageSpec => []StaleScoreWillBeRedone`. The
  invariant must say of a report that was replaced under the worker that read it that its
  new version is still to be scored. `ReadsDated`: the sequence id tells whether what the
  worker has read is what is stored, as no session commits a second row under that id.
  `HandOvers`: what a session writes is handed over, once, so the task of the new version
  is not the one being run, and dropping it is recorded in `lost` until the report is
  replaced once more. `MarkLocks`: between the
  UPDATE of the worker and its commit nobody replaces the row. `ReplacedHaveNoScore`: the
  commit of a push puts the score to NULL, and with one worker nobody else has scored the
  report since. With two workers that last part is false, as `stale_score` shows.
- `DashboardsOnlyRead`: `DashboardSpec => TriageSpec`.

- `OneLatest`, `AnsweredIsRegistered`, `RegistryImplementsCatalog` of `RegistryProofs`
  hold for any publishers, uploads, retries and faults, patient clients or not. The
  unique indexes are checked when the INSERT runs and the row appears at the commit;
  `ReadyToCommit` (the check still holds) bridges the two, and another commit cannot
  break it because of `OneCommitPerName`: an INSERT waits for a rival that has inserted.
  With the check still true `CommitEffect` gives the whole effect of a commit, the older
  rows demoted and the new one added, which is the step of `ModelCatalog`. What
  `Clear` has locked is not needed: the partial unique index alone keeps the promise, the
  UPDATE only makes the INSERT succeed. `StreamHasPath` is there for the types.
  `PublishHolds` states these parts.
- `EveryArtifactHasItsFile` and `DownloadsMatchTheirEtag` need two hypotheses: no two
  accepted uploads share a path (`DistinctVersions`) and clients send an upload again only
  when every attempt was refused (`PatientClients`: not before the answer, nor after a
  500). Files are written before their row exists, so
  the proof must exclude that a publish opens the file of a registered version.
  `RegisteredIsAnswered` does: if an upload is registered, its client has a 201 or a 500 or
  is still without an answer, and repeats it in none of these cases. It rests on `AttemptsInOrder` (an
  upload is on its way once, and an attempt is answered at most once), which makes a lost
  answer visible in the counts. `FilesInHand` then has a publisher's file written and its
  row absent up to the commit, and `StreamsOfRows` a download's row in the table, so that
  the file, opened later, still has the bytes the ETag names. Without the first hypothesis
  `republished_version` violates the conclusion, and the 409 of a second upload would
  remove the file even if its content were the same; the uploads of `model_registry`
  satisfy both, and the client of `first` there does send twice.

`SyncPushSafety` first states what each action does (`CommitDoes`, `WriteItemDoes`,
...); the preservation proofs use those facts only.

The conjuncts of `InductiveInv`, `SyncInv`, `TriageInv`, `PublishInv` and `FilesInv` were
model-checked first, and `push_concurrent`, `one_gateway`, `triage` and `model_registry`
still check them.

Every safety and action property that a passing run checks is stated by a theorem. Only
model-checked, because out of the prover's reach, are liveness under fairness (`PushEnds`,
`TriageEnds`, `PublishesEnd`, `ReplicasConverge`, `ScoresConverge`, `DashboardsConverge`,
`GatewaysCatchUp`), `ENABLED`, and induction over data: the prover's library states its
rules with operator parameters, which no installed backend instantiates. Least and
greatest numbers of a set, which `OneGatewayProofs` needs, come from the well-foundedness
of the naturals instead, which the library states without one.

## Plan

Done: ingest, pull and conflicts log, triage, map layers, model registry, their runs, and
the theorems above. Next, in this order:

1. Lemmas on the decisions of `MergePolicy`; the order of merges as a check of its own.

## Not modelled

- Rate limiting: a counter of a library, which refuses before there is any effect.
- Health and development routes, settings and application start; ONNX export, demo data,
  load tests; generated protobuf code. They keep no shared state or are offline tools.
- Eager mode of Celery, which the documents keep for tests, and a server without a
  broker, where reports stay pending.
- Revoking and re-provisioning gateways: with authentication on no HTTP push reaches the
  merge (`authenticated_push`), and every other route runs one SELECT after the check.
- That gRPC drops `is_tombstone`: `ReceivedItem` does so, but no property compares the
  two transports. Likewise the 500 in place of a 422 for an id of another kind whose item
  names a segment (`WriteError`).
- On equal time and gateway the policy compares an item's id with the survivor's primary
  key, so the winner can depend on the order of arrival: modelled in
  `IncomingBeatsExistingRow`, stated by no property.
