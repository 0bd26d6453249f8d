---------------------------- MODULE ModelRegistry ----------------------------
(***************************************************************************)
(* Model distribution: table model_artifacts in PostgreSQL and the .onnx   *)
(* files under MODEL_ARTIFACTS_BASE_DIR.  A publish, by HTTP or by         *)
(* scripts/publish_model.py, writes the file first and then, in one        *)
(* transaction, clears is_latest of the older rows and inserts its own.    *)
(* Gateways look the latest row up, download its file and compare hashes.  *)
(*                                                                         *)
(* The transaction is READ COMMITTED: the UPDATE works on the rows that    *)
(* are committed when it starts, waits for those another session has       *)
(* written, and the INSERT waits for another session's conflicting row     *)
(* before it is checked against the two unique indexes.                    *)
(*                                                                         *)
(* A file's bytes and its SHA-256 are one abstract value.                  *)
(***************************************************************************)
EXTENDS Integers, Sequences, FiniteSets

CONSTANTS
  Publishers,   \* publishes in flight: requests of the API, runs of the script
  Uploads,      \* what is published
  Upload,       \* Upload[u]: name, version, content, and how it is sent
  Impatient,    \* uploads whose client sends again before it has an answer
  Names, Versions, Contents,
  Torn,         \* content of a file that is not completely written
  NoFile,       \* no such file; also, nothing installed
  Fetchers,     \* gateways that fetch a model
  Wanted,       \* Wanted[g]: the model name gateway g is configured with
  FromPull,     \* ... or that it follows latest_model_version of its pulls
  MaxAttempts,  \* bound: how often an upload is sent, MaxAttempts[u]
  MaxFaults     \* bound: spontaneous errors and crashes

\* accepted: key, name, version, size pass the checks the route makes first.
Publication == [name : Names, version : Versions, data : Contents,
                via : {"http", "script"}, accepted : BOOLEAN]

ASSUME UploadIsPublication == Upload \in [Uploads -> Publication] /\ Uploads # {}
ASSUME NamesAreOrdered == Names \subseteq Nat
ASSUME ContentsAreWhole == Torn \notin Contents /\ NoFile \notin Contents /\ Torn # NoFile
ASSUME FetchersWantNames == Wanted \in [Fetchers -> Names \cup {FromPull}] /\ FromPull \notin Names
ASSUME RegistryBounds == MaxAttempts \in [Uploads -> Nat] /\ MaxFaults \in Nat

VARIABLES
  artifacts,  \* committed table model_artifacts
  files,      \* content of file <name>/<version>.onnx
  pub,        \* what each publisher is doing
  attempts,   \* how often each upload was sent
  replies,    \* codes the client of each upload has received
  fetch,      \* what each gateway is doing
  installed,  \* the model each gateway has verified last
  faults      \* spontaneous failures so far

clients == <<attempts, replies, faults>>
gatewaySide == <<fetch, installed>>
registryVars == <<artifacts, files, pub, attempts, replies, fetch, installed, faults>>

Paths == Names \X Versions
Artifact == [name : Names, version : Versions, sha : Contents, latest : BOOLEAN]

PublishSteps == {"idle", "write", "clear", "lock", "insert", "commit", "unlink", "reply"}
Publisher == [pc : PublishSteps, up : Uploads, targets : SUBSET Versions, cleared : SUBSET Versions]
IdlePublisher == [pc |-> "idle", up |-> CHOOSE u \in Uploads : TRUE, targets |-> {}, cleared |-> {}]

\* name, sha: the metadata a gateway has read; version, etag: the row its download
\* was answered from; body: what arrived.
Fetch == [pc : {"idle", "described", "streaming", "received"},
          name : Names \cup {FromPull}, sha : Contents \cup {NoFile},
          version : Versions \cup {NoFile}, etag : Contents \cup {NoFile},
          body : Contents \cup {NoFile, Torn}]
IdleFetch == [pc |-> "idle", name |-> FromPull, sha |-> NoFile,
              version |-> NoFile, etag |-> NoFile, body |-> NoFile]

RegistryInit ==
  /\ artifacts = {}
  /\ files = [f \in Paths |-> NoFile]
  /\ pub = [p \in Publishers |-> IdlePublisher]
  /\ attempts = [u \in Uploads |-> 0]
  /\ replies = [u \in Uploads |-> <<>>]
  /\ fetch = [g \in Fetchers |-> IdleFetch]
  /\ installed = [g \in Fetchers |-> NoFile]
  /\ faults = 0

-----------------------------------------------------------------------------
(* What a publisher's statements see and wait for. *)

PublishBecomes(p, state) == pub' = [pub EXCEPT ![p] = state]
Of(p) == Upload[pub[p].up]
Rival(p, q) == q # p /\ pub[q].pc # "idle" /\ Of(q).name = Of(p).name

\* Mutation: one file per model name.
OneFilePerName(up) == <<up.name, CHOOSE v \in Versions : TRUE>>

\* storage_path, below the base directory.
StoragePath(up) == <<up.name, up.version>>

Rows(name) == {a \in artifacts : a.name = name}
Latest(name) == {a \in Rows(name) : a.latest}

\* Publishers whose uncommitted UPDATE has locked a row p wants to clear.
ClearHolders(p) == {q \in Publishers : Rival(p, q) /\ pub[q].cleared \cap pub[p].targets # {}}

\* Mutation: an INSERT does not wait for another session's uncommitted row.
LatestHolders(p) ==
  {q \in Publishers : Rival(p, q) /\ \E a \in Latest(Of(p).name) : a.version \in pub[q].cleared}

\* Publishers whose uncommitted row, or whose uncommitted change of the latest row,
\* decides whether p's row is unique.
InsertHolders(p) ==
  {q \in Publishers :
     /\ Rival(p, q)
     /\ \/ pub[q].pc = "commit"
        \/ \E a \in Latest(Of(p).name) : a.version \in pub[q].cleared}

\* uq_model_artifacts_name_version, uq_model_artifacts_one_latest_per_name.
Violates(p) ==
  \E a \in Rows(Of(p).name) :
    \/ a.version = Of(p).version
    \/ a.latest /\ a.version \notin pub[p].cleared

-----------------------------------------------------------------------------
(* Publishing. *)

InFlight(u) == \E p \in Publishers : pub[p].pc # "idle" /\ pub[p].up = u

\* A patient client sends again only what was refused: a lost answer, like a 500,
\* leaves open whether the upload is registered.
MaySend(u) ==
  /\ attempts[u] < MaxAttempts[u]
  /\ \/ u \in Impatient
     \/ /\ ~InFlight(u) /\ Len(replies[u]) = attempts[u]
        /\ \A i \in DOMAIN replies[u] : replies[u][i] \notin {201, 500}

Answered(u, code) == replies' = [replies EXCEPT ![u] = Append(@, code)]

\* 401, 404, 413, 422: answered before anything is written.
Reject(u) ==
  /\ MaySend(u) /\ ~Upload[u].accepted
  /\ attempts' = [attempts EXCEPT ![u] = @ + 1]
  /\ Answered(u, 422)
  /\ UNCHANGED <<artifacts, files, pub, faults, gatewaySide>>

\* The file is opened for writing, which empties it.
OpenFile(p, u) ==
  /\ pub[p].pc = "idle"
  /\ MaySend(u) /\ Upload[u].accepted
  /\ attempts' = [attempts EXCEPT ![u] = @ + 1]
  /\ files' = [files EXCEPT ![StoragePath(Upload[u])] = Torn]
  /\ PublishBecomes(p, [IdlePublisher EXCEPT !.pc = "write", !.up = u])
  /\ UNCHANGED <<artifacts, replies, faults, gatewaySide>>

WriteBytes(p) ==
  /\ pub[p].pc = "write"
  /\ files' = [files EXCEPT ![StoragePath(Of(p))] = Of(p).data]
  /\ PublishBecomes(p, [pub[p] EXCEPT !.pc = "clear"])
  /\ UNCHANGED <<artifacts, clients, gatewaySide>>

\* The UPDATE starts: the rows of the name that are committed now.
StartClear(p) ==
  /\ pub[p].pc = "clear"
  /\ PublishBecomes(p, [pub[p] EXCEPT !.pc = "lock",
                                     !.targets = {a.version : a \in Rows(Of(p).name)}])
  /\ UNCHANGED <<artifacts, files, clients, gatewaySide>>

\* Mutation: the older rows lose is_latest in a transaction of their own.
ClearAutocommit(p) ==
  /\ pub[p].pc = "lock"
  /\ ClearHolders(p) = {}
  /\ artifacts' = {[a EXCEPT !.latest = a.latest /\ a.name # Of(p).name] : a \in artifacts}
  /\ PublishBecomes(p, [pub[p] EXCEPT !.pc = "insert", !.cleared = {}])
  /\ UNCHANGED <<files, clients, gatewaySide>>

\* The UPDATE has locked and written them all.
Clear(p) ==
  /\ pub[p].pc = "lock"
  /\ ClearHolders(p) = {}
  /\ PublishBecomes(p, [pub[p] EXCEPT !.pc = "insert", !.cleared = pub[p].targets])
  /\ UNCHANGED <<artifacts, files, clients, gatewaySide>>

\* Mutation: the session is closed without a commit.
InsertUncommitted(p) ==
  /\ pub[p].pc = "insert"
  /\ InsertHolders(p) = {} /\ ~Violates(p)
  /\ PublishBecomes(p, [pub[p] EXCEPT !.pc = "reply", !.targets = {}, !.cleared = {}])
  /\ UNCHANGED <<artifacts, files, clients, gatewaySide>>

\* INSERT of the new latest row, flushed: it waits for rows it may conflict with.
Insert(p) ==
  /\ pub[p].pc = "insert"
  /\ InsertHolders(p) = {} /\ ~Violates(p)
  /\ PublishBecomes(p, [pub[p] EXCEPT !.pc = "commit"])
  /\ UNCHANGED <<artifacts, files, clients, gatewaySide>>

\* Mutation: the row is registered without its hash.
UnhashedArtifact(up) == [name |-> up.name, version |-> up.version, sha |-> NoFile, latest |-> TRUE]

NewArtifact(up) == [name |-> up.name, version |-> up.version, sha |-> up.data, latest |-> TRUE]

CommitPublish(p) ==
  /\ pub[p].pc = "commit"
  /\ artifacts' = {[a EXCEPT !.latest = a.latest /\ ~(a.name = Of(p).name /\ a.version \in pub[p].cleared)] :
                     a \in artifacts} \cup {NewArtifact(Of(p))}
  /\ PublishBecomes(p, [pub[p] EXCEPT !.pc = "reply", !.targets = {}, !.cleared = {}])
  /\ UNCHANGED <<files, clients, gatewaySide>>

ReplyPublished(p) ==
  /\ pub[p].pc = "reply"
  /\ Answered(pub[p].up, 201)
  /\ PublishBecomes(p, IdlePublisher)
  /\ UNCHANGED <<artifacts, files, attempts, faults, gatewaySide>>

\* Mutation: a failed publish leaves its transaction open.
NeverFails(p) == FALSE

\* The script ends with an IntegrityError; the route goes on to remove the file.
AfterIntegrityError(p) ==
  IF Of(p).via = "http"
  THEN /\ PublishBecomes(p, [IdlePublisher EXCEPT !.pc = "unlink", !.up = pub[p].up])
       /\ UNCHANGED replies
  ELSE /\ PublishBecomes(p, IdlePublisher)
       /\ Answered(pub[p].up, 500)

\* The INSERT raises an IntegrityError, and the transaction is rolled back.
InsertFails(p) ==
  /\ pub[p].pc = "insert"
  /\ InsertHolders(p) = {} /\ Violates(p)
  /\ AfterIntegrityError(p)
  /\ UNCHANGED <<artifacts, files, attempts, faults, gatewaySide>>

Unlink(p) ==
  /\ pub[p].pc = "unlink"
  /\ files' = [files EXCEPT ![StoragePath(Of(p))] = NoFile]
  /\ Answered(pub[p].up, 409)
  /\ PublishBecomes(p, IdlePublisher)
  /\ UNCHANGED <<artifacts, attempts, faults, gatewaySide>>

PublishFault == faults < MaxFaults /\ faults' = faults + 1

\* Mutation: the route removes the file after any exception.
PublishErrorUnlinks(p) ==
  /\ PublishFault
  /\ pub[p].pc \in {"write", "clear", "lock", "insert", "commit", "reply"}
  /\ files' = [files EXCEPT ![StoragePath(Of(p))] = NoFile]
  /\ PublishBecomes(p, IdlePublisher)
  /\ Answered(pub[p].up, 500)
  /\ UNCHANGED <<artifacts, attempts, gatewaySide>>

\* Mutation: the route answers any exception with 409.
PublishErrorIsConflict(p) ==
  /\ PublishFault
  /\ pub[p].pc \in {"write", "clear", "lock", "insert", "commit", "reply"}
  /\ PublishBecomes(p, IdlePublisher)
  /\ Answered(pub[p].up, 409)
  /\ UNCHANGED <<artifacts, files, attempts, gatewaySide>>

\* An error of the disk or of the database other than those, answered 500; the file
\* stays as it is, and so does the row of a COMMIT whose confirmation is lost.
PublishError(p) ==
  /\ PublishFault
  /\ pub[p].pc \in {"write", "clear", "lock", "insert", "commit", "reply"}
  /\ PublishBecomes(p, IdlePublisher)
  /\ Answered(pub[p].up, 500)
  /\ UNCHANGED <<artifacts, files, attempts, gatewaySide>>

\* The process or the connection to the client dies.
PublishCrash(p) ==
  /\ PublishFault
  /\ pub[p].pc # "idle"
  /\ PublishBecomes(p, IdlePublisher)
  /\ UNCHANGED <<artifacts, files, attempts, replies, gatewaySide>>

-----------------------------------------------------------------------------
(* Fetching. *)

\* The latest row of the gateway's model, or of the model pulls name: the first
\* name, in order, that has one.
WantedRow(g) ==
  {a \in artifacts :
     /\ a.latest
     /\ IF Wanted[g] = FromPull THEN \A b \in artifacts : b.latest => a.name <= b.name
        ELSE a.name = Wanted[g]}

FetchBecomes(g, state) == fetch' = [fetch EXCEPT ![g] = state]

\* GET .../latest, or latest_model_version of a pull.
Describe(g) ==
  /\ fetch[g].pc = "idle"
  /\ \E a \in WantedRow(g) :
       FetchBecomes(g, [IdleFetch EXCEPT !.pc = "described", !.name = a.name, !.sha = a.sha])
  /\ UNCHANGED <<artifacts, files, pub, clients, installed>>

\* Mutation: the download is answered from any version of the model.
AnyRow(g) == Rows(fetch[g].name)

\* The row a download is answered from, read anew.
DownloadRow(g) == Latest(fetch[g].name)

\* GET .../latest/file: the headers are sent, the file is opened after them.
Download(g) ==
  /\ fetch[g].pc = "described"
  /\ \E a \in DownloadRow(g) :
       /\ files[<<a.name, a.version>>] # NoFile
       /\ FetchBecomes(g, [fetch[g] EXCEPT !.pc = "streaming", !.version = a.version, !.etag = a.sha])
  /\ UNCHANGED <<artifacts, files, pub, clients, installed>>

\* 304 to If-None-Match with the hash of the installed model, 404 without a file.
NoDownload(g) ==
  /\ fetch[g].pc = "described"
  /\ \E a \in DownloadRow(g) : a.sha = installed[g] \/ files[<<a.name, a.version>>] = NoFile
  /\ FetchBecomes(g, IdleFetch)
  /\ UNCHANGED <<artifacts, files, pub, clients, installed>>

\* The bytes of the file; a file that is gone breaks the connection.
Stream(g) ==
  /\ fetch[g].pc = "streaming"
  /\ LET content == files[<<fetch[g].name, fetch[g].version>>]
     IN  FetchBecomes(g, IF content = NoFile THEN IdleFetch
                         ELSE [fetch[g] EXCEPT !.pc = "received", !.body = content])
  /\ UNCHANGED <<artifacts, files, pub, clients, installed>>

\* The gateway keeps a model whose hash is that of the metadata, and no other.
Verify(g) ==
  /\ fetch[g].pc = "received"
  /\ installed' = IF fetch[g].body = fetch[g].sha THEN [installed EXCEPT ![g] = fetch[g].body]
                  ELSE installed
  /\ FetchBecomes(g, IdleFetch)
  /\ UNCHANGED <<artifacts, files, pub, clients>>

-----------------------------------------------------------------------------
PublishWork(p) ==
  \/ WriteBytes(p) \/ StartClear(p) \/ Clear(p) \/ Insert(p) \/ CommitPublish(p)
  \/ ReplyPublished(p) \/ InsertFails(p) \/ Unlink(p)

FetchWork(g) == Describe(g) \/ Download(g) \/ NoDownload(g) \/ Stream(g) \/ Verify(g)

RegistryNext ==
  \/ \E u \in Uploads : Reject(u)
  \/ \E p \in Publishers, u \in Uploads : OpenFile(p, u)
  \/ \E p \in Publishers : PublishWork(p) \/ PublishError(p) \/ PublishCrash(p)
  \/ \E g \in Fetchers : FetchWork(g)

RegistrySpec == RegistryInit /\ [][RegistryNext]_registryVars

\* The event loop, the script and the database go on with a publish that can go on,
\* and gateways keep asking for their model.
FairRegistrySpec ==
  /\ RegistrySpec
  /\ \A p \in Publishers : WF_registryVars(PublishWork(p))
  /\ \A g \in Fetchers : WF_registryVars(FetchWork(g))

-----------------------------------------------------------------------------
\* Types of the variables.
RegistryTypeOK ==
  /\ artifacts \subseteq Artifact
  /\ files \in [Paths -> Contents \cup {NoFile, Torn}]
  /\ pub \in [Publishers -> Publisher]
  /\ attempts \in [Uploads -> Nat]
  /\ replies \in [Uploads -> Seq({201, 409, 422, 500})]
  /\ fetch \in [Fetchers -> Fetch]
  /\ installed \in [Fetchers -> Contents \cup {NoFile}]
  /\ faults \in Nat

\* A model that was ever published has exactly one latest row, whatever publishes
\* run at once, fail or die (model_publish.py:26-53).
OneLatestPerName ==
  \A n \in Names : Rows(n) # {} => \E a \in Rows(n) : Latest(n) = {a}

\* Every registered version has its file, whole and with the registered hash: the
\* file is written before the row can be seen, and a failed publish removes only
\* what it wrote itself.
ArtifactHasItsFile ==
  \A a \in artifacts : files[<<a.name, a.version>>] = a.sha

\* API_SPEC.md:278: the bytes of a download are those its ETag is the hash of,
\* although the file is opened after the row was read.
EtagMatchesBytes ==
  \A g \in Fetchers : fetch[g].pc = "received" => fetch[g].body = fetch[g].etag

Registered(u) == \E a \in Rows(Upload[u].name) : a.version = Upload[u].version /\ a.sha = Upload[u].data

\* A publish answered 201 is registered for good, with the content that was sent.
PublishedIsRegistered ==
  \A u \in Uploads : \A i \in DOMAIN replies[u] :
    replies[u][i] = 201 => Registered(u)

\* Why the above hold: the check of the unique indexes is still true when its
\* transaction commits, because no two publishes of a model are between the two at
\* once; a publish about to be answered is registered (model_publish.py:44-53).
ReadyToCommit == \A p \in Publishers : pub[p].pc = "commit" => ~Violates(p)
OneCommitPerName == \A p, q \in Publishers : pub[p].pc = "commit" => ~(Rival(p, q) /\ pub[q].pc = "commit")
AnswerIsRegistered == \A p \in Publishers : pub[p].pc = "reply" => Registered(pub[p].up)
StreamHasPath ==
  \A g \in Fetchers : fetch[g].pc = "streaming" => <<fetch[g].name, fetch[g].version>> \in Paths
PublishInv == ReadyToCommit /\ OneCommitPerName /\ AnswerIsRegistered /\ StreamHasPath

\* What rows say of releases.
Releases(rows) == {[name |-> a.name, version |-> a.version, sha |-> a.sha] : a \in rows}
LatestOf(rows) == {a \in rows : a.latest}

\* API_SPEC.md:297: a publish promotes its row and demotes the others in one step.
Catalog == INSTANCE ModelCatalog WITH
  releases <- Releases(artifacts), current <- Releases(LatestOf(artifacts))
PublishesAreAtomic == Catalog!CatalogSpec

\* Publishes that wait for each other's rows all end.
PublishesEnd == \A p \in Publishers : pub[p].pc # "idle" ~> pub[p].pc = "idle"

\* Once publishing ceases every gateway ends with the latest version of its model,
\* verified (API_SPEC.md:309).
GatewaysCatchUp ==
  <>[](\A g \in Fetchers : \A a \in WantedRow(g) : installed[g] = a.sha)
=============================================================================
