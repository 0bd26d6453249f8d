--------------------------- MODULE RegistryProofs ---------------------------
(***************************************************************************)
(* Theorems of ModelRegistry: types; one latest row per model; what was    *)
(* answered 201 is registered; publishing implements ModelCatalog; rows    *)
(* and files agree.                                                        *)
(***************************************************************************)
EXTENDS ModelRegistryInv, TLAPS

\* All publisher states are records of this type.
LEMMA IdleTypes ==
  /\ IdlePublisher \in Publisher
  /\ IdleFetch \in Fetch
<1>1. (CHOOSE u \in Uploads : TRUE) \in Uploads
  BY UploadIsPublication
<1>2. IdlePublisher \in Publisher
  BY <1>1 DEF IdlePublisher, Publisher, PublishSteps
<1>3. IdleFetch \in Fetch
  BY DEF IdleFetch, Fetch
<1> QED
  BY <1>2, <1>3

\* What a publisher publishes is a publication, stored under a known path.
LEMMA PublicationTypes ==
  ASSUME NEW u \in Uploads
  PROVE  /\ Upload[u] \in Publication
         /\ StoragePath(Upload[u]) \in Paths
         /\ NewArtifact(Upload[u]) \in Artifact
<1>1. Upload[u] \in Publication
  BY UploadIsPublication
<1> QED
  BY <1>1 DEF Publication, StoragePath, Paths, NewArtifact, Artifact

\* Codes a client may receive.
LEMMA AnsweredTypes ==
  ASSUME replies \in [Uploads -> Seq({201, 409, 422, 500})],
         NEW u \in Uploads, NEW code \in {201, 409, 422, 500}, Answered(u, code)
  PROVE  replies' \in [Uploads -> Seq({201, 409, 422, 500})]
  BY DEF Answered

\* Clearing is_latest keeps every row in the table's type.
LEMMA ClearedRowTypes ==
  ASSUME NEW a \in Artifact, NEW b \in BOOLEAN
  PROVE  /\ [a EXCEPT !.latest = b] \in Artifact
         /\ [a EXCEPT !.latest = b].name = a.name
         /\ [a EXCEPT !.latest = b].version = a.version
         /\ [a EXCEPT !.latest = b].sha = a.sha
         /\ [a EXCEPT !.latest = b].latest = b
  BY DEF Artifact

-----------------------------------------------------------------------------
\* The registry's own steps.
LEMMA PublishTypes ==
  ASSUME RegistryTypeOK, NEW p \in Publishers, PublishWork(p)
  PROVE  RegistryTypeOK'
<1> USE DEF RegistryTypeOK
<1>1. pub[p] \in Publisher
  OBVIOUS
<1>2. /\ pub[p].up \in Uploads
      /\ pub[p].targets \in SUBSET Versions
      /\ pub[p].cleared \in SUBSET Versions
  BY <1>1 DEF Publisher
<1>3. Of(p) \in Publication /\ StoragePath(Of(p)) \in Paths /\ NewArtifact(Of(p)) \in Artifact
  BY <1>2, PublicationTypes DEF Of
<1>4. ASSUME WriteBytes(p) PROVE RegistryTypeOK'
  <2>1. [pub[p] EXCEPT !.pc = "clear"] \in Publisher
    BY <1>1, <1>2 DEF Publisher, PublishSteps
  <2>2. Of(p).data \in Contents
    BY <1>3 DEF Publication
  <2>3. files' \in [Paths -> Contents \cup {NoFile, Torn}]
    BY <1>4, <2>2 DEF WriteBytes
  <2> QED
    BY <1>4, <2>1, <2>3 DEF WriteBytes, clients, gatewaySide, PublishBecomes
<1>5. ASSUME StartClear(p) PROVE RegistryTypeOK'
  <2>1. {a.version : a \in Rows(Of(p).name)} \in SUBSET Versions
    BY DEF Rows, Artifact
  <2>2. [pub[p] EXCEPT !.pc = "lock", !.targets = {a.version : a \in Rows(Of(p).name)}] \in Publisher
    BY <1>1, <1>2, <2>1 DEF Publisher, PublishSteps
  <2> QED
    BY <1>5, <2>2 DEF StartClear, clients, gatewaySide, PublishBecomes
<1>6. ASSUME Clear(p) PROVE RegistryTypeOK'
  <2>1. [pub[p] EXCEPT !.pc = "insert", !.cleared = pub[p].targets] \in Publisher
    BY <1>1, <1>2 DEF Publisher, PublishSteps
  <2> QED
    BY <1>6, <2>1 DEF Clear, clients, gatewaySide, PublishBecomes
<1>7. ASSUME Insert(p) PROVE RegistryTypeOK'
  <2>1. [pub[p] EXCEPT !.pc = "commit"] \in Publisher
    BY <1>1, <1>2 DEF Publisher, PublishSteps
  <2> QED
    BY <1>7, <2>1 DEF Insert, clients, gatewaySide, PublishBecomes
<1>8. ASSUME CommitPublish(p) PROVE RegistryTypeOK'
  <2>1. [pub[p] EXCEPT !.pc = "reply", !.targets = {}, !.cleared = {}] \in Publisher
    BY <1>1, <1>2 DEF Publisher, PublishSteps
  <2>2. artifacts' \subseteq Artifact
    <3>1. \A a \in artifacts :
            [a EXCEPT !.latest = a.latest /\ ~(a.name = Of(p).name /\ a.version \in pub[p].cleared)] \in Artifact
      <4> TAKE a \in artifacts
      <4> DEFINE still == a.latest /\ ~(a.name = Of(p).name /\ a.version \in pub[p].cleared)
      <4>1. still \in BOOLEAN /\ a \in Artifact
        OBVIOUS
      <4> HIDE DEF still
      <4> QED
        BY <4>1, ClearedRowTypes
    <3> QED
      BY <1>3, <1>8, <3>1 DEF CommitPublish
  <2> QED
    BY <1>8, <2>1, <2>2 DEF CommitPublish, clients, gatewaySide, PublishBecomes
<1>9. ASSUME ReplyPublished(p) PROVE RegistryTypeOK'
  <2>1. replies' \in [Uploads -> Seq({201, 409, 422, 500})]
    BY <1>2, <1>9, AnsweredTypes DEF ReplyPublished
  <2> QED
    BY <1>9, <2>1, IdleTypes DEF ReplyPublished, gatewaySide, PublishBecomes
<1>10. ASSUME InsertFails(p) PROVE RegistryTypeOK'
  <2>1. [IdlePublisher EXCEPT !.pc = "unlink", !.up = pub[p].up] \in Publisher
    BY <1>2, IdleTypes DEF Publisher, PublishSteps
  <2>2. replies' \in [Uploads -> Seq({201, 409, 422, 500})]
    BY <1>2, <1>10, AnsweredTypes DEF InsertFails, AfterIntegrityError
  <2>3. pub' \in [Publishers -> Publisher]
    <3>1. \/ PublishBecomes(p, [IdlePublisher EXCEPT !.pc = "unlink", !.up = pub[p].up])
          \/ PublishBecomes(p, IdlePublisher)
      BY <1>10 DEF InsertFails, AfterIntegrityError
    <3>2. IdlePublisher \in Publisher
      BY IdleTypes
    <3> DEFINE unlinking == [IdlePublisher EXCEPT !.pc = "unlink", !.up = pub[p].up]
    <3>3. PICK s \in {IdlePublisher, unlinking} : PublishBecomes(p, s)
      BY <3>1
    <3>4. s \in Publisher
      BY <2>1, <3>2
    <3> QED
      BY <3>3, <3>4 DEF PublishBecomes
  <2> QED
    BY <1>10, <2>2, <2>3 DEF InsertFails, AfterIntegrityError, gatewaySide
<1>11. ASSUME Unlink(p) PROVE RegistryTypeOK'
  <2>1. replies' \in [Uploads -> Seq({201, 409, 422, 500})]
    BY <1>2, <1>11, AnsweredTypes DEF Unlink
  <2> QED
    BY <1>11, <2>1, <1>3, IdleTypes DEF Unlink, gatewaySide, PublishBecomes
<1> QED
  BY <1>4, <1>5, <1>6, <1>7, <1>8, <1>9, <1>10, <1>11 DEF PublishWork

\* The clients' requests and the faults.
LEMMA RequestTypes ==
  ASSUME RegistryTypeOK,
         \/ \E u \in Uploads : Reject(u)
         \/ \E p \in Publishers, u \in Uploads : OpenFile(p, u)
         \/ \E p \in Publishers : PublishError(p) \/ PublishCrash(p)
  PROVE  RegistryTypeOK'
<1> USE DEF RegistryTypeOK
<1>1. ASSUME NEW u \in Uploads, Reject(u) PROVE RegistryTypeOK'
  <2>1. replies' \in [Uploads -> Seq({201, 409, 422, 500})]
    BY <1>1, AnsweredTypes DEF Reject
  <2>2. attempts' \in [Uploads -> Nat]
    <3>1. attempts[u] + 1 \in Nat
      OBVIOUS
    <3> QED
      BY <1>1, <3>1 DEF Reject
  <2> QED
    BY <1>1, <2>1, <2>2 DEF Reject, gatewaySide
<1>2. ASSUME NEW p \in Publishers, NEW u \in Uploads, OpenFile(p, u) PROVE RegistryTypeOK'
  <2>1. [IdlePublisher EXCEPT !.pc = "write", !.up = u] \in Publisher
    BY IdleTypes DEF Publisher, PublishSteps
  <2>2. files' \in [Paths -> Contents \cup {NoFile, Torn}]
    BY <1>2, PublicationTypes DEF OpenFile
  <2>3. pub' \in [Publishers -> Publisher]
    BY <1>2, <2>1 DEF OpenFile, PublishBecomes
  <2>4. attempts' \in [Uploads -> Nat]
    <3>1. attempts[u] + 1 \in Nat
      OBVIOUS
    <3> QED
      BY <1>2, <3>1 DEF OpenFile
  <2> QED
    BY <1>2, <2>2, <2>3, <2>4 DEF OpenFile, gatewaySide
<1>3. ASSUME NEW p \in Publishers, PublishError(p) \/ PublishCrash(p) PROVE RegistryTypeOK'
  <2>1. pub[p] \in Publisher
    OBVIOUS
  <2>2. pub[p].up \in Uploads
    BY <2>1 DEF Publisher
  <2>3. replies' \in [Uploads -> Seq({201, 409, 422, 500})]
    BY <1>3, <2>2, AnsweredTypes DEF PublishError, PublishCrash
  <2>4. pub' \in [Publishers -> Publisher]
    <3>1. PublishBecomes(p, IdlePublisher)
      BY <1>3 DEF PublishError, PublishCrash
    <3> QED
      BY <3>1, IdleTypes DEF PublishBecomes
  <2> QED
    BY <1>3, <2>3, <2>4 DEF PublishError, PublishCrash, PublishFault, gatewaySide
<1> QED
  BY <1>1, <1>2, <1>3

\* The gateways' requests; the path of a file being sent is known.
LEMMA FetchTypes ==
  ASSUME RegistryTypeOK, StreamHasPath, NEW g \in Fetchers, FetchWork(g)
  PROVE  RegistryTypeOK' /\ StreamHasPath'
<1> USE DEF RegistryTypeOK, StreamHasPath
<1>1. fetch[g] \in Fetch
  OBVIOUS
<1>2. ASSUME Describe(g) PROVE RegistryTypeOK' /\ StreamHasPath'
  <2>1. PICK a \in artifacts :
          fetch' = [fetch EXCEPT ![g] =
                      [IdleFetch EXCEPT !.pc = "described", !.name = a.name, !.sha = a.sha]]
    BY <1>2 DEF Describe, FetchBecomes, WantedRow
  <2>2. /\ [IdleFetch EXCEPT !.pc = "described", !.name = a.name, !.sha = a.sha] \in Fetch
        /\ [IdleFetch EXCEPT !.pc = "described", !.name = a.name, !.sha = a.sha].pc = "described"
    BY IdleTypes DEF Fetch, Artifact
  <2> QED
    BY <1>2, <2>1, <2>2 DEF Describe, clients
<1>3. ASSUME Download(g) PROVE RegistryTypeOK' /\ StreamHasPath'
  <2>1. PICK a \in artifacts :
          /\ a.name = fetch[g].name
          /\ fetch' = [fetch EXCEPT ![g] =
                         [fetch[g] EXCEPT !.pc = "streaming", !.version = a.version, !.etag = a.sha]]
    BY <1>3 DEF Download, FetchBecomes, DownloadRow, Latest, Rows
  <2>2. /\ [fetch[g] EXCEPT !.pc = "streaming", !.version = a.version, !.etag = a.sha] \in Fetch
        /\ [fetch[g] EXCEPT !.pc = "streaming", !.version = a.version, !.etag = a.sha].name = a.name
        /\ [fetch[g] EXCEPT !.pc = "streaming", !.version = a.version, !.etag = a.sha].version = a.version
        /\ <<a.name, a.version>> \in Paths
    BY <1>1, <2>1 DEF Fetch, Artifact, Paths
  <2> QED
    BY <1>3, <2>1, <2>2 DEF Download, clients
<1>4. ASSUME NoDownload(g) PROVE RegistryTypeOK' /\ StreamHasPath'
  BY <1>4, IdleTypes DEF NoDownload, clients, FetchBecomes, IdleFetch
<1>5. ASSUME Stream(g) PROVE RegistryTypeOK' /\ StreamHasPath'
  <2> DEFINE content == files[<<fetch[g].name, fetch[g].version>>]
  <2>1. content \in Contents \cup {NoFile, Torn}
    BY <1>5 DEF Stream
  <2>2. CASE content = NoFile
    BY <1>5, <2>2, IdleTypes DEF Stream, clients, FetchBecomes, IdleFetch
  <2>3. CASE content # NoFile
    <3>1. /\ [fetch[g] EXCEPT !.pc = "received", !.body = content] \in Fetch
          /\ [fetch[g] EXCEPT !.pc = "received", !.body = content].pc = "received"
      BY <1>1, <2>1 DEF Fetch
    <3> QED
      BY <1>5, <2>3, <3>1 DEF Stream, clients, FetchBecomes
  <2> QED
    BY <2>2, <2>3
<1>6. ASSUME Verify(g) PROVE RegistryTypeOK' /\ StreamHasPath'
  <2>1. fetch[g].sha \in Contents \cup {NoFile}
    BY <1>1 DEF Fetch
  <2>2. installed' \in [Fetchers -> Contents \cup {NoFile}]
    BY <1>6, <2>1 DEF Verify
  <2> QED
    BY <1>6, <2>2, IdleTypes DEF Verify, clients, FetchBecomes, IdleFetch
<1> QED
  BY <1>2, <1>3, <1>4, <1>5, <1>6 DEF FetchWork

\* Every step keeps the types.
LEMMA TypeStep ==
  ASSUME RegistryTypeOK, StreamHasPath, [RegistryNext]_registryVars
  PROVE  RegistryTypeOK' /\ StreamHasPath'
<1>1. ASSUME NEW p \in Publishers, PublishWork(p) PROVE fetch' = fetch
  BY <1>1 DEF PublishWork, WriteBytes, StartClear, Clear, Insert, CommitPublish,
              ReplyPublished, InsertFails, AfterIntegrityError, Unlink, gatewaySide
<1>2. ASSUME \/ \E u \in Uploads : Reject(u)
             \/ \E p \in Publishers, u \in Uploads : OpenFile(p, u)
             \/ \E p \in Publishers : PublishError(p) \/ PublishCrash(p)
      PROVE  fetch' = fetch
  BY <1>2 DEF Reject, OpenFile, PublishError, PublishCrash, gatewaySide
<1>3. CASE UNCHANGED registryVars
  BY <1>3 DEF registryVars, RegistryTypeOK, StreamHasPath
<1>4. CASE RegistryNext
  BY <1>1, <1>2, <1>4, PublishTypes, RequestTypes, FetchTypes DEF RegistryNext, StreamHasPath
<1> QED
  BY <1>3, <1>4

-----------------------------------------------------------------------------
(* What a step may do to the table and to the publishes at their commit. *)

\* A commit demotes the older rows of its model, adds its own, and leaves the others.
LEMMA CommitEffect ==
  ASSUME RegistryTypeOK, NEW p \in Publishers, CommitPublish(p), ~Violates(p)
  PROVE  artifacts' = {a \in artifacts : a.name # Of(p).name}
                      \cup {[a EXCEPT !.latest = FALSE] : a \in Rows(Of(p).name)}
                      \cup {NewArtifact(Of(p))}
<1> DEFINE still(a) == a.latest /\ ~(a.name = Of(p).name /\ a.version \in pub[p].cleared)
<1>1. artifacts' = {[a EXCEPT !.latest = still(a)] : a \in artifacts} \cup {NewArtifact(Of(p))}
  BY DEF CommitPublish
<1>2. \A a \in artifacts : a \in Artifact /\ still(a) \in BOOLEAN
  BY DEF RegistryTypeOK
<1>3. ASSUME NEW a \in artifacts, a.name # Of(p).name PROVE [a EXCEPT !.latest = still(a)] = a
  <2>1. still(a) = a.latest
    BY <1>3, <1>2 DEF Artifact
  <2> HIDE DEF still
  <2> QED
    BY <2>1, <1>2 DEF Artifact
<1>4. ASSUME NEW a \in artifacts, a.name = Of(p).name
      PROVE  [a EXCEPT !.latest = still(a)] = [a EXCEPT !.latest = FALSE]
  <2>1. still(a) = FALSE
    BY <1>4, <1>2 DEF Violates, Rows
  <2> QED
    BY <2>1
<1> HIDE DEF still
<1> QED
  BY <1>1, <1>3, <1>4 DEF Rows

\* The same, by model: only the committed model's rows change, and its latest row is
\* the new one.
LEMMA CommitRows ==
  ASSUME RegistryTypeOK, NEW p \in Publishers, CommitPublish(p), ~Violates(p),
         NEW N, N = Of(p).name
  PROVE  /\ \A n \in Names : n # N => Rows(n)' = Rows(n) /\ Latest(n)' = Latest(n)
         /\ Latest(N)' = {NewArtifact(Of(p))}
         /\ NewArtifact(Of(p)) \in Rows(N)'
         /\ \A a \in artifacts : \E b \in artifacts' :
              b.name = a.name /\ b.version = a.version /\ b.sha = a.sha
         /\ \A b \in artifacts' : b = NewArtifact(Of(p)) \/
              \E a \in artifacts : b.name = a.name /\ b.version = a.version /\ b.sha = a.sha
<1> DEFINE new == NewArtifact(Of(p))
           demoted(a) == [a EXCEPT !.latest = FALSE]
<1>1. artifacts' = {a \in artifacts : a.name # N} \cup {demoted(a) : a \in Rows(N)} \cup {new}
  BY CommitEffect
<1>2. \A a \in artifacts : a \in Artifact
  BY DEF RegistryTypeOK
<1>3. \A a \in artifacts : /\ demoted(a).name = a.name /\ demoted(a).version = a.version
                           /\ demoted(a).sha = a.sha /\ demoted(a).latest = FALSE
  BY <1>2 DEF Artifact
<1>4. new.name = N /\ new.latest = TRUE
  BY DEF NewArtifact
<1> HIDE DEF new, demoted
<1>5. \A n \in Names : n # N => Rows(n)' = Rows(n)
  BY <1>1, <1>3, <1>4 DEF Rows
<1>6. \A n \in Names : n # N => Latest(n)' = Latest(n)
  BY <1>5 DEF Latest
<1>7. {a \in Rows(N)' : a.latest} = {new} /\ new \in Rows(N)'
  BY <1>1, <1>3, <1>4 DEF Rows
<1>8. \A a \in artifacts : \E b \in artifacts' :
        b.name = a.name /\ b.version = a.version /\ b.sha = a.sha
  BY <1>1, <1>3 DEF Rows
<1>9. \A b \in artifacts' : b = new \/
        \E a \in artifacts : b.name = a.name /\ b.version = a.version /\ b.sha = a.sha
  BY <1>1, <1>3 DEF Rows
<1> QED
  BY <1>5, <1>6, <1>7, <1>8, <1>9 DEF new, Latest, Rows

\* Every step but an INSERT and a commit leaves the table alone, and puts no publish
\* at its commit or at its answer.
Aside ==
  /\ artifacts' = artifacts
  /\ \A q \in Publishers : pub'[q] = pub[q] \/ pub'[q].pc \notin {"commit", "reply"}

LEMMA StepKinds ==
  ASSUME RegistryTypeOK, [RegistryNext]_registryVars
  PROVE  Aside \/ \E p \in Publishers : Insert(p) \/ CommitPublish(p)
<1>1. ASSUME NEW p \in Publishers, NEW s \in Publisher, s.pc \notin {"commit", "reply"},
             artifacts' = artifacts, PublishBecomes(p, s)
      PROVE  Aside
  BY <1>1 DEF Aside, PublishBecomes, RegistryTypeOK
<1>2. IdlePublisher \in Publisher /\ IdlePublisher.pc = "idle"
  BY IdleTypes DEF IdlePublisher
<1>3. ASSUME NEW p \in Publishers
      PROVE  /\ pub[p] \in Publisher /\ pub[p].up \in Uploads /\ pub[p].targets \in SUBSET Versions
  BY DEF RegistryTypeOK, Publisher
<1>4. ASSUME NEW u \in Uploads, Reject(u) PROVE Aside
  BY <1>4 DEF Reject, Aside
<1>5. ASSUME NEW p \in Publishers, NEW u \in Uploads, OpenFile(p, u) PROVE Aside
  <2> DEFINE s == [IdlePublisher EXCEPT !.pc = "write", !.up = u]
  <2>1. s \in Publisher /\ s.pc = "write"
    BY <1>2 DEF Publisher, PublishSteps
  <2> QED
    BY <1>1, <1>5, <2>1 DEF OpenFile
<1>6. ASSUME NEW p \in Publishers, WriteBytes(p) PROVE Aside
  <2> DEFINE s == [pub[p] EXCEPT !.pc = "clear"]
  <2>1. s \in Publisher /\ s.pc = "clear"
    BY <1>3 DEF Publisher, PublishSteps
  <2> QED
    BY <1>1, <1>6, <2>1 DEF WriteBytes
<1>7. ASSUME NEW p \in Publishers, StartClear(p) PROVE Aside
  <2> DEFINE s == [pub[p] EXCEPT !.pc = "lock", !.targets = {a.version : a \in Rows(Of(p).name)}]
  <2>1. {a.version : a \in Rows(Of(p).name)} \in SUBSET Versions
    BY DEF Rows, Artifact, RegistryTypeOK
  <2>2. s \in Publisher /\ s.pc = "lock"
    BY <1>3, <2>1 DEF Publisher, PublishSteps
  <2> QED
    BY <1>1, <1>7, <2>2 DEF StartClear
<1>8. ASSUME NEW p \in Publishers, Clear(p) PROVE Aside
  <2> DEFINE s == [pub[p] EXCEPT !.pc = "insert", !.cleared = pub[p].targets]
  <2>1. s \in Publisher /\ s.pc = "insert"
    BY <1>3 DEF Publisher, PublishSteps
  <2> QED
    BY <1>1, <1>8, <2>1 DEF Clear
<1>9. ASSUME NEW p \in Publishers, InsertFails(p) PROVE Aside
  <2> DEFINE s == [IdlePublisher EXCEPT !.pc = "unlink", !.up = pub[p].up]
  <2>1. s \in Publisher /\ s.pc = "unlink"
    BY <1>2, <1>3 DEF Publisher, PublishSteps
  <2>2. artifacts' = artifacts /\ (PublishBecomes(p, s) \/ PublishBecomes(p, IdlePublisher))
    BY <1>9 DEF InsertFails, AfterIntegrityError
  <2> QED
    BY <1>1, <1>2, <2>1, <2>2
<1>10. ASSUME NEW p \in Publishers,
              ReplyPublished(p) \/ Unlink(p) \/ PublishError(p) \/ PublishCrash(p)
       PROVE  Aside
  <2>1. artifacts' = artifacts /\ PublishBecomes(p, IdlePublisher)
    BY <1>10 DEF ReplyPublished, Unlink, PublishError, PublishCrash
  <2> QED
    BY <1>1, <1>2, <2>1
<1>11. ASSUME NEW g \in Fetchers, FetchWork(g) PROVE Aside
  BY <1>11 DEF FetchWork, Describe, Download, NoDownload, Stream, Verify, Aside
<1>12. CASE UNCHANGED registryVars
  BY <1>12 DEF registryVars, Aside
<1> QED
  BY <1>4, <1>5, <1>6, <1>7, <1>8, <1>9, <1>10, <1>11, <1>12 DEF RegistryNext, PublishWork

-----------------------------------------------------------------------------
(* The check of the unique indexes still holds at the commit. *)

\* No step makes a check untrue, or brings a second publish of a model to its commit.
LEMMA CommitsStayReady ==
  ASSUME RegistryTypeOK, ReadyToCommit, OneCommitPerName, [RegistryNext]_registryVars
  PROVE  ReadyToCommit' /\ OneCommitPerName'
<1>1. CASE Aside
  <2>1. ReadyToCommit'
    BY <1>1 DEF Aside, ReadyToCommit, Violates, Rows, Of
  <2>2. OneCommitPerName'
    BY <1>1 DEF Aside, OneCommitPerName, Rival, Of
  <2> QED
    BY <2>1, <2>2
<1>2. ASSUME NEW p \in Publishers, Insert(p) PROVE ReadyToCommit' /\ OneCommitPerName'
  <2>1. /\ \A q \in Publishers : q # p => pub'[q] = pub[q]
        /\ pub'[p].up = pub[p].up /\ pub'[p].cleared = pub[p].cleared
        /\ artifacts' = artifacts
    BY <1>2 DEF Insert, PublishBecomes, RegistryTypeOK, Publisher
  <2>2. ~Violates(p)'
    BY <1>2, <2>1 DEF Insert, Violates, Rows, Of
  <2>3. ReadyToCommit'
    BY <2>1, <2>2 DEF ReadyToCommit, Violates, Rows, Of
  <2>4. \A q \in Publishers : q # p /\ pub[q].pc = "commit" => Of(q).name # Of(p).name
    BY <1>2 DEF Insert, InsertHolders, Rival
  <2>5. \A q \in Publishers : Of(q)' = Of(q)
    BY <2>1 DEF Of
  <2>6. OneCommitPerName'
    BY <2>1, <2>4, <2>5 DEF OneCommitPerName, Rival
  <2> QED
    BY <2>3, <2>6
<1>3. ASSUME NEW p \in Publishers, CommitPublish(p) PROVE ReadyToCommit' /\ OneCommitPerName'
  <2>1. /\ \A q \in Publishers : q # p => pub'[q] = pub[q]
        /\ pub'[p].pc = "reply"
    BY <1>3 DEF CommitPublish, PublishBecomes, RegistryTypeOK, Publisher
  <2>2. ASSUME NEW q \in Publishers, pub'[q].pc = "commit" PROVE ~Violates(q)'
    <3>1. q # p /\ pub[q].pc = "commit" /\ pub[p].pc = "commit"
      BY <1>3, <2>1, <2>2 DEF CommitPublish
    <3>2. Of(q).name # Of(p).name
      BY <3>1 DEF OneCommitPerName, Rival
    <3>3. Of(q).name \in Names /\ ~Violates(p) /\ ~Violates(q)
      BY <3>1, UploadIsPublication DEF ReadyToCommit, Of, Publication, RegistryTypeOK, Publisher
    <3> DEFINE N == Of(q).name
    <3>4. \A n \in Names : n # Of(p).name => Rows(n)' = Rows(n)
      BY <1>3, <3>3, CommitRows
    <3>5. pub'[q] = pub[q]
      BY <2>1, <3>1
    <3>6. \A a : a \in Rows(Of(q).name)' <=> a \in Rows(Of(q).name)
      BY <3>2, <3>3, <3>4, <3>5 DEF Of, Rows
    <3> QED
      BY <3>3, <3>5, <3>6 DEF Violates, Of
  <2>3. OneCommitPerName'
    BY <1>3, <2>1 DEF OneCommitPerName, Rival, Of
  <2> QED
    BY <2>2, <2>3 DEF ReadyToCommit
<1> QED
  BY <1>1, <1>2, <1>3, StepKinds

-----------------------------------------------------------------------------
(* One latest row; what was answered is registered. *)

LEMMA OneLatestStep ==
  ASSUME RegistryTypeOK, ReadyToCommit, OneLatestPerName, [RegistryNext]_registryVars
  PROVE  OneLatestPerName'
<1>1. CASE artifacts' = artifacts
  BY <1>1 DEF OneLatestPerName, Rows, Latest
<1>2. ASSUME NEW p \in Publishers, CommitPublish(p) PROVE OneLatestPerName'
  <2>1. ~Violates(p)
    BY <1>2 DEF ReadyToCommit, CommitPublish
  <2>2. PICK N : N = Of(p).name
    OBVIOUS
  <2>3. \A n \in Names : n # N => Rows(n)' = Rows(n) /\ Latest(n)' = Latest(n)
    BY <1>2, <2>1, <2>2, CommitRows
  <2>4. Latest(N)' = {NewArtifact(Of(p))} /\ NewArtifact(Of(p)) \in Rows(N)'
    BY <1>2, <2>1, <2>2, CommitRows
  <2> QED
    BY <2>3, <2>4 DEF OneLatestPerName
<1> QED
  BY <1>1, <1>2, StepKinds DEF Aside, Insert

\* Nothing that is registered is ever removed or changed but for is_latest.
LEMMA RegisteredStays ==
  ASSUME RegistryTypeOK, ReadyToCommit, [RegistryNext]_registryVars,
         NEW u \in Uploads, Registered(u)
  PROVE  Registered(u)'
<1>1. CASE artifacts' = artifacts
  BY <1>1 DEF Registered, Rows
<1>2. ASSUME NEW p \in Publishers, CommitPublish(p) PROVE Registered(u)'
  <2>1. ~Violates(p)
    BY <1>2 DEF ReadyToCommit, CommitPublish
  <2>2. \A a \in artifacts : \E b \in artifacts' :
          b.name = a.name /\ b.version = a.version /\ b.sha = a.sha
    BY <1>2, <2>1, CommitRows
  <2> QED
    BY <2>2 DEF Registered, Rows
<1> QED
  BY <1>1, <1>2, StepKinds DEF Aside, Insert

\* A step answers at most one client: with another code than 201, or with 201 from a publisher at
\* its answer.
LEMMA AnswerKinds ==
  ASSUME RegistryTypeOK, [RegistryNext]_registryVars
  PROVE  \/ replies' = replies
         \/ \E u \in Uploads, code \in {409, 422, 500} : Answered(u, code)
         \/ \E p \in Publishers : pub[p].pc = "reply" /\ Answered(pub[p].up, 201)
<1>1. ASSUME NEW p \in Publishers, PublishWork(p)
      PROVE  \/ replies' = replies
             \/ \E code \in {409, 500} : Answered(pub[p].up, code)
             \/ pub[p].pc = "reply" /\ Answered(pub[p].up, 201)
  BY <1>1 DEF PublishWork, WriteBytes, StartClear, Clear, Insert, CommitPublish,
              ReplyPublished, InsertFails, AfterIntegrityError, Unlink, clients
<1>2. ASSUME NEW p \in Publishers, PublishError(p) \/ PublishCrash(p)
      PROVE  replies' = replies \/ Answered(pub[p].up, 500)
  BY <1>2 DEF PublishError, PublishCrash
<1>3. ASSUME NEW g \in Fetchers, FetchWork(g) PROVE replies' = replies
  BY <1>3 DEF FetchWork, Describe, Download, NoDownload, Stream, Verify, clients
<1>4. ASSUME NEW u \in Uploads, Reject(u) PROVE Answered(u, 422)
  BY <1>4 DEF Reject
<1>5. ASSUME NEW p \in Publishers, NEW u \in Uploads, OpenFile(p, u) PROVE replies' = replies
  BY <1>5 DEF OpenFile
<1>6. CASE UNCHANGED registryVars
  BY <1>6 DEF registryVars
<1>7. \A p \in Publishers : pub[p].up \in Uploads
  BY DEF RegistryTypeOK, Publisher
<1> QED
  BY <1>1, <1>2, <1>3, <1>4, <1>5, <1>6, <1>7 DEF RegistryNext

\* A publish at its answer is registered, and so is what was answered 201.
LEMMA AnswersStayTrue ==
  ASSUME RegistryTypeOK, ReadyToCommit, AnswerIsRegistered, PublishedIsRegistered,
         [RegistryNext]_registryVars
  PROVE  AnswerIsRegistered' /\ PublishedIsRegistered'
<1>1. \A u \in Uploads : Registered(u) => Registered(u)'
  BY RegisteredStays
<1>2. \A p \in Publishers : pub[p].up \in Uploads
  BY DEF RegistryTypeOK, Publisher
<1>3. AnswerIsRegistered'
  <2>1. CASE Aside
    <3> SUFFICES ASSUME NEW q \in Publishers, pub'[q].pc = "reply"
                 PROVE  Registered(pub[q].up)'
      BY DEF AnswerIsRegistered
    <3>1. pub'[q] = pub[q] /\ Registered(pub[q].up)
      BY <2>1 DEF Aside, AnswerIsRegistered
    <3> QED
      BY <1>1, <1>2, <3>1 DEF Registered, Rows
  <2>2. ASSUME NEW p \in Publishers, Insert(p) PROVE AnswerIsRegistered'
    BY <2>2 DEF Insert, PublishBecomes, AnswerIsRegistered, Registered, Rows, RegistryTypeOK, Publisher
  <2>3. ASSUME NEW p \in Publishers, CommitPublish(p) PROVE AnswerIsRegistered'
    <3> SUFFICES ASSUME NEW q \in Publishers, pub'[q].pc = "reply"
                 PROVE  Registered(pub[q].up)'
      BY DEF AnswerIsRegistered
    <3>1. /\ q # p => pub'[q] = pub[q]
          /\ pub'[p].up = pub[p].up
      BY <2>3 DEF CommitPublish, PublishBecomes, RegistryTypeOK, Publisher
    <3>2. CASE q = p
      <4>1. NewArtifact(Of(p)) \in artifacts'
        BY <2>3 DEF CommitPublish
      <4> QED
        BY <3>1, <3>2, <4>1 DEF Registered, Rows, NewArtifact, Of
    <3>3. CASE q # p
      <4>1. pub'[q] = pub[q] /\ Registered(pub[q].up)
        BY <3>1, <3>3 DEF AnswerIsRegistered
      <4> QED
        BY <1>1, <1>2, <4>1 DEF Registered, Rows
    <3> QED
      BY <3>2, <3>3
  <2> QED
    BY <2>1, <2>2, <2>3, StepKinds
<1>4. PublishedIsRegistered'
  <2>1. CASE replies' = replies
    BY <1>1, <2>1 DEF PublishedIsRegistered, Registered
  <2>2. ASSUME NEW u \in Uploads, NEW code \in {201, 409, 422, 500}, Answered(u, code),
               code = 201 => Registered(u)
        PROVE  PublishedIsRegistered'
    <3> SUFFICES ASSUME NEW v \in Uploads, NEW i \in DOMAIN replies'[v], replies'[v][i] = 201
                 PROVE  Registered(v)'
      BY DEF PublishedIsRegistered
    <3>1. replies[v] \in Seq({201, 409, 422, 500})
      BY DEF RegistryTypeOK
    <3>2. CASE v = u
      <4>1. replies'[v] = Append(replies[v], code)
        BY <2>2, <3>2 DEF Answered, RegistryTypeOK
      <4>2. (i \in DOMAIN replies[v] /\ replies[v][i] = 201) \/ code = 201
        BY <3>1, <4>1
      <4> QED
        BY <1>1, <2>2, <3>2, <4>2 DEF PublishedIsRegistered
    <3>3. CASE v # u
      <4>1. replies'[v] = replies[v]
        BY <2>2, <3>3 DEF Answered, RegistryTypeOK
      <4> QED
        BY <1>1, <4>1 DEF PublishedIsRegistered
    <3> QED
      BY <3>2, <3>3
  <2>3. ASSUME NEW p \in Publishers, pub[p].pc = "reply", Answered(pub[p].up, 201)
        PROVE  PublishedIsRegistered'
    BY <1>2, <2>2, <2>3 DEF AnswerIsRegistered
  <2> QED
    BY <2>1, <2>2, <2>3, AnswerKinds
<1> QED
  BY <1>3, <1>4

-----------------------------------------------------------------------------
\* What the theorems below rest on, in one inductive invariant.
RegistryInv ==
  /\ RegistryTypeOK /\ PublishInv
  /\ OneLatestPerName /\ PublishedIsRegistered

\* It holds in every state of every behaviour.
THEOREM RegistryInvariant == RegistrySpec => []RegistryInv
<1>1. RegistryInit => RegistryInv
  <2> SUFFICES ASSUME RegistryInit PROVE RegistryInv
    OBVIOUS
  <2>1. RegistryTypeOK
    BY IdleTypes, RegistryBounds DEF RegistryInit, RegistryTypeOK
  <2>2. PublishInv
    BY DEF RegistryInit, PublishInv, ReadyToCommit, OneCommitPerName, AnswerIsRegistered,
           StreamHasPath, IdlePublisher, IdleFetch
  <2>3. OneLatestPerName /\ PublishedIsRegistered
    BY DEF RegistryInit, OneLatestPerName, PublishedIsRegistered, Rows
  <2> QED
    BY <2>1, <2>2, <2>3 DEF RegistryInv
<1>2. RegistryInv /\ [RegistryNext]_registryVars => RegistryInv'
  BY TypeStep, CommitsStayReady, OneLatestStep, AnswersStayTrue DEF RegistryInv, PublishInv
<1> QED
  BY <1>1, <1>2, PTL DEF RegistrySpec

\* Every variable of the registry keeps its type.
THEOREM RegistryTypeCorrect == RegistrySpec => []RegistryTypeOK
BY RegistryInvariant, PTL DEF RegistryInv

\* What was checked against the unique indexes is still true at the commit, no two
\* publishes of a model are there at once, and what is about to be answered is registered.
THEOREM PublishHolds == RegistrySpec => []PublishInv
BY RegistryInvariant, PTL DEF RegistryInv

\* A model that was ever published has exactly one latest row.
THEOREM OneLatest == RegistrySpec => []OneLatestPerName
BY RegistryInvariant, PTL DEF RegistryInv

\* A publish answered 201 is registered for good, with its content.
THEOREM AnsweredIsRegistered == RegistrySpec => []PublishedIsRegistered
BY RegistryInvariant, PTL DEF RegistryInv

-----------------------------------------------------------------------------
\* What a commit leaves in a table that held A: the model's older rows demoted, and a
\* new row.
Promoted(A, N, new) ==
  {a \in A : a.name # N} \cup {[a EXCEPT !.latest = FALSE] : a \in {r \in A : r.name = N}} \cup {new}

\* Its releases: one more, which takes the place of the current one of its model.
LEMMA PromotedReleases ==
  ASSUME NEW A \in SUBSET Artifact, NEW new \in Artifact, new.latest = TRUE
  PROVE  LET B == Promoted(A, new.name, new)
         IN  /\ Releases(B) = Releases(A) \cup Releases({new})
             /\ Releases(LatestOf(B)) = {q \in Releases(LatestOf(A)) : q.name # new.name} \cup Releases({new})
<1> DEFINE demoted(a) == [a EXCEPT !.latest = FALSE]
           rel(a) == [name |-> a.name, version |-> a.version, sha |-> a.sha]
           B == Promoted(A, new.name, new)
<1>1. \A a \in A : rel(demoted(a)) = rel(a) /\ demoted(a).latest = FALSE
  BY DEF Artifact
<1>2. \A a : rel(a).name = a.name
  OBVIOUS
<1>3. B = {a \in A : a.name # new.name} \cup {demoted(a) : a \in {r \in A : r.name = new.name}} \cup {new}
  BY DEF Promoted
<1>4. \A R : Releases(R) = {rel(a) : a \in R}
  BY DEF Releases
<1> HIDE DEF demoted, rel, B
<1>5. {rel(a) : a \in B} = {rel(a) : a \in A} \cup {rel(new)}
  BY <1>1, <1>3
<1>6. LatestOf(B) = {a \in A : a.name # new.name /\ a.latest} \cup {new}
  BY <1>1, <1>3 DEF LatestOf
<1>7. {rel(a) : a \in LatestOf(B)} = {q \in {rel(a) : a \in LatestOf(A)} : q.name # new.name} \cup {rel(new)}
  BY <1>2, <1>6 DEF LatestOf
<1> QED
  BY <1>4, <1>5, <1>7 DEF B

\* Publishing with files, locks and transactions implements the catalog, where a
\* publish is one step.
THEOREM RegistryImplementsCatalog == RegistrySpec => PublishesAreAtomic
<1> DEFINE rel == Releases(artifacts)
           cur == Releases(LatestOf(artifacts))
<1>1. RegistryInit => Catalog!CatalogInit
  BY DEF RegistryInit, Catalog!CatalogInit, Releases, LatestOf
<1>2. RegistryInv /\ [RegistryNext]_registryVars => [Catalog!CatalogNext]_<<rel, cur>>
  <2> SUFFICES ASSUME RegistryInv, [RegistryNext]_registryVars
               PROVE  Catalog!CatalogNext \/ (rel' = rel /\ cur' = cur)
    OBVIOUS
  <2>1. CASE artifacts' = artifacts
    BY <2>1 DEF Releases, LatestOf
  <2>2. ASSUME NEW p \in Publishers, CommitPublish(p) PROVE Catalog!CatalogNext
    <3>1. RegistryTypeOK /\ ~Violates(p)
      BY <2>2 DEF RegistryInv, PublishInv, ReadyToCommit, CommitPublish
    <3>2. PICK new : new = NewArtifact(Of(p))
      OBVIOUS
    <3>3. new \in Artifact /\ new.name = Of(p).name /\ new.version = Of(p).version /\ new.latest = TRUE
      <4>1. Of(p) \in Publication
        BY <3>1, UploadIsPublication DEF RegistryTypeOK, Publisher, Of
      <4> QED
        BY <4>1, <3>2 DEF NewArtifact, Artifact, Publication
    <3>4. artifacts' = Promoted(artifacts, new.name, new)
      BY <2>2, <3>1, <3>2, <3>3, CommitEffect DEF Rows, Promoted
    <3>5. PICK r : r = [name |-> new.name, version |-> new.version, sha |-> new.sha]
      OBVIOUS
    <3>6. Releases({new}) = {r}
      BY <3>5 DEF Releases
    <3>7. artifacts \in SUBSET Artifact
      BY <3>1 DEF RegistryTypeOK
    <3>8. /\ Releases(artifacts') = Releases(artifacts) \cup {r}
          /\ Releases(LatestOf(artifacts')) =
               {q \in Releases(LatestOf(artifacts)) : q.name # r.name} \cup {r}
      <4> DEFINE B == Promoted(artifacts, new.name, new)
      <4>1. /\ Releases(B) = Releases(artifacts) \cup Releases({new})
            /\ Releases(LatestOf(B)) = {q \in Releases(LatestOf(artifacts)) : q.name # new.name}
                                      \cup Releases({new})
        BY <3>3, <3>7, PromotedReleases
      <4>2. r.name = new.name
        BY <3>5
      <4> HIDE DEF B
      <4>3. artifacts' = B
        BY <3>4 DEF B
      <4> QED
        BY <3>6, <4>1, <4>2, <4>3
    <3>9. rel' = rel \cup {r} /\ cur' = {q \in cur : q.name # r.name} \cup {r}
      BY <3>8 DEF Releases, LatestOf
    <3>10. \A q \in rel : q.name = r.name => q.version # r.version
      BY <3>1, <3>3, <3>5 DEF Violates, Rows, Releases
    <3> QED
      BY <3>9, <3>10 DEF Catalog!CatalogNext, Catalog!Release
  <2> QED
    BY <2>1, <2>2, StepKinds DEF Aside, Insert, RegistryInv
<1> QED
  BY <1>1, <1>2, RegistryInvariant, PTL DEF RegistrySpec, PublishesAreAtomic, Catalog!CatalogSpec
-----------------------------------------------------------------------------
(* Files and rows, when each version has one content and clients are patient. *)

\* An upload that passes the route's checks is told from every other by its path.
LEMMA OwnPath ==
  ASSUME DistinctVersions, NEW u \in Uploads, NEW v \in Uploads, u # v,
         Upload[u].accepted, Upload[v].accepted
  PROVE  StoragePath(Upload[u]) # StoragePath(Upload[v])
  BY DEF DistinctVersions

\* A row and an upload with one path have one name and one version.
LEMMA RowOfPath ==
  ASSUME NEW u \in Uploads, NEW a \in artifacts
  PROVE  IsRowOf(a, u) <=> <<a.name, a.version>> = StoragePath(Upload[u])
  BY DEF IsRowOf, StoragePath

\* A publisher's step that neither begins nor ends its publish.
Continues(p) ==
  /\ pub[p].pc \notin {"idle", "reply"}
  /\ pub'[p].pc # "idle" /\ pub'[p].up = pub[p].up
  /\ \A q \in Publishers : q # p => pub'[q] = pub[q]
  /\ attempts' = attempts /\ replies' = replies

\* A publisher's last step: a publish at its answer is not answered with a refusal.
Ends(p) ==
  /\ pub[p].pc # "idle" /\ pub'[p].pc = "idle"
  /\ \A q \in Publishers : q # p => pub'[q] = pub[q]
  /\ attempts' = attempts
  /\ \/ replies' = replies
     \/ \E code \in {201, 409, 422, 500} :
          Answered(pub[p].up, code) /\ (pub[p].pc = "reply" => code \in {201, 500})

LEMMA PublisherSteps ==
  ASSUME RegistryTypeOK, NEW p \in Publishers,
         PublishWork(p) \/ PublishError(p) \/ PublishCrash(p)
  PROVE  Continues(p) \/ Ends(p)
<1>1. ASSUME NEW s \in Publisher, PublishBecomes(p, s)
      PROVE  pub'[p] = s /\ \A q \in Publishers : q # p => pub'[q] = pub[q]
  BY <1>1 DEF PublishBecomes, RegistryTypeOK
<1>2. pub[p] \in Publisher /\ pub[p].up \in Uploads
  BY DEF RegistryTypeOK, Publisher
<1>3. IdlePublisher \in Publisher /\ IdlePublisher.pc = "idle"
  BY IdleTypes DEF IdlePublisher
<1>4. ASSUME WriteBytes(p) PROVE Continues(p)
  BY <1>2, <1>4 DEF WriteBytes, clients, Continues, PublishBecomes, RegistryTypeOK, Publisher
<1>5. ASSUME StartClear(p) PROVE Continues(p)
  BY <1>2, <1>5 DEF StartClear, clients, Continues, PublishBecomes, RegistryTypeOK, Publisher
<1>6. ASSUME Clear(p) PROVE Continues(p)
  BY <1>2, <1>6 DEF Clear, clients, Continues, PublishBecomes, RegistryTypeOK, Publisher
<1>7. ASSUME Insert(p) PROVE Continues(p)
  BY <1>2, <1>7 DEF Insert, clients, Continues, PublishBecomes, RegistryTypeOK, Publisher
<1>8. ASSUME CommitPublish(p) PROVE Continues(p)
  BY <1>2, <1>8 DEF CommitPublish, clients, Continues, PublishBecomes, RegistryTypeOK, Publisher
<1>9. ASSUME ReplyPublished(p) PROVE Ends(p)
  BY <1>1, <1>3, <1>9 DEF ReplyPublished, Ends
<1>10. ASSUME InsertFails(p) PROVE Continues(p) \/ Ends(p)
  <2>1. CASE Of(p).via = "http"
    <3> DEFINE unlinking == [IdlePublisher EXCEPT !.pc = "unlink", !.up = pub[p].up]
    <3>1. unlinking \in Publisher /\ unlinking.pc = "unlink" /\ unlinking.up = pub[p].up
      BY <1>2, <1>3 DEF Publisher, PublishSteps
    <3>2. PublishBecomes(p, unlinking) /\ pub[p].pc = "insert" /\ attempts' = attempts /\ replies' = replies
      BY <1>10, <2>1 DEF InsertFails, AfterIntegrityError
    <3> HIDE DEF unlinking
    <3> QED
      BY <1>1, <3>1, <3>2 DEF Continues
  <2>2. CASE Of(p).via # "http"
    BY <1>1, <1>3, <1>10, <2>2 DEF InsertFails, AfterIntegrityError, Ends
  <2> QED
    BY <2>1, <2>2
<1>11. ASSUME Unlink(p) PROVE Ends(p)
  BY <1>1, <1>3, <1>11 DEF Unlink, Ends
<1>12. ASSUME PublishError(p) PROVE Ends(p)
  BY <1>1, <1>3, <1>12 DEF PublishError, Ends
<1>13. ASSUME PublishCrash(p) PROVE Ends(p)
  BY <1>1, <1>3, <1>13 DEF PublishCrash, Ends
<1> QED
  BY <1>4, <1>5, <1>6, <1>7, <1>8, <1>9, <1>10, <1>11, <1>12, <1>13 DEF PublishWork

\* What a request to publish finds: an upload that is neither on its way nor registered.
LEMMA OpensUnregistered ==
  ASSUME RegistryTypeOK, PatientClients, RegisteredIsAnswered,
         NEW p \in Publishers, NEW u \in Uploads, OpenFile(p, u)
  PROVE  /\ ~InFlight(u) /\ ~InTable(u) /\ Upload[u].accepted
         /\ pub[p].pc = "idle" /\ pub'[p].pc = "write" /\ pub'[p].up = u
         /\ \A q \in Publishers : q # p => pub'[q] = pub[q]
         /\ attempts' = [attempts EXCEPT ![u] = @ + 1] /\ replies' = replies
         /\ artifacts' = artifacts
         /\ files' = [files EXCEPT ![StoragePath(Upload[u])] = Torn]
<1>1. /\ ~InFlight(u) /\ Len(replies[u]) = attempts[u]
      /\ \A i \in DOMAIN replies[u] : replies[u][i] \notin {201, 500}
  BY DEF OpenFile, MaySend, PatientClients
<1>2. Upload[u].accepted
  BY DEF OpenFile
<1>3. ~InTable(u)
  <2>1. attempts[u] \in Nat
    BY DEF RegistryTypeOK
  <2> QED
    BY <1>1, <1>2, <2>1 DEF RegisteredIsAnswered
<1>4. [IdlePublisher EXCEPT !.pc = "write", !.up = u].pc = "write"
  BY IdleTypes DEF Publisher
<1>5. [IdlePublisher EXCEPT !.pc = "write", !.up = u].up = u
  BY IdleTypes DEF Publisher
<1>6. pub'[p].pc = "write" /\ pub'[p].up = u /\ \A q \in Publishers : q # p => pub'[q] = pub[q]
  BY <1>4, <1>5 DEF OpenFile, PublishBecomes, RegistryTypeOK
<1> QED
  BY <1>1, <1>2, <1>3, <1>6 DEF OpenFile

\* The steps of the registry, as far as they touch publishers, attempts and answers.
LEMMA StepsOfPublishing ==
  ASSUME RegistryTypeOK, [RegistryNext]_registryVars
  PROVE  \/ UNCHANGED <<artifacts, files, pub, attempts, replies>>
         \/ \E u \in Uploads : Reject(u)
         \/ \E p \in Publishers, u \in Uploads : OpenFile(p, u)
         \/ \E p \in Publishers : /\ PublishWork(p) \/ PublishError(p) \/ PublishCrash(p)
                                  /\ Continues(p) \/ Ends(p)
<1>1. ASSUME NEW g \in Fetchers, FetchWork(g)
      PROVE  UNCHANGED <<artifacts, files, pub, attempts, replies>>
  BY <1>1 DEF FetchWork, Describe, Download, NoDownload, Stream, Verify, clients
<1>2. CASE UNCHANGED registryVars
  BY <1>2 DEF registryVars
<1> QED
  BY <1>1, <1>2, PublisherSteps DEF RegistryNext

\* An answer lengthens one client's sequence by one.
LEMMA OneMoreAnswer ==
  ASSUME RegistryTypeOK, NEW u \in Uploads, NEW code \in {201, 409, 422, 500}, Answered(u, code)
  PROVE  /\ Len(replies'[u]) = Len(replies[u]) + 1
         /\ \E i \in DOMAIN replies'[u] : replies'[u][i] = code
         /\ \A v \in Uploads : v # u => replies'[v] = replies[v]
<1>1. replies[u] \in Seq({201, 409, 422, 500})
  BY DEF RegistryTypeOK
<1>2. replies'[u] = Append(replies[u], code) /\ \A v \in Uploads : v # u => replies'[v] = replies[v]
  BY DEF Answered, RegistryTypeOK
<1>3. Len(replies[u]) + 1 \in DOMAIN Append(replies[u], code)
  BY <1>1
<1>4. Append(replies[u], code)[Len(replies[u]) + 1] = code /\ Len(Append(replies[u], code)) = Len(replies[u]) + 1
  BY <1>1
<1> QED
  BY <1>2, <1>3, <1>4

\* Every attempt is answered at most once, and two publishers never work for one upload.
LEMMA AttemptsStep ==
  ASSUME RegistryTypeOK, PatientClients, AttemptsInOrder, RegisteredIsAnswered,
         [RegistryNext]_registryVars
  PROVE  AttemptsInOrder'
<1>1. /\ \A p \in Publishers : pub[p].up \in Uploads
      /\ \A u \in Uploads : attempts[u] \in Nat /\ Len(replies[u]) \in Nat
  BY DEF RegistryTypeOK, Publisher
<1>2. CASE UNCHANGED <<artifacts, files, pub, attempts, replies>>
  BY <1>2 DEF AttemptsInOrder, InFlight
<1>3. ASSUME NEW u \in Uploads, Reject(u) PROVE AttemptsInOrder'
  <2>1. /\ Len(replies'[u]) = Len(replies[u]) + 1
        /\ \A v \in Uploads : v # u => replies'[v] = replies[v]
    BY <1>3, OneMoreAnswer DEF Reject
  <2>2. /\ attempts'[u] = attempts[u] + 1 /\ \A v \in Uploads : v # u => attempts'[v] = attempts[v]
        /\ pub' = pub /\ ~Upload[u].accepted
    BY <1>3 DEF Reject, RegistryTypeOK
  <2>3. ~InFlight(u)
    BY <2>2 DEF InFlight, AttemptsInOrder
  <2>4. \A v \in Uploads : /\ Len(replies'[v]) <= attempts'[v]
                           /\ InFlight(v)' => Len(replies'[v]) < attempts'[v]
    BY <1>1, <2>1, <2>2, <2>3 DEF AttemptsInOrder, InFlight
  <2> QED
    BY <2>2, <2>4 DEF AttemptsInOrder
<1>4. ASSUME NEW p \in Publishers, NEW u \in Uploads, OpenFile(p, u) PROVE AttemptsInOrder'
  <2>1. /\ ~InFlight(u) /\ Upload[u].accepted
        /\ pub'[p].pc = "write" /\ pub'[p].up = u
        /\ \A q \in Publishers : q # p => pub'[q] = pub[q]
        /\ attempts' = [attempts EXCEPT ![u] = @ + 1] /\ replies' = replies
    BY <1>4, OpensUnregistered
  <2>2. attempts'[u] = attempts[u] + 1 /\ \A v \in Uploads : v # u => attempts'[v] = attempts[v]
    BY <2>1 DEF RegistryTypeOK
  <2>3. \A v \in Uploads : v # u /\ InFlight(v)' => InFlight(v)
    BY <2>1 DEF InFlight
  <2>4. \A v \in Uploads : /\ Len(replies'[v]) <= attempts'[v]
                           /\ InFlight(v)' => Len(replies'[v]) < attempts'[v]
    BY <1>1, <2>1, <2>2, <2>3 DEF AttemptsInOrder
  <2>5. \A q, r \in Publishers :
          pub'[q].pc # "idle" /\ pub'[r].pc # "idle" /\ pub'[q].up = pub'[r].up => q = r
    BY <2>1 DEF AttemptsInOrder, InFlight
  <2>6. \A q \in Publishers : pub'[q].pc # "idle" => Upload[pub'[q].up].accepted
    BY <2>1 DEF AttemptsInOrder
  <2> QED
    BY <2>4, <2>5, <2>6 DEF AttemptsInOrder
<1>5. ASSUME NEW p \in Publishers, Continues(p) PROVE AttemptsInOrder'
  <2>1. \A q \in Publishers : pub'[q].pc # "idle" => pub[q].pc # "idle" /\ pub'[q].up = pub[q].up
    BY <1>5 DEF Continues
  <2>2. \A u \in Uploads : InFlight(u)' => InFlight(u)
    BY <2>1 DEF InFlight
  <2> QED
    BY <1>5, <2>1, <2>2 DEF AttemptsInOrder, Continues
<1>6. ASSUME NEW p \in Publishers, Ends(p) PROVE AttemptsInOrder'
  <2>1. \A q \in Publishers : pub'[q].pc # "idle" => pub[q].pc # "idle" /\ pub'[q].up = pub[q].up /\ q # p
    BY <1>6 DEF Ends
  <2>2. \A u \in Uploads : InFlight(u)' => InFlight(u) /\ u # pub[p].up
    BY <1>6, <2>1 DEF InFlight, Ends, AttemptsInOrder
  <2>3. InFlight(pub[p].up)
    BY <1>6 DEF InFlight, Ends
  <2>4. \A u \in Uploads : \/ replies'[u] = replies[u]
                           \/ u = pub[p].up /\ Len(replies'[u]) = Len(replies[u]) + 1
    BY <1>1, <1>6, OneMoreAnswer DEF Ends
  <2>5. attempts' = attempts
    BY <1>6 DEF Ends
  <2>6. \A u \in Uploads : /\ Len(replies'[u]) <= attempts'[u]
                           /\ InFlight(u)' => Len(replies'[u]) < attempts'[u]
    BY <1>1, <2>2, <2>3, <2>4, <2>5 DEF AttemptsInOrder
  <2> QED
    BY <2>1, <2>6 DEF AttemptsInOrder
<1> QED
  BY <1>2, <1>3, <1>4, <1>5, <1>6, StepsOfPublishing

-----------------------------------------------------------------------------
\* A row is entered by its own upload's commit, and stays.
LEMMA TableGrows ==
  ASSUME RegistryTypeOK, ReadyToCommit, DistinctVersions, AttemptsInOrder,
         [RegistryNext]_registryVars, NEW u \in Uploads, Upload[u].accepted
  PROVE  /\ InTable(u) => InTable(u)'
         /\ InTable(u)' => InTable(u) \/ \E p \in Publishers : CommitPublish(p) /\ pub[p].up = u
<1>1. CASE artifacts' = artifacts
  BY <1>1 DEF InTable, IsRowOf
<1>2. ASSUME NEW p \in Publishers, CommitPublish(p)
      PROVE  /\ InTable(u) => InTable(u)'
             /\ InTable(u)' => InTable(u) \/ pub[p].up = u
  <2>1. ~Violates(p)
    BY <1>2 DEF ReadyToCommit, CommitPublish
  <2>2. /\ \A a \in artifacts : \E b \in artifacts' :
             b.name = a.name /\ b.version = a.version /\ b.sha = a.sha
        /\ \A b \in artifacts' : b = NewArtifact(Of(p)) \/
             \E a \in artifacts : b.name = a.name /\ b.version = a.version /\ b.sha = a.sha
    BY <1>2, <2>1, CommitRows
  <2>3. pub[p].up \in Uploads /\ Upload[pub[p].up].accepted
    BY <1>2 DEF AttemptsInOrder, CommitPublish, RegistryTypeOK, Publisher
  <2>4. IsRowOf(NewArtifact(Of(p)), u) => pub[p].up = u
    BY <2>3, OwnPath DEF IsRowOf, NewArtifact, Of, StoragePath
  <2> QED
    BY <2>2, <2>4 DEF InTable, IsRowOf
<1> QED
  BY <1>1, <1>2, StepKinds DEF Aside, Insert

\* The client of a registered upload has a 201 or a 500, or an answer is missing.
LEMMA RegisteredIsAnsweredStep ==
  ASSUME RegistryTypeOK, ReadyToCommit, DistinctVersions, PatientClients, AttemptsInOrder,
         RegisteredIsAnswered, FilesInHand, [RegistryNext]_registryVars
  PROVE  RegisteredIsAnswered'
<1> SUFFICES ASSUME NEW u \in Uploads, Upload[u].accepted, InTable(u)'
             PROVE  \/ Len(replies'[u]) < attempts'[u]
                    \/ \E i \in DOMAIN replies'[u] : replies'[u][i] \in {201, 500}
  BY DEF RegisteredIsAnswered
<1>1. /\ attempts[u] \in Nat /\ Len(replies[u]) \in Nat
      /\ replies[u] \in Seq({201, 409, 422, 500})
      /\ \A p \in Publishers : pub[p].up \in Uploads
  BY DEF RegistryTypeOK, Publisher
<1> DEFINE answered == Len(replies[u]) < attempts[u] \/ \E i \in DOMAIN replies[u] : replies[u][i] \in {201, 500}
<1>2. answered
  <2>1. CASE InTable(u)
    BY <2>1 DEF RegisteredIsAnswered
  <2>2. ASSUME NEW p \in Publishers, CommitPublish(p), pub[p].up = u PROVE answered
    BY <2>2 DEF AttemptsInOrder, InFlight, CommitPublish
  <2> QED
    BY <2>1, <2>2, TableGrows
<1>3. CASE replies'[u] = replies[u] /\ attempts'[u] >= attempts[u] /\ attempts'[u] \in Nat
  BY <1>1, <1>2, <1>3
<1>4. ASSUME NEW v \in Uploads, Reject(v) PROVE replies'[u] = replies[u] /\ attempts'[u] = attempts[u]
  <2>1. v # u
    BY <1>4 DEF Reject
  <2> QED
    BY <1>4, <2>1, OneMoreAnswer DEF Reject, RegistryTypeOK
<1>5. ASSUME NEW p \in Publishers, NEW v \in Uploads, OpenFile(p, v)
      PROVE  replies'[u] = replies[u] /\ attempts'[u] >= attempts[u] /\ attempts'[u] \in Nat
  BY <1>1, <1>5 DEF OpenFile, RegistryTypeOK
<1>6. ASSUME NEW p \in Publishers, Ends(p), artifacts' = artifacts, pub[p].up = u,
             NEW code \in {201, 409, 422, 500}, Answered(u, code), pub[p].pc = "reply" => code \in {201, 500}
      PROVE  \E i \in DOMAIN replies'[u] : replies'[u][i] \in {201, 500}
  <2>1. InTable(u)
    BY <1>6 DEF InTable, IsRowOf
  <2>2. pub[p].pc = "reply"
    BY <1>6, <2>1 DEF FilesInHand, Ends
  <2> QED
    BY <1>6, <2>2, OneMoreAnswer
<1>7. ASSUME NEW p \in Publishers, Ends(p), artifacts' = artifacts
      PROVE  \/ Len(replies'[u]) < attempts'[u]
             \/ \E i \in DOMAIN replies'[u] : replies'[u][i] \in {201, 500}
  <2>1. CASE replies' = replies
    BY <1>1, <1>2, <1>7, <2>1 DEF Ends
  <2>2. ASSUME NEW code \in {201, 409, 422, 500}, Answered(pub[p].up, code),
               pub[p].pc = "reply" => code \in {201, 500}
        PROVE  \/ Len(replies'[u]) < attempts'[u]
               \/ \E i \in DOMAIN replies'[u] : replies'[u][i] \in {201, 500}
    <3>1. CASE pub[p].up = u
      BY <1>6, <1>7, <2>2, <3>1
    <3>2. CASE pub[p].up # u
      <4>1. replies'[u] = replies[u] /\ attempts' = attempts
        BY <1>1, <1>7, <2>2, <3>2, OneMoreAnswer DEF Ends
      <4> QED
        BY <1>2, <4>1
    <3> QED
      BY <3>1, <3>2
  <2> QED
    BY <1>7, <2>1, <2>2 DEF Ends
<1>8. ASSUME NEW p \in Publishers, Ends(p) PROVE artifacts' = artifacts
  <2> SUFFICES ASSUME NEW q \in Publishers, CommitPublish(q) PROVE FALSE
    BY StepKinds DEF Aside, Insert
  <2>1. pub'[q].pc = "reply" /\ pub[q].pc = "commit"
    BY DEF CommitPublish, PublishBecomes, RegistryTypeOK, Publisher
  <2> QED
    BY <1>8, <2>1 DEF Ends
<1>9. ASSUME NEW p \in Publishers, Continues(p) PROVE replies'[u] = replies[u] /\ attempts'[u] = attempts[u]
  BY <1>9 DEF Continues
<1>10. CASE UNCHANGED <<artifacts, files, pub, attempts, replies>>
  BY <1>1, <1>3, <1>10
<1> QED
  BY <1>1, <1>3, <1>4, <1>5, <1>7, <1>8, <1>9, <1>10, StepsOfPublishing

\* What a publisher's step does to the files: it writes or removes its own, while it
\* has no row.
LEMMA FilesTouched ==
  ASSUME RegistryTypeOK, NEW p \in Publishers,
         PublishWork(p) \/ PublishError(p) \/ PublishCrash(p)
  PROVE  \/ files' = files
         \/ /\ pub[p].pc \in {"write", "unlink"} /\ artifacts' = artifacts
            /\ \E c : files' = [files EXCEPT ![StoragePath(Of(p))] = c]
  BY DEF PublishWork, WriteBytes, StartClear, Clear, Insert, CommitPublish, ReplyPublished,
         InsertFails, AfterIntegrityError, Unlink, PublishError, PublishCrash

\* A publisher past its write has written its file, or has just done so.
HasFile(p) == pub[p].pc \in {"clear", "lock", "insert", "commit"}

\* The parts of FilesInHand, for one publisher.
NoRowYet(p) == pub[p].pc \notin {"idle", "reply"} => ~InTable(pub[p].up)
FileInHand(p) == HasFile(p) => files[StoragePath(Of(p))] = Of(p).data

LEMMA FileWritten ==
  ASSUME RegistryTypeOK, NEW p \in Publishers,
         PublishWork(p) \/ PublishError(p) \/ PublishCrash(p), HasFile(p)'
  PROVE  \/ HasFile(p) /\ files' = files
         \/ files' = [files EXCEPT ![StoragePath(Of(p))] = Of(p).data]
<1>1. /\ IdlePublisher \in Publisher /\ IdlePublisher.pc = "idle" /\ pub[p].up \in Uploads
      /\ \A s \in Publisher : PublishBecomes(p, s) => pub'[p] = s
  BY IdleTypes DEF IdlePublisher, PublishBecomes, RegistryTypeOK, Publisher
<1>2. ASSUME PublishBecomes(p, IdlePublisher) PROVE FALSE
  BY <1>1, <1>2 DEF HasFile
<1>3. CASE WriteBytes(p)
  BY <1>3 DEF WriteBytes
<1>4. CASE StartClear(p) \/ Clear(p) \/ Insert(p)
  BY <1>4 DEF StartClear, Clear, Insert, HasFile
<1>5. CASE CommitPublish(p)
  BY <1>5 DEF CommitPublish, HasFile
<1>6. CASE InsertFails(p)
  BY <1>2, <1>6 DEF InsertFails, AfterIntegrityError, HasFile
<1> QED
  BY <1>2, <1>3, <1>4, <1>5, <1>6
     DEF PublishWork, ReplyPublished, Unlink, PublishError, PublishCrash

\* A publish has a file and no row until its commit.
LEMMA FilesInHandStep ==
  ASSUME RegistryTypeOK, ReadyToCommit, DistinctVersions, PatientClients, AttemptsInOrder,
         RegisteredIsAnswered, FilesInHand, [RegistryNext]_registryVars
  PROVE  FilesInHand'
<1>0. (\A p \in Publishers : NoRowYet(p)' /\ FileInHand(p)') => FilesInHand'
  BY DEF FilesInHand, NoRowYet, FileInHand, HasFile
<1>1. /\ \A p \in Publishers : pub[p] \in Publisher /\ pub[p].up \in Uploads
      /\ \A p \in Publishers : pub[p].pc # "idle" => Upload[pub[p].up].accepted
      /\ \A p, q \in Publishers :
           pub[p].pc # "idle" /\ pub[q].pc # "idle" /\ pub[p].up = pub[q].up => p = q
  BY DEF RegistryTypeOK, Publisher, AttemptsInOrder
\* A publish another publisher's step leaves as it is keeps its file and has no row.
<1>2. ASSUME NEW p \in Publishers, NEW q \in Publishers, q # p, pub'[q] = pub[q], pub[p].pc # "idle",
             \A r \in Publishers : CommitPublish(r) => r = p,
             \/ files' = files
             \/ \E c : files' = [files EXCEPT ![StoragePath(Of(p))] = c]
      PROVE  NoRowYet(q)' /\ FileInHand(q)'
  <2>0. PICK u \in Uploads : u = pub[q].up
    BY <1>1
  <2> SUFFICES ASSUME pub[q].pc # "idle"
               PROVE  /\ pub[q].pc # "reply" => ~InTable(u)'
                      /\ HasFile(q) => files'[StoragePath(Of(q))] = Of(q).data
    BY <1>2, <2>0 DEF NoRowYet, FileInHand, HasFile, StoragePath, Of, InTable, IsRowOf
  <2>1. u # pub[p].up /\ Upload[u].accepted /\ Upload[pub[p].up].accepted
    BY <1>1, <1>2, <2>0
  <2>2. pub[q].pc # "reply" => ~InTable(u)'
    <3> SUFFICES ASSUME pub[q].pc # "reply" PROVE ~InTable(u)'
      OBVIOUS
    <3>1. ~InTable(u)
      BY <2>0 DEF FilesInHand
    <3> QED
      BY <1>2, <2>1, <3>1, TableGrows
  <2>3. StoragePath(Of(q)) # StoragePath(Of(p))
    BY <1>1, <2>0, <2>1, OwnPath DEF Of
  <2>4. HasFile(q) => files[StoragePath(Of(q))] = Of(q).data
    BY DEF HasFile, FilesInHand
  <2>5. files'[StoragePath(Of(q))] = files[StoragePath(Of(q))]
    <3>1. StoragePath(Of(q)) \in Paths
      BY <1>1, PublicationTypes DEF Of
    <3> QED
      BY <1>2, <2>3, <3>1 DEF RegistryTypeOK
  <2> QED
    BY <2>2, <2>4, <2>5
<1>3. ASSUME NEW p \in Publishers, CommitPublish(p) PROVE pub[p].pc = "commit" /\ pub'[p].pc = "reply"
  BY <1>3 DEF CommitPublish, PublishBecomes, RegistryTypeOK, Publisher
<1>4. ASSUME NEW p \in Publishers, PublishWork(p) \/ PublishError(p) \/ PublishCrash(p),
             Continues(p) \/ Ends(p)
      PROVE  FilesInHand'
  <2>1. /\ pub[p].pc # "idle"
        /\ \A q \in Publishers : q # p => pub'[q] = pub[q]
    BY <1>4 DEF Continues, Ends
  <2>2. \A r \in Publishers : CommitPublish(r) => r = p
    BY <1>3, <2>1
  <2>3. files' = files \/ \E c : files' = [files EXCEPT ![StoragePath(Of(p))] = c]
    BY <1>4, FilesTouched
  <2>4. ASSUME NEW q \in Publishers, q # p
        PROVE  NoRowYet(q)' /\ FileInHand(q)'
    BY <1>2, <2>1, <2>2, <2>3, <2>4
  <2>5. NoRowYet(p)'
    <3>0. PICK u \in Uploads : u = pub[p].up
      BY <1>1
    <3> SUFFICES ASSUME pub'[p].pc \notin {"idle", "reply"}
                 PROVE  ~InTable(u)'
      BY <1>4, <3>0 DEF NoRowYet, Continues, Ends, InTable, IsRowOf
    <3>1. Continues(p) /\ ~CommitPublish(p)
      BY <1>3, <1>4 DEF Ends
    <3>2. ~InTable(u) /\ Upload[u].accepted
      BY <1>1, <2>1, <3>0, <3>1 DEF Continues, FilesInHand
    <3>3. \A r \in Publishers : ~CommitPublish(r)
      BY <2>2, <3>1
    <3> QED
      BY <3>2, <3>3, TableGrows
  <2>6. ASSUME HasFile(p)' PROVE FileInHand(p)'
    <3>1. pub'[p].up = pub[p].up
      BY <1>4, <2>6 DEF Continues, Ends, HasFile
    <3>2. StoragePath(Of(p))' = StoragePath(Of(p)) /\ Of(p)'.data = Of(p).data
      BY <3>1 DEF Of, StoragePath
    <3>3. StoragePath(Of(p)) \in Paths
      BY <1>1, PublicationTypes DEF Of
    <3>4. HasFile(p) => files[StoragePath(Of(p))] = Of(p).data
      BY DEF HasFile, FilesInHand
    <3>5. files'[StoragePath(Of(p))] = Of(p).data
      BY <1>4, <2>6, <3>3, <3>4, FileWritten DEF RegistryTypeOK
    <3> QED
      BY <3>2, <3>5 DEF FileInHand
  <2>7. FileInHand(p)'
    BY <2>6 DEF FileInHand
  <2> QED
    BY <1>0, <2>4, <2>5, <2>7
<1>5. ASSUME NEW p \in Publishers, NEW u \in Uploads, OpenFile(p, u) PROVE FilesInHand'
  <2>1. /\ ~InFlight(u) /\ ~InTable(u) /\ Upload[u].accepted
        /\ pub'[p].pc = "write" /\ pub'[p].up = u
        /\ \A q \in Publishers : q # p => pub'[q] = pub[q]
        /\ artifacts' = artifacts
        /\ files' = [files EXCEPT ![StoragePath(Upload[u])] = Torn]
    BY <1>5, OpensUnregistered
  <2>2. ASSUME NEW q \in Publishers PROVE NoRowYet(q)'
    <3>1. CASE q = p
      BY <2>1, <3>1 DEF NoRowYet, InTable, IsRowOf
    <3>2. CASE q # p
      BY <2>1, <3>2 DEF NoRowYet, FilesInHand, InTable, IsRowOf
    <3> QED
      BY <3>1, <3>2
  <2>3. ASSUME NEW q \in Publishers, HasFile(q)' PROVE FileInHand(q)'
    <3>1. q # p /\ pub'[q] = pub[q] /\ HasFile(q) /\ pub[q].pc # "idle"
      BY <2>1, <2>3 DEF HasFile
    <3>2. pub[q].up # u /\ Upload[pub[q].up].accepted
      BY <1>1, <2>1, <3>1 DEF InFlight
    <3>3. StoragePath(Of(q)) # StoragePath(Upload[u]) /\ StoragePath(Of(q)) \in Paths
      BY <1>1, <2>1, <3>2, OwnPath, PublicationTypes DEF Of
    <3>4. files'[StoragePath(Of(q))] = Of(q).data
      BY <2>1, <3>1, <3>3 DEF HasFile, FilesInHand, RegistryTypeOK
    <3> QED
      BY <3>1, <3>4 DEF FileInHand, Of, StoragePath
  <2> QED
    BY <1>0, <2>2, <2>3 DEF FileInHand
<1>6. ASSUME NEW u \in Uploads, Reject(u) PROVE FilesInHand'
  BY <1>6 DEF Reject, FilesInHand, InTable, IsRowOf, Of, StoragePath
<1>7. CASE UNCHANGED <<artifacts, files, pub, attempts, replies>>
  BY <1>7 DEF FilesInHand, InTable, IsRowOf, Of, StoragePath
<1> QED
  BY <1>4, <1>5, <1>6, <1>7, StepsOfPublishing

\* Every registered version has its file: what is written or removed has no row yet,
\* and what gets its row has its file.
LEMMA ArtifactHasItsFileStep ==
  ASSUME RegistryTypeOK, ReadyToCommit, PatientClients, RegisteredIsAnswered, FilesInHand,
         ArtifactHasItsFile, [RegistryNext]_registryVars
  PROVE  ArtifactHasItsFile'
<1>1. ASSUME NEW u \in Uploads, ~InTable(u), artifacts' = artifacts,
             NEW c, files' = [files EXCEPT ![StoragePath(Upload[u])] = c]
      PROVE  ArtifactHasItsFile'
  <2> SUFFICES ASSUME NEW a \in artifacts
               PROVE  files'[<<a.name, a.version>>] = a.sha
    BY <1>1 DEF ArtifactHasItsFile
  <2>1. <<a.name, a.version>> # StoragePath(Upload[u])
    BY <1>1, RowOfPath DEF InTable
  <2>2. <<a.name, a.version>> \in Paths
    BY DEF RegistryTypeOK, Artifact, Paths
  <2> QED
    BY <1>1, <2>1, <2>2 DEF ArtifactHasItsFile, RegistryTypeOK
<1>2. ASSUME NEW p \in Publishers, CommitPublish(p) PROVE ArtifactHasItsFile'
  <2>1. ~Violates(p) /\ files' = files
    BY <1>2 DEF ReadyToCommit, CommitPublish
  <2>2. \A b \in artifacts' : b = NewArtifact(Of(p)) \/
          \E a \in artifacts : b.name = a.name /\ b.version = a.version /\ b.sha = a.sha
    BY <1>2, <2>1, CommitRows
  <2>3. files[StoragePath(Of(p))] = Of(p).data
    BY <1>2 DEF CommitPublish, FilesInHand
  <2>4. LET b == NewArtifact(Of(p)) IN files[<<b.name, b.version>>] = b.sha
    BY <2>3 DEF NewArtifact, StoragePath
  <2> QED
    BY <2>1, <2>2, <2>4 DEF ArtifactHasItsFile
<1>3. CASE artifacts' = artifacts /\ files' = files
  BY <1>3 DEF ArtifactHasItsFile
<1>4. ASSUME NEW p \in Publishers, PublishWork(p) \/ PublishError(p) \/ PublishCrash(p)
      PROVE  ArtifactHasItsFile'
  <2>1. CASE files' = files
    BY <1>2, <1>3, <2>1, StepKinds DEF Aside, Insert
  <2>2. ASSUME pub[p].pc \in {"write", "unlink"}, artifacts' = artifacts,
               NEW c, files' = [files EXCEPT ![StoragePath(Of(p))] = c]
        PROVE  ArtifactHasItsFile'
    <3>1. ~InTable(pub[p].up) /\ pub[p].up \in Uploads
      BY <2>2 DEF FilesInHand, RegistryTypeOK, Publisher
    <3> QED
      BY <1>1, <2>2, <3>1 DEF Of
  <2> QED
    BY <1>4, <2>1, <2>2, FilesTouched
<1>5. ASSUME NEW p \in Publishers, NEW u \in Uploads, OpenFile(p, u) PROVE ArtifactHasItsFile'
  BY <1>1, <1>5, OpensUnregistered
<1>6. ASSUME NEW u \in Uploads, Reject(u) PROVE artifacts' = artifacts /\ files' = files
  BY <1>6 DEF Reject
<1> QED
  BY <1>3, <1>4, <1>5, <1>6, StepsOfPublishing

\* A download is of a registered file, and what arrived is what its row says.
LEMMA FetchingStep ==
  ASSUME RegistryTypeOK, ReadyToCommit, ArtifactHasItsFile, StreamsOfRows, EtagMatchesBytes,
         [RegistryNext]_registryVars
  PROVE  StreamsOfRows' /\ EtagMatchesBytes'
<1> DEFINE RowOf(f, a) == a.name = f.name /\ a.version = f.version /\ a.sha = f.etag
<1>1. \A g \in Fetchers : fetch[g] \in Fetch
  BY DEF RegistryTypeOK
<1>2. ASSUME NEW a \in artifacts
      PROVE  \E b \in artifacts' : b.name = a.name /\ b.version = a.version /\ b.sha = a.sha
  <2>1. ASSUME NEW p \in Publishers, CommitPublish(p)
        PROVE  \E b \in artifacts' : b.name = a.name /\ b.version = a.version /\ b.sha = a.sha
    <3>1. ~Violates(p)
      BY <2>1 DEF ReadyToCommit, CommitPublish
    <3> QED
      BY <2>1, <3>1, CommitRows
  <2> QED
    BY <2>1, StepKinds DEF Aside, Insert
<1>3. CASE fetch' = fetch
  BY <1>2, <1>3 DEF StreamsOfRows, EtagMatchesBytes
<1>4. ASSUME NEW g \in Fetchers, NEW f \in Fetch, FetchBecomes(g, f), artifacts' = artifacts,
             f.pc = "streaming" => \E a \in artifacts : RowOf(f, a),
             f.pc = "received" => f.body = f.etag
      PROVE  StreamsOfRows' /\ EtagMatchesBytes'
  BY <1>4 DEF FetchBecomes, RegistryTypeOK, StreamsOfRows, EtagMatchesBytes
<1>5. IdleFetch \in Fetch /\ IdleFetch.pc = "idle"
  BY IdleTypes DEF IdleFetch
<1>6. ASSUME NEW g \in Fetchers, Describe(g) PROVE StreamsOfRows' /\ EtagMatchesBytes'
  <2>1. PICK a \in artifacts :
          FetchBecomes(g, [IdleFetch EXCEPT !.pc = "described", !.name = a.name, !.sha = a.sha])
    BY <1>6 DEF Describe, WantedRow
  <2>2. /\ [IdleFetch EXCEPT !.pc = "described", !.name = a.name, !.sha = a.sha] \in Fetch
        /\ [IdleFetch EXCEPT !.pc = "described", !.name = a.name, !.sha = a.sha].pc = "described"
    BY IdleTypes DEF Fetch, Artifact, RegistryTypeOK
  <2> QED
    BY <1>4, <1>6, <2>1, <2>2 DEF Describe
<1>7. ASSUME NEW g \in Fetchers, Download(g) PROVE StreamsOfRows' /\ EtagMatchesBytes'
  <2>1. PICK a \in artifacts :
          /\ a.name = fetch[g].name
          /\ FetchBecomes(g, [fetch[g] EXCEPT !.pc = "streaming", !.version = a.version, !.etag = a.sha])
    BY <1>7 DEF Download, DownloadRow, Latest, Rows
  <2> DEFINE f == [fetch[g] EXCEPT !.pc = "streaming", !.version = a.version, !.etag = a.sha]
  <2>2. f \in Fetch /\ f.pc = "streaming" /\ RowOf(f, a)
    <3>1. fetch[g] \in Fetch /\ a.version \in Versions /\ a.sha \in Contents
      BY <1>1 DEF Artifact, RegistryTypeOK
    <3>2. f \in Fetch
      BY <3>1 DEF Fetch
    <3>3. f.pc = "streaming" /\ f.name = fetch[g].name /\ f.version = a.version /\ f.etag = a.sha
      BY <3>1 DEF Fetch
    <3> QED
      BY <2>1, <3>2, <3>3
  <2>3. artifacts' = artifacts
    BY <1>7 DEF Download
  <2> HIDE DEF f
  <2> QED
    BY <1>4, <2>1, <2>2, <2>3 DEF f
<1>8. ASSUME NEW g \in Fetchers, NoDownload(g) PROVE StreamsOfRows' /\ EtagMatchesBytes'
  BY <1>4, <1>5, <1>8 DEF NoDownload
<1>9. ASSUME NEW g \in Fetchers, Stream(g) PROVE StreamsOfRows' /\ EtagMatchesBytes'
  <2>1. PICK a \in artifacts : RowOf(fetch[g], a)
    BY <1>9 DEF Stream, StreamsOfRows
  <2> DEFINE content == files[<<fetch[g].name, fetch[g].version>>]
             f == [fetch[g] EXCEPT !.pc = "received", !.body = content]
  <2>2. content = fetch[g].etag /\ content \in Contents
    BY <2>1 DEF ArtifactHasItsFile, RegistryTypeOK, Artifact
  <2>3. FetchBecomes(g, IdleFetch) \/ FetchBecomes(g, f)
    BY <1>9 DEF Stream
  <2>4. f \in Fetch /\ f.pc = "received" /\ f.body = f.etag
    BY <1>1, <2>2 DEF Fetch
  <2>5. artifacts' = artifacts
    BY <1>9 DEF Stream
  <2> HIDE DEF f, content
  <2> QED
    BY <1>4, <1>5, <2>3, <2>4, <2>5
<1>10. ASSUME NEW g \in Fetchers, Verify(g) PROVE StreamsOfRows' /\ EtagMatchesBytes'
  BY <1>4, <1>5, <1>10 DEF Verify
<1>11. ASSUME NEW p \in Publishers, PublishWork(p) \/ PublishError(p) \/ PublishCrash(p)
       PROVE  fetch' = fetch
  BY <1>11 DEF PublishWork, WriteBytes, StartClear, Clear, Insert, CommitPublish, ReplyPublished,
               InsertFails, AfterIntegrityError, Unlink, PublishError, PublishCrash, gatewaySide
<1>12. ASSUME NEW p \in Publishers, NEW u \in Uploads, Reject(u) \/ OpenFile(p, u) PROVE fetch' = fetch
  BY <1>12 DEF Reject, OpenFile, gatewaySide
<1>13. ASSUME NEW u \in Uploads, Reject(u) PROVE fetch' = fetch
  BY <1>13 DEF Reject, gatewaySide
<1>14. CASE UNCHANGED registryVars
  BY <1>3, <1>14 DEF registryVars
<1> QED
  BY <1>3, <1>6, <1>7, <1>8, <1>9, <1>10, <1>11, <1>12, <1>13, <1>14 DEF RegistryNext, FetchWork

\* With one content to a version and patient clients the invariant of files and rows
\* holds in every state.
THEOREM FilesInvariant ==
  ASSUME DistinctVersions, PatientClients
  PROVE  RegistrySpec => []FilesInv
<1>1. RegistryInit => FilesInv
  <2> SUFFICES ASSUME RegistryInit PROVE FilesInv
    OBVIOUS
  <2>1. AttemptsInOrder /\ RegisteredIsAnswered
    <3>1. \A u \in Uploads : Len(replies[u]) = 0 /\ attempts[u] = 0 /\ ~InFlight(u) /\ ~InTable(u)
      BY DEF RegistryInit, InFlight, InTable, IdlePublisher
    <3>2. \A p \in Publishers : pub[p].pc = "idle"
      BY DEF RegistryInit, IdlePublisher
    <3> QED
      BY <3>1, <3>2 DEF AttemptsInOrder, RegisteredIsAnswered
  <2>2. FilesInHand /\ ArtifactHasItsFile
    BY DEF RegistryInit, FilesInHand, ArtifactHasItsFile, InTable, IdlePublisher
  <2>3. StreamsOfRows /\ EtagMatchesBytes
    BY DEF RegistryInit, StreamsOfRows, EtagMatchesBytes, IdleFetch
  <2> QED
    BY <2>1, <2>2, <2>3 DEF FilesInv
<1>2. RegistryInv /\ FilesInv /\ [RegistryNext]_registryVars => FilesInv'
  BY AttemptsStep, RegisteredIsAnsweredStep, FilesInHandStep, ArtifactHasItsFileStep, FetchingStep
     DEF FilesInv, RegistryInv, PublishInv
<1> QED
  BY <1>1, <1>2, RegistryInvariant, PTL DEF RegistrySpec

\* Every registered version has its file, whole and with the registered hash.
THEOREM EveryArtifactHasItsFile ==
  ASSUME DistinctVersions, PatientClients
  PROVE  RegistrySpec => []ArtifactHasItsFile
BY FilesInvariant, PTL DEF FilesInv

\* The bytes of a download are those its ETag is the hash of.
THEOREM DownloadsMatchTheirEtag ==
  ASSUME DistinctVersions, PatientClients
  PROVE  RegistrySpec => []EtagMatchesBytes
BY FilesInvariant, PTL DEF FilesInv
=============================================================================
