-------------------------- MODULE ModelRegistryInv --------------------------
(***************************************************************************)
(* What holds of files and rows when every version is that of one upload,  *)
(* and clients repeat an upload only after an answer that refuses it.      *)
(***************************************************************************)
EXTENDS ModelRegistry

\* No two uploads that pass the route's checks have one file.
DistinctVersions ==
  \A u, v \in Uploads :
    Upload[u].accepted /\ Upload[v].accepted /\ StoragePath(Upload[u]) = StoragePath(Upload[v])
      => u = v

\* No upload is sent again while its client does not know that it was refused.
PatientClients == Impatient = {}

\* Row a is the one of upload u.
IsRowOf(a, u) == a.name = Upload[u].name /\ a.version = Upload[u].version
InTable(u) == \E a \in artifacts : IsRowOf(a, u)

\* An upload is published once at a time, and every attempt is answered at most once.
AttemptsInOrder ==
  /\ \A p, q \in Publishers :
       pub[p].pc # "idle" /\ pub[q].pc # "idle" /\ pub[p].up = pub[q].up => p = q
  /\ \A p \in Publishers : pub[p].pc # "idle" => Upload[pub[p].up].accepted
  /\ \A u \in Uploads : /\ Len(replies[u]) <= attempts[u]
                        /\ InFlight(u) => Len(replies[u]) < attempts[u]

\* The client of a registered upload has a 201, or has not been told: an answer is
\* lost or a 500, and neither is a refusal.
RegisteredIsAnswered ==
  \A u \in Uploads : Upload[u].accepted /\ InTable(u) =>
    Len(replies[u]) < attempts[u] \/ \E i \in DOMAIN replies[u] : replies[u][i] \in {201, 500}

\* A publish has a file and no row until its commit.
FilesInHand ==
  \A p \in Publishers :
    /\ pub[p].pc \notin {"idle", "reply"} => ~InTable(pub[p].up)
    /\ pub[p].pc \in {"clear", "lock", "insert", "commit"} =>
         files[StoragePath(Of(p))] = Of(p).data

\* A download in progress is of a registered file.
StreamsOfRows ==
  \A g \in Fetchers : fetch[g].pc = "streaming" =>
    \E a \in artifacts :
      a.name = fetch[g].name /\ a.version = fetch[g].version /\ a.sha = fetch[g].etag

FilesInv ==
  /\ AttemptsInOrder
  /\ RegisteredIsAnswered
  /\ FilesInHand
  /\ ArtifactHasItsFile
  /\ StreamsOfRows
  /\ EtagMatchesBytes
=============================================================================
