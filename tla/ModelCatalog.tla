---------------------------- MODULE ModelCatalog ----------------------------
(***************************************************************************)
(* What publishing promises, without transactions, files or locks: one     *)
(* step adds a release of a model and makes it the current one.  Nothing   *)
(* is withdrawn, no version is released twice, and a model that has        *)
(* releases always has a current one.                                      *)
(***************************************************************************)
EXTENDS FiniteSets

VARIABLES
  releases,  \* [name, version, sha] of every release
  current    \* those of them that are current

Release(r) ==
  /\ \A q \in releases : q.name = r.name => q.version # r.version
  /\ releases' = releases \cup {r}
  /\ current' = {q \in current : q.name # r.name} \cup {r}

CatalogInit == releases = {} /\ current = {}

CatalogNext == \E r \in releases' : Release(r)

CatalogSpec == CatalogInit /\ [][CatalogNext]_<<releases, current>>
=============================================================================
