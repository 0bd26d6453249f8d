------------------------------ MODULE SyncPull ------------------------------
(***************************************************************************)
(* Downward sync: GET /v1/sync/pull beside the pushes of SyncPush.  A      *)
(* reading gateway keeps the cursor the API tells it to keep, and its copy *)
(* of table reports.  The page is one SELECT, so it sees committed rows    *)
(* only.  A lost response leaves the cursor alone: it is a stuttering step.*)
(* Administrators page through sync_logs by id in the same way.            *)
(* The model metadata of a pull are part of module ModelRegistry.          *)
(***************************************************************************)
EXTENDS SyncPush

CONSTANTS
  Readers,   \* gateways that pull
  Admins,    \* readers of GET /v1/sync/conflicts
  PageLimit  \* query parameter limit

ASSUME ReadersAreGateways == Readers \subseteq Gateways
ASSUME PageHoldsARow == PageLimit \in Nat \ {0}

VARIABLES
  cursor,    \* max_sequence_id of each reader's last pull
  replica,   \* each reader's copy of table reports
  audit      \* the entries of sync_logs each administrator has got

syncVars == <<vars, cursor, replica, audit>>

\* Rows after since that come no later than row x in the order of the SELECT.
UpTo(x, since) ==
  {y \in Ids : reports[y] # NoRow /\ since < reports[y].seq /\ reports[y].seq <= reports[x].seq}

\* Mutation: the newest rows come first.
NewestPage(since) ==
  {x \in Ids : /\ reports[x] # NoRow /\ reports[x].seq > since
               /\ Cardinality({y \in Ids : reports[y] # NoRow /\ reports[y].seq >= reports[x].seq})
                    <= PageLimit}

\* The first PageLimit rows after since.
Page(since) ==
  {x \in Ids : /\ reports[x] # NoRow /\ reports[x].seq > since
               /\ Cardinality(UpTo(x, since)) <= PageLimit}

\* Mutation: the SELECT asks for no row beyond the page.
NoRowBeyond(since) == FALSE

\* has_more of the response: the SELECT, of one row more than a page holds, found it.
HasMore(since) ==
  Cardinality({x \in Ids : reports[x] # NoRow /\ reports[x].seq > since}) > PageLimit

\* Mutation: the response carries the sequence's last value.
LastAllocated(page, since) == seq

\* max_sequence_id of a response with these rows.
MaxSequenceId(page, since) ==
  CHOOSE n \in {since} \cup {reports[x].seq : x \in page} :
    /\ n >= since
    /\ \A x \in page : n >= reports[x].seq

SyncInit ==
  /\ Init
  /\ cursor = [g \in Readers |-> 0]
  /\ replica = [g \in Readers |-> NoWrites]
  /\ audit = [a \in Admins |-> {}]

Pull(g) ==
  LET page == Page(cursor[g])
  IN  /\ page # {}
      /\ cursor' = [cursor EXCEPT ![g] = MaxSequenceId(page, @)]
      /\ replica' = [replica EXCEPT ![g] =
           [x \in Ids |-> IF x \in page THEN reports[x] ELSE replica[g][x]]]
      /\ UNCHANGED <<vars, audit>>

\* since_id of an administrator: the last id on the last page.
SinceId(a) ==
  CHOOSE n \in {0} \cup {l.id : l \in audit[a]} : \A l \in audit[a] : l.id <= n

\* Mutation: the newest entries come first.
NewestEntries(since) ==
  {l \in log : l.id > since /\ Cardinality({k \in log : k.id >= l.id}) <= PageLimit}

\* The first PageLimit entries after since.
Entries(since) ==
  {l \in log : l.id > since /\ Cardinality({k \in log : since < k.id /\ k.id <= l.id}) <= PageLimit}

\* has_more of a page of entries.
MoreEntries(since) == Cardinality({l \in log : l.id > since}) > PageLimit

Conflicts(a) ==
  LET page == Entries(SinceId(a))
  IN  /\ page # {}
      /\ audit' = [audit EXCEPT ![a] = @ \cup page]
      /\ UNCHANGED <<vars, cursor, replica>>

SyncNext ==
  \/ Next /\ UNCHANGED <<cursor, replica, audit>>
  \/ \E g \in Readers : Pull(g)
  \/ \E a \in Admins : Conflicts(a)

SyncSpec == SyncInit /\ [][SyncNext]_syncVars

\* Sessions run, and gateways keep polling.
FairSyncSpec ==
  /\ SyncSpec
  /\ \A t \in Sessions : WF_syncVars(Work(t) /\ UNCHANGED <<cursor, replica, audit>>)
  /\ \A g \in Readers : WF_syncVars(Pull(g))

-----------------------------------------------------------------------------
\* Types of the readers' state.
SyncTypeOK ==
  /\ TypeOK
  /\ cursor \in [Readers -> Nat]
  /\ replica \in [Readers -> [Ids -> Row \cup {NoRow}]]
  /\ audit \in [Admins -> SUBSET LogRow]

\* A reader whose cursor has passed the sequence id of a committed row holds
\* that row: polling from the cursor can skip nothing.
NothingSkipped ==
  \A g \in Readers, x \in Ids :
    reports[x] # NoRow /\ reports[x].seq <= cursor[g] => replica[g][x] = reports[x]

\* An administrator who pages by id gets every batch: an entry behind since_id has
\* been on a page.  The ids are taken before the entries are committed.
NoEntrySkipped ==
  \A a \in Admins : \A l \in log : l.id <= SinceId(a) => l \in audit[a]

\* A response that says has_more is false leaves nothing to ask for: with its page a
\* reader has every committed row as it is now, an administrator every batch.
LastPageCompletes ==
  /\ \A g \in Readers : ~HasMore(cursor[g]) =>
       \A x \in Ids : reports[x] # NoRow =>
         replica[g][x] = reports[x] \/ x \in Page(cursor[g])
  /\ \A a \in Admins : ~MoreEntries(SinceId(a)) => log \subseteq audit[a] \cup Entries(SinceId(a))

\* Once pushes cease every reader ends with exactly the server's rows.
ReplicasConverge == <>[](\A g \in Readers : replica[g] = reports)
=============================================================================
