------------------------------ MODULE Dashboard ------------------------------
(***************************************************************************)
(* The map layers of the dashboard beside pushes and triage.  A request    *)
(* that misses the Redis cache builds the layers from table reports, then  *)
(* puts them in the cache, where they stay for a time to live; requests    *)
(* run at the same time as everything else, and as each other.             *)
(*                                                                         *)
(* Of a copy of the layers only its age is kept: whether it is still what  *)
(* the table would yield.  Its content is never read otherwise.            *)
(***************************************************************************)
EXTENDS Triage

CONSTANTS
  Dashboards,  \* browsers that show the map
  LayerLimit   \* the limit of the SELECT

ASSUME LimitIsNumber == LayerLimit \in Nat

VARIABLES
  cache,     \* the cached copy
  building   \* the copy each dashboard's request has built and not yet cached

dashboardVars == <<triageVars, cache, building>>

Copy == {"none", "current", "stale"}

\* Rows of the map: live roads and supplies, which all have coordinates here.
Mapped == {x \in Ids : reports[x] # NoRow /\ ~reports[x].tomb /\ reports[x].kind \in {"road", "supply"}}

\* The layers: the newest LayerLimit of them, with their triage columns.
Layers ==
  {<<x, reports[x], scores[x]>> :
     x \in {y \in Mapped : Cardinality({z \in Mapped : reports[z].seq >= reports[y].seq}) <= LayerLimit}}

DashboardInit ==
  /\ TriageInit
  /\ cache = "none"
  /\ building = [d \in Dashboards |-> "none"]

\* A copy after a step of the rest of the system.
Aged(copy) == IF copy = "current" /\ Layers' # Layers THEN "stale" ELSE copy

\* The request finds nothing in the cache and runs its SELECT.
BuildLayers(d) ==
  /\ building[d] = "none" /\ cache = "none"
  /\ building' = [building EXCEPT ![d] = "current"]
  /\ UNCHANGED <<triageVars, cache>>

\* SETEX, and the answer.  A request that hits the cache is answered with the copy
\* that is there, and changes nothing.
StoreLayers(d) ==
  /\ building[d] # "none"
  /\ cache' = building[d]
  /\ building' = [building EXCEPT ![d] = "none"]
  /\ UNCHANGED triageVars

\* Mutation: SET without a time to live.
NeverExpires == FALSE

\* The time to live is over.
Expire ==
  /\ cache # "none"
  /\ cache' = "none"
  /\ UNCHANGED <<triageVars, building>>

DashboardWork(d) == BuildLayers(d) \/ StoreLayers(d)

Aging ==
  /\ cache' = Aged(cache)
  /\ building' = [d \in Dashboards |-> Aged(building[d])]

DashboardNext ==
  \/ TriageNext /\ Aging
  \/ \E d \in Dashboards : DashboardWork(d)
  \/ Expire

DashboardSpec == DashboardInit /\ [][DashboardNext]_dashboardVars

\* As for triage; dashboards keep refreshing, and time passes.
FairDashboardSpec ==
  /\ DashboardSpec
  /\ \A t \in Sessions : WF_dashboardVars(SessionWork(t) /\ Aging)
  /\ \A w \in Workers : WF_dashboardVars(WorkerWork(w) /\ Aging)
  /\ \A d \in Dashboards : WF_dashboardVars(DashboardWork(d))
  /\ WF_dashboardVars(Expire)

-----------------------------------------------------------------------------
\* Types of the variables, those of triage included.
DashboardTypeOK ==
  /\ TriageTypeOK
  /\ cache \in Copy
  /\ building \in [Dashboards -> Copy]

\* Once pushes and triage cease every dashboard is eventually, and from then on,
\* answered with the layers of the table, scores included, although a request may
\* cache layers that are out of date by then.
DashboardsConverge == <>[](cache # "stale" /\ \A d \in Dashboards : building[d] # "stale")
=============================================================================
