--------------------------- MODULE MCModelRegistry ---------------------------
(* Small sets of publishes for the runs of ModelRegistry. *)
EXTENDS ModelRegistryInv

Put(name, version, data) ==
  [name |-> name, version |-> version, data |-> data, via |-> "http", accepted |-> TRUE]

\* Two versions of model 1, one of them by the script, one version of model 2, and a
\* publish the route rejects.
DistinctUpload ==
  [first  |-> Put(1, "v1", "x"),
   second |-> [Put(1, "v2", "y") EXCEPT !.via = "script"],
   other  |-> Put(2, "v1", "z"),
   bad    |-> [Put(2, "v2", "y") EXCEPT !.accepted = FALSE]]

\* The first publish may be sent twice: after a refusal, unless its client is impatient.
RetryFirst == [u \in Uploads |-> IF u = "first" THEN 2 ELSE 1]

\* A version that is published again, with other content.
RepeatedUpload ==
  [first |-> Put(1, "v1", "x"),
   again |-> Put(1, "v1", "y")]

Once == [u \in Uploads |-> 1]

OneFetchesOnePulls == [g \in Fetchers |-> IF g = "g1" THEN 1 ELSE FromPull]
=============================================================================
