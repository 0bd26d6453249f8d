----------------------------- MODULE MergePolicy -----------------------------
(***************************************************************************)
(* The pure merge rules of app/services/merge_policy.py, and the rows and  *)
(* items they relate.  Nothing here has state: the operators take what the *)
(* Python functions take and return what they return.                      *)
(*                                                                         *)
(* Data abstraction.  Report ids and gateway ids are natural numbers, so   *)
(* that the lexicographic comparison of their string forms is the order of *)
(* the numbers.  status, payload and created_at travel with updated_at and *)
(* nothing below reads them, so a stored row keeps updated_at only.        *)
(***************************************************************************)
EXTENDS Integers

CONSTANTS
  Ids,        \* report primary keys
  Gateways,   \* gateway primary keys
  Segs,       \* non-empty segment keys
  NoSeg,      \* segment_key None or "" (both are falsy in the code)
  NoRow       \* SQL "no such row"

NoTime == 0   \* deleted_at None; real instants are positive

Kinds == {"road", "supply", "sos"}

\* A ReportItem of a push body.
Item == [id : Ids, kind : Kinds, seg : Segs \cup {NoSeg}, created : Nat,
         upd : Nat, deleted : Nat, tomb : BOOLEAN]

\* A row of table reports.
Row == [kind : Kinds, seg : Segs \cup {NoSeg}, upd : Nat, gw : Gateways,
        deleted : Nat, tomb : BOOLEAN, seq : Nat,
        triage : {"pending", "completed"}]

ASSUME IdsAreNumbers == Ids \subseteq Nat /\ Ids # {}
ASSUME GatewaysAreNumbers == Gateways \subseteq Nat
ASSUME NoSegIsNoSegment == NoSeg \notin Segs
ASSUME NoRowIsNoRow == NoRow \notin Row

-----------------------------------------------------------------------------
\* A delete is flagged by deleted_at or by the explicit flag.
IncomingIsTombstone(item) == item.tomb \/ item.deleted # NoTime

\* The deletion time stored with a tombstone: deleted_at, else updated_at.
TombstoneDeletedAt(item) ==
  IF item.deleted # NoTime THEN item.deleted
  ELSE IF item.tomb THEN item.upd
  ELSE NoTime

WinnerTuple(upd, gw, id) == <<upd, gw, id>>

\* Python's tuple comparison  a > b.
TupleGreater(a, b) ==
  \/ a[1] > b[1]
  \/ a[1] = b[1] /\ a[2] > b[2]
  \/ a[1] = b[1] /\ a[2] = b[2] /\ a[3] > b[3]

\* Mutation: the last to arrive wins.
ArrivalOrder(item, gw, exId, ex) == TRUE

\* The item pushed by gw wins against row ex, stored under primary key exId.
IncomingBeatsExistingRow(item, gw, exId, ex) ==
  TupleGreater(WinnerTuple(item.upd, gw, item.id),
               WinnerTuple(ex.upd, ex.gw, exId))

\* Mutation: tombstones are ordinary last-write-wins rows.
NeverBlocked(item, ex) == FALSE

\* An established tombstone is never replaced by a live item.
BlockedByTombstone(item, ex) == ex.tomb /\ ~IncomingIsTombstone(item)

\* What to do with a road or supply item, given the canonical row for it (ex
\* under key exId, NoRow when there is none), and on which primary key.
DecideRoadLikeMerge(item, gw, exId, ex) ==
  IF ex = NoRow THEN [action |-> "insert", id |-> item.id]
  ELSE IF ~BlockedByTombstone(item, ex) /\ IncomingBeatsExistingRow(item, gw, exId, ex)
    THEN [action |-> "update", id |-> exId]
    ELSE [action |-> "noop", id |-> exId]

\* Mutation: a repeated SOS id overwrites.
OverwriteSos(item, ex) ==
  [action |-> IF ex = NoRow THEN "insert" ELSE "update", id |-> item.id]

\* A repeated SOS id is ignored: the first write is the only one.
DecideSosMerge(item, ex) ==
  [action |-> IF ex = NoRow THEN "insert" ELSE "noop", id |-> item.id]

\* Mutation: source_gateway_id is left NULL.
StoredRowOfNobody(item, gw, seq) ==
  [kind |-> item.kind, seg |-> item.seg, upd |-> item.upd, gw |-> NoRow,
   deleted |-> NoTime, tomb |-> FALSE, seq |-> seq, triage |-> "pending"]

\* The row an accepted item is stored as.  deleted_at and the tombstone flag of
\* an SOS item are dropped; every write puts the row back to triage "pending".
StoredRow(item, gw, seq) ==
  [kind    |-> item.kind,
   seg     |-> item.seg,
   upd     |-> item.upd,
   gw      |-> gw,
   deleted |-> IF item.kind = "sos" THEN NoTime ELSE TombstoneDeletedAt(item),
   tomb    |-> item.kind # "sos" /\ IncomingIsTombstone(item),
   seq     |-> seq,
   triage  |-> "pending"]
=============================================================================
