----------------------------- MODULE MCSyncPush -----------------------------
(* Small sets of pushes for the runs of SyncPush. *)
EXTENDS SyncPushInv

\* A live road, supply or SOS report; the same as a delete, flagged or dated.
Live(id, kind, seg, upd) ==
  [id |-> id, kind |-> kind, seg |-> seg, created |-> upd, upd |-> upd,
   deleted |-> NoTime, tomb |-> FALSE]
Flagged(item) == [item EXCEPT !.tomb = TRUE]
Deleted(item) == [item EXCEPT !.deleted = item.upd]

Batch(gw, batch, items) ==
  [via |-> "http", gw |-> gw, batch |-> batch, admitted |-> TRUE, items |-> items]

\* a and b write the same two reports in opposite orders, for two gateways, b over
\* gRPC; c is a later delete by the first gateway, whose report id is that of the SOS and whose time is ahead
\* of the server's clock at first.
TwoGatewayBody ==
  [a |-> Batch(1, 1, <<Live(1, "road", "s1", 2), Live(3, "sos", NoSeg, 1)>>),
   b |-> [Batch(2, 1, <<Live(3, "sos", NoSeg, 2), Flagged(Live(1, "road", "s1", 1))>>)
            EXCEPT !.via = "grpc"],
   c |-> Batch(1, 2, <<Deleted(Live(3, "road", "s1", 4))>>)]

\* Three gateways report one segment under three ids.
RivalsBody ==
  [a |-> Batch(1, 1, <<Live(1, "road", "s1", 1)>>),
   b |-> Batch(2, 1, <<Live(2, "road", "s1", 2)>>),
   c |-> Batch(1, 2, <<Live(3, "road", "s1", 3)>>)]

\* A road of a segment, its delete, the same delete repeated without the segment,
\* and a stale live report of the segment.
DetachBody ==
  [a |-> Batch(1, 1, <<Deleted(Live(1, "road", "s1", 1))>>),
   b |-> Batch(1, 2, <<Deleted(Live(1, "road", NoSeg, 2))>>),
   c |-> Batch(1, 3, <<Live(2, "road", "s1", 1)>>)]

Once == [r \in Requests |-> 1]
Twice == [r \in Requests |-> 2]
\* Only push a is sent again.
RetryA == [r \in Requests |-> IF r = "a" THEN 2 ELSE 1]
=============================================================================
