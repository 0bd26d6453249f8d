----------------------------- MODULE MCSyncPull -----------------------------
(* Small sets of pushes for the runs that pull while gateways push. *)
EXTENDS SyncPullInv

\* A live road, supply or SOS report; the same as a delete.
Live(id, kind, seg, upd) ==
  [id |-> id, kind |-> kind, seg |-> seg, created |-> upd, upd |-> upd,
   deleted |-> NoTime, tomb |-> FALSE]
Flagged(item) == [item EXCEPT !.tomb = TRUE]

Batch(gw, batch, items) ==
  [via |-> "http", gw |-> gw, batch |-> batch, admitted |-> TRUE, items |-> items]

\* Batches of one gateway.  a and c report the road of segment s1, c being the more
\* recent; b deletes it between the two.  d reuses id 1 for an SOS, after a write
\* to a supply without a segment that c also reports.
OneGatewayBody ==
  [a |-> Batch(1, 1, <<Live(1, "road", "s1", 1), Live(3, "sos", NoSeg, 1)>>),
   b |-> Batch(1, 2, <<Flagged(Live(2, "road", "s1", 2))>>),
   c |-> Batch(1, 3, <<Live(2, "road", "s1", 3), Live(4, "supply", NoSeg, 1)>>),
   d |-> Batch(1, 4, <<Live(4, "supply", NoSeg, 2), Live(1, "sos", NoSeg, 2)>>)]

\* Three pushes of two gateways for one segment, under three ids.
RivalsBody ==
  [a |-> Batch(1, 1, <<Live(1, "road", "s1", 1)>>),
   b |-> Batch(2, 1, <<Live(2, "road", "s1", 2)>>),
   c |-> Batch(1, 2, <<Live(3, "road", "s1", 3)>>)]

Once == [r \in Requests |-> 1]
=============================================================================
