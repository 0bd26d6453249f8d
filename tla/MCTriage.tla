------------------------------- MODULE MCTriage -------------------------------
(* Small sets of pushes and tasks for the runs of Triage. *)
EXTENDS TriageInv

Live(id, kind, seg, upd) ==
  [id |-> id, kind |-> kind, seg |-> seg, created |-> upd, upd |-> upd,
   deleted |-> NoTime, tomb |-> FALSE]

Batch(gw, batch, items) ==
  [via |-> "http", gw |-> gw, batch |-> batch, admitted |-> TRUE, items |-> items]

\* Two gateways report the same road and supply, in opposite orders, the second in
\* an alarm; the first one also sends an SOS.
TriageBody ==
  [a |-> Batch(1, 1, <<Live(1, "road", "s1", 1), Live(2, "supply", NoSeg, 1), Live(3, "sos", NoSeg, 1)>>),
   b |-> Batch(2, 1, <<Live(2, "supply", NoSeg, 2), Live(1, "road", "s1", 2)>>)]

\* The first update has high priority, the second is an alarm with casualties.
TriageDetail ==
  [upd \in {1, 2} |-> [alarm |-> upd = 2, high |-> upd = 1, hurt |-> upd = 2]]

Once == [r \in Requests |-> 1]
=============================================================================
