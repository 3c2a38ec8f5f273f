---------------------------- MODULE MCSwitchboard ----------------------------
(* Switchboard for TLC: one way enough objects to fill the receive queue, the pump   *)
(* and the send queue at once, so that close() can also wait for its sentinel.       *)
EXTENDS Switchboard, TLC
CONSTANTS x1, x2, x3, x4, x5, y1

Sides == [x \in {x1, x2, x3, x4, x5} |-> "lr"] @@ [x \in {y1} |-> "rl"]
==============================================================================
