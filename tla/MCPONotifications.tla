-------------------------- MODULE MCPONotifications --------------------------
(* Small instances of PONotifications for TLC. *)
EXTENDS PONotifications, TLC

CONSTANTS n1, n2, p1, sched, web

OnePO == [n \in {n1, n2} |-> p1]
=============================================================================
