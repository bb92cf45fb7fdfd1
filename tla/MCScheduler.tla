---------------------------- MODULE MCScheduler ----------------------------
(* Idle plus three processes; the first two of the same priority.          *)
EXTENDS Scheduler

MCPriority == <<1, 2, 2, 3>>
PriorityOf == [t \in 0 .. 3 |-> MCPriority[t + 1]]
=============================================================================
