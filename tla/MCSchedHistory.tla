---------------------------- MODULE MCSchedHistory ----------------------------
(***************************************************************************)
(* An instance of SchedHistory, and so of Sched, for TLC: three tasks, one *)
(* of which never sleeps, priorities that differ and include 0.            *)
(***************************************************************************)
EXTENDS SchedHistory

CONSTANTS m, a, b

MCTasks == {m, a, b}
MCOrder == <<a, b>>
MCPrio == (m :> 1) @@ (a :> 0) @@ (b :> 2)
MCSleepers == {a, b}
==============================================================================
