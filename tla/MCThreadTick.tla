----------------------------- MODULE MCThreadTick -----------------------------
(***************************************************************************)
(* An instance of ThreadTick for TLC: main and two tasks.  Every task may  *)
(* sleep, main as well, as it does in the loop of the other build's        *)
(* main.c, so that there is a state in which nobody is awake.              *)
(***************************************************************************)
EXTENDS ThreadTick

CONSTANTS m, a, b

MCTasks == {m, a, b}
MCOrder == <<a, b>>
MCPrio == (m :> 1) @@ (a :> 2) @@ (b :> 2)
===============================================================================
