------------------------------ MODULE MCTaskLife ------------------------------
(***************************************************************************)
(* Instances of TaskLife for TLC: main and two more tasks.                 *)
(***************************************************************************)
EXTENDS TaskLife

CONSTANTS m, a, b

MCTasks == {m, a, b}
===============================================================================
