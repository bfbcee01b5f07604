-------------------------------- MODULE MCSync --------------------------------
(***************************************************************************)
(* Instances of Sync for TLC: three tasks, one lock, acquired twice over.  *)
(***************************************************************************)
EXTENDS Sync

CONSTANTS a, b, c

MCTasks == {a, b, c}
MCOthers == <<b, c>>
==============================================================================
