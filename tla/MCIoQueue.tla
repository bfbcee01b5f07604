------------------------------- MODULE MCIoQueue -------------------------------
(***************************************************************************)
(* Instances of IoQueue for TLC: MCIoQueue.cfg, a small ring with ticks at *)
(* every statement, and MCIoQueueDeadlock.cfg, a ring that fills.          *)
(***************************************************************************)
EXTENDS IoQueue
==============================================================================
