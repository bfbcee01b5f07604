------------------------------- MODULE MCTidPool -------------------------------
(***************************************************************************)
(* An instance of TidPool for TLC: two bytes of two bits, so that one task *)
(* of five finds the bitmap full, and a tid_t that just holds their tids.  *)
(***************************************************************************)
EXTENDS TidPool, TLC

CONSTANTS a, b, c, d, e

MCTasks == {a, b, c, d, e}
MCSymmetry == Permutations(MCTasks)
==============================================================================
