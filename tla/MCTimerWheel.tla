----------------------------- MODULE MCTimerWheel -----------------------------
(***************************************************************************)
(* A small wheel for TLC: rings of 4, 2, 2, 2 and 2 slots, ticks 2 apart,  *)
(* a clock of 8 bits, where timer.h has rings of 256, 64, 64, 64 and 64    *)
(* slots, ticks 10 apart and a clock of 32 bits.                           *)
(***************************************************************************)
EXTENDS TimerWheel

CONSTANTS t1, t2

\* Around the boundaries of the rings: 8, 16, 32 and 64.
MCDues == 0..17 \union {23, 24, 30, 31, 32, 33, 47, 48, 62, 63, 64, 65, 100}
==============================================================================
