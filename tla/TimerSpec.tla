------------------------------ MODULE TimerSpec ------------------------------
(***************************************************************************)
(* What the timer manager promises its users, before the clock wraps: a    *)
(* timer is never late, a one-shot timer fires once, a periodic one again  *)
(* and again.  It may be early, by Lap time units or more: what the wheel  *)
(* of timer.c really gives.                                                *)
(***************************************************************************)
EXTENDS Integers

CONSTANTS Timers, Lap, Dues, Periods, NoDeadline

VARIABLES time, deadline

timerVars == <<time, deadline>>

Init == time \in Nat /\ deadline = [t \in Timers |-> NoDeadline]

Create(t, due) ==
    /\ deadline[t] = NoDeadline
    /\ deadline' = [deadline EXCEPT ![t] = time + due]
    /\ UNCHANGED time

\* A period of 0 is a one-shot timer, forgotten when it has fired.
Fire(t, period) ==
    /\ deadline[t] # NoDeadline
    /\ deadline[t] = time \/ deadline[t] >= time + Lap
    /\ deadline' = [deadline EXCEPT ![t] =
         IF period = 0 THEN NoDeadline ELSE time + period]
    /\ UNCHANGED time

\* Time does not pass a deadline.
Advance ==
    /\ \A t \in Timers : deadline[t] # time
    /\ time' = time + 1
    /\ UNCHANGED deadline

Next ==
    \/ \E t \in Timers : \/ \E due \in Dues : Create(t, due)
                         \/ \E period \in Periods : Fire(t, period)
    \/ Advance

Spec == Init /\ [][Next]_timerVars
==============================================================================
