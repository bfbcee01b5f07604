----------------------------- MODULE SchedHistory -----------------------------
(***************************************************************************)
(* Sched with history variables, for properties that relate a dispatch to  *)
(* the ticks and the dispatches before it.  They record, and change        *)
(* nothing.                                                                *)
(***************************************************************************)
EXTENDS Sched

CONSTANT
    SleptCap    \* bound on the ticks counted for a sleep(), above any argument

ASSUME HistoryAssumption ==
    /\ SleptCap \in Nat \ {0}
    /\ \A d \in Delays : d < SleptCap

VARIABLES
    used,       \* ticks charged to the current task since its dispatch
    passed,     \* for each queued task, who was dispatched since it was queued
    slept,      \* for each task in sleep(), the ticks since the call, up to SleptCap
    clean,      \* no tick arrived between the two stores of this sleep()
    hurried,    \* the wheel has met a timer of this sleep() laps too soon
    stale       \* the last sleep() that returned was not clean

sleepHist == <<slept, clean, hurried, stale>>
histVars == <<used, passed, sleepHist>>
hvars == <<vars, histVars>>

HInit ==
    /\ Init
    /\ used = Prio[Main] - ticks[Main]
    /\ passed = [t \in Tasks |-> {}]
    /\ slept = [t \in Tasks |-> 0]
    /\ clean = [t \in Tasks |-> TRUE]
    /\ hurried = [t \in Tasks |-> FALSE]
    /\ stale = [t \in Tasks |-> FALSE]

\* An action that puts the head of the queue on the processor.
HDispatch ==
    /\ (Preempt \/ Park \/ Sigusr1)
    /\ used' = 0
    /\ passed' = [t \in Tasks |->
         IF t \in Range(ready') THEN passed[t] \union {cur'} ELSE {}]
    /\ UNCHANGED sleepHist

HCharge == Charge /\ used' = used + 1 /\ UNCHANGED <<passed, sleepHist>>

HTick ==
    /\ Tick
    /\ slept' = [t \in Tasks |->
         IF pc[t] # "run" /\ slept[t] < SleptCap THEN slept[t] + 1 ELSE slept[t]]
    /\ clean' = [clean EXCEPT ![cur] = @ /\ pc[cur] # "flagged"]
    /\ UNCHANGED <<used, passed, hurried, stale>>

HExpire ==
    /\ \E t \in Tasks : \E i \in DOMAIN timers[t] :
        /\ Expire(t, i)
        /\ hurried' = [hurried EXCEPT ![t] = @ \/ timers[t][i] # 0]
    /\ UNCHANGED <<used, passed, slept, clean, stale>>

HReturn ==
    /\ \E t \in Tasks :
        /\ SleepReturn(t)
        /\ slept' = [slept EXCEPT ![t] = 0]
        /\ clean' = [clean EXCEPT ![t] = TRUE]
        /\ hurried' = [hurried EXCEPT ![t] = FALSE]
        /\ stale' = [stale EXCEPT ![t] = ~clean[t]]
    /\ UNCHANGED <<used, passed>>

HOther ==
    /\ \/ TimersDone
       \/ ParkHangs
       \/ \E t \in Tasks : SleepCall(t) \/ SleepStamp(t)
    /\ UNCHANGED histVars

HNext == HDispatch \/ HCharge \/ HTick \/ HExpire \/ HReturn \/ HOther

HSpec == HInit /\ [][HNext]_hvars

\* With the fairness of Sched.
HFairSpec == HSpec /\ Fairness

-------------------------------------------------------------------------------
(* Properties.                                                               *)

\* Bounded waiting: while a task waits in the ready list nobody is dispatched
\* twice, so it waits for at most one turn of each other task, whatever sleeps,
\* wakes and priorities come between.
NoSecondTurn ==
    [][\A t \in Tasks : HDispatch /\ InReady(t) => cur' \notin passed[t]]_hvars

\* A task that is preempted has been charged exactly its priority in ticks since
\* it was dispatched: neither a sleep cut short nor a wake-up leaks part of an
\* earlier slice into this one.
FullSlice == [][Preempt \/ Sigusr1 => used = Prio[cur]]_hvars

\* hook.c: control comes back from sleep() after at least as long as asked.  A return
\* that is too early has one of two causes: a tick between the two stores of this call,
\* which parks the task with the timeout of an earlier call or none, or a wheel that met
\* the timer at least a lap of its first level before its time (TimerWheel says when).
\* Whatever else comes between the call and the return costs no time.
SleptEnough == \A t \in Tasks :
    Executing(t) /\ pc[t] = "spin" /\ ~collab[t] /\ slept[t] < arg[t]
        => ~clean[t] \/ hurried[t]

\* A timeout is the argument of the call its task is in, which still sleeps or was cut
\* between its two stores; or it is left over from the last call, which was.
TimeoutsMatchCalls == \A t \in Tasks : sleep_ms[t] # 0 =>
    IF pc[t] = "spin"
    THEN sleep_ms[t] = arg[t] /\ (collab[t] \/ ~clean[t])
    ELSE stale[t]

\* What a sleep leaves behind: the flag goes down with the wake-up, always; the timeout
\* survives it only if a tick came between the two stores.
NothingSurvives == FlagsMatchPlace /\ TimeoutsMatchCalls
==============================================================================
