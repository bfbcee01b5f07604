-------------------------------- MODULE Sched --------------------------------
(***************************************************************************)
(* The dispatcher: the periodic signal handler (interrupt_timer_handler,   *)
(* schedule, collaborative_schedule, the timer callback) and the hooked    *)
(* sleep(), for a fixed set of started tasks.                              *)
(*                                                                         *)
(* The handler runs with its own signal blocked, so it is not preempted by *)
(* another tick; it is split here into entering, one step per expired      *)
(* timer, leaving run_timer, and dispatching.  A task executes only        *)
(* outside the handler; sleep() is split into its statements, because a    *)
(* tick can arrive between any two of them.                                *)
(*                                                                         *)
(* Time is counted in tick periods.  A pending timer carries the number of *)
(* whole periods that may still pass before run_timer reaches its slot.    *)
(***************************************************************************)
EXTENDS Naturals, Sequences, SequencesExt

CONSTANTS
    Tasks,        \* the started tasks, main included
    Main,         \* the task main() was turned into by make_main_task
    Sleepers,     \* the tasks whose function calls sleep()
    StartOrder,   \* the other tasks, in the order task_start made them
    Prio,         \* priority of each task, the uint8_t of struct task_struct
    Delays,       \* the sleep() arguments that occur, in tick periods
    WheelSpan,    \* a timer with this much time left or more may fire early
                  \* (level 1 of the wheel holds it one or more laps too soon)
    COUNT_TICKS,  \* TRUE: the handler counts a time slice down (User_Schedule)
    RUN_TIMER     \* TRUE: the handler calls run_timer (commented out in Thread)

ASSUME SchedAssumption ==
    /\ Main \in Tasks
    /\ StartOrder \in Seq(Tasks)
    /\ IsInjective(StartOrder)
    /\ Range(StartOrder) = Tasks \ {Main}
    /\ Sleepers \subseteq Tasks
    /\ Prio \in [Tasks -> 0..255]
    /\ Delays \subseteq Nat
    /\ WheelSpan \in Nat \ {0}
    /\ COUNT_TICKS \in BOOLEAN
    /\ RUN_TIMER \in BOOLEAN

VARIABLES
    cur,        \* current_task
    ready,      \* task_ready_list, front first
    status,     \* task_struct.status
    ticks,      \* task_struct.ticks
    collab,     \* task_struct.is_collaborative_schedule
    sleep_ms,   \* task_struct.sleep_millisecond, in tick periods
    timers,     \* per task, the pending collaborative_schedule_helper timers
    pc,         \* where each task is: in its own code or in sleep()
    arg,        \* the argument of the sleep() a task is in
    handler     \* what the processor is doing

vars == <<cur, ready, status, ticks, collab, sleep_ms, timers, pc, arg, handler>>
taskVars == <<status, ticks, collab, sleep_ms>>

InReady(t) == t \in Range(ready)              \* elem_find(&task_ready_list, ..)
HasTimer(t) == timers[t] # <<>>

\* As main leaves the start of the program: itself current, with some of its
\* time slice used up, and every other task queued in the order of its creation.
Init ==
    /\ cur = Main
    /\ ready = StartOrder
    /\ status = [t \in Tasks |-> IF t = Main THEN "RUNNING" ELSE "READY"]
    /\ \E left \in 0..Prio[Main] : ticks = [Prio EXCEPT ![Main] = left]
    /\ collab = [t \in Tasks |-> FALSE]
    /\ sleep_ms = [t \in Tasks |-> 0]
    /\ timers = [t \in Tasks |-> <<>>]
    /\ pc = [t \in Tasks |-> "run"]
    /\ arg = [t \in Tasks |-> 0]
    /\ handler = "off"

-------------------------------------------------------------------------------
(* Mutants: what a plausible slip would make of the definitions below them;    *)
(* each breaks one of the properties at the end.                               *)

MutQueuedFirst(t) == <<t>> \o ready                    \* list_push
MutQueuedIfEmpty(t) == IF ready = <<>> THEN <<t>> ELSE ready
MutNewSlice(t) == UNCHANGED ticks                      \* ticks not renewed
MutEndSleep(t) == UNCHANGED collab                     \* flag not cleared
MutEndTimeout(t) == UNCHANGED sleep_ms                 \* timeout not cleared
MutGetNextTask(q, st) ==                               \* front read, not popped
    cur' = Head(q) /\ ready' = q /\ status' = [st EXCEPT ![Head(q)] = "RUNNING"]
MutSliceOver == ~collab[cur] /\ (COUNT_TICKS => ticks[cur] = 1)
MutCreateTimer(t) == UNCHANGED timers                  \* no timer
MutCreateTimerNow(t) == timers' = [timers EXCEPT ![t] = Append(@, 0)]

-------------------------------------------------------------------------------
(* The hooked sleep(): the task sets the flag, then the timeout, then spins  *)
(* until a timer callback has cleared the flag.                              *)

Executing(t) == handler = "off" /\ cur = t

SleepCall(t) ==
    /\ Executing(t)
    /\ t \in Sleepers
    /\ pc[t] = "run"
    /\ collab' = [collab EXCEPT ![t] = TRUE]
    /\ pc' = [pc EXCEPT ![t] = "flagged"]
    /\ \E d \in Delays : arg' = [arg EXCEPT ![t] = d]
    /\ UNCHANGED <<cur, ready, status, ticks, sleep_ms, timers, handler>>

SleepStamp(t) ==
    /\ Executing(t)
    /\ pc[t] = "flagged"
    /\ sleep_ms' = [sleep_ms EXCEPT ![t] = arg[t]]
    /\ pc' = [pc EXCEPT ![t] = "spin"]
    /\ UNCHANGED <<cur, ready, status, ticks, collab, timers, arg, handler>>

SleepReturn(t) ==
    /\ Executing(t)
    /\ pc[t] = "spin"
    /\ ~collab[t]
    /\ pc' = [pc EXCEPT ![t] = "run"]
    /\ arg' = [arg EXCEPT ![t] = 0]
    /\ UNCHANGED <<cur, ready, taskVars, timers, handler>>

TaskStep(t) == SleepCall(t) \/ SleepStamp(t) \/ SleepReturn(t)

-------------------------------------------------------------------------------
(* The handler.                                                              *)

Tick ==
    /\ handler = "off"
    /\ handler' = IF RUN_TIMER THEN "timers" ELSE "dispatch"
    /\ UNCHANGED <<cur, ready, taskVars, timers, pc, arg>>

\* assert() of the handler's own code failed: user_spin() loops for ever with
\* the signal blocked.
Panic == handler' = "panic" /\ UNCHANGED <<cur, ready, taskVars, timers, pc, arg>>

\* list_append(&task_ready_list, t): the new ready list.
Queued(t) == Append(ready, t)

\* The loop of sleep() may end.
EndSleep(t) == collab' = [collab EXCEPT ![t] = FALSE]

\* The next sleep() starts without a timeout.
EndTimeout(t) == sleep_ms' = [sleep_ms EXCEPT ![t] = 0]

\* The next time t is dispatched it has a full time slice.
NewSlice(t) == ticks' = [ticks EXCEPT ![t] = Prio[t]]

\* collaborative_schedule_helper(t): the sleeper goes to the back of the queue,
\* with a full time slice, and may leave its loop.
Wake(t) ==
    /\ ready' = Queued(t)
    /\ NewSlice(t)
    /\ status' = [status EXCEPT ![t] = "READY"]
    /\ EndSleep(t)
    /\ EndTimeout(t)

\* run_timer reaches the slot of the i-th timer of t: the callback, with its
\* assertion, after which the one-shot timer is freed.  Due timers cannot be left
\* behind; one far from due may be met laps too soon.
Expire(t, i) ==
    /\ handler = "timers"
    /\ timers[t][i] = 0 \/ timers[t][i] >= WheelSpan
    /\ IF InReady(t)
       THEN Panic
       ELSE /\ Wake(t)
            /\ timers' = [timers EXCEPT ![t] = RemoveAt(@, i)]
            /\ UNCHANGED <<cur, pc, arg, handler>>

\* run_timer has caught up with the clock.
TimersDone ==
    /\ handler = "timers"
    /\ \A t \in Tasks : 0 \notin Range(timers[t])
    /\ timers' = [t \in Tasks |-> [i \in DOMAIN timers[t] |-> timers[t][i] - 1]]
    /\ handler' = "dispatch"
    /\ UNCHANGED <<cur, ready, taskVars, pc, arg>>

\* get_next_task on the queue q, with the statuses st
GetNextTask(q, st) ==
    /\ cur' = Head(q)
    /\ ready' = Tail(q)
    /\ status' = [st EXCEPT ![Head(q)] = "RUNNING"]

\* schedule(): unless its assertion fails, the current task to the back of the
\* queue with a new time slice, the front one on the processor.
Schedule ==
    IF InReady(cur)
    THEN Panic
    ELSE /\ GetNextTask(Queued(cur), [status EXCEPT ![cur] = "READY"])
         /\ NewSlice(cur)
         /\ handler' = "off"
         /\ UNCHANGED <<collab, sleep_ms, timers, pc, arg>>

SliceOver == ~collab[cur] /\ (COUNT_TICKS => ticks[cur] = 0)

Preempt == handler = "dispatch" /\ SliceOver /\ Schedule

\* The slice is not over: count the tick.
Charge ==
    /\ handler = "dispatch"
    /\ ~collab[cur]
    /\ ~SliceOver
    /\ ticks' = [ticks EXCEPT ![cur] = @ - 1]
    /\ handler' = "off"
    /\ UNCHANGED <<cur, ready, status, collab, sleep_ms, timers, pc, arg>>

\* create_timer(collaborative_schedule_helper, t, t->sleep_millisecond, 0)
CreateTimer(t) == timers' = [timers EXCEPT ![t] = Append(@, sleep_ms[t])]

\* The task is in sleep(): create_timer, then collaborative_schedule, which does
\* not queue it and leaves its status alone.
Park ==
    /\ handler = "dispatch"
    /\ collab[cur]
    /\ ready # <<>>
    /\ CreateTimer(cur)
    /\ GetNextTask(ready, status)
    /\ handler' = "off"
    /\ UNCHANGED <<ticks, collab, sleep_ms, pc, arg>>

\* collaborative_schedule() with nothing to run: while(1) inside the handler,
\* with the tick that could fire the timers blocked.
ParkHangs ==
    /\ handler = "dispatch"
    /\ collab[cur]
    /\ ready = <<>>
    /\ CreateTimer(cur)
    /\ handler' = "hung"
    /\ UNCHANGED <<cur, ready, taskVars, pc, arg>>

\* SIGUSR1 in User_Schedule: sig_handler, schedule() when the slice is used up.
Sigusr1 == COUNT_TICKS /\ handler = "off" /\ SliceOver /\ Schedule

Dispatch == Preempt \/ Charge \/ Park \/ ParkHangs

RunTimer ==
    \/ \E t \in Tasks : \E i \in DOMAIN timers[t] : Expire(t, i)
    \/ TimersDone

Next ==
    \/ \E t \in Tasks : TaskStep(t)
    \/ Tick
    \/ RunTimer
    \/ Dispatch
    \/ Sigusr1

Spec == Init /\ [][Next]_vars

\* The interval timer never stops and the handler always finishes what it can;
\* a task inside sleep() that gets the processor again and again executes its next
\* statement there.
Fairness ==
    /\ WF_vars(Tick)
    /\ WF_vars(RunTimer)
    /\ WF_vars(Dispatch)
    /\ \A t \in Tasks : SF_vars(SleepStamp(t) \/ SleepReturn(t))

FairSpec == Spec /\ Fairness

-------------------------------------------------------------------------------
(* Properties.                                                               *)

TypeOK ==
    /\ cur \in Tasks
    /\ ready \in Seq(Tasks)
    /\ status \in [Tasks -> {"RUNNING", "READY"}]
    /\ ticks \in [Tasks -> 0..255]
    /\ collab \in [Tasks -> BOOLEAN]
    /\ sleep_ms \in [Tasks -> Nat]
    /\ timers \in [Tasks -> Seq(Nat)]
    /\ pc \in [Tasks -> {"run", "flagged", "spin"}]
    /\ arg \in [Tasks -> Nat]
    /\ handler \in {"off", "timers", "dispatch", "hung", "panic"}

\* No task is lost and none is in two places: a started task is the current one,
\* or queued exactly once, or asleep with exactly one pending timer.  A task lost
\* here never runs again; a task queued twice corrupts the intrusive list
\* (schedule, collaborative_schedule and the callback all move the same
\* general_tag).
OnePlace ==
    /\ IsInjective(ready)
    /\ \A t \in Tasks :
        /\ Len(timers[t]) \in {0, 1}
        /\ InReady(t) => t # cur /\ ~HasTimer(t)
        /\ HasTimer(t) => t # cur \/ handler = "hung"
        /\ t = cur \/ InReady(t) \/ HasTimer(t)

\* What the scheduler reads later agrees with where the task is: a task with a timer is
\* in sleep() with the flag up, no task outside sleep() has it up, and a queued task is
\* READY with a full time slice and the flag down.  (Of the timeout SchedHistory says when
\* one is left over.)
FlagsMatchPlace ==
    \A t \in Tasks :
        /\ HasTimer(t) => collab[t] /\ pc[t] \in {"flagged", "spin"}
        /\ InReady(t) => ~collab[t] /\ status[t] = "READY" /\ ticks[t] = Prio[t]
        /\ collab[t] => pc[t] \in {"flagged", "spin"}

\* The assertions of schedule() and of collaborative_schedule_helper() never fail.
NeverPanics == handler # "panic"

\* collaborative_schedule never finds the ready list empty, provided some task
\* never sleeps.
NeverHangs == Sleepers # Tasks => handler # "hung"

\* sleep() returns.
SleepEnds == \A t \in Sleepers : pc[t] # "run" ~> pc[t] = "run"

\* The dispatcher implements a round robin: the current task followed by the ready list is
\* one circular queue, a task with a pending timer sleeps outside it, and every
\* step of the handler is a rotation, a sleep, a wake-up or invisible.
RR == INSTANCE RoundRobin WITH
    queue <- IF handler = "hung" THEN <<>> ELSE <<cur>> \o ready,
    asleep <- {t \in Tasks : HasTimer(t)}

\* No task is overtaken in the queue and a wake-up goes to its end.
ImplementsRoundRobin == RR!Spec

\* And with the round robin's promises: no task keeps the processor for ever,
\* every sleeper returns to the queue.
ImplementsFairRoundRobin == RR!FairSpec
==============================================================================
