------------------------------ MODULE ThreadTick ------------------------------
(***************************************************************************)
(* The Thread build from its first statement on: main of signalkill.c,     *)
(* which loads and attaches the eBPF program, calls init(), starts the     *)
(* tasks and polls the ring buffer; the eBPF program, which counts the     *)
(* kernel's switches away from the process and sends it SIGUSR1; and       *)
(* sig_handler, which runs the dispatcher of Sched.                        *)
(*                                                                         *)
(* In this build every tick switches tasks, and nothing runs the timers.   *)
(* The eBPF program is attached before init() makes the main task, so the  *)
(* start-up relies on its taking fewer switches than one time slice, and   *)
(* so does the handler on not being signalled again: EarlySwitches bounds  *)
(* the first, the second is assumed (no switch is counted in the handler). *)
(***************************************************************************)
EXTENDS Sched

CONSTANTS
    Slice,          \* 31: ticks in signalkill.c, new_time_slice in the eBPF program
    EarlySwitches   \* bound on the switches between the attachment and the end of init

ASSUME ThreadAssumption ==
    /\ ~COUNT_TICKS /\ ~RUN_TIMER
    /\ Slice \in Nat \ {0}
    /\ EarlySwitches \in 0..(Slice - 1)

VARIABLES
    stage,      \* the statement of main, an index of Statements
    made,       \* how many tasks main has started
    polling,    \* the poll loop of main
    slice,      \* time_slice_map[pid], 0 while there is none
    early,      \* switches since the attachment, while init is not done
    pending     \* SIGUSR1 has been sent and not delivered

threadVars == <<stage, made, polling, slice, early, pending>>
tvars == <<vars, threadVars>>

\* main of signalkill.c: the calls that matter, and those of init() in their order.
\* "current" is init_task's store of current_task, "magic" the rest of it.
Statements == <<"open", "load", "signal", "pid_map", "time_slice_map", "attach",
                "ring_buffer", "lists", "current", "magic", "start", "poll", "returned">>

\* The calls whose failure ends main.
MayFail == {"open", "load", "pid_map", "time_slice_map", "attach", "ring_buffer"}

Doing(s) == Statements[stage] = s
Done(s) == \E i \in 1..(stage - 1) : Statements[i] = s
Returned == Doing("returned")
MainTaskMade == Done("magic")

TInit ==
    /\ cur = Main
    /\ ready = <<>>
    /\ status = [t \in Tasks |-> IF t = Main THEN "RUNNING" ELSE "READY"]
    /\ ticks = Prio
    /\ collab = [t \in Tasks |-> FALSE]
    /\ sleep_ms = [t \in Tasks |-> 0]
    /\ timers = [t \in Tasks |-> <<>>]
    /\ pc = [t \in Tasks |-> "run"]
    /\ arg = [t \in Tasks |-> 0]
    /\ handler = "off"
    /\ stage = 1
    /\ made = 0
    /\ polling = "check"
    /\ slice = 0
    /\ early = 0
    /\ pending = FALSE

-------------------------------------------------------------------------------
(* main                                                                      *)

MainRuns == Executing(Main) /\ ~Returned

\* Mutant of FirstSlice: the map starts with 1.
MutFirstSlice == 1

\* The value main stores in time_slice_map.
FirstSlice == Slice

Return == stage' = Len(Statements)

StartUp ==
    /\ MainRuns
    /\ ~Doing("start") /\ ~Doing("poll")
    /\ stage' = stage + 1
    /\ slice' = IF Doing("time_slice_map") THEN FirstSlice ELSE slice
    /\ UNCHANGED <<vars, made, polling, early, pending>>

\* goto cleanup
StartUpFails ==
    /\ MainRuns
    /\ Statements[stage] \in MayFail
    /\ Return
    /\ UNCHANGED <<vars, made, polling, slice, early, pending>>

\* task_start, whose own steps are the subject of TaskLife
StartTask ==
    /\ MainRuns
    /\ Doing("start")
    /\ IF made < Len(StartOrder)
       THEN /\ ready' = Queued(StartOrder[made + 1])
            /\ made' = made + 1
            /\ UNCHANGED stage
       ELSE stage' = stage + 1 /\ UNCHANGED <<ready, made>>
    /\ UNCHANGED <<cur, taskVars, timers, pc, arg, handler, polling, slice, early, pending>>

InLoop(where) == MainRuns /\ Doing("poll") /\ pc[Main] = "run" /\ polling = where

\* ring_buffer__poll waits in the kernel ..
Poll ==
    /\ InLoop("check")
    /\ polling' = "wait"
    /\ UNCHANGED <<vars, stage, made, slice, early, pending>>

\* .. until it has handled events or 100 ms are over ..
Polled ==
    /\ InLoop("wait")
    /\ polling' = "check"
    /\ UNCHANGED <<vars, stage, made, slice, early, pending>>

\* .. or fails, which ends the loop and the process ..
PollFails ==
    /\ InLoop("wait")
    /\ Return
    /\ UNCHANGED <<vars, made, polling, slice, early, pending>>

\* .. or a signal handler ran: -EINTR, main leaves its loop, and the process ends.
PollInterrupted ==
    /\ InLoop("interrupted")
    /\ Return
    /\ UNCHANGED <<vars, made, polling, slice, early, pending>>

-------------------------------------------------------------------------------
(* The eBPF program at sched_switch, and the signal                          *)

\* bpf_dos.  A SIGUSR1 that is still pending absorbs a second one.
SchedSwitch ==
    /\ Done("attach") /\ ~Returned
    /\ handler = "off"
    /\ IF MainTaskMade
       THEN UNCHANGED early
       ELSE early < EarlySwitches /\ early' = early + 1
    /\ slice' = IF slice <= 1 THEN Slice ELSE slice - 1
    /\ pending' = (pending \/ slice <= 1)
    /\ UNCHANGED <<vars, stage, made, polling>>

\* sig_handler: interrupt_timer_handler, whose first statement reads current_task.
Deliver ==
    /\ pending /\ ~Returned
    /\ IF MainTaskMade
       THEN Tick
       ELSE /\ handler = "off"
            /\ handler' = IF Done("current") THEN "panic" ELSE "crash"
            /\ UNCHANGED <<cur, ready, taskVars, timers, pc, arg>>
    /\ pending' = FALSE
    /\ polling' = IF InLoop("wait") THEN "interrupted" ELSE polling
    /\ UNCHANGED <<stage, made, slice, early>>

Dispatched == Preempt \/ Park \/ ParkHangs

\* main is in its loop when it sleeps.
OwnStep(t) == (t = Main => Doing("poll") /\ polling = "check") /\ TaskStep(t)

TNext ==
    \/ StartUp \/ StartUpFails \/ StartTask
    \/ Poll \/ Polled \/ PollFails \/ PollInterrupted
    \/ SchedSwitch \/ Deliver
    \/ (Dispatched \/ \E t \in Tasks : OwnStep(t)) /\ UNCHANGED threadVars

TSpec == TInit /\ [][TNext]_tvars

\* The kernel switches away from the process again and again, delivers what is
\* pending, and the handler finishes.
TFairness ==
    /\ WF_tvars(SchedSwitch)
    /\ WF_tvars(Deliver)
    /\ WF_tvars(Dispatched /\ UNCHANGED threadVars)

TFairSpec == TSpec /\ TFairness

-------------------------------------------------------------------------------
(* Properties.                                                               *)

\* Whenever SIGUSR1 is delivered there is a complete current task to read (its magic
\* number is set), and no task is queued twice by it: the handler neither follows NULL
\* nor fails an assertion, from the attachment of the eBPF program on.
HandlerFindsTask == handler \notin {"panic", "crash"}

\* In the Thread build too every started task gets the processor, whoever sleeps for
\* ever, unless main has returned and taken the process with it.
TurnOrEnd == \A t \in Tasks : InReady(t) ~> (cur = t \/ Returned)
===============================================================================
