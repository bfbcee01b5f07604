--------------------------------- MODULE Sync ---------------------------------
(***************************************************************************)
(* One lock of sync.c and the tasks that use it: lock_acquire,             *)
(* lock_release, the semaphore below it, task_block and task_unblock,      *)
(* statement by statement, under a tick that may arrive between two        *)
(* statements.                                                             *)
(*                                                                         *)
(* interrupt_disable blocks SIGUSR1.  That stops the tick in Thread, where *)
(* SIGUSR1 is the tick, and not in User_Schedule, where SIGALRM is.  The   *)
(* signal mask belongs to the process: context_swap neither saves nor      *)
(* restores it, so whoever runs next inherits it.                          *)
(*                                                                         *)
(* An operation on a list is one step here, and block_task_schedule is: a  *)
(* tick inside of it counts as one before it, at "pick".  A local variable *)
(* that is not read again is reset (temp, woken).  What breaks the lock is *)
(* a tick at one of a few statements; a history (split, tears, contended)  *)
(* records it, so that the properties can say that nothing else does.      *)
(***************************************************************************)
EXTENDS Naturals, Sequences, SequencesExt

CONSTANTS
    Tasks,
    First,          \* the task that runs first
    Others,         \* the rest, in the order of the ready list
    Nobody,         \* NULL
    MaxDepth,       \* how deep a task nests lock_acquire
    TICK_MASKED,    \* what interrupt_disable does to the tick: TRUE stops it (Thread)
    MaxTears        \* bound: how many ticks arrive at an exposed statement

Statements ==
    {"own", "down", "test", "enqueue", "block", "pick", "load", "store", "taken",
     "hold", "count", "up", "wake", "unblock", "status", "reopen", "reload", "restore", "raised"}

Stuck == {"panic", "hang"}      \* user_spin(), and while(1) without a ready task

\* A tick before one of these statements breaks something: sema_down has looked at the
\* value and not acted on it, sema_up has told one half of what it does.
Decrement == {"load", "store"}
Exposed ==
    {"enqueue", "block", "pick", "status", "reopen", "reload", "restore", "raised"}
        \union Decrement

ASSUME SyncAssumption ==
    /\ First \in Tasks /\ Nobody \notin Tasks
    /\ Others \in Seq(Tasks) /\ IsInjective(Others)
    /\ Range(Others) = Tasks \ {First}
    /\ MaxDepth \in Nat \ {0}
    /\ TICK_MASKED \subseteq BOOLEAN
    /\ MaxTears \in Nat

VARIABLES
    shuts,      \* the build: its interrupt_disable stops the tick
    cur,        \* current_task
    ready,      \* task_ready_list
    status,     \* task_struct.status
    masked,     \* the tick is blocked in the process
    value,      \* semaphore.value, a uint8_t
    waiters,    \* semaphore.waiters
    holder,     \* lock.holder
    repeat,     \* lock.holder_repeat_nr
    pc,         \* the statement a task is at; "own" is its own code
    temp,       \* the register of value-- and value++
    woken,      \* sema_up's thread_blocked
    depth,      \* how often a task has acquired the lock and not yet released it
    wrecked,    \* the tick stopped the process, or left one tag in two lists
    split,      \* history: a tick has arrived between the test and the store of value--
    tears,      \* history: the ticks that have arrived at an exposed statement
    contended   \* history: the call a task is in has blocked, or has woken a waiter

cpuVars == <<cur, ready, status>>
lockVars == <<value, waiters, holder, repeat>>
taskVars == <<temp, woken, depth>>
tickVars == <<wrecked, split, tears>>
vars == <<shuts, cpuVars, masked, lockVars, pc, taskVars, tickVars, contended>>

Init ==
    /\ shuts \in TICK_MASKED
    /\ cur = First
    /\ ready = Others
    /\ status = [t \in Tasks |-> IF t = First THEN "RUNNING" ELSE "READY"]
    /\ masked = FALSE
    /\ value = 1
    /\ waiters = <<>>
    /\ holder = Nobody
    /\ repeat = 0
    /\ pc = [t \in Tasks |-> "own"]
    /\ temp = [t \in Tasks |-> 0]
    /\ woken = [t \in Tasks |-> Nobody]
    /\ depth = [t \in Tasks |-> 0]
    /\ wrecked = FALSE /\ split = FALSE /\ tears = 0
    /\ contended = [t \in Tasks |-> FALSE]

At(t, here) == cur = t /\ pc[t] = here
Goto(t, there) == pc' = [pc EXCEPT ![t] = there]

\* Mutant of Disable: SIGUSR1 is left out of the signal set, so nothing is blocked.
MutDisable == UNCHANGED masked

Disable == masked' = shuts          \* interrupt_disable()
Enable == masked' = FALSE           \* interrupt_enable(), whatever it was before

\* A failed assertion: user_spin() in the task's own context.
Panic(t) == Goto(t, "panic") /\ UNCHANGED <<cpuVars, masked, lockVars, taskVars>>

-------------------------------------------------------------------------------
(* lock_acquire                                                              *)

Acquire(t) ==
    /\ At(t, "own")
    /\ depth[t] < MaxDepth
    /\ IF holder = t
       THEN /\ repeat' = repeat + 1
            /\ depth' = [depth EXCEPT ![t] = @ + 1]
            /\ UNCHANGED pc
       ELSE Goto(t, "down") /\ UNCHANGED <<repeat, depth>>
    /\ UNCHANGED <<cpuVars, masked, value, waiters, holder, temp, woken>>

Down(t) ==
    /\ At(t, "down")
    /\ Disable
    /\ Goto(t, "test")
    /\ UNCHANGED <<cpuVars, lockVars, taskVars>>

Test(t) ==
    /\ At(t, "test")
    /\ Goto(t, IF value = 0 THEN "enqueue" ELSE "load")
    /\ UNCHANGED <<cpuVars, masked, lockVars, taskVars>>

Enqueue(t) ==
    /\ At(t, "enqueue")
    /\ IF t \in Range(waiters)
       THEN Panic(t)
       ELSE /\ waiters' = Append(waiters, t)
            /\ Goto(t, "block")
            /\ UNCHANGED <<cpuVars, masked, value, holder, repeat, taskVars>>

\* task_block
Block(t) ==
    /\ At(t, "block")
    /\ status' = [status EXCEPT ![t] = "BLOCKED"]
    /\ Goto(t, "pick")
    /\ UNCHANGED <<cur, ready, masked, lockVars, taskVars>>

\* Mutant of Resumed: `if` for `while`, the woken task does not look again.
MutResumed == "load"

\* Where a task continues that was blocked: the condition of the loop.
Resumed == "test"

\* block_task_schedule
Pick(t) ==
    /\ At(t, "pick")
    /\ IF ready = <<>>
       THEN Goto(t, "hang") /\ UNCHANGED cpuVars
       ELSE /\ cur' = Head(ready)
            /\ ready' = Tail(ready)
            /\ status' = [status EXCEPT ![Head(ready)] = "RUNNING"]
            /\ Goto(t, Resumed)
    /\ UNCHANGED <<masked, lockVars, taskVars>>

Load(t) ==
    /\ At(t, "load")
    /\ temp' = [temp EXCEPT ![t] = value]
    /\ Goto(t, "store")
    /\ UNCHANGED <<cpuVars, masked, lockVars, woken, depth>>

Store(t) ==
    /\ At(t, "store")
    /\ value' = (temp[t] + 255) % 256
    /\ temp' = [temp EXCEPT ![t] = 0]
    /\ Goto(t, "taken")
    /\ UNCHANGED <<cpuVars, masked, waiters, holder, repeat, woken, depth>>

Taken(t) ==
    /\ At(t, "taken")
    /\ IF value # 0
       THEN Panic(t)
       ELSE /\ Enable
            /\ Goto(t, "hold")
            /\ UNCHANGED <<cpuVars, lockVars, taskVars>>

Hold(t) ==
    /\ At(t, "hold")
    /\ holder' = t
    /\ Goto(t, IF repeat = 0 THEN "count" ELSE "panic")
    /\ UNCHANGED <<cpuVars, masked, value, waiters, repeat, taskVars>>

Count(t) ==
    /\ At(t, "count")
    /\ repeat' = 1
    /\ depth' = [depth EXCEPT ![t] = 1]
    /\ Goto(t, "own")
    /\ UNCHANGED <<cpuVars, masked, value, waiters, holder, temp, woken>>

-------------------------------------------------------------------------------
(* lock_release                                                              *)

\* Mutant of LastRelease: a nested release frees the lock.
MutLastRelease == TRUE

LastRelease == repeat = 1

Release(t) ==
    /\ At(t, "own")
    /\ depth[t] > 0
    /\ IF holder # t \/ repeat = 0
       THEN Panic(t)
       ELSE /\ depth' = [depth EXCEPT ![t] = @ - 1]
            /\ IF LastRelease
               THEN holder' = Nobody /\ repeat' = 0 /\ Goto(t, "up")
               ELSE repeat' = repeat - 1 /\ UNCHANGED <<holder, pc>>
            /\ UNCHANGED <<cpuVars, masked, value, waiters, temp, woken>>

Up(t) ==
    /\ At(t, "up")
    /\ Disable
    /\ Goto(t, "wake")
    /\ UNCHANGED <<cpuVars, lockVars, taskVars>>

\* Mutant of SomebodyWaits: the last waiter is overlooked.
MutSomebodyWaits == Len(waiters) > 1

SomebodyWaits == waiters # <<>>

\* Mutant of NextWaiter: the waiter is read and left in the list.
MutNextWaiter(t) == woken' = [woken EXCEPT ![t] = Head(waiters)] /\ UNCHANGED waiters

NextWaiter(t) ==
    woken' = [woken EXCEPT ![t] = Head(waiters)] /\ waiters' = Tail(waiters)

Wake(t) ==
    /\ At(t, "wake")
    /\ IF value # 0
       THEN Panic(t)
       ELSE /\ IF SomebodyWaits
               THEN NextWaiter(t) /\ Goto(t, "unblock")
               ELSE Goto(t, "reload") /\ UNCHANGED <<waiters, woken>>
            /\ UNCHANGED <<cpuVars, masked, value, holder, repeat, temp, depth>>

\* task_unblock: to the front of the ready list, and only then READY.
Unblock(t) ==
    /\ At(t, "unblock")
    /\ IF status[woken[t]] # "BLOCKED" \/ woken[t] \in Range(ready)
       THEN Panic(t)
       ELSE /\ Disable
            /\ ready' = <<woken[t]>> \o ready
            /\ Goto(t, "status")
            /\ UNCHANGED <<cur, status, lockVars, taskVars>>

Status(t) ==
    /\ At(t, "status")
    /\ status' = [status EXCEPT ![woken[t]] = "READY"]
    /\ woken' = [woken EXCEPT ![t] = Nobody]
    /\ Goto(t, "reopen")
    /\ UNCHANGED <<cur, ready, masked, lockVars, temp, depth>>

Reopen(t) ==
    /\ At(t, "reopen")
    /\ Enable
    /\ Goto(t, "reload")
    /\ UNCHANGED <<cpuVars, lockVars, taskVars>>

Reload(t) ==
    /\ At(t, "reload")
    /\ temp' = [temp EXCEPT ![t] = value]
    /\ Goto(t, "restore")
    /\ UNCHANGED <<cpuVars, masked, lockVars, woken, depth>>

\* Mutant of Raised: value++ left out.
MutRaised(t) == temp[t]

Raised(t) == (temp[t] + 1) % 256

Restore(t) ==
    /\ At(t, "restore")
    /\ value' = Raised(t)
    /\ temp' = [temp EXCEPT ![t] = 0]
    /\ Goto(t, "raised")
    /\ UNCHANGED <<cpuVars, masked, waiters, holder, repeat, woken, depth>>

UpDone(t) ==
    /\ At(t, "raised")
    /\ IF value # 1
       THEN Panic(t)
       ELSE /\ Enable
            /\ Goto(t, "own")
            /\ UNCHANGED <<cpuVars, lockVars, taskVars>>

-------------------------------------------------------------------------------
(* The tick                                                                  *)

\* Mutant of Requeued: list_push for list_append, a preempted task is next again.
MutRequeued == <<cur>> \o ready

Requeued == Append(ready, cur)

\* schedule() finds the current task on the ready list and spins in the handler, or
\* appends a tag that is in the list of waiters: what runs after that is not followed.
Wreck ==
    /\ cur \in Range(ready) \union Range(waiters)
    /\ wrecked' = TRUE
    /\ UNCHANGED cpuVars

Preempt ==
    /\ cur \notin Range(ready) \union Range(waiters)
    /\ cur' = Head(Requeued)
    /\ ready' = Tail(Requeued)
    /\ status' = [status EXCEPT ![cur] = "READY", ![Head(Requeued)] = "RUNNING"]
    /\ UNCHANGED wrecked

\* The tick preempts the current task; how much of its slice is left is not modelled,
\* so any tick may.
Tick ==
    /\ ~wrecked /\ ~masked
    /\ Preempt \/ Wreck
    /\ split' = (split \/ pc[cur] \in Decrement)
    /\ IF pc[cur] \in Exposed
       THEN tears < MaxTears /\ tears' = tears + 1
       ELSE UNCHANGED tears
    /\ UNCHANGED <<shuts, masked, lockVars, pc, taskVars, contended>>

InCall(t) ==
    \/ Down(t) \/ Test(t) \/ Enqueue(t) \/ Block(t) \/ Pick(t)
    \/ Load(t) \/ Store(t) \/ Taken(t) \/ Hold(t) \/ Count(t)
    \/ Up(t) \/ Wake(t) \/ Unblock(t) \/ Status(t) \/ Reopen(t)
    \/ Reload(t) \/ Restore(t) \/ UpDone(t)

\* The statements after which a task is no longer where a call leaves it alone: it has
\* blocked, or found a waiter.
Contend(t) ==
    contended' = [contended EXCEPT ![t] =
        pc'[t] # "own" /\ (@ \/ pc[t] = "pick" \/ pc'[t] = "unblock")]

Move(t) == ~wrecked /\ Contend(t) /\ UNCHANGED <<shuts, tickVars>>

Next ==
    \/ \E t \in Tasks : (Acquire(t) \/ Release(t) \/ InCall(t)) /\ Move(t)
    \/ Tick

Spec == Init /\ [][Next]_vars

\* Ticks keep coming, and one that comes while it is blocked is delivered when the mask
\* is opened; a task that has the processor again and again gets on with the call it
\* is in, and releases what it holds.
Fairness ==
    /\ SF_vars(Tick)
    /\ \A t \in Tasks : SF_vars((Release(t) \/ InCall(t)) /\ Move(t))

FairSpec == Spec /\ Fairness

-------------------------------------------------------------------------------
(* Properties.                                                               *)

TypeOK ==
    /\ shuts \in BOOLEAN
    /\ cur \in Tasks
    /\ ready \in Seq(Tasks) /\ waiters \in Seq(Tasks)
    /\ status \in [Tasks -> {"RUNNING", "READY", "BLOCKED"}]
    /\ masked \in BOOLEAN
    /\ value \in 0..255 /\ (~split => value \in {0, 1})
    /\ holder \in Tasks \union {Nobody}
    /\ repeat \in Nat /\ (~split => repeat <= MaxDepth)
    /\ pc \in [Tasks -> Statements \union Stuck]
    /\ temp \in [Tasks -> 0..255]
    /\ woken \in [Tasks -> Tasks \union {Nobody}]
    /\ depth \in [Tasks -> 0..MaxDepth]
    /\ wrecked \in BOOLEAN /\ split \in BOOLEAN /\ tears \in 0..MaxTears
    /\ contended \in [Tasks -> BOOLEAN]

Holds(t) == depth[t] > 0

Torn == tears > 0

\* sync.c: interrupts are closed to make the semaphore atomic, so two tasks never
\* both come back from lock_acquire without a lock_release between them.
MutualExclusion == \A s, t \in Tasks : Holds(s) /\ Holds(t) => s = t

\* The one thing that lets two tasks have the lock is a tick that has come between the
\* test and the store of value--: wherever else ticks come, also where they lose a
\* wake-up or fail an assertion, the lock excludes.
ExcludesUnlessSplit == split \/ MutualExclusion

\* What the lock records is what happened, unless such a tick has come: its holder is the
\* task that holds it, the count is its nesting, and the value is 0 from the store of
\* value-- to the store of value++.
Inside(t) ==
    \/ Holds(t)
    \/ pc[t] \in {"taken", "hold", "count", "up", "wake", "unblock", "status",
                   "reopen", "reload", "restore"}

HolderMatches ==
    \/ split
    \/ /\ \A t \in Tasks : Holds(t) => holder = t /\ repeat = depth[t]
       /\ holder # Nobody => Holds(holder) \/ pc[holder] = "count"
       /\ (\E t \in Tasks : Inside(t)) => value = 0

\* What the mask does give in Thread: from the first interrupt_disable of sema_down or
\* sema_up to the last interrupt_enable no tick cuts a task that has not blocked in it,
\* or woken another, whatever has gone wrong before.
UncontendedMasked ==
    shuts /\ ~contended[cur] /\ pc[cur] \in Statements \ {"own", "down", "hold", "count", "up"}
        => masked

\* No assertion of sync.c, of task.c and of schedule() fails, no tag gets into two lists,
\* and no task that blocks finds the ready list empty and spins, unless a tick has come at
\* one of the exposed statements.
AssertionsHold == Torn \/ (~wrecked /\ \A t \in Tasks : pc[t] \notin Stuck)

\* A blocked task is queued on the semaphore, or about to be made ready by sema_up; it is
\* never queued there and on the ready list, which share general_tag.  Only a tick at an
\* exposed statement changes that.
WaitersBlocked ==
    Torn \/
    /\ Range(waiters) \intersect Range(ready) = {}
    /\ \A t \in Tasks : status[t] = "BLOCKED" /\ t # cur =>
        t \in Range(waiters) \/ \E s \in Tasks : pc[s] \in {"unblock", "status"} /\ woken[s] = t

\* A semaphore that somebody waits for is not left free: no wake-up is lost but by a
\* tick at an exposed statement.
NoLostWakeUp ==
    (waiters # <<>> /\ value = 1 /\ ~Torn) ~> (waiters = <<>> \/ value = 0 \/ Torn)

\* In User_Schedule, where nothing stops the tick, a ready task gets the processor,
\* although woken tasks are put in front of it, unless a tick tears a call.  In Thread it
\* need not: context_swap leaves the mask closed for whoever runs next.
ReadyRunsUser ==
    \A t \in Tasks : (~shuts /\ t \in Range(ready) /\ ~Torn) ~> (cur = t \/ Torn)

==============================================================================
