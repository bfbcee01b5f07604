------------------------------- MODULE TaskLife -------------------------------
(***************************************************************************)
(* The life of a task in task.c: task_start and task_exit, statement by    *)
(* statement, with the list of all tasks, the count of it, the ready list  *)
(* and the pool of dead tasks, under a tick that may arrive between two    *)
(* statements; clean_dead_task, which a timer of the tick handler runs in  *)
(* User_Schedule; and main in task_wait_all.                               *)
(*                                                                         *)
(* allocate_tid and release_tid take the tid lock in the middle of         *)
(* task_start and task_exit.  A task that finds it held blocks in its list *)
(* of waiters and gives up the processor; one that gets it goes on with    *)
(* the mask open, whatever it was.  What a tick inside sema_down or        *)
(* sema_up does is the subject of Sync: here each pass of sema_down's loop *)
(* is one step and so is lock_release.  So is an operation on a list.      *)
(*                                                                         *)
(* A tick at a few statements does damage; a history (torn) says at which  *)
(* of them one has arrived, so that a property can name those it needs.    *)
(* What runs after memory of a task in use was freed or cleared is not     *)
(* followed.                                                               *)
(***************************************************************************)
EXTENDS Integers, Sequences, FiniteSets, SequencesExt

CONSTANTS
    Tasks,          \* the task_struct that malloc can give out
    Main,           \* main_task
    Nobody,         \* NULL
    TICK_MASKED,    \* what interrupt_disable does to the tick: TRUE stops it (Thread)
    CleanShare,     \* 8 in clean_dead_task: this part of the tasks is cleaned,
    CleanMost,      \* and at most 16 of them
    MaxTears        \* bound: at how many exposed statements a tick arrives

\* The end of task_exit, when the task is in the pool: release_tid and
\* died_task_schedule.
ExitTail == {"untid", "unwait", "unbit", "open", "pop", "switch"}

Statements ==
    {"own", "wait",
     "choose", "take", "reuse", "init", "tid", "tidwait", "tidbit",
     "queue", "list", "count", "counted",
     "die", "unlist", "uncount", "uncounted", "pool"} \union ExitTail

\* The statements before which a tick can move a task or tag out of place - between the
\* test of the pool and its use, while task_tag is the only way to a task, while a new
\* task is on one list of two - or spoil the count.
Misplacing == {"take", "reuse", "list", "switch"}
Miscounting == {"counted", "uncounted"}
Exposed == Misplacing \union Miscounting

\* A failed assertion, a null pointer, while(1) without a ready task.  And what comes
\* of the pool: task_start's failed assertion about the task it took, a task_start that
\* clears a task in its ExitTail, clean_dead_task that frees one, clean_dead_task after
\* it has popped the pool's tail node.
PoolMisuse == {"reused", "wiped", "freed", "overdrawn"}
Stuck == {"panic", "crash", "hang"} \union PoolMisuse

NotRunning == {"none", "new", "dead"}   \* no task_struct; being made; in the pool

ASSUME TaskLifeAssumption ==
    /\ Main \in Tasks /\ Nobody \notin Tasks
    /\ IsFiniteSet(Tasks)
    /\ TICK_MASKED \subseteq BOOLEAN
    /\ CleanShare \in Nat \ {0} /\ CleanMost \in Nat
    /\ MaxTears \in Nat

VARIABLES
    shuts,      \* the build: its interrupt_disable stops the tick
    masked,     \* the tick is blocked in the process
    cur,        \* current_task
    ready,      \* task_ready_list
    all,        \* task_all_list
    nums,       \* task_all_nums
    pool,       \* task_pool_list
    tag,        \* task_tag, one for all tasks and the handler
    holder,     \* tid_pool.tid_lock: its holder, Nobody while its value is 1,
    waiters,    \* and its semaphore's waiters
    status,     \* task_struct.status
    pc,         \* the statement a task is at; "own" is its function
    new,        \* task_start's local task
    temp,       \* the register of task_all_nums++ and --
    torn        \* history: the exposed statements at which a tick has arrived

cpuVars == <<cur, ready, status>>
listVars == <<all, nums, pool>>
lockVars == <<holder, waiters>>
localVars == <<new, temp>>
vars == <<shuts, masked, cpuVars, listVars, tag, lockVars, pc, localVars, torn>>

Init ==
    /\ shuts \in TICK_MASKED
    /\ masked = FALSE
    /\ cur = Main
    /\ ready = <<>>
    /\ all = <<Main>>
    /\ nums = 1
    /\ pool = <<>>
    /\ tag = Nobody
    /\ holder = Nobody
    /\ waiters = <<>>
    /\ status = [t \in Tasks |-> IF t = Main THEN "RUNNING" ELSE "READY"]
    /\ pc = [t \in Tasks |-> IF t = Main THEN "own" ELSE "none"]
    /\ new = [t \in Tasks |-> Nobody]
    /\ temp = [t \in Tasks |-> 0]
    /\ torn = {}

At(t, here) == cur = t /\ pc[t] = here
Goto(t, there) == pc' = [pc EXCEPT ![t] = there]

Disable == masked' = shuts          \* interrupt_disable()
Enable == masked' = FALSE           \* interrupt_enable(), whatever it was before

Stand == UNCHANGED <<cpuVars, listVars, tag, lockVars, localVars>>

Stop(t, how) == Goto(t, how) /\ UNCHANGED masked /\ Stand

Panic(t) == Stop(t, "panic")

\* A list_remove that follows the null links of a task that is in no list or of a list's
\* tail node, or a walk along a list with such a task in it.
Crash(t) == Stop(t, "crash")

-------------------------------------------------------------------------------
(* The tid lock                                                              *)

\* block_task_schedule
GiveUp(t) ==
    /\ tag' = Head(ready)
    /\ cur' = Head(ready)
    /\ ready' = Tail(ready)
    /\ status' = [status EXCEPT ![t] = "BLOCKED", ![Head(ready)] = "RUNNING"]

\* Mutant of Free: `if` for `while`, a woken task does not look at the value again.
MutFree(t) == holder = Nobody \/ pc[t] \in {"tidwait", "unwait"}

Free(t) == holder = Nobody

\* A pass of sema_down's loop; mask is the signal mask during it.
TryLock(t, mask, again, held) ==
    IF Free(t)
    THEN /\ holder' = t
         /\ Enable
         /\ Goto(t, held)
         /\ UNCHANGED <<cpuVars, listVars, tag, waiters, localVars>>
    ELSE /\ masked' = mask
         /\ IF t \in Range(waiters) THEN Goto(t, "panic") /\ Stand
            ELSE IF ready = <<>> THEN Goto(t, "hang") /\ Stand
            ELSE /\ waiters' = Append(waiters, t)
                 /\ GiveUp(t)
                 /\ Goto(t, again)
                 /\ UNCHANGED <<listVars, holder, localVars>>

\* task_unblock of the first waiter.
WakeUp ==
    /\ waiters' = Tail(waiters)
    /\ ready' = <<Head(waiters)>> \o ready
    /\ status' = [status EXCEPT ![Head(waiters)] = "READY"]

\* Mutant of SomebodyWaits: the last waiter is overlooked.
MutSomebodyWaits == Len(waiters) > 1

SomebodyWaits == waiters # <<>>

\* lock_release
Unlock(t, there) ==
    IF holder # t THEN Panic(t)
    ELSE IF /\ SomebodyWaits
            /\ status[Head(waiters)] # "BLOCKED" \/ Head(waiters) \in Range(ready)
    THEN Disable /\ Goto(t, "panic") /\ Stand
    ELSE /\ holder' = Nobody
         /\ IF SomebodyWaits THEN WakeUp ELSE UNCHANGED <<waiters, ready, status>>
         /\ Enable
         /\ Goto(t, there)
         /\ UNCHANGED <<cur, listVars, tag, localVars>>

-------------------------------------------------------------------------------
(* task_start                                                                *)

\* Bound: there is a task_struct, pooled or new, for everybody who asks for one.
Unused == {s \in Tasks : pc[s] = "none"}
Available ==
    Len(pool) + Cardinality(Unused) > Cardinality({s \in Tasks : pc[s] \in {"choose", "take"}})

Start(t) ==
    /\ At(t, "own")
    /\ Available
    /\ Disable
    /\ Goto(t, "choose")
    /\ Stand

Choose(t) ==
    /\ At(t, "choose")
    /\ pool # <<>>
    /\ Goto(t, "take")
    /\ UNCHANGED masked /\ Stand

TakeFromPool(t) ==
    /\ At(t, "take")
    /\ IF pool = <<>>
       THEN Crash(t)
       ELSE /\ tag' = Head(pool)
            /\ pool' = Tail(pool)
            /\ Goto(t, "reuse")
            /\ UNCHANGED <<masked, cpuVars, all, nums, lockVars, localVars>>

Allocate(t) ==
    /\ At(t, "choose")
    /\ pool = <<>>
    /\ \E s \in Unused :
        /\ new' = [new EXCEPT ![t] = s]
        /\ pc' = [pc EXCEPT ![t] = "init", ![s] = "new"]
    /\ UNCHANGED <<masked, cpuVars, listVars, tag, lockVars, temp>>

Reuse(t) ==
    /\ At(t, "reuse")
    /\ new' = [new EXCEPT ![t] = tag]
    /\ Goto(t, IF status[tag] = "DIED" THEN "reused" ELSE "init")
    /\ UNCHANGED <<masked, cpuVars, listVars, tag, lockVars, temp>>

\* A task that was started and has not ended.
Running(t) == pc[t] \notin NotRunning

\* init_task up to its allocate_tid: memset clears the links too, and the context if
\* the task is somebody's.
InitTask(t) ==
    /\ At(t, "init")
    /\ IF pc[new[t]] \in ExitTail THEN Stop(t, "wiped")
       ELSE IF Running(new[t]) \/ new[t] \in Range(ready) THEN Crash(t)
       ELSE /\ status' = [status EXCEPT ![new[t]] = "READY"]
            /\ pc' = [pc EXCEPT ![t] = "tid", ![new[t]] = "new"]
            /\ UNCHANGED <<masked, cur, ready, listVars, tag, lockVars, localVars>>

\* allocate_tid: bitmap_scan and bitmap_set are at "tidbit".  The rest of init_task, and
\* task_create, touch the new task only.
AllocateTid(t) ==
    \/ At(t, "tid") /\ TryLock(t, shuts, "tidwait", "tidbit")
    \/ At(t, "tidwait") /\ TryLock(t, masked, "tidwait", "tidbit")
    \/ At(t, "tidbit") /\ Unlock(t, "queue")

Queue(t) ==
    /\ At(t, "queue")
    /\ IF new[t] \in Range(ready)
       THEN Panic(t)
       ELSE /\ ready' = Append(ready, new[t])
            /\ pc' = [pc EXCEPT ![t] = "list", ![new[t]] = "own"]
            /\ UNCHANGED <<masked, cur, status, listVars, tag, lockVars, localVars>>

Listed(t) == Append(all, new[t])

List(t) ==
    /\ At(t, "list")
    /\ IF new[t] \in Range(all)
       THEN Panic(t)
       ELSE /\ all' = Listed(t)
            /\ new' = [new EXCEPT ![t] = Nobody]
            /\ Goto(t, "count")
            /\ UNCHANGED <<masked, cpuVars, nums, pool, tag, lockVars, temp>>

Count(t) ==
    /\ At(t, "count")
    /\ temp' = [temp EXCEPT ![t] = nums]
    /\ Goto(t, "counted")
    /\ UNCHANGED <<masked, cpuVars, listVars, tag, lockVars, new>>

\* Mutant of OneMore: task_all_nums++ left out.
MutOneMore(t) == temp[t]

OneMore(t) == temp[t] + 1

\* With the interrupt_enable at the end of task_start, which finds the mask open.
Counted(t) ==
    /\ At(t, "counted")
    /\ nums' = OneMore(t)
    /\ temp' = [temp EXCEPT ![t] = 0]
    /\ Enable
    /\ Goto(t, "own")
    /\ UNCHANGED <<cpuVars, all, pool, tag, lockVars, new>>

-------------------------------------------------------------------------------
(* task_exit, at the end of task_entrance.  main returns from the process.   *)

Exit(t) ==
    /\ At(t, "own")
    /\ t # Main
    /\ Disable
    /\ Goto(t, "die")
    /\ Stand

Die(t) ==
    /\ At(t, "die")
    /\ status' = [status EXCEPT ![t] = "DIED"]
    /\ ready' = RemoveFirst(ready, t)
    /\ Goto(t, "unlist")
    /\ UNCHANGED <<masked, cur, listVars, tag, lockVars, localVars>>

\* Mutant of Unlisted: a dead task stays in the list of all tasks.
MutUnlisted(t) == all

Unlisted(t) == RemoveFirst(all, t)

Unlist(t) ==
    /\ At(t, "unlist")
    /\ IF t \notin Range(all)
       THEN Crash(t)
       ELSE /\ all' = Unlisted(t)
            /\ Goto(t, "uncount")
            /\ UNCHANGED <<masked, cpuVars, nums, pool, tag, lockVars, localVars>>

Uncount(t) ==
    /\ At(t, "uncount")
    /\ temp' = [temp EXCEPT ![t] = nums]
    /\ Goto(t, "uncounted")
    /\ UNCHANGED <<masked, cpuVars, listVars, tag, lockVars, new>>

Uncounted(t) ==
    /\ At(t, "uncounted")
    /\ nums' = temp[t] - 1
    /\ temp' = [temp EXCEPT ![t] = 0]
    /\ Goto(t, "pool")
    /\ UNCHANGED <<masked, cpuVars, all, pool, tag, lockVars, new>>

Pool(t) ==
    /\ At(t, "pool")
    /\ pool' = Append(pool, t)
    /\ Goto(t, "untid")
    /\ UNCHANGED <<masked, cpuVars, all, nums, tag, lockVars, localVars>>

\* release_tid: bitmap_set is at "unbit".
ReleaseTid(t) ==
    \/ At(t, "untid") /\ TryLock(t, shuts, "unwait", "unbit")
    \/ At(t, "unwait") /\ TryLock(t, masked, "unwait", "unbit")
    \/ At(t, "unbit") /\ Unlock(t, "open")

\* The interrupt_enable of task_exit, which finds the mask open, and died_task_schedule:
\* list_empty, list_pop, and the switch to the task that task_tag names by then.
Open(t) ==
    /\ At(t, "open")
    /\ Enable
    /\ Goto(t, IF ready = <<>> THEN "hang" ELSE "pop")
    /\ Stand

\* Mutant of Popped: the first task is read and left in the list.
MutPopped == ready

Popped == Tail(ready)

Pop(t) ==
    /\ At(t, "pop")
    /\ IF ready = <<>>
       THEN Crash(t)
       ELSE /\ tag' = Head(ready)
            /\ ready' = Popped
            /\ Goto(t, "switch")
            /\ UNCHANGED <<masked, cur, status, listVars, lockVars, localVars>>

\* If that is itself, set by a tick, it resumes where the tick found it.
Switch(t) ==
    /\ At(t, "switch")
    /\ cur' = tag
    /\ status' = [status EXCEPT ![tag] = "RUNNING"]
    /\ pc' = [pc EXCEPT ![t] = IF tag = t THEN "switch" ELSE "dead"]
    /\ UNCHANGED <<masked, ready, listVars, tag, lockVars, localVars>>

-------------------------------------------------------------------------------
(* task_wait_all, of main in the benchmarks                                  *)

Wait(t) ==
    /\ At(t, "own")
    /\ t = Main
    /\ Goto(t, "wait")
    /\ UNCHANGED masked /\ Stand

\* all_tasks_finished walks the list up to the first task that has not died.  main is
\* its first, so the walk ends there and needs no smaller steps.
AllFinished == \A t \in Range(all) : status[t] = "DIED"

Waited(t) ==
    /\ At(t, "wait")
    /\ IF AllFinished THEN Goto(t, "own") ELSE UNCHANGED pc
    /\ UNCHANGED masked /\ Stand

-------------------------------------------------------------------------------
(* The tick                                                                  *)

\* A tick arrives, for schedule() or for a timer's callback.
Arrives ==
    /\ ~masked
    /\ pc[cur] \notin {"crash"} \union (PoolMisuse \ {"reused"})
    /\ pc[cur] \in Exposed => Cardinality(torn) < MaxTears
    /\ torn' = torn \union ({pc[cur]} \intersect Exposed)

\* Mutant of Requeued: list_push for list_append, a preempted task is next again.
MutRequeued == <<cur>> \o ready

Requeued == Append(ready, cur)

\* schedule() in the handler; how much of the slice is left is not modelled.
Tick ==
    /\ Arrives
    /\ IF cur \in Range(ready)
       THEN Crash(cur)     \* the assertion fails in the handler, which never returns
       ELSE /\ tag' = Head(Requeued)
            /\ ready' = Tail(Requeued)
            /\ cur' = Head(Requeued)
            /\ status' = [status EXCEPT ![cur] = "READY", ![Head(Requeued)] = "RUNNING"]
            /\ UNCHANGED <<masked, listVars, lockVars, pc, localVars>>

\* n / d of C, toward zero.
Quotient(n, d) == IF n < 0 THEN -((-n) \div d) ELSE n \div d

\* How many tasks clean_dead_task may clean.
CleanCount ==
    IF Quotient(nums, CleanShare) > CleanMost THEN CleanMost ELSE Quotient(nums, CleanShare)

\* clean_dead_task with something in the pool.  Its loop is entered only if the count is
\* 0, then frees one task, and goes on only if that has emptied the pool, with the
\* pool's tail node, whose links are null.  A tick that cleans and preempts as well is
\* this and then Tick: nothing runs in between.
Clean ==
    /\ Arrives
    /\ ~shuts
    /\ pool # <<>>
    /\ CleanCount = 0
    /\ IF pc[Head(pool)] \in ExitTail THEN Stop(cur, "freed")
       ELSE /\ tag' = Head(pool)
            /\ pool' = Tail(pool)
            /\ pc' = IF Len(pool) = 1
                     THEN [pc EXCEPT ![Head(pool)] = "none", ![cur] = "overdrawn"]
                     ELSE [pc EXCEPT ![Head(pool)] = "none"]
            /\ UNCHANGED <<masked, cpuVars, all, nums, lockVars, localVars>>

InCall(t) ==
    \/ Choose(t) \/ TakeFromPool(t) \/ Allocate(t) \/ Reuse(t) \/ InitTask(t)
    \/ AllocateTid(t) \/ Queue(t) \/ List(t) \/ Count(t) \/ Counted(t)
    \/ Die(t) \/ Unlist(t) \/ Uncount(t) \/ Uncounted(t) \/ Pool(t)
    \/ ReleaseTid(t) \/ Open(t) \/ Pop(t) \/ Switch(t) \/ Waited(t)

Code(t) == (Start(t) \/ Exit(t) \/ Wait(t) \/ InCall(t)) /\ UNCHANGED torn

Next == ((\E t \in Tasks : Code(t)) \/ Tick \/ Clean) /\ UNCHANGED shuts

Spec == Init /\ [][Next]_vars

\* Ticks keep coming, and a task that has the processor again and again gets on with
\* the call it is in.
Fairness ==
    /\ SF_vars(Tick /\ UNCHANGED shuts)
    /\ \A t \in Tasks : SF_vars(InCall(t) /\ UNCHANGED <<torn, shuts>>)

FairSpec == Spec /\ Fairness

-------------------------------------------------------------------------------
(* Properties.                                                               *)

Misplaced == torn \intersect Misplacing # {}
Miscounted == torn \intersect Miscounting # {}

TypeOK ==
    /\ shuts \in BOOLEAN /\ masked \in BOOLEAN
    /\ cur \in Tasks
    /\ ready \in Seq(Tasks) /\ all \in Seq(Tasks) /\ pool \in Seq(Tasks)
    /\ tag \in Tasks \union {Nobody}
    /\ holder \in Tasks \union {Nobody} /\ waiters \in Seq(Tasks)
    /\ status \in [Tasks -> {"RUNNING", "READY", "BLOCKED", "DIED"}]
    /\ pc \in [Tasks -> Statements \union Stuck \union NotRunning]
    /\ new \in [Tasks -> Tasks \union {Nobody}]
    /\ nums \in Int /\ temp \in [Tasks -> Int]
    /\ Misplaced \/ Miscounted \/ nums \in 0..Cardinality(Tasks)
    /\ torn \subseteq Exposed /\ Cardinality(torn) <= MaxTears

\* A task that was started and has not ended is current, or ready once, or waits for
\* the tid lock once; or it is on its way from the ready list to the processor, in
\* task_tag.  Unless a tick has misplaced one.
OnePlace ==
    Misplaced \/
    /\ IsInjective(ready) /\ IsInjective(waiters)
    /\ Range(ready) \intersect Range(waiters) = {}
    /\ cur \notin Range(ready) \union Range(waiters)
    /\ \A t \in Tasks : Running(t) =>
        t = cur \/ t \in Range(ready) \union Range(waiters) \/ (pc[cur] = "switch" /\ tag = t)

\* No assertion but the one about the pool fails, no null link is followed but the one
\* at the end of an empty pool, no task is initialised anew before its ExitTail, and
\* whoever gives up the processor finds a task to go on with.  Unless a tick has
\* misplaced a task.
NeverStuck == Misplaced \/ \A t \in Tasks : pc[t] \notin {"panic", "crash", "hang"}

\* What is in the pool, for task_start to use again and for clean_dead_task to free, is
\* there once and at the end of its task_exit or past it: no longer in the list of all
\* tasks, not being made into another task, and, when it is past it, neither current
\* nor ready nor waiting.  Unless a tick has misplaced a task.
PoolIsLeaving ==
    Misplaced \/
    /\ IsInjective(pool)
    /\ \A t \in Range(pool) :
        /\ pc[t] \in ExitTail \union {"freed", "dead"}
        /\ t \notin Range(all)
        /\ pc[t] = "dead" => t # cur /\ t \notin Range(ready) \union Range(waiters)
        /\ \A s \in Tasks : new[s] # t

\* When nobody is inside task_start or task_exit, the three lists agree, unless a tick
\* has misplaced a task, and so does the count, unless a tick has parted task_all_nums++
\* or --.
AtRest == \A t \in Tasks : pc[t] \in {"own", "none", "dead"}
ListsAgree ==
    AtRest =>
        \/ Misplaced
        \/ /\ Range(all) = {t \in Tasks : pc[t] = "own"}
           /\ Range(pool) = {t \in Tasks : pc[t] = "dead"}
           /\ Miscounted \/ nums = Len(all)

\* A started task gets the processor and one that ends hands it on, unless a tick or the
\* pool does damage, or a task runs its own code for ever with the tick blocked, which
\* it inherits from one that blocked on the tid lock.
Damaged == Misplaced \/ \E t \in Tasks : pc[t] \in PoolMisuse
Unpreemptible == masked /\ pc[cur] \in {"own", "wait"}
StartedRuns == \A t \in Tasks : t \in Range(ready) ~> (cur = t \/ Damaged \/ Unpreemptible)
ExitEnds == \A t \in Tasks : pc[t] = "die" ~> (pc[t] = "dead" \/ Damaged \/ Unpreemptible)

\* The pool spares an allocation: task_start can use what it finds there.
PoolUsable == \A t \in Tasks : pc[t] # "reused"
===============================================================================
