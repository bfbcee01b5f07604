# Thread-scheduling: models, checks and proofs

This directory is the verification development of the user-level thread library in this repository: TLA+ modules translated from its C source, the TLC runs that check them on small instances, and TLAPS proofs of theorems that hold for every value of the constants.

The library exists in two builds, which share most files:

- **User_Schedule**: `src/User_Schedule/ROS2/user_thread_scheduler/src`. The tick is `SIGALRM` from an interval timer; a time slice is a number of ticks; the timer wheel runs. A kernel module can block `SIGUSR1`, for which there is a handler; nothing in this build sends it.
- **Thread**: `src/Thread`. The tick is `SIGUSR1`, sent by an eBPF program that counts the kernel's switches away from the process; every tick switches tasks; the call of `run_timer` is commented out.

Paths below are relative to these two directories unless they start with `src/`.

## 1. The system

| Part | State | Operations | Interacts with |
|---|---|---|---|
| Dispatcher: `interrupt/timer.c`, `interrupt/analog_interrupt.c`, `task/task.c` | `current_task`, `task_ready_list`, each task's `status`, `ticks`, `is_collaborative_schedule`, `sleep_millisecond` | `interrupt_timer_handler`, `sig_handler`, `schedule`, `collaborative_schedule`, the callback `collaborative_schedule_helper` | called by the signal; calls the timer manager; its callback wakes sleepers |
| Hooked calls: `hook.c` | two fields of the calling task; a table of descriptor attributes | `sleep`, `usleep`, `nanosleep`, `fcntl`, `socket`, `co_enable_hook_sys` | writes the fields the handler reads |
| Timer manager: `interrupt/timer.c`, `include/timer.h` | the clock, five rings of slots, the timer nodes | `create_timer`, `add_timer`, `cascade_timer`, `run_timer`, `delete_timer`, `timer_init` | called in the handler; calls back into the dispatcher and `clean_dead_task` |
| Task life cycle: `task/task.c` | `task_all_list`, `task_all_nums`, `task_pool_list`, `task_tag`, the signal mask | `task_init`, `task_start`, `task_exit`, `died_task_schedule`, `clean_dead_task`, `task_wait_all` | shares the ready list with the dispatcher, takes the tid lock |
| Semaphores and locks: `task/sync.c`; `task_block`, `task_unblock` | value, waiters, holder, nesting; the signal mask | `sema_down`, `sema_up`, `lock_acquire`, `lock_release` | block and wake tasks on the ready list |
| Tid pool: `task/task.c`, `lib/bitmap.c` | a bitmap under a lock | `allocate_tid`, `release_tid`, `bitmap_scan`, `bitmap_set` | life cycle |
| Lists: `lib/list.c` | intrusive links in the tasks | insert, append, push, pop, remove, find, traverse | everything |
| Ioqueue and console: `device/` | ring buffer, waiting producer and consumer, one lock | `ioq_getchar`, `ioq_putchar`, console output | semaphores, `task_block`, `task_unblock` |
| Tick sources: `kernel/` of both builds, Thread's loader `signalkill.c` | countdown per process, netlink or bpf state | count down at `sched_switch`, send the signal | dispatcher |
| Assembly: `task/*.asm` | registers | `context_set`, `context_swap`, `get_reg` | dispatcher, `task_block`, `died_task_schedule` |

There is one processor and one OS thread. All concurrency comes from the tick, which may arrive between any two machine instructions while it is not blocked, and from the switches it makes. What is hard:

- **The mask is not what it seems.** `interrupt_disable` blocks `SIGUSR1`. In User_Schedule that does not stop the tick. In Thread it does, but the mask belongs to the process: `context_swap` and `context_set` neither save nor restore it, and `interrupt_enable` opens it whatever it was before. A critical section that calls another one, or is resumed after a block, goes on without it.
- **Shared fields read by the handler.** `sleep()` stores a flag and a timeout in two statements; the handler acts on both.
- **One link for two lists.** `general_tag` links a task into the ready list or into a semaphore's waiters.
- **Two units of time.** The timer wheel chooses a ring in ticks and a slot in milliseconds; its clock has 32 bits.
- **The waiter fields.** An ioqueue end tests the ring, takes a lock, registers and blocks in four steps, and keeps the lock while it sleeps.
- **The start-up.** Thread's tick source is attached before there is a current task.
- **The pool.** A dying task is in the pool, ready to be used again, before its processor has been taken from it, and may block on the tid lock while it is there.

`PROJECT.json` lists each place where this bites under `hazards`, with the properties that watch it.

What makes each part correct:

- Dispatcher: no task is lost or in two places; preemption after one full slice; bounded waiting; sleepers come back. It is a round robin.
- Timer manager: no timer is late or forgotten; one-shot timers fire once.
- Lock: mutual exclusion; holder and nesting recorded; no lost wake-up; no starvation.
- Life cycle: the three lists and the count agree; a task in the pool is leaving and nobody's new one; nobody is lost on the tid lock; started tasks run, ended ones hand the processor on.
- Tid pool: living tasks have distinct tids in the type's range; the bitmap has exactly theirs.
- Lists: both directions agree; an interrupted walk finds what stays.
- Ioqueue: first in, first out, nothing lost; no wake-up lost; not everybody asleep.
- Tick source: no signal before there is a task to preempt; the process does not end under its tasks.

## 2. The modules

```
RoundRobin  <--implements--  Sched  <--extended by--  SchedHistory, ThreadTick
TimerSpec   <--implements--  TimerWheel
Fifo        <--implements--  IoQueue
ListSpec    <--implements--  ListChain  --extends-->  ListOps
                             Sync, TaskLife, TidPool

Proofs:     SchedProofs (of SchedHistory too), ThreadTickProofs, TimerWheelProofs, SyncProofs,
            TaskLifeProofs, ListOpsProofs, IoQueueProofs, TidPoolProofs
Instances:  MCSchedHistory, MCThreadTick, MCTimerWheel, MCSync, MCTaskLife, MCListOps, MCIoQueue, MCTidPool
```

Each module takes the inside of one component apart and uses the others as single steps, in the form their own modules justify: Sched assumes of the timer wheel what TimerWheel shows (never late, early only beyond the first ring); TaskLife has the tid lock with its waiters but takes each pass of `sema_down`'s loop and each `lock_release` as one step, IoQueue and TidPool the lock, `task_block` and `task_unblock`, which Sync has in detail; all of them use a list operation as one step, which ListOps has in detail. ThreadTick composes Sched with the tick source of Thread and with its `main`.

### Sched, RoundRobin, SchedHistory

`Sched` has a fixed set of started tasks. Its variables are the fields of `task_struct` that the scheduler reads, the current task, the ready list, the pending timers of each task, where each task is in `sleep()`, and what the handler is doing.

| Action | Code |
|---|---|
| `SleepCall`, `SleepStamp`, `SleepReturn` | `sleep()`, hook.c:223-245: the flag, the timeout, the spin until the flag is cleared |
| `Tick` | the signal; the handler is entered, and not by a second tick |
| `Expire`, `TimersDone` | `run_timer` with `collaborative_schedule_helper`, timer.c:162-207, 295-305 |
| `Preempt`, `Charge`, `Park`, `ParkHangs` | the branches of `interrupt_timer_handler`, timer.c:316-338, with `schedule` and `collaborative_schedule`, task.c:400-451 |
| `Sigusr1` | `sig_handler`, timer.c:308-313 |

`COUNT_TICKS` and `RUN_TIMER` select the build. Time is counted in ticks; a pending timer is the number of ticks that may still pass. A timer with `WheelSpan` or more left may fire at any time, which is what TimerWheel says of timers beyond the first ring. A failed assertion is `handler = "panic"`: `user_spin` in the handler never returns.

Left out: nested ticks in Thread's handler. `create_timer` takes a lock there, and its `interrupt_enable` opens `SIGUSR1` inside the handler. For it to matter the next tick, many context switches of the machine away, has to arrive before the handler returns. The hazard is listed.

`RoundRobin` is what the dispatcher promises: one circular queue whose head has the processor, left by sleepers and re-joined at the end. Refinement: the queue is the current task followed by the ready list, and the tasks asleep are those with a pending timer.

`SchedHistory` remembers the ticks charged since a dispatch, who was dispatched since a task was queued, how long a sleep has lasted, whether a tick fell between its two stores (`clean`, and `stale` for the last call that returned), and whether the wheel met its timer laps too soon (`hurried`). These variables change nothing, so one run checks the properties of both modules.

`NothingSurvives` says what a sleep leaves behind: the flag goes down with the wake-up, always, and a timeout outlives the wake-up only of a call that a tick cut between its two stores. `SleptEnough` is hook.c:242, at least `seconds` seconds, as far as the code keeps it: a `sleep()` that returns too early was cut between its stores or met by the wheel laps too soon. The hooked `sleep(n)` asks for 0 or for at least 100 ticks, so a real one is never below the wheel's first lap of 25.6 ticks: `sleep(1)` and `sleep(2)` (100 and 200 ticks, 1000 and 2000 ms) go to the first ring by their ticks and are met early, `sleep(3)` to `sleep(16)` to the second, on time. The property holds for those and says why the others fail; by how much they do is `EarlyByWholeLaps`, and `timer_early` is the finding.

### ThreadTick

The Thread build from the first statement of `main` (kernel/signalkill.c:111-204). `Statements` lists the calls that matter in their order, those of `init()` included; `StartUp` does one, `StartUpFails` is each `goto cleanup`. `StartTask` is the loop of `task_start`. `Poll`, `Polled`, `PollFails` and `PollInterrupted` are the loop around `ring_buffer__poll`, which may fail and which a signal handler interrupts with `-EINTR`: in both cases `main` breaks out of the loop and returns, and the process ends. `SchedSwitch` is `bpf_dos` with the countdown in `time_slice_map`; `Deliver` is the signal, a second pending one being absorbed. Everything from there on is Sched.

`EarlySwitches` bounds the switches between the attachment and the end of `init`. It has to be below the slice, 31 in the code: nothing else orders the first signal after `task_init`. The model also assumes that the handler takes fewer switches than a slice, so that no signal nests.

### TimerWheel, TimerSpec

`TimerWheel` is the wheel of `timer.c` with the sizes of the rings (`TVR_SIZE`, `TVN_SIZE`, powers of two in the code, so that its masks are remainders and its shifts divisions), the granularity and the width of the clock as parameters. `Create` is `create_timer` and `add_timer`; `RunStart`, `Scan`, `Fire`, `ScanNext` and `RunEnd` are `run_timer`, split because a callback may create timers in the middle. `TimerSpec` promises: time never passes a deadline, a one-shot timer fires once, and a timer is early by at least a lap of the first ring or not at all. The wheel implements it. That timers are early at all is a finding.

A slot is a set of timers, so callbacks of one instant come in any order. The manager's lock is left out: only the handler takes it once timers exist.

### Sync

One lock, its semaphore and the tasks that use it, statement by statement: `pc` names the statement a task is at, `value--` and `value++` are a load and a store. `shuts` is the build, fixed at the start: does `interrupt_disable` stop the tick? `masked` is whether it is blocked now. The actions follow `sema_down` (`Down`, `Test`, `Enqueue`, `Load`, `Store`, `Taken`), `task_block` (`Block`, `Pick`), `lock_acquire` (`Acquire`, `Hold`, `Count`), `lock_release` (`Release`), `sema_up` (`Up`, `Wake`, `Reload`, `Restore`, `UpDone`), `task_unblock` (`Unblock` with the `list_push`, `Status` with `TASK_READY`, `Reopen`) and the tick. A failed assertion is `pc = "panic"`, a loop without a ready task `"hang"`; `wrecked` is a failed assertion of `schedule()` in the handler, or a `general_tag` that the handler has put into a second list. Operations on lists are one step, and so is `block_task_schedule`: a tick inside of it counts as one before it. The slice is not counted, so any tick may preempt. A local variable is reset where it is read for the last time.

A tick may come at every statement, in both builds where the mask does not stop it. Some of these ticks break the lock. `Exposed` is the set of the statements where one does, and three histories record what has come: `split`, a tick between the test and the store of `value--`; `tears`, how many came at exposed statements; `contended`, whether a call has blocked or has woken somebody. They restrict nothing but the bound `MaxTears`; the properties name them, and so say exactly which tick does which damage and that no other does. TaskLife (`torn`) and IoQueue (`overtaken`) use the same device.

The console (device/console.c) is this lock around one `write` each.

### TaskLife

`task_start` and `task_exit` of several tasks, in the same style, with the ready list, the list of all tasks, its count (again a load and a store), the pool, and the global `task_tag` that the tick overwrites. `AllocateTid` and `ReleaseTid` take the tid lock (task.c:95, 108): `TryLock` is a pass of `sema_down`'s loop, which takes the lock or queues the task on `waiters`, blocks it and gives up the processor (`GiveUp`) in the middle of its `task_start` or `task_exit`; `Unlock` is `lock_release`, which wakes the first waiter (`WakeUp`). Whoever gets the lock or gives it back goes on with the mask open. Null links and double use are `pc = "crash"`; a failed assertion `"panic"`.

What comes of the pool has names of its own (`PoolMisuse`). A dying task is in the pool from task.c:138 on and runs on to task.c:470, the `ExitTail`. `"reused"` is the failed assertion of `task_start` about the pooled task it took (task.c:239). A dying task that blocks on the tid lock is `TASK_READY` when it is woken, so that the assertion lets it pass, and `init_task` clears a task that is still to run: `"wiped"`. `"freed"` is `clean_dead_task` freeing one whose stack is in use. Both are reached, with a tick at nothing but ordinary statements; what runs afterwards is not followed. The properties hold up to there and say that nothing else goes wrong: `PoolIsLeaving` that the pool has tasks at the end of their exit or past it only, and `NeverStuck` that no other task is ever cleared.

`Clean` is `clean_dead_task` (task.c:502-519), which User_Schedule runs from a timer in the tick handler. Its loop condition is inverted: it is entered only when the quota, an eighth of the tasks, is 0; it frees one task, and goes on only if the pool is empty then, with the pool's tail node as a task (`"overdrawn"`, also `PoolMisuse`). `CleanShare` and `CleanMost` are its 8 and 16.

`main` does not call `task_exit`: it returns from the process, loops, or calls `task_wait_all` (`Wait`, `Waited`). That call never returns: `main` is on the list of all tasks, the first of it, and not dead. Half a dozen of the benchmarks end with it.

### ListOps, ListChain, ListSpec

One list of list.c with every store to a link as a step: `Link1`-`Link4` are `list_insert_before`, `Unlink1`-`Unlink2` `list_remove`. `StartWalk` and `WalkOn` are `list_traversal` with `tid_check`, the walk of `tid2task`, between whose steps elements come and go. An element is inserted once, because no `task_struct` is listed twice.

The history `ahead` is the order of all nodes that are or have been in the list: an element that is inserted comes behind the node that its `prev` link names, and one that is removed keeps its place. It says what the links should be without following them, so that the properties of ListOps need no recursion. `ListChain` follows the links instead, and says that the sequence they form is the list of ListSpec. An operation takes effect with its last store, the one to a `prev` link, so the sequence is read off backwards, from the tail on (`NodesBack`).

No tick falls inside an update of links. When one does, nothing is left to state: a list can lose elements, and the handler's `list_pop` can take the tail node of the list for a task. It is the first hazard of User_Schedule, whose mask does not stop its tick.

### IoQueue, Fifo

`ioq_putchar` and `ioq_getchar` between one producer and one consumer, for which the two waiter fields are made, and a main task that is always ready. `Test`, `Lock`, `Register`, `Block`, `Unlock`, `Move`, `Advance`, `Check`, `Wake` and `Clear` follow the statements; `"again"` is the loop of `lock_acquire` after a wait. `overtaken` records at which statement an end stood, awake, when the other made a step; `Windows` are the four at which that matters, and a tick there after which only `main` runs does no harm. `Fifo` is a bounded queue of `bufsize - 1` bytes; a byte is put when `head` moves and taken when `buf[tail]` is read. `ioq_wait`'s and `task_unblock`'s assertions are `pc = "panic"`.

### TidPool

`allocate_tid` and `release_tid` of tasks that come and go, with `bitmap_set` as a load and a store of a byte, `bitmap_scan`, the assertion when every bit is taken, and the conversion to a 16-bit `tid_t` (`Wrap`). A bit index outside the bitmap, which `release_tid` computes from a wrapped tid, is `"wild"`. `beyond` is what the byte behind the bitmap holds: the first loop of `bitmap_scan` reads it when all bytes are full (bitmap.c:40 looks before it compares), which the comparison that follows makes harmless, and the loop for several bits takes its first bit for one of the bitmap's. `BitmapScanRun` is `bitmap_scan` for more than one bit, which nobody calls; in every state of the bitmap the run reaches it is compared with what bitmap.c:33 promises, a run of so many bits in the bitmap or -1. It keeps that but in one case, which `ScanFindsRun` states: with no such run, the last bits free and the bit behind the bitmap too, the answer is a run that ends outside.

The sizes in the code do not fit: `tid_bitmap_bits` has 125100 bytes, so 1000800 tids, and `tid_t` 16 bits (task.c:20, include/task.h:10). `TidsFit` states what saves it: fewer than 32768 tasks live at once. bitmap.c:33 also promises -1 when no bit is free, and bitmap.c:44 asserts instead.

## 3. The runs

| Run | Instance | What it shows |
|---|---|---|
| `sched_user` | 3 tasks of priorities 1, 0, 2, two of them sleep, for 0, 2 or 3 ticks; early wake-ups from 2 ticks on | types, one place per task, flags and timeouts that agree with it, no panic, no hang; sleeps end; the fair round robin is implemented; nobody is dispatched twice while another waits; a preempted task had its full slice; a sleep that ends early was cut between its stores or met early by the wheel |
| `sched_thread` | the Thread build from start-up, slices of 4, at most 3 early switches, all three tasks may sleep | no signal finds a half-made task or queues one twice; queued tasks run although sleepers do not come back, or main has left its loop |
| `timer_wheel` | rings of 4, 2, 2, 2 and 2 slots, ticks 2 apart, due times around each ring's boundary, periodic and one-shot, callbacks that create timers, three starts of the clock, until time 150 | TimerSpec is implemented; a timer is early by whole laps only; none is left behind when `run_timer` returns |
| `lock` | 3 tasks, nesting of 2, both builds, ticks at any statement, one of them at an exposed one | exclusion and its record unless a tick parts `value--`; in Thread the mask covers uncontended calls; until a tick at an exposed statement no failed assertion, blocked tasks queued, no lost wake-up, and in User_Schedule every ready task runs |
| `task_life` | main and 2 tasks, both builds, a share of 2 for the cleaning, ticks at any statement, one of them at an exposed one | until a tick misplaces a task: one place per task, nobody stuck, only leaving tasks in the pool, lists agree, and the count unless a tick parts it; unless the pool does damage started tasks run and exits end |
| `list_ops` | 4 elements, one walk | both directions are the abstract sequence; the walk finds what stays |
| `ioqueue` | 3 slots, 5 bytes of two values, ticks at any statement | a first-in first-out queue; no failed assertion unless an end runs while the other is about to sleep or has just woken it; all arrives if no end runs in a window of the other and the ring does not fill |
| `tid_pool` | 5 tasks, 2 bytes of 2 bits, tids from -5 to 4 | distinct tids in range, exact bitmap, runs found and the one case in which a run ends outside |
| `timer_early` | violated: `NotEarly` | ring in ticks, slot in milliseconds: a timer fires laps too soon |
| `lock_broken` | violated: `MutualExclusion` | a task resumed in `sema_down` has no mask; `value--` tears |
| `pool_reuse` | violated: `PoolUsable` | `task_start` asserts that a task from the pool is not dead; it always is |
| `ioq_deadlock` | violated: `OneIsAwake`, with no end running in a window of the other | an end that waited for the lock does not look at the ring again, and goes to sleep beside the other |

Each violated property is something the code or its comments say; `findings` in `PROJECT.json` quotes it.

What the models show in instances that are not among the runs:

- Stale sleep. `SleptEnough` without `~clean[t]` fails: the tick parks the task with the timeout of an earlier call, or none, although hook.c:242 promises at least `seconds` seconds. Without `hurried[t]` it fails too (`timer_early`).
- Lost wake-up. `NoLostWakeUp` without `~Torn` fails: `task_unblock` opens the mask before `sema_up`'s `value++`, the woken task finds 0 and queues itself again, and the value becomes 1 with tasks waiting (sync.c:41 says that a woken task has the lock). In User_Schedule a tick between the two stores of `task_unblock` (task.c:319, 320) does worse: the woken task blocks again, the waker overwrites its `TASK_BLOCKED`, and the next `task_unblock` of it fails its assertion.
- The pool. An invariant that no task is `"wiped"`, or `"freed"`, fails in the instance of `task_life`, without a tick at an exposed statement: a dying task that waited for the tid lock is cleared by `task_start`, or freed by `clean_dead_task`.
- Four tasks in `task_life`, with no tick at an exposed statement (`MaxTears = 0`), pass: 1,373,085 states.
- Tick shut out. Stated for both builds, `ReadyRunsUser` fails in Thread: `block_task_schedule` is reached with `SIGUSR1` blocked, `context_swap` does not restore the mask of the task it resumes, and if that one was preempted in its own code it keeps the processor until it calls the library.
- If all tasks sleep, `collaborative_schedule` loops in the handler with the tick blocked (`ParkHangs`), as the TODO at task.c:415 fears.
- In Thread, `SleepEnds` fails at once, because nothing runs the timers.
- With `WRAPS = TRUE` and a clock that starts near `Word`, `NoneOverdue` fails: the wrapped clock is compared as a 64-bit number.
- With `EarlySwitches` equal to the slice, `HandlerFindsTask` fails: the signal comes before `current_task` is set, or before its magic number is.

Deadlock checking is on where the system never stops (`ioqueue`, `ioq_deadlock`: the tick is always possible). It is off where it really may: Sync in `wrecked`, or in `panic` with the tick blocked, Sched in `hung` and ThreadTick after `main` has returned, TaskLife in `user_spin` with the tick blocked, TidPool with every task waiting for a lock whose holder spins in the assertion of `bitmap_scan`, ListOps when every element has come and gone; and in TimerWheel where the bound `EndOfTime` stops the clock.

### The exposed statements

A tick may come anywhere. The properties name the statements at which it does damage, and none is named that does none: with any one of them taken out of its set, `lock`, `task_life` or `ioqueue` is violated (for `take`, with a fourth task).

- Lock. Exclusion: `load` and `store`, the load and the store of `value--`; only a task that was resumed in `sema_down` runs them unmasked in Thread, any task in User_Schedule. Wake-ups and assertions, besides these: `enqueue`, `block`, `pick` in `sema_down`; `status`, `reopen`, `reload`, `restore`, `raised` from the `list_push` of `task_unblock` to the end of `sema_up`.
- Life cycle. `Misplacing`: `take`, between the test of the pool and the pop, another may take the last task of it; `reuse`, and `switch` at the end of `task_exit`, where the handler replaces the `task_tag` that names the task; `list`, a new task runs, and may exit, before it is on the list of all tasks. `Miscounting`: `counted` and `uncounted`, which lose an increment or a decrement.
- Ioqueue (`Windows`): `lock` and `register` lose a wake-up; `block` has a registered task woken that does not sleep yet; `clear` erases a new registration. Here the damage is not done by the tick but by the other end, when it runs in between.

### Bounds, and why they are enough

Three tasks give every relation the properties speak of: the current one, one ahead of and one behind another in a queue, or one that holds, one that waits and one that arrives. The life cycle has main and two, so that one starts or exits while the other waits for the tid lock; four tasks were checked beside the runs (above). Priorities 0, 1, 2 have the empty slice, the shortest and one that a sleep can cut. In the wheel, rings of 4 and 2 slots keep the proportions that decide the boundaries (a ring's slot spans the ring below), and due times lie on both sides of each. A nesting of 2 is the first that differs from 1. `BufSize` 3 (4 in `ioq_deadlock`) is the smallest ring in which full, empty and neither are three states; 5 bytes wrap both positions. 2 bytes of 2 bits have a full byte before a free one, and 5 tasks are one more than the 4 bits. `Slice` 4 with 3 early switches is the tightest start-up. 4 elements are two neighbours of one that goes, and one that comes. A `CleanShare` of 2 lets the quota be 0 and not 0 with three tasks; `CleanMost` is never reached. A `MaxTears` of 1 is enough for the properties that name the histories: they claim nothing of a state after an exposed tick but what `split` and `Misplaced` leave, and that is where one tick already leads; the theorems hold for every `MaxTears`.

`MaxDepth`, `EndOfTime`, `Totals`, `SleptCap` and `MaxTears` bound counters; `Available` in TaskLife bounds `malloc` by the number of task structs; `EarlySwitches` bounds the start-up. `TidHalf` stands for 2^15.

## 4. Fairness

- `Tick`: the interval timer (User_Schedule) or the kernel's switches (Thread, `SchedSwitch` and `Deliver`) never stop. Weak in Sched and ThreadTick, where nothing but the handler disables it. Strong in Sync, TaskLife and IoQueue: a signal that comes while it is blocked stays pending and is delivered when the mask opens.
- The handler finishes what it can (weak): the processor executes it without interruption.
- A task inside a library call gets on with it if it has the processor again and again (strong). No fairness for a task's own code: it need not sleep, lock or end. The exceptions are `Release`, for who holds a lock gives it back, as the users of this library do (without it no wake-up is promised), and the two ends of the ioqueue, who go on producing what they have to and consuming.
- None for `main` of Thread: it may stop in any statement, and `TurnOrEnd` still holds.

## 5. What is proved

With TLAPS, for all values of the constants that satisfy the modules' assumptions (any number of tasks, any priorities 0..255, any buffer, any bitmap, both builds).

**SchedProofs.** The inductive invariant `IInv` is `TypeOK`, `OnePlace`, `FlagsMatchPlace`, `NeverPanics`, and that only sleepers are in `sleep()`. `OnePlace` alone is not inductive: that a parked task is not queued as well, and is woken once, rests on the flag the handler reads, so the flags are tied to the places. One lemma per action, then:

- `TypeCorrect`, `NoTaskLost` (`OnePlace`), `AssertionsHold` (`NeverPanics`), `NoHang` (`NeverHangs`: if one task never sleeps, somebody is always ready; it follows from `OnePlace`, because that task has no timer);
- `RefinesRoundRobin`: the initial states map to initial states of RoundRobin and each step to a rotation, a sleep, a wake-up or a stutter. The main lemma, `Circle`, says that popping the front of the ready list after appending the current task rotates the circle.

The second half is about SchedHistory. Every step of SchedHistory is one of Sched, so `IInv` is there to use. On top of it:

- `SlicesAreFull` (`FullSlice`, where ticks are counted): the ticks charged and the ticks left make the priority (`UsedIsCharged`).
- `WaitingIsBounded` (`NoSecondTurn`): whoever was dispatched since a task was queued is not ahead of it (`PassedBehind`); lemma `DispatchRotates` says what a dispatch does to the places in the queue.
- `SleepIsLongEnough` (`SleptEnough`), for any delays: while a sleeper whose call was not cut, and whose timer the wheel has not met too soon, has a timer, the ticks it has slept and those the timer has left make at least what it asked for (`SleepInv`).
- `NoStaleTimeout` (`NothingSurvives`): `SleepInv` also says at each place of `sleep()` whose argument the timeout is.

**ThreadTickProofs.** `StartUpIsSafe` (`HandlerFindsTask`). Until the main task is made, what is left of the first slice and the switches so far make the whole slice (`StartUpInTime`), so no signal is pending; a task that main has still to start is in no list (`NotYetStarted`), so the handler queues none twice.

**TimerWheelProofs.** `TypeCorrect` (`TypeOK`) has no hypothesis: a timer in the wheel is always in the slot that its deadline says, in whatever ring, with a clock that wraps too. The rest is about the time before the clock wraps. `NoWrap` says that the last deadline asked for is a value of the clock, and that nobody asks for more than half a turn; the program has 49 days. `CallbacksLater` says that no callback makes a timer due at once; the two callbacks in the code make none at all, and the hazard at timer.c:189 is what would happen. Then, for any sizes of the rings, any granularity and any number of timers:

- `NeverPassed`: the walk of `run_timer` passes no deadline; `NothingOverdue` (`NoneOverdue`): what it leaves pending when it returns is due later than the clock it read.
- `EarlyByLaps` (`EarlyByWholeLaps`): a timer that fires before its deadline is early by whole laps of the first ring.
- `WheelImplements` (`ImplementsTimers`): TimerSpec is implemented. A cascade and the taking of a slot map to stutters.

That no deadline is passed is not inductive: a timer in a high ring must also have cascaded in time. The invariant `TInv` says of each pending timer that the walk has not come to the first instant of its slot yet (`InRing`), or has just taken it from the first ring at an instant of the same remainder (`Taken`). Two lemmas carry it. `PlacedAhead`: the slot that `add_timer` chooses in a ring above the first has not begun, because the distance in ticks is at most the distance in time. `CascadedInTime`: at the first instant of a slot of ring *r* every lower ring is at its slot 0, so `run_timer` looks at that slot; it rests on `WidthDivides`, that a slot of a ring spans whole laps of each ring below.

**SyncProofs.** No assumption about the ticks or the mask; for any `MaxTears`.

- `LockExcludes` (`ExcludesUnlessSplit`), `LockRecords` (`HolderMatches`), `TypeCorrect`: only a tick between the test and the store of `value--` lets two tasks have the lock, whatever the others break.
- `UncontendedIsMasked` (`UncontendedMasked`): in Thread such a tick finds a task that has blocked in this call, or whose wake-up opened the mask, in every state.

The invariant ties the value to the tasks between `value--` and `value++`, `OneInside` and `InsideTookValue`, because who may come back from `lock_acquire` next is decided by the value and not by `holder`; `Decrementing` says that who is about to store has seen 1 and still has the processor. `Masking` says where the mask is closed for whom, `Closed` being the statements it closes: a task that stands at one of them uncontended, in Thread, is the current one and masked.

- `NoAssertionFails` (`AssertionsHold`), `BlockedIsQueued` (`WaitersBlocked`): until a tick at an exposed statement no assertion fails, also none of `schedule()`, and a task that blocks finds another that is ready, because the one it waits for is not asleep.
- `SomebodyWillWake`: until then, while a task waits, another is inside the semaphore or on its way in and not blocked. This is the safety half of `NoLostWakeUp`; that it happens is liveness, and left to TLC.

These three rest on each other and are one invariant, `WInv`: an assertion about a list holds because a blocked task is queued where its waker looks, and a task is woken because no assertion has stopped the one that wakes it. `Pushing` is about the moment between the `list_push` and `TASK_READY`.

**TaskLifeProofs.** No assumption about the ticks either, for any number of tasks in both builds and any `MaxTears`:

- `TypeCorrect`; `NoTaskLost` (`OnePlace`); `NothingStuck` (`NeverStuck`); `PoolHoldsLeavers` (`PoolIsLeaving`); `ListsAndCount` (`ListsAgree`).

None is inductive by itself. `ListsAgree` speaks of the moments when nobody is in the middle of a start or an exit; the invariant (`AllList`, `Numbers`, `Pooled`, `Made`) says at every statement which task the list, the count and the pool have not got yet or still have. `Locked` is about the tid lock: its holder is the one task inside, a task that waits is blocked at one of the two statements where it asked for it, and while one waits the lock is held or a woken task is about to try again. So whoever blocks there finds another that is ready, since that one is not asleep. The invariant has a second form for the states after a task has been cleared or freed (`Frozen`), in which nothing moves and the properties still hold.

**ListOpsProofs.** For any number of elements and without further assumptions:

- `TypeCorrect` (`TypeOK`); `BothDirections` (`LinksAgree`); `WalkFindsGoal` (`WalkFinds`).
- `PutAtTheEnds`: `list_append` puts an element behind all that are in the list, `list_push` ahead of them, and the order of the others stays.
- `WalkNeverTurns`: the walk only moves towards the tail in that order, so it meets no element twice.
- `IsSequence` (`ImplementsList`): the four operations are those of a sequence.

`LinksAgree` speaks of the moments between the operations and `WalkFinds` of the end of a walk; the invariant has to speak of every store. The `prev` links are right at every moment (`PrevLinks`), since each operation changes them with one store, its last. A `next` link leads over nothing that is in the list (`NextLinks`), except from the one node whose link the operation under way has changed (`Torn`); `HalfWay` says what that operation has stored so far. That holds of the links of removed elements too: an element that is inserted later comes immediately behind a node of the list, and no other node's link leads over that one. Hence a walk that stands on a removed element still has its goal ahead of it (`OnTheWay`).

`IsSequence` needs one more invariant, `HasList`: there is a sequence of all that is in the list through which the `prev` links lead from the tail to the head (`IsChain`). `Linked` reads off that very sequence (`LinkedIs`). `NodesBack`, which it uses, is a recursive function. That such a function satisfies its equation is shown with an explicit one that does, and that it has the values claimed by looking at the least number at which it would not (`Least`): well-founded induction as a statement about a set, in place of the induction theorems. `ChainAppend`, `ChainPush` and `ChainRemove` say what the last stores of the operations make of a chain; that `list_remove` joins the right two nodes rests on both directions agreeing around the element (`Unlink2Effect`).

**IoQueueProofs.** `RingInvariant` and `RingIsFifo` (`ImplementsFifo`), with no assumption about the ticks. The invariant says that an end past its test still has room, or a byte: the other end can only make more of it. The lemmas about `Contents` say what moving `head` and `tail` does to the sequence, around the end of the buffer too; division is avoided by `NextPos`.

As long as no end has run while the other stood, awake, at `block`, between its registration in a waiter field and the switch, or at `clear`, between `task_unblock` and the reset of the field (`Unbroken`):

- `NoAssertionFails` (`AssertionsHold`): no assertion of ioqueue.c or `task_unblock` fails.
- `NoSleeperForgotten`: an end that sleeps is in the queue of the lock or in the field that the other end looks at.

The two other windows matter to `AllArrive`, not to these. The invariant `WInv` adds to the two that only one end holds the lock, and what a field says about the end that it names at each statement. An end that waits for the lock is registered nowhere, which is why both ends can sleep at once (`ioq_deadlock`): nobody is forgotten, and nobody is left to wake them.

**TidPoolProofs.** `TypeCorrect`; `PoolInvariant`, the inductive invariant under `TidsFit`: who is inside holds the lock, the byte read is still the byte stored, and bits and living tasks match except for the one bit in work; from it `TidsAreDistinct` (`TidsDistinct`) and `BitmapIsExact` (`BitsMatch`). That tids stay below the number of tasks needs that `bitmap_scan` takes the lowest free bit, and a count of the tasks that have the ones below.

`FirstRun` (`ScanFindsRun`): `bitmap_scan` for several bits finds the first run of that many in the bitmap, or answers -1, but for the run that ends at the bit behind it, in any bitmap and whatever is behind it. It counts what is free since the last bit that was not, and starts again at 0, but at 1 on the first free bit. `CountsAre` says for the recursive `Counts` what that count is at each bit, with the argument used for `NodesBack`; `FirstRunFound` that it first comes to `cnt` at the end of the first run of what the loop looks at, the bit behind the bitmap included; the theorem tells the runs inside from that one.

Only model-checked: liveness (`SleepEnds`, `TurnOrEnd`, `NoLostWakeUp`, `ReadyRunsUser`, `StartedRuns`, `ExitEnds`, `AllArrive`, the fair half of `ImplementsFairRoundRobin`), which is beyond the prover. Every other property of the passing runs is stated by a theorem.

## 6. Plan

What could follow, in this order:

1. Sched with the tasks of TaskLife and Sync in one module: sleeping and blocked tasks beside each other.
2. A handler with nesting, for `create_timer`'s lock in Thread.
3. `delete_timer` and `destroy_timer_manager`, should they get a caller.

## 7. Not modelled

- The assembly: a switch is one step with the meaning the callers give it. What it loses is listed in section 1 (the mask); that it also loses flags is outside these models.
- Ticks inside a list operation, see ListOps. In Sched they cannot happen, because only the handler changes the ready list there; in the other modules they are a simplification.
- The hooked `fcntl` and `socket`: a table of flags per descriptor that only `fcntl` itself reads. Its mistakes (`F_GETFD` and `F_GETFL` are mixed up; attributes outlive a close; `hook.c:235` tests the address of `current_is_hook`, so that every `sleep` is hooked) are listed among the hazards or here; the last is why `SleepCall` has no guard about `is_hook`.
- The kernel module of User_Schedule: despite its name it never sends `SIGUSR1`, it only blocks it, and nothing else in that build sends it. `Sigusr1` of Sched lets it come at any time nevertheless.
- The contents of a context and of stacks; memory that `malloc` refuses.
- `get_next_task_011`, `print_task_info`, `list_len`, `delete_timer`, `destroy_timer_manager`: no live callers.
- Samples, benchmarks, build products, documents. `src/Thread/kernel/vmlinux.h`, nineteen of twenty lines of C in the repository, is generated by bpftool and holds type declarations only.
