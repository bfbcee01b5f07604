-------------------------------- MODULE IoQueue --------------------------------
(***************************************************************************)
(* The ring buffer of ioqueue.c between one producer and one consumer, the *)
(* use its two waiter fields are made for, with a main task that is always *)
(* ready.  ioq_putchar and ioq_getchar are taken statement by statement,   *)
(* under a tick between two statements.                                    *)
(*                                                                         *)
(* lock_acquire, lock_release, task_block and task_unblock are one step    *)
(* each: what happens inside them is the subject of Sync.  An end counts   *)
(* as inside wakeup (at "clear") from the list_push of task_unblock on.    *)
(*                                                                         *)
(* The protocol of the two waiter fields has no lock; what breaks it is an *)
(* end that runs while the other is preempted in the middle of one of its  *)
(* parts.  A history (overtaken) records that, so that the properties can  *)
(* say that nothing else breaks it.                                        *)
(***************************************************************************)
EXTENDS Naturals, Sequences

CONSTANTS
    Main, Producer, Consumer,
    Nobody,         \* NULL
    Bytes,
    BufSize,        \* bufsize
    Totals          \* how many bytes the producer may have to send

Ends == {Producer, Consumer}
Tasks == Ends \union {Main}

Statements == {"own", "test", "lock", "again", "register", "block", "unlock",
               "move", "advance", "check", "wake", "clear"}

\* The middle of a part of the protocol: an end has looked at the ring and does not wait
\* yet; it has registered and does not sleep yet; it has woken the other and has not reset
\* the other's field yet.
Windows == {"lock", "register", "block", "clear"}

ASSUME IoQueueAssumption ==
    /\ Main # Producer /\ Main # Consumer /\ Producer # Consumer
    /\ Nobody \notin Tasks
    /\ BufSize \in Nat \ {0, 1}
    /\ Totals \subseteq Nat

VARIABLES
    cur,        \* current_task
    ready,      \* task_ready_list
    blocked,    \* the tasks with status TASK_BLOCKED
    holder,     \* ioq->lock.holder
    queue,      \* ioq->lock.semaphore.waiters
    waiter,     \* ioq->producer and ioq->consumer
    buf,        \* ioq->buf
    head, tail, \* ioq->head, ioq->tail
    pc,         \* the statement an end is at
    byte,       \* putchar's argument, getchar's local
    total,      \* what the producer has to send,
    left,       \* and has not put yet
    overtaken   \* history: where an end stood, awake, when the other made a step

cpuVars == <<cur, ready, blocked>>
lockVars == <<holder, queue>>
ringVars == <<buf, head, tail>>
ownVars == <<byte, left>>
vars == <<total, cpuVars, lockVars, ringVars, waiter, pc, ownVars, overtaken>>

Init ==
    /\ total \in Totals
    /\ cur = Main
    /\ ready = <<Producer, Consumer>>
    /\ blocked = {}
    /\ holder = Nobody
    /\ queue = <<>>
    /\ waiter = [e \in Ends |-> Nobody]
    /\ buf \in {[i \in 0..(BufSize - 1) |-> b] : b \in Bytes}
    /\ head = 0
    /\ tail = 0
    /\ pc = [t \in Tasks |-> "own"]
    /\ byte \in {[e \in Ends |-> b] : b \in Bytes}
    /\ left = total
    /\ overtaken = {}

\* Mutant of NextPos: the remainder is left out.
MutNextPos(pos) == pos + 1

NextPos(pos) == IF pos + 1 = BufSize THEN 0 ELSE pos + 1     \* (pos + 1) % bufsize

\* Mutant of IoqFull: the next position is not taken around the end of the buffer.
MutIoqFull == head + 1 = tail

IoqFull == NextPos(head) = tail
IoqEmpty == head = tail

IoqLength == IF head >= tail THEN head - tail ELSE BufSize - (tail - head)

Other(e) == IF e = Producer THEN Consumer ELSE Producer

At(e, here) == cur = e /\ pc[e] = here
Goto(e, there) == pc' = [pc EXCEPT ![e] = there]

\* task_block and the waiting in lock_acquire: the next ready task runs.  There is one,
\* the main task never waits.
GiveUp(e) ==
    /\ blocked' = blocked \union {e}
    /\ cur' = Head(ready)
    /\ ready' = Tail(ready)

\* task_unblock, at the front of the ready list.
MakeReady(t) ==
    /\ blocked' = blocked \ {t}
    /\ ready' = <<t>> \o ready
    /\ UNCHANGED cur

-------------------------------------------------------------------------------
(* ioq_putchar and ioq_getchar                                               *)

Call(e) ==
    /\ At(e, "own")
    /\ IF e = Producer
       THEN /\ left > 0
            /\ \E b \in Bytes : byte' = [byte EXCEPT ![e] = b]
       ELSE UNCHANGED byte
    /\ Goto(e, "test")
    /\ UNCHANGED <<cpuVars, lockVars, ringVars, waiter, left>>

MustWait(e) == IF e = Producer THEN IoqFull ELSE IoqEmpty

Test(e) ==
    /\ At(e, "test")
    /\ Goto(e, IF MustWait(e) THEN "lock" ELSE "move")
    /\ UNCHANGED <<cpuVars, lockVars, ringVars, waiter, ownVars>>

\* lock_acquire.  A task that waited looks at the lock again when it is resumed.
Lock(e) ==
    /\ At(e, "lock") \/ At(e, "again")
    /\ IF holder = Nobody
       THEN holder' = e /\ Goto(e, "register") /\ UNCHANGED <<cpuVars, queue>>
       ELSE queue' = Append(queue, e) /\ GiveUp(e) /\ Goto(e, "again") /\ UNCHANGED holder
    /\ UNCHANGED <<ringVars, waiter, ownVars>>

\* ioq_wait; in it the assertion that nobody is registered yet.
Register(e) ==
    /\ At(e, "register")
    /\ IF waiter[e] # Nobody
       THEN Goto(e, "panic") /\ UNCHANGED waiter
       ELSE Goto(e, "block") /\ waiter' = [waiter EXCEPT ![e] = e]
    /\ UNCHANGED <<cpuVars, lockVars, ringVars, ownVars>>

Block(e) ==
    /\ At(e, "block")
    /\ GiveUp(e)
    /\ Goto(e, "unlock")
    /\ UNCHANGED <<lockVars, ringVars, waiter, ownVars>>

\* lock_release
Unlock(e) ==
    /\ At(e, "unlock")
    /\ holder' = Nobody
    /\ IF queue = <<>>
       THEN UNCHANGED <<cpuVars, queue>>
       ELSE MakeReady(Head(queue)) /\ queue' = Tail(queue)
    /\ Goto(e, "test")
    /\ UNCHANGED <<ringVars, waiter, ownVars>>

Move(e) ==
    /\ At(e, "move")
    /\ IF e = Producer
       THEN buf' = [buf EXCEPT ![head] = byte[e]] /\ UNCHANGED byte
       ELSE byte' = [byte EXCEPT ![e] = buf[tail]] /\ UNCHANGED buf
    /\ Goto(e, "advance")
    /\ UNCHANGED <<cpuVars, lockVars, head, tail, waiter, left>>

Advance(e) ==
    /\ At(e, "advance")
    /\ IF e = Producer
       THEN head' = NextPos(head) /\ left' = left - 1 /\ UNCHANGED tail
       ELSE tail' = NextPos(tail) /\ UNCHANGED <<head, left>>
    /\ Goto(e, "check")
    /\ UNCHANGED <<cpuVars, lockVars, buf, waiter, byte>>

\* Mutant of SomebodyWaits: an end looks at its own field.
MutSomebodyWaits(e) == waiter[e] # Nobody

SomebodyWaits(e) == waiter[Other(e)] # Nobody

Check(e) ==
    /\ At(e, "check")
    /\ Goto(e, IF SomebodyWaits(e) THEN "wake" ELSE "own")
    /\ UNCHANGED <<cpuVars, lockVars, ringVars, waiter, ownVars>>

\* wakeup, up to task_unblock; either may fail its assertion.
Wake(e) ==
    /\ At(e, "wake")
    /\ IF waiter[Other(e)] \notin blocked
       THEN Goto(e, "panic") /\ UNCHANGED cpuVars
       ELSE Goto(e, "clear") /\ MakeReady(waiter[Other(e)])
    /\ UNCHANGED <<lockVars, ringVars, waiter, ownVars>>

\* Mutant of Forgotten: wakeup does not reset the field.
MutForgotten(e) == waiter

Forgotten(e) == [waiter EXCEPT ![Other(e)] = Nobody]

Clear(e) ==
    /\ At(e, "clear")
    /\ waiter' = Forgotten(e)
    /\ Goto(e, "own")
    /\ UNCHANGED <<cpuVars, lockVars, ringVars, ownVars>>

\* The tick takes the processor from a task that has used up its slice; how much of it is
\* left is not modelled, so any tick may.
Tick ==
    /\ cur' = Head(Append(ready, cur))
    /\ ready' = Tail(Append(ready, cur))
    /\ UNCHANGED <<blocked, lockVars, ringVars, waiter, pc, ownVars>>

InCall(e) ==
    \/ Test(e) \/ Lock(e) \/ Register(e) \/ Block(e) \/ Unlock(e)
    \/ Move(e) \/ Advance(e) \/ Check(e) \/ Wake(e) \/ Clear(e)

\* An end makes a step while the other stands in a window and is not blocked there.
Overtake(e) ==
    overtaken' = overtaken \union
        (IF Other(e) \in blocked THEN {} ELSE {pc[Other(e)]} \intersect Windows)

Runs(e) == (Call(e) \/ InCall(e)) /\ Overtake(e) /\ UNCHANGED total

Preempt == Tick /\ UNCHANGED <<total, overtaken>>

Next == (\E e \in Ends : Runs(e)) \/ Preempt

Spec == Init /\ [][Next]_vars

\* Ticks keep coming; an end that has the processor again and again gets on.
Fairness ==
    /\ SF_vars(Preempt)
    /\ \A e \in Ends : SF_vars(Runs(e))

FairSpec == Spec /\ Fairness

-------------------------------------------------------------------------------
(* Properties.                                                               *)

RingTypeOK ==
    /\ buf \in [0..(BufSize - 1) -> Bytes]
    /\ head \in 0..(BufSize - 1) /\ tail \in 0..(BufSize - 1)
    /\ pc \in [Tasks -> Statements \union {"panic"}]
    /\ byte \in [Ends -> Bytes]

\* Every variable is in its range; a position of the ring never leaves the buffer.
TypeOK ==
    /\ RingTypeOK
    /\ overtaken \subseteq Windows
    /\ total \in Nat /\ left \in 0..total
    /\ cur \in Tasks
    /\ ready \in Seq(Tasks) /\ queue \in Seq(Ends)
    /\ blocked \subseteq Ends
    /\ holder \in Ends \union {Nobody}
    /\ waiter \in [Ends -> Ends \union {Nobody}]

\* The place of the i-th oldest byte.
Place(i) == IF tail + i - 1 < BufSize THEN tail + i - 1 ELSE tail + i - 1 - BufSize

Contents == [i \in 1..IoqLength |-> buf[Place(i)]]

Queue == INSTANCE Fifo WITH
    Capacity <- BufSize - 1, contents <- Contents, taken <- byte[Consumer]

\* The ring is a first-in first-out queue of bufsize - 1 bytes: none is lost, repeated,
\* overwritten or reordered, wherever the ticks come.  No lock is held while the ends
\* use it; each field has one writer.
ImplementsFifo == Queue!Spec

\* ioqueue.c and task_unblock: nobody is registered twice, and who is woken does wait.
\* An assertion fails only after an end has run while the other was preempted between its
\* registration and its sleep, or between its waking the first and the reset of the field:
\* not by a tick at any other statement, and not by one at these after which only other
\* tasks run.
Unbroken == overtaken \intersect {"block", "clear"} = {}

AssertionsHold == Unbroken => \A e \in Ends : pc[e] # "panic"

\* As long as the ring does not fill, no wake-up is lost and what is sent arrives, unless
\* an end runs while the other stands in one of the windows.  (An end that waits for the
\* lock does not look at the ring again when it gets the lock, so an end may go to sleep
\* on a ring that is neither full nor empty; only a full ring makes the producer use the
\* lock at all.)
AllArrive == ([](overtaken = {}) /\ []~IoqFull) => <>(left = 0 /\ IoqEmpty)

\* ioqueue.c: a consumer that sleeps is woken by the producer and a producer by the
\* consumer, so one of them is always awake, at least when no tick has come in a window.
OneIsAwake == overtaken = {} => ~ (Ends \subseteq blocked)

==============================================================================
