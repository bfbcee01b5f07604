------------------------------ MODULE SyncProofs ------------------------------
(***************************************************************************)
(* Proofs about Sync, for any number of tasks, any depth of nesting, any   *)
(* number of ticks at exposed statements and in both builds.  Nothing but  *)
(* a tick between the test and the store of value-- lets two tasks have    *)
(* the lock; nothing but a tick at an exposed statement fails an           *)
(* assertion, hangs a task or loses a wake-up.                             *)
(***************************************************************************)
EXTENDS Sync, SequenceTheorems, TLAPS

-------------------------------------------------------------------------------
(* The inductive invariant.                                                  *)

Byte == 0..255

Shape ==
    /\ shuts \in BOOLEAN
    /\ cur \in Tasks
    /\ ready \in Seq(Tasks) /\ waiters \in Seq(Tasks)
    /\ status \in [Tasks -> {"RUNNING", "READY", "BLOCKED"}]
    /\ masked \in BOOLEAN
    /\ value \in Byte
    /\ holder \in Tasks \union {Nobody}
    /\ repeat \in Nat
    /\ pc \in [Tasks -> Statements \union Stuck]
    /\ temp \in [Tasks -> Byte]
    /\ woken \in [Tasks -> Tasks \union {Nobody}]
    /\ depth \in [Tasks -> 0..MaxDepth]

\* What is recorded of the ticks.  A tick between the test and the store is at an exposed
\* statement.
History ==
    /\ wrecked \in BOOLEAN /\ split \in BOOLEAN /\ tears \in 0..MaxTears
    /\ contended \in [Tasks -> BOOLEAN]
    /\ split => Torn

\* From value-- to value++ a task is inside, whether it calls the lock its own yet,
\* still, or no longer.
OneInside == \A s, t \in Tasks : Inside(s) /\ Inside(t) => s = t

InsideTookValue == \A t \in Tasks : Inside(t) => value = 0

\* Nobody is preempted between the test of the value and its store.
Decrementing ==
    /\ value \in {0, 1}
    /\ \A t \in Tasks :
        /\ pc[t] \in Decrement => cur = t /\ value = 1
        /\ pc[t] = "store" => temp[t] = 1
        /\ pc[t] # "store" => temp[t] = 0

\* A task that holds the lock is in its own code: it never fails an assertion.
HeldOutside == \A t \in Tasks : Holds(t) => pc[t] = "own"

\* What the lock records: the holder, and nothing without one.
Recorded ==
    /\ \A t \in Tasks : Holds(t) => holder = t /\ repeat = depth[t]
    /\ \A t \in Tasks : pc[t] = "count" => holder = t
    /\ holder # Nobody => Holds(holder) \/ pc[holder] = "count"
    /\ (\A t \in Tasks : ~Holds(t)) => repeat = 0

WokenIsTask == \A t \in Tasks : pc[t] \in {"unblock", "status"} => woken[t] \in Tasks

\* In Thread a task that has not blocked in its call, or woken another, still runs with
\* the mask closed.
Closed ==
    {"test", "enqueue", "block", "pick", "load", "store", "taken",
     "wake", "unblock", "status", "reopen", "reload", "restore", "raised"}

Masking ==
    \A t \in Tasks :
        /\ shuts /\ ~contended[t] /\ pc[t] \in Closed => cur = t /\ masked
        /\ pc[t] \in {"unblock", "status", "reopen"} => contended[t]

\* MutualExclusion is not inductive alone: who may come back from lock_acquire next is
\* decided by the value, so the value is tied to the tasks inside the calls as well.
LockInv ==
    /\ OneInside
    /\ InsideTookValue
    /\ Decrementing
    /\ HeldOutside
    /\ Recorded

IInv ==
    /\ Shape
    /\ History
    /\ WokenIsTask
    /\ Masking
    /\ ~split => LockInv

\* uint8_t.
LEMMA ByteSteps ==
    ASSUME NEW x \in Byte
    PROVE  (x + 255) % 256 \in Byte /\ (x + 1) % 256 \in Byte /\ 0 \in Byte
BY DEF Byte

\* list_append, and then list_pop.
LEMMA AppendPop ==
    ASSUME NEW S, NEW s \in Seq(S), NEW x \in S
    PROVE  Head(Append(s, x)) \in S /\ Tail(Append(s, x)) \in Seq(S)
<1>1. Append(s, x) \in Seq(S) /\ Append(s, x) # <<>>
  BY AppendProperties
<1> QED BY <1>1, HeadTailProperties

\* A failed assertion changes nothing else.
LEMMA PanicShape ==
    ASSUME Shape, NEW t \in Tasks, Panic(t), UNCHANGED shuts PROVE Shape'
<1>1. pc' = [pc EXCEPT ![t] = "panic"] /\ UNCHANGED <<cpuVars, masked, lockVars, taskVars>>
  BY DEF Panic, Goto
<1>2. pc' \in [Tasks -> Statements \union Stuck]
  BY <1>1 DEF Shape, Stuck
<1> QED BY <1>1, <1>2 DEF Shape, cpuVars, lockVars, taskVars

\* No statement leaves a variable outside its type.
LEMMA ShapeStep ==
    ASSUME IInv, Next PROVE Shape'
<1> USE SyncAssumption
    DEF Shape, At, Goto, Disable, Enable, cpuVars, lockVars, taskVars, Statements, Stuck
<1>0. Shape /\ WokenIsTask /\ UNCHANGED shuts
  BY DEF IInv, Next, Move, Tick
<1> USE <1>0
<1>1. ASSUME NEW t \in Tasks, Acquire(t) PROVE Shape'
  <2>1. CASE holder = t
    <3>1. depth[t] + 1 \in 0..MaxDepth /\ repeat + 1 \in Nat
      BY <1>1 DEF Acquire
    <3>2. depth' \in [Tasks -> 0..MaxDepth]
      BY <1>1, <2>1, <3>1 DEF Acquire
    <3> QED BY <1>1, <2>1, <3>1, <3>2 DEF Acquire
  <2>2. CASE holder # t
    BY <1>1, <2>2 DEF Acquire
  <2> QED BY <2>1, <2>2
<1>2. ASSUME NEW t \in Tasks, Down(t) PROVE Shape'
  BY <1>2 DEF Down
<1>3. ASSUME NEW t \in Tasks, Test(t) PROVE Shape'
  BY <1>3 DEF Test
<1>4. ASSUME NEW t \in Tasks, Enqueue(t) PROVE Shape'
  <2>1. Append(waiters, t) \in Seq(Tasks)
    BY AppendProperties
  <2>2. CASE t \in Range(waiters)
    BY <1>4, <2>2, PanicShape DEF Enqueue
  <2>3. CASE t \notin Range(waiters)
    BY <1>4, <2>1, <2>3 DEF Enqueue
  <2> QED BY <2>2, <2>3
<1>5. ASSUME NEW t \in Tasks, Block(t) PROVE Shape'
  BY <1>5 DEF Block
<1>6. ASSUME NEW t \in Tasks, Pick(t) PROVE Shape'
  <2>1. CASE ready = <<>>
    BY <1>6, <2>1 DEF Pick
  <2>2. CASE ready # <<>>
    <3>1. Head(ready) \in Tasks /\ Tail(ready) \in Seq(Tasks)
      BY <2>2, HeadTailProperties
    <3> QED BY <1>6, <2>2, <3>1 DEF Pick, Resumed
  <2> QED BY <2>1, <2>2
<1>7. ASSUME NEW t \in Tasks, Load(t) PROVE Shape'
  BY <1>7 DEF Load
<1>8. ASSUME NEW t \in Tasks, Store(t) PROVE Shape'
  <2>1. (temp[t] + 255) % 256 \in Byte /\ 0 \in Byte
    <3>1. temp[t] \in Byte
      OBVIOUS
    <3> QED BY <3>1, ByteSteps
  <2> QED BY <1>8, <2>1 DEF Store
<1>9. ASSUME NEW t \in Tasks, Taken(t) PROVE Shape'
  <2>1. CASE value # 0
    BY <1>9, <2>1, PanicShape DEF Taken
  <2>2. CASE value = 0
    BY <1>9, <2>2 DEF Taken
  <2> QED BY <2>1, <2>2
<1>10. ASSUME NEW t \in Tasks, Hold(t) PROVE Shape'
  BY <1>10 DEF Hold
<1>11. ASSUME NEW t \in Tasks, Count(t) PROVE Shape'
  BY <1>11 DEF Count
<1>12. ASSUME NEW t \in Tasks, Release(t) PROVE Shape'
  <2>1. CASE holder # t \/ repeat = 0
    BY <1>12, <2>1, PanicShape DEF Release
  <2>2. CASE holder = t /\ repeat # 0
    <3>0. depth[t] - 1 \in 0..MaxDepth /\ repeat - 1 \in Nat
      BY <1>12, <2>2 DEF Release
    <3>1. depth' \in [Tasks -> 0..MaxDepth] /\ repeat' \in Nat
      <4>1. depth' = [depth EXCEPT ![t] = depth[t] - 1]
        BY <1>12, <2>2 DEF Release
      <4>2. repeat' \in {0, repeat - 1}
        BY <1>12, <2>2 DEF Release, LastRelease
      <4> QED BY <3>0, <4>1, <4>2
    <3>2. holder' \in Tasks \union {Nobody} /\ pc' \in [Tasks -> Statements \union Stuck]
      BY <1>12, <2>2 DEF Release, LastRelease
    <3> QED BY <1>12, <2>2, <3>1, <3>2 DEF Release
  <2> QED BY <2>1, <2>2
<1>13. ASSUME NEW t \in Tasks, Up(t) PROVE Shape'
  BY <1>13 DEF Up
<1>14. ASSUME NEW t \in Tasks, Wake(t) PROVE Shape'
  <2>1. CASE value = 0 /\ waiters # <<>>
    <3>1. Head(waiters) \in Tasks /\ Tail(waiters) \in Seq(Tasks)
      BY <2>1, HeadTailProperties
    <3>2. /\ woken' = [woken EXCEPT ![t] = Head(waiters)]
          /\ waiters' = Tail(waiters)
          /\ pc' = [pc EXCEPT ![t] = "unblock"]
          /\ UNCHANGED <<cpuVars, masked, value, holder, repeat, temp, depth>>
      BY <1>14, <2>1 DEF Wake, SomebodyWaits, NextWaiter
    <3> QED BY <3>1, <3>2
  <2>2. CASE value = 0 /\ waiters = <<>>
    BY <1>14, <2>2 DEF Wake, SomebodyWaits
  <2>3. CASE value # 0
    BY <1>14, <2>3, PanicShape DEF Wake
  <2> QED BY <2>1, <2>2, <2>3
<1>15. ASSUME NEW t \in Tasks, Unblock(t) PROVE Shape'
  <2>1. CASE status[woken[t]] # "BLOCKED" \/ woken[t] \in Range(ready)
    BY <1>15, <2>1, PanicShape DEF Unblock
  <2>2. CASE ~(status[woken[t]] # "BLOCKED" \/ woken[t] \in Range(ready))
    <3>1. <<woken[t]>> \o ready \in Seq(Tasks)
      BY <1>15, ConcatProperties DEF Unblock, WokenIsTask
    <3>2. /\ ready' = <<woken[t]>> \o ready
          /\ pc' = [pc EXCEPT ![t] = "status"]
          /\ masked' = shuts
          /\ UNCHANGED <<cur, status, lockVars, taskVars>>
      BY <1>15, <2>2 DEF Unblock
    <3>3. pc' \in [Tasks -> Statements \union Stuck]
      BY <3>2
    <3> QED BY <3>1, <3>2, <3>3
  <2> QED BY <2>1, <2>2
<1>21. ASSUME NEW t \in Tasks, Status(t) PROVE Shape'
  BY <1>21 DEF Status
<1>16. ASSUME NEW t \in Tasks, Reopen(t) PROVE Shape'
  BY <1>16 DEF Reopen
<1>17. ASSUME NEW t \in Tasks, Reload(t) PROVE Shape'
  BY <1>17 DEF Reload
<1>18. ASSUME NEW t \in Tasks, Restore(t) PROVE Shape'
  <2>1. (temp[t] + 1) % 256 \in Byte /\ 0 \in Byte
    <3>1. temp[t] \in Byte
      OBVIOUS
    <3> QED BY <3>1, ByteSteps
  <2>2. /\ value' = (temp[t] + 1) % 256
        /\ temp' = [temp EXCEPT ![t] = 0]
        /\ pc' = [pc EXCEPT ![t] = "raised"]
        /\ UNCHANGED <<cpuVars, masked, waiters, holder, repeat, woken, depth>>
    BY <1>18, <2>1 DEF Restore, Raised
  <2> QED BY <2>1, <2>2
<1>19. ASSUME NEW t \in Tasks, UpDone(t) PROVE Shape'
  <2>1. CASE value # 1
    BY <1>19, <2>1, PanicShape DEF UpDone
  <2>2. CASE value = 1
    BY <1>19, <2>2 DEF UpDone
  <2> QED BY <2>1, <2>2
<1>20. CASE Tick
  <2>1. CASE Wreck
    BY <1>20, <2>1 DEF Tick, Wreck
  <2>2. CASE Preempt
    <3> DEFINE q == Append(ready, cur)
    <3>2. Head(q) \in Tasks /\ Tail(q) \in Seq(Tasks)
      BY AppendPop
    <3>3. /\ cur' = Head(q) /\ ready' = Tail(q)
          /\ status' = [status EXCEPT ![cur] = "READY", ![Head(q)] = "RUNNING"]
          /\ UNCHANGED <<shuts, masked, lockVars, pc, taskVars>>
      BY <1>20, <2>2 DEF Tick, Preempt, Requeued
    <3> HIDE DEF q
    <3> QED BY <3>2, <3>3
  <2> QED BY <1>20, <2>1, <2>2 DEF Tick
<1> QED BY <1>1, <1>2, <1>3, <1>4, <1>5, <1>6, <1>7, <1>8, <1>9, <1>10,
  <1>11, <1>12, <1>13, <1>14, <1>15, <1>16, <1>17, <1>18, <1>19, <1>20, <1>21 DEF Next, InCall

\* No statement lets a second task in, and none changes what the lock records without
\* the task that holds it.
LEMMA LockStep ==
    ASSUME IInv, LockInv, ~split', Next PROVE LockInv'
<1>0. Shape /\ WokenIsTask
  BY DEF IInv
<1> USE <1>0 DEF Shape, LockInv, OneInside, InsideTookValue, Decrementing, HeldOutside, Recorded,
    Inside, Holds, At, Goto, cpuVars, lockVars, taskVars, Statements, Stuck, Decrement
<1>1. ASSUME NEW t \in Tasks, Acquire(t) PROVE LockInv'
  <2>1. CASE holder = t
    <3>1. Holds(t)
      BY <1>1, <2>1, SyncAssumption DEF Acquire
    <3>2. /\ repeat' = depth'[t] /\ repeat' = repeat + 1
          /\ \A s \in Tasks : s # t => depth'[s] = depth[s]
          /\ depth'[t] > 0
      BY <1>1, <2>1, <3>1 DEF Acquire
    <3>3. \A s \in Tasks : Inside(s)' <=> Inside(s)
      BY <1>1, <2>1, <3>1, <3>2 DEF Acquire
    <3>4. OneInside' /\ InsideTookValue' /\ Decrementing' /\ HeldOutside'
      BY <1>1, <2>1, <3>1, <3>2, <3>3 DEF Acquire
    <3>5. Recorded'
      BY <1>1, <2>1, <3>1, <3>2 DEF Acquire
    <3> QED BY <3>4, <3>5
  <2>2. CASE holder # t
    BY <1>1, <2>2 DEF Acquire
  <2> QED BY <2>1, <2>2
<1>2. ASSUME NEW t \in Tasks, Down(t) PROVE LockInv'
  BY <1>2 DEF Down
<1>3. ASSUME NEW t \in Tasks, Test(t) PROVE LockInv'
  BY <1>3 DEF Test
<1>4. ASSUME NEW t \in Tasks, Enqueue(t) PROVE LockInv'
  BY <1>4 DEF Enqueue, Panic
<1>5. ASSUME NEW t \in Tasks, Block(t) PROVE LockInv'
  BY <1>5 DEF Block
<1>6. ASSUME NEW t \in Tasks, Pick(t) PROVE LockInv'
  BY <1>6 DEF Pick, Resumed
<1>7. ASSUME NEW t \in Tasks, Load(t) PROVE LockInv'
  BY <1>7 DEF Load
<1>8. ASSUME NEW t \in Tasks, Store(t) PROVE LockInv'
  BY <1>8 DEF Store
<1>9. ASSUME NEW t \in Tasks, Taken(t) PROVE LockInv'
  BY <1>9 DEF Taken, Panic
<1>10. ASSUME NEW t \in Tasks, Hold(t) PROVE LockInv'
  BY <1>10 DEF Hold
<1>11. ASSUME NEW t \in Tasks, Count(t) PROVE LockInv'
  <2>1. \A s \in Tasks : Inside(s)' <=> Inside(s)
    BY <1>11, SyncAssumption DEF Count
  <2>2. OneInside' /\ InsideTookValue' /\ Decrementing' /\ HeldOutside'
    BY <1>11, <2>1, SyncAssumption DEF Count
  <2>3. holder = t /\ Holds(t)' /\ repeat' = 1 /\ depth'[t] = 1 /\ UNCHANGED holder
    <3>1. holder = t
      BY <1>11, SyncAssumption DEF Count
    <3> QED BY <1>11, <3>1 DEF Count
  <2>4. \A s \in Tasks : Holds(s)' \/ pc'[s] = "count" => s = t
    BY <2>2, <2>3
  <2>5. Recorded'
    BY <2>3, <2>4
  <2> QED BY <2>2, <2>5
<1>12. ASSUME NEW t \in Tasks, Release(t) PROVE LockInv'
  <2>1. holder = t /\ repeat = depth[t] /\ repeat # 0
    BY <1>12 DEF Release
  <2>2. \A s \in Tasks : Inside(s)' <=> Inside(s)
    <3>1. depth' = [depth EXCEPT ![t] = depth[t] - 1]
      BY <1>12, <2>1 DEF Release
    <3>2. IF repeat = 1 THEN pc' = [pc EXCEPT ![t] = "up"] ELSE UNCHANGED pc
      BY <1>12, <2>1 DEF Release, LastRelease
    <3> QED BY <2>1, <3>1, <3>2
  <2>3. OneInside' /\ InsideTookValue' /\ Decrementing'
    BY <1>12, <2>1, <2>2 DEF Release, LastRelease
  <2>4. depth' = [depth EXCEPT ![t] = depth[t] - 1]
    BY <1>12, <2>1 DEF Release
  <2>5. CASE repeat = 1
    <3>1. holder' = Nobody /\ repeat' = 0 /\ depth'[t] = 0 /\ pc'= [pc EXCEPT ![t] = "up"]
      BY <1>12, <2>1, <2>4, <2>5 DEF Release, LastRelease
    <3>2. \A s \in Tasks : s # t => ~Holds(s) /\ pc[s] # "count"
      BY <1>12 DEF Release
    <3>3. \A s \in Tasks : ~Holds(s)'
      BY <2>4, <3>1, <3>2
    <3>4. \A s \in Tasks : pc'[s] # "count"
      BY <3>1, <3>2
    <3>5. Recorded'
      BY <3>1, <3>3, <3>4, SyncAssumption
    <3>6. HeldOutside'
      BY <3>3
    <3> QED BY <2>3, <3>5, <3>6
  <2>6. CASE repeat # 1
    <3>1. holder' = t /\ repeat' = repeat - 1 /\ depth'[t] = repeat - 1 /\ UNCHANGED pc
      BY <1>12, <2>1, <2>4, <2>6 DEF Release, LastRelease
    <3>2. Holds(t)' /\ \A s \in Tasks : s # t => ~Holds(s)'
      BY <2>1, <2>4, <2>6, <3>1
    <3> QED BY <1>12, <3>1, <3>2 DEF Release
  <2> QED BY <2>5, <2>6
<1>13. ASSUME NEW t \in Tasks, Up(t) PROVE LockInv'
  BY <1>13 DEF Up
<1>14. ASSUME NEW t \in Tasks, Wake(t) PROVE LockInv'
  <2>1. /\ pc[t] = "wake" /\ UNCHANGED <<cur, value, holder, repeat, temp, depth>>
        /\ \E there \in {"panic", "unblock", "reload"} : pc' = [pc EXCEPT ![t] = there]
    BY <1>14 DEF Wake, Panic
  <2>2. \A s \in Tasks : Inside(s)' => Inside(s)
    BY <2>1
  <2> QED BY <2>1, <2>2
<1>15. ASSUME NEW t \in Tasks, Unblock(t) PROVE LockInv'
  <2>1. /\ pc' = [pc EXCEPT ![t] = "panic"] \/ pc' = [pc EXCEPT ![t] = "status"]
        /\ UNCHANGED <<cur, lockVars, taskVars>>
        /\ pc[t] = "unblock"
    BY <1>15 DEF Unblock, Panic
  <2>2. OneInside' /\ InsideTookValue'
    BY <2>1
  <2>3. Decrementing' /\ HeldOutside'
    BY <2>1
  <2>4. Recorded'
    BY <2>1
  <2> QED BY <2>2, <2>3, <2>4
<1>21. ASSUME NEW t \in Tasks, Status(t) PROVE LockInv'
  BY <1>21 DEF Status
<1>16. ASSUME NEW t \in Tasks, Reopen(t) PROVE LockInv'
  BY <1>16 DEF Reopen
<1>17. ASSUME NEW t \in Tasks, Reload(t) PROVE LockInv'
  BY <1>17 DEF Reload
<1>18. ASSUME NEW t \in Tasks, Restore(t) PROVE LockInv'
  BY <1>18 DEF Restore, Raised
<1>19. ASSUME NEW t \in Tasks, UpDone(t) PROVE LockInv'
  BY <1>19 DEF UpDone, Panic
<1>20. CASE Tick
  <2>1. pc[cur] \notin {"load", "store"} /\ UNCHANGED <<pc, lockVars, taskVars>>
    BY <1>20 DEF Tick
  <2> QED BY <2>1
<1> QED BY <1>1, <1>2, <1>3, <1>4, <1>5, <1>6, <1>7, <1>8, <1>9, <1>10,
  <1>11, <1>12, <1>13, <1>14, <1>15, <1>16, <1>17, <1>18, <1>19, <1>20, <1>21 DEF Next, InCall

\* sema_up wakes a task that was in the list of waiters.
LEMMA WokenStep ==
    ASSUME IInv, Next PROVE WokenIsTask'
<1> USE DEF IInv, Shape, WokenIsTask, At, Goto, cpuVars, lockVars, taskVars, Statements, Stuck
<1>1. ASSUME NEW t \in Tasks, Acquire(t) PROVE WokenIsTask'
  BY <1>1 DEF Acquire
<1>2. ASSUME NEW t \in Tasks, Down(t) PROVE WokenIsTask'
  BY <1>2 DEF Down
<1>3. ASSUME NEW t \in Tasks, Test(t) PROVE WokenIsTask'
  BY <1>3 DEF Test
<1>4. ASSUME NEW t \in Tasks, Enqueue(t) PROVE WokenIsTask'
  BY <1>4 DEF Enqueue, Panic
<1>5. ASSUME NEW t \in Tasks, Block(t) PROVE WokenIsTask'
  BY <1>5 DEF Block
<1>6. ASSUME NEW t \in Tasks, Pick(t) PROVE WokenIsTask'
  BY <1>6 DEF Pick, Resumed
<1>7. ASSUME NEW t \in Tasks, Load(t) PROVE WokenIsTask'
  BY <1>7 DEF Load
<1>8. ASSUME NEW t \in Tasks, Store(t) PROVE WokenIsTask'
  BY <1>8 DEF Store
<1>9. ASSUME NEW t \in Tasks, Taken(t) PROVE WokenIsTask'
  BY <1>9 DEF Taken, Panic
<1>10. ASSUME NEW t \in Tasks, Hold(t) PROVE WokenIsTask'
  BY <1>10 DEF Hold
<1>11. ASSUME NEW t \in Tasks, Count(t) PROVE WokenIsTask'
  BY <1>11 DEF Count
<1>12. ASSUME NEW t \in Tasks, Release(t) PROVE WokenIsTask'
  BY <1>12 DEF Release, LastRelease, Panic
<1>13. ASSUME NEW t \in Tasks, Up(t) PROVE WokenIsTask'
  BY <1>13 DEF Up
<1>14. ASSUME NEW t \in Tasks, Wake(t) PROVE WokenIsTask'
  <2>1. CASE value = 0 /\ waiters # <<>>
    <3>1. Head(waiters) \in Tasks
      BY <2>1, HeadTailProperties
    <3> QED BY <1>14, <2>1, <3>1 DEF Wake, SomebodyWaits, NextWaiter
  <2>2. CASE ~(value = 0 /\ waiters # <<>>)
    BY <1>14, <2>2 DEF Wake, SomebodyWaits, Panic
  <2> QED BY <2>1, <2>2
<1>15. ASSUME NEW t \in Tasks, Unblock(t) PROVE WokenIsTask'
  <2>1. pc[t] = "unblock" /\ UNCHANGED woken
    BY <1>15 DEF Unblock, Panic
  <2>2. pc' \in {[pc EXCEPT ![t] = "panic"], [pc EXCEPT ![t] = "status"]}
    BY <1>15 DEF Unblock, Panic
  <2> QED BY <2>1, <2>2
<1>21. ASSUME NEW t \in Tasks, Status(t) PROVE WokenIsTask'
  BY <1>21 DEF Status
<1>16. ASSUME NEW t \in Tasks, Reopen(t) PROVE WokenIsTask'
  BY <1>16 DEF Reopen
<1>17. ASSUME NEW t \in Tasks, Reload(t) PROVE WokenIsTask'
  BY <1>17 DEF Reload
<1>18. ASSUME NEW t \in Tasks, Restore(t) PROVE WokenIsTask'
  BY <1>18 DEF Restore, Raised
<1>19. ASSUME NEW t \in Tasks, UpDone(t) PROVE WokenIsTask'
  BY <1>19 DEF UpDone, Panic
<1>20. CASE Tick
  BY <1>20 DEF Tick
<1> QED BY <1>1, <1>2, <1>3, <1>4, <1>5, <1>6, <1>7, <1>8, <1>9, <1>10,
  <1>11, <1>12, <1>13, <1>14, <1>15, <1>16, <1>17, <1>18, <1>19, <1>20, <1>21 DEF Next, InCall

\* The record of the ticks is one of ticks.
LEMMA HistoryStep ==
    ASSUME IInv, Next PROVE History'
<1> USE SyncAssumption DEF IInv, History, Torn
<1>1. ASSUME NEW t \in Tasks, Move(t) PROVE History'
  <2>1. UNCHANGED <<wrecked, split, tears>>
    BY <1>1 DEF Move, tickVars
  <2>2. contended' \in [Tasks -> BOOLEAN]
    BY <1>1 DEF Move, Contend
  <2> QED BY <2>1, <2>2
<1>2. CASE Tick
  <2>1. wrecked' \in BOOLEAN /\ split' \in BOOLEAN /\ UNCHANGED contended
    BY <1>2 DEF Tick, Preempt, Wreck
  <2>2. tears' \in 0..MaxTears /\ (tears > 0 => tears' > 0)
    BY <1>2 DEF Tick
  <2>3. split' => split \/ pc[cur] \in Exposed
    BY <1>2 DEF Tick, Exposed
  <2>4. pc[cur] \in Exposed => tears' > 0
    BY <1>2 DEF Tick
  <2> QED BY <2>1, <2>2, <2>3, <2>4
<1> QED BY <1>1, <1>2 DEF Next

\* Only interrupt_enable opens the mask, and a task that has not given up the processor
\* in its call, nor come through task_unblock, has not come to one.
LEMMA MaskingStep ==
    ASSUME IInv, Next PROVE Masking'
<1> USE DEF IInv, Shape, History, Masking, Closed, At, Goto, Disable, Enable, Panic,
    cpuVars, lockVars, taskVars, Statements, Stuck
<1>1. ASSUME NEW t \in Tasks, Acquire(t) \/ Release(t) \/ InCall(t), Move(t) PROVE Masking'
  <2>1. /\ cur = t /\ pc[t] \notin Stuck
        /\ \A s \in Tasks : s # t => pc'[s] = pc[s]
    BY <1>1 DEF Acquire, Release, InCall, Down, Test, Enqueue, Block, Pick, Load,
       Store, Taken, Hold, Count, Up, Wake, Unblock, Status, Reopen, Reload, Restore, UpDone
  <2>2. /\ UNCHANGED shuts
        /\ \A s \in Tasks : s # t => contended'[s] = contended[s]
        /\ contended'[t] <=> pc'[t] # "own" /\ (contended[t] \/ pc[t] = "pick" \/ pc'[t] = "unblock")
    BY <1>1 DEF Move, Contend
  <2>3. cur' = cur \/ pc[t] = "pick"
    BY <1>1 DEF Acquire, Release, InCall, Down, Test, Enqueue, Block, Load,
       Store, Taken, Hold, Count, Up, Wake, Unblock, Status, Reopen, Reload, Restore, UpDone, Pick
  <2>4. \/ masked' = shuts
        \/ pc'[t] \notin Closed
        \/ pc[t] = "reopen"
        \/ masked' = masked /\ pc[t] \in Closed
    BY <1>1, <2>1 DEF Acquire, Release, InCall, Down, Test, Enqueue, Block, Pick, Load,
       Store, Taken, Hold, Count, Up, Wake, Unblock, Status, Reopen, Reload, Restore, UpDone
  <2>5. pc'[t] \in {"status", "reopen"} => pc[t] \in {"unblock", "status"}
    BY <1>1, <2>1 DEF Acquire, Release, InCall, Down, Test, Enqueue, Block, Pick, Load,
       Store, Taken, Hold, Count, Up, Wake, Unblock, Status, Reopen, Reload, Restore, UpDone,
       Resumed
  <2>6. \A s \in Tasks : s # t => ~(shuts /\ ~contended[s] /\ pc[s] \in Closed)
    BY <2>1
  <2>7. shuts /\ ~contended'[t] /\ pc'[t] \in Closed => cur' = t /\ masked'
    <3> SUFFICES ASSUME shuts, ~contended'[t], pc'[t] \in Closed PROVE cur' = t /\ masked'
      OBVIOUS
    <3>1. ~contended[t] /\ pc[t] # "pick" /\ pc[t] # "reopen" /\ cur' = cur
      BY <2>2, <2>3
    <3> QED BY <2>1, <2>4, <3>1
  <2>8. pc'[t] \in {"unblock", "status", "reopen"} => contended'[t]
    BY <2>2, <2>5
  <2>9. ASSUME NEW s \in Tasks, s # t
        PROVE  /\ ~(shuts' /\ ~contended'[s] /\ pc'[s] \in Closed)
               /\ pc'[s] \in {"unblock", "status", "reopen"} => contended'[s]
    BY <2>1, <2>2, <2>6, <2>9
  <2> QED BY <2>1, <2>2, <2>7, <2>8, <2>9
<1>2. CASE Tick
  <2>1. ~masked /\ UNCHANGED <<shuts, pc, contended>>
    BY <1>2 DEF Tick
  <2> QED BY <2>1
<1> QED BY <1>1, <1>2 DEF Next

LEMMA InitIInv == Init => IInv
<1> SUFFICES ASSUME Init PROVE IInv
  OBVIOUS
<1>1. Shape
  <2>1. waiters \in Seq(Tasks) /\ ready \in Seq(Tasks)
    BY SyncAssumption, EmptySeq DEF Init
  <2>2. depth \in [Tasks -> 0..MaxDepth]
    BY SyncAssumption DEF Init
  <2>3. pc \in [Tasks -> Statements \union Stuck]
    BY DEF Init, Statements
  <2>4. value \in Byte /\ temp \in [Tasks -> Byte]
    BY DEF Init, Byte
  <2>5. status \in [Tasks -> {"RUNNING", "READY", "BLOCKED"}]
    BY DEF Init
  <2> QED BY SyncAssumption, <2>1, <2>2, <2>3, <2>4, <2>5 DEF Init, Shape
<1>4. History
  <2>1. tears = 0 /\ tears \in 0..MaxTears
    BY SyncAssumption DEF Init
  <2>2. wrecked = FALSE /\ split = FALSE /\ contended \in [Tasks -> BOOLEAN]
    BY DEF Init
  <2> QED BY <2>1, <2>2 DEF History
<1>5. Masking
  BY DEF Init, Masking, Closed
<1>2. LockInv
  BY SyncAssumption DEF Init, Decrement, LockInv, OneInside, InsideTookValue, Decrementing, HeldOutside,
    Recorded, Inside, Holds
<1>3. WokenIsTask
  BY DEF Init, WokenIsTask
<1> QED BY <1>1, <1>2, <1>3, <1>4, <1>5 DEF IInv

LEMMA StepIInv == ASSUME IInv, [Next]_vars PROVE IInv'
<1>1. CASE Next
  <2>1. split => split'
    BY <1>1 DEF Next, Move, Tick, tickVars
  <2> QED BY <1>1, <2>1, ShapeStep, HistoryStep, WokenStep, MaskingStep, LockStep DEF IInv
<1>2. CASE UNCHANGED vars
  BY <1>2 DEF vars, cpuVars, lockVars, taskVars, tickVars, IInv, Shape, History, Torn, Masking,
    LockInv, OneInside, InsideTookValue, Decrementing, HeldOutside, Recorded, WokenIsTask,
    Inside, Holds
<1> QED BY <1>1, <1>2

LEMMA Inductive == Spec => []IInv
<1>1. Init => IInv
  BY InitIInv
<1>2. IInv /\ [Next]_vars => IInv'
  BY StepIInv
<1> QED BY <1>1, <1>2, PTL DEF Spec

-------------------------------------------------------------------------------
(* The theorems.                                                             *)

\* Two tasks never both come back from lock_acquire without a lock_release between
\* them (sync.c:29: interrupts are closed to make the semaphore atomic), unless a tick has
\* come between the test and the store of value-- (sync.c:31, 42): no other tick does it,
\* not even those that lose a wake-up or fail an assertion.
THEOREM LockExcludes == Spec => []ExcludesUnlessSplit
<1>1. IInv => ExcludesUnlessSplit
  BY DEF IInv, LockInv, OneInside, Inside, ExcludesUnlessSplit, MutualExclusion
<1> QED BY <1>1, Inductive, PTL

\* Until such a tick the holder and the count the lock records are the task that holds it
\* and its nesting, so the assertions of lock_acquire and lock_release (sync.c:72, 82, 87)
\* hold, and the value is 0 while somebody is inside.
THEOREM LockRecords == Spec => []HolderMatches
<1>1. IInv => HolderMatches
  BY DEF IInv, LockInv, Recorded, InsideTookValue, HolderMatches
<1> QED BY <1>1, Inductive, PTL

\* In Thread no tick cuts sema_down in a task that has not blocked in it, nor sema_up in
\* one that has woken nobody in it (analog_interrupt.c): a tick that tears a call finds one
\* that contended.
THEOREM UncontendedIsMasked == Spec => []UncontendedMasked
<1>1. IInv => UncontendedMasked
  <2> SUFFICES ASSUME IInv, shuts, ~contended[cur],
                      pc[cur] \in Statements \ {"own", "down", "hold", "count", "up"}
               PROVE  masked
    BY DEF UncontendedMasked
  <2>1. cur \in Tasks /\ pc[cur] \in Closed
    BY DEF IInv, Shape, Statements, Closed
  <2> QED BY <2>1 DEF IInv, Masking
<1> QED BY <1>1, Inductive, PTL

\* Type correctness: whatever tick comes, value-- and value++ stay in their byte; until one
\* comes between the test and the store the value is a bit, although it is counted
\* modulo 256, and the nesting never runs past the depth of the calls.
THEOREM TypeCorrect == Spec => []TypeOK
<1>1. ASSUME IInv, ~split PROVE repeat <= MaxDepth /\ value \in {0, 1}
  <2> USE <1>1 DEF IInv, Shape, LockInv, Recorded, Holds
  <2>1. CASE \E t \in Tasks : Holds(t)
    BY <2>1 DEF Decrementing
  <2>2. CASE \A t \in Tasks : ~Holds(t)
    BY <2>2, SyncAssumption DEF Decrementing
  <2> QED BY <2>1, <2>2
<1>2. IInv => TypeOK
  BY <1>1 DEF IInv, Shape, History, TypeOK, Byte
<1> QED BY <1>2, Inductive, PTL

-------------------------------------------------------------------------------
(* Lists without repetition.                                                 *)

\* list_append of an element that is not in the list.
LEMMA AppendNew ==
    ASSUME NEW S, NEW s \in Seq(S), NEW x \in S, IsInjective(s), x \notin Range(s)
    PROVE  /\ Append(s, x) \in Seq(S)
           /\ Append(s, x) # <<>>
           /\ IsInjective(Append(s, x))
           /\ Range(Append(s, x)) = Range(s) \union {x}
<1>1. /\ Append(s, x) \in Seq(S)
      /\ Append(s, x) # <<>>
      /\ Len(Append(s, x)) = Len(s) + 1
      /\ \A i \in 1..Len(s) : Append(s, x)[i] = s[i]
      /\ Append(s, x)[Len(s) + 1] = x
  BY AppendProperties
<1>2. /\ Len(s) \in Nat
      /\ DOMAIN s = 1..Len(s)
      /\ DOMAIN Append(s, x) = 1..(Len(s) + 1)
  BY <1>1, LenProperties
<1>3. \A i \in 1..Len(s) : s[i] # x
  BY <1>2 DEF Range
<1>4. IsInjective(Append(s, x))
  BY <1>1, <1>2, <1>3 DEF IsInjective
<1>5. Range(Append(s, x)) = Range(s) \union {x}
  BY <1>1, <1>2 DEF Range
<1> QED BY <1>1, <1>4, <1>5

\* list_pop of a list that is not empty.
LEMMA PopFront ==
    ASSUME NEW S, NEW s \in Seq(S), s # <<>>, IsInjective(s)
    PROVE  /\ Head(s) \in S
           /\ Head(s) \in Range(s)
           /\ Tail(s) \in Seq(S)
           /\ IsInjective(Tail(s))
           /\ Range(Tail(s)) = Range(s) \ {Head(s)}
<1>1. /\ Len(s) \in Nat
      /\ Len(s) # 0
      /\ DOMAIN s = 1..Len(s)
  BY LenProperties, EmptySeq
<1>2. /\ Head(s) = s[1]
      /\ Head(s) \in S
      /\ Tail(s) \in Seq(S)
      /\ Len(Tail(s)) = Len(s) - 1
      /\ \A i \in 1..Len(Tail(s)) : Tail(s)[i] = s[i + 1]
  BY HeadTailProperties, ElementOfSeq, <1>1
<1>3. DOMAIN Tail(s) = 1..(Len(s) - 1)
  BY <1>2, LenProperties
<1>4. IsInjective(Tail(s))
  BY <1>1, <1>2, <1>3 DEF IsInjective
<1>5. \A i \in 2..Len(s) : s[i] = Tail(s)[i - 1] /\ i - 1 \in DOMAIN Tail(s)
  BY <1>1, <1>2, <1>3
<1>6. Range(Tail(s)) = Range(s) \ {Head(s)}
  <2>1. ASSUME NEW x \in Range(Tail(s)) PROVE x \in Range(s) \ {Head(s)}
    <3>1. PICK i \in 1..(Len(s) - 1) : x = Tail(s)[i]
      BY <1>3 DEF Range
    <3>2. x = s[i + 1] /\ i + 1 \in 1..Len(s) /\ 1 \in 1..Len(s) /\ i + 1 # 1
      BY <3>1, <1>1, <1>2
    <3> QED BY <3>2, <1>1, <1>2 DEF IsInjective, Range
  <2>2. ASSUME NEW x \in Range(s), x # Head(s) PROVE x \in Range(Tail(s))
    <3>1. PICK i \in 1..Len(s) : x = s[i]
      BY <1>1 DEF Range
    <3>2. i \in 2..Len(s)
      BY <3>1, <2>2, <1>1, <1>2
    <3> QED BY <3>1, <3>2, <1>5 DEF Range
  <2> QED BY <2>1, <2>2
<1>7. Head(s) \in Range(s)
  BY <1>1, <1>2 DEF Range
<1> QED BY <1>2, <1>4, <1>6, <1>7

\* list_push of an element that is not in the list.
LEMMA PushNew ==
    ASSUME NEW S, NEW s \in Seq(S), IsInjective(s), NEW x \in S, x \notin Range(s)
    PROVE  /\ <<x>> \o s \in Seq(S)
           /\ IsInjective(<<x>> \o s)
           /\ Range(<<x>> \o s) = Range(s) \union {x}
<1> DEFINE r == <<x>> \o s
<1>1. <<x>> \in Seq(S) /\ Len(<<x>>) = 1 /\ <<x>>[1] = x
  OBVIOUS
<1>2. /\ Len(s) \in Nat /\ DOMAIN s = 1..Len(s)
      /\ r \in Seq(S) /\ Len(r) = 1 + Len(s)
      /\ \A i \in 1..(1 + Len(s)) : r[i] = IF i <= 1 THEN <<x>>[i] ELSE s[i - 1]
  BY <1>1, ConcatProperties, LenProperties
<1> HIDE DEF r
<1>3. DOMAIN r = 1..(1 + Len(s))
  BY <1>2, LenProperties
<1>4. r[1] = x /\ \A i \in 2..(1 + Len(s)) : i - 1 \in DOMAIN s /\ r[i] = s[i - 1]
  BY <1>1, <1>2
<1>5. \A i \in DOMAIN s : s[i] # x
  BY DEF Range
<1>6. IsInjective(r)
  <2> SUFFICES ASSUME NEW i \in DOMAIN r, NEW j \in DOMAIN r, r[i] = r[j] PROVE i = j
    BY DEF IsInjective
  <2>1. CASE i = 1 \/ j = 1
    BY <1>2, <1>3, <1>4, <1>5, <2>1
  <2>2. CASE i # 1 /\ j # 1
    <3>1. i - 1 \in DOMAIN s /\ j - 1 \in DOMAIN s /\ s[i - 1] = s[j - 1]
      BY <1>2, <1>3, <1>4, <2>2
    <3>2. i - 1 = j - 1
      BY <3>1 DEF IsInjective
    <3> QED BY <1>2, <1>3, <3>2
  <2> QED BY <2>1, <2>2
<1>7. Range(r) = Range(s) \union {x}
  <2>1. ASSUME NEW i \in DOMAIN r PROVE r[i] \in Range(s) \union {x}
    <3>1. CASE i = 1
      BY <3>1, <1>4
    <3>2. CASE i # 1
      <4>1. i \in 2..(1 + Len(s))
        BY <1>2, <1>3, <3>2
      <4> QED BY <4>1, <1>4 DEF Range
    <3> QED BY <3>1, <3>2
  <2>2. x \in Range(r)
    BY <1>2, <1>3, <1>4 DEF Range
  <2>3. ASSUME NEW i \in DOMAIN s PROVE s[i] \in Range(r)
    <3>1. i + 1 \in 2..(1 + Len(s)) /\ (i + 1) - 1 = i
      BY <1>2
    <3>2. r[i + 1] = s[i]
      BY <1>4, <3>1
    <3>3. i + 1 \in DOMAIN r
      BY <1>2, <1>3, <3>1
    <3> QED BY <3>2, <3>3 DEF Range
  <2> QED BY <2>1, <2>2, <2>3 DEF Range
<1>8. r \in Seq(S)
  BY <1>2
<1> QED BY <1>6, <1>7, <1>8 DEF r

-------------------------------------------------------------------------------
(* Who waits, and who will wake it.                                          *)

\* task_unblock has put the task on the ready list and not yet marked it.
Pushed(t) == \E s \in Tasks : pc[s] = "status" /\ woken[s] = t

Blocked(t) == status[t] = "BLOCKED" /\ ~Pushed(t)

\* Nobody but the current task is at an exposed statement.
Alone == \A t \in Tasks : pc[t] \in Exposed => t = cur

\* The ready list is what is neither current nor blocked.
Queued ==
    /\ IsInjective(ready)
    /\ cur \notin Range(ready)
    /\ \A t \in Tasks : t # cur => (t \in Range(ready) <=> ~Blocked(t))
    /\ Blocked(cur) <=> pc[cur] = "pick"

\* A blocked task looks at the value again when it is resumed; the waiters are blocked,
\* or about to be.
BlockedWaits ==
    /\ \A t \in Tasks : Blocked(t) => pc[t] \in {"test", "pick"}
    /\ IsInjective(waiters)
    /\ \A t \in Range(waiters) : Blocked(t) \/ pc[t] = "block"
    /\ \A t \in Tasks : pc[t] \in {"block", "pick"} => t \in Range(waiters)

\* sema_up takes a blocked task off the waiters, and no other task is left blocked
\* without being one of them.
Woken ==
    /\ \A t \in Tasks : pc[t] = "unblock" =>
        /\ woken[t] \in Tasks /\ Blocked(woken[t])
        /\ woken[t] # cur /\ woken[t] \notin Range(waiters)
    /\ \A t \in Tasks : Blocked(t) =>
        t \in Range(waiters) \/ \E s \in Tasks : pc[s] = "unblock" /\ woken[s] = t

\* The value is 0 only while somebody is inside, and a task blocks only then.
Taker ==
    /\ value = 0 => \E t \in Tasks : Inside(t)
    /\ \A t \in Tasks : pc[t] \in {"enqueue", "block", "pick"} => value = 0
    /\ \A t \in Tasks : pc[t] = "raised" => value = 1

\* What task_unblock has pushed is another task, which will look at the value.
Pushing ==
    \A t \in Tasks : pc[t] = "status" =>
        woken[t] \in Tasks /\ woken[t] # cur /\ pc[woken[t]] = "test"

\* Whoever waits, somebody is inside who will wake it, or on the way in; sema_up leaves
\* nobody waiting without a woken task that looks at the value again.
Coming(t) ==
    Inside(t) \/ pc[t] \in {"load", "store"} \/ (pc[t] = "test" /\ ~Blocked(t))
WakeUpComes == waiters # <<>> => \E t \in Tasks : Coming(t)
Raising == {"status", "reopen", "reload", "restore", "raised"}
WokenLooks ==
    (\E t \in Tasks : pc[t] \in Raising) =>
        waiters = <<>> \/ \E s \in Tasks : pc[s] = "test" /\ ~Blocked(s)

NeverStuck == \A t \in Tasks : pc[t] \notin Stuck

\* WaitersBlocked and the assertions rest on each other: a task is found in the list it
\* should be in because it blocked in one piece, and it blocked in one piece because
\* no assertion stopped it half-way.
WInv ==
    /\ Alone
    /\ Queued
    /\ BlockedWaits
    /\ Woken
    /\ Pushing
    /\ Taker
    /\ WakeUpComes
    /\ WokenLooks
    /\ NeverStuck

\* Outside task_unblock a task is blocked if its status says so.
LEMMA Unpushed ==
    (\A s \in Tasks : pc[s] # "status") =>
        \A t \in Tasks : Blocked(t) <=> status[t] = "BLOCKED"
BY DEF Blocked, Pushed

LEMMA UnpushedNext ==
    (\A s \in Tasks : pc'[s] # "status") =>
        \A t \in Tasks : Blocked(t)' <=> status'[t] = "BLOCKED"
BY DEF Blocked, Pushed

\* What a step of a task knows: it runs, it is not blocked but in block_task_schedule,
\* and nobody else is in the middle of a call.
LEMMA Facts ==
    ASSUME IInv, LockInv, WInv
    PROVE  /\ cur \in Tasks /\ Nobody \notin Tasks
           /\ pc \in [Tasks -> Statements \union Stuck]
           /\ status \in [Tasks -> {"RUNNING", "READY", "BLOCKED"}]
           /\ woken \in [Tasks -> Tasks \union {Nobody}]
           /\ Range(ready) \subseteq Tasks /\ Range(waiters) \subseteq Tasks
           /\ \A t \in Tasks : t # cur => pc[t] \notin Exposed
           /\ pc[cur] # "block" /\ pc[cur] # "pick" => cur \notin Range(waiters)
           /\ pc[cur] # "status" => \A t \in Tasks : pc[t] # "status"
           /\ \A t \in Tasks : Inside(t) => ~Blocked(t)
<1> USE DEF IInv, Shape, WInv
<1>1. Range(ready) \subseteq Tasks /\ Range(waiters) \subseteq Tasks
  BY RangeOfSeq
<1>2. \A t \in Tasks : t # cur => pc[t] \notin Exposed
  BY DEF Alone
<1>3. pc[cur] # "block" /\ pc[cur] # "pick" => cur \notin Range(waiters)
  BY DEF Queued, BlockedWaits
<1>4. \A t \in Tasks : Inside(t) => ~Blocked(t)
  BY DEF BlockedWaits, LockInv, HeldOutside, Inside
<1>5. pc[cur] # "status" => \A t \in Tasks : pc[t] # "status"
  BY DEF Alone, Exposed, Decrement
<1> QED BY <1>1, <1>2, <1>3, <1>4, <1>5, SyncAssumption

\* A statement that only goes on to the next one: who is blocked, ready, waiting and
\* woken stays what it is.
LEMMA Moves ==
    ASSUME IInv, LockInv, WInv, NEW t \in Tasks, NEW there, t = cur,
           pc[t] \notin {"block", "pick", "unblock", "status"},
           there \notin {"block", "pick", "unblock", "status"} \union Stuck,
           pc' = [pc EXCEPT ![t] = there],
           UNCHANGED <<cpuVars, waiters, woken>>
    PROVE  /\ Alone' /\ Queued' /\ BlockedWaits' /\ Woken' /\ Pushing' /\ NeverStuck'
           /\ pc'[t] = there /\ \A s \in Tasks : s # t => pc'[s] = pc[s]
           /\ \A s \in Tasks : Blocked(s)' <=> Blocked(s)
<1> USE DEF WInv
<1>0. /\ pc'[t] = there /\ \A s \in Tasks : s # t => pc'[s] = pc[s]
      /\ \A s \in Tasks : pc[s] # "status" /\ pc'[s] # "status"
  BY Facts
<1>1. /\ pc'[t] = there /\ \A s \in Tasks : s # t => pc'[s] = pc[s]
      /\ \A s \in Tasks : Blocked(s)' <=> Blocked(s)
      /\ ~Blocked(t) /\ t \notin Range(waiters)
  BY <1>0, Facts, Unpushed, UnpushedNext DEF cpuVars, Queued
<1>2. UNCHANGED <<cur, ready, waiters, woken>>
  BY DEF cpuVars
<1>3. Alone' /\ NeverStuck'
  BY <1>1, <1>2 DEF Alone, NeverStuck
<1>4. Queued'
  BY <1>1, <1>2 DEF Queued
<1>5. BlockedWaits'
  BY <1>1, <1>2, Facts DEF BlockedWaits
<1>6. Woken'
  <2>1. \A s \in Tasks : pc'[s] = "unblock" <=> pc[s] = "unblock"
    BY <1>1
  <2>2. \A s \in Tasks : pc[s] = "unblock" => Blocked(woken[s])' /\ woken[s] \in Tasks
    BY <1>1 DEF Woken
  <2> QED BY <1>1, <1>2, <2>1, <2>2 DEF Woken
<1> QED BY <1>0, <1>1, <1>3, <1>4, <1>5, <1>6 DEF Pushing

\* ... and, if the value stays too and nobody comes in or goes out, all of WInv does.
LEMMA MoveOn ==
    ASSUME IInv, LockInv, WInv, NEW t \in Tasks, NEW there, t = cur,
           pc[t] \notin {"block", "pick", "unblock", "status"},
           there \notin {"enqueue", "block", "pick", "unblock", "status", "raised"} \union Stuck,
           pc' = [pc EXCEPT ![t] = there],
           UNCHANGED <<cpuVars, value, waiters, woken>>,
           \A s \in Tasks : Inside(s)' <=> Inside(s),
           Coming(t) => Coming(t)',
           there \in Raising => pc[t] \in Raising \/ waiters = <<>>
    PROVE  WInv'
<1> USE DEF WInv
<1>1. /\ Alone' /\ Queued' /\ BlockedWaits' /\ Woken' /\ Pushing' /\ NeverStuck'
      /\ pc'[t] = there /\ \A s \in Tasks : s # t => pc'[s] = pc[s]
      /\ \A s \in Tasks : Blocked(s)' <=> Blocked(s)
  BY Moves
<1>2. Taker'
  BY <1>1 DEF Taker
<1>3. WakeUpComes'
  <2>1. \A s \in Tasks : Coming(s) => Coming(s)'
    BY <1>1 DEF Coming
  <2> QED BY <2>1 DEF WakeUpComes
<1>4. WokenLooks'
  <2> SUFFICES ASSUME NEW s \in Tasks, pc'[s] \in Raising, waiters # <<>>
               PROVE  \E r \in Tasks : pc'[r] = "test" /\ ~Blocked(r)'
    BY DEF WokenLooks
  <2>1. s = t
    BY <1>1, Facts DEF Raising, Exposed, Decrement
  <2>2. pc[t] \in Raising
    BY <2>1, <1>1
  <2>3. PICK r \in Tasks : pc[r] = "test" /\ ~Blocked(r)
    BY <2>2 DEF WokenLooks
  <2>4. r # t
    BY <2>2, <2>3 DEF Raising
  <2> QED BY <1>1, <2>3, <2>4
<1> QED BY <1>1, <1>2, <1>3, <1>4

\* lock_acquire, lock_release and the statements of the semaphore that move on.
LEMMA MoveSteps ==
    ASSUME IInv, LockInv, WInv, NEW t \in Tasks,
           \/ Acquire(t) \/ Down(t) \/ Load(t) \/ Taken(t) \/ Hold(t) \/ Count(t)
           \/ Release(t) \/ Up(t) \/ Reopen(t) \/ Reload(t) \/ UpDone(t)
    PROVE  WInv'
<1> USE DEF At, Goto, Coming, Raising, Stuck, lockVars, taskVars
<1>0. /\ pc \in [Tasks -> Statements \union Stuck] /\ depth \in [Tasks -> 0..MaxDepth]
      /\ repeat \in Nat /\ value \in {0, 1} /\ Nobody \notin Tasks
  BY Facts DEF IInv, Shape, LockInv, Decrementing
<1>1. CASE Acquire(t)
  <2>1. t = cur /\ pc[t] = "own" /\ UNCHANGED <<cpuVars, value, waiters, woken>>
    BY <1>1 DEF Acquire
  <2>2. CASE holder = t
    <3>1. Holds(t)
      BY <1>0, <2>1, <2>2 DEF IInv, LockInv, Recorded
    <3>2. Holds(t)' /\ \A s \in Tasks : s # t => depth'[s] = depth[s]
      BY <1>0, <1>1, <2>2, <3>1 DEF Acquire, Holds
    <3>3. UNCHANGED pc /\ pc' = [pc EXCEPT ![t] = "own"]
      BY <1>0, <1>1, <2>1, <2>2 DEF Acquire
    <3>4. \A s \in Tasks : Inside(s)' <=> Inside(s)
      BY <3>1, <3>2, <3>3 DEF Inside, Holds
    <3> QED BY <2>1, <3>2, <3>3, <3>4, MoveOn
  <2>3. CASE holder # t
    <3>1. pc' = [pc EXCEPT ![t] = "down"] /\ UNCHANGED depth
      BY <1>1, <2>3 DEF Acquire
    <3>2. \A s \in Tasks : Inside(s)' <=> Inside(s)
      BY <1>0, <2>1, <3>1 DEF Inside, Holds
    <3> QED BY <2>1, <3>1, <3>2, MoveOn
  <2> QED BY <2>2, <2>3
<1>2. CASE Down(t)
  <2>1. /\ t = cur /\ pc[t] = "down" /\ pc' = [pc EXCEPT ![t] = "test"]
        /\ UNCHANGED <<cpuVars, value, waiters, woken, depth>>
    BY <1>2 DEF Down
  <2>2. \A s \in Tasks : Inside(s)' <=> Inside(s)
    BY <1>0, <2>1 DEF Inside, Holds
  <2> QED BY <2>1, <2>2, MoveOn
<1>3. CASE Load(t)
  <2>1. /\ t = cur /\ pc[t] = "load" /\ pc' = [pc EXCEPT ![t] = "store"]
        /\ UNCHANGED <<cpuVars, value, waiters, woken, depth>>
    BY <1>3 DEF Load
  <2>2. pc'[t] = "store" /\ \A s \in Tasks : Inside(s)' <=> Inside(s)
    BY <1>0, <2>1 DEF Inside, Holds
  <2> QED BY <2>1, <2>2, MoveOn
<1>4. CASE Taken(t)
  <2>1. t = cur /\ pc[t] = "taken" /\ Inside(t)
    BY <1>4 DEF Taken, Inside
  <2>2. value = 0
    BY <2>1 DEF IInv, LockInv, InsideTookValue
  <2>3. /\ pc' = [pc EXCEPT ![t] = "hold"]
        /\ UNCHANGED <<cpuVars, value, waiters, woken, depth>>
    BY <1>4, <2>2 DEF Taken
  <2>4. \A s \in Tasks : Inside(s)' <=> Inside(s)
    BY <1>0, <2>1, <2>3 DEF Inside, Holds
  <2> QED BY <2>1, <2>3, <2>4, MoveOn
<1>5. CASE Hold(t)
  <2>1. t = cur /\ pc[t] = "hold" /\ Inside(t)
    BY <1>5 DEF Hold, Inside
  <2>2. \A s \in Tasks : ~Holds(s)
    BY <2>1 DEF IInv, LockInv, OneInside, HeldOutside, Inside
  <2>3. repeat = 0
    BY <2>2 DEF IInv, LockInv, Recorded
  <2>4. /\ pc' = [pc EXCEPT ![t] = "count"]
        /\ UNCHANGED <<cpuVars, value, waiters, woken, depth>>
    BY <1>5, <2>3 DEF Hold
  <2>5. \A s \in Tasks : Inside(s)' <=> Inside(s)
    BY <1>0, <2>1, <2>4 DEF Inside, Holds
  <2> QED BY <2>1, <2>4, <2>5, MoveOn
<1>6. CASE Count(t)
  <2>1. /\ t = cur /\ pc[t] = "count" /\ pc' = [pc EXCEPT ![t] = "own"]
        /\ depth' = [depth EXCEPT ![t] = 1]
        /\ UNCHANGED <<cpuVars, value, waiters, woken>>
    BY <1>6 DEF Count
  <2>2. Holds(t)' /\ \A s \in Tasks : s # t => depth'[s] = depth[s]
    BY <1>0, <2>1 DEF Holds
  <2>3. \A s \in Tasks : Inside(s)' <=> Inside(s)
    BY <1>0, <2>1, <2>2 DEF Inside, Holds
  <2>4. Inside(t)'
    BY <2>2 DEF Inside
  <2> QED BY <2>1, <2>3, <2>4, MoveOn
<1>7. CASE Release(t)
  <2>1. t = cur /\ pc[t] = "own" /\ Holds(t) /\ holder = t /\ repeat = depth[t] /\ repeat # 0
    BY <1>0, <1>7 DEF Release, Holds, IInv, LockInv, Recorded
  <2>2. depth' = [depth EXCEPT ![t] = depth[t] - 1] /\ UNCHANGED <<cpuVars, value, waiters, woken>>
    BY <1>7, <2>1 DEF Release
  <2>3. CASE repeat = 1
    <3>1. pc' = [pc EXCEPT ![t] = "up"]
      BY <1>7, <2>1, <2>3 DEF Release, LastRelease
    <3>2. \A s \in Tasks : Inside(s)' <=> Inside(s)
      BY <1>0, <2>1, <2>2, <3>1 DEF Inside, Holds
    <3>3. Inside(t)'
      BY <1>0, <3>1 DEF Inside
    <3> QED BY <2>1, <2>2, <3>1, <3>2, <3>3, MoveOn
  <2>4. CASE repeat # 1
    <3>1. UNCHANGED pc /\ pc' = [pc EXCEPT ![t] = "own"]
      BY <1>0, <1>7, <2>1, <2>4 DEF Release, LastRelease
    <3>2. Holds(t)' /\ \A s \in Tasks : s # t => depth'[s] = depth[s]
      BY <1>0, <2>1, <2>2, <2>4 DEF Holds
    <3>3. \A s \in Tasks : Inside(s)' <=> Inside(s)
      BY <2>1, <3>1, <3>2 DEF Inside, Holds
    <3>4. Inside(t)'
      BY <3>2 DEF Inside
    <3> QED BY <2>1, <2>2, <3>1, <3>3, <3>4, MoveOn
  <2> QED BY <2>3, <2>4
<1>8. CASE Up(t)
  <2>1. /\ t = cur /\ pc[t] = "up" /\ pc' = [pc EXCEPT ![t] = "wake"]
        /\ UNCHANGED <<cpuVars, value, waiters, woken, depth>>
    BY <1>8 DEF Up
  <2>2. \A s \in Tasks : Inside(s)' <=> Inside(s)
    BY <1>0, <2>1 DEF Inside, Holds
  <2> QED BY <2>1, <2>2, MoveOn
<1>9. CASE Reopen(t)
  <2>1. /\ t = cur /\ pc[t] = "reopen" /\ pc' = [pc EXCEPT ![t] = "reload"]
        /\ UNCHANGED <<cpuVars, value, waiters, woken, depth>>
    BY <1>9 DEF Reopen
  <2>2. \A s \in Tasks : Inside(s)' <=> Inside(s)
    BY <1>0, <2>1 DEF Inside, Holds
  <2> QED BY <2>1, <2>2, MoveOn
<1>10. CASE Reload(t)
  <2>1. /\ t = cur /\ pc[t] = "reload" /\ pc' = [pc EXCEPT ![t] = "restore"]
        /\ UNCHANGED <<cpuVars, value, waiters, woken, depth>>
    BY <1>10 DEF Reload
  <2>2. \A s \in Tasks : Inside(s)' <=> Inside(s)
    BY <1>0, <2>1 DEF Inside, Holds
  <2> QED BY <2>1, <2>2, MoveOn
<1>11. CASE UpDone(t)
  <2>1. t = cur /\ pc[t] = "raised" /\ value = 1
    BY <1>11 DEF UpDone, WInv, Taker
  <2>2. /\ pc' = [pc EXCEPT ![t] = "own"]
        /\ UNCHANGED <<cpuVars, value, waiters, woken, depth>>
    BY <1>11, <2>1 DEF UpDone
  <2>3. \A s \in Tasks : Inside(s)' <=> Inside(s)
    BY <1>0, <2>1, <2>2 DEF Inside, Holds
  <2> QED BY <2>1, <2>2, <2>3, MoveOn
<1> QED BY <1>1, <1>2, <1>3, <1>4, <1>5, <1>6, <1>7, <1>8, <1>9, <1>10, <1>11

\* The loop of sema_down looks at the value: 0 only while somebody is inside.
LEMMA TestStep ==
    ASSUME IInv, LockInv, WInv, NEW t \in Tasks, Test(t) PROVE WInv'
<1> USE DEF WInv
<1>1. /\ t = cur /\ pc[t] = "test"
      /\ UNCHANGED <<cpuVars, value, waiters, woken, depth>>
      /\ pc \in [Tasks -> Statements \union Stuck]
  BY Facts DEF Test, At, lockVars, taskVars
<1>2. CASE value = 0
  <2>1. pc' = [pc EXCEPT ![t] = "enqueue"]
    BY <1>2 DEF Test, Goto
  <2>2. /\ Alone' /\ Queued' /\ BlockedWaits' /\ Woken' /\ Pushing' /\ NeverStuck'
        /\ pc'[t] = "enqueue" /\ \A s \in Tasks : s # t => pc'[s] = pc[s]
    BY <1>1, <2>1, Moves DEF Stuck
  <2>3. \A s \in Tasks : Inside(s)' <=> Inside(s)
    BY <1>1, <2>2 DEF Inside, Holds
  <2>4. \E s \in Tasks : Inside(s)'
    BY <1>2, <2>3 DEF Taker
  <2>5. \A s \in Tasks : pc'[s] \notin Raising
    BY <1>1, <2>2, Facts DEF Raising, Exposed, Decrement
  <2>6. Taker'
    BY <1>1, <1>2, <2>4, <2>5 DEF Taker, Raising
  <2> QED BY <2>2, <2>4, <2>5, <2>6 DEF WakeUpComes, WokenLooks, Coming
<1>3. CASE value # 0
  <2>1. pc' = [pc EXCEPT ![t] = "load"]
    BY <1>3 DEF Test, Goto
  <2>2. \A s \in Tasks : Inside(s)' <=> Inside(s)
    BY <1>1, <2>1 DEF Inside, Holds
  <2>3. Coming(t)'
    BY <1>1, <2>1 DEF Coming
  <2> QED BY <1>1, <2>1, <2>2, <2>3, MoveOn DEF Raising, Stuck
<1> QED BY <1>2, <1>3

\* A task is not in the list of waiters when sema_down puts it there.
LEMMA EnqueueStep ==
    ASSUME IInv, LockInv, WInv, NEW t \in Tasks, Enqueue(t) PROVE WInv'
<1> USE DEF WInv
<1>1. /\ t = cur /\ pc[t] = "enqueue" /\ t \notin Range(waiters) /\ ~Blocked(t)
      /\ pc \in [Tasks -> Statements \union Stuck]
      /\ waiters \in Seq(Tasks) /\ IsInjective(waiters)
  BY Facts DEF Enqueue, At, IInv, Shape, Queued, BlockedWaits
<1>2. /\ waiters' = Append(waiters, t) /\ pc' = [pc EXCEPT ![t] = "block"]
      /\ UNCHANGED <<cur, ready, status, value, woken, depth>>
  BY <1>1 DEF Enqueue, Goto, cpuVars, taskVars
<1>3. IsInjective(waiters') /\ Range(waiters') = Range(waiters) \union {t}
  BY <1>1, <1>2, AppendNew
<1>0. /\ pc'[t] = "block" /\ \A s \in Tasks : s # t => pc'[s] = pc[s]
      /\ \A s \in Tasks : pc[s] # "status" /\ pc'[s] # "status"
  BY <1>1, <1>2, Facts
<1>4. /\ pc'[t] = "block" /\ \A s \in Tasks : s # t => pc'[s] = pc[s]
      /\ \A s \in Tasks : Blocked(s)' <=> Blocked(s)
  BY <1>0, <1>2, Unpushed, UnpushedNext
<1>5. \A s \in Tasks : Inside(s)' <=> Inside(s)
  BY <1>1, <1>2, <1>4 DEF Inside, Holds
<1>6. \E s \in Tasks : Inside(s)'
  BY <1>1, <1>5 DEF Taker
<1>7. \A s \in Tasks : pc'[s] \notin Raising
  BY <1>1, <1>4, Facts DEF Raising, Exposed, Decrement
<1>8. Alone' /\ NeverStuck'
  BY <1>1, <1>2, <1>4 DEF Alone, NeverStuck, Stuck
<1>9. Queued'
  BY <1>1, <1>2, <1>4 DEF Queued
<1>10. BlockedWaits'
  BY <1>1, <1>3, <1>4, Facts DEF BlockedWaits
<1>11. Woken'
  <2>1. \A s \in Tasks : pc'[s] = "unblock" <=> pc[s] = "unblock"
    BY <1>1, <1>4
  <2> QED BY <1>1, <1>2, <1>3, <1>4, <2>1 DEF Woken
<1>12. Taker'
  BY <1>1, <1>2, <1>4, <1>6, <1>7 DEF Taker, Raising
<1>20. Pushing'
  BY <1>0 DEF Pushing
<1> QED BY <1>20, <1>6, <1>7, <1>8, <1>9, <1>10, <1>11, <1>12 DEF WakeUpComes, WokenLooks, Coming

\* task_block writes BLOCKED into a task that is in the list of waiters.
LEMMA BlockStep ==
    ASSUME IInv, LockInv, WInv, NEW t \in Tasks, Block(t) PROVE WInv'
<1> USE DEF WInv
<1>1. /\ t = cur /\ pc[t] = "block" /\ t \in Range(waiters)
      /\ pc \in [Tasks -> Statements \union Stuck]
      /\ status \in [Tasks -> {"RUNNING", "READY", "BLOCKED"}]
  BY Facts DEF Block, At, BlockedWaits
<1>2. /\ status' = [status EXCEPT ![t] = "BLOCKED"] /\ pc' = [pc EXCEPT ![t] = "pick"]
      /\ UNCHANGED <<cur, ready, value, waiters, woken, depth>>
  BY DEF Block, Goto, lockVars, taskVars
<1>0. /\ pc'[t] = "pick" /\ \A s \in Tasks : s # t => pc'[s] = pc[s]
      /\ \A s \in Tasks : pc[s] # "status" /\ pc'[s] # "status"
  BY <1>1, <1>2, Facts
<1>3. /\ pc'[t] = "pick" /\ \A s \in Tasks : s # t => pc'[s] = pc[s]
      /\ Blocked(t)' /\ \A s \in Tasks : s # t => (Blocked(s)' <=> Blocked(s))
  BY <1>0, <1>1, <1>2, Unpushed, UnpushedNext
<1>4. \A s \in Tasks : Inside(s)' <=> Inside(s)
  BY <1>1, <1>2, <1>3 DEF Inside, Holds
<1>5. \E s \in Tasks : Inside(s)'
  BY <1>1, <1>4 DEF Taker
<1>6. \A s \in Tasks : pc'[s] \notin Raising
  BY <1>1, <1>3, Facts DEF Raising, Exposed, Decrement
<1>7. Alone' /\ NeverStuck'
  BY <1>1, <1>2, <1>3 DEF Alone, NeverStuck, Stuck
<1>8. Queued'
  BY <1>1, <1>2, <1>3 DEF Queued
<1>9. BlockedWaits'
  BY <1>1, <1>2, <1>3, Facts DEF BlockedWaits
<1>10. Woken'
  <2>1. \A s \in Tasks : pc'[s] = "unblock" <=> pc[s] = "unblock"
    BY <1>1, <1>3
  <2> QED BY <1>1, <1>2, <1>3, <2>1 DEF Woken
<1>11. Taker'
  BY <1>1, <1>2, <1>3, <1>5, <1>6 DEF Taker, Raising
<1>20. Pushing'
  BY <1>0 DEF Pushing
<1> QED BY <1>20, <1>5, <1>6, <1>7, <1>8, <1>9, <1>10, <1>11 DEF WakeUpComes, WokenLooks, Coming

\* A task that blocks finds a ready one: the task inside the lock is not blocked.
LEMMA PickStep ==
    ASSUME IInv, LockInv, WInv, NEW t \in Tasks, Pick(t) PROVE WInv'
<1> USE DEF WInv
<1>1. /\ t = cur /\ pc[t] = "pick" /\ value = 0
      /\ pc \in [Tasks -> Statements \union Stuck]
      /\ status \in [Tasks -> {"RUNNING", "READY", "BLOCKED"}]
      /\ ready \in Seq(Tasks) /\ IsInjective(ready)
  BY Facts DEF Pick, At, Taker, IInv, Shape, Queued
<1>2. ready # <<>>
  <2>1. PICK s \in Tasks : Inside(s)
    BY <1>1 DEF Taker
  <2>2. s # cur
    BY <1>1, <2>1 DEF Inside, IInv, LockInv, HeldOutside
  <2>3. s \in Range(ready)
    BY <2>1, <2>2, Facts DEF Queued
  <2> QED BY <2>3 DEF Range
<1> DEFINE h == Head(ready)
<1>3. /\ cur' = h /\ ready' = Tail(ready) /\ status' = [status EXCEPT ![h] = "RUNNING"]
      /\ pc' = [pc EXCEPT ![t] = "test"]
      /\ UNCHANGED <<value, waiters, woken, depth>>
  BY <1>2 DEF Pick, Goto, Resumed, lockVars, taskVars
<1>4. /\ h \in Tasks /\ h \in Range(ready)
      /\ IsInjective(ready') /\ Range(ready') = Range(ready) \ {h}
  BY <1>1, <1>2, <1>3, PopFront
<1> HIDE DEF h
<1>5. h # t /\ ~Blocked(h) /\ pc[h] \notin Exposed /\ Blocked(t) /\ t \notin Range(ready)
  BY <1>1, <1>4, Facts DEF Queued
<1>0. /\ pc'[t] = "test" /\ \A s \in Tasks : s # t => pc'[s] = pc[s]
      /\ \A s \in Tasks : pc[s] # "status" /\ pc'[s] # "status"
  BY <1>1, <1>3, Facts
<1>6. /\ pc'[t] = "test" /\ \A s \in Tasks : s # t => pc'[s] = pc[s]
      /\ \A s \in Tasks : Blocked(s)' <=> Blocked(s)
  BY <1>0, <1>1, <1>3, <1>4, <1>5, Unpushed, UnpushedNext
<1>7. \A s \in Tasks : pc'[s] \notin Exposed
  BY <1>1, <1>6, Facts DEF Exposed, Decrement
<1>8. \A s \in Tasks : Inside(s)' <=> Inside(s)
  BY <1>1, <1>3, <1>6 DEF Inside, Holds
<1>9. \E s \in Tasks : Inside(s)'
  BY <1>1, <1>8 DEF Taker
<1>10. Alone' /\ NeverStuck'
  BY <1>1, <1>6, <1>7 DEF Alone, NeverStuck, Stuck
<1>11. Queued'
  <2>1. \A s \in Tasks : s # h => (s \in Range(ready') <=> ~Blocked(s)')
    BY <1>1, <1>4, <1>5, <1>6 DEF Queued
  <2>2. status'[h] # "BLOCKED" /\ pc'[h] # "pick" /\ h \notin Range(ready')
    BY <1>1, <1>3, <1>4, <1>7 DEF Exposed, Decrement
  <2> QED BY <1>3, <1>4, <2>1, <2>2 DEF Queued, Blocked
<1>12. BlockedWaits'
  <2>1. \A s \in Range(waiters) : Blocked(s)
    BY <1>1, <1>5, Facts DEF BlockedWaits, Exposed, Decrement
  <2>2. \A s \in Tasks : Blocked(s) => pc'[s] \in {"test", "pick"}
    BY <1>6 DEF BlockedWaits
  <2> QED BY <1>3, <1>6, <1>7, <2>1, <2>2, Facts DEF BlockedWaits, Exposed, Decrement
<1>13. Woken'
  <2>1. \A s \in Tasks : pc'[s] = "unblock" <=> pc[s] = "unblock"
    BY <1>1, <1>6
  <2>2. \A s \in Tasks : pc[s] = "unblock" => Blocked(woken[s]) /\ woken[s] # h
    BY <1>5 DEF Woken
  <2> QED BY <1>3, <1>6, <2>1, <2>2 DEF Woken
<1>14. Taker'
  BY <1>1, <1>3, <1>7, <1>9 DEF Taker, Exposed, Decrement
<1>20. Pushing'
  BY <1>0 DEF Pushing
<1> QED BY <1>20, <1>7, <1>9, <1>10, <1>11, <1>12, <1>13, <1>14
  DEF WakeUpComes, WokenLooks, Coming, Exposed, Decrement, Raising

\* value--: the task is inside from here on.
LEMMA StoreStep ==
    ASSUME IInv, LockInv, WInv, NEW t \in Tasks, Store(t) PROVE WInv'
<1> USE DEF WInv
<1>1. /\ t = cur /\ pc[t] = "store" /\ temp[t] = 1
      /\ pc' = [pc EXCEPT ![t] = "taken"] /\ UNCHANGED <<cpuVars, waiters, woken>>
  BY Facts DEF Store, At, Goto, IInv, LockInv, Decrementing
<1>2. value' = 0
  BY <1>1 DEF Store
<1>3. /\ Alone' /\ Queued' /\ BlockedWaits' /\ Woken' /\ Pushing' /\ NeverStuck'
      /\ pc'[t] = "taken" /\ \A s \in Tasks : s # t => pc'[s] = pc[s]
  BY <1>1, Moves DEF Stuck
<1>4. Inside(t)'
  BY <1>3 DEF Inside
<1>5. \A s \in Tasks : pc'[s] \notin Raising
  BY <1>1, <1>3, Facts DEF Raising, Exposed, Decrement
<1>6. Taker'
  BY <1>2, <1>4, <1>5 DEF Taker, Raising
<1> QED BY <1>3, <1>4, <1>5, <1>6 DEF WakeUpComes, WokenLooks, Coming

\* value++: who is left waiting is looked after by the task that was woken.
LEMMA RestoreStep ==
    ASSUME IInv, LockInv, WInv, NEW t \in Tasks, Restore(t) PROVE WInv'
<1> USE DEF WInv
<1>1. /\ t = cur /\ pc[t] = "restore" /\ temp[t] = 0
      /\ pc' = [pc EXCEPT ![t] = "raised"] /\ UNCHANGED <<cpuVars, waiters, woken>>
  BY Facts DEF Restore, At, Goto, IInv, LockInv, Decrementing
<1>2. value' = 1
  BY <1>1 DEF Restore, Raised
<1>3. /\ Alone' /\ Queued' /\ BlockedWaits' /\ Woken' /\ Pushing' /\ NeverStuck'
      /\ pc'[t] = "raised" /\ \A s \in Tasks : s # t => pc'[s] = pc[s]
      /\ \A s \in Tasks : Blocked(s)' <=> Blocked(s)
  BY <1>1, Moves DEF Stuck
<1>4. Taker'
  BY <1>1, <1>2, <1>3, Facts DEF Taker, Exposed, Decrement
<1>5. waiters = <<>> \/ \E s \in Tasks : pc'[s] = "test" /\ ~Blocked(s)'
  BY <1>1, <1>3 DEF WokenLooks, Raising
<1> QED BY <1>1, <1>3, <1>4, <1>5 DEF WakeUpComes, WokenLooks, Coming

\* sema_up takes the first waiter, which is blocked.
LEMMA WakeStep ==
    ASSUME IInv, LockInv, WInv, NEW t \in Tasks, Wake(t) PROVE WInv'
<1> USE DEF WInv
<1>1. /\ t = cur /\ pc[t] = "wake" /\ Inside(t)
      /\ pc \in [Tasks -> Statements \union Stuck]
      /\ woken \in [Tasks -> Tasks \union {Nobody}]
      /\ waiters \in Seq(Tasks) /\ IsInjective(waiters)
  BY Facts DEF Wake, At, Inside, IInv, Shape, BlockedWaits
<1>2. value = 0
  BY <1>1 DEF IInv, LockInv, InsideTookValue
<1>3. CASE waiters = <<>>
  <2>1. /\ pc' = [pc EXCEPT ![t] = "reload"]
        /\ UNCHANGED <<cpuVars, value, waiters, woken, depth>>
    BY <1>2, <1>3 DEF Wake, Goto, SomebodyWaits
  <2>2. \A s \in Tasks : Inside(s)' <=> Inside(s)
    BY <1>1, <2>1 DEF Inside, Holds
  <2>3. Coming(t)'
    BY <1>1, <2>2 DEF Coming
  <2> QED BY <1>1, <1>3, <2>1, <2>2, <2>3, MoveOn DEF Stuck
<1>4. CASE waiters # <<>>
  <2> DEFINE h == Head(waiters)
  <2>1. /\ woken' = [woken EXCEPT ![t] = h] /\ waiters' = Tail(waiters)
        /\ pc' = [pc EXCEPT ![t] = "unblock"]
        /\ UNCHANGED <<cur, ready, status, value, depth>>
    BY <1>2, <1>4 DEF Wake, Goto, SomebodyWaits, NextWaiter, cpuVars
  <2>2. /\ h \in Tasks /\ h \in Range(waiters)
        /\ IsInjective(waiters') /\ Range(waiters') = Range(waiters) \ {h}
    BY <1>1, <1>4, <2>1, PopFront
  <2> HIDE DEF h
  <2>0. /\ pc'[t] = "unblock" /\ \A s \in Tasks : s # t => pc'[s] = pc[s]
        /\ \A s \in Tasks : pc[s] # "status" /\ pc'[s] # "status"
    BY <1>1, <2>1, Facts
  <2>3. /\ pc'[t] = "unblock" /\ \A s \in Tasks : s # t => pc'[s] = pc[s]
        /\ woken'[t] = h /\ \A s \in Tasks : s # t => woken'[s] = woken[s]
        /\ \A s \in Tasks : Blocked(s)' <=> Blocked(s)
    BY <1>1, <2>0, <2>1, Unpushed, UnpushedNext
  <2>4. Blocked(h) /\ h # cur
    BY <1>1, <2>2, Facts DEF BlockedWaits, Exposed, Decrement
  <2>5. \A s \in Tasks : pc'[s] \notin Exposed
    BY <1>1, <2>3, Facts DEF Exposed, Decrement
  <2>6. \A s \in Tasks : Inside(s)' <=> Inside(s)
    BY <1>1, <2>1, <2>3 DEF Inside, Holds
  <2>7. Alone' /\ NeverStuck'
    BY <1>1, <2>3, <2>5 DEF Alone, NeverStuck, Stuck
  <2>8. Queued'
    BY <1>1, <2>1, <2>3 DEF Queued
  <2>9. BlockedWaits'
    <3>1. \A s \in Tasks : Blocked(s)' => pc'[s] \in {"test", "pick"}
      BY <1>1, <2>3, Facts DEF BlockedWaits
    <3>2. \A s \in Range(waiters') : Blocked(s)'
      BY <1>1, <2>2, <2>3, Facts DEF BlockedWaits, Exposed, Decrement
    <3> QED BY <2>2, <2>5, <3>1, <3>2 DEF BlockedWaits, Exposed, Decrement
  <2>10. Woken'
    <3>1. ASSUME NEW s \in Tasks, pc'[s] = "unblock"
          PROVE  /\ woken'[s] \in Tasks /\ Blocked(woken'[s]) /\ woken'[s] # cur
                 /\ woken'[s] \notin Range(waiters')
      BY <1>1, <2>2, <2>3, <2>4, <3>1 DEF Woken
    <3>2. ASSUME NEW s \in Tasks, pc'[s] = "unblock" PROVE Blocked(woken[s])'
      BY <2>0, <2>1, <3>1, <3>2 DEF Blocked, Pushed
    <3>3. ASSUME NEW x \in Tasks, Blocked(x)
          PROVE  x \in Range(waiters') \/ \E s \in Tasks : pc'[s] = "unblock" /\ woken'[s] = x
      BY <1>1, <2>2, <2>3, <3>3 DEF Woken
    <3> QED BY <2>1, <2>3, <3>1, <3>2, <3>3 DEF Woken
  <2>11. Taker'
    BY <1>1, <2>1, <2>5, <2>6 DEF Taker, Exposed, Decrement
  <2>12. Inside(t)'
    BY <1>1, <2>6
  <2>20. Pushing'
    BY <2>0 DEF Pushing
  <2> QED BY <2>20, <2>5, <2>7, <2>8, <2>9, <2>10, <2>11, <2>12
    DEF WakeUpComes, WokenLooks, Coming, Exposed, Decrement, Raising
<1> QED BY <1>3, <1>4

\* task_unblock finds its task blocked and off the ready list, and puts it there.
LEMMA UnblockStep ==
    ASSUME IInv, LockInv, WInv, NEW t \in Tasks, Unblock(t) PROVE WInv'
<1> USE DEF WInv
<1> DEFINE w == woken[t]
<1>1. /\ t = cur /\ pc[t] = "unblock" /\ Inside(t)
      /\ pc \in [Tasks -> Statements \union Stuck]
      /\ status \in [Tasks -> {"RUNNING", "READY", "BLOCKED"}]
      /\ ready \in Seq(Tasks) /\ IsInjective(ready)
  BY Facts DEF Unblock, At, Inside, IInv, Shape, Queued
<1>2. w \in Tasks /\ Blocked(w) /\ w # cur /\ w \notin Range(waiters) /\ w \notin Range(ready)
  BY <1>1 DEF Woken, Queued
<1>3. /\ ready' = <<w>> \o ready
      /\ pc' = [pc EXCEPT ![t] = "status"]
      /\ UNCHANGED <<cur, status, value, waiters, woken, depth>>
  BY <1>2 DEF Unblock, Goto, Blocked, lockVars, taskVars
<1>4. IsInjective(ready') /\ Range(ready') = Range(ready) \union {w}
  BY <1>1, <1>2, <1>3, PushNew
<1>5. /\ pc'[t] = "status" /\ \A s \in Tasks : s # t => pc'[s] = pc[s]
      /\ \A s \in Tasks : Blocked(s)' <=> Blocked(s) /\ s # w
  <2>1. pc'[t] = "status" /\ \A s \in Tasks : s # t => pc'[s] = pc[s] /\ pc[s] # "status"
    BY <1>1, <1>3, Facts
  <2>2. \A x : Pushed(x)' <=> x = w
    BY <1>3, <2>1 DEF Pushed
  <2>3. \A x \in Tasks : ~Pushed(x)
    BY <1>1, <2>1 DEF Pushed
  <2> QED BY <1>3, <2>1, <2>2, <2>3 DEF Blocked
<1> HIDE DEF w
<1>6. \A s \in Tasks : s # t => pc[s] # "unblock"
  BY <1>1 DEF LockInv, OneInside, Inside
<1>7. \A s \in Tasks : pc'[s] # "unblock" /\ (s # t => pc'[s] \notin Exposed)
  BY <1>1, <1>5, <1>6, Facts
<1>8. Alone' /\ NeverStuck'
  BY <1>1, <1>3, <1>5, <1>7 DEF Alone, NeverStuck, Stuck
<1>9. Queued'
  BY <1>1, <1>2, <1>3, <1>4, <1>5 DEF Queued
<1>10. BlockedWaits'
  <2>1. \A s \in Tasks : Blocked(s)' => pc'[s] \in {"test", "pick"}
    BY <1>1, <1>5, Facts DEF BlockedWaits
  <2>2. \A s \in Range(waiters) : Blocked(s)'
    BY <1>1, <1>2, <1>5, Facts DEF BlockedWaits, Exposed, Decrement
  <2>3. \A s \in Tasks : pc'[s] \notin {"block", "pick"}
    BY <1>5, <1>7 DEF Exposed, Decrement
  <2> QED BY <1>3, <2>1, <2>2, <2>3 DEF BlockedWaits
<1>11. Woken'
  <2>1. ASSUME NEW x \in Tasks, Blocked(x)' PROVE x \in Range(waiters)
    <3>1. Blocked(x) /\ x # w
      BY <2>1, <1>5
    <3>2. \A s \in Tasks : pc[s] = "unblock" => woken[s] = w
      BY <1>6 DEF w
    <3> QED BY <3>1, <3>2 DEF Woken
  <2> QED BY <1>3, <1>7, <2>1 DEF Woken
<1>12. Inside(t)'
  BY <1>5 DEF Inside
<1>13. Taker'
  BY <1>1, <1>5, <1>7, <1>12 DEF Taker, Exposed, Decrement
<1>14. \A s \in Tasks : s = w => pc'[s] = "test" /\ ~Blocked(s)'
  BY <1>1, <1>2, <1>5, Facts DEF BlockedWaits, Exposed, Decrement
<1>15. Pushing'
  <2>1. \A s \in Tasks : pc'[s] = "status" => s = t
    BY <1>7 DEF Exposed, Decrement
  <2> QED BY <1>2, <1>3, <1>14, <2>1 DEF Pushing, w
<1> QED BY <1>2, <1>8, <1>9, <1>10, <1>11, <1>12, <1>13, <1>14, <1>15
  DEF WakeUpComes, WokenLooks, Coming

\* ... and then marks it.
LEMMA StatusStep ==
    ASSUME IInv, LockInv, WInv, NEW t \in Tasks, Status(t) PROVE WInv'
<1> USE DEF WInv
<1> DEFINE w == woken[t]
<1>1. /\ t = cur /\ pc[t] = "status" /\ Inside(t)
      /\ pc \in [Tasks -> Statements \union Stuck]
      /\ status \in [Tasks -> {"RUNNING", "READY", "BLOCKED"}]
      /\ woken \in [Tasks -> Tasks \union {Nobody}]
  BY Facts DEF Status, At, Inside, IInv, Shape
<1>2. w \in Tasks /\ w # cur /\ pc[w] = "test" /\ Pushed(w)
  BY <1>1 DEF Pushing, Pushed
<1>3. /\ status' = [status EXCEPT ![w] = "READY"]
      /\ woken' = [woken EXCEPT ![t] = Nobody]
      /\ pc' = [pc EXCEPT ![t] = "reopen"]
      /\ UNCHANGED <<cur, ready, value, waiters, depth>>
  BY DEF Status, Goto, lockVars
<1>4. \A s \in Tasks : s # t => pc[s] \notin Exposed /\ pc[s] # "unblock"
  BY <1>1, Facts DEF LockInv, OneInside, Inside
<1>5. /\ pc'[t] = "reopen" /\ \A s \in Tasks : s # t => pc'[s] = pc[s]
      /\ \A s \in Tasks : pc'[s] \notin {"status", "unblock", "block", "pick"}
      /\ \A s \in Tasks : Blocked(s)' <=> Blocked(s)
  <2>1. /\ pc'[t] = "reopen" /\ \A s \in Tasks : s # t => pc'[s] = pc[s]
        /\ \A s \in Tasks : pc'[s] \notin {"status", "unblock", "block", "pick"}
    BY <1>1, <1>3, <1>4 DEF Exposed, Decrement
  <2>2. \A x \in Tasks : Blocked(x)' <=> status'[x] = "BLOCKED"
    BY <2>1, UnpushedNext
  <2>3. \A x \in Tasks : x # w => (Blocked(x) <=> status[x] = "BLOCKED")
    <3>1. \A x \in Tasks : x # w => ~Pushed(x)
      BY <1>1, <1>4 DEF Pushed, Exposed, Decrement
    <3> QED BY <3>1 DEF Blocked
  <2>4. ~Blocked(w) /\ status'[w] # "BLOCKED"
    BY <1>1, <1>2, <1>3 DEF Blocked
  <2>5. \A x \in Tasks : x # w => status'[x] = status[x]
    BY <1>1, <1>2, <1>3
  <2> QED BY <2>1, <2>2, <2>3, <2>4, <2>5
<1>6. ~Blocked(w)
  BY <1>2 DEF Blocked
<1> HIDE DEF w
<1>7. Alone' /\ NeverStuck' /\ Pushing'
  BY <1>1, <1>3, <1>4, <1>5 DEF Alone, NeverStuck, Stuck, Pushing
<1>8. Queued'
  BY <1>1, <1>3, <1>5 DEF Queued
<1>9. BlockedWaits'
  BY <1>1, <1>3, <1>5, Facts DEF BlockedWaits
<1>10. Woken'
  <2>1. \A s \in Tasks : pc[s] # "unblock"
    BY <1>1, <1>4
  <2> QED BY <1>3, <1>5, <2>1 DEF Woken
<1>11. Inside(t)'
  BY <1>5 DEF Inside
<1>12. Taker'
  BY <1>1, <1>4, <1>5, <1>11 DEF Taker, Exposed, Decrement
<1>13. \A s \in Tasks : s = w => pc'[s] = "test" /\ ~Blocked(s)'
  BY <1>1, <1>2, <1>5, <1>6
<1> QED BY <1>2, <1>7, <1>8, <1>9, <1>10, <1>11, <1>12, <1>13 DEF WakeUpComes, WokenLooks, Coming

\* The tick preempts a task that is not in the middle of a call, and blocks nobody.
LEMMA TickStep ==
    ASSUME IInv, LockInv, WInv, Tick, pc[cur] \notin Exposed PROVE WInv'
<1> USE DEF WInv
<1> DEFINE q == Append(ready, cur)
           h == Head(q)
<1>1. /\ cur \in Tasks /\ pc[cur] \notin Exposed
      /\ status \in [Tasks -> {"RUNNING", "READY", "BLOCKED"}]
      /\ ready \in Seq(Tasks) /\ IsInjective(ready) /\ cur \notin Range(ready)
  BY Facts DEF IInv, Shape, Queued
<1>2. /\ q \in Seq(Tasks) /\ q # <<>> /\ IsInjective(q)
      /\ Range(q) = Range(ready) \union {cur}
  BY <1>1, AppendNew
<1>3. /\ cur' = h /\ ready' = Tail(q)
      /\ status' = [status EXCEPT ![cur] = "READY", ![h] = "RUNNING"]
      /\ UNCHANGED <<value, waiters, woken, pc, depth>>
  BY <1>1, Facts DEF Tick, Wreck, Preempt, Requeued, lockVars, taskVars, Exposed, Decrement
<1> HIDE DEF q
<1>4. /\ h \in Tasks /\ h \in Range(q)
      /\ IsInjective(ready') /\ Range(ready') = Range(q) \ {h}
  BY <1>2, <1>3, PopFront
<1> HIDE DEF h
<1>5. \A s \in Tasks : pc[s] \notin Exposed
  BY <1>1, Facts
<1>6. ~Blocked(cur) /\ ~Blocked(h)
  BY <1>1, <1>2, <1>4, <1>5 DEF Queued, Exposed, Decrement
<1>0. \A s \in Tasks : pc[s] # "status" /\ pc'[s] # "status"
  BY <1>3, <1>5 DEF Exposed, Decrement
<1>7. \A s \in Tasks : Blocked(s)' <=> Blocked(s)
  BY <1>0, <1>1, <1>3, <1>4, <1>6, Unpushed, UnpushedNext
<1>8. Alone' /\ NeverStuck'
  BY <1>3, <1>5 DEF Alone, NeverStuck
<1>9. Queued'
  <2>1. \A s \in Tasks : s # h => (s \in Range(ready') <=> ~Blocked(s))
    BY <1>1, <1>2, <1>4, <1>6 DEF Queued
  <2>2. pc[h] # "pick"
    BY <1>4, <1>5 DEF Exposed, Decrement
  <2> QED BY <1>3, <1>4, <1>6, <1>7, <2>1, <2>2 DEF Queued
<1>10. BlockedWaits'
  BY <1>3, <1>7, Facts DEF BlockedWaits
<1>11. Woken'
  <2>1. \A s \in Tasks : pc[s] = "unblock" => woken[s] # h
    BY <1>6 DEF Woken
  <2> QED BY <1>3, <1>7, <2>1 DEF Woken
<1>12. \A s \in Tasks : (Inside(s)' <=> Inside(s)) /\ (Coming(s)' <=> Coming(s))
  BY <1>3, <1>7 DEF Inside, Coming, Holds
<1>13. Taker'
  BY <1>3, <1>12 DEF Taker
<1>14. WakeUpComes' /\ WokenLooks'
  BY <1>3, <1>7, <1>12 DEF WakeUpComes, WokenLooks
<1>20. Pushing'
  BY <1>0 DEF Pushing
<1> QED BY <1>20, <1>8, <1>9, <1>10, <1>11, <1>13, <1>14

LEMMA InitWInv == Init => WInv
<1> SUFFICES ASSUME Init PROVE WInv
  OBVIOUS
<1>1. /\ cur = First /\ First \in Tasks /\ ready = Others /\ IsInjective(Others)
      /\ Range(Others) = Tasks \ {First}
      /\ value = 1 /\ waiters = <<>> /\ Range(waiters) = {}
      /\ \A t \in Tasks : pc[t] = "own" /\ ~Blocked(t)
  BY SyncAssumption DEF Init, Blocked, Range
<1>2. IsInjective(waiters)
  BY <1>1 DEF IsInjective
<1> QED BY <1>1, <1>2
  DEF WInv, Alone, Queued, BlockedWaits, Woken, Pushing, Taker, WakeUpComes, WokenLooks,
      NeverStuck, Exposed, Decrement, Raising, Stuck

\* As long as no tick has torn a call the calls are what they were meant to be.
Whole == ~Torn => WInv /\ ~wrecked

LEMMA StepWhole == ASSUME IInv, Whole, [Next]_vars PROVE Whole'
<1>1. CASE UNCHANGED vars
  BY <1>1 DEF vars, cpuVars, lockVars, taskVars, tickVars, Whole, Torn, WInv, Alone, Queued,
    BlockedWaits, Woken, Pushing, Taker, WakeUpComes, WokenLooks, NeverStuck, Blocked, Pushed,
    Inside, Coming, Holds
<1>2. CASE Next
  <2> SUFFICES ASSUME ~Torn' PROVE WInv' /\ ~wrecked'
    BY DEF Whole
  <2>1. ~Torn
    BY <1>2 DEF Next, Move, Tick, tickVars, Torn, IInv, History
  <2>2. WInv /\ ~wrecked /\ LockInv
    BY <2>1 DEF Whole, IInv, History
  <2>3. CASE Tick
    <3>1. pc[cur] \notin Exposed
      BY <2>3 DEF Tick, Torn, IInv, History
    <3>2. cur \notin Range(ready) /\ cur \notin Range(waiters)
      BY <2>2, <3>1, Facts DEF WInv, Queued, Exposed, Decrement
    <3>3. ~wrecked'
      BY <2>2, <2>3, <3>2 DEF Tick, Preempt, Wreck
    <3> QED BY <2>2, <2>3, <3>1, <3>3, TickStep
  <2>4. ASSUME NEW t \in Tasks, Acquire(t) \/ Release(t) \/ InCall(t), Move(t)
        PROVE  WInv' /\ ~wrecked'
    <3>1. ~wrecked'
      BY <2>2, <2>4 DEF Move, tickVars
    <3>2. WInv'
      BY <2>2, <2>4, MoveSteps, TestStep, EnqueueStep, BlockStep, PickStep, StoreStep,
         RestoreStep, WakeStep, UnblockStep, StatusStep DEF InCall
    <3> QED BY <3>1, <3>2
  <2> QED BY <1>2, <2>3, <2>4 DEF Next
<1> QED BY <1>1, <1>2

LEMMA BothInductive == Spec => [](IInv /\ Whole)
<1>1. Init => Whole
  BY InitWInv DEF Init, Whole
<1>2. IInv /\ Whole /\ [Next]_vars => Whole'
  BY StepWhole
<1> QED BY <1>1, <1>2, Inductive, PTL DEF Spec

\* No assertion of sync.c, task.c and schedule() fails (sync.c:32, 43, 53, 59, 72, 82, 87,
\* those of task_unblock), no tag gets into two lists, and a task that blocks always finds
\* a ready one (task.c:481), unless a tick has come at an exposed statement: with any
\* number of tasks, in both builds.
THEOREM NoAssertionFails == Spec => []AssertionsHold
<1>1. Whole => AssertionsHold
  BY DEF Whole, WInv, NeverStuck, AssertionsHold
<1> QED BY <1>1, BothInductive, PTL

\* Until such a tick a blocked task is in the list of waiters or about to be made ready,
\* and never in both lists that its general_tag can be in.
THEOREM BlockedIsQueued == Spec => []WaitersBlocked
<1>1. ASSUME IInv, Whole, ~Torn PROVE WaitersBlocked
  <2>1. WInv /\ LockInv
    BY <1>1 DEF Whole, IInv, History
  <2>2. \A t \in Range(waiters) : t \notin Range(ready)
    BY <1>1, <2>1, Facts DEF WInv, Queued, BlockedWaits, Exposed, Decrement
  <2>3. \A t \in Tasks : status[t] = "BLOCKED" =>
          t \in Range(waiters) \/ \E s \in Tasks : pc[s] \in {"unblock", "status"} /\ woken[s] = t
    BY <2>1 DEF WInv, Woken, Blocked, Pushed
  <2> QED BY <2>2, <2>3 DEF WaitersBlocked
<1>2. IInv /\ Whole => WaitersBlocked
  BY <1>1 DEF WaitersBlocked
<1> QED BY <1>2, BothInductive, PTL

\* No wake-up is lost until such a tick: while a task waits for the semaphore, another is
\* inside it, and will reach sema_up, or is on its way in and not blocked.
THEOREM SomebodyWillWake == Spec => [](Torn \/ WakeUpComes)
<1>1. Whole => Torn \/ WakeUpComes
  BY DEF Whole, WInv
<1> QED BY <1>1, BothInductive, PTL

===============================================================================
