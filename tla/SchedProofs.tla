----------------------------- MODULE SchedProofs -----------------------------
(***************************************************************************)
(* Proofs about Sched and about the history that SchedHistory keeps of it, *)
(* for every set of tasks, every priority, every set of sleepers and both  *)
(* builds of the handler.                                                  *)
(***************************************************************************)
EXTENDS SchedHistory, SequenceTheorems, TLAPS

-------------------------------------------------------------------------------
(* The queue operations.                                                     *)

\* list_append of an element that is not in the list.
LEMMA AppendNew ==
    ASSUME NEW S, NEW s \in Seq(S), NEW x \in S, IsInjective(s), x \notin Range(s)
    PROVE  /\ Append(s, x) \in Seq(S)
           /\ Append(s, x) # <<>>
           /\ IsInjective(Append(s, x))
           /\ Range(Append(s, x)) = Range(s) \union {x}
<1>1. /\ Append(s, x) \in Seq(S)
      /\ Append(s, x) # <<>>
      /\ Len(Append(s, x)) = Len(s) + 1
      /\ \A i \in 1..Len(s) : Append(s, x)[i] = s[i]
      /\ Append(s, x)[Len(s) + 1] = x
  BY AppendProperties
<1>2. /\ Len(s) \in Nat
      /\ DOMAIN s = 1..Len(s)
      /\ DOMAIN Append(s, x) = 1..(Len(s) + 1)
  BY <1>1, LenProperties
<1>3. \A i \in 1..Len(s) : s[i] # x
  BY <1>2 DEF Range
<1>4. IsInjective(Append(s, x))
  BY <1>1, <1>2, <1>3 DEF IsInjective
<1>5. Range(Append(s, x)) = Range(s) \union {x}
  BY <1>1, <1>2 DEF Range
<1> QED BY <1>1, <1>4, <1>5

\* list_pop of a list that is not empty.
LEMMA PopFront ==
    ASSUME NEW S, NEW s \in Seq(S), s # <<>>, IsInjective(s)
    PROVE  /\ Head(s) \in S
           /\ Head(s) \in Range(s)
           /\ Tail(s) \in Seq(S)
           /\ IsInjective(Tail(s))
           /\ Range(Tail(s)) = Range(s) \ {Head(s)}
<1>1. /\ Len(s) \in Nat
      /\ Len(s) # 0
      /\ DOMAIN s = 1..Len(s)
  BY LenProperties, EmptySeq
<1>2. /\ Head(s) = s[1]
      /\ Head(s) \in S
      /\ Tail(s) \in Seq(S)
      /\ Len(Tail(s)) = Len(s) - 1
      /\ \A i \in 1..Len(Tail(s)) : Tail(s)[i] = s[i + 1]
  BY HeadTailProperties, ElementOfSeq, <1>1
<1>3. DOMAIN Tail(s) = 1..(Len(s) - 1)
  BY <1>2, LenProperties
<1>4. IsInjective(Tail(s))
  BY <1>1, <1>2, <1>3 DEF IsInjective
<1>5. \A i \in 2..Len(s) : s[i] = Tail(s)[i - 1] /\ i - 1 \in DOMAIN Tail(s)
  BY <1>1, <1>2, <1>3
<1>6. Range(Tail(s)) = Range(s) \ {Head(s)}
  <2>1. ASSUME NEW x \in Range(Tail(s)) PROVE x \in Range(s) \ {Head(s)}
    <3>1. PICK i \in 1..(Len(s) - 1) : x = Tail(s)[i]
      BY <1>3 DEF Range
    <3>2. x = s[i + 1] /\ i + 1 \in 1..Len(s) /\ 1 \in 1..Len(s) /\ i + 1 # 1
      BY <3>1, <1>1, <1>2
    <3> QED BY <3>2, <1>1, <1>2 DEF IsInjective, Range
  <2>2. ASSUME NEW x \in Range(s), x # Head(s) PROVE x \in Range(Tail(s))
    <3>1. PICK i \in 1..Len(s) : x = s[i]
      BY <1>1 DEF Range
    <3>2. i \in 2..Len(s)
      BY <3>1, <2>2, <1>1, <1>2
    <3> QED BY <3>1, <3>2, <1>5 DEF Range
  <2> QED BY <2>1, <2>2
<1>7. Head(s) \in Range(s)
  BY <1>1, <1>2 DEF Range
<1> QED BY <1>2, <1>4, <1>6, <1>7

\* The only timer of a task is unlinked: nothing is left.
LEMMA RemoveOnly ==
    ASSUME NEW s \in Seq(Nat), Len(s) = 1, NEW i \in DOMAIN s
    PROVE  RemoveAt(s, i) = <<>>
<1>1. i = 1 /\ DOMAIN s = {1}
  BY LenProperties
<1>2. SubSeq(s, 1, 0) = <<>> /\ SubSeq(s, 2, 1) = <<>>
  BY SubSeqEmpty
<1> QED BY <1>1, <1>2, ConcatEmptySeq DEF RemoveAt

-------------------------------------------------------------------------------
(* The inductive invariant.                                                  *)

\* Only the tasks that call sleep() are ever inside it.
OnlySleepersSleep == \A t \in Tasks : pc[t] # "run" => t \in Sleepers

\* OnePlace is not inductive alone: that a sleeper is woken once and is not queued
\* when its timer fires rests on the flag of FlagsMatchPlace, which decides at the
\* tick whether the current task is queued or parked.
IInv ==
    /\ TypeOK
    /\ OnePlace
    /\ FlagsMatchPlace
    /\ OnlySleepersSleep
    /\ NeverPanics

\* Every place a started task can be in at the start of the program.
LEMMA InitIInv == Init => IInv
<1> SUFFICES ASSUME Init PROVE IInv
  OBVIOUS
<1>1. TypeOK
  <2>1. ticks \in [Tasks -> 0..255]
    <3>1. PICK left \in 0..Prio[Main] : ticks = [Prio EXCEPT ![Main] = left]
      BY DEF Init
    <3>2. Prio[Main] \in 0..255
      BY SchedAssumption
    <3>3. left \in 0..255
      BY <3>2
    <3> QED BY <3>1, <3>3, SchedAssumption
  <2>2. timers \in [Tasks -> Seq(Nat)]
    <3>1. <<>> \in Seq(Nat)
      OBVIOUS
    <3> QED BY <3>1 DEF Init
  <2> QED BY <2>1, <2>2, SchedAssumption DEF Init, TypeOK
<1>2. OnePlace
  BY SchedAssumption DEF Init, OnePlace, InReady, HasTimer
<1>3. FlagsMatchPlace
  BY SchedAssumption DEF Init, FlagsMatchPlace, InReady, HasTimer
<1>4. OnlySleepersSleep /\ NeverPanics
  BY DEF Init, OnlySleepersSleep, NeverPanics
<1> QED BY <1>1, <1>2, <1>3, <1>4 DEF IInv

\* The statements of sleep() move no task, and raise the flag of the current one.
LEMMA TaskStepIInv ==
    ASSUME IInv, NEW t \in Tasks, TaskStep(t)
    PROVE  IInv'
<1> USE DEF IInv, Executing
<1>1. CASE SleepCall(t)
  <2>1. TypeOK'
    BY <1>1, SchedAssumption DEF SleepCall, TypeOK
  <2>2. OnePlace'
    BY <1>1 DEF SleepCall, OnePlace, InReady, HasTimer
  <2>3. FlagsMatchPlace'
    BY <1>1 DEF SleepCall, TypeOK, OnePlace, FlagsMatchPlace, InReady, HasTimer
  <2>4. OnlySleepersSleep' /\ NeverPanics'
    BY <1>1 DEF SleepCall, TypeOK, OnlySleepersSleep, NeverPanics
  <2> QED BY <2>1, <2>2, <2>3, <2>4
<1>2. CASE SleepStamp(t)
  <2>1. TypeOK'
    BY <1>2 DEF SleepStamp, TypeOK
  <2>2. OnePlace'
    BY <1>2 DEF SleepStamp, OnePlace, InReady, HasTimer
  <2>3. FlagsMatchPlace'
    BY <1>2 DEF SleepStamp, TypeOK, FlagsMatchPlace, InReady, HasTimer
  <2>4. OnlySleepersSleep' /\ NeverPanics'
    BY <1>2 DEF SleepStamp, TypeOK, OnlySleepersSleep, NeverPanics
  <2> QED BY <2>1, <2>2, <2>3, <2>4
<1>3. CASE SleepReturn(t)
  <2>1. TypeOK'
    BY <1>3 DEF SleepReturn, TypeOK, taskVars
  <2>2. OnePlace'
    BY <1>3 DEF SleepReturn, taskVars, OnePlace, InReady, HasTimer
  <2>3. FlagsMatchPlace'
    BY <1>3 DEF SleepReturn, taskVars, TypeOK, FlagsMatchPlace, InReady, HasTimer
  <2>4. OnlySleepersSleep' /\ NeverPanics'
    BY <1>3 DEF SleepReturn, TypeOK, OnlySleepersSleep, NeverPanics
  <2> QED BY <2>1, <2>2, <2>3, <2>4
<1> QED BY <1>1, <1>2, <1>3 DEF TaskStep

\* A timer callback moves a task from asleep to the back of the queue.
LEMMA ExpireIInv ==
    ASSUME IInv, NEW t \in Tasks, NEW i \in DOMAIN timers[t], Expire(t, i)
    PROVE  IInv'
<1> USE DEF IInv
<1>1. timers[t] \in Seq(Nat) /\ HasTimer(t) /\ Len(timers[t]) = 1
  <2>1. timers[t] \in Seq(Nat) /\ timers[t] # <<>>
    BY LenProperties, EmptySeq DEF TypeOK
  <2> QED BY <2>1, EmptySeq DEF OnePlace, HasTimer
<1>2. handler = "timers" /\ ~InReady(t) /\ t # cur
  BY <1>1 DEF Expire, OnePlace
<1>3. /\ ready' = Append(ready, t)
      /\ ticks' = [ticks EXCEPT ![t] = Prio[t]]
      /\ status' = [status EXCEPT ![t] = "READY"]
      /\ collab' = [collab EXCEPT ![t] = FALSE]
      /\ sleep_ms' = [sleep_ms EXCEPT ![t] = 0]
      /\ timers' = [timers EXCEPT ![t] = <<>>]
      /\ UNCHANGED <<cur, pc, arg, handler>>
  BY <1>1, <1>2, RemoveOnly DEF Expire, Wake, Queued, NewSlice, EndSleep,
                               EndTimeout
<1>4. /\ ready' \in Seq(Tasks)
      /\ IsInjective(ready')
      /\ Range(ready') = Range(ready) \union {t}
  BY <1>2, <1>3, AppendNew DEF TypeOK, OnePlace, InReady
<1>5. TypeOK'
  <2>1. <<>> \in Seq(Nat)
    OBVIOUS
  <2> QED BY <2>1, <1>3, <1>4, SchedAssumption DEF TypeOK
<1>6. OnePlace'
  BY <1>2, <1>3, <1>4, EmptySeq DEF TypeOK, OnePlace, InReady, HasTimer
<1>7. FlagsMatchPlace'
  BY <1>3, <1>4 DEF TypeOK, FlagsMatchPlace, InReady, HasTimer
<1>8. OnlySleepersSleep' /\ NeverPanics'
  BY <1>3 DEF OnlySleepersSleep, NeverPanics
<1> QED BY <1>5, <1>6, <1>7, <1>8

\* run_timer ends: every timer that is left has time to spare.
LEMMA TimersDoneIInv == IInv /\ TimersDone => IInv'
<1> SUFFICES ASSUME IInv, TimersDone PROVE IInv'
  OBVIOUS
<1> USE DEF IInv
<1>1. \A t \in Tasks : /\ timers'[t] \in Seq(Nat)
                       /\ Len(timers'[t]) = Len(timers[t])
                       /\ timers'[t] = <<>> <=> timers[t] = <<>>
  <2> SUFFICES ASSUME NEW t \in Tasks
               PROVE  /\ timers'[t] \in Seq(Nat)
                      /\ Len(timers'[t]) = Len(timers[t])
                      /\ timers'[t] = <<>> <=> timers[t] = <<>>
    OBVIOUS
  <2>1. /\ timers[t] \in Seq(Nat)
        /\ Len(timers[t]) \in Nat
        /\ DOMAIN timers[t] = 1..Len(timers[t])
    BY LenProperties DEF TypeOK
  <2>2. timers'[t] = [i \in 1..Len(timers[t]) |-> timers[t][i] - 1]
    BY <2>1 DEF TimersDone
  <2>3. \A i \in 1..Len(timers[t]) : timers[t][i] \in Nat /\ timers[t][i] # 0
    BY <2>1, ElementOfSeq DEF TimersDone, Range
  <2>4. timers'[t] \in Seq(Nat) /\ Len(timers'[t]) = Len(timers[t])
    BY <2>1, <2>2, <2>3, IsASeq, LenProperties
  <2> QED BY <2>1, <2>4, EmptySeq
<1>2. /\ handler' = "dispatch"
      /\ handler = "timers"
      /\ UNCHANGED <<cur, ready, status, ticks, collab, sleep_ms, pc, arg>>
      /\ timers' \in [Tasks -> Seq(Nat)]
  BY <1>1 DEF TimersDone, taskVars
<1>3. TypeOK'
  BY <1>2 DEF TypeOK
<1>4. OnePlace'
  BY <1>1, <1>2 DEF OnePlace, InReady, HasTimer
<1>5. FlagsMatchPlace'
  BY <1>1, <1>2 DEF FlagsMatchPlace, InReady, HasTimer
<1>6. OnlySleepersSleep' /\ NeverPanics'
  BY <1>2 DEF OnlySleepersSleep, NeverPanics
<1> QED BY <1>3, <1>4, <1>5, <1>6

\* schedule(): the current task joins the queue before the front one leaves it.
LEMMA ScheduleIInv ==
    ASSUME IInv, SliceOver, handler # "hung", Schedule
    PROVE  IInv'
<1> USE DEF IInv
<1> DEFINE q == Append(ready, cur)
<1>0. ~InReady(cur) /\ cur \in Tasks
  BY DEF OnePlace, TypeOK
<1>1. /\ ready \in Seq(Tasks) /\ IsInjective(ready)
      /\ cur \in Tasks /\ cur \notin Range(ready)
  BY <1>0 DEF TypeOK, OnePlace, InReady
<1>2. /\ q \in Seq(Tasks) /\ q # <<>> /\ IsInjective(q)
      /\ Range(q) = Range(ready) \union {cur}
  <2> HIDE DEF IInv
  <2> QED BY <1>1, AppendNew
<1>3. /\ Head(q) \in Tasks /\ Head(q) \in Range(q)
      /\ Tail(q) \in Seq(Tasks) /\ IsInjective(Tail(q))
      /\ Range(Tail(q)) = Range(q) \ {Head(q)}
  BY <1>2, PopFront
<1>4. /\ cur' = Head(q)
      /\ ready' = Tail(q)
      /\ status' = [[status EXCEPT ![cur] = "READY"] EXCEPT ![Head(q)] = "RUNNING"]
      /\ ticks' = [ticks EXCEPT ![cur] = Prio[cur]]
      /\ handler' = "off"
      /\ UNCHANGED <<collab, sleep_ms, timers, pc, arg>>
  BY <1>0 DEF Schedule, GetNextTask, Queued, NewSlice
<1> HIDE DEF q
<1>5. TypeOK'
  BY <1>0, <1>3, <1>4, SchedAssumption DEF TypeOK
<1>6. OnePlace'
  BY <1>0, <1>2, <1>3, <1>4 DEF OnePlace, InReady, HasTimer
<1>7. FlagsMatchPlace'
  BY <1>0, <1>2, <1>3, <1>4 DEF TypeOK, FlagsMatchPlace, InReady, HasTimer, SliceOver
<1>8. OnlySleepersSleep' /\ NeverPanics'
  BY <1>4 DEF OnlySleepersSleep, NeverPanics
<1> QED BY <1>5, <1>6, <1>7, <1>8

\* The tick is charged to the current task.
LEMMA ChargeIInv == IInv /\ Charge => IInv'
<1> SUFFICES ASSUME IInv, Charge PROVE IInv'
  OBVIOUS
<1> USE DEF IInv
<1>1. ticks[cur] # 0 /\ cur \in Tasks
  BY DEF Charge, SliceOver, TypeOK
<1>2. TypeOK'
  BY <1>1 DEF Charge, TypeOK
<1>3. OnePlace'
  BY DEF Charge, OnePlace, InReady, HasTimer
<1>4. FlagsMatchPlace'
  BY <1>1 DEF Charge, TypeOK, OnePlace, FlagsMatchPlace, InReady, HasTimer
<1>5. OnlySleepersSleep' /\ NeverPanics'
  BY DEF Charge, OnlySleepersSleep, NeverPanics
<1> QED BY <1>2, <1>3, <1>4, <1>5

\* create_timer for the current task, whether or not another can take over: its
\* first and only timer.
LEMMA FirstTimer ==
    ASSUME IInv, handler # "hung",
           timers' = [timers EXCEPT ![cur] = Append(@, sleep_ms[cur])]
    PROVE  /\ timers' \in [Tasks -> Seq(Nat)]
           /\ \A t \in Tasks : Len(timers'[t]) \in {0, 1}
           /\ \A t \in Tasks : timers'[t] # <<>> <=> (t = cur \/ timers[t] # <<>>)
<1>1. cur \in Tasks /\ timers[cur] = <<>>
  BY DEF IInv, TypeOK, OnePlace, HasTimer
<1>2. timers[cur] \in Seq(Nat) /\ sleep_ms[cur] \in Nat
  BY <1>1 DEF IInv, TypeOK
<1>3. /\ Append(timers[cur], sleep_ms[cur]) \in Seq(Nat)
      /\ Append(timers[cur], sleep_ms[cur]) # <<>>
      /\ Len(Append(timers[cur], sleep_ms[cur])) = 1
  BY <1>1, <1>2, AppendProperties, EmptySeq
<1>4. timers'[cur] = Append(timers[cur], sleep_ms[cur])
  BY <1>1 DEF IInv, TypeOK
<1>5. timers' \in [Tasks -> Seq(Nat)] /\ \A t \in Tasks \ {cur} : timers'[t] = timers[t]
  BY <1>3 DEF IInv, TypeOK
<1>6. \A t \in Tasks : Len(timers'[t]) \in {0, 1}
  BY <1>3, <1>4, <1>5 DEF IInv, OnePlace
<1>7. \A t \in Tasks : timers'[t] # <<>> <=> (t = cur \/ timers[t] # <<>>)
  BY <1>3, <1>4, <1>5
<1> QED BY <1>5, <1>6, <1>7

\* The current task is parked and the front of the queue takes over.
LEMMA ParkIInv == IInv /\ Park => IInv'
<1> SUFFICES ASSUME IInv, Park PROVE IInv'
  OBVIOUS
<1> USE DEF IInv
<1>1. /\ timers' \in [Tasks -> Seq(Nat)]
      /\ \A t \in Tasks : Len(timers'[t]) \in {0, 1}
      /\ \A t \in Tasks : timers'[t] # <<>> <=> (t = cur \/ timers[t] # <<>>)
  BY FirstTimer DEF Park, CreateTimer
<1>2. /\ Head(ready) \in Tasks /\ Head(ready) \in Range(ready)
      /\ Tail(ready) \in Seq(Tasks) /\ IsInjective(Tail(ready))
      /\ Range(Tail(ready)) = Range(ready) \ {Head(ready)}
  BY PopFront DEF Park, TypeOK, OnePlace
<1>3. /\ handler = "dispatch" /\ handler' = "off" /\ collab[cur]
      /\ cur' = Head(ready) /\ ready' = Tail(ready)
      /\ status' = [status EXCEPT ![Head(ready)] = "RUNNING"]
      /\ UNCHANGED <<ticks, collab, sleep_ms, pc, arg>>
      /\ cur \in Tasks /\ ~InReady(cur)
  BY DEF Park, GetNextTask, TypeOK, OnePlace
<1>4. TypeOK'
  BY <1>1, <1>2, <1>3 DEF TypeOK
<1>5. OnePlace'
  BY <1>1, <1>2, <1>3 DEF OnePlace, InReady, HasTimer
<1>6. FlagsMatchPlace'
  BY <1>1, <1>2, <1>3 DEF TypeOK, FlagsMatchPlace, InReady, HasTimer
<1>7. OnlySleepersSleep' /\ NeverPanics'
  BY <1>3 DEF OnlySleepersSleep, NeverPanics
<1> QED BY <1>4, <1>5, <1>6, <1>7

\* The current task is parked and nobody can take over.
LEMMA ParkHangsIInv == IInv /\ ParkHangs => IInv'
<1> SUFFICES ASSUME IInv, ParkHangs PROVE IInv'
  OBVIOUS
<1> USE DEF IInv
<1>1. /\ timers' \in [Tasks -> Seq(Nat)]
      /\ \A t \in Tasks : Len(timers'[t]) \in {0, 1}
      /\ \A t \in Tasks : timers'[t] # <<>> <=> (t = cur \/ timers[t] # <<>>)
  BY FirstTimer DEF ParkHangs, CreateTimer
<1>2. /\ handler = "dispatch" /\ handler' = "hung" /\ collab[cur] /\ cur \in Tasks
      /\ UNCHANGED <<cur, ready, status, ticks, collab, sleep_ms, pc, arg>>
  BY DEF ParkHangs, TypeOK, taskVars
<1>3. TypeOK'
  BY <1>1, <1>2 DEF TypeOK
<1>4. OnePlace'
  BY <1>1, <1>2 DEF OnePlace, InReady, HasTimer
<1>5. FlagsMatchPlace'
  BY <1>1, <1>2 DEF FlagsMatchPlace, InReady, HasTimer
<1>6. OnlySleepersSleep' /\ NeverPanics'
  BY <1>2 DEF OnlySleepersSleep, NeverPanics
<1> QED BY <1>3, <1>4, <1>5, <1>6

\* Every step of the program keeps the invariant.
LEMMA NextIInv == IInv /\ [Next]_vars => IInv'
<1> SUFFICES ASSUME IInv, [Next]_vars PROVE IInv'
  OBVIOUS
<1>1. ASSUME NEW t \in Tasks, TaskStep(t) PROVE IInv'
  BY <1>1, TaskStepIInv
<1>2. CASE Tick
  <2>1. TypeOK' /\ OnlySleepersSleep' /\ NeverPanics'
    BY <1>2 DEF Tick, taskVars, IInv, TypeOK, OnlySleepersSleep, NeverPanics
  <2>2. OnePlace' /\ FlagsMatchPlace'
    BY <1>2 DEF Tick, taskVars, IInv, OnePlace, FlagsMatchPlace, InReady, HasTimer
  <2> QED BY <2>1, <2>2 DEF IInv
<1>3. CASE RunTimer
  BY <1>3, ExpireIInv, TimersDoneIInv DEF RunTimer
<1>4. CASE Preempt
  BY <1>4, ScheduleIInv DEF Preempt
<1>5. CASE Sigusr1
  BY <1>5, ScheduleIInv DEF Sigusr1
<1>6. CASE Charge \/ Park \/ ParkHangs
  BY <1>6, ChargeIInv, ParkIInv, ParkHangsIInv
<1>7. CASE UNCHANGED vars
  <2>1. TypeOK' /\ OnlySleepersSleep' /\ NeverPanics'
    BY <1>7 DEF vars, IInv, TypeOK, OnlySleepersSleep, NeverPanics
  <2>2. OnePlace' /\ FlagsMatchPlace'
    BY <1>7 DEF vars, IInv, OnePlace, FlagsMatchPlace, InReady, HasTimer
  <2> QED BY <2>1, <2>2 DEF IInv
<1> QED BY <1>1, <1>2, <1>3, <1>4, <1>5, <1>6, <1>7 DEF Next, Dispatch

LEMMA IInvariance == Spec => []IInv
<1> QED BY InitIInv, NextIInv, PTL DEF Spec

-------------------------------------------------------------------------------
(* The theorems.                                                             *)

\* Type correctness: no dispatch takes a task from an empty queue and no time
\* slice is counted below zero.
THEOREM TypeCorrect == Spec => []TypeOK
<1>1. IInv => TypeOK
  BY DEF IInv
<1> QED BY <1>1, IInvariance, PTL

\* Every started task is current, queued once, or asleep with one timer.
THEOREM NoTaskLost == Spec => []OnePlace
<1>1. IInv => OnePlace
  BY DEF IInv
<1> QED BY <1>1, IInvariance, PTL

\* The assertions of schedule() and of the timer callback hold.
THEOREM AssertionsHold == Spec => []NeverPanics
<1>1. IInv => NeverPanics
  BY DEF IInv
<1> QED BY <1>1, IInvariance, PTL

\* One task that never sleeps is enough for collaborative_schedule to find a
\* successor always.
THEOREM NoHang == Spec => []NeverHangs
<1>1. Init => NeverHangs
  BY DEF Init, NeverHangs
<1>2. IInv /\ NeverHangs /\ [Next]_vars => NeverHangs'
  <2> SUFFICES ASSUME IInv, NeverHangs, [Next]_vars, Sleepers # Tasks
               PROVE  handler' # "hung"
    BY DEF NeverHangs
  <2>1. PICK t \in Tasks : t \notin Sleepers
    BY SchedAssumption
  <2>2. ~HasTimer(t) /\ ~collab[t] /\ (t = cur \/ InReady(t))
    BY <2>1 DEF IInv, OnePlace, FlagsMatchPlace, OnlySleepersSleep, HasTimer
  <2>3. ~ParkHangs
    <3>1. ready = <<>> => ~InReady(t)
      BY DEF InReady, Range
    <3> QED BY <2>2, <3>1 DEF ParkHangs
  <2>4. handler # "hung"
    BY DEF NeverHangs
  <2> QED BY <2>3, <2>4 DEF Next, RunTimer, Dispatch, TaskStep, SleepCall, SleepStamp,
             SleepReturn, Tick, Expire, TimersDone, Preempt, Charge, Park, Sigusr1,
             Schedule, Panic, vars
<1> QED BY <1>1, <1>2, IInvariance, PTL DEF Spec

-------------------------------------------------------------------------------
(* The refinement.                                                           *)

\* The current task in front of the ready list is a queue of its own: taking the
\* head off leaves the ready list, and appending goes to the ready list's end.
LEMMA Circle ==
    ASSUME NEW S, NEW c \in S, NEW r \in Seq(S)
    PROVE  /\ <<c>> \o r \in Seq(S)
           /\ <<c>> \o r # <<>>
           /\ Head(<<c>> \o r) = c
           /\ Tail(<<c>> \o r) = r
           /\ \A x \in S : Append(<<c>> \o r, x) = <<c>> \o Append(r, x)
           /\ r # <<>> => r = <<Head(r)>> \o Tail(r)
<1>1. <<c>> \in Seq(S) /\ Len(<<c>>) = 1 /\ <<c>>[1] = c
  OBVIOUS
<1>2. /\ <<c>> \o r \in Seq(S)
      /\ Len(<<c>> \o r) = 1 + Len(r)
      /\ \A i \in 1..(1 + Len(r)) : (<<c>> \o r)[i] = IF i <= 1 THEN c ELSE r[i - 1]
  BY <1>1, ConcatProperties
<1>3. Len(r) \in Nat /\ DOMAIN r = 1..Len(r)
  BY LenProperties
<1>4. <<c>> \o r # <<>>
  BY <1>2, <1>3, EmptySeq
<1>5. Head(<<c>> \o r) = c
  BY <1>2, <1>3
<1>6. Tail(<<c>> \o r) = r
  <2>1. /\ Tail(<<c>> \o r) \in Seq(S)
        /\ Len(Tail(<<c>> \o r)) = Len(r)
        /\ \A i \in 1..Len(r) : Tail(<<c>> \o r)[i] = (<<c>> \o r)[i + 1]
    BY <1>2, <1>3, <1>4, HeadTailProperties
  <2>2. \A i \in 1..Len(r) : Tail(<<c>> \o r)[i] = r[i]
    BY <2>1, <1>2, <1>3
  <2> QED BY <2>1, <2>2, SeqEqual
<1>7. ASSUME NEW x \in S PROVE Append(<<c>> \o r, x) = <<c>> \o Append(r, x)
  <2>1. /\ Append(r, x) = r \o <<x>>
        /\ Append(<<c>> \o r, x) = (<<c>> \o r) \o <<x>>
        /\ <<x>> \in Seq(S)
    BY <1>2, AppendIsConcat
  <2> QED BY <2>1, <1>1, ConcatAssociative
<1>8. ASSUME r # <<>> PROVE r = <<Head(r)>> \o Tail(r)
  <2> DEFINE s == <<Head(r)>> \o Tail(r)
  <2>1. /\ Head(r) \in S /\ Tail(r) \in Seq(S) /\ Len(Tail(r)) = Len(r) - 1
        /\ \A i \in 1..Len(Tail(r)) : Tail(r)[i] = r[i + 1]
        /\ Head(r) = r[1]
    BY <1>8, HeadTailProperties
  <2>2. <<Head(r)>> \in Seq(S) /\ Len(<<Head(r)>>) = 1 /\ <<Head(r)>>[1] = Head(r)
    BY <2>1
  <2>3. /\ s \in Seq(S)
        /\ Len(s) = Len(r)
        /\ \A i \in 1..Len(r) : s[i] = IF i <= 1 THEN Head(r) ELSE Tail(r)[i - 1]
    BY <2>1, <2>2, <1>3, ConcatProperties
  <2>4. \A i \in 1..Len(r) : s[i] = r[i]
    BY <2>1, <2>3, <1>3
  <2> QED BY <2>3, <2>4, SeqEqual
<1> QED BY <1>2, <1>4, <1>5, <1>6, <1>7, <1>8

\* The program starts in an initial state of the round robin.
LEMMA InitRefines == Init => RR!Init
<1> SUFFICES ASSUME Init PROVE RR!Init
  OBVIOUS
<1> DEFINE q == <<Main>> \o StartOrder
<1>1. Main \in Tasks /\ StartOrder \in Seq(Tasks) /\ <<Main>> \in Seq(Tasks)
      /\ IsInjective(StartOrder) /\ Range(StartOrder) = Tasks \ {Main}
  BY SchedAssumption
<1>2. /\ q \in Seq(Tasks)
      /\ Len(q) = 1 + Len(StartOrder)
      /\ \A i \in 1..(1 + Len(StartOrder)) :
            q[i] = IF i <= 1 THEN Main ELSE StartOrder[i - 1]
      /\ Len(StartOrder) \in Nat
      /\ DOMAIN StartOrder = 1..Len(StartOrder)
      /\ DOMAIN q = 1..(1 + Len(StartOrder))
  BY <1>1, ConcatProperties, LenProperties
<1>3. \A i \in 1..Len(StartOrder) : StartOrder[i] # Main
  BY <1>1, <1>2 DEF Range
<1>4. IsInjective(q)
  BY <1>1, <1>2, <1>3 DEF IsInjective
<1>5. Range(q) = Tasks
  <2> HIDE DEF q
  <2>1. Range(q) \subseteq Tasks
    BY <1>2, ElementOfSeq DEF Range
  <2>2. Main \in Range(q)
    BY <1>2 DEF Range
  <2>3. ASSUME NEW t \in Range(StartOrder) PROVE t \in Range(q)
    <3>1. PICK i \in 1..Len(StartOrder) : StartOrder[i] = t
      BY <1>2 DEF Range
    <3>2. i + 1 \in DOMAIN q /\ q[i + 1] = t
      BY <1>2, <3>1
    <3> QED BY <3>2 DEF Range
  <2>4. Tasks \subseteq Range(q)
    BY <1>1, <2>2, <2>3
  <2> QED BY <2>1, <2>4
<1>6. q = IF handler = "hung" THEN <<>> ELSE <<cur>> \o ready
  BY DEF Init
<1>7. {t \in Tasks : HasTimer(t)} = {}
  BY DEF Init, HasTimer
<1>8. q \in Seq(Tasks) /\ IsInjective(q) /\ Range(q) = Tasks
  BY <1>2, <1>4, <1>5
<1> HIDE DEF q
<1>9. q \in Seq(Tasks) /\ RR!IsInjective(q) /\ RR!Range(q) = Tasks
  BY <1>8 DEF IsInjective, Range, RR!IsInjective, RR!Range
<1> QED BY <1>6, <1>7, <1>9 DEF RR!Init

\* Leaving the tasks, the queue and the timers alone is invisible.
LEMMA Invisible ==
    ASSUME cur' = cur, ready' = ready, handler # "hung", handler' # "hung",
           \A t \in Tasks : HasTimer(t)' <=> HasTimer(t)
    PROVE  UNCHANGED RR!rrVars
<1> QED BY DEF RR!rrVars

\* Every step of the program is a step of the round robin or invisible to it.
LEMMA NextRefines == IInv /\ [Next]_vars => [RR!Next]_(RR!rrVars)
<1> SUFFICES ASSUME IInv, [Next]_vars PROVE [RR!Next]_(RR!rrVars)
  OBVIOUS
<1> USE DEF IInv
<1> DEFINE queue == IF handler = "hung" THEN <<>> ELSE <<cur>> \o ready
           asleep == {t \in Tasks : HasTimer(t)}
<1>1. CASE \E t \in Tasks : TaskStep(t)
  <2>1. handler = "off" /\ UNCHANGED <<cur, ready, timers, handler>>
    BY <1>1 DEF TaskStep, SleepCall, SleepStamp, SleepReturn, Executing
  <2> QED BY <2>1, Invisible DEF HasTimer
<1>2. CASE Tick
  BY <1>2, Invisible DEF Tick, HasTimer
<1>3. ASSUME NEW t \in Tasks, NEW i \in DOMAIN timers[t], Expire(t, i)
      PROVE  RR!Wake(t)
  <2>1. timers[t] \in Seq(Nat) /\ HasTimer(t) /\ Len(timers[t]) = 1
    <3>1. timers[t] \in Seq(Nat) /\ timers[t] # <<>>
      BY LenProperties, EmptySeq DEF TypeOK
    <3> QED BY <3>1, EmptySeq DEF OnePlace, HasTimer
  <2>2. handler = "timers" /\ ~InReady(t)
    BY <1>3, <2>1 DEF Expire, OnePlace
  <2>3. /\ ready' = Append(ready, t)
        /\ timers' = [timers EXCEPT ![t] = <<>>]
        /\ cur' = cur /\ handler' = handler
    BY <1>3, <2>1, <2>2, RemoveOnly DEF Expire, Wake, Queued
  <2>4. queue # <<>> /\ queue' = Append(queue, t)
    <3>1. cur \in Tasks /\ ready \in Seq(Tasks)
      BY DEF TypeOK
    <3>2. queue = <<cur>> \o ready /\ queue' = <<cur>> \o Append(ready, t)
      BY <2>2, <2>3
    <3> HIDE DEF queue
    <3> QED BY <3>1, <3>2, Circle
  <2>5. t \in asleep /\ asleep' = asleep \ {t}
    BY <2>1, <2>3 DEF TypeOK, HasTimer
  <2> QED BY <2>4, <2>5 DEF RR!Wake
<1>4. CASE TimersDone
  <2>1. ASSUME NEW t \in Tasks PROVE HasTimer(t)' <=> HasTimer(t)
    <3>1. /\ timers[t] \in Seq(Nat)
          /\ Len(timers[t]) \in Nat
          /\ DOMAIN timers[t] = 1..Len(timers[t])
      BY LenProperties DEF TypeOK
    <3>2. timers'[t] = [i \in 1..Len(timers[t]) |-> timers[t][i] - 1]
      BY <1>4, <3>1 DEF TimersDone
    <3>3. \A i \in 1..Len(timers[t]) : timers[t][i] \in Nat /\ timers[t][i] # 0
      BY <1>4, <3>1, ElementOfSeq DEF TimersDone, Range
    <3>4. timers'[t] \in Seq(Nat) /\ Len(timers'[t]) = Len(timers[t])
      BY <3>1, <3>2, <3>3, IsASeq, LenProperties
    <3> QED BY <3>1, <3>4, EmptySeq DEF HasTimer
  <2>2. cur' = cur /\ ready' = ready /\ handler = "timers" /\ handler' = "dispatch"
    BY <1>4 DEF TimersDone
  <2> QED BY <2>1, <2>2, Invisible
<1>5. ASSUME handler # "hung", Schedule, SliceOver PROVE RR!Rotate
  <2> DEFINE q == Append(ready, cur)
  <2>1. cur \in Tasks /\ ready \in Seq(Tasks) /\ ~InReady(cur)
    BY <1>5 DEF TypeOK, OnePlace
  <2>2. /\ cur' = Head(q) /\ ready' = Tail(q) /\ handler' = "off" /\ timers' = timers
    BY <1>5, <2>1 DEF Schedule, GetNextTask, Queued
  <2>3. q \in Seq(Tasks) /\ q # <<>>
    BY <2>1, AppendProperties
  <2>4. queue' = q
    BY <2>2, <2>3, Circle, HeadTailProperties
  <2>5. queue # <<>> /\ Head(queue) = cur /\ Tail(queue) = ready
    BY <1>5, <2>1, Circle
  <2>6. asleep' = asleep
    BY <2>2 DEF HasTimer
  <2> QED BY <2>4, <2>5, <2>6 DEF RR!Rotate
<1>6. CASE Charge
  BY <1>6, Invisible DEF Charge, HasTimer
<1>7. ASSUME Park \/ ParkHangs PROVE RR!Sleep
  <2>1. /\ handler = "dispatch" /\ collab[cur]
        /\ timers' = [timers EXCEPT ![cur] = Append(@, sleep_ms[cur])]
        /\ cur \in Tasks /\ ready \in Seq(Tasks)
    BY <1>7 DEF Park, ParkHangs, CreateTimer, TypeOK
  <2>2. cur \in Sleepers
    BY <2>1 DEF FlagsMatchPlace, OnlySleepersSleep
  <2>3. \A t \in Tasks : HasTimer(t)' <=> (t = cur \/ HasTimer(t))
    BY <2>1, FirstTimer DEF HasTimer
  <2>4. asleep' = asleep \union {cur}
    BY <2>1, <2>3
  <2>5. queue # <<>> /\ Head(queue) = cur /\ Tail(queue) = ready
    BY <2>1, Circle
  <2>6. queue' = ready
    <3>1. CASE Park
      <4>1. ready # <<>> /\ cur' = Head(ready) /\ ready' = Tail(ready) /\ handler' = "off"
        BY <3>1 DEF Park, GetNextTask
      <4> QED BY <4>1, <2>1, Circle
    <3>2. CASE ParkHangs
      BY <3>2 DEF ParkHangs
    <3> QED BY <1>7, <3>1, <3>2
  <2> QED BY <2>2, <2>4, <2>5, <2>6 DEF RR!Sleep
<1>8. CASE UNCHANGED vars
  BY <1>8 DEF vars, RR!rrVars, HasTimer
<1>9. CASE RunTimer
  BY <1>3, <1>4, <1>9 DEF RunTimer, RR!Next
<1>10. CASE Preempt \/ Sigusr1
  <2>1. handler # "hung" /\ Schedule /\ SliceOver
    BY <1>10 DEF Preempt, Sigusr1
  <2>2. RR!Rotate
    BY <1>5, <2>1
  <2> QED BY <2>2 DEF RR!Next
<1>11. CASE Park \/ ParkHangs
  BY <1>7, <1>11 DEF RR!Next
<1> QED BY <1>1, <1>2, <1>6, <1>8, <1>9, <1>10, <1>11 DEF Next, Dispatch

\* The dispatcher, seen through its ready list and its timers, is a round robin.
THEOREM RefinesRoundRobin == Spec => ImplementsRoundRobin
<1> QED BY IInvariance, InitRefines, NextRefines, PTL
        DEF Spec, ImplementsRoundRobin, RR!Spec

-------------------------------------------------------------------------------
(* The history.                                                              *)

\* The history variables only watch: every step is one of Sched.
LEMMA HStepIsStep == [HNext]_hvars => [Next]_vars
<1> QED BY DEF HNext, HDispatch, HCharge, HTick, HExpire, HReturn, HOther, hvars,
             vars, Next, Dispatch, RunTimer, TaskStep

LEMMA HIInvariance == IInv /\ [HNext]_hvars => IInv'
<1> QED BY HStepIsStep, NextIInv

\* What a dispatch does to the places in the queue: everybody moves up by one, and the
\* task that was current is at the end or has gone to sleep.
LEMMA DispatchRotates ==
    ASSUME IInv, HDispatch
    PROVE  /\ cur \in Tasks /\ cur' \in Tasks
           /\ ready \in Seq(Tasks) /\ ready' \in Seq(Tasks)
           /\ cur' \notin Range(ready') /\ cur \notin Range(ready)
           /\ ready # <<>> => cur' = ready[1]
           /\ \A i \in 1..Len(ready') :
                \/ i + 1 \in 1..Len(ready) /\ ready'[i] = ready[i + 1]
                \/ i = Len(ready') /\ ready'[i] = cur
<1>1. /\ cur \in Tasks /\ ready \in Seq(Tasks) /\ IsInjective(ready)
      /\ cur \notin Range(ready) /\ Len(ready) \in Nat
  BY LenProperties DEF IInv, TypeOK, OnePlace, InReady
<1>2. CASE Park
  <2>1. ready # <<>> /\ cur' = Head(ready) /\ ready' = Tail(ready)
    BY <1>2 DEF Park, GetNextTask
  <2>2. /\ Head(ready) \in Tasks
        /\ Tail(ready) \in Seq(Tasks)
        /\ Range(Tail(ready)) = Range(ready) \ {Head(ready)}
    BY <1>1, <2>1, PopFront
  <2>3. /\ Head(ready) = ready[1]
        /\ Len(Tail(ready)) = Len(ready) - 1
        /\ \A i \in 1..Len(Tail(ready)) : Tail(ready)[i] = ready[i + 1]
    BY <1>1, <2>1, HeadTailProperties
  <2> DEFINE r == Tail(ready)
  <2> HIDE DEF r
  <2>4. \A i \in 1..Len(r) : i + 1 \in 1..Len(ready) /\ r[i] = ready[i + 1]
    BY <1>1, <2>3 DEF r
  <2>5. ready' = r /\ r \in Seq(Tasks) /\ Head(ready) \notin Range(r)
    BY <2>1, <2>2 DEF r
  <2> QED BY <1>1, <2>1, <2>2, <2>3, <2>4, <2>5
<1>3. CASE Preempt \/ Sigusr1
  <2> DEFINE q == Append(ready, cur)
  <2>1. cur' = Head(q) /\ ready' = Tail(q)
    BY <1>1, <1>3 DEF Preempt, Sigusr1, Schedule, GetNextTask, Queued, InReady
  <2>2. /\ q \in Seq(Tasks) /\ q # <<>> /\ IsInjective(q)
    BY <1>1, AppendNew
  <2>3. /\ Len(q) = Len(ready) + 1
        /\ \A i \in 1..Len(ready) : q[i] = ready[i]
        /\ q[Len(ready) + 1] = cur
    BY <1>1, AppendProperties
  <2>4. /\ Head(q) \in Tasks
        /\ Tail(q) \in Seq(Tasks)
        /\ Range(Tail(q)) = Range(q) \ {Head(q)}
    BY <2>2, PopFront
  <2>5. /\ Head(q) = q[1]
        /\ Len(Tail(q)) = Len(q) - 1
        /\ \A i \in 1..Len(Tail(q)) : Tail(q)[i] = q[i + 1]
    BY <2>2, HeadTailProperties
  <2> HIDE DEF q
  <2>6. ready # <<>> => 1 \in 1..Len(ready)
    BY <1>1, EmptySeq
  <2>7. ASSUME NEW i \in 1..Len(Tail(q))
        PROVE  \/ i + 1 \in 1..Len(ready) /\ Tail(q)[i] = ready[i + 1]
               \/ i = Len(Tail(q)) /\ Tail(q)[i] = cur
    <3>1. CASE i = Len(ready)
      BY <3>1, <1>1, <2>3, <2>5
    <3>2. CASE i # Len(ready)
      <4>1. i + 1 \in 1..Len(ready)
        BY <3>2, <1>1, <2>3, <2>5
      <4> QED BY <4>1, <2>3, <2>5
    <3> QED BY <3>1, <3>2
  <2> QED BY <1>1, <2>1, <2>3, <2>4, <2>5, <2>6, <2>7
<1> QED BY <1>2, <1>3 DEF HDispatch

-------------------------------------------------------------------------------
(* A preempted task has had its whole slice.                                 *)

\* The part of the slice that is used and the part that is left make the whole.
UsedIsCharged ==
    /\ used \in Nat
    /\ COUNT_TICKS => used + ticks[cur] = Prio[cur]

LEMMA InitUsed == HInit => UsedIsCharged
<1> SUFFICES ASSUME HInit PROVE UsedIsCharged
  OBVIOUS
<1>1. PICK left \in 0..Prio[Main] : ticks = [Prio EXCEPT ![Main] = left]
  BY DEF HInit, Init
<1>2. Main \in Tasks /\ Prio[Main] \in 0..255 /\ ticks[Main] = left
  BY <1>1, SchedAssumption
<1>3. cur = Main /\ used = Prio[Main] - ticks[Main]
  BY DEF HInit, Init
<1> QED BY <1>2, <1>3 DEF UsedIsCharged

LEMMA UsedStep == IInv /\ UsedIsCharged /\ [HNext]_hvars => UsedIsCharged'
<1> SUFFICES ASSUME IInv, UsedIsCharged, [HNext]_hvars PROVE UsedIsCharged'
  OBVIOUS
<1>0. /\ cur \in Tasks /\ used \in Nat
      /\ ticks \in [Tasks -> 0..255] /\ Prio \in [Tasks -> 0..255]
  BY SchedAssumption DEF IInv, TypeOK, UsedIsCharged
<1>1. CASE HDispatch
  <2>1. used' = 0 /\ cur' \in Tasks
    BY <1>1, DispatchRotates DEF HDispatch
  <2>2. ticks'[cur'] = Prio[cur']
    <3>1. CASE Park
      <4>1. ready # <<>> /\ cur' = Head(ready) /\ ticks' = ticks
        BY <3>1 DEF Park, GetNextTask
      <4>2. Head(ready) \in Tasks /\ Head(ready) \in Range(ready)
        BY <4>1, PopFront DEF IInv, TypeOK, OnePlace
      <4> QED BY <4>1, <4>2 DEF IInv, FlagsMatchPlace, InReady
    <3>2. CASE Preempt \/ Sigusr1
      <4> DEFINE q == Append(ready, cur)
      <4>1. ticks' = [ticks EXCEPT ![cur] = Prio[cur]] /\ cur' = Head(q)
        BY <1>1, <3>2, DispatchRotates
           DEF Preempt, Sigusr1, Schedule, NewSlice, GetNextTask, Queued, InReady
      <4>2. /\ q \in Seq(Tasks) /\ q # <<>> /\ IsInjective(q)
            /\ Range(q) = Range(ready) \union {cur}
        <5>1. /\ ready \in Seq(Tasks) /\ IsInjective(ready)
              /\ cur \in Tasks /\ cur \notin Range(ready)
          BY DEF IInv, TypeOK, OnePlace, InReady
        <5> QED BY <5>1, AppendNew
      <4> HIDE DEF q
      <4>3. Head(q) \in Range(q) /\ Head(q) \in Tasks
        BY <4>2, PopFront
      <4>4. cur' = cur \/ cur' \in Range(ready)
        BY <4>1, <4>2, <4>3
      <4>5. CASE cur' = cur
        BY <4>5, <4>1, <1>0
      <4>6. CASE cur' # cur
        <5>1. ticks'[cur'] = ticks[cur']
          BY <4>6, <4>1, <4>3, <1>0
        <5> QED BY <5>1, <4>4, <4>6, <4>1, <4>3 DEF IInv, FlagsMatchPlace, InReady
      <4> QED BY <4>5, <4>6
    <3> QED BY <1>1, <3>1, <3>2 DEF HDispatch
  <2> QED BY <2>1, <2>2, <1>0 DEF UsedIsCharged
<1>2. CASE HCharge
  <2>1. /\ used' = used + 1 /\ cur' = cur
        /\ ticks' = [ticks EXCEPT ![cur] = @ - 1]
    BY <1>2 DEF HCharge, Charge
  <2>2. ticks'[cur'] = ticks[cur] - 1 /\ ticks[cur] \in Nat /\ Prio[cur] \in Nat
    BY <2>1, <1>0
  <2> QED BY <2>1, <2>2, <1>0 DEF UsedIsCharged
<1>3. CASE HTick \/ HReturn
  BY <1>3 DEF HTick, HReturn, Tick, SleepReturn, taskVars, UsedIsCharged
<1>4. CASE HExpire \/ HOther
  <2>1. used' = used
    BY <1>4 DEF HExpire, HOther, histVars
  <2>2. cur' = cur
    BY <1>4 DEF HExpire, HOther, SleepCall, SleepStamp, ParkHangs, Expire, Panic,
                TimersDone
  <2>3. ticks'[cur] = ticks[cur]
    <3>1. ASSUME NEW t \in Tasks, NEW i \in DOMAIN timers[t], Expire(t, i)
          PROVE  ticks'[cur] = ticks[cur]
      <4>1. CASE InReady(t)
        BY <3>1, <4>1 DEF Expire, Panic, taskVars
      <4>2. CASE ~InReady(t)
        <5>1. t # cur
          <6>1. HasTimer(t)
            BY LenProperties, EmptySeq DEF HasTimer, IInv, TypeOK
          <6> QED BY <6>1, <3>1 DEF IInv, OnePlace, Expire
        <5>2. ticks' = [ticks EXCEPT ![t] = Prio[t]]
          BY <3>1, <4>2 DEF Expire, Wake, NewSlice
        <5> QED BY <5>1, <5>2, <1>0
      <4> QED BY <4>1, <4>2
    <3>2. CASE TimersDone
      BY <3>2 DEF TimersDone, taskVars
    <3>3. CASE ParkHangs \/ \E t \in Tasks : SleepCall(t) \/ SleepStamp(t)
      BY <3>3 DEF ParkHangs, SleepCall, SleepStamp, taskVars
    <3> QED BY <1>4, <3>1, <3>2, <3>3 DEF HExpire, HOther
  <2> QED BY <2>1, <2>2, <2>3, <1>0 DEF UsedIsCharged
<1>5. CASE UNCHANGED hvars
  BY <1>5 DEF hvars, histVars, vars, taskVars, UsedIsCharged
<1> QED BY <1>1, <1>2, <1>3, <1>4, <1>5 DEF HNext

\* In User_Schedule a task that is preempted has been charged exactly its priority in
\* ticks since it was dispatched.
THEOREM SlicesAreFull ==
    ASSUME COUNT_TICKS
    PROVE  HSpec => FullSlice
<1>1. HInit => IInv /\ UsedIsCharged
  BY InitIInv, InitUsed DEF HInit
<1>2. IInv /\ UsedIsCharged /\ [HNext]_hvars => (IInv /\ UsedIsCharged)'
  BY HIInvariance, UsedStep
<1>3. IInv /\ UsedIsCharged /\ [HNext]_hvars
        => [Preempt \/ Sigusr1 => used = Prio[cur]]_hvars
  <2> SUFFICES ASSUME IInv, UsedIsCharged, Preempt \/ Sigusr1
               PROVE  used = Prio[cur]
    OBVIOUS
  <2>1. ticks[cur] = 0
    BY DEF Preempt, Sigusr1, SliceOver
  <2> QED BY <2>1 DEF UsedIsCharged
<1> QED BY <1>1, <1>2, <1>3, PTL DEF HSpec, FullSlice

-------------------------------------------------------------------------------
(* Bounded waiting.                                                          *)

\* Whoever was dispatched since a task was queued is now behind it in the queue, or has
\* left: nobody in front of it, nor itself, is among them.
PassedBehind ==
    /\ passed \in [Tasks -> SUBSET Tasks]
    /\ \A t \in Tasks \ Range(ready) : passed[t] = {}
    /\ \A i \in 1..Len(ready) : \A j \in 1..i : ready[j] \notin passed[ready[i]]

LEMMA PassedUnchanged ==
    ASSUME PassedBehind, passed' = passed, ready' = ready
    PROVE  PassedBehind'
<1> QED BY DEF PassedBehind

LEMMA PassedDispatch ==
    ASSUME IInv, PassedBehind, HDispatch
    PROVE  PassedBehind'
<1>1. passed' = [t \in Tasks |->
         IF t \in Range(ready') THEN passed[t] \union {cur'} ELSE {}]
  BY DEF HDispatch
<1>2. /\ cur \in Tasks /\ cur' \in Tasks
      /\ ready \in Seq(Tasks) /\ ready' \in Seq(Tasks)
      /\ cur' \notin Range(ready') /\ cur \notin Range(ready)
      /\ \A i \in 1..Len(ready') :
           \/ i + 1 \in 1..Len(ready) /\ ready'[i] = ready[i + 1]
           \/ i = Len(ready') /\ ready'[i] = cur
  BY DispatchRotates
<1>3. passed' \in [Tasks -> SUBSET Tasks]
  BY <1>1, <1>2 DEF PassedBehind
<1>4. \A t \in Tasks \ Range(ready') : passed'[t] = {}
  BY <1>1
<1>5. ASSUME NEW i \in 1..Len(ready'), NEW j \in 1..i
      PROVE  ready'[j] \notin passed'[ready'[i]]
  <2>1. Len(ready') \in Nat /\ DOMAIN ready' = 1..Len(ready') /\ Len(ready) \in Nat
    BY <1>2, LenProperties
  <2>2. /\ j \in 1..Len(ready')
        /\ ready'[i] \in Tasks /\ ready'[i] \in Range(ready')
        /\ ready'[j] \in Range(ready')
    <3>1. j \in 1..Len(ready')
      BY <2>1
    <3>2. ready'[i] \in Tasks
      BY <1>2, ElementOfSeq
    <3> QED BY <2>1, <3>1, <3>2 DEF Range
  <2>3. passed'[ready'[i]] = passed[ready'[i]] \union {cur'}
    BY <1>1, <2>2
  <2>4. ready'[j] # cur'
    BY <1>2, <2>2
  <2>5. ready'[j] \notin passed[ready'[i]]
    <3>1. CASE i = Len(ready') /\ ready'[i] = cur
      BY <3>1, <1>2 DEF PassedBehind
    <3>2. CASE i + 1 \in 1..Len(ready) /\ ready'[i] = ready[i + 1]
      <4>1. CASE j + 1 \in 1..Len(ready) /\ ready'[j] = ready[j + 1]
        <5>1. j + 1 \in 1..(i + 1)
          BY <2>1
        <5> QED BY <3>2, <4>1, <5>1 DEF PassedBehind
      <4>2. CASE j = Len(ready') /\ ready'[j] = cur
        <5>1. j = i
          BY <4>2, <2>1
        <5>2. i + 1 \in 1..(i + 1)
          BY <2>1
        <5> QED BY <3>2, <5>1, <5>2 DEF PassedBehind
      <4> QED BY <4>1, <4>2, <1>2, <2>2
    <3> QED BY <3>1, <3>2, <1>2
  <2> QED BY <2>3, <2>4, <2>5
<1> QED BY <1>3, <1>4, <1>5 DEF PassedBehind

\* A task that wakes up goes to the end of the queue, and starts to count there.
LEMMA PassedExpire ==
    ASSUME IInv, PassedBehind, passed' = passed,
           NEW t \in Tasks, NEW i \in DOMAIN timers[t], Expire(t, i)
    PROVE  PassedBehind'
<1>1. CASE InReady(t)
  BY <1>1, PassedUnchanged DEF Expire, Panic
<1>2. CASE ~InReady(t)
  <2>1. /\ ready' = Append(ready, t)
        /\ ready \in Seq(Tasks) /\ IsInjective(ready) /\ t \notin Range(ready)
    BY <1>2 DEF Expire, Wake, Queued, InReady, IInv, TypeOK, OnePlace
  <2>2. Range(ready') = Range(ready) \union {t}
    BY <2>1, AppendNew
  <2>3. /\ Len(ready) \in Nat /\ Len(ready') = Len(ready) + 1
        /\ \A k \in 1..Len(ready) : ready'[k] = ready[k]
        /\ ready'[Len(ready) + 1] = t
    BY <2>1, AppendProperties, LenProperties
  <2>4. \A k \in 1..Len(ready') : k \in 1..Len(ready) \/ k = Len(ready) + 1
    BY <2>3
  <2>5. ASSUME NEW k \in 1..Len(ready'), NEW j \in 1..k
        PROVE  ready'[j] \notin passed[ready'[k]]
    <3>1. CASE k \in 1..Len(ready)
      <4>1. j \in 1..Len(ready)
        BY <3>1, <2>3
      <4> QED BY <3>1, <4>1, <2>3 DEF PassedBehind
    <3>2. CASE k = Len(ready) + 1
      BY <3>2, <2>1, <2>3 DEF PassedBehind
    <3> QED BY <3>1, <3>2, <2>4
  <2> QED BY <2>2, <2>5 DEF PassedBehind
<1> QED BY <1>1, <1>2

LEMMA PassedStep == IInv /\ PassedBehind /\ [HNext]_hvars => PassedBehind'
<1> SUFFICES ASSUME IInv, PassedBehind, [HNext]_hvars PROVE PassedBehind'
  OBVIOUS
<1>1. CASE HDispatch
  BY <1>1, PassedDispatch
<1>2. CASE HCharge \/ HTick \/ HReturn \/ UNCHANGED hvars
  BY <1>2, PassedUnchanged
     DEF HCharge, Charge, HTick, Tick, HReturn, SleepReturn, hvars, vars, histVars
<1>3. CASE HExpire \/ HOther
  <2>1. passed' = passed
    BY <1>3 DEF HExpire, HOther, histVars
  <2>2. CASE \E t \in Tasks : \E i \in DOMAIN timers[t] : Expire(t, i)
    BY <2>1, <2>2, PassedExpire
  <2>3. CASE TimersDone \/ ParkHangs \/ \E t \in Tasks : SleepCall(t) \/ SleepStamp(t)
    BY <2>1, <2>3, PassedUnchanged
       DEF TimersDone, ParkHangs, SleepCall, SleepStamp, taskVars
  <2> QED BY <1>3, <2>2, <2>3 DEF HExpire, HOther
<1> QED BY <1>1, <1>2, <1>3 DEF HNext

\* While a task waits in the ready list nobody is dispatched twice.
THEOREM WaitingIsBounded == HSpec => NoSecondTurn
<1>1. HInit => IInv /\ PassedBehind
  <2> SUFFICES ASSUME HInit PROVE PassedBehind
    BY InitIInv DEF HInit
  <2>1. ready \in Seq(Tasks) /\ passed = [t \in Tasks |-> {}]
    BY SchedAssumption DEF HInit, Init
  <2>2. \A i \in 1..Len(ready) : ready[i] \in Tasks
    BY <2>1, ElementOfSeq
  <2> QED BY <2>1, <2>2 DEF PassedBehind
<1>2. IInv /\ PassedBehind /\ [HNext]_hvars => (IInv /\ PassedBehind)'
  BY HIInvariance, PassedStep
<1>3. IInv /\ PassedBehind
        => [\A t \in Tasks : HDispatch /\ InReady(t) => cur' \notin passed[t]]_hvars
  <2> SUFFICES ASSUME IInv, PassedBehind, NEW t \in Tasks, HDispatch, InReady(t)
               PROVE  cur' \notin passed[t]
    OBVIOUS
  <2>1. ready \in Seq(Tasks) /\ Len(ready) \in Nat /\ DOMAIN ready = 1..Len(ready)
    BY LenProperties DEF IInv, TypeOK
  <2>2. PICK i \in 1..Len(ready) : ready[i] = t
    BY <2>1 DEF InReady, Range
  <2>3. 1 \in 1..i /\ ready # <<>>
    BY <2>1, <2>2, EmptySeq
  <2>4. cur' = ready[1]
    BY <2>3, DispatchRotates
  <2> QED BY <2>2, <2>3, <2>4 DEF PassedBehind
<1> QED BY <1>1, <1>2, <1>3, PTL DEF HSpec, NoSecondTurn

-------------------------------------------------------------------------------
(* sleep() is long enough, or there is a reason.                             *)

\* Nothing has happened to this sleep() of t that makes it short.
Clean(t) == clean[t] /\ ~hurried[t]

\* What is left on the timer and what has been slept make the argument.  During
\* run_timer the tick is counted in one of them only.  Before its timer is made, a clean
\* sleeper is the current task: up to its second store not even in the handler.
SleptAndLeft(t) ==
    /\ arg[t] < SleptCap
    /\ pc[t] = "flagged" /\ clean[t] =>
         collab[t] /\ ~HasTimer(t) /\ t = cur /\ handler = "off"
    /\ pc[t] = "spin" /\ Clean(t) /\ collab[t] /\ ~HasTimer(t) =>
         t = cur /\ sleep_ms[t] = arg[t]
    /\ pc[t] = "spin" /\ Clean(t) /\ HasTimer(t) =>
         /\ timers[t][1] <= arg[t]
         /\ IF handler = "timers"
            THEN slept[t] + timers[t][1] > arg[t]
            ELSE slept[t] + timers[t][1] >= arg[t]
    /\ pc[t] = "spin" /\ Clean(t) /\ ~collab[t] => slept[t] >= arg[t]

SleepInv ==
    /\ slept \in [Tasks -> 0..SleptCap]
    /\ clean \in [Tasks -> BOOLEAN]
    /\ hurried \in [Tasks -> BOOLEAN]
    /\ \A t \in Tasks : SleptAndLeft(t)

\* The types the proofs below need.
LEMMA SleepTypes ==
    ASSUME IInv, SleepInv, NEW t \in Tasks
    PROVE  /\ cur \in Tasks /\ SleptCap \in Nat \ {0} /\ WheelSpan \in Nat
           /\ arg[t] \in Nat /\ slept[t] \in Nat /\ sleep_ms[t] \in Nat
           /\ timers[t] \in Seq(Nat) /\ Len(timers[t]) \in {0, 1}
           /\ HasTimer(t) => timers[t][1] \in Nat /\ DOMAIN timers[t] = {1}
           /\ SleptAndLeft(t)
<1>1. timers[t] \in Seq(Nat) /\ Len(timers[t]) \in {0, 1}
  BY DEF IInv, TypeOK, OnePlace
<1>2. HasTimer(t) => timers[t][1] \in Nat /\ DOMAIN timers[t] = {1}
  <2> SUFFICES ASSUME HasTimer(t)
               PROVE  timers[t][1] \in Nat /\ DOMAIN timers[t] = {1}
    OBVIOUS
  <2>1. Len(timers[t]) = 1
    BY <1>1, EmptySeq DEF HasTimer
  <2>2. DOMAIN timers[t] = 1..1 /\ 1 \in 1..1
    BY <1>1, <2>1, LenProperties
  <2> QED BY <1>1, <2>1, <2>2, ElementOfSeq
<1> QED BY <1>1, <1>2, SchedAssumption, HistoryAssumption DEF IInv, TypeOK, SleepInv

\* A step that leaves everything of t alone, the handler's phase and the current task
\* aside.
LEMMA SleepFrame ==
    ASSUME IInv, SleepInv, NEW t \in Tasks,
           arg'[t] = arg[t], pc'[t] = pc[t], clean'[t] = clean[t], slept'[t] = slept[t],
           hurried'[t] = hurried[t],
           collab'[t] = collab[t], timers'[t] = timers[t], sleep_ms'[t] = sleep_ms[t],
           (handler' = handler /\ cur' = cur) \/
             (handler' # "timers" /\ ~(clean[t] /\ pc[t] = "flagged") /\
                ~(Clean(t) /\ pc[t] = "spin" /\ collab[t] /\ ~HasTimer(t)))
    PROVE  SleptAndLeft(t)'
<1>1. /\ SleptAndLeft(t)
      /\ arg[t] \in Nat /\ slept[t] \in Nat
      /\ HasTimer(t) => timers[t][1] \in Nat
  BY SleepTypes
<1> QED BY <1>1 DEF SleptAndLeft, Clean, HasTimer

LEMMA SleepTaskStep ==
    ASSUME IInv, SleepInv, NEW s \in Tasks, NEW t \in Tasks, histVars' = histVars,
           SleepCall(s) \/ SleepStamp(s)
    PROVE  SleptAndLeft(t)'
<1>0. /\ SleptAndLeft(t) /\ arg[t] \in Nat
      /\ slept' = slept /\ clean' = clean /\ hurried' = hurried /\ cur' = cur
      /\ timers' = timers
      /\ handler' = handler /\ handler = "off" /\ cur = s
  BY SleepTypes DEF histVars, sleepHist, SleepCall, SleepStamp, Executing
<1>1. /\ pc \in [Tasks -> {"run", "flagged", "spin"}] /\ arg \in [Tasks -> Nat]
      /\ collab \in [Tasks -> BOOLEAN] /\ sleep_ms \in [Tasks -> Nat]
  BY DEF IInv, TypeOK
<1>2. CASE s # t
  <2>1. /\ arg'[t] = arg[t] /\ pc'[t] = pc[t] /\ collab'[t] = collab[t]
        /\ sleep_ms'[t] = sleep_ms[t]
    BY <1>1, <1>2 DEF SleepCall, SleepStamp
  <2> QED BY <2>1, <1>0, SleepFrame
<1>3. CASE s = t /\ SleepCall(t)
  <2>1. pc[t] = "run" /\ pc'[t] = "flagged" /\ collab'[t] /\ arg'[t] \in Delays
    BY <1>1, <1>3 DEF SleepCall
  <2>2. ~HasTimer(t)
    BY <2>1 DEF IInv, FlagsMatchPlace
  <2>3. arg'[t] < SleptCap
    BY <2>1, HistoryAssumption
  <2> QED BY <1>0, <1>3, <2>1, <2>2, <2>3 DEF SleptAndLeft, Clean, HasTimer
<1>4. CASE s = t /\ SleepStamp(t)
  <2>1. /\ pc[t] = "flagged" /\ pc'[t] = "spin" /\ collab' = collab /\ arg' = arg
        /\ sleep_ms'[t] = arg[t]
    BY <1>1, <1>4 DEF SleepStamp
  <2> QED BY <1>0, <1>4, <2>1 DEF SleptAndLeft, Clean, HasTimer
<1> QED BY <1>2, <1>3, <1>4

LEMMA SleepTick ==
    ASSUME IInv, SleepInv, NEW t \in Tasks, HTick
    PROVE  SleptAndLeft(t)'
<1>1. /\ SleptAndLeft(t) /\ cur \in Tasks /\ SleptCap \in Nat
      /\ arg[t] \in Nat /\ slept[t] \in Nat /\ slept[t] <= SleptCap
      /\ HasTimer(t) => timers[t][1] \in Nat
  BY SleepTypes DEF SleepInv
<1>2. /\ handler = "off" /\ cur' = cur /\ collab' = collab /\ sleep_ms' = sleep_ms
      /\ timers' = timers /\ pc' = pc /\ arg' = arg
  BY DEF HTick, Tick, taskVars
<1>3. /\ slept'[t] = IF pc[t] # "run" /\ slept[t] < SleptCap THEN slept[t] + 1 ELSE slept[t]
      /\ clean' = [clean EXCEPT ![cur] = @ /\ pc[cur] # "flagged"]
      /\ hurried' = hurried
  BY DEF HTick
<1>4. /\ clean'[t] => clean[t]
      /\ clean'[t] /\ t = cur => pc[t] # "flagged"
  BY <1>1, <1>3 DEF SleepInv
<1>5. slept'[t] >= slept[t] /\ (pc[t] = "spin" => slept'[t] > slept[t] \/ slept'[t] > arg[t])
  BY <1>1, <1>3 DEF SleptAndLeft
<1>6. slept'[t] \in Nat
  BY <1>1, <1>3
<1> QED BY <1>1, <1>2, <1>3, <1>4, <1>5, <1>6 DEF SleptAndLeft, Clean, HasTimer

LEMMA SleepReturned ==
    ASSUME IInv, SleepInv, NEW t \in Tasks, HReturn
    PROVE  SleptAndLeft(t)'
<1>1. PICK s \in Tasks :
        /\ SleepReturn(s)
        /\ slept' = [slept EXCEPT ![s] = 0]
        /\ clean' = [clean EXCEPT ![s] = TRUE]
        /\ hurried' = [hurried EXCEPT ![s] = FALSE]
  BY DEF HReturn
<1>2. /\ cur' = cur /\ handler' = handler /\ collab' = collab /\ sleep_ms' = sleep_ms
      /\ timers' = timers
      /\ pc' = [pc EXCEPT ![s] = "run"] /\ arg' = [arg EXCEPT ![s] = 0]
  BY <1>1 DEF SleepReturn, taskVars
<1>3. /\ pc \in [Tasks -> {"run", "flagged", "spin"}] /\ arg \in [Tasks -> Nat]
      /\ slept \in [Tasks -> 0..SleptCap] /\ clean \in [Tasks -> BOOLEAN]
      /\ hurried \in [Tasks -> BOOLEAN]
  BY DEF IInv, TypeOK, SleepInv
<1>4. CASE s = t
  <2>1. pc'[t] = "run" /\ arg'[t] = 0 /\ 0 < SleptCap
    BY <1>2, <1>3, <1>4, SleepTypes
  <2> QED BY <2>1 DEF SleptAndLeft
<1>5. CASE s # t
  <2>1. arg'[t] = arg[t] /\ pc'[t] = pc[t] /\ clean'[t] = clean[t] /\ slept'[t] = slept[t]
        /\ hurried'[t] = hurried[t]
    BY <1>1, <1>2, <1>3, <1>5
  <2> QED BY <2>1, <1>2, SleepFrame
<1> QED BY <1>4, <1>5

\* The callback: a timer has nothing left, or is recorded as too early.
LEMMA SleepExpire ==
    ASSUME IInv, SleepInv, NEW t \in Tasks, slept' = slept, clean' = clean,
           NEW s \in Tasks, NEW i \in DOMAIN timers[s], Expire(s, i),
           hurried' = [hurried EXCEPT ![s] = @ \/ timers[s][i] # 0]
    PROVE  SleptAndLeft(t)'
<1>1. slept' = slept /\ clean' = clean /\ handler = "timers"
  BY DEF Expire
<1>2. HasTimer(s) /\ s # cur /\ ~InReady(s)
  <2>1. HasTimer(s)
    BY LenProperties, EmptySeq DEF HasTimer, IInv, TypeOK
  <2> QED BY <2>1, <1>1 DEF IInv, OnePlace
<1>3. /\ cur' = cur /\ handler' = handler /\ pc' = pc /\ arg' = arg
      /\ collab' = [collab EXCEPT ![s] = FALSE]
      /\ sleep_ms' = [sleep_ms EXCEPT ![s] = 0]
      /\ timers' = [timers EXCEPT ![s] = RemoveAt(@, i)]
      /\ timers[s][i] = 0 \/ timers[s][i] >= WheelSpan
  BY <1>2 DEF Expire, Wake, EndSleep, EndTimeout
<1>4. /\ collab \in [Tasks -> BOOLEAN] /\ sleep_ms \in [Tasks -> Nat]
      /\ timers \in [Tasks -> Seq(Nat)] /\ hurried \in [Tasks -> BOOLEAN]
  BY DEF IInv, TypeOK, SleepInv
<1>5. CASE s # t
  <2>1. collab'[t] = collab[t] /\ sleep_ms'[t] = sleep_ms[t] /\ timers'[t] = timers[t]
        /\ hurried'[t] = hurried[t]
    BY <1>3, <1>4, <1>5
  <2> QED BY <2>1, <1>1, <1>3, SleepFrame
<1>6. CASE s = t
  <2>1. /\ SleptAndLeft(t) /\ arg[t] \in Nat /\ slept[t] \in Nat /\ WheelSpan \in Nat
        /\ DOMAIN timers[t] = {1} /\ timers[t][1] \in Nat
    BY <1>2, <1>6, SleepTypes
  <2>2. ~collab'[t]
    BY <1>3, <1>4, <1>6
  <2>3. i = 1
    BY <2>1, <1>6
  <2>4. pc[t] = "spin" /\ Clean(t)' => slept[t] >= arg[t]
    <3> SUFFICES ASSUME pc[t] = "spin", Clean(t)' PROVE slept[t] >= arg[t]
      OBVIOUS
    <3>1. ~hurried'[t] /\ clean[t]
      BY <1>1 DEF Clean
    <3>2. ~hurried[t] /\ timers[t][1] = 0
      BY <1>4, <1>6, <2>3, <3>1
    <3> QED BY <1>1, <1>2, <1>6, <2>1, <3>1, <3>2 DEF SleptAndLeft, Clean
  <2>5. ~(pc[t] = "flagged" /\ clean[t])
    BY <1>2, <1>6, <2>1 DEF SleptAndLeft
  <2>6. ~HasTimer(t)'
    <3>1. timers[t] \in Seq(Nat) /\ Len(timers[t]) = 1
      <4>1. timers[t] \in Seq(Nat) /\ Len(timers[t]) \in {0, 1}
        BY SleepTypes
      <4> QED BY <4>1, <1>2, <1>6, EmptySeq DEF HasTimer
    <3>2. RemoveAt(timers[t], i) = <<>>
      BY <3>1, <1>6, RemoveOnly
    <3> QED BY <1>3, <1>4, <1>6, <3>2 DEF HasTimer
  <2> QED BY <1>1, <1>3, <2>1, <2>2, <2>4, <2>5, <2>6 DEF SleptAndLeft, Clean
<1> QED BY <1>5, <1>6

\* The end of run_timer: the tick that has been slept is taken off the timers.
LEMMA SleepTimersDone ==
    ASSUME IInv, SleepInv, NEW t \in Tasks, sleepHist' = sleepHist, TimersDone
    PROVE  SleptAndLeft(t)'
<1>1. /\ SleptAndLeft(t) /\ arg[t] \in Nat /\ slept[t] \in Nat
      /\ timers[t] \in Seq(Nat) /\ Len(timers[t]) \in {0, 1}
      /\ HasTimer(t) => timers[t][1] \in Nat /\ DOMAIN timers[t] = {1}
  BY SleepTypes
<1>2. /\ slept' = slept /\ clean' = clean /\ hurried' = hurried
      /\ cur' = cur /\ pc' = pc /\ arg' = arg
      /\ collab' = collab /\ sleep_ms' = sleep_ms
      /\ handler = "timers" /\ handler' = "dispatch"
      /\ timers'[t] = [i \in DOMAIN timers[t] |-> timers[t][i] - 1]
      /\ 0 \notin Range(timers[t])
  BY DEF sleepHist, TimersDone, taskVars
<1>3. CASE HasTimer(t)
  <2>1. timers[t][1] \in Nat /\ timers[t][1] # 0 /\ DOMAIN timers[t] = {1}
    BY <1>1, <1>2, <1>3 DEF Range
  <2>2. timers'[t][1] = timers[t][1] - 1
    BY <1>2, <2>1
  <2>3. timers'[t] # <<>>
    <3>1. DOMAIN timers'[t] = {1}
      BY <1>2, <2>1
    <3> QED BY <3>1
  <2> QED BY <1>1, <1>2, <1>3, <2>1, <2>2, <2>3 DEF SleptAndLeft, Clean, HasTimer
<1>4. CASE ~HasTimer(t)
  <2>1. timers'[t] = <<>>
    BY <1>2, <1>4 DEF HasTimer
  <2>2. ~(pc[t] = "flagged" /\ clean[t])
    BY <1>1, <1>2 DEF SleptAndLeft
  <2>3. timers'[t] = timers[t]
    BY <1>4, <2>1 DEF HasTimer
  <2>4. SleptAndLeft(t) /\ arg[t] \in Nat /\ slept[t] \in Nat
    BY <1>1
  <2>5. /\ slept' = slept /\ clean' = clean /\ hurried' = hurried /\ cur' = cur /\ pc' = pc /\ arg' = arg
        /\ collab' = collab /\ sleep_ms' = sleep_ms
    BY <1>2
  <2> QED BY <1>4, <2>2, <2>3, <2>4, <2>5 DEF SleptAndLeft, Clean, HasTimer
<1> QED BY <1>3, <1>4

\* Parking: the timer gets the argument.
LEMMA SleepPark ==
    ASSUME IInv, SleepInv, NEW t \in Tasks, slept' = slept, clean' = clean,
           hurried' = hurried,
           Park \/ ParkHangs
    PROVE  SleptAndLeft(t)'
<1>1. /\ handler = "dispatch" /\ handler' \in {"off", "hung"} /\ pc' = pc /\ arg' = arg
      /\ collab' = collab /\ sleep_ms' = sleep_ms
      /\ timers' = [timers EXCEPT ![cur] = Append(@, sleep_ms[cur])]
  BY DEF Park, ParkHangs, CreateTimer, taskVars
<1>2. /\ SleptAndLeft(t) /\ cur \in Tasks
      /\ arg[t] \in Nat /\ slept[t] \in Nat /\ sleep_ms[t] \in Nat
      /\ timers \in [Tasks -> Seq(Nat)]
  BY SleepTypes DEF IInv, TypeOK
<1>3. ~(pc[t] = "flagged" /\ clean[t])
  BY <1>1, <1>2 DEF SleptAndLeft
<1>4. CASE t # cur
  <2>1. timers'[t] = timers[t]
    BY <1>1, <1>2, <1>4
  <2>2. ~(Clean(t) /\ pc[t] = "spin" /\ collab[t] /\ ~HasTimer(t))
    BY <1>2, <1>4 DEF SleptAndLeft
  <2>3. arg'[t] = arg[t] /\ pc'[t] = pc[t] /\ collab'[t] = collab[t]
        /\ sleep_ms'[t] = sleep_ms[t] /\ clean'[t] = clean[t] /\ slept'[t] = slept[t]
        /\ hurried'[t] = hurried[t] /\ handler' # "timers" /\ ~(clean[t] /\ pc[t] = "flagged")
    BY <1>1, <1>3
  <2> QED BY <2>1, <2>2, <2>3, SleepFrame
<1>5. CASE t = cur
  <2>1. timers[t] = <<>> /\ ~HasTimer(t) /\ collab[t]
    BY <1>1, <1>2, <1>5 DEF IInv, OnePlace, HasTimer, Park, ParkHangs
  <2>2. timers'[t] = Append(<<>>, sleep_ms[t])
    BY <1>1, <1>2, <1>5, <2>1
  <2>3. timers'[t][1] = sleep_ms[t] /\ timers'[t] # <<>>
    <3>1. <<>> \in Seq(Nat) /\ Len(<<>>) = 0
      OBVIOUS
    <3> QED BY <1>2, <2>2, <3>1, AppendProperties
  <2>4. pc[t] = "spin" /\ Clean(t) => sleep_ms[t] = arg[t]
    BY <1>2, <2>1 DEF SleptAndLeft
  <2>5. handler' # "timers"
    BY <1>1
  <2>6. arg' = arg /\ pc' = pc /\ collab'[t] /\ Clean(t)' = Clean(t)
    BY <1>1, <2>1 DEF Clean
  <2> QED BY <1>2, <1>3, <2>3, <2>4, <2>5, <2>6 DEF SleptAndLeft, HasTimer
<1> QED BY <1>4, <1>5

\* A dispatch of a task that is not asleep, and a tick that is only counted.
LEMMA SleepSwitch ==
    ASSUME IInv, SleepInv, NEW t \in Tasks, slept' = slept, clean' = clean,
           hurried' = hurried,
           Preempt \/ Sigusr1 \/ Charge
    PROVE  SleptAndLeft(t)'
<1>1. cur \in Tasks /\ ~InReady(cur) /\ SleptAndLeft(t)
  BY SleepTypes DEF IInv, OnePlace
<1>2. /\ ~collab[cur] /\ handler' = "off" /\ pc' = pc /\ arg' = arg
      /\ collab' = collab /\ sleep_ms' = sleep_ms /\ timers' = timers
  BY <1>1 DEF Preempt, Sigusr1, SliceOver, Schedule, Charge
<1>3. /\ ~(clean[t] /\ pc[t] = "flagged")
      /\ ~(Clean(t) /\ pc[t] = "spin" /\ collab[t] /\ ~HasTimer(t))
  BY <1>1, <1>2 DEF SleptAndLeft
<1> QED BY <1>2, <1>3, SleepFrame

LEMMA SleepStep == IInv /\ SleepInv /\ [HNext]_hvars => SleepInv'
<1> SUFFICES ASSUME IInv, SleepInv, [HNext]_hvars PROVE SleepInv'
  OBVIOUS
<1>1. /\ slept' \in [Tasks -> 0..SleptCap] /\ clean' \in [Tasks -> BOOLEAN]
      /\ hurried' \in [Tasks -> BOOLEAN]
  <2>1. CASE HTick
    <3>1. \A t \in Tasks : slept[t] \in 0..SleptCap /\ SleptCap \in Nat
      BY HistoryAssumption DEF SleepInv
    <3>2. \A t \in Tasks :
            (IF pc[t] # "run" /\ slept[t] < SleptCap THEN slept[t] + 1 ELSE slept[t])
              \in 0..SleptCap
      BY <3>1
    <3>3. slept' \in [Tasks -> 0..SleptCap]
      BY <2>1, <3>2 DEF HTick
    <3>4. clean' = [clean EXCEPT ![cur] = @ /\ pc[cur] # "flagged"] /\ hurried' = hurried
      BY <2>1 DEF HTick
    <3>5. clean' \in [Tasks -> BOOLEAN]
      BY <3>4, Zenon DEF SleepInv
    <3> QED BY <3>3, <3>4, <3>5 DEF SleepInv
  <2>2. CASE HReturn
    BY <2>2, HistoryAssumption DEF HReturn, SleepInv
  <2>3. CASE HExpire
    <3>1. slept' = slept /\ clean' = clean
      BY <2>3 DEF HExpire
    <3>2. PICK s \in Tasks : \E i \in DOMAIN timers[s] :
            hurried' = [hurried EXCEPT ![s] = @ \/ timers[s][i] # 0]
      BY <2>3 DEF HExpire
    <3>3. hurried' \in [Tasks -> BOOLEAN]
      BY <3>2, Zenon DEF SleepInv
    <3> QED BY <3>1, <3>3 DEF SleepInv
  <2>4. CASE ~HTick /\ ~HReturn /\ ~HExpire
    BY <2>4 DEF SleepInv, HNext, HDispatch, HCharge, HOther, hvars, histVars, sleepHist
  <2> QED BY <2>1, <2>2, <2>3, <2>4
<1>2. ASSUME NEW t \in Tasks PROVE SleptAndLeft(t)'
  <2>1. CASE HDispatch \/ HCharge
    <3>1. slept' = slept /\ clean' = clean /\ hurried' = hurried
      BY <2>1 DEF HDispatch, HCharge, sleepHist
    <3>2. CASE Park
      BY <3>1, <3>2, SleepPark
    <3>3. CASE Preempt \/ Sigusr1 \/ Charge
      BY <3>1, <3>3, SleepSwitch
    <3> QED BY <2>1, <3>2, <3>3 DEF HDispatch, HCharge
  <2>2. CASE HTick \/ HReturn
    BY <2>2, SleepTick, SleepReturned
  <2>3. CASE HExpire
    <3>1. slept' = slept /\ clean' = clean
      BY <2>3 DEF HExpire
    <3>2. PICK s \in Tasks : \E i \in DOMAIN timers[s] :
            Expire(s, i) /\ hurried' = [hurried EXCEPT ![s] = @ \/ timers[s][i] # 0]
      BY <2>3 DEF HExpire
    <3> QED BY <3>1, <3>2, SleepExpire
  <2>4. CASE HOther
    <3>1. /\ histVars' = histVars /\ sleepHist' = sleepHist
          /\ slept' = slept /\ clean' = clean /\ hurried' = hurried
      BY <2>4 DEF HOther, histVars, sleepHist
    <3>2. CASE TimersDone
      BY <3>1, <3>2, SleepTimersDone
    <3>3. CASE ParkHangs
      BY <3>1, <3>3, SleepPark
    <3>4. CASE \E s \in Tasks : SleepCall(s) \/ SleepStamp(s)
      BY <3>1, <3>4, SleepTaskStep
    <3> QED BY <2>4, <3>2, <3>3, <3>4 DEF HOther
  <2>5. CASE UNCHANGED hvars
    <3>1. /\ arg' = arg /\ pc' = pc /\ clean' = clean /\ slept' = slept /\ cur' = cur
          /\ hurried' = hurried /\ collab' = collab /\ timers' = timers
          /\ sleep_ms' = sleep_ms /\ handler' = handler
      BY <2>5 DEF hvars, histVars, sleepHist, vars, taskVars
    <3> QED BY <3>1, SleepFrame
  <2> QED BY <2>1, <2>2, <2>3, <2>4, <2>5 DEF HNext
<1> QED BY <1>1, <1>2 DEF SleepInv

\* The sleeps are within their bounds from the start and stay so.
LEMMA SleepInvariance == HSpec => [](IInv /\ SleepInv)
<1>1. HInit => IInv /\ SleepInv
  <2> SUFFICES ASSUME HInit PROVE SleepInv
    BY InitIInv DEF HInit
  <2> QED BY HistoryAssumption DEF HInit, Init, SleepInv, SleptAndLeft
<1>2. IInv /\ SleepInv /\ [HNext]_hvars => (IInv /\ SleepInv)'
  BY HIInvariance, SleepStep
<1> QED BY <1>1, <1>2, PTL DEF HSpec

\* A sleep() that returns before its time was cut between its two stores, or its timer was
\* met a lap or more too soon.
THEOREM SleepIsLongEnough == HSpec => []SleptEnough
<1>1. IInv /\ SleepInv => SleptEnough
  <2> SUFFICES ASSUME IInv, SleepInv, NEW t \in Tasks, pc[t] = "spin", ~collab[t],
                      slept[t] < arg[t]
               PROVE  ~clean[t] \/ hurried[t]
    BY DEF SleptEnough
  <2>1. SleptAndLeft(t) /\ arg[t] \in Nat /\ slept[t] \in Nat
    BY SleepTypes
  <2> QED BY <2>1 DEF SleptAndLeft, Clean
<1> QED BY <1>1, SleepInvariance, PTL

-------------------------------------------------------------------------------
(* What a sleep leaves behind.                                               *)

\* A step after which t is in the same part of sleep(), with the same flag and argument,
\* and no timeout that was not there.
LEMMA TimeoutFrame ==
    ASSUME TimeoutsMatchCalls, NEW t \in Tasks,
           pc'[t] = pc[t], arg'[t] = arg[t], stale'[t] = stale[t],
           clean'[t] => clean[t],
           sleep_ms'[t] = 0 \/ (sleep_ms'[t] = sleep_ms[t] /\ collab'[t] = collab[t])
    PROVE  sleep_ms'[t] # 0 =>
             IF pc'[t] = "spin"
             THEN sleep_ms'[t] = arg'[t] /\ (collab'[t] \/ ~clean'[t])
             ELSE stale'[t]
BY DEF TimeoutsMatchCalls

LEMMA TimeoutStep ==
    ASSUME IInv, SleepInv, stale \in [Tasks -> BOOLEAN], TimeoutsMatchCalls, [HNext]_hvars
    PROVE  TimeoutsMatchCalls' /\ stale' \in [Tasks -> BOOLEAN]
<1>1. /\ pc \in [Tasks -> {"run", "flagged", "spin"}] /\ arg \in [Tasks -> Nat]
      /\ collab \in [Tasks -> BOOLEAN] /\ sleep_ms \in [Tasks -> Nat]
      /\ clean \in [Tasks -> BOOLEAN] /\ cur \in Tasks
  BY DEF IInv, TypeOK, SleepInv
<1>2. stale' \in [Tasks -> BOOLEAN]
  BY <1>1 DEF HNext, HDispatch, HCharge, HTick, HExpire, HReturn, HOther, hvars, histVars,
              sleepHist
<1> SUFFICES ASSUME NEW t \in Tasks
             PROVE  sleep_ms'[t] # 0 =>
                      IF pc'[t] = "spin"
                      THEN sleep_ms'[t] = arg'[t] /\ (collab'[t] \/ ~clean'[t])
                      ELSE stale'[t]
  BY <1>2 DEF TimeoutsMatchCalls
<1>3. CASE HDispatch \/ HCharge
  <2>1. UNCHANGED <<pc, arg, collab, sleep_ms>>
    <3>1. ~InReady(cur)
      BY <1>1 DEF IInv, OnePlace
    <3> QED
      BY <1>3, <3>1 DEF HDispatch, HCharge, Park, Preempt, Sigusr1, Schedule, Charge
  <2>2. UNCHANGED <<clean, stale>>
    BY <1>3 DEF HDispatch, HCharge, sleepHist
  <2> QED BY <2>1, <2>2, TimeoutFrame
<1>4. CASE HTick
  <2>1. UNCHANGED <<pc, arg, collab, sleep_ms, stale>>
    BY <1>4 DEF HTick, Tick, taskVars
  <2>2. clean'[t] => clean[t]
    BY <1>1, <1>4 DEF HTick
  <2> QED BY <2>1, <2>2, TimeoutFrame
<1>5. CASE HExpire
  <2>1. PICK s \in Tasks : \E i \in DOMAIN timers[s] : Expire(s, i)
    BY <1>5 DEF HExpire
  <2>2. UNCHANGED <<pc, arg, clean, stale>>
    BY <1>5, <2>1 DEF HExpire, Expire, Panic
  <2>3. sleep_ms'[t] = 0 \/ (sleep_ms'[t] = sleep_ms[t] /\ collab'[t] = collab[t])
    <3>1. CASE InReady(s)
      BY <2>1, <3>1 DEF Expire, Panic, taskVars
    <3>2. CASE ~InReady(s)
      BY <1>1, <2>1, <3>2 DEF Expire, Wake, EndSleep, EndTimeout
    <3> QED BY <3>1, <3>2
  <2> QED BY <2>2, <2>3, TimeoutFrame
<1>6. CASE HReturn
  <2>1. PICK s \in Tasks :
          /\ SleepReturn(s)
          /\ clean' = [clean EXCEPT ![s] = TRUE]
          /\ stale' = [stale EXCEPT ![s] = ~clean[s]]
    BY <1>6 DEF HReturn
  <2>2. /\ pc[s] = "spin" /\ ~collab[s] /\ UNCHANGED <<collab, sleep_ms>>
        /\ pc' = [pc EXCEPT ![s] = "run"] /\ arg' = [arg EXCEPT ![s] = 0]
    BY <2>1 DEF SleepReturn, taskVars
  <2>3. CASE s # t
    <3>1. /\ pc'[t] = pc[t] /\ arg'[t] = arg[t] /\ stale'[t] = stale[t]
          /\ clean'[t] = clean[t]
      BY <1>1, <2>1, <2>2, <2>3
    <3> QED BY <2>2, <3>1, TimeoutFrame
  <2>4. CASE s = t
    <3>1. pc'[t] = "run" /\ stale'[t] = ~clean[t]
      BY <1>1, <2>1, <2>2, <2>4
    <3>2. sleep_ms[t] # 0 => ~clean[t]
      BY <2>2, <2>4 DEF TimeoutsMatchCalls
    <3> QED BY <2>2, <3>1, <3>2
  <2> QED BY <2>3, <2>4
<1>7. CASE HOther
  <2>1. UNCHANGED <<clean, stale>>
    BY <1>7 DEF HOther, histVars, sleepHist
  <2>2. CASE TimersDone \/ ParkHangs
    <3>1. UNCHANGED <<pc, arg, collab, sleep_ms>>
      BY <2>2 DEF TimersDone, ParkHangs, taskVars
    <3> QED BY <2>1, <3>1, TimeoutFrame
  <2>3. ASSUME NEW s \in Tasks, SleepCall(s) \/ SleepStamp(s), s # t
        PROVE  /\ pc'[t] = pc[t] /\ arg'[t] = arg[t]
               /\ sleep_ms'[t] = sleep_ms[t] /\ collab'[t] = collab[t]
    BY <1>1, <2>3 DEF SleepCall, SleepStamp
  <2>4. CASE SleepCall(t)
    <3>1. pc[t] = "run" /\ pc'[t] = "flagged" /\ sleep_ms' = sleep_ms
      BY <1>1, <2>4 DEF SleepCall
    <3> QED BY <2>1, <3>1 DEF TimeoutsMatchCalls
  <2>5. CASE SleepStamp(t)
    <3>1. /\ pc[t] = "flagged" /\ pc'[t] = "spin"
          /\ sleep_ms'[t] = arg[t] /\ arg' = arg /\ collab' = collab
      BY <1>1, <2>5 DEF SleepStamp
    <3>2. clean[t] => collab[t]
      BY <3>1 DEF SleepInv, SleptAndLeft
    <3> QED BY <2>1, <3>1, <3>2
  <2> QED BY <1>7, <2>1, <2>2, <2>3, <2>4, <2>5, TimeoutFrame DEF HOther
<1>8. CASE UNCHANGED hvars
  <2>1. UNCHANGED <<pc, arg, collab, sleep_ms, clean, stale>>
    BY <1>8 DEF hvars, histVars, sleepHist, vars, taskVars
  <2> QED BY <2>1, TimeoutFrame
<1> QED BY <1>3, <1>4, <1>5, <1>6, <1>7, <1>8 DEF HNext

\* The flag, the timers and the place of a task agree, and a timeout survives the sleep()
\* it was stored for only if a tick came between the two stores.
THEOREM NoStaleTimeout == HSpec => []NothingSurvives
<1> DEFINE TInv == stale \in [Tasks -> BOOLEAN] /\ TimeoutsMatchCalls
<1>1. HInit => TInv
  BY DEF HInit, Init, TimeoutsMatchCalls
<1>2. IInv /\ SleepInv /\ TInv /\ [HNext]_hvars => TInv'
  BY TimeoutStep
<1>3. IInv /\ TInv => NothingSurvives
  BY DEF IInv, NothingSurvives
<1> HIDE DEF TInv
<1> QED BY <1>1, <1>2, <1>3, SleepInvariance, PTL DEF HSpec
==============================================================================
