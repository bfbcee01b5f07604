--------------------------- MODULE ThreadTickProofs ---------------------------
(***************************************************************************)
(* Proofs about ThreadTick: its handler finds a task to read and queues    *)
(* none twice, for every length of the slice, every number of switches     *)
(* below it during the start-up, and any tasks.                            *)
(***************************************************************************)
EXTENDS ThreadTick, SchedProofs

-------------------------------------------------------------------------------
(* The statements of main by their place.                                    *)

StageOK == stage \in 1..13

LEMMA StageNames ==
    ASSUME StageOK
    PROVE  /\ Len(Statements) = 13
           /\ MainTaskMade <=> stage > 10
           /\ Done("attach") <=> stage > 6
           /\ Doing("time_slice_map") <=> stage = 5
           /\ Doing("start") <=> stage = 11
           /\ Doing("poll") <=> stage = 12
           /\ Returned <=> stage = 13
<1> USE DEF StageOK, Statements
<1>1. Len(Statements) = 13
  OBVIOUS
<1>2. MainTaskMade <=> stage > 10
  <2>1. \A i \in 1..13 : Statements[i] = "magic" <=> i = 10
    OBVIOUS
  <2> QED BY <2>1 DEF MainTaskMade, Done
<1>3. Done("attach") <=> stage > 6
  <2>1. \A i \in 1..13 : Statements[i] = "attach" <=> i = 6
    OBVIOUS
  <2> QED BY <2>1 DEF Done
<1>4. /\ Doing("time_slice_map") <=> stage = 5
      /\ Doing("start") <=> stage = 11
      /\ Doing("poll") <=> stage = 12
      /\ Returned <=> stage = 13
  BY DEF Doing, Returned
<1> QED BY <1>1, <1>2, <1>3, <1>4

-------------------------------------------------------------------------------
(* The inductive invariant.                                                  *)

\* Before the main task is made nothing is signalled, because the switches so far are
\* fewer than the slice: what is left of it and they make the whole.
StartUpInTime ==
    stage <= 10 =>
        /\ handler = "off"
        /\ pending = FALSE
        /\ early <= EarlySwitches
        /\ stage <= 6 => early = 0
        /\ stage > 5 => slice + early = Slice

\* A task that main has still to start is nowhere.
NotYetStarted ==
    \A i \in (made + 1)..Len(StartOrder) :
        StartOrder[i] # cur /\ StartOrder[i] \notin Range(ready)

TInv ==
    /\ StageOK
    /\ made \in 0..Len(StartOrder)
    /\ slice \in Nat /\ early \in Nat
    /\ cur \in Tasks
    /\ ready \in Seq(Tasks) /\ IsInjective(ready)
    /\ cur \notin Range(ready)
    /\ NotYetStarted
    /\ StartUpInTime
    /\ HandlerFindsTask

LEMMA InitTInv == TInit => TInv
<1> SUFFICES ASSUME TInit PROVE TInv
  OBVIOUS
<1>1. /\ StartOrder \in Seq(Tasks) /\ Len(StartOrder) \in Nat
      /\ DOMAIN StartOrder = 1..Len(StartOrder) /\ Range(StartOrder) = Tasks \ {Main}
      /\ Main \in Tasks /\ EarlySwitches \in Nat
  BY SchedAssumption, ThreadAssumption, LenProperties
<1>2. ready = <<>> /\ cur = Main /\ made = 0
  BY DEF TInit
<1>3. ready \in Seq(Tasks) /\ IsInjective(ready) /\ Range(ready) = {}
  BY <1>2 DEF IsInjective, Range
<1>4. NotYetStarted
  BY <1>1, <1>2, <1>3 DEF NotYetStarted, Range
<1>5. StageOK /\ StartUpInTime /\ HandlerFindsTask /\ slice \in Nat /\ early \in Nat
  BY <1>1 DEF TInit, StageOK, StartUpInTime, HandlerFindsTask
<1> QED BY <1>1, <1>2, <1>3, <1>4, <1>5 DEF TInv

\* main's statements up to the first task_start, and its poll loop.
LEMMA MainTInv ==
    ASSUME TInv, StartUp \/ StartUpFails \/ Poll \/ Polled \/ PollFails \/ PollInterrupted
    PROVE  TInv'
<1>1. UNCHANGED <<cur, ready, handler, made, early, pending>>
  BY DEF StartUp, StartUpFails, Poll, Polled, PollFails, PollInterrupted, vars
<1>2. stage \in 1..13 /\ Slice \in Nat /\ EarlySwitches \in Nat
  BY ThreadAssumption DEF TInv, StageOK
<1>3. /\ Len(Statements) = 13
      /\ Doing("time_slice_map") <=> stage = 5
      /\ Doing("poll") <=> stage = 12
      /\ Returned <=> stage = 13
  BY StageNames DEF TInv
<1>4. CASE StartUp
  <2>1. /\ stage # 13 /\ stage' = stage + 1
        /\ slice' = IF stage = 5 THEN Slice ELSE slice
    BY <1>3, <1>4 DEF StartUp, MainRuns, FirstSlice
  <2>2. stage' \in 1..13 /\ slice' \in Nat
    BY <1>2, <2>1 DEF TInv
  <2>3. StartUpInTime'
    BY <1>1, <1>2, <2>1 DEF TInv, StartUpInTime
  <2> QED BY <1>1, <2>2, <2>3 DEF TInv, StageOK, NotYetStarted, HandlerFindsTask
<1>5. CASE StartUpFails \/ PollFails \/ PollInterrupted
  <2>1. stage' = 13 /\ slice' = slice
    BY <1>3, <1>5 DEF StartUpFails, PollFails, PollInterrupted, Return
  <2> QED BY <1>1, <2>1 DEF TInv, StageOK, NotYetStarted, HandlerFindsTask, StartUpInTime
<1>6. CASE Poll \/ Polled
  BY <1>1, <1>6 DEF Poll, Polled, TInv, StageOK, NotYetStarted, HandlerFindsTask,
                    StartUpInTime
<1> QED BY <1>4, <1>5, <1>6

LEMMA StartTaskTInv ==
    ASSUME TInv, StartTask
    PROVE  TInv'
<1>1. stage = 11 /\ UNCHANGED <<cur, handler, slice, early, pending>>
  BY StageNames DEF TInv, StartTask
<1>2. CASE made < Len(StartOrder)
  <2> DEFINE t == StartOrder[made + 1]
  <2>1. ready' = Append(ready, t) /\ made' = made + 1 /\ stage' = stage
    BY <1>2 DEF StartTask, Queued
  <2>2. /\ StartOrder \in Seq(Tasks) /\ Len(StartOrder) \in Nat
        /\ DOMAIN StartOrder = 1..Len(StartOrder) /\ made \in Nat
        /\ made + 1 \in 1..Len(StartOrder) /\ made + 1 \in (made + 1)..Len(StartOrder)
    BY <1>2, SchedAssumption, LenProperties DEF TInv
  <2>3. t \in Tasks /\ t # cur /\ t \notin Range(ready)
    BY <2>2, ElementOfSeq DEF TInv, NotYetStarted
  <2> HIDE DEF t
  <2>4. /\ Append(ready, t) \in Seq(Tasks) /\ IsInjective(Append(ready, t))
        /\ Range(Append(ready, t)) = Range(ready) \union {t}
    BY <2>3, AppendNew DEF TInv
  <2>5. ASSUME NEW i \in (made + 2)..Len(StartOrder)
        PROVE  StartOrder[i] # cur /\ StartOrder[i] \notin Range(ready) \union {t}
    <3>1. i \in (made + 1)..Len(StartOrder) /\ i \in 1..Len(StartOrder) /\ i # made + 1
      BY <2>2
    <3>2. StartOrder[i] # t
      BY <2>2, <3>1, SchedAssumption DEF t, IsInjective
    <3> QED BY <3>1, <3>2 DEF TInv, NotYetStarted
  <2>6. NotYetStarted'
    BY <1>1, <2>1, <2>2, <2>4, <2>5 DEF NotYetStarted
  <2>7. made' \in 0..Len(StartOrder)
    BY <2>1, <2>2
  <2> QED BY <1>1, <2>1, <2>3, <2>4, <2>6, <2>7
          DEF TInv, StageOK, HandlerFindsTask, StartUpInTime
<1>3. CASE ~(made < Len(StartOrder))
  <2>1. ready' = ready /\ made' = made /\ stage' = 12
    BY <1>1, <1>3 DEF StartTask
  <2> QED BY <1>1, <2>1 DEF TInv, StageOK, NotYetStarted, HandlerFindsTask, StartUpInTime
<1> QED BY <1>2, <1>3

\* The eBPF program, and the signal.
LEMMA SignalTInv ==
    ASSUME TInv, SchedSwitch \/ Deliver
    PROVE  TInv'
<1>1. UNCHANGED <<cur, ready, stage, made>>
  BY DEF SchedSwitch, Deliver, Tick, vars
<1>2. stage \in 1..13 /\ Slice \in Nat \ {0} /\ EarlySwitches \in 0..(Slice - 1)
  BY ThreadAssumption DEF TInv, StageOK
<1>3. (MainTaskMade <=> stage > 10) /\ (Done("attach") <=> stage > 6)
  BY StageNames DEF TInv
<1>4. CASE SchedSwitch
  <2>1. /\ stage > 6 /\ handler' = handler
        /\ slice' = IF slice <= 1 THEN Slice ELSE slice - 1
        /\ pending' = (pending \/ slice <= 1)
        /\ IF stage > 10 THEN early' = early
                         ELSE early < EarlySwitches /\ early' = early + 1
    BY <1>3, <1>4 DEF SchedSwitch, vars
  <2>2. slice \in Nat /\ early \in Nat
    BY DEF TInv
  <2>3. slice' \in Nat /\ early' \in Nat
    BY <1>2, <2>1, <2>2
  <2>4. StartUpInTime'
    <3>1. CASE stage > 10
      <4>1. ~(stage' <= 10)
        BY <1>1, <1>2, <3>1
      <4> QED BY <4>1 DEF StartUpInTime
    <3>2. CASE stage <= 10
      <4>1. /\ ~(stage > 10) /\ ~(stage' <= 6) /\ stage' = stage
        BY <1>1, <1>2, <2>1, <3>2
      <4>2. handler = "off" /\ pending = FALSE /\ slice + early = Slice
        BY <1>2, <2>1, <3>2 DEF TInv, StartUpInTime
      <4>3. early < EarlySwitches /\ early' = early + 1
        BY <2>1, <4>1
      <4>4. ~(slice <= 1)
        BY <1>2, <2>2, <4>2, <4>3
      <4>5. pending' = FALSE
        BY <2>1, <4>2, <4>4, Zenon
      <4>6. slice' = slice - 1
        BY <2>1, <4>4
      <4>7. early' <= EarlySwitches /\ slice' + early' = Slice
        BY <1>2, <2>2, <4>2, <4>3, <4>6
      <4>8. handler' = "off"
        BY <2>1, <4>2
      <4> QED BY <4>1, <4>5, <4>7, <4>8 DEF StartUpInTime
    <3> QED BY <1>2, <3>1, <3>2
  <2> QED BY <1>1, <2>1, <2>3, <2>4 DEF TInv, StageOK, NotYetStarted, HandlerFindsTask
<1>5. CASE Deliver
  <2>1. stage > 10
    BY <1>2, <1>5 DEF TInv, StartUpInTime, Deliver
  <2>2. handler' \in {"timers", "dispatch"} /\ slice' = slice /\ early' = early
    BY <1>3, <1>5, <2>1 DEF Deliver, Tick
  <2> QED BY <1>1, <1>2, <2>1, <2>2
          DEF TInv, StageOK, NotYetStarted, HandlerFindsTask, StartUpInTime
<1> QED BY <1>4, <1>5

\* The dispatcher, and the tasks' own steps.
LEMMA SchedTInv ==
    ASSUME TInv, UNCHANGED threadVars, Dispatched \/ \E t \in Tasks : OwnStep(t)
    PROVE  TInv'
<1>1. UNCHANGED <<stage, made, slice, early, pending>>
  BY DEF threadVars
<1>2. CASE \E t \in Tasks : OwnStep(t)
  <2>1. UNCHANGED <<cur, ready, handler>>
    BY <1>2 DEF OwnStep, TaskStep, SleepCall, SleepStamp, SleepReturn
  <2> QED BY <1>1, <2>1 DEF TInv, StageOK, NotYetStarted, HandlerFindsTask, StartUpInTime
<1>3. CASE Dispatched
  <2>1. handler = "dispatch"
    BY <1>3 DEF Dispatched, Preempt, Park, ParkHangs
  <2>2. stage > 10
    BY <2>1 DEF TInv, StartUpInTime, StageOK
  <2>3. CASE ParkHangs
    BY <1>1, <2>2, <2>3
       DEF ParkHangs, TInv, StageOK, NotYetStarted, HandlerFindsTask, StartUpInTime
  <2>4. CASE Preempt \/ Park
    <3>1. PICK q \in {ready, Append(ready, cur)} :
            q # <<>> /\ cur' = Head(q) /\ ready' = Tail(q) /\ handler' = "off"
      <4>1. CASE Preempt
        BY <4>1, AppendNew DEF Preempt, Schedule, GetNextTask, Queued, InReady, TInv
      <4>2. CASE Park
        BY <4>2 DEF Park, GetNextTask
      <4> QED BY <2>4, <4>1, <4>2
    <3>2. q \in Seq(Tasks) /\ IsInjective(q) /\ Range(q) \subseteq Range(ready) \union {cur}
      <4>1. CASE q = ready
        BY <4>1 DEF TInv
      <4>2. CASE q = Append(ready, cur)
        BY <4>2, AppendNew DEF TInv
      <4> QED BY <3>1, <4>1, <4>2
    <3>3. /\ cur' \in Tasks /\ cur' \in Range(q) /\ ready' \in Seq(Tasks)
          /\ IsInjective(ready') /\ Range(ready') = Range(q) \ {cur'}
      BY <3>1, <3>2, PopFront
    <3>4. NotYetStarted'
      BY <1>1, <3>2, <3>3 DEF TInv, NotYetStarted
    <3> QED BY <1>1, <2>2, <3>1, <3>3, <3>4
            DEF TInv, StageOK, HandlerFindsTask, StartUpInTime
  <2> QED BY <1>3, <2>3, <2>4 DEF Dispatched
<1> QED BY <1>2, <1>3

LEMMA NextTInv == TInv /\ [TNext]_tvars => TInv'
<1> SUFFICES ASSUME TInv, [TNext]_tvars PROVE TInv'
  OBVIOUS
<1>1. CASE UNCHANGED tvars
  BY <1>1 DEF tvars, vars, threadVars, TInv, StageOK, NotYetStarted, HandlerFindsTask,
              StartUpInTime
<1>2. CASE TNext
  BY <1>2, MainTInv, StartTaskTInv, SignalTInv, SchedTInv DEF TNext
<1> QED BY <1>1, <1>2

\* From the attachment of the eBPF program on, whenever SIGUSR1 is delivered there is a
\* complete current task, and it is queued nowhere.
THEOREM StartUpIsSafe == TSpec => []HandlerFindsTask
<1>1. TInv => HandlerFindsTask
  BY DEF TInv
<1> QED BY InitTInv, NextTInv, <1>1, PTL DEF TSpec
===============================================================================
