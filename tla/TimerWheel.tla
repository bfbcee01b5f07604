------------------------------ MODULE TimerWheel ------------------------------
(***************************************************************************)
(* The hierarchical timer wheel of timer.c: five rings of slots, one of    *)
(* TVR_SIZE slots and four of TVN_SIZE slots, run_timer, which walks the   *)
(* first ring one time unit at a time and cascades the others, and the     *)
(* timers' creation.  A slot is the set of timers in it: what the order    *)
(* inside a slot would add is only the order of callbacks of one instant,  *)
(* left open here.                                                         *)
(*                                                                         *)
(* The manager's lock is free whenever it is taken, because only the       *)
(* handler takes it while timers exist, and is left out.                   *)
(***************************************************************************)
EXTENDS Integers

CONSTANTS
    Timers,         \* the timer nodes
    TVR_SIZE,       \* 1 << TVR_BITS in timer.h, 256
    TVN_SIZE,       \* 1 << TVN_BITS, 64: powers of two, so that masks are remainders
    Granularity,    \* clock_granularity, 10
    Word,           \* 2^32: the range of uint32_t uJiffies and uExpires
    Starts,         \* values of the clock at timer_init
    Dues,           \* the uDueTime arguments of create_timer that occur
    CallbackDues,   \* those given by a timer callback
    Periods,        \* the uPeriod arguments that occur; 0 is one-shot
    Steps,          \* how far the clock may move between two ticks
    EndOfTime,      \* bound on the clock when it does not wrap
    WRAPS           \* TRUE: the clock wraps at Word

ASSUME WheelAssumption ==
    /\ TVR_SIZE \in Nat \ {0} /\ TVN_SIZE \in Nat \ {0}
    /\ Granularity \in Nat \ {0} /\ Word \in Nat \ {0}
    /\ Starts \subseteq 0..(Word - 1) /\ Dues \subseteq Nat /\ CallbackDues \subseteq Nat
    /\ Periods \subseteq Nat /\ Steps \subseteq Nat \ {0}
    /\ EndOfTime \in Nat /\ WRAPS \in BOOLEAN

VARIABLES
    jiffies,    \* timer_manager->uJiffies
    limit,      \* the clock as run_timer last read it: its local uJiffies
    phase,      \* "idle", or in run_timer: "scan" at the loop head, "fire" in it
    expires,    \* TIMER_NODE.uExpires
    period,     \* TIMER_NODE.uPeriod
    place       \* <<ring, slot>> of each timer, or one of the two below

vars == <<jiffies, limit, phase, expires, period, place>>

NotInUse == <<0, 0>>        \* no such timer
Expired == <<0, 1>>         \* on the local list listTmrExpire
Pending(t) == place[t] # NotInUse

\* How many time units a slot of a ring stands for: the shifts of add_timer and of
\* run_timer's INDEX.
Width(ring) ==
    CASE ring = 1 -> 1
      [] ring = 2 -> TVR_SIZE
      [] ring = 3 -> TVR_SIZE * TVN_SIZE
      [] ring = 4 -> TVR_SIZE * TVN_SIZE * TVN_SIZE
      [] ring = 5 -> TVR_SIZE * TVN_SIZE * TVN_SIZE * TVN_SIZE

Slots(ring) == IF ring = 1 THEN TVR_SIZE ELSE TVN_SIZE

Slot(ring, time) == (time \div Width(ring)) % Slots(ring)

Due(e) == ((e - jiffies) % Word) \div Granularity

\* Mutant of Ring: one ring too low at each boundary.
MutRing(e) ==
    CASE Due(e) <= TVR_SIZE -> 1
      [] Due(e) > TVR_SIZE /\ Due(e) <= Width(3) -> 2
      [] Due(e) > Width(3) /\ Due(e) <= Width(4) -> 3
      [] Due(e) > Width(4) /\ Due(e) <= Width(5) -> 4
      [] OTHER -> 5

\* The ring of a timer that expires at e.  The distance is divided by the
\* granularity of the tick, the slots are not.
Ring(e) ==
    CASE Due(e) < TVR_SIZE -> 1
      [] Due(e) >= TVR_SIZE /\ Due(e) < Width(3) -> 2
      [] Due(e) >= Width(3) /\ Due(e) < Width(4) -> 3
      [] Due(e) >= Width(4) /\ Due(e) < Width(5) -> 4
      [] OTHER -> 5

\* Mutant of PlaceFor: the slot's bits of the first ring in every ring.
MutPlaceFor(e) == <<Ring(e), Slot(1, e)>>

\* add_timer
PlaceFor(e) == <<Ring(e), Slot(Ring(e), e)>>

Init ==
    /\ jiffies \in Starts
    /\ limit = jiffies
    /\ phase = "idle"
    /\ expires = [t \in Timers |-> 0]
    /\ period = [t \in Timers |-> 0]
    /\ place = [t \in Timers |-> NotInUse]

\* create_timer, from outside run_timer or from a callback.
Create(t, due, p) ==
    /\ ~Pending(t)
    /\ \/ phase = "idle" /\ due \in Dues
       \/ phase = "fire" /\ due \in CallbackDues
    /\ expires' = [expires EXCEPT ![t] = (jiffies + due) % Word]
    /\ period' = [period EXCEPT ![t] = p]
    /\ place' = [place EXCEPT ![t] = PlaceFor(expires'[t])]
    /\ UNCHANGED <<jiffies, limit, phase>>

\* The clock has moved and a tick calls run_timer, which reads it.
RunStart ==
    /\ phase = "idle"
    /\ \E step \in Steps :
        /\ WRAPS \/ limit + step <= EndOfTime
        /\ limit' = (limit + step) % Word
    /\ phase' = "scan"
    /\ UNCHANGED <<jiffies, expires, period, place>>

\* Mutant of CascadedRings: the second ring only.
MutCascadedRings == IF Slot(1, jiffies) = 0 THEN {2} ELSE {}

\* The rings whose slot for this instant is emptied into lower ones: the next ring
\* when the one below it has come round to 0.
CascadedRings ==
    {r \in 2..5 : \A below \in 1..(r - 1) : Slot(below, jiffies) = 0}

\* The head of the loop: cascade, then take the slot of this instant off the wheel.
Scan ==
    /\ phase = "scan"
    /\ limit >= jiffies
    /\ LET Moved(t) == \E r \in CascadedRings : place[t] = <<r, Slot(r, jiffies)>>
           Where(t) == IF Moved(t) THEN PlaceFor(expires[t]) ELSE place[t]
       IN  place' = [t \in Timers |->
             IF Where(t) = <<1, Slot(1, jiffies)>> THEN Expired ELSE Where(t)]
    /\ phase' = "fire"
    /\ UNCHANGED <<jiffies, limit, expires, period>>

\* The body of the loop: call back, then free the timer or add it again.
Fire(t) ==
    /\ phase = "fire"
    /\ place[t] = Expired
    /\ IF period[t] = 0
       THEN /\ place' = [place EXCEPT ![t] = NotInUse]
            /\ UNCHANGED expires
       ELSE /\ expires' = [expires EXCEPT ![t] = (jiffies + period[t]) % Word]
            /\ place' = [place EXCEPT ![t] = PlaceFor(expires'[t])]
    /\ UNCHANGED <<jiffies, limit, phase, period>>

ScanNext ==
    /\ phase = "fire"
    /\ \A t \in Timers : place[t] # Expired
    /\ jiffies' = (jiffies + 1) % Word
    /\ phase' = "scan"
    /\ UNCHANGED <<limit, expires, period, place>>

\* TIME_AFTER_EQ converts both 32-bit values to a 64-bit long: the difference of
\* two clocks is compared without its wrap-around.
RunEnd ==
    /\ phase = "scan"
    /\ limit < jiffies
    /\ phase' = "idle"
    /\ UNCHANGED <<jiffies, limit, expires, period, place>>

Next ==
    \/ \E t \in Timers, due \in Dues \union CallbackDues, p \in Periods : Create(t, due, p)
    \/ RunStart
    \/ Scan
    \/ \E t \in Timers : Fire(t)
    \/ ScanNext
    \/ RunEnd

Spec == Init /\ [][Next]_vars

-------------------------------------------------------------------------------
(* Properties.                                                               *)

TypeOK ==
    /\ jiffies \in 0..(Word - 1) /\ limit \in 0..(Word - 1)
    /\ phase \in {"idle", "scan", "fire"}
    /\ expires \in [Timers -> 0..(Word - 1)]
    /\ period \in [Timers -> Periods \union {0}]
    /\ \A t \in Timers :
        \/ place[t] \in {NotInUse, Expired}
        \/ \E r \in 1..5 : place[t] = <<r, Slot(r, expires[t])>>

\* The wheel keeps the promise of TimerSpec: whatever ring a timer starts in and
\* however often it cascades, the walk does not pass its deadline, it fires once,
\* and what it is early is a whole lap of the first ring or more.
TS == INSTANCE TimerSpec WITH
    Lap <- TVR_SIZE,
    Dues <- Dues \union CallbackDues,
    NoDeadline <- -1,
    time <- jiffies,
    deadline <- [t \in Timers |-> IF Pending(t) THEN expires[t] ELSE -1]

ImplementsTimers == TS!Spec

\* How early a timer can be: whole laps of the first ring, and less than the
\* distance that the division by the granularity takes for one lap.
EarlyByWholeLaps ==
    [][\A t \in Timers : Fire(t) =>
        LET early == expires[t] - jiffies
        IN  early % TVR_SIZE = 0 /\ early < Granularity * TVR_SIZE]_vars

\* The comments of sleep() and create_timer: not before the timeout.
NotEarly == [][\A t \in Timers : Fire(t) => expires[t] <= limit]_vars

\* When run_timer returns no pending timer's deadline is behind the clock it read:
\* of two readings of a wrapping clock, the later one is less than half a turn on.
NoneOverdue ==
    [][RunEnd => \A t \in Timers :
        Pending(t) => (limit - expires[t]) % Word >= Word \div 2]_vars
==============================================================================
