--------------------------- MODULE TimerWheelProofs ---------------------------
(***************************************************************************)
(* Proofs about TimerWheel, for every size of the rings, every granularity *)
(* and any number of timers: until the clock wraps the walk passes no      *)
(* deadline, however often a timer cascades, what is early is early by     *)
(* whole laps of the first ring, and the wheel implements TimerSpec.       *)
(***************************************************************************)
EXTENDS TimerWheel, TLAPS

\* The clock has not wrapped and does not before the last timer is due, and nobody asks
\* for more than half a turn of the clock.
AllDues == Dues \union CallbackDues \union Periods

NoWrap ==
    /\ ~WRAPS
    /\ EndOfTime + 1 < Word /\ Starts \subseteq 0..EndOfTime
    /\ \A d \in AllDues : EndOfTime + 1 + d < Word /\ d + 1 <= Word - Word \div 2

\* A callback asks for a later instant: the slot of this one has been taken already.
CallbacksLater == 0 \notin CallbackDues

-------------------------------------------------------------------------------
(* Division.                                                                 *)

LEMMA Division ==
    ASSUME NEW a \in Nat, NEW b \in Nat \ {0}
    PROVE  /\ a \div b \in Nat
           /\ b * (a \div b) \in Nat
           /\ b * (a \div b) <= a /\ a < b * (a \div b) + b
           /\ a % b = a - b * (a \div b)
<1>1. a \div b \in Nat
  OBVIOUS
<1>2. b * (a \div b) <= a
  OBVIOUS
<1>3. a < b * (a \div b) + b
  OBVIOUS
<1>4. \A q \in Int : q = a \div b => a % b = a - b * q
  OBVIOUS
<1>5. \A q \in Nat : b * q \in Nat
  OBVIOUS
<1> QED BY <1>1, <1>2, <1>3, <1>4, <1>5

LEMMA Multiple ==
    ASSUME NEW a \in Nat, NEW b \in Nat \ {0}
    PROVE  (b * a) \div b = a /\ (b * a) % b = 0
<1> QED OBVIOUS

LEMMA Products ==
    ASSUME NEW a \in Nat \ {0}, NEW b \in Nat \ {0}
    PROVE  a * b \in Nat \ {0} /\ a * b >= a /\ a * b = b * a
<1> QED OBVIOUS

LEMMA Associates ==
    ASSUME NEW a \in Nat, NEW b \in Nat, NEW c \in Nat
    PROVE  (a * b) * c = a * (b * c)
<1> QED OBVIOUS

\* Two instants of the same slot of the first ring are whole laps apart.
LEMMA SameRemainder ==
    ASSUME NEW a \in Nat, NEW e \in Nat, a <= e, NEW b \in Nat \ {0}, a % b = e % b
    PROVE  (e - a) % b = 0 /\ (e # a => e >= a + b)
<1> DEFINE p == a \div b
           q == e \div b
<1>1. /\ p \in Nat /\ b * p \in Nat /\ a % b = a - b * p
      /\ q \in Nat /\ b * q \in Nat /\ e % b = e - b * q
  BY Division
<1> HIDE DEF p, q
<1>2. e - a = b * q - b * p
  BY <1>1
<1>3. b * q - b * p = b * (q - p)
  BY <1>1
<1>4. q - p >= 0
  <2> SUFFICES ASSUME q - p < 0 PROVE FALSE
    BY <1>1
  <2>1. b * (q - p) < 0
    BY <1>1
  <2> QED BY <2>1, <1>2, <1>3
<1>5. q - p \in Nat
  BY <1>1, <1>4
<1>6. (b * (q - p)) % b = 0
  BY <1>5, Multiple
<1>7. e # a => b * (q - p) >= b
  <2> SUFFICES ASSUME e # a PROVE b * (q - p) >= b
    OBVIOUS
  <2>1. q - p # 0
    BY <1>1, <1>2
  <2> QED BY <1>5, <2>1, Products
<1> QED BY <1>2, <1>3, <1>6, <1>7

-------------------------------------------------------------------------------
(* The rings.                                                                *)

LEMMA Widths ==
    /\ \A r \in 1..5 : Width(r) \in Nat \ {0} /\ Slots(r) \in Nat \ {0}
    /\ Width(1) = 1 /\ \A r \in 1..4 : Width(r + 1) = Width(r) * Slots(r)
<1> USE WheelAssumption
<1>1. Width(1) = 1 /\ Width(2) = TVR_SIZE /\ Width(3) = TVR_SIZE * TVN_SIZE
      /\ Width(4) = TVR_SIZE * TVN_SIZE * TVN_SIZE
      /\ Width(5) = TVR_SIZE * TVN_SIZE * TVN_SIZE * TVN_SIZE
  BY DEF Width
<1>2. Slots(1) = TVR_SIZE /\ \A r \in 2..5 : Slots(r) = TVN_SIZE
  BY DEF Slots
<1>3. Width(3) \in Nat \ {0}
  BY <1>1, Products
<1>4. Width(4) \in Nat \ {0}
  BY <1>1, <1>3, Products
<1>5. Width(5) \in Nat \ {0}
  BY <1>1, <1>4, Products
<1> QED BY <1>1, <1>2, <1>3, <1>4, <1>5

\* The first instant of the slot that a timer is in.
From(r, e) == Width(r) * (e \div Width(r))

LEMMA FromBelow ==
    ASSUME NEW r \in 1..5, NEW e \in Nat
    PROVE  /\ From(r, e) \in Nat /\ From(r, e) <= e /\ e < From(r, e) + Width(r)
           /\ From(1, e) = e
<1>1. From(1, e) = e
  BY Widths DEF From
<1> QED BY <1>1, Widths, Division DEF From

\* Where the rings are cut, a whole number of slots of every lower ring has passed.
LEMMA WidthDivides ==
    ASSUME NEW r \in 1..5, NEW b \in 1..5, b < r
    PROVE  \E m \in Nat \ {0} : Width(r) = (Width(b) * Slots(b)) * m
<1> DEFINE Divides(s) == \E m \in Nat \ {0} : Width(s) = (Width(b) * Slots(b)) * m
<1>1. Width(b) * Slots(b) \in Nat \ {0}
  BY Widths, Products
<1>2. b + 1 \in 1..5 /\ Divides(b + 1)
  <2>1. Width(b + 1) = (Width(b) * Slots(b)) * 1
    BY <1>1, Widths
  <2> QED BY <2>1
<1>3. ASSUME NEW s \in 2..4, Divides(s) PROVE Divides(s + 1)
  <2>1. PICK m \in Nat \ {0} : Width(s) = (Width(b) * Slots(b)) * m
    BY <1>3
  <2>2. Width(s + 1) = ((Width(b) * Slots(b)) * m) * Slots(s)
    BY <2>1, Widths
  <2>3. Slots(s) \in Nat \ {0} /\ m * Slots(s) \in Nat \ {0}
    BY Widths, Products
  <2>4. Width(s + 1) = (Width(b) * Slots(b)) * (m * Slots(s))
    BY <1>1, <2>2, <2>3, Associates
  <2> QED BY <2>3, <2>4
<1> HIDE DEF Divides
<1>4. Divides(r)
  <2>1. CASE b = 1
    <3>1. Divides(2) /\ Divides(3) /\ Divides(4) /\ Divides(5)
      BY <1>2, <1>3, <2>1
    <3> QED BY <2>1, <3>1
  <2>2. CASE b = 2
    <3>1. Divides(3) /\ Divides(4) /\ Divides(5)
      BY <1>2, <1>3, <2>2
    <3> QED BY <2>2, <3>1
  <2>3. CASE b = 3
    <3>1. Divides(4) /\ Divides(5)
      BY <1>2, <1>3, <2>3
    <3> QED BY <2>3, <3>1
  <2>4. CASE b = 4
    BY <1>2, <2>4
  <2> QED BY <2>1, <2>2, <2>3, <2>4
<1> QED BY <1>4 DEF Divides

\* At the first instant of its slot a timer is cascaded: run_timer looks at that slot then,
\* because every lower ring has come round to 0.
LEMMA CascadedInTime ==
    ASSUME NEW r \in 2..5, NEW e \in Nat, jiffies = From(r, e)
    PROVE  r \in CascadedRings /\ Slot(r, jiffies) = Slot(r, e)
<1> DEFINE q == e \div Width(r)
<1>1. Width(r) \in Nat \ {0} /\ q \in Nat /\ jiffies = Width(r) * q
  <2>1. r \in 1..5 /\ Width(r) \in Nat \ {0}
    BY Widths
  <2>2. q \in Nat
    BY <2>1, Division
  <2> QED BY <2>1, <2>2 DEF From
<1> HIDE DEF q
<1>2. jiffies \div Width(r) = q
  BY <1>1, Multiple
<1>3. Slot(r, jiffies) = Slot(r, e)
  BY <1>2 DEF Slot, q
<1>4. ASSUME NEW b \in 1..(r - 1) PROVE Slot(b, jiffies) = 0
  <2>1. b \in 1..5 /\ b < r /\ r \in 1..5
    OBVIOUS
  <2>2. PICK m \in Nat \ {0} : Width(r) = (Width(b) * Slots(b)) * m
    BY <2>1, WidthDivides
  <2>3. Width(b) \in Nat \ {0} /\ Slots(b) \in Nat \ {0} /\ m * q \in Nat
    BY <1>1, <2>1, Widths
  <2>4. Slots(b) * (m * q) \in Nat /\ Width(b) * Slots(b) \in Nat
    BY <2>3
  <2>5. jiffies = (Width(b) * Slots(b)) * (m * q)
    BY <1>1, <2>2, <2>4, Associates
  <2>6. jiffies = Width(b) * (Slots(b) * (m * q))
    BY <2>3, <2>5, Associates
  <2>7. jiffies \div Width(b) = Slots(b) * (m * q)
    BY <2>3, <2>4, <2>6, Multiple
  <2>8. (Slots(b) * (m * q)) % Slots(b) = 0
    BY <2>3, Multiple
  <2> QED BY <2>7, <2>8 DEF Slot
<1> QED BY <1>3, <1>4 DEF CascadedRings

\* add_timer: the slot it chooses in a higher ring has not begun, and a timer in the first
\* ring is less than a lap of ticks away.
LEMMA PlacedAhead ==
    ASSUME jiffies \in Nat, NEW e \in Nat, jiffies <= e, e < Word
    PROVE  /\ Ring(e) \in 1..5
           /\ Ring(e) # 1 => jiffies < From(Ring(e), e)
           /\ Ring(e) = 1 => e < jiffies + Granularity * TVR_SIZE
<1> USE WheelAssumption
<1>1. Ring(e) \in 1..5
  BY DEF Ring
<1>2. (e - jiffies) % Word = e - jiffies
  OBVIOUS
<1> DEFINE d == e - jiffies
<1>3. d \in Nat /\ Due(e) = d \div Granularity
  BY <1>2 DEF Due
<1>4. /\ Due(e) \in Nat /\ Granularity * Due(e) \in Nat
      /\ Granularity * Due(e) <= d /\ d < Granularity * Due(e) + Granularity
  BY <1>3, Division
<1>5. Ring(e) # 1 => jiffies < From(Ring(e), e)
  <2> SUFFICES ASSUME Ring(e) # 1 PROVE jiffies < From(Ring(e), e)
    OBVIOUS
  <2>1. Due(e) >= Width(Ring(e))
    <3>1. CASE Ring(e) = 2
      BY <1>4, <3>1, Widths DEF Ring, Width
    <3>2. CASE Ring(e) = 3
      BY <1>4, <3>2 DEF Ring
    <3>3. CASE Ring(e) = 4
      BY <1>4, <3>3 DEF Ring
    <3>4. CASE Ring(e) = 5
      <4>1. \A r \in 1..5 : Width(r) \in Nat
        BY Widths
      <4> QED BY <1>4, <3>4, <4>1 DEF Ring
    <3> QED BY <1>1, <3>1, <3>2, <3>3, <3>4
  <2>2. Granularity * Due(e) >= Due(e)
    BY <1>4
  <2>3. d >= Width(Ring(e))
    BY <1>1, <1>3, <1>4, <2>1, <2>2, Widths
  <2>4. From(Ring(e), e) \in Nat /\ e < From(Ring(e), e) + Width(Ring(e))
    BY <1>1, FromBelow
  <2> QED BY <1>1, <2>3, <2>4, Widths
<1>6. Ring(e) = 1 => e < jiffies + Granularity * TVR_SIZE
  <2> SUFFICES ASSUME Ring(e) = 1 PROVE e < jiffies + Granularity * TVR_SIZE
    OBVIOUS
  <2>1. Due(e) + 1 <= TVR_SIZE
    BY <1>4 DEF Ring
  <2>2. Granularity * (Due(e) + 1) <= Granularity * TVR_SIZE
    BY <1>4, <2>1
  <2>3. Granularity * (Due(e) + 1) = Granularity * Due(e) + Granularity
    BY <1>4
  <2> QED BY <1>4, <2>2, <2>3
<1> QED BY <1>1, <1>5, <1>6

-------------------------------------------------------------------------------
(* Type correctness, of a clock that wraps too.                              *)

\* TypeOK, and every timer has a place.
Shape == TypeOK /\ place = [t \in Timers |-> place[t]]

LEMMA PlaceForType == \A e : \E r \in 1..5 : PlaceFor(e) = <<r, Slot(r, e)>>
<1> TAKE e
<1>1. Ring(e) \in 1..5
  BY DEF Ring
<1> QED BY <1>1 DEF PlaceFor

LEMMA ShapeStep == Shape /\ [Next]_vars => Shape'
<1> SUFFICES ASSUME Shape, [Next]_vars PROVE Shape'
  OBVIOUS
<1> USE WheelAssumption DEF Shape, TypeOK
<1>0. \A x \in Int : x % Word \in 0..(Word - 1)
  OBVIOUS
<1>1. ASSUME NEW t \in Timers, NEW due \in Dues \union CallbackDues, NEW p \in Periods,
             Create(t, due, p)
      PROVE  Shape'
  <2>1. (jiffies + due) % Word \in 0..(Word - 1)
    BY <1>0
  <2>2. /\ expires' = [expires EXCEPT ![t] = (jiffies + due) % Word]
        /\ period' = [period EXCEPT ![t] = p]
        /\ place' = [place EXCEPT ![t] = PlaceFor(expires'[t])]
        /\ UNCHANGED <<jiffies, limit, phase>>
    BY <1>1 DEF Create
  <2>3. ASSUME NEW s \in Timers
        PROVE  \/ place'[s] \in {NotInUse, Expired}
               \/ \E r \in 1..5 : place'[s] = <<r, Slot(r, expires'[s])>>
    <3>1. CASE s = t
      BY <2>2, <3>1, PlaceForType
    <3>2. CASE s # t
      <4>1. place'[s] = place[s] /\ expires'[s] = expires[s]
        BY <2>2, <3>2
      <4> QED BY <4>1
    <3> QED BY <3>1, <3>2
  <2> QED BY <2>1, <2>2, <2>3
<1>2. CASE RunStart
  <2>1. PICK step \in Steps : limit' = (limit + step) % Word
    BY <1>2 DEF RunStart
  <2>2. limit' \in 0..(Word - 1)
    BY <1>0, <2>1
  <2> QED BY <1>2, <2>2 DEF RunStart
<1>3. CASE Scan
  <2> DEFINE Moved(t) == \E r \in CascadedRings : place[t] = <<r, Slot(r, jiffies)>>
             Where(t) == IF Moved(t) THEN PlaceFor(expires[t]) ELSE place[t]
  <2>1. /\ place' = [t \in Timers |->
             IF Where(t) = <<1, Slot(1, jiffies)>> THEN Expired ELSE Where(t)]
        /\ phase' = "fire" /\ UNCHANGED <<jiffies, limit, expires, period>>
    BY <1>3 DEF Scan
  <2>2. ASSUME NEW t \in Timers
        PROVE  \/ place'[t] \in {NotInUse, Expired}
               \/ \E r \in 1..5 : place'[t] = <<r, Slot(r, expires[t])>>
    <3>1. place'[t] \in {Expired, PlaceFor(expires[t]), place[t]}
      BY <2>1
    <3> QED BY <3>1, PlaceForType
  <2> QED BY <2>1, <2>2
<1>4. ASSUME NEW t \in Timers, Fire(t) PROVE Shape'
  <2>1. CASE period[t] = 0
    <3>1. place' = [place EXCEPT ![t] = NotInUse] /\ UNCHANGED <<jiffies, limit, phase, period, expires>>
      BY <1>4, <2>1 DEF Fire
    <3>2. ASSUME NEW s \in Timers
          PROVE  \/ place'[s] \in {NotInUse, Expired}
                 \/ \E r \in 1..5 : place'[s] = <<r, Slot(r, expires'[s])>>
      <4>1. place'[s] \in {NotInUse, place[s]} /\ expires'[s] = expires[s]
        BY <3>1
      <4> QED BY <4>1
    <3> QED BY <3>1, <3>2
  <2>2. CASE period[t] # 0
    <3>1. (jiffies + period[t]) % Word \in 0..(Word - 1)
      BY <1>0
    <3>2. /\ expires' = [expires EXCEPT ![t] = (jiffies + period[t]) % Word]
          /\ place' = [place EXCEPT ![t] = PlaceFor(expires'[t])]
          /\ UNCHANGED <<jiffies, limit, phase, period>>
      BY <1>4, <2>2 DEF Fire
    <3>3. ASSUME NEW s \in Timers
          PROVE  \/ place'[s] \in {NotInUse, Expired}
                 \/ \E r \in 1..5 : place'[s] = <<r, Slot(r, expires'[s])>>
      <4>1. CASE s = t
        BY <3>2, <4>1, PlaceForType
      <4>2. CASE s # t
        <5>1. place'[s] = place[s] /\ expires'[s] = expires[s]
          BY <3>2, <4>2
        <5> QED BY <5>1
      <4> QED BY <4>1, <4>2
    <3> QED BY <3>1, <3>2, <3>3
  <2> QED BY <2>1, <2>2
<1>5. CASE ScanNext
  <2>1. jiffies' \in 0..(Word - 1)
    BY <1>0, <1>5 DEF ScanNext
  <2> QED BY <1>5, <2>1 DEF ScanNext
<1>6. CASE RunEnd
  BY <1>6 DEF RunEnd
<1>7. CASE UNCHANGED vars
  BY <1>7 DEF vars
<1> QED BY <1>1, <1>2, <1>3, <1>4, <1>5, <1>6, <1>7 DEF Next

LEMMA ShapeInvariant == Spec => []Shape
<1>1. Init => Shape
  BY WheelAssumption DEF Init, Shape, TypeOK
<1> QED BY <1>1, ShapeStep, PTL DEF Spec

\* A timer is always where its deadline says, or on the local list, or free: the ring may
\* change when it cascades, the slot in the ring does not, and whether the clock wraps or not.
THEOREM TypeCorrect == Spec => []TypeOK
<1>1. Shape => TypeOK
  BY DEF Shape
<1> QED BY <1>1, ShapeInvariant, PTL

-------------------------------------------------------------------------------
(* No deadline is passed.                                                    *)

\* The instant whose slots the walk looks at next.
Coming == IF phase = "fire" THEN jiffies + 1 ELSE jiffies

Clock ==
    /\ jiffies \in Nat /\ limit \in 0..EndOfTime /\ jiffies <= limit + 1
    /\ phase = "fire" => jiffies <= limit

\* Less than the distance that is counted as one lap of the first ring.
Near(t) == expires[t] < jiffies + Granularity * TVR_SIZE

\* A timer in a ring is in a slot that the walk has still to come to ...
InRing(t, r) ==
    /\ place[t] = <<r, Slot(r, expires[t])>>
    /\ Coming <= From(r, expires[t])
    /\ r = 1 => Near(t)

\* ... or has just been taken from one.
Taken(t) ==
    /\ place[t] = Expired /\ phase = "fire"
    /\ Slot(1, expires[t]) = Slot(1, jiffies)
    /\ Near(t)

OnTime(t) ==
    /\ jiffies <= expires[t]
    /\ \E d \in AllDues : expires[t] <= jiffies + d
    /\ period[t] \in Periods
    /\ Taken(t) \/ \E r \in 1..5 : InRing(t, r)

\* That no deadline is passed is not inductive: a timer in a higher ring must also reach
\* the first one in time, so its slot there must not have begun.
TInv == Shape /\ Clock /\ \A t \in Timers : Pending(t) => OnTime(t)

LEMMA PlacedOnTime ==
    ASSUME jiffies \in Nat, NEW e \in Nat, jiffies <= e, e < Word
    PROVE  \E r \in 1..5 : /\ PlaceFor(e) = <<r, Slot(r, e)>>
                           /\ jiffies <= From(r, e)
                           /\ jiffies = From(r, e) => r = 1 /\ e = jiffies
                           /\ r = 1 => e < jiffies + Granularity * TVR_SIZE
<1>1. Ring(e) \in 1..5 /\ PlaceFor(e) = <<Ring(e), Slot(Ring(e), e)>>
  BY PlacedAhead DEF PlaceFor
<1>2. From(Ring(e), e) \in Nat /\ From(1, e) = e
  BY <1>1, FromBelow
<1>3. /\ Ring(e) # 1 => jiffies < From(Ring(e), e)
      /\ Ring(e) = 1 => e < jiffies + Granularity * TVR_SIZE
  BY PlacedAhead
<1> QED BY <1>1, <1>2, <1>3

\* A timer that is created or added again, outside run_timer or for a later instant.
LEMMA AddedOnTime ==
    ASSUME NoWrap, TInv, phase # "scan",
           NEW d \in AllDues, phase = "fire" => d # 0
    PROVE  LET e == jiffies + d IN
           /\ e \in Nat /\ e = e % Word
           /\ \E r \in 1..5 : /\ PlaceFor(e) = <<r, Slot(r, e)>>
                              /\ Coming <= From(r, e)
                              /\ r = 1 => e < jiffies + Granularity * TVR_SIZE
<1> DEFINE e == jiffies + d
<1>1. d \in Nat /\ jiffies \in Nat /\ jiffies <= EndOfTime + 1 /\ EndOfTime \in Nat /\ Word \in Nat
  BY WheelAssumption DEF AllDues, TInv, Clock
<1>2. e \in Nat /\ jiffies <= e /\ e < Word
  BY <1>1 DEF NoWrap
<1>3. e = e % Word
  BY <1>1, <1>2
<1>4. PICK r \in 1..5 : /\ PlaceFor(e) = <<r, Slot(r, e)>>
                        /\ jiffies <= From(r, e)
                        /\ jiffies = From(r, e) => r = 1 /\ e = jiffies
                        /\ r = 1 => e < jiffies + Granularity * TVR_SIZE
  BY <1>1, <1>2, PlacedOnTime
<1>5. From(r, e) \in Nat
  BY <1>2, FromBelow
<1>6. Coming <= From(r, e)
  BY <1>1, <1>4, <1>5 DEF Coming
<1> QED BY <1>2, <1>3, <1>4, <1>6

\* What a step that leaves a timer and the clock alone leaves of its deadline.
LEMMA Untouched ==
    ASSUME NEW t \in Timers, OnTime(t), jiffies' = jiffies, phase' = phase,
           place'[t] = place[t], expires'[t] = expires[t], period'[t] = period[t]
    PROVE  OnTime(t)'
<1> QED BY DEF OnTime, InRing, Taken, Near, Coming

LEMMA CreateOnTime ==
    ASSUME NoWrap, CallbacksLater, TInv,
           NEW t \in Timers, NEW due \in Dues \union CallbackDues, NEW p \in Periods,
           Create(t, due, p)
    PROVE  TInv'
<1> DEFINE e == jiffies + due
<1>1. due \in AllDues /\ phase # "scan" /\ (phase = "fire" => due # 0)
  BY DEF Create, CallbacksLater, AllDues
<1>2. /\ e \in Nat /\ e = e % Word
      /\ \E r \in 1..5 : /\ PlaceFor(e) = <<r, Slot(r, e)>>
                         /\ Coming <= From(r, e)
                         /\ r = 1 => e < jiffies + Granularity * TVR_SIZE
  BY <1>1, AddedOnTime
<1>3. /\ expires' = [expires EXCEPT ![t] = e]
      /\ period' = [period EXCEPT ![t] = p]
      /\ place' = [place EXCEPT ![t] = PlaceFor(expires'[t])]
      /\ UNCHANGED <<jiffies, limit, phase>>
  BY <1>2 DEF Create
<1>4. /\ expires \in [Timers -> 0..(Word - 1)] /\ period \in [Timers -> Periods \union {0}]
      /\ place = [x \in Timers |-> place[x]]
  BY DEF TInv, Shape, TypeOK
<1>5. Shape' /\ Clock'
  <2>1. Shape'
    BY ShapeStep DEF TInv, Next
  <2> QED BY <1>3, <2>1 DEF TInv, Clock
<1>6. OnTime(t)'
  <2>1. expires'[t] = e /\ period'[t] = p /\ place'[t] = PlaceFor(e)
    BY <1>3, <1>4
  <2>2. jiffies' = jiffies /\ Coming' = Coming
    BY <1>3 DEF Coming
  <2>3. PICK r \in 1..5 : /\ PlaceFor(e) = <<r, Slot(r, e)>>
                          /\ Coming <= From(r, e)
                          /\ r = 1 => e < jiffies + Granularity * TVR_SIZE
    BY <1>2
  <2>4. InRing(t, r)'
    BY <2>1, <2>2, <2>3 DEF InRing, Near
  <2>5. jiffies' <= expires'[t] /\ expires'[t] <= jiffies' + due
    <3>1. jiffies \in Nat /\ due \in Nat
      BY <1>1, WheelAssumption DEF TInv, Clock
    <3> QED BY <2>1, <2>2, <3>1
  <2> QED BY <1>1, <2>1, <2>4, <2>5 DEF OnTime
<1>7. ASSUME NEW s \in Timers, s # t, Pending(s)' PROVE OnTime(s)'
  <2>1. place'[s] = place[s] /\ expires'[s] = expires[s] /\ period'[s] = period[s]
    BY <1>3, <1>4, <1>7
  <2>2. OnTime(s)
    BY <1>7, <2>1 DEF TInv, Pending
  <2> QED BY <1>3, <2>1, <2>2, Untouched
<1> QED BY <1>5, <1>6, <1>7 DEF TInv

\* A cascade brings a timer at the first instant of its slot, a slot of the first ring at
\* its instant: what the walk has passed it has taken.
LEMMA ScanOnTime ==
    ASSUME NoWrap, TInv, Scan
    PROVE  TInv'
<1> DEFINE Moved(t) == \E r \in CascadedRings : place[t] = <<r, Slot(r, jiffies)>>
           Where(t) == IF Moved(t) THEN PlaceFor(expires[t]) ELSE place[t]
<1>1. /\ place' = [t \in Timers |->
             IF Where(t) = <<1, Slot(1, jiffies)>> THEN Expired ELSE Where(t)]
      /\ phase = "scan" /\ jiffies <= limit /\ phase' = "fire"
      /\ UNCHANGED <<jiffies, limit, expires, period>>
  BY DEF Scan, TInv, Clock
<1>2. Shape' /\ Clock'
  <2>1. Shape'
    BY ShapeStep DEF TInv, Next
  <2> QED BY <1>1, <2>1 DEF TInv, Clock
<1>3. ASSUME NEW t \in Timers, Pending(t)' PROVE OnTime(t)'
  <2>1. place'[t] = IF Where(t) = <<1, Slot(1, jiffies)>> THEN Expired ELSE Where(t)
    BY <1>1
  <2>2. Pending(t)
    <3> SUFFICES ASSUME place[t] = NotInUse PROVE place'[t] = NotInUse
      BY <1>3 DEF Pending
    <3>1. \A r, u : <<r, u>> = NotInUse => r = 0
      BY DEF NotInUse
    <3>2. 0 \notin CascadedRings
      BY DEF CascadedRings
    <3>3. ~Moved(t)
      BY <3>1, <3>2
    <3>4. Where(t) = NotInUse /\ NotInUse # <<1, Slot(1, jiffies)>>
      BY <3>1, <3>3
    <3> QED BY <2>1, <3>4
  <2>3. OnTime(t) /\ jiffies \in Nat /\ expires[t] \in 0..(Word - 1) /\ Word \in Nat
    BY <2>2, WheelAssumption DEF TInv, Clock, Shape, TypeOK
  <2>4. PICK r \in 1..5 : InRing(t, r)
    BY <1>1, <2>3 DEF OnTime, Taken
  <2>5. /\ place[t] = <<r, Slot(r, expires[t])>> /\ jiffies <= From(r, expires[t])
        /\ r = 1 => expires[t] < jiffies + Granularity * TVR_SIZE
    BY <1>1, <2>4 DEF InRing, Coming, Near
  <2>6. PICK q \in 1..5 :
            /\ Where(t) = <<q, Slot(q, expires[t])>> /\ jiffies <= From(q, expires[t])
            /\ jiffies = From(q, expires[t]) => q = 1 /\ expires[t] = jiffies
            /\ q = 1 => expires[t] < jiffies + Granularity * TVR_SIZE
    <3>1. CASE Moved(t)
      <4>1. jiffies <= expires[t] /\ expires[t] \in Nat /\ expires[t] < Word
        BY <2>3 DEF OnTime
      <4>2. \E q \in 1..5 :
                /\ PlaceFor(expires[t]) = <<q, Slot(q, expires[t])>>
                /\ jiffies <= From(q, expires[t])
                /\ jiffies = From(q, expires[t]) => q = 1 /\ expires[t] = jiffies
                /\ q = 1 => expires[t] < jiffies + Granularity * TVR_SIZE
        BY <2>3, <4>1, PlacedOnTime
      <4> QED BY <3>1, <4>2
    <3>2. CASE ~Moved(t)
      <4>1. ASSUME jiffies = From(r, expires[t]), r # 1 PROVE FALSE
        <5>1. r \in 2..5 /\ expires[t] \in Nat
          BY <2>3, <4>1
        <5>2. r \in CascadedRings /\ Slot(r, jiffies) = Slot(r, expires[t])
          BY <4>1, <5>1, CascadedInTime
        <5> QED BY <2>5, <3>2, <5>2
      <4>2. From(1, expires[t]) = expires[t]
        BY <2>3, FromBelow
      <4> QED BY <2>5, <3>2, <4>1, <4>2
    <3> QED BY <3>1, <3>2
  <2>7. Taken(t)' \/ InRing(t, q)'
    <3>1. CASE Where(t) = <<1, Slot(1, jiffies)>>
      <4>1. q = 1 /\ Slot(1, expires[t]) = Slot(1, jiffies)
        BY <2>6, <3>1
      <4> QED BY <1>1, <2>1, <2>6, <3>1, <4>1 DEF Taken, Near
    <3>2. CASE Where(t) # <<1, Slot(1, jiffies)>>
      <4>1. jiffies # From(q, expires[t])
        BY <2>6, <3>2
      <4>2. From(q, expires[t]) \in Nat
        BY <2>3, FromBelow
      <4>3. jiffies + 1 <= From(q, expires[t])
        BY <2>3, <2>6, <4>1, <4>2
      <4> QED BY <1>1, <2>1, <2>6, <3>2, <4>3 DEF InRing, Near, Coming
    <3> QED BY <3>1, <3>2
  <2> QED BY <1>1, <2>3, <2>7 DEF OnTime
<1> QED BY <1>2, <1>3 DEF TInv

LEMMA FireOnTime ==
    ASSUME NoWrap, TInv, NEW t \in Timers, Fire(t)
    PROVE  TInv'
<1>1. phase = "fire" /\ UNCHANGED <<jiffies, limit, phase, period>> /\ Pending(t)
  BY DEF Fire, Pending, Expired, NotInUse
<1>2. OnTime(t) /\ period[t] \in Periods
  BY <1>1 DEF TInv, OnTime
<1>3. /\ expires \in [Timers -> 0..(Word - 1)]
      /\ place = [x \in Timers |-> place[x]]
  BY DEF TInv, Shape, TypeOK
<1>4. Shape' /\ Clock'
  <2>1. Shape'
    BY ShapeStep DEF TInv, Next
  <2> QED BY <1>1, <2>1 DEF TInv, Clock
<1>5. ASSUME NEW s \in Timers, s # t, Pending(s)' PROVE OnTime(s)'
  <2>1. place'[s] = place[s] /\ expires'[s] = expires[s]
    BY <1>3, <1>5 DEF Fire
  <2>2. OnTime(s)
    BY <1>5, <2>1 DEF TInv, Pending
  <2> QED BY <1>1, <2>1, <2>2, Untouched
<1>6. CASE period[t] = 0
  <2>1. ~Pending(t)'
    BY <1>3, <1>6 DEF Fire, Pending
  <2> QED BY <1>4, <1>5, <2>1 DEF TInv
<1>7. CASE period[t] # 0
  <2> DEFINE e == jiffies + period[t]
  <2>1. period[t] \in AllDues
    BY <1>2 DEF AllDues
  <2>2. /\ e \in Nat /\ e = e % Word
        /\ \E r \in 1..5 : /\ PlaceFor(e) = <<r, Slot(r, e)>>
                           /\ Coming <= From(r, e)
                           /\ r = 1 => e < jiffies + Granularity * TVR_SIZE
    BY <1>1, <1>7, <2>1, AddedOnTime
  <2>3. expires'[t] = e /\ place'[t] = PlaceFor(e)
    BY <1>3, <1>7, <2>2 DEF Fire
  <2>4. PICK r \in 1..5 : /\ PlaceFor(e) = <<r, Slot(r, e)>>
                          /\ Coming <= From(r, e)
                          /\ r = 1 => e < jiffies + Granularity * TVR_SIZE
    BY <2>2
  <2>5. InRing(t, r)'
    BY <1>1, <2>3, <2>4 DEF InRing, Near, Coming
  <2>6. jiffies' <= expires'[t] /\ expires'[t] <= jiffies' + period[t]
    <3>1. jiffies \in Nat /\ period[t] \in Nat
      BY <1>2, WheelAssumption DEF TInv, Clock
    <3> QED BY <1>1, <2>3, <3>1
  <2>7. OnTime(t)'
    BY <1>1, <1>2, <2>1, <2>5, <2>6 DEF OnTime
  <2> QED BY <1>4, <1>5, <2>7 DEF TInv
<1> QED BY <1>6, <1>7

LEMMA ScanNextOnTime ==
    ASSUME NoWrap, TInv, ScanNext
    PROVE  TInv'
<1>1. /\ jiffies \in Nat /\ jiffies <= limit /\ limit <= EndOfTime /\ limit \in Nat
      /\ EndOfTime \in Nat /\ Word \in Nat
  BY WheelAssumption DEF ScanNext, TInv, Clock
<1>2. /\ phase = "fire" /\ phase' = "scan" /\ jiffies' = jiffies + 1
      /\ UNCHANGED <<limit, expires, period, place>>
  <2>1. (jiffies + 1) % Word = jiffies + 1
    BY <1>1 DEF NoWrap
  <2> QED BY <2>1 DEF ScanNext
<1>3. Shape' /\ Clock'
  <2>1. Shape'
    BY ShapeStep DEF TInv, Next
  <2> QED BY <1>1, <1>2, <2>1 DEF TInv, Clock
<1>4. ASSUME NEW t \in Timers, Pending(t)' PROVE OnTime(t)'
  <2>1. OnTime(t) /\ ~Taken(t) /\ expires[t] \in Nat
    BY <1>2, <1>4, WheelAssumption DEF Pending, TInv, Taken, ScanNext, Shape, TypeOK
  <2>2. PICK r \in 1..5 : InRing(t, r)
    BY <2>1 DEF OnTime
  <2>3. From(r, expires[t]) \in Nat /\ From(r, expires[t]) <= expires[t]
    BY <2>1, FromBelow
  <2>4. jiffies + 1 <= From(r, expires[t])
    BY <1>2, <2>2 DEF InRing, Coming
  <2>5. PICK d \in AllDues : expires[t] <= jiffies + d
    BY <2>1 DEF OnTime
  <2>6. d \in Nat /\ Granularity * TVR_SIZE \in Nat
    BY WheelAssumption DEF AllDues
  <2>7. InRing(t, r)'
    BY <1>1, <1>2, <2>1, <2>2, <2>4, <2>6 DEF InRing, Near, Coming
  <2>8. jiffies' <= expires'[t] /\ expires'[t] <= jiffies' + d
    BY <1>1, <1>2, <2>1, <2>3, <2>4, <2>5, <2>6
  <2> QED BY <1>2, <2>1, <2>7, <2>8 DEF OnTime
<1> QED BY <1>3, <1>4 DEF TInv

\* The start and the end of run_timer.
LEMMA RunOnTime ==
    ASSUME NoWrap, TInv, RunStart \/ RunEnd
    PROVE  TInv'
<1>1. /\ UNCHANGED <<jiffies, expires, period, place>>
      /\ phase \in {"idle", "scan"} /\ phase' \in {"idle", "scan"}
  BY DEF RunStart, RunEnd
<1>2. Clock'
  <2>1. CASE RunStart
    <3>1. PICK step \in Steps : limit + step <= EndOfTime /\ limit' = (limit + step) % Word
      BY <2>1 DEF RunStart, NoWrap
    <3>2. step \in Nat /\ limit \in Nat /\ EndOfTime \in Nat /\ Word \in Nat /\ EndOfTime + 1 < Word
          /\ \A d \in AllDues : d \in Nat
      BY WheelAssumption DEF TInv, Clock, NoWrap, AllDues
    <3>3. limit' = limit + step
      BY <3>1, <3>2
    <3> QED BY <1>1, <3>1, <3>2, <3>3 DEF TInv, Clock
  <2>2. CASE RunEnd
    BY <1>1, <2>2 DEF RunEnd, TInv, Clock
  <2> QED BY <2>1, <2>2
<1>3. Shape'
  BY ShapeStep DEF TInv, Next
<1>4. ASSUME NEW t \in Timers, Pending(t)' PROVE OnTime(t)'
  <2>1. OnTime(t)
    BY <1>1, <1>4 DEF Pending, TInv
  <2> QED BY <1>1, <2>1 DEF OnTime, InRing, Taken, Near, Coming
<1> QED BY <1>2, <1>3, <1>4 DEF TInv

LEMMA TInvInvariant ==
    ASSUME NoWrap, CallbacksLater PROVE Spec => []TInv
<1>1. Init => TInv
  <2> SUFFICES ASSUME Init PROVE TInv
    OBVIOUS
  <2>1. Shape
    BY WheelAssumption DEF Init, Shape, TypeOK
  <2>2. Clock
    BY WheelAssumption DEF Init, NoWrap, Clock
  <2> QED BY <2>1, <2>2 DEF Init, TInv, Pending
<1>2. TInv /\ [Next]_vars => TInv'
  <2> SUFFICES ASSUME TInv, [Next]_vars PROVE TInv'
    OBVIOUS
  <2>1. CASE UNCHANGED vars
    <3>1. Shape' /\ Clock'
      BY <2>1, ShapeStep DEF TInv, Clock, vars
    <3>2. ASSUME NEW t \in Timers, Pending(t)' PROVE OnTime(t)'
      BY <2>1, <3>2, Untouched DEF TInv, Pending, vars
    <3> QED BY <3>1, <3>2 DEF TInv
  <2> QED BY <2>1, CreateOnTime, RunOnTime, ScanOnTime, FireOnTime, ScanNextOnTime DEF Next
<1> QED BY <1>1, <1>2, PTL DEF Spec

\* The walk does not pass the deadline of a timer: it is not called back late, whatever
\* ring it was put in and however often it was cascaded.
THEOREM NeverPassed ==
    ASSUME NoWrap, CallbacksLater
    PROVE  Spec => [](\A t \in Timers : Pending(t) => jiffies <= expires[t])
<1>1. TInv => \A t \in Timers : Pending(t) => jiffies <= expires[t]
  BY DEF TInv, OnTime
<1> QED BY <1>1, TInvInvariant, PTL

\* What run_timer leaves pending when it returns is due later than the clock it read.
THEOREM NothingOverdue ==
    ASSUME NoWrap, CallbacksLater PROVE Spec => NoneOverdue
<1>1. ASSUME TInv, RunEnd, NEW t \in Timers, Pending(t)
      PROVE  (limit - expires[t]) % Word >= Word \div 2
  <2>1. OnTime(t) /\ jiffies = limit + 1
    BY <1>1 DEF TInv, Clock, RunEnd
  <2>2. PICK d \in AllDues : expires[t] <= limit + 1 + d
    BY <2>1 DEF OnTime
  <2>3. /\ d + 1 <= Word - Word \div 2 /\ d \in Nat /\ Word \in Nat \ {0}
        /\ expires[t] \in 0..(Word - 1) /\ limit + 1 <= expires[t] /\ limit \in Nat
    BY <1>1, <2>1, WheelAssumption DEF NoWrap, AllDues, OnTime, TInv, Clock, Shape, TypeOK
  <2> DEFINE x == limit - expires[t]
  <2>4. x \in Int /\ -Word < x /\ x < 0 /\ -(d + 1) <= x
    BY <2>2, <2>3
  <2>5. x % Word = x + Word
    BY <2>3, <2>4
  <2>6. Word \div 2 \in Nat
    BY <2>3
  <2> QED BY <2>3, <2>4, <2>5, <2>6
<1>2. TInv /\ [Next]_vars =>
        [RunEnd => \A t \in Timers : Pending(t) => (limit - expires[t]) % Word >= Word \div 2]_vars
  BY <1>1
<1> QED BY <1>2, TInvInvariant, PTL DEF Spec, NoneOverdue

\* A timer that is called back early is early by whole laps of the first ring, and by less
\* than the distance that is divided down to one lap.
LEMMA FiredByLaps ==
    ASSUME TInv, NEW t \in Timers, Fire(t)
    PROVE  /\ expires[t] \in Nat /\ jiffies \in Nat /\ jiffies <= expires[t]
           /\ (expires[t] - jiffies) % TVR_SIZE = 0
           /\ expires[t] # jiffies => expires[t] >= jiffies + TVR_SIZE
           /\ Near(t)
<1>1. place[t] = Expired /\ Pending(t)
  BY DEF Fire, Pending, Expired, NotInUse
<1>2. OnTime(t) /\ jiffies \in Nat /\ expires[t] \in Nat
  BY <1>1, WheelAssumption DEF TInv, Clock, Shape, TypeOK
<1>3. \A r \in 1..5 : ~InRing(t, r)
  BY <1>1 DEF InRing, Expired
<1>4. Taken(t) /\ jiffies <= expires[t]
  BY <1>2, <1>3 DEF OnTime
<1>5. \A x \in Nat : Slot(1, x) = x % TVR_SIZE
  BY Widths DEF Slot, Slots
<1>6. jiffies % TVR_SIZE = expires[t] % TVR_SIZE
  BY <1>2, <1>4, <1>5 DEF Taken
<1>7. TVR_SIZE \in Nat \ {0}
  BY WheelAssumption
<1> QED BY <1>2, <1>4, <1>6, <1>7, SameRemainder DEF Taken

THEOREM EarlyByLaps ==
    ASSUME NoWrap, CallbacksLater PROVE Spec => EarlyByWholeLaps
<1> DEFINE ByLaps == \A t \in Timers : Fire(t) =>
        LET early == expires[t] - jiffies
        IN  early % TVR_SIZE = 0 /\ early < Granularity * TVR_SIZE
<1>1. TInv => ByLaps
  <2> SUFFICES ASSUME TInv, NEW t \in Timers, Fire(t)
               PROVE  /\ (expires[t] - jiffies) % TVR_SIZE = 0
                      /\ expires[t] - jiffies < Granularity * TVR_SIZE
    OBVIOUS
  <2>1. Granularity * TVR_SIZE \in Nat
    BY WheelAssumption
  <2> QED BY <2>1, FiredByLaps DEF Near
<1>2. TInv /\ [Next]_vars => [ByLaps]_vars
  BY <1>1
<1> QED BY <1>2, TInvInvariant, PTL DEF Spec, EarlyByWholeLaps

-------------------------------------------------------------------------------
(* The wheel implements TimerSpec.                                           *)

\* What TimerSpec sees of a timer.
Deadlines == [t \in Timers |-> IF Pending(t) THEN expires[t] ELSE -1]

LEMMA CreateRefines ==
    ASSUME NoWrap, CallbacksLater, TInv,
           NEW t \in Timers, NEW due \in Dues \union CallbackDues, NEW p \in Periods,
           Create(t, due, p)
    PROVE  TS!Create(t, due)
<1>1. due \in AllDues /\ phase # "scan" /\ (phase = "fire" => due # 0)
  BY DEF Create, CallbacksLater, AllDues
<1>2. (jiffies + due) % Word = jiffies + due
  BY <1>1, AddedOnTime
<1>3. /\ expires \in [Timers -> 0..(Word - 1)] /\ place = [x \in Timers |-> place[x]]
  BY DEF TInv, Shape, TypeOK
<1>4. /\ expires' = [expires EXCEPT ![t] = jiffies + due]
      /\ place' = [place EXCEPT ![t] = PlaceFor(expires'[t])]
      /\ jiffies' = jiffies /\ ~Pending(t)
  BY <1>2 DEF Create
<1>5. expires'[t] = jiffies + due /\ Pending(t)'
  <2>1. PlaceFor(expires'[t]) # NotInUse
    BY PlaceForType DEF NotInUse
  <2> QED BY <1>3, <1>4, <2>1 DEF Pending
<1>6. \A s \in Timers : s # t => place'[s] = place[s] /\ expires'[s] = expires[s]
  BY <1>3, <1>4
<1>7. Deadlines' = [Deadlines EXCEPT ![t] = jiffies + due]
  BY <1>5, <1>6 DEF Deadlines, Pending
<1> QED BY <1>4, <1>7 DEF TS!Create, Deadlines

LEMMA FireRefines ==
    ASSUME NoWrap, TInv, NEW t \in Timers, Fire(t)
    PROVE  period[t] \in Periods /\ TS!Fire(t, period[t])
<1>1. /\ phase = "fire" /\ jiffies' = jiffies /\ Pending(t)
      /\ expires[t] = jiffies \/ expires[t] >= jiffies + TVR_SIZE
      /\ expires[t] \in Nat
  BY FiredByLaps DEF Fire, Pending, Expired, NotInUse
<1>2. period[t] \in Periods
  BY <1>1 DEF TInv, OnTime
<1>3. /\ expires \in [Timers -> 0..(Word - 1)] /\ place = [x \in Timers |-> place[x]]
  BY DEF TInv, Shape, TypeOK
<1>4. \A s \in Timers : s # t => place'[s] = place[s] /\ expires'[s] = expires[s]
  BY <1>3 DEF Fire
<1>5. CASE period[t] = 0
  <2>1. ~Pending(t)'
    BY <1>3, <1>5 DEF Fire, Pending
  <2>2. Deadlines' = [Deadlines EXCEPT ![t] = -1]
    BY <1>4, <2>1 DEF Deadlines, Pending
  <2> QED BY <1>1, <1>2, <1>5, <2>2 DEF TS!Fire, Deadlines
<1>6. CASE period[t] # 0
  <2>1. period[t] \in AllDues
    BY <1>2 DEF AllDues
  <2>2. (jiffies + period[t]) % Word = jiffies + period[t]
    BY <1>1, <1>6, <2>1, AddedOnTime
  <2>3. expires'[t] = jiffies + period[t] /\ Pending(t)'
    <3>1. PlaceFor(expires'[t]) # NotInUse
      BY PlaceForType DEF NotInUse
    <3> QED BY <1>3, <1>6, <2>2, <3>1 DEF Fire, Pending
  <2>4. Deadlines' = [Deadlines EXCEPT ![t] = jiffies + period[t]]
    BY <1>4, <2>3 DEF Deadlines, Pending
  <2> QED BY <1>1, <1>2, <1>6, <2>4 DEF TS!Fire, Deadlines
<1> QED BY <1>5, <1>6

LEMMA ScanNextRefines ==
    ASSUME NoWrap, TInv, ScanNext
    PROVE  TS!Advance
<1>1. /\ jiffies \in Nat /\ jiffies <= limit /\ limit <= EndOfTime /\ limit \in Nat
      /\ EndOfTime \in Nat /\ Word \in Nat
  BY WheelAssumption DEF ScanNext, TInv, Clock
<1>2. jiffies' = jiffies + 1
  <2>1. (jiffies + 1) % Word = jiffies + 1
    BY <1>1 DEF NoWrap
  <2> QED BY <2>1 DEF ScanNext
<1>3. Deadlines' = Deadlines
  BY DEF ScanNext, Deadlines, Pending
<1>4. ASSUME NEW t \in Timers PROVE Deadlines[t] # jiffies
  <2>1. CASE ~Pending(t)
    BY <1>1, <2>1 DEF Deadlines
  <2>2. CASE Pending(t)
    <3>1. OnTime(t) /\ ~Taken(t) /\ expires[t] \in Nat
      BY <2>2, WheelAssumption DEF TInv, Taken, ScanNext, Shape, TypeOK
    <3>2. PICK r \in 1..5 : InRing(t, r)
      BY <3>1 DEF OnTime
    <3>3. From(r, expires[t]) \in Nat /\ From(r, expires[t]) <= expires[t]
      BY <3>1, FromBelow
    <3>4. jiffies + 1 <= From(r, expires[t])
      BY <3>2 DEF InRing, Coming, ScanNext
    <3> QED BY <1>1, <2>2, <3>1, <3>3, <3>4 DEF Deadlines
  <2> QED BY <2>1, <2>2
<1> QED BY <1>2, <1>3, <1>4 DEF TS!Advance, Deadlines

\* A cascade moves timers between slots and the taking of a slot moves them to the local
\* list: no user sees either, and run_timer's start and end as little.
LEMMA ScanHidden ==
    ASSUME Scan PROVE UNCHANGED <<jiffies, Deadlines>>
<1> DEFINE Moved(t) == \E r \in CascadedRings : place[t] = <<r, Slot(r, jiffies)>>
           Where(t) == IF Moved(t) THEN PlaceFor(expires[t]) ELSE place[t]
<1>1. /\ place' = [t \in Timers |->
             IF Where(t) = <<1, Slot(1, jiffies)>> THEN Expired ELSE Where(t)]
      /\ UNCHANGED <<jiffies, expires>>
  BY DEF Scan
<1>2. ASSUME NEW t \in Timers PROVE Pending(t)' <=> Pending(t)
  <2>1. place'[t] = IF Where(t) = <<1, Slot(1, jiffies)>> THEN Expired ELSE Where(t)
    BY <1>1
  <2>2. Moved(t) => place[t] # NotInUse /\ Where(t) # NotInUse
    <3>1. \A r \in 1..5 : \A u : <<r, u>> # NotInUse
      BY DEF NotInUse
    <3>2. CascadedRings \subseteq 1..5
      BY DEF CascadedRings
    <3>3. \A e : PlaceFor(e) # NotInUse
      BY <3>1, PlaceForType
    <3> QED BY <3>1, <3>2, <3>3
  <2>3. NotInUse # <<1, Slot(1, jiffies)>> /\ Expired # NotInUse
    BY DEF NotInUse, Expired
  <2>4. CASE Moved(t)
    BY <2>1, <2>2, <2>3, <2>4 DEF Pending
  <2>5. CASE ~Moved(t)
    BY <2>1, <2>3, <2>5 DEF Pending
  <2> QED BY <2>4, <2>5
<1> QED BY <1>1, <1>2 DEF Deadlines

\* The detailed wheel is a timer manager as TimerSpec describes it, step by step.
THEOREM WheelImplements ==
    ASSUME NoWrap, CallbacksLater PROVE Spec => ImplementsTimers
<1>1. Init => TS!Init
  BY WheelAssumption DEF Init, Pending, TS!Init
<1>2. TInv /\ [Next]_vars => [TS!Next]_<<jiffies, Deadlines>>
  <2> SUFFICES ASSUME TInv, [Next]_vars PROVE [TS!Next]_<<jiffies, Deadlines>>
    OBVIOUS
  <2>1. ASSUME NEW t \in Timers, NEW due \in Dues \union CallbackDues, NEW p \in Periods,
               Create(t, due, p)
        PROVE  TS!Next
    BY <2>1, CreateRefines DEF TS!Next
  <2>2. ASSUME NEW t \in Timers, Fire(t) PROVE TS!Next
    <3>1. period[t] \in Periods /\ TS!Fire(t, period[t])
      BY <2>2, FireRefines
    <3>2. \E p \in Periods : TS!Fire(t, p)
      BY <3>1 DEF TS!Fire
    <3> QED BY <3>2 DEF TS!Next
  <2>3. CASE ScanNext
    BY <2>3, ScanNextRefines DEF TS!Next
  <2>4. CASE RunStart \/ RunEnd \/ UNCHANGED vars
    BY <2>4 DEF RunStart, RunEnd, vars, Deadlines, Pending
  <2> QED BY <2>1, <2>2, <2>3, <2>4, ScanHidden DEF Next
<1> QED BY <1>1, <1>2, TInvInvariant, PTL DEF Spec, ImplementsTimers, TS!Spec, TS!timerVars, Deadlines

===============================================================================
