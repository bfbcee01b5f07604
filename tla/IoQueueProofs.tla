----------------------------- MODULE IoQueueProofs -----------------------------
(***************************************************************************)
(* The ring buffer implements the queue, for every size of the buffer and  *)
(* every set of bytes, whatever the ticks do; and what breaks an assertion *)
(* or forgets a sleeper is an end that runs in one of two windows of the   *)
(* other, and nothing else.                                                *)
(***************************************************************************)
EXTENDS IoQueue, Functions, SequenceTheorems, TLAPS

-------------------------------------------------------------------------------
(* The ring as a sequence.                                                   *)

\* The length ioq_length computes is one the ring can have.
LEMMA LengthType ==
    ASSUME head \in 0..(BufSize - 1), tail \in 0..(BufSize - 1)
    PROVE  /\ IoqLength \in 0..(BufSize - 1)
           /\ IoqLength = 0 <=> IoqEmpty
           /\ IoqLength = BufSize - 1 <=> IoqFull
<1> USE IoQueueAssumption
<1>1. CASE head >= tail
  BY <1>1 DEF IoqLength, IoqEmpty, IoqFull, NextPos
<1>2. CASE ~(head >= tail)
  BY <1>2 DEF IoqLength, IoqEmpty, IoqFull, NextPos
<1> QED BY <1>1, <1>2

\* What the ring holds is a sequence of bytes.
LEMMA ContentsType ==
    ASSUME RingTypeOK
    PROVE  /\ Contents \in Seq(Bytes)
           /\ Len(Contents) = IoqLength
           /\ \A i \in 1..IoqLength :
                /\ Place(i) \in 0..(BufSize - 1)
                /\ Contents[i] = buf[Place(i)]
<1> USE IoQueueAssumption
<1>1. IoqLength \in 0..(BufSize - 1)
  BY LengthType DEF RingTypeOK
<1>2. ASSUME NEW i \in 1..IoqLength
      PROVE  Place(i) \in 0..(BufSize - 1)
  BY <1>1, <1>2 DEF RingTypeOK, Place
<1>3. Contents \in [1..IoqLength -> Bytes]
  BY <1>2 DEF Contents, RingTypeOK
<1> QED BY <1>1, <1>2, <1>3 DEF Contents

\* The free place the producer writes to holds no byte of the queue.
LEMMA HeadIsFree ==
    ASSUME RingTypeOK, NEW i \in 1..IoqLength
    PROVE  Place(i) # head
<1> USE IoQueueAssumption
<1>1. CASE head >= tail
  BY <1>1 DEF RingTypeOK, Place, IoqLength
<1>2. CASE ~(head >= tail)
  BY <1>2 DEF RingTypeOK, Place, IoqLength
<1> QED BY <1>1, <1>2

\* ioq_putchar's first store changes nothing a consumer can see.
LEMMA WriteInvisible ==
    ASSUME RingTypeOK, NEW b \in Bytes,
           buf' = [buf EXCEPT ![head] = b], UNCHANGED <<head, tail>>
    PROVE  Contents' = Contents
<1>1. IoqLength' = IoqLength
  BY DEF IoqLength
<1>2. ASSUME NEW i \in 1..IoqLength
      PROVE  buf'[Place(i)'] = buf[Place(i)]
  BY <1>2, HeadIsFree, ContentsType DEF RingTypeOK, Place
<1> QED BY <1>1, <1>2 DEF Contents

\* Its second store appends the byte.
LEMMA HeadAdvances ==
    ASSUME RingTypeOK, RingTypeOK', ~IoqFull,
           head' = NextPos(head), UNCHANGED <<buf, tail>>
    PROVE  Contents' = Append(Contents, buf[head])
<1> USE IoQueueAssumption
<1>1. IoqLength' = IoqLength + 1
  <2>1. CASE head + 1 = BufSize
    BY <2>1 DEF RingTypeOK, IoqLength, IoqFull, NextPos
  <2>2. CASE head + 1 # BufSize
    BY <2>2 DEF RingTypeOK, IoqLength, IoqFull, NextPos
  <2> QED BY <2>1, <2>2
<1>2. IoqLength \in Nat
  BY LengthType DEF RingTypeOK
<1>3. \A i \in 1..IoqLength : Contents'[i] = Contents[i]
  BY <1>1, <1>2 DEF Contents, Place
<1>4. Contents'[IoqLength + 1] = buf[head]
  <2>1. Place(IoqLength + 1) = head
    BY <1>2 DEF Place, IoqLength, RingTypeOK
  <2>2. Contents'[IoqLength + 1] = buf[Place(IoqLength + 1)]
    BY <1>1, <1>2 DEF Contents, Place
  <2> QED BY <2>1, <2>2
<1>5. Contents \in Seq(Bytes) /\ Len(Contents) = IoqLength
  BY ContentsType
<1>6. Contents' \in [1..(IoqLength + 1) -> Bytes]
  <2>1. \A i \in 1..IoqLength : Contents[i] \in Bytes
    BY <1>2, <1>5
  <2>2. buf[head] \in Bytes
    BY DEF RingTypeOK
  <2>3. \A i \in 1..(IoqLength + 1) : Contents'[i] \in Bytes
    BY <1>2, <1>3, <1>4, <2>1, <2>2
  <2>4. Contents' = [i \in 1..(IoqLength + 1) |-> Contents'[i]]
    BY <1>1 DEF Contents
  <2> QED BY <2>3, <2>4
<1>7. Contents' \in Seq(Bytes) /\ Len(Contents') = IoqLength + 1
  BY <1>2, <1>6
<1> QED BY <1>2, <1>3, <1>4, <1>5, <1>7

\* ioq_getchar's store removes the oldest byte.
LEMMA TailAdvances ==
    ASSUME RingTypeOK, RingTypeOK', ~IoqEmpty,
           tail' = NextPos(tail), UNCHANGED <<buf, head>>
    PROVE  Contents' = Tail(Contents)
<1> USE IoQueueAssumption
<1>1. IoqLength' = IoqLength - 1
  <2>1. CASE tail + 1 = BufSize
    BY <2>1 DEF RingTypeOK, IoqLength, IoqEmpty, NextPos
  <2>2. CASE tail + 1 # BufSize
    BY <2>2 DEF RingTypeOK, IoqLength, IoqEmpty, NextPos
  <2> QED BY <2>1, <2>2
<1>2. IoqLength \in Nat \ {0}
  BY LengthType DEF RingTypeOK
<1>3. \A i \in 1..(IoqLength - 1) : Place(i)' = Place(i + 1)
  BY <1>2 DEF Place, NextPos, RingTypeOK, IoqLength
<1>4. \A i \in 1..(IoqLength - 1) : Contents'[i] = Contents[i + 1]
  BY <1>1, <1>2, <1>3 DEF Contents
<1>5. Contents \in Seq(Bytes) /\ Len(Contents) = IoqLength
  BY ContentsType
<1>6. Contents' \in [1..(IoqLength - 1) -> Bytes]
  <2>1. \A i \in 1..IoqLength : Contents[i] \in Bytes
    BY <1>2, <1>5
  <2>2. \A i \in 1..(IoqLength - 1) : i + 1 \in 1..IoqLength
    BY <1>2
  <2>3. \A i \in 1..(IoqLength - 1) : Contents'[i] \in Bytes
    BY <1>4, <2>1, <2>2
  <2>4. Contents' = [i \in 1..(IoqLength - 1) |-> Contents'[i]]
    BY <1>1 DEF Contents
  <2> QED BY <2>3, <2>4
<1>7. Contents' \in Seq(Bytes) /\ Len(Contents') = IoqLength - 1
  BY <1>2, <1>6
<1> QED BY <1>2, <1>4, <1>5, <1>7

\* The oldest byte is the one at tail.
LEMMA OldestAtTail ==
    ASSUME RingTypeOK, ~IoqEmpty
    PROVE  Contents # <<>> /\ Head(Contents) = buf[tail]
<1> USE IoQueueAssumption
<1>1. IoqLength >= 1 /\ IoqLength \in Nat
  BY LengthType DEF RingTypeOK
<1>2. Place(1) = tail
  BY DEF Place, RingTypeOK
<1> QED BY <1>1, <1>2, ContentsType

-------------------------------------------------------------------------------
(* The inductive invariant: an end that moves a byte has found the ring fit, *)
(* and the other end cannot change that.                                     *)

Moving == {"move", "advance"}

IInv ==
    /\ RingTypeOK
    /\ pc[Producer] \in Moving => ~IoqFull
    /\ pc[Consumer] \in Moving => ~IoqEmpty
    /\ pc[Producer] = "advance" => buf[head] = byte[Producer]
    /\ pc[Consumer] = "advance" => byte[Consumer] = buf[tail]

ringSide == <<buf, head, tail, byte>>

\* The steps that touch neither the ring nor a byte keep the invariant.
LEMMA OtherSteps ==
    ASSUME IInv, NEW e \in Ends, pc[e] \notin Moving, UNCHANGED ringSide,
           NEW s \in (Statements \union {"panic"}) \ {"advance"},
           s = "move" => ~MustWait(e),
           pc' = [pc EXCEPT ![e] = s]
    PROVE  IInv' /\ UNCHANGED <<Contents, byte>>
<1>1. RingTypeOK'
  BY DEF IInv, ringSide, RingTypeOK
<1>2. UNCHANGED <<IoqFull, IoqEmpty, Contents, byte>>
  BY DEF ringSide, IoqFull, IoqEmpty, Contents, IoqLength, NextPos, Place
<1>3. e = Producer \/ e = Consumer
  BY DEF Ends
<1> QED
  BY <1>1, <1>2, <1>3, IoQueueAssumption
  DEF IInv, RingTypeOK, Ends, Tasks, Moving, MustWait, ringSide

\* The invariant holds initially.
LEMMA IInvInit == Init => IInv
  BY IoQueueAssumption DEF Init, IInv, RingTypeOK, Ends, Tasks, Statements, Moving

\* A step either leaves the queue as it is or is one of the queue's.
LEMMA StepRefines ==
    ASSUME IInv, Next
    PROVE  IInv' /\ (Queue!Next \/ UNCHANGED <<Contents, byte[Consumer]>>)
<1>2. CASE Preempt
  BY <1>2 DEF Preempt, Tick, IInv, RingTypeOK, ringVars, ownVars, Contents, IoqLength,
              Place, IoqFull, IoqEmpty, NextPos
<1>3. ASSUME NEW e \in Ends, Call(e) \/ InCall(e)
      PROVE  IInv' /\ (Queue!Next \/ UNCHANGED <<Contents, byte[Consumer]>>)
  <2>1. CASE Call(e)
    <3>1. IInv'
      BY <2>1, IoQueueAssumption
      DEF Call, IInv, RingTypeOK, At, Goto, ringVars, Moving, Ends, Tasks, Statements,
          IoqFull, IoqEmpty, NextPos
    <3>2. UNCHANGED Contents
      BY <2>1 DEF Call, ringVars, Contents, IoqLength, Place
    <3>3. byte'[Consumer] = byte[Consumer]
      BY <2>1, IoQueueAssumption DEF Call, IInv, RingTypeOK, Ends
    <3> QED BY <3>1, <3>2, <3>3
  <2>2. CASE Test(e)
    <3>1. pc[e] \notin Moving /\ UNCHANGED ringSide
      BY <2>2 DEF Test, At, Moving, ringVars, ownVars, ringSide
    <3>2. CASE MustWait(e)
      <4>1. pc' = [pc EXCEPT ![e] = "lock"]
        BY <2>2, <3>2 DEF Test, Goto
      <4> QED BY <3>1, <4>1, OtherSteps DEF Statements
    <3>3. CASE ~MustWait(e)
      <4>1. pc' = [pc EXCEPT ![e] = "move"]
        BY <2>2, <3>3 DEF Test, Goto
      <4> QED BY <3>1, <3>3, <4>1, OtherSteps DEF Statements
    <3> QED BY <3>2, <3>3
  <2>3. CASE Lock(e)
    <3>1. pc[e] \in {"lock", "again"} /\ UNCHANGED ringSide
      BY <2>3 DEF Lock, At, ringVars, ownVars, ringSide
    <3>2. CASE holder = Nobody
      <4>1. pc' = [pc EXCEPT ![e] = "register"]
        BY <2>3, <3>2 DEF Lock, Goto
      <4> QED BY <3>1, <4>1, OtherSteps DEF Statements, Moving
    <3>3. CASE holder # Nobody
      <4>1. pc' = [pc EXCEPT ![e] = "again"]
        BY <2>3, <3>3 DEF Lock, Goto
      <4> QED BY <3>1, <4>1, OtherSteps DEF Statements, Moving
    <3> QED BY <3>2, <3>3
  <2>4. CASE Register(e) \/ Block(e) \/ Unlock(e) \/ Check(e) \/ Wake(e) \/ Clear(e)
    <3>1. pc[e] \notin Moving /\ UNCHANGED ringSide
      BY <2>4 DEF Register, Block, Unlock, Check, Wake, Clear, At, Moving, ringVars,
                  ownVars, ringSide
    <3>2. PICK s \in {"panic", "block", "unlock", "test", "wake", "own", "clear"} :
            pc' = [pc EXCEPT ![e] = s]
      BY <2>4 DEF Register, Block, Unlock, Check, Wake, Clear, Goto
    <3> QED BY <3>1, <3>2, OtherSteps DEF Statements
  <2>5. CASE Move(e)
    <3>1. CASE e = Producer
      <4>1. /\ pc[e] = "move" /\ pc' = [pc EXCEPT ![e] = "advance"]
            /\ buf' = [buf EXCEPT ![head] = byte[e]]
            /\ UNCHANGED <<head, tail, byte>>
        BY <2>5, <3>1 DEF Move, At, Goto
      <4>2. UNCHANGED Contents
        BY <4>1, WriteInvisible DEF IInv, RingTypeOK
      <4>3. RingTypeOK'
        BY <4>1 DEF IInv, RingTypeOK, Statements, Tasks
      <4>4. IInv'
        BY <3>1, <4>1, <4>3, IoQueueAssumption
        DEF IInv, RingTypeOK, Ends, Tasks, Moving, IoqFull, IoqEmpty, NextPos
      <4> QED BY <4>1, <4>2, <4>4
    <3>2. CASE e = Consumer
      <4>1. /\ pc[e] = "move" /\ pc' = [pc EXCEPT ![e] = "advance"]
            /\ byte' = [byte EXCEPT ![e] = buf[tail]]
            /\ UNCHANGED <<buf, head, tail>>
        BY <2>5, <3>2, IoQueueAssumption DEF Move, At, Goto
      <4>2. RingTypeOK'
        BY <4>1 DEF IInv, RingTypeOK, Statements, Tasks
      <4>3. IInv'
        BY <3>2, <4>1, <4>2, IoQueueAssumption
        DEF IInv, RingTypeOK, Ends, Tasks, Moving, IoqFull, IoqEmpty, NextPos
      <4>4. UNCHANGED Contents
        BY <4>1 DEF Contents, IoqLength, Place
      <4>5. ~IoqEmpty
        BY <3>2, <4>1 DEF IInv, Moving
      <4>6. byte'[Consumer] = Head(Contents) /\ Contents # <<>>
        BY <3>2, <4>1, <4>5, OldestAtTail DEF IInv, RingTypeOK
      <4> QED BY <4>3, <4>4, <4>6 DEF Queue!Next, Queue!Read
    <3> QED BY <3>1, <3>2 DEF Ends
  <2>6. CASE Advance(e)
    <3>1. CASE e = Producer
      <4>1. /\ pc[e] = "advance" /\ pc' = [pc EXCEPT ![e] = "check"]
            /\ head' = NextPos(head)
            /\ UNCHANGED <<buf, tail, byte>>
        BY <2>6, <3>1 DEF Advance, At, Goto
      <4>2. ~IoqFull /\ buf[head] = byte[e]
        BY <3>1, <4>1 DEF IInv, Moving
      <4>3. RingTypeOK'
        BY <4>1, IoQueueAssumption DEF IInv, RingTypeOK, Statements, Tasks, NextPos
      <4>4. Contents' = Append(Contents, byte[e])
        BY <4>1, <4>2, <4>3, HeadAdvances DEF IInv
      <4>5. ~IoqEmpty'
        BY <4>1, <4>2 DEF IoqFull, IoqEmpty
      <4>6. IInv'
        BY <3>1, <4>1, <4>3, <4>5, IoQueueAssumption
        DEF IInv, RingTypeOK, Ends, Tasks, Moving
      <4>7. Len(Contents) < BufSize - 1
        BY <4>2, LengthType, ContentsType, IoQueueAssumption DEF IInv, RingTypeOK
      <4>8. Queue!Put(byte[e])
        BY <4>1, <4>4, <4>7 DEF Queue!Put
      <4>9. byte[e] \in Bytes
        BY DEF IInv, RingTypeOK
      <4> QED BY <4>6, <4>8, <4>9 DEF Queue!Next
    <3>2. CASE e = Consumer
      <4>1. /\ pc[e] = "advance" /\ pc' = [pc EXCEPT ![e] = "check"]
            /\ tail' = NextPos(tail)
            /\ UNCHANGED <<buf, head, byte>>
        BY <2>6, <3>2, IoQueueAssumption DEF Advance, At, Goto
      <4>2. ~IoqEmpty /\ byte[e] = buf[tail]
        BY <3>2, <4>1 DEF IInv, Moving
      <4>3. RingTypeOK'
        BY <4>1, IoQueueAssumption DEF IInv, RingTypeOK, Statements, Tasks, NextPos
      <4>4. Contents' = Tail(Contents)
        BY <4>1, <4>2, <4>3, TailAdvances DEF IInv
      <4>5. ~IoqFull'
        BY <4>1, <4>2, IoQueueAssumption DEF IInv, RingTypeOK, IoqFull, IoqEmpty, NextPos
      <4>6. IInv'
        BY <3>2, <4>1, <4>3, <4>5, IoQueueAssumption
        DEF IInv, RingTypeOK, Ends, Tasks, Moving
      <4>7. Contents # <<>> /\ byte[Consumer] = Head(Contents)
        BY <3>2, <4>2, OldestAtTail DEF IInv
      <4> QED BY <4>1, <4>4, <4>6, <4>7 DEF Queue!Next, Queue!Remove
    <3> QED BY <3>1, <3>2 DEF Ends
  <2> QED BY <1>3, <2>1, <2>2, <2>3, <2>4, <2>5, <2>6 DEF InCall
<1> QED BY <1>2, <1>3 DEF Next, Runs

\* The invariant holds in every state.
THEOREM RingInvariant == Spec => []IInv
<1>1. IInv /\ [Next]_vars => IInv'
  <2>1. IInv /\ UNCHANGED vars => IInv'
    BY DEF IInv, RingTypeOK, vars, ringVars, ownVars, IoqFull, IoqEmpty, NextPos
  <2> QED BY <2>1, StepRefines
<1> QED BY <1>1, IInvInit, PTL DEF Spec

\* ioq_putchar and ioq_getchar are a first-in first-out queue of bufsize - 1 bytes.
THEOREM RingIsFifo == Spec => ImplementsFifo
<1>1. Init => Queue!Init
  <2>1. SUFFICES ASSUME Init PROVE Queue!Init
    OBVIOUS
  <2>2. IoqLength = 0
    BY <2>1 DEF Init, IoqLength
  <2>3. Contents = <<>>
    BY <2>2 DEF Contents
  <2>4. byte[Consumer] \in Bytes
    BY <2>1, IInvInit DEF IInv, RingTypeOK, Ends
  <2> QED BY <2>3, <2>4 DEF Queue!Init
<1>2. IInv /\ [Next]_vars => [Queue!Next]_<<Contents, byte[Consumer]>>
  <2>1. UNCHANGED vars => UNCHANGED <<Contents, byte[Consumer]>>
    BY DEF vars, ringVars, ownVars, Contents, IoqLength, Place
  <2> QED BY <2>1, StepRefines
<1> QED BY <1>1, <1>2, RingInvariant, PTL DEF Spec, ImplementsFifo, Queue!Spec

-------------------------------------------------------------------------------
(* Lists without repetition.                                                 *)

\* list_append of an element that is not in the list.
LEMMA AppendNew ==
    ASSUME NEW S, NEW s \in Seq(S), NEW x \in S, IsInjective(s), x \notin Range(s)
    PROVE  /\ Append(s, x) \in Seq(S)
           /\ Append(s, x) # <<>>
           /\ IsInjective(Append(s, x))
           /\ Range(Append(s, x)) = Range(s) \union {x}
<1>1. /\ Append(s, x) \in Seq(S)
      /\ Append(s, x) # <<>>
      /\ Len(Append(s, x)) = Len(s) + 1
      /\ \A i \in 1..Len(s) : Append(s, x)[i] = s[i]
      /\ Append(s, x)[Len(s) + 1] = x
  BY AppendProperties
<1>2. /\ Len(s) \in Nat
      /\ DOMAIN s = 1..Len(s)
      /\ DOMAIN Append(s, x) = 1..(Len(s) + 1)
  BY <1>1, LenProperties
<1>3. \A i \in 1..Len(s) : s[i] # x
  BY <1>2 DEF Range
<1>4. IsInjective(Append(s, x))
  BY <1>1, <1>2, <1>3 DEF IsInjective
<1>5. Range(Append(s, x)) = Range(s) \union {x}
  BY <1>1, <1>2 DEF Range
<1> QED BY <1>1, <1>4, <1>5

\* list_pop of a list that is not empty.
LEMMA PopFront ==
    ASSUME NEW S, NEW s \in Seq(S), s # <<>>, IsInjective(s)
    PROVE  /\ Head(s) \in S
           /\ Head(s) \in Range(s)
           /\ Tail(s) \in Seq(S)
           /\ IsInjective(Tail(s))
           /\ Range(Tail(s)) = Range(s) \ {Head(s)}
<1>1. /\ Len(s) \in Nat
      /\ Len(s) # 0
      /\ DOMAIN s = 1..Len(s)
  BY LenProperties, EmptySeq
<1>2. /\ Head(s) = s[1]
      /\ Head(s) \in S
      /\ Tail(s) \in Seq(S)
      /\ Len(Tail(s)) = Len(s) - 1
      /\ \A i \in 1..Len(Tail(s)) : Tail(s)[i] = s[i + 1]
  BY HeadTailProperties, ElementOfSeq, <1>1
<1>3. DOMAIN Tail(s) = 1..(Len(s) - 1)
  BY <1>2, LenProperties
<1>4. IsInjective(Tail(s))
  BY <1>1, <1>2, <1>3 DEF IsInjective
<1>5. \A i \in 2..Len(s) : s[i] = Tail(s)[i - 1] /\ i - 1 \in DOMAIN Tail(s)
  BY <1>1, <1>2, <1>3
<1>6. Range(Tail(s)) = Range(s) \ {Head(s)}
  <2>1. ASSUME NEW x \in Range(Tail(s)) PROVE x \in Range(s) \ {Head(s)}
    <3>1. PICK i \in 1..(Len(s) - 1) : x = Tail(s)[i]
      BY <1>3 DEF Range
    <3>2. x = s[i + 1] /\ i + 1 \in 1..Len(s) /\ 1 \in 1..Len(s) /\ i + 1 # 1
      BY <3>1, <1>1, <1>2
    <3> QED BY <3>2, <1>1, <1>2 DEF IsInjective, Range
  <2>2. ASSUME NEW x \in Range(s), x # Head(s) PROVE x \in Range(Tail(s))
    <3>1. PICK i \in 1..Len(s) : x = s[i]
      BY <1>1 DEF Range
    <3>2. i \in 2..Len(s)
      BY <3>1, <2>2, <1>1, <1>2
    <3> QED BY <3>1, <3>2, <1>5 DEF Range
  <2> QED BY <2>1, <2>2
<1>7. Head(s) \in Range(s)
  BY <1>1, <1>2 DEF Range
<1> QED BY <1>2, <1>4, <1>6, <1>7

\* list_push of an element that is not in the list.
LEMMA PushNew ==
    ASSUME NEW S, NEW s \in Seq(S), IsInjective(s), NEW x \in S, x \notin Range(s)
    PROVE  /\ <<x>> \o s \in Seq(S)
           /\ IsInjective(<<x>> \o s)
           /\ Range(<<x>> \o s) = Range(s) \union {x}
<1> DEFINE r == <<x>> \o s
<1>1. <<x>> \in Seq(S) /\ Len(<<x>>) = 1 /\ <<x>>[1] = x
  OBVIOUS
<1>2. /\ Len(s) \in Nat /\ DOMAIN s = 1..Len(s)
      /\ r \in Seq(S) /\ Len(r) = 1 + Len(s)
      /\ \A i \in 1..(1 + Len(s)) : r[i] = IF i <= 1 THEN <<x>>[i] ELSE s[i - 1]
  BY <1>1, ConcatProperties, LenProperties
<1> HIDE DEF r
<1>3. DOMAIN r = 1..(1 + Len(s))
  BY <1>2, LenProperties
<1>4. r[1] = x /\ \A i \in 2..(1 + Len(s)) : i - 1 \in DOMAIN s /\ r[i] = s[i - 1]
  BY <1>1, <1>2
<1>5. \A i \in DOMAIN s : s[i] # x
  BY DEF Range
<1>6. IsInjective(r)
  <2> SUFFICES ASSUME NEW i \in DOMAIN r, NEW j \in DOMAIN r, r[i] = r[j] PROVE i = j
    BY DEF IsInjective
  <2>1. CASE i = 1 \/ j = 1
    BY <1>2, <1>3, <1>4, <1>5, <2>1
  <2>2. CASE i # 1 /\ j # 1
    <3>1. i - 1 \in DOMAIN s /\ j - 1 \in DOMAIN s /\ s[i - 1] = s[j - 1]
      BY <1>2, <1>3, <1>4, <2>2
    <3>2. i - 1 = j - 1
      BY <3>1 DEF IsInjective
    <3> QED BY <1>2, <1>3, <3>2
  <2> QED BY <2>1, <2>2
<1>7. Range(r) = Range(s) \union {x}
  <2>1. ASSUME NEW i \in DOMAIN r PROVE r[i] \in Range(s) \union {x}
    <3>1. CASE i = 1
      BY <3>1, <1>4
    <3>2. CASE i # 1
      <4>1. i \in 2..(1 + Len(s))
        BY <1>2, <1>3, <3>2
      <4> QED BY <4>1, <1>4 DEF Range
    <3> QED BY <3>1, <3>2
  <2>2. x \in Range(r)
    BY <1>2, <1>3, <1>4 DEF Range
  <2>3. ASSUME NEW i \in DOMAIN s PROVE s[i] \in Range(r)
    <3>1. i + 1 \in 2..(1 + Len(s)) /\ (i + 1) - 1 = i
      BY <1>2
    <3>2. r[i + 1] = s[i]
      BY <1>4, <3>1
    <3>3. i + 1 \in DOMAIN r
      BY <1>2, <1>3, <3>1
    <3> QED BY <3>2, <3>3 DEF Range
  <2> QED BY <2>1, <2>2, <2>3 DEF Range
<1>8. r \in Seq(S)
  BY <1>2
<1> QED BY <1>6, <1>7, <1>8 DEF r

-------------------------------------------------------------------------------
(* Who waits, and who will wake it, as long as no end has run while the      *)
(* other was preempted between its registration and its sleep, or between    *)
(* its waking the first and the reset of the field.                          *)

Shape ==
    /\ cur \in Tasks /\ ready \in Seq(Tasks) /\ blocked \subseteq Ends
    /\ queue \in Seq(Ends)
    /\ waiter \in [Ends -> Ends \union {Nobody}]
    /\ pc \in [Tasks -> Statements \union {"panic"}]

\* The ready list is what is neither current nor blocked.
OnePlace ==
    /\ IsInjective(ready)
    /\ cur \notin Range(ready) /\ cur \notin blocked
    /\ \A t \in Tasks : t # cur => (t \in Range(ready) <=> t \notin blocked)

QueuedAtLock ==
    /\ IsInjective(queue)
    /\ \A e \in Range(queue) : e \in blocked /\ pc[e] = "again"

\* A field names the end it is of, which is blocked or about to be, unless it has just
\* been made ready and the field is about to be reset.
Registered ==
    \A e \in Ends :
        /\ waiter[e] \in {Nobody, e}
        /\ waiter[e] = e =>
            \/ pc[e] = "block"
            \/ pc[e] = "unlock" /\ (e \in blocked \/ pc[Other(e)] = "clear")
        /\ pc[e] = "block" => waiter[e] = e

\* An end that wakes the other finds it registered and blocked until it does.
Waking ==
    \A e \in Ends :
        /\ pc[e] = "wake" => waiter[Other(e)] = Other(e) /\ Other(e) \in blocked
        /\ pc[e] = "clear" => waiter[Other(e)] = Other(e) /\ Other(e) \notin blocked

\* Who is blocked waits for the lock in its queue, or for the ring in its field.
SleepersKnown ==
    \A e \in blocked :
        \/ pc[e] = "again" /\ e \in Range(queue)
        \/ pc[e] = "unlock" /\ waiter[e] = e

NoPanic == \A e \in Ends : pc[e] # "panic"

WInv ==
    /\ Shape
    /\ OnePlace
    /\ QueuedAtLock
    /\ Registered
    /\ Waking
    /\ SleepersKnown
    /\ NoPanic

\* There are two ends; an end is not the other, and Main is neither.
LEMMA TwoEnds ==
    /\ Nobody \notin Tasks /\ Ends \subseteq Tasks /\ Main \in Tasks \ Ends
    /\ \A e \in Ends : Other(e) \in Ends /\ Other(e) # e /\ Other(Other(e)) = e
    /\ \A e, d \in Ends : d # e => d = Other(e)
<1> QED BY IoQueueAssumption DEF Ends, Tasks, Other

\* Giving up the processor: Main is ready, so there is a next task.
LEMMA GiveUpPlace ==
    ASSUME Shape, OnePlace, NEW e \in Ends, cur = e, GiveUp(e)
    PROVE  /\ cur' \in Tasks /\ cur' # e /\ ready' \in Seq(Tasks)
           /\ blocked' = blocked \union {e} /\ blocked' \subseteq Ends
           /\ OnePlace'
<1> DEFINE h == Head(ready)
<1>1. /\ cur' = h /\ ready' = Tail(ready) /\ blocked' = blocked \union {e}
      /\ ready \in Seq(Tasks) /\ IsInjective(ready) /\ e \notin Range(ready)
  BY DEF GiveUp, Shape, OnePlace
<1>2. Main \in Range(ready)
  BY TwoEnds DEF Shape, OnePlace
<1>3. ready # <<>>
  <2>1. PICK i \in DOMAIN ready : ready[i] = Main
    BY <1>2 DEF Range
  <2> QED BY <1>1, <2>1, EmptySeq, LenProperties
<1>4. /\ h \in Tasks /\ h \in Range(ready) /\ ready' \in Seq(Tasks)
      /\ IsInjective(ready') /\ Range(ready') = Range(ready) \ {h}
  BY <1>1, <1>3, PopFront
<1> HIDE DEF h
<1>5. h # e /\ h \notin blocked'
  BY <1>1, <1>4 DEF OnePlace
<1>6. \A t \in Tasks : t # h => (t \in Range(ready') <=> t \notin blocked')
  BY <1>1, <1>4, <1>5, TwoEnds DEF OnePlace
<1>7. OnePlace'
  BY <1>1, <1>4, <1>5, <1>6 DEF OnePlace
<1> QED BY <1>1, <1>4, <1>5, <1>7 DEF Shape

\* task_unblock moves a blocked task to the ready list.
LEMMA MakeReadyPlace ==
    ASSUME Shape, OnePlace, NEW x \in blocked, MakeReady(x)
    PROVE  /\ cur' = cur /\ ready' \in Seq(Tasks)
           /\ blocked' = blocked \ {x} /\ x # cur
           /\ OnePlace'
<1>1. /\ cur' = cur /\ ready' = <<x>> \o ready /\ blocked' = blocked \ {x}
      /\ ready \in Seq(Tasks) /\ IsInjective(ready) /\ x \in Tasks
      /\ x # cur /\ x \notin Range(ready)
  BY TwoEnds DEF MakeReady, Shape, OnePlace
<1>2. /\ ready' \in Seq(Tasks) /\ IsInjective(ready')
      /\ Range(ready') = Range(ready) \union {x}
  BY <1>1, PushNew
<1>3. OnePlace'
  BY <1>1, <1>2 DEF OnePlace
<1> QED BY <1>1, <1>2, <1>3

\* A statement that moves on between two that have nothing to do with waiting.
Waits == {"block", "unlock", "wake", "clear"}

\* The other end is in neither of the two windows.
OtherAway(e) == pc[Other(e)] \notin {"block", "clear"}

\* An end that runs while the history stays clear finds the other in neither: one that is
\* blocked is past its own.
LEMMA FindsAway ==
    ASSUME WInv, NEW e \in Ends, Runs(e), Unbroken'
    PROVE  OtherAway(e)
<1>1. CASE Other(e) \in blocked
  BY <1>1 DEF WInv, SleepersKnown, OtherAway
<1>2. CASE Other(e) \notin blocked
  BY <1>2 DEF Runs, Overtake, Unbroken, OtherAway, Windows
<1> QED BY <1>1, <1>2

LEMMA MovesOn ==
    ASSUME WInv, NEW e \in Ends, OtherAway(e),
           NEW there \in (Statements \ {"block", "wake", "clear"}),
           cur = e, pc[e] \notin Waits, pc' = [pc EXCEPT ![e] = there],
           UNCHANGED <<cpuVars, queue, waiter>>
    PROVE  WInv'
<1> USE TwoEnds DEF WInv, Shape, Waits
<1>1. /\ e \notin blocked /\ e \notin Range(queue)
      /\ pc'[e] = there /\ \A d \in Tasks : d # e => pc'[d] = pc[d]
      /\ waiter[e] = Nobody
  BY DEF OnePlace, QueuedAtLock, Registered
<1>2. UNCHANGED <<cur, ready, blocked, queue, waiter>>
  BY DEF cpuVars
<1>3. Shape' /\ OnePlace'
  BY <1>2 DEF OnePlace
<1>4. QueuedAtLock' /\ SleepersKnown'
  BY <1>1, <1>2, RangeOfSeq DEF QueuedAtLock, SleepersKnown
<1>5. NoPanic'
  BY <1>1, <1>2 DEF NoPanic, Statements
<1>6. Registered'
  <2>1. pc[Other(e)] # "clear" /\ pc'[Other(e)] # "clear"
    BY <1>1 DEF OtherAway
  <2>2. \A d \in Ends : d # e =>
          (pc'[Other(d)] = "clear" <=> pc[Other(d)] = "clear")
    BY <1>1
  <2> QED BY <1>1, <1>2, <2>1, <2>2 DEF Registered
<1>7. Waking'
  <2>1. \A d \in Ends : pc'[d] \in {"wake", "clear"} => d # e /\ pc[d] = pc'[d]
    BY <1>1
  <2> QED BY <1>2, <2>1 DEF Waking
<1> QED BY <1>3, <1>4, <1>5, <1>6, <1>7

LEMMA MoveSteps ==
    ASSUME WInv, NEW e \in Ends, OtherAway(e), Call(e) \/ Test(e) \/ Move(e) \/ Advance(e)
    PROVE  WInv'
<1>1. /\ cur = e /\ pc[e] \in {"own", "test", "move", "advance"}
      /\ UNCHANGED <<cpuVars, queue, waiter>>
  BY DEF Call, Test, Move, Advance, At, lockVars
<1>2. PICK there \in {"test", "lock", "move", "advance", "check"} :
        pc' = [pc EXCEPT ![e] = there]
  BY DEF Call, Test, Move, Advance, Goto
<1> QED BY <1>1, <1>2, MovesOn DEF Waits, Statements

\* lock_acquire: takes the lock, or queues an end that was not in the queue.
LEMMA LockStep ==
    ASSUME WInv, NEW e \in Ends, OtherAway(e), Lock(e) PROVE WInv'
<1> USE TwoEnds DEF WInv, Shape
<1>1. cur = e /\ pc[e] \in {"lock", "again"} /\ UNCHANGED waiter
  BY DEF Lock, At
<1>2. CASE holder = Nobody
  BY <1>1, <1>2, MovesOn DEF Lock, Goto, Waits, Statements
<1>3. CASE holder # Nobody
  <2>1. queue' = Append(queue, e) /\ GiveUp(e) /\ pc' = [pc EXCEPT ![e] = "again"]
    BY <1>3 DEF Lock, Goto
  <2> HIDE DEF WInv, Shape
  <2>12. pc'[e] = "again" /\ \A d \in Tasks : d # e => pc'[d] = pc[d]
    BY <2>1 DEF WInv, Shape
  <2> USE DEF WInv, Shape
  <2>2. /\ cur' \in Tasks /\ cur' # e /\ ready' \in Seq(Tasks) /\ OnePlace'
        /\ blocked' = blocked \union {e} /\ blocked' \subseteq Ends
    BY <1>1, <2>1, GiveUpPlace
  <2>3. e \notin blocked /\ e \notin Range(queue)
    BY <1>1 DEF OnePlace, QueuedAtLock
  <2>4. /\ queue' \in Seq(Ends) /\ IsInjective(queue')
        /\ Range(queue') = Range(queue) \union {e}
    BY <2>1, <2>3, AppendNew DEF QueuedAtLock
  <2>5. QueuedAtLock' /\ SleepersKnown'
    BY <1>1, <2>2, <2>4, <2>12, RangeOfSeq DEF QueuedAtLock, SleepersKnown
  <2>6. \A d \in Ends : pc[d] \notin {"block", "clear"}
    BY <1>1 DEF OtherAway
  <2>7. NoPanic'
    BY <2>12 DEF NoPanic
  <2>8. Registered'
    BY <1>1, <2>2, <2>6, <2>12 DEF Registered
  <2>9. Waking'
    BY <1>1, <2>2, <2>6, <2>12 DEF Waking
  <2>10. Shape'
    BY <1>1, <2>1, <2>2, <2>4 DEF Statements
  <2> QED BY <2>2, <2>5, <2>7, <2>8, <2>9, <2>10
<1> QED BY <1>2, <1>3

\* ioq_wait: nobody is registered yet.
LEMMA RegisterStep ==
    ASSUME WInv, NEW e \in Ends, OtherAway(e), Register(e) PROVE WInv'
<1> USE TwoEnds DEF WInv, Shape
<1>1. cur = e /\ pc[e] = "register" /\ waiter[e] = Nobody /\ e \notin blocked
  BY DEF Register, At, Registered, OnePlace
<1>2. /\ pc' = [pc EXCEPT ![e] = "block"] /\ waiter' = [waiter EXCEPT ![e] = e]
      /\ UNCHANGED <<cur, ready, blocked, queue>>
  BY <1>1 DEF Register, Goto, cpuVars, lockVars
<1>3. /\ pc'[e] = "block" /\ \A d \in Tasks : d # e => pc'[d] = pc[d]
      /\ waiter'[e] = e /\ \A d \in Ends : d # e => waiter'[d] = waiter[d]
  BY <1>2
<1>4. pc[Other(e)] \notin {"block", "clear", "wake"}
  BY <1>1 DEF OtherAway, Waking
<1>5. Shape' /\ OnePlace'
  BY <1>2 DEF OnePlace, Statements
<1>6. QueuedAtLock' /\ SleepersKnown'
  BY <1>1, <1>2, <1>3, RangeOfSeq DEF QueuedAtLock, SleepersKnown
<1>7. NoPanic'
  BY <1>1, <1>2, <1>3 DEF NoPanic
<1>8. Registered'
  BY <1>1, <1>2, <1>3, <1>4 DEF Registered
<1>9. Waking'
  BY <1>1, <1>2, <1>3, <1>4 DEF Waking
<1> QED BY <1>5, <1>6, <1>7, <1>8, <1>9

LEMMA BlockStep ==
    ASSUME WInv, NEW e \in Ends, OtherAway(e), Block(e) PROVE WInv'
<1> USE TwoEnds DEF WInv, Shape
<1>1. cur = e /\ pc[e] = "block" /\ waiter[e] = e /\ e \notin blocked /\ GiveUp(e)
  BY DEF Block, At, Registered, OnePlace
<1>2. pc' = [pc EXCEPT ![e] = "unlock"] /\ UNCHANGED <<queue, waiter>>
  BY DEF Block, Goto, lockVars
<1>3. /\ cur' \in Tasks /\ ready' \in Seq(Tasks) /\ OnePlace'
      /\ blocked' = blocked \union {e} /\ blocked' \subseteq Ends
  BY <1>1, GiveUpPlace
<1>4. /\ pc'[e] = "unlock" /\ \A d \in Tasks : d # e => pc'[d] = pc[d]
  BY <1>2
<1>5. pc[Other(e)] \notin {"block", "clear"}
  BY <1>1 DEF OtherAway
<1>6. \A d \in Ends : pc'[d] \notin {"block", "clear"}
  BY <1>4, <1>5
<1>7. QueuedAtLock' /\ SleepersKnown'
  BY <1>1, <1>2, <1>3, <1>4, RangeOfSeq DEF QueuedAtLock, SleepersKnown
<1>8. NoPanic'
  BY <1>4, <1>6 DEF NoPanic
<1>9. Registered'
  BY <1>1, <1>2, <1>3, <1>4, <1>6 DEF Registered
<1>10. Waking'
  BY <1>2, <1>3, <1>4, <1>6 DEF Waking
<1>11. Shape'
  BY <1>2, <1>3 DEF Statements
<1> QED BY <1>3, <1>7, <1>8, <1>9, <1>10, <1>11

\* lock_release wakes the other end, which waits for the lock and not for the ring.
LEMMA UnlockStep ==
    ASSUME WInv, NEW e \in Ends, OtherAway(e), Unlock(e) PROVE WInv'
<1> USE TwoEnds DEF WInv, Shape
<1>1. cur = e /\ pc[e] = "unlock" /\ e \notin blocked
  BY DEF Unlock, At, OnePlace
<1>2. pc[Other(e)] \notin {"block", "clear"} /\ pc[Other(e)] # "wake" /\ waiter[e] = Nobody
  BY <1>1 DEF OtherAway, Registered, Waking
<1>3. pc' = [pc EXCEPT ![e] = "test"] /\ UNCHANGED waiter
  BY DEF Unlock, Goto
<1>4. pc'[e] = "test" /\ \A d \in Tasks : d # e => pc'[d] = pc[d]
  BY <1>3
<1>5. /\ cur' = e /\ ready' \in Seq(Tasks) /\ OnePlace'
      /\ queue' \in Seq(Ends) /\ IsInjective(queue') /\ Range(queue') \subseteq Range(queue)
      /\ \/ blocked' = blocked /\ Range(queue') = Range(queue)
         \/ \E x \in Range(queue) :
              blocked' = blocked \ {x} /\ Range(queue') = Range(queue) \ {x}
  <2>1. CASE queue = <<>>
    BY <1>1, <2>1 DEF Unlock, cpuVars, OnePlace, QueuedAtLock
  <2>2. CASE queue # <<>>
    <3> DEFINE x == Head(queue)
    <3>1. MakeReady(x) /\ queue' = Tail(queue)
      BY <2>2 DEF Unlock
    <3>2. /\ x \in Range(queue) /\ queue' \in Seq(Ends)
          /\ IsInjective(queue') /\ Range(queue') = Range(queue) \ {x}
      BY <2>2, <3>1, PopFront DEF QueuedAtLock
    <3>3. x \in blocked
      BY <3>2 DEF QueuedAtLock
    <3> HIDE DEF x
    <3>4. cur' = cur /\ ready' \in Seq(Tasks) /\ blocked' = blocked \ {x} /\ OnePlace'
      BY <3>1, <3>3, MakeReadyPlace
    <3> QED BY <1>1, <3>2, <3>4
  <2> QED BY <2>1, <2>2
<1>6. blocked' \subseteq blocked /\ \A d \in blocked : d \notin Range(queue) => d \in blocked'
  BY <1>5
<1>7. QueuedAtLock'
  BY <1>1, <1>4, <1>5, RangeOfSeq DEF QueuedAtLock
<1>8. SleepersKnown'
  <2> SUFFICES ASSUME NEW d \in blocked'
               PROVE  \/ pc'[d] = "again" /\ d \in Range(queue')
                      \/ pc'[d] = "unlock" /\ waiter'[d] = d
    BY DEF SleepersKnown
  <2>1. d \in blocked /\ d \in Tasks /\ d # e /\ (d \in Range(queue) => d \in Range(queue'))
    BY <1>1, <1>5, <1>6
  <2> QED BY <1>3, <1>4, <2>1 DEF SleepersKnown
<1>9. NoPanic'
  BY <1>2, <1>4, <1>5 DEF NoPanic
<1>10. Registered'
  <2>1. \A d \in Ends : waiter[d] = d => d # e /\ pc[d] = "unlock" /\ d \in blocked
    BY <1>1, <1>2 DEF Registered
  <2>2. \A d \in Ends : waiter[d] = d => d \in blocked'
    BY <1>6, <2>1 DEF QueuedAtLock
  <2> QED BY <1>2, <1>3, <1>4, <2>1, <2>2 DEF Registered
<1>11. Waking'
  BY <1>2, <1>4 DEF Waking
<1>12. Shape'
  BY <1>3, <1>5, <1>6, TwoEnds DEF Statements
<1> QED BY <1>5, <1>7, <1>8, <1>9, <1>10, <1>11, <1>12

\* An end that finds the other registered finds it blocked.
LEMMA CheckStep ==
    ASSUME WInv, NEW e \in Ends, OtherAway(e), Check(e) PROVE WInv'
<1> USE TwoEnds DEF WInv, Shape
<1>1. cur = e /\ pc[e] = "check" /\ UNCHANGED <<cpuVars, queue, waiter>>
  BY DEF Check, At, lockVars
<1>2. CASE ~SomebodyWaits(e)
  BY <1>1, <1>2, MovesOn DEF Check, Goto, Waits, Statements
<1>3. CASE SomebodyWaits(e)
  <2>1. pc' = [pc EXCEPT ![e] = "wake"] /\ UNCHANGED <<cur, ready, blocked, queue, waiter>>
    BY <1>1, <1>3 DEF Check, Goto, cpuVars
  <2>2. pc'[e] = "wake" /\ \A d \in Tasks : d # e => pc'[d] = pc[d]
    BY <2>1
  <2>3. pc[Other(e)] \notin {"block", "clear"} /\ waiter[e] = Nobody /\ e \notin blocked
    BY <1>1 DEF OtherAway, Registered, OnePlace
  <2>4. waiter[Other(e)] = Other(e) /\ Other(e) \in blocked
    BY <1>1, <1>3, <2>3 DEF SomebodyWaits, Registered
  <2>5. Shape' /\ OnePlace'
    BY <2>1 DEF OnePlace, Statements
  <2>6. QueuedAtLock' /\ SleepersKnown'
    BY <1>1, <2>1, <2>2, <2>3, RangeOfSeq DEF QueuedAtLock, SleepersKnown
  <2>7. NoPanic'
    BY <2>1, <2>2 DEF NoPanic
  <2>8. Registered'
    BY <1>1, <2>1, <2>2, <2>3 DEF Registered
  <2>9. Waking'
    BY <2>1, <2>2, <2>4 DEF Waking
  <2> QED BY <2>5, <2>6, <2>7, <2>8, <2>9
<1> QED BY <1>2, <1>3

\* wakeup finds the registered end blocked.
LEMMA WakeStep ==
    ASSUME WInv, NEW e \in Ends, OtherAway(e), Wake(e) PROVE WInv'
<1> USE TwoEnds DEF WInv, Shape
<1> DEFINE o == Other(e)
<1>1. /\ cur = e /\ pc[e] = "wake" /\ waiter[o] = o /\ o \in blocked /\ o \in Ends /\ o # e
      /\ e \notin blocked
  BY DEF Wake, At, Waking, OnePlace
<1>2. pc[o] = "unlock" /\ o \notin Range(queue) /\ waiter[e] = Nobody
  BY <1>1 DEF SleepersKnown, Registered, QueuedAtLock
<1>3. /\ MakeReady(o) /\ pc' = [pc EXCEPT ![e] = "clear"]
      /\ UNCHANGED <<queue, waiter>>
  BY <1>1 DEF Wake, Goto, lockVars
<1>4. cur' = cur /\ ready' \in Seq(Tasks) /\ blocked' = blocked \ {o} /\ OnePlace'
  BY <1>1, <1>3, MakeReadyPlace
<1>5. pc'[e] = "clear" /\ \A d \in Tasks : d # e => pc'[d] = pc[d]
  BY <1>3
<1>6. QueuedAtLock' /\ SleepersKnown'
  BY <1>1, <1>2, <1>3, <1>4, <1>5, RangeOfSeq DEF QueuedAtLock, SleepersKnown
<1>7. NoPanic'
  BY <1>1, <1>2, <1>4, <1>5 DEF NoPanic
<1>8. Registered'
  BY <1>1, <1>2, <1>3, <1>4, <1>5 DEF Registered
<1>9. Waking'
  BY <1>1, <1>2, <1>3, <1>4, <1>5 DEF Waking
<1>10. Shape'
  BY <1>3, <1>4 DEF Statements
<1> QED BY <1>4, <1>6, <1>7, <1>8, <1>9, <1>10

LEMMA ClearStep ==
    ASSUME WInv, NEW e \in Ends, OtherAway(e), Clear(e) PROVE WInv'
<1> USE TwoEnds DEF WInv, Shape
<1> DEFINE o == Other(e)
<1>1. /\ cur = e /\ pc[e] = "clear" /\ o \notin blocked /\ o \in Ends /\ o # e
      /\ e \notin blocked /\ waiter[e] = Nobody /\ pc[o] \notin {"block", "clear", "wake"}
  BY DEF Clear, At, Waking, OnePlace, Registered, OtherAway
<1>2. /\ waiter' = [waiter EXCEPT ![o] = Nobody] /\ pc' = [pc EXCEPT ![e] = "own"]
      /\ UNCHANGED <<cur, ready, blocked, queue>>
  BY DEF Clear, Forgotten, Goto, cpuVars, lockVars
<1>3. /\ pc'[e] = "own" /\ \A d \in Tasks : d # e => pc'[d] = pc[d]
      /\ \A d \in Ends : waiter'[d] = Nobody
  BY <1>1, <1>2
<1>4. blocked = {}
  BY <1>1
<1>5. Shape' /\ OnePlace'
  BY <1>2 DEF OnePlace, Statements
<1>6. QueuedAtLock' /\ SleepersKnown'
  BY <1>2, <1>4 DEF QueuedAtLock, SleepersKnown
<1>7. NoPanic'
  BY <1>1, <1>2, <1>3 DEF NoPanic
<1>8. Registered' /\ Waking'
  BY <1>1, <1>3 DEF Registered, Waking
<1> QED BY <1>5, <1>6, <1>7, <1>8

LEMMA TickStep ==
    ASSUME WInv, Tick PROVE WInv'
<1> USE TwoEnds DEF WInv, Shape
<1> DEFINE q == Append(ready, cur)
           h == Head(q)
<1>1. /\ q \in Seq(Tasks) /\ q # <<>> /\ IsInjective(q)
      /\ Range(q) = Range(ready) \union {cur}
  BY AppendNew DEF OnePlace
<1>2. /\ cur' = h /\ ready' = Tail(q)
      /\ UNCHANGED <<blocked, queue, waiter, pc>>
  BY DEF Tick, lockVars
<1> HIDE DEF q
<1>3. /\ h \in Tasks /\ h \in Range(q) /\ ready' \in Seq(Tasks)
      /\ IsInjective(ready') /\ Range(ready') = Range(q) \ {h}
  BY <1>1, <1>2, PopFront
<1> HIDE DEF h
<1>4. OnePlace'
  BY <1>1, <1>2, <1>3 DEF OnePlace
<1>6. NoPanic'
  BY <1>2 DEF NoPanic
<1>7. QueuedAtLock' /\ SleepersKnown' /\ Registered' /\ Waking'
  BY <1>2 DEF QueuedAtLock, SleepersKnown, Registered, Waking
<1>8. Shape'
  BY <1>2, <1>3
<1> QED BY <1>4, <1>6, <1>7, <1>8

\* The protocol of the two fields holds as long as no end has run in one of the windows.
LEMMA WaitingInductive == Spec => [](Unbroken => WInv)
<1>1. ASSUME Init PROVE WInv
  <2> USE <1>1, TwoEnds DEF Init
  <2>1. ready = <<Producer, Consumer>> /\ Range(ready) = Ends /\ IsInjective(ready)
    BY IoQueueAssumption DEF Range, IsInjective, Ends
  <2>2. queue = <<>> /\ Range(queue) = {} /\ IsInjective(queue)
    BY DEF Range, IsInjective
  <2>3. ready \in Seq(Tasks) /\ queue \in Seq(Ends)
    BY <2>1, <2>2 DEF Ends, Tasks
  <2>4. Shape
    BY <2>3 DEF Shape, Statements
  <2>5. OnePlace
    BY <2>1 DEF OnePlace, Tasks, Ends
  <2>6. QueuedAtLock /\ Registered /\ Waking /\ SleepersKnown /\ NoPanic
    BY <2>2 DEF QueuedAtLock, Registered, Waking, SleepersKnown, NoPanic
  <2> QED BY <2>4, <2>5, <2>6 DEF WInv
<1>2. ASSUME Unbroken => WInv, [Next]_vars, Unbroken' PROVE WInv'
  <2>1. Unbroken
    BY <1>2 DEF Next, Runs, Overtake, Preempt, vars, Unbroken
  <2>2. CASE Preempt
    BY <1>2, <2>1, <2>2, TickStep DEF Preempt
  <2>3. ASSUME NEW e \in Ends, Runs(e) PROVE WInv'
    <3>1. OtherAway(e)
      BY <1>2, <2>1, <2>3, FindsAway
    <3> QED
      BY <1>2, <2>1, <2>3, <3>1, MoveSteps, LockStep, RegisterStep, BlockStep, UnlockStep,
         CheckStep, WakeStep, ClearStep DEF Runs, InCall
  <2>4. CASE UNCHANGED vars
    BY <1>2, <2>1, <2>4 DEF vars, cpuVars, lockVars, WInv, Shape, OnePlace, QueuedAtLock,
      Registered, Waking, SleepersKnown, NoPanic
  <2> QED BY <1>2, <2>2, <2>3, <2>4 DEF Next
<1> QED BY <1>1, <1>2, PTL DEF Spec

\* No assertion of ioqueue.c and task_unblock fails, at whatever statement the ticks come,
\* unless an end runs while the other is preempted between its registration and its sleep
\* or between its waking the first and the reset of the field.
THEOREM NoAssertionFails == Spec => []AssertionsHold
<1>1. (Unbroken => WInv) => AssertionsHold
  BY DEF AssertionsHold, WInv, NoPanic
<1> QED BY <1>1, WaitingInductive, PTL

\* Under the same condition, whoever is blocked can be found by who has to wake it: in the
\* queue of the lock, or in the field of the ring that the other end looks at.
THEOREM NoSleeperForgotten == Spec => [](Unbroken => SleepersKnown)
<1>1. (Unbroken => WInv) => (Unbroken => SleepersKnown)
  BY DEF WInv
<1> QED BY <1>1, WaitingInductive, PTL

===============================================================================
