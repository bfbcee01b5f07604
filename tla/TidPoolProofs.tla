----------------------------- MODULE TidPoolProofs -----------------------------
(***************************************************************************)
(* Tids are distinct and the bitmap is exact, for every number of tasks,   *)
(* every size of the bitmap and every width of tid_t that is enough.       *)
(***************************************************************************)
EXTENDS TidPool, FiniteSetTheorems, WellFoundedInduction, TLAPS

-------------------------------------------------------------------------------
(* Numbers.                                                                  *)

\* A set of numbers has a least element.
LEMMA Least ==
    ASSUME NEW T, T \subseteq Nat, T # {}
    PROVE  \E x \in T : \A y \in T : x <= y
<1>1. IsWellFoundedOn(OpToRel(<, Nat), Nat)
  BY NatLessThanWellFounded
<1>2. PICK x \in T : \A y \in T : ~(<<y, x>> \in OpToRel(<, Nat))
  BY <1>1, WFMin
<1>3. \A y \in T : ~(y < x)
  BY <1>2 DEF OpToRel
<1> QED BY <1>3

\* A bit index is a byte and a bit in it.
LEMMA ByteAndBit ==
    ASSUME NEW n \in 0..(Size - 1)
    PROVE  /\ n \div ByteBits \in Bytes
           /\ n % ByteBits \in Full
           /\ n = (n \div ByteBits) * ByteBits + (n % ByteBits)
<1> USE TidPoolAssumption
<1>1. n \in Nat /\ n % ByteBits \in Full /\ n \div ByteBits \in Nat
  BY DEF Size, Full
<1>2. n = (n \div ByteBits) * ByteBits + (n % ByteBits)
  BY <1>1
<1>3. ASSUME n \div ByteBits >= NBytes PROVE FALSE
  <2>1. (n \div ByteBits) * ByteBits >= NBytes * ByteBits
    BY <1>1, <1>3
  <2> QED BY <1>1, <1>2, <2>1 DEF Size, Full
<1> QED BY <1>1, <1>2, <1>3 DEF Bytes

\* A byte and a bit in it are a bit index.
LEMMA IndexOfBit ==
    ASSUME NEW i \in Bytes, NEW k \in Full
    PROVE  /\ i * ByteBits + k \in 0..(Size - 1)
           /\ (i * ByteBits + k) \div ByteBits = i
           /\ (i * ByteBits + k) % ByteBits = k
<1> USE TidPoolAssumption DEF Bytes, Full
<1>1. i * ByteBits \in Nat
  OBVIOUS
<1>2. i * ByteBits <= (NBytes - 1) * ByteBits
  OBVIOUS
<1>3. (NBytes - 1) * ByteBits = Size - ByteBits
  BY DEF Size
<1>4. (i * ByteBits + k) \div ByteBits = i /\ (i * ByteBits + k) % ByteBits = k
  OBVIOUS
<1> QED BY <1>1, <1>2, <1>3, <1>4 DEF Size

\* The order of bit indices is that of the bytes, then of the bits.
LEMMA OrderOfBits ==
    ASSUME NEW i \in Bytes, NEW k \in Full, NEW n \in 0..(Size - 1), n < i * ByteBits + k
    PROVE  n \div ByteBits < i \/ (n \div ByteBits = i /\ n % ByteBits < k)
<1> USE TidPoolAssumption
<1> DEFINE j == n \div ByteBits
<1>1. j \in Bytes /\ n % ByteBits \in Full /\ n = j * ByteBits + (n % ByteBits)
  BY ByteAndBit
<1> HIDE DEF j
<1>2. ASSUME j > i PROVE FALSE
  <2>1. j >= i + 1
    BY <1>1, <1>2 DEF Bytes
  <2>2. j * ByteBits >= (i + 1) * ByteBits
    BY <1>1, <2>1 DEF Bytes
  <2>3. (i + 1) * ByteBits = i * ByteBits + ByteBits /\ i * ByteBits \in Nat /\ j * ByteBits \in Nat
    BY <1>1 DEF Bytes
  <2> QED BY <1>1, <2>2, <2>3 DEF Bytes, Full
<1>3. CASE j = i
  BY <1>1, <1>3 DEF Bytes, Full
<1> QED BY <1>1, <1>2, <1>3 DEF Bytes, j

-------------------------------------------------------------------------------
(* The bitmap as a set of numbers.                                           *)

Ones == {n \in 0..(Size - 1) : Used(n)}

\* The first loop stops at a byte with a zero, or behind the bitmap when there is none.
LEMMA ScanFindsByte ==
    ASSUME TypeOK, NEW beyond \in SUBSET Full
    PROVE  /\ FreeByte(beyond) \in 0..NBytes
           /\ \A j \in 0..(FreeByte(beyond) - 1) : bits[j] = Full
           /\ FreeByte(beyond) # NBytes => bits[FreeByte(beyond)] # Full
<1> USE TidPoolAssumption
<1> DEFINE T == {i \in 0..NBytes : ~Skips(i, beyond)}
<1>1. T \subseteq Nat /\ NBytes \in T
  BY DEF Skips
<1>2. PICK i \in T : \A j \in T : i <= j
  <2> HIDE DEF T
  <2> QED BY <1>1, Least
<1>3. i \in 0..NBytes /\ ~Skips(i, beyond)
  OBVIOUS
<1>4. \A j \in 0..(i - 1) : j \in 0..NBytes /\ Skips(j, beyond)
  BY <1>2, <1>3
<1> HIDE DEF T
<1> DEFINE b == FreeByte(beyond)
<1>5. b \in 0..NBytes /\ ~Skips(b, beyond) /\ \A j \in 0..(b - 1) : Skips(j, beyond)
  BY <1>3, <1>4 DEF FreeByte
<1> HIDE DEF b
<1>6. \A j \in 0..NBytes : Skips(j, beyond) => bits[j] = Full
  BY DEF Skips, ByteAt
<1>7. b # NBytes => bits[b] # Full
  BY <1>5 DEF Skips, ByteAt
<1>8. \A j \in 0..(b - 1) : bits[j] = Full
  BY <1>5, <1>6
<1> QED BY <1>5, <1>7, <1>8 DEF b

\* bitmap_scan finds the lowest zero.
LEMMA ScanFindsLowest ==
    ASSUME TypeOK, NEW beyond \in SUBSET Full, FreeByte(beyond) # NBytes
    PROVE  /\ BitmapScan(beyond) \in 0..(Size - 1)
           /\ BitmapScan(beyond) \notin Ones
           /\ \A n \in 0..(BitmapScan(beyond) - 1) : n \in Ones
<1> USE TidPoolAssumption
<1> DEFINE i == FreeByte(beyond)
           k == FreeBit(i)
           found == BitmapScan(beyond)
<1>1. i \in Bytes /\ bits[i] # Full /\ \A j \in 0..(i - 1) : bits[j] = Full
  BY ScanFindsByte DEF Bytes
<1> HIDE DEF i
<1>2. k \in Full /\ k \notin bits[i] /\ \A j \in 0..(k - 1) : j \in bits[i]
  <2>1. bits[i] \subseteq Full
    BY <1>1 DEF TypeOK
  <2> DEFINE T == Full \ bits[i]
  <2>0. T \subseteq Nat /\ T # {}
    <3>1. \A X : X \subseteq Full /\ Full \ X = {} => X = Full
      OBVIOUS
    <3>2. T # {}
      BY <1>1, <2>1, <3>1
    <3> QED BY <3>2 DEF Full
  <2>2. PICK m \in T : \A j \in T : m <= j
    <3> HIDE DEF T
    <3> QED BY <2>0, Least
  <2>3. \A j \in 0..(m - 1) : j \in bits[i]
    BY <2>2 DEF Full
  <2> QED BY <2>2, <2>3 DEF FreeBit
<1>3. found = i * ByteBits + k
  BY DEF BitmapScan, i
<1> HIDE DEF k, found
<1>4. found \in 0..(Size - 1) /\ ~Used(found)
  BY <1>1, <1>2, <1>3, IndexOfBit DEF Used
<1>5. ASSUME NEW n \in 0..(found - 1) PROVE n \in Ones
  <2>1. n \in 0..(Size - 1) /\ n < i * ByteBits + k
    BY <1>3, <1>4 DEF Size
  <2>2. n \div ByteBits \in Bytes /\ n % ByteBits \in Full
    BY <2>1, ByteAndBit
  <2>3. n \div ByteBits < i \/ (n \div ByteBits = i /\ n % ByteBits < k)
    BY <1>1, <1>2, <2>1, OrderOfBits
  <2>4. CASE n \div ByteBits < i
    BY <1>1, <2>1, <2>2, <2>4 DEF Ones, Used, Bytes
  <2>5. CASE n \div ByteBits = i /\ n % ByteBits < k
    BY <1>2, <2>1, <2>2, <2>5 DEF Ones, Used, Full
  <2> QED BY <2>3, <2>4, <2>5
<1> QED BY <1>4, <1>5 DEF Ones, found

\* bitmap_set changes one bit.
LEMMA StoreChangesOneBit ==
    ASSUME TypeOK, NEW t \in Tasks, bit[t] \in 0..(Size - 1),
           byte[t] = bits[bit[t] \div ByteBits],
           bits' = [bits EXCEPT ![bit[t] \div ByteBits] = Stored(t)]
    PROVE  Ones' = IF value[t] = 1 THEN Ones \union {bit[t]} ELSE Ones \ {bit[t]}
<1> USE TidPoolAssumption
<1>1. bit[t] \div ByteBits \in Bytes
  BY ByteAndBit
<1>2. ASSUME NEW n \in 0..(Size - 1)
      PROVE  Used(n)' <=> IF n = bit[t] THEN value[t] = 1 ELSE Used(n)
  <2>1. n \div ByteBits \in Bytes
    BY ByteAndBit
  <2>2. CASE n \div ByteBits # bit[t] \div ByteBits
    BY <1>1, <2>1, <2>2 DEF Used, TypeOK
  <2>3. CASE n \div ByteBits = bit[t] \div ByteBits
    <3>1. Used(n)' <=> n % ByteBits \in Stored(t)
      BY <1>1, <2>3 DEF Used, TypeOK
    <3>2. n = bit[t] <=> n % ByteBits = bit[t] % ByteBits
      BY <2>3, ByteAndBit
    <3> QED BY <2>3, <3>1, <3>2 DEF Stored, Used
  <2> QED BY <2>2, <2>3
<1> QED BY <1>2 DEF Ones, Size

-------------------------------------------------------------------------------
(* The inductive invariant.                                                  *)

Inside == {"scan", "load", "store", "unlock", "panic", "wild"}

\* The bit of a task is 1 from the end of one bitmap_set to the end of the other.
HasBit(t) ==
    \/ pc[t] = "live"
    \/ pc[t] \in {"load", "store"} /\ value[t] = 0
    \/ pc[t] = "unlock" /\ value[t] = 1

BitOf(t) == IF pc[t] = "live" THEN tid[t] - tid_start ELSE bit[t]

\* The bits whose tid is in the range of tid_t.
Fitting == {n \in 0..(Size - 1) : n + tid_start < TidHalf}

\* The lock keeps the others out.
OneInside == \A t \in Tasks : pc[t] \in Inside => holder = t

\* The ones are the bits of the tasks that have one; no two have the same.
OnesMatch ==
    /\ \A t \in Tasks : HasBit(t) => BitOf(t) \in Ones \intersect Fitting
    /\ \A s, t \in Tasks : HasBit(s) /\ HasBit(t) /\ BitOf(s) = BitOf(t) => s = t
    /\ \A n \in Ones : \E t \in Tasks : HasBit(t) /\ BitOf(t) = n

\* What a task inside bitmap_set works on.
SetterOK ==
    \A t \in Tasks :
        /\ pc[t] \in {"load", "store"} /\ value[t] = 1 => bit[t] \in Fitting \ Ones
        /\ pc[t] = "store" => byte[t] = bits[bit[t] \div ByteBits]
        /\ pc[t] # "wild"

IInv == TypeOK /\ OneInside /\ OnesMatch /\ SetterOK

\* A tid is the bit's number and one, if that is in the range of tid_t.
LEMMA TidOfBit ==
    ASSUME NEW n \in Fitting
    PROVE  Wrap(n + tid_start) = n + tid_start /\ n + tid_start \in 1..(TidHalf - 1)
<1> USE TidPoolAssumption
<1>1. n + tid_start \in 1..(TidHalf - 1)
  BY DEF Fitting, tid_start, Size
<1>2. \A m \in 1..(TidHalf - 1) : Wrap(m) = m
  BY DEF Wrap
<1> QED BY <1>1, <1>2

\* The lowest free bit is below the number of tasks: each bit below it has an owner.
LEMMA LowestFits ==
    ASSUME IInv, TidsFit, NEW t \in Tasks, ~HasBit(t),
           NEW n \in 0..(Size - 1), \A m \in 0..(n - 1) : m \in Ones
    PROVE  n \in Fitting
<1> USE TidPoolAssumption DEF tid_start
<1>1. CASE Size < TidHalf
  BY <1>1 DEF Fitting, Size
<1>2. CASE Cardinality(Tasks) < TidHalf
  <2> DEFINE S == {s \in Tasks : HasBit(s) /\ BitOf(s) \in 0..(n - 1)}
             f == [s \in S |-> BitOf(s)]
  <2>1. f \in Surjection(S, 0..(n - 1))
    <3>1. f \in [S -> 0..(n - 1)]
      OBVIOUS
    <3>2. \A m \in 0..(n - 1) : \E s \in S : f[s] = m
      BY DEF IInv, OnesMatch
    <3> QED BY <3>1, <3>2 DEF Surjection
  <2>2. IsFiniteSet(Tasks \ {t}) /\ Cardinality(Tasks \ {t}) = Cardinality(Tasks) - 1
    BY FS_RemoveElement
  <2>3. S \subseteq Tasks \ {t}
    OBVIOUS
  <2> HIDE DEF S, f
  <2>4. IsFiniteSet(S) /\ Cardinality(S) <= Cardinality(Tasks) - 1
    BY <2>2, <2>3, FS_Subset
  <2>5. Cardinality(0..(n - 1)) <= Cardinality(S)
    BY <2>1, <2>4, FS_Surjection
  <2>6. n \in Nat
    BY DEF Size
  <2>7. Cardinality(0..(n - 1)) = n
    BY <2>6, FS_Interval
  <2>8. Cardinality(Tasks) \in Nat /\ Cardinality(S) \in Nat
    BY <2>4, FS_CardinalityType
  <2> QED BY <1>2, <2>4, <2>5, <2>6, <2>7, <2>8 DEF Fitting
<1> QED BY <1>1, <1>2 DEF TidsFit

\* The invariant holds initially.
LEMMA IInvInit == Init => IInv
<1> USE TidPoolAssumption
<1> SUFFICES ASSUME Init PROVE IInv
  OBVIOUS
<1>1. TypeOK
  BY DEF Init, TypeOK, Stages, Bytes, Full
<1>2. Ones = {}
  BY ByteAndBit DEF Init, Ones, Used
<1> QED BY <1>1, <1>2 DEF Init, IInv, OneInside, OnesMatch, SetterOK, HasBit, Inside

\* Every variable stays in its range.
LEMMA TypeStep ==
    ASSUME TypeOK, Next
    PROVE  TypeOK'
<1> USE TidPoolAssumption DEF TypeOK, Goto, Stages
<1>1. PICK t \in Tasks :
          Allocate(t) \/ Scan(t) \/ Release(t) \/ Load(t) \/ Store(t) \/ Unlock(t)
  BY DEF Next
<1>2. CASE Allocate(t)
  BY <1>2 DEF Allocate
<1>3. CASE Scan(t)
  <2>0. PICK beyond \in SUBSET Full :
          IF FreeByte(beyond) = NBytes
          THEN pc' = [pc EXCEPT ![t] = "panic"] /\ UNCHANGED <<bit, value>>
          ELSE /\ bit' = [bit EXCEPT ![t] = BitmapScan(beyond)]
               /\ value' = [value EXCEPT ![t] = 1]
               /\ pc' = [pc EXCEPT ![t] = "load"]
    BY <1>3 DEF Scan
  <2>1. CASE FreeByte(beyond) = NBytes
    BY <1>3, <2>0, <2>1 DEF Scan
  <2>2. CASE FreeByte(beyond) # NBytes
    <3>1. BitmapScan(beyond) \in Int
      BY <2>2, ScanFindsLowest DEF Size
    <3> QED BY <1>3, <2>0, <2>2, <3>1 DEF Scan
  <2> QED BY <2>1, <2>2
<1>4. CASE Release(t)
  <2>1. tid[t] - tid_start \in Int
    BY DEF tid_start
  <2> QED BY <1>4, <2>1 DEF Release
<1>5. CASE Load(t)
  <2>1. CASE bit[t] \in 0..(Size - 1)
    <3>1. bits[bit[t] \div ByteBits] \in SUBSET Full
      BY <2>1, ByteAndBit
    <3> QED BY <1>5, <2>1, <3>1 DEF Load
  <2>2. CASE bit[t] \notin 0..(Size - 1)
    BY <1>5, <2>2 DEF Load
  <2> QED BY <2>1, <2>2
<1>6. CASE Store(t)
  <2>1. Stored(t) \in SUBSET Full
    BY DEF Stored, Full
  <2> QED BY <1>6, <2>1 DEF Store
<1>7. CASE Unlock(t)
  <2>1. Wrap(bit[t] + tid_start) \in Int
    BY DEF Wrap, tid_start
  <2> QED BY <1>7, <2>1 DEF Unlock
<1> QED BY <1>1, <1>2, <1>3, <1>4, <1>5, <1>6, <1>7

\* Every step keeps the invariant.
LEMMA IInvStep ==
    ASSUME TidsFit, IInv, Next
    PROVE  IInv'
<1> USE TidPoolAssumption DEF Goto
<1>1. PICK t \in Tasks :
          Allocate(t) \/ Scan(t) \/ Release(t) \/ Load(t) \/ Store(t) \/ Unlock(t)
  BY DEF Next
<1>2. TypeOK /\ TypeOK'
  BY TypeStep DEF IInv
<1>3. OneInside'
  <2>1. CASE Allocate(t) \/ Release(t)
    BY <1>2, <2>1 DEF Allocate, Release, LockFree, IInv, OneInside, TypeOK, Inside
  <2>2. CASE Scan(t) \/ Load(t) \/ Store(t)
    BY <1>2, <2>2 DEF Scan, Load, Store, IInv, OneInside, TypeOK, Inside
  <2>3. CASE Unlock(t)
    BY <1>2, <2>3 DEF Unlock, IInv, OneInside, TypeOK, Inside
  <2> QED BY <1>1, <2>1, <2>2, <2>3
<1>4. \A s \in Tasks \ {t} : pc[t] \in Inside => pc[s] \notin Inside
  BY DEF IInv, OneInside
<1>5. CASE Allocate(t)
  <2>1. UNCHANGED Ones
    BY <1>5 DEF Allocate, Ones, Used
  <2>2. \A s \in Tasks : (HasBit(s)' <=> HasBit(s)) /\ (HasBit(s) => BitOf(s)' = BitOf(s))
    BY <1>2, <1>5 DEF Allocate, HasBit, BitOf, TypeOK
  <2>3. OnesMatch'
    BY <2>1, <2>2 DEF IInv, OnesMatch
  <2>4. SetterOK'
    BY <1>2, <1>5, <2>1 DEF Allocate, IInv, SetterOK, TypeOK
  <2> QED BY <1>2, <1>3, <2>3, <2>4 DEF IInv
<1>6. CASE Scan(t)
  <2>1. UNCHANGED Ones
    BY <1>6 DEF Scan, Ones, Used
  <2>0. PICK beyond \in SUBSET Full :
          IF FreeByte(beyond) = NBytes
          THEN pc' = [pc EXCEPT ![t] = "panic"] /\ UNCHANGED <<bit, value>>
          ELSE /\ bit' = [bit EXCEPT ![t] = BitmapScan(beyond)]
               /\ value' = [value EXCEPT ![t] = 1]
               /\ pc' = [pc EXCEPT ![t] = "load"]
    BY <1>6 DEF Scan
  <2>2. \A s \in Tasks : (HasBit(s)' <=> HasBit(s)) /\ (HasBit(s) => BitOf(s)' = BitOf(s))
    BY <1>2, <1>6, <2>0 DEF Scan, HasBit, BitOf, TypeOK
  <2>3. OnesMatch'
    BY <2>1, <2>2 DEF IInv, OnesMatch
  <2>4. CASE FreeByte(beyond) = NBytes
    BY <1>2, <1>3, <1>6, <2>0, <2>1, <2>3, <2>4 DEF Scan, IInv, SetterOK, TypeOK
  <2>5. CASE FreeByte(beyond) # NBytes
    <3>1. ~HasBit(t)
      BY <1>6 DEF Scan, HasBit
    <3>2. BitmapScan(beyond) \in Fitting \ Ones
      BY <1>2, <2>5, <3>1, ScanFindsLowest, LowestFits
    <3>3. SetterOK'
      BY <1>2, <1>6, <2>0, <2>1, <2>5, <3>2 DEF Scan, IInv, SetterOK, TypeOK
    <3> QED BY <1>2, <1>3, <2>3, <3>3 DEF IInv
  <2> QED BY <2>4, <2>5
<1>7. CASE Release(t)
  <2>1. UNCHANGED Ones
    BY <1>7 DEF Release, Ones, Used
  <2>2. \A s \in Tasks : (HasBit(s)' <=> HasBit(s)) /\ (HasBit(s) => BitOf(s)' = BitOf(s))
    BY <1>2, <1>7 DEF Release, HasBit, BitOf, TypeOK
  <2>3. OnesMatch'
    BY <2>1, <2>2 DEF IInv, OnesMatch
  <2>4. SetterOK'
    BY <1>2, <1>7, <2>1 DEF Release, IInv, SetterOK, TypeOK
  <2> QED BY <1>2, <1>3, <2>3, <2>4 DEF IInv
<1>8. CASE Load(t)
  <2>1. UNCHANGED Ones
    BY <1>8 DEF Load, Ones, Used
  <2>2. bit[t] \in 0..(Size - 1)
    <3>1. CASE value[t] = 0
      BY <1>8, <3>1 DEF Load, IInv, OnesMatch, HasBit, BitOf, Fitting
    <3>2. CASE value[t] = 1
      BY <1>8, <3>2 DEF Load, IInv, SetterOK, Fitting
    <3> QED BY <1>2, <3>1, <3>2 DEF TypeOK
  <2>3. \A s \in Tasks : (HasBit(s)' <=> HasBit(s)) /\ (HasBit(s) => BitOf(s)' = BitOf(s))
    BY <1>2, <1>8, <2>2 DEF Load, HasBit, BitOf, TypeOK
  <2>4. OnesMatch'
    BY <2>1, <2>3 DEF IInv, OnesMatch
  <2>5. SetterOK'
    BY <1>2, <1>8, <2>1, <2>2 DEF Load, IInv, SetterOK, TypeOK
  <2> QED BY <1>2, <1>3, <2>4, <2>5 DEF IInv
<1>9. CASE Store(t)
  <2>1. /\ bit[t] \in 0..(Size - 1)
        /\ value[t] = 1 => bit[t] \in Fitting \ Ones
        /\ value[t] = 0 => HasBit(t) /\ BitOf(t) = bit[t]
    <3>1. CASE value[t] = 0
      BY <1>9, <3>1 DEF Store, IInv, OnesMatch, HasBit, BitOf, Fitting
    <3>2. CASE value[t] = 1
      BY <1>9, <3>2 DEF Store, IInv, SetterOK, Fitting
    <3> QED BY <1>2, <3>1, <3>2 DEF TypeOK
  <2>2. Ones' = IF value[t] = 1 THEN Ones \union {bit[t]} ELSE Ones \ {bit[t]}
    <3>1. byte[t] = bits[bit[t] \div ByteBits]
      BY <1>9 DEF Store, IInv, SetterOK
    <3> QED BY <1>2, <1>9, <2>1, <3>1, StoreChangesOneBit DEF Store
  <2>3. \A s \in Tasks \ {t} : (HasBit(s)' <=> HasBit(s)) /\ (HasBit(s) => BitOf(s)' = BitOf(s))
    BY <1>2, <1>9 DEF Store, HasBit, BitOf, TypeOK
  <2>4. (HasBit(t)' <=> value[t] = 1) /\ BitOf(t)' = bit[t]
    BY <1>2, <1>9 DEF Store, HasBit, BitOf, TypeOK
  <2>5. CASE value[t] = 1
    <3>1. ~HasBit(t)
      BY <1>9, <2>5 DEF Store, HasBit
    <3>2. OnesMatch'
      BY <2>1, <2>2, <2>3, <2>4, <2>5, <3>1 DEF IInv, OnesMatch
    <3> QED
      <4>1. SetterOK'
        BY <1>2, <1>4, <1>9 DEF Store, IInv, SetterOK, TypeOK, Inside
      <4> QED BY <1>2, <1>3, <3>2, <4>1 DEF IInv
  <2>6. CASE value[t] = 0
    <3>1. OnesMatch'
      <4>1. \A s \in Tasks \ {t} : HasBit(s) => BitOf(s) # bit[t]
        BY <2>1, <2>6 DEF IInv, OnesMatch
      <4>2. ~HasBit(t)'
        BY <2>4, <2>6
      <4>3. Ones' = Ones \ {bit[t]}
        BY <2>2, <2>6
      <4> QED BY <2>1, <2>3, <2>6, <4>1, <4>2, <4>3 DEF IInv, OnesMatch
    <3> QED
      <4>1. SetterOK'
        BY <1>2, <1>4, <1>9 DEF Store, IInv, SetterOK, TypeOK, Inside
      <4> QED BY <1>2, <1>3, <3>1, <4>1 DEF IInv
  <2> QED BY <1>2, <2>5, <2>6 DEF TypeOK
<1>10. CASE Unlock(t)
  <2>1. UNCHANGED Ones
    BY <1>10 DEF Unlock, Ones, Used
  <2>2. \A s \in Tasks \ {t} : (HasBit(s)' <=> HasBit(s)) /\ (HasBit(s) => BitOf(s)' = BitOf(s))
    BY <1>2, <1>10 DEF Unlock, HasBit, BitOf, TypeOK
  <2>3. (HasBit(t)' <=> HasBit(t)) /\ (HasBit(t) => BitOf(t)' = BitOf(t))
    <3>1. CASE value[t] = 1
      <4>1. bit[t] \in Fitting
        BY <1>10, <3>1 DEF Unlock, IInv, OnesMatch, HasBit, BitOf
      <4>2. tid'[t] = bit[t] + tid_start
        BY <1>2, <1>10, <3>1, <4>1, TidOfBit DEF Unlock, TypeOK
      <4>3. pc[t] = "unlock" /\ pc'[t] = "live"
        BY <1>2, <1>10, <3>1 DEF Unlock, TypeOK
      <4>4. BitOf(t) = bit[t]
        BY <4>3 DEF BitOf
      <4>5. BitOf(t)' = bit[t]
        BY <1>2, <4>2, <4>3 DEF BitOf, tid_start, TypeOK
      <4>6. HasBit(t) /\ HasBit(t)'
        BY <3>1, <4>3 DEF HasBit
      <4> QED BY <4>4, <4>5, <4>6
    <3>2. CASE value[t] = 0
      <4>1. pc[t] = "unlock" /\ pc'[t] = "none"
        BY <1>2, <1>10, <3>2 DEF Unlock, TypeOK
      <4> QED BY <3>2, <4>1 DEF HasBit
    <3> QED BY <1>2, <3>1, <3>2 DEF TypeOK
  <2>4. OnesMatch'
    BY <2>1, <2>2, <2>3 DEF IInv, OnesMatch
  <2>5. SetterOK'
    BY <1>2, <1>10, <2>1 DEF Unlock, IInv, SetterOK, TypeOK
  <2> QED BY <1>2, <1>3, <2>4, <2>5 DEF IInv
<1> QED BY <1>1, <1>5, <1>6, <1>7, <1>8, <1>9, <1>10

-------------------------------------------------------------------------------
(* A scan for more than one bit.                                             *)

\* The distances back from n to what ends a count there: a bit that is taken, or the
\* position before start.
Back(taken, start, n) == {v \in 0..(n - start + 1) : v = n - start + 1 \/ n - v \in taken}

\* The count at n is the distance to the nearest of them.
IsCount(taken, start, n, v) ==
    /\ v \in Back(taken, start, n)
    /\ \A w \in Back(taken, start, n) : v <= w

LEMMA OneCount ==
    ASSUME NEW start \in Nat, NEW n \in Nat, start <= n, NEW taken \in SUBSET Nat
    PROVE  /\ \E v \in Nat : IsCount(taken, start, n, v)
           /\ \A v, w : IsCount(taken, start, n, v) /\ IsCount(taken, start, n, w) => v = w
<1> DEFINE B == Back(taken, start, n)
<1>1. B \subseteq Nat /\ n - start + 1 \in B
  BY DEF Back
<1>2. \E v \in B : \A w \in B : v <= w
  <2> HIDE DEF B
  <2> QED BY <1>1, Least
<1>3. ASSUME NEW v \in B, NEW w \in B, v <= w, w <= v PROVE v = w
  BY <1>1, <1>3
<1> QED BY <1>1, <1>2, <1>3 DEF IsCount

\* How the loop of bitmap_scan goes from one count to the next.
LEMMA CountStep ==
    ASSUME NEW start \in Nat, NEW n \in Nat, start < n,
           NEW taken \in SUBSET Nat, NEW v \in Nat, IsCount(taken, start, n - 1, v)
    PROVE  IsCount(taken, start, n, IF n \in taken THEN 0 ELSE v + 1)
<1>1. v \in Back(taken, start, n - 1) /\ \A w \in Back(taken, start, n - 1) : v <= w
  BY DEF IsCount
<1>2. CASE n \in taken
  BY <1>2 DEF IsCount, Back
<1>3. CASE n \notin taken
  <2>1. v + 1 \in Back(taken, start, n)
    <3>1. v \in 0..(n - start) /\ (v = n - start \/ n - 1 - v \in taken)
      BY <1>1 DEF Back
    <3>2. n - (v + 1) = n - 1 - v
      OBVIOUS
    <3> QED BY <3>1, <3>2 DEF Back
  <2>2. ASSUME NEW w \in Back(taken, start, n) PROVE v + 1 <= w
    <3>1. w \in 0..(n - start + 1) /\ (w = n - start + 1 \/ n - w \in taken) /\ w # 0
      BY <1>3 DEF Back
    <3>2. n - w = n - 1 - (w - 1)
      BY <3>1
    <3>3. w - 1 \in Back(taken, start, n - 1)
      BY <3>1, <3>2 DEF Back
    <3> QED BY <1>1, <3>1, <3>3
  <2> QED BY <1>3, <2>1, <2>2 DEF IsCount
<1> QED BY <1>2, <1>3

\* What the counts of bitmap_scan are.
LEMMA CountsAre ==
    ASSUME NEW start \in 0..Size, NEW beyond \in SUBSET Full, Size \in Nat,
           NEW n \in start..Size
    PROVE  IsCount({m \in (start + 1)..Size : Taken(m, beyond)}, start, n, Counts(start, beyond)[n])
<1> DEFINE taken == {m \in (start + 1)..Size : Taken(m, beyond)}
           Count(m) == CHOOSE v \in Nat : IsCount(taken, start, m, v)
           Eq(f) == f = [m \in start..Size |->
                            IF m = start THEN FirstCount
                            ELSE IF Taken(m, beyond) THEN 0 ELSE f[m - 1] + 1]
<1>0. taken \in SUBSET Nat /\ start \in Nat
  OBVIOUS
<1>1. \A m \in start..Size : m \in taken <=> (m # start /\ Taken(m, beyond))
  OBVIOUS
<1>2. IsCount(taken, start, start, 1)
  <2>1. start \notin taken /\ start - 1 \notin taken
    OBVIOUS
  <2> HIDE DEF taken
  <2> QED BY <1>0, <2>1 DEF IsCount, Back
<1> HIDE DEF taken
<1>3. \A m \in start..Size : Count(m) \in Nat /\ IsCount(taken, start, m, Count(m))
  BY <1>0, OneCount
<1>4. ASSUME NEW m \in start..Size, m # start
      PROVE  Count(m) = IF Taken(m, beyond) THEN 0 ELSE Count(m - 1) + 1
  <2>1. m - 1 \in start..Size /\ m \in Nat /\ start < m
    BY <1>4
  <2>2. Count(m - 1) \in Nat /\ IsCount(taken, start, m - 1, Count(m - 1)) /\ IsCount(taken, start, m, Count(m))
    BY <1>3, <2>1
  <2> HIDE DEF Count
  <2>3. IsCount(taken, start, m, IF m \in taken THEN 0 ELSE Count(m - 1) + 1)
    BY <1>0, <2>1, <2>2, CountStep
  <2>4. Count(m) = IF m \in taken THEN 0 ELSE Count(m - 1) + 1
    BY <1>0, <2>1, <2>2, <2>3, OneCount
  <2> QED BY <1>1, <1>4, <2>4
<1>5. Count(start) = 1
  BY <1>0, <1>2, <1>3, OneCount
<1> HIDE DEF Count
<1>6. Eq([m \in start..Size |-> Count(m)])
  BY <1>4, <1>5 DEF FirstCount
<1>7. Eq(Counts(start, beyond))
  BY <1>6 DEF Counts
<1> DEFINE c == Counts(start, beyond)
           Wrong == {m \in start..Size : c[m] # Count(m)}
<1>8. Wrong = {}
  <2> SUFFICES ASSUME Wrong # {} PROVE FALSE
    OBVIOUS
  <2>0. Wrong \subseteq Nat
    OBVIOUS
  <2>1. PICK m \in Wrong : \A k \in Wrong : m <= k
    <3> HIDE DEF Wrong
    <3> QED BY <2>0, Least
  <2>2. m \in start..Size /\ c[m] # Count(m)
    OBVIOUS
  <2> HIDE DEF Wrong, c
  <2>3. c[m] = IF m = start THEN FirstCount ELSE IF Taken(m, beyond) THEN 0 ELSE c[m - 1] + 1
    BY <1>7, <2>2 DEF c
  <2>4. m # start
    BY <1>5, <2>2, <2>3 DEF FirstCount
  <2>5. c[m - 1] = Count(m - 1)
    BY <2>1, <2>2, <2>4 DEF Wrong
  <2> QED BY <1>4, <2>2, <2>3, <2>4, <2>5
<1> QED BY <1>3, <1>8 DEF taken

\* bitmap_scan for several bits finds the first run of them, in any bitmap.
LEMMA FirstRunFound ==
    ASSUME TypeOK, NEW beyond \in SUBSET Full, FreeByte(beyond) # NBytes, NEW cnt \in 2..Size
    PROVE  LET runs == {s \in 0..(Size + 1 - cnt) :
                           \A n \in s..(s + cnt - 1) : ~Taken(n, beyond)}
               found == BitmapScanRun(cnt, beyond)
           IN  IF runs = {} THEN found = -1
               ELSE found \in runs /\ \A s \in runs : found <= s
<1> DEFINE start == BitmapScan(beyond)
           taken == {m \in (start + 1)..Size : Taken(m, beyond)}
           c == Counts(start, beyond)
           runs == {s \in 0..(Size + 1 - cnt) : \A n \in s..(s + cnt - 1) : ~Taken(n, beyond)}
           ends == {n \in (start + 1)..Size : c[n] = cnt}
           found == BitmapScanRun(cnt, beyond)
<1>0. Size \in Nat /\ cnt \in Nat /\ cnt >= 2
  BY TidPoolAssumption DEF Size
<1>1. /\ start \in 0..(Size - 1) /\ ~Taken(start, beyond)
      /\ \A n \in 0..(start - 1) : Taken(n, beyond)
  <2> HIDE DEF start
  <2>1. start \in 0..(Size - 1) /\ start \notin Ones /\ \A n \in 0..(start - 1) : n \in Ones
    BY ScanFindsLowest DEF start
  <2> QED BY <1>0, <2>1 DEF Taken, Ones
<1>2. ASSUME NEW n \in start..Size PROVE IsCount(taken, start, n, c[n])
  <2>1. start \in 0..Size
    BY <1>0, <1>1
  <2> HIDE DEF start
  <2> QED BY <1>0, <2>1, CountsAre
<1>3. found = IF ends = {} THEN -1 ELSE (CHOOSE n \in ends : \A k \in ends : n <= k) - cnt + 1
  BY DEF BitmapScanRun
<1> HIDE DEF start, c, found
<1>4. \A n \in start..Size : n \notin taken => n = start \/ ~Taken(n, beyond)
  BY <1>0, <1>1
<1>5. runs \subseteq Nat /\ ends \subseteq Nat
  BY <1>0, <1>1
\* No run begins before the first free bit.
<1>6. ASSUME NEW s \in runs PROVE s >= start
  <2>1. s \in 0..(Size + 1 - cnt) /\ ~Taken(s, beyond)
    BY <1>0
  <2> HIDE DEF runs
  <2> QED BY <1>0, <1>1, <2>1
\* Where the count is cnt a run ends.
<1>7. ASSUME NEW n \in ends PROVE n - cnt + 1 \in runs
  <2>1. n \in (start + 1)..Size /\ cnt \in Back(taken, start, n)
        /\ \A w \in Back(taken, start, n) : cnt <= w
    BY <1>1, <1>2 DEF IsCount
  <2>2. cnt <= n - start + 1
    BY <1>0, <1>1, <2>1 DEF Back
  <2> HIDE DEF taken, ends
  <2>3. ASSUME NEW m \in (n - cnt + 1)..n PROVE ~Taken(m, beyond)
    <3>1. n - m \in 0..(n - start + 1) /\ n - m < cnt /\ n - (n - m) = m /\ m \in start..Size
      BY <1>0, <1>1, <2>1, <2>2
    <3>2. m \notin taken
      BY <1>0, <2>1, <3>1 DEF Back
    <3> QED BY <1>1, <1>4, <3>1, <3>2
  <2>4. n - cnt + 1 \in 0..(Size + 1 - cnt) /\ (n - cnt + 1) + cnt - 1 = n
    BY <1>0, <1>1, <2>1, <2>2
  <2> QED BY <2>3, <2>4
\* At the end of the first run the count is cnt.
<1>8. ASSUME NEW s \in runs, \A r \in runs : s <= r PROVE s + cnt - 1 \in ends
  <2> DEFINE n == s + cnt - 1
  <2>1. s \in 0..(Size + 1 - cnt) /\ \A m \in s..n : ~Taken(m, beyond)
    OBVIOUS
  <2>2. s >= start
    BY <1>6
  <2>3. n \in (start + 1)..Size /\ n \in Nat
    BY <1>0, <1>1, <2>1, <2>2
  <2>4. ASSUME NEW w \in Back(taken, start, n) PROVE cnt <= w
    <3>1. w \in 0..(n - start + 1) /\ (w = n - start + 1 \/ n - w \in taken)
      BY DEF Back
    <3>2. n - w \in taken => Taken(n - w, beyond)
      OBVIOUS
    <3> HIDE DEF taken, runs
    <3>3. w < cnt => n - w \in s..n /\ w # n - start + 1
      BY <1>0, <1>1, <2>1, <2>2, <3>1
    <3> QED BY <1>0, <2>1, <3>1, <3>2, <3>3
  <2>5. cnt \in Back(taken, start, n)
    <3>1. CASE s = start
      BY <1>0, <1>1, <2>3, <3>1 DEF Back
    <3>2. CASE s # start
      <4>1. s - 1 \in start..Size /\ s - 1 \in 0..(Size + 1 - cnt) /\ s - 1 \notin runs
        <5> HIDE DEF runs
        <5> QED BY <1>0, <1>1, <1>5, <1>8, <2>1, <2>2, <3>2
      <4>2. \E m \in (s - 1)..((s - 1) + cnt - 1) : Taken(m, beyond)
        BY <4>1
      <4>3. Taken(s - 1, beyond)
        <5> HIDE DEF runs
        <5> QED BY <1>0, <2>1, <4>2
      <4>4. s - 1 \in taken
        BY <1>1, <4>1, <4>3
      <4>5. n - cnt = s - 1 /\ cnt \in 0..(n - start + 1)
        BY <1>0, <1>1, <2>1, <2>2
      <4> QED BY <4>4, <4>5 DEF Back
    <3> QED BY <3>1, <3>2
  <2>6. IsCount(taken, start, n, cnt) /\ IsCount(taken, start, n, c[n])
    BY <1>1, <1>2, <2>3, <2>4, <2>5 DEF IsCount
  <2>7. c[n] = cnt
    <3>1. taken \in SUBSET Nat /\ start \in Nat /\ start <= n
      BY <1>0, <1>1, <2>3
    <3> HIDE DEF taken, n
    <3> QED BY <2>3, <2>6, <3>1, OneCount
  <2> QED BY <2>3, <2>7
<1> HIDE DEF runs, ends
<1>9. ASSUME runs = {} PROVE found = -1
  BY <1>3, <1>7, <1>9
<1>10. ASSUME runs # {} PROVE found \in runs /\ \A s \in runs : found <= s
  <2>1. PICK s \in runs : \A r \in runs : s <= r
    BY <1>5, <1>10, Least
  <2>2. s + cnt - 1 \in ends
    BY <1>8, <2>1
  <2> DEFINE e == CHOOSE n \in ends : \A k \in ends : n <= k
  <2>3. e \in ends /\ \A k \in ends : e <= k
    BY <1>5, <2>2, Least
  <2> HIDE DEF e
  <2>4. found = e - cnt + 1
    BY <1>3, <2>2 DEF e
  <2>5. found \in runs /\ e <= s + cnt - 1
    BY <1>7, <2>2, <2>3, <2>4
  <2>6. found = s
    BY <1>0, <1>5, <2>1, <2>3, <2>4, <2>5
  <2> QED BY <2>1, <2>6
<1> QED BY <1>9, <1>10 DEF runs, found

-------------------------------------------------------------------------------
(* The theorems.                                                             *)

\* Every variable is in its range in every state.
THEOREM TypeCorrect == Spec => []TypeOK
<1>1. Init => TypeOK
  BY IInvInit DEF IInv
<1>2. TypeOK /\ [Next]_vars => TypeOK'
  BY TypeStep DEF TypeOK, vars
<1> QED BY <1>1, <1>2, PTL DEF Spec

\* The invariant holds in every state, if tid_t is wide enough.
THEOREM PoolInvariant == Spec => [](TidsFit => IInv)
<1>1. Init => (TidsFit => IInv)
  BY IInvInit
<1>2. (TidsFit => IInv) /\ [Next]_vars => (TidsFit => IInv)'
  <2>1. UNCHANGED vars => (IInv => IInv')
    BY DEF IInv, TypeOK, OneInside, OnesMatch, SetterOK, HasBit, BitOf, Ones, Used, vars
  <2> QED BY <2>1, IInvStep DEF TidsFit, Size
<1> QED BY <1>1, <1>2, PTL DEF Spec

\* No two live tasks have the same tid, and none has a tid that is not its bit's.
THEOREM TidsAreDistinct == Spec => []TidsDistinct
<1>1. (TidsFit => IInv) => TidsDistinct
  <2>1. SUFFICES ASSUME IInv PROVE
          /\ \A t \in Tasks : pc[t] = "live" => tid[t] \in 1..(TidHalf - 1)
          /\ \A s, t \in Tasks :
                pc[s] = "live" /\ pc[t] = "live" /\ tid[s] = tid[t] => s = t
    BY DEF TidsDistinct
  <2>2. ASSUME NEW t \in Tasks, pc[t] = "live" PROVE tid[t] \in 1..(TidHalf - 1)
    <3>1. tid[t] - tid_start \in Fitting
      BY <2>1, <2>2 DEF IInv, OnesMatch, HasBit, BitOf
    <3> QED BY <2>1, <3>1, TidPoolAssumption DEF IInv, TypeOK, Fitting, tid_start, Size
  <2>3. ASSUME NEW s \in Tasks, NEW t \in Tasks,
               pc[s] = "live", pc[t] = "live", tid[s] = tid[t]
        PROVE  s = t
    BY <2>1, <2>3 DEF IInv, OnesMatch, HasBit, BitOf
  <2> QED BY <2>2, <2>3
<1> QED BY <1>1, PoolInvariant, PTL

\* Between the calls the bitmap says which tids are in use.
THEOREM BitmapIsExact == Spec => []BitsMatch
<1>1. (TidsFit => IInv) => BitsMatch
  <2>1. SUFFICES ASSUME IInv, holder = Nobody, NEW n \in 0..(Size - 1)
                 PROVE  Used(n) <=> \E t \in Tasks : pc[t] = "live" /\ tid[t] = n + tid_start
    BY DEF BitsMatch
  <2>2. \A t \in Tasks : HasBit(t) <=> pc[t] = "live"
    BY <2>1, TidPoolAssumption DEF IInv, OneInside, Inside, HasBit
  <2>3. \A t \in Tasks : pc[t] = "live" => (BitOf(t) = n <=> tid[t] = n + tid_start)
    BY <2>1, TidPoolAssumption DEF IInv, TypeOK, BitOf, tid_start, Size
  <2>4. Used(n) <=> n \in Ones
    BY DEF Ones
  <2> QED BY <2>1, <2>2, <2>3, <2>4 DEF IInv, OnesMatch
<1> QED BY <1>1, PoolInvariant, PTL

\* bitmap_scan for several bits, in every state that the bitmap of the tids gets into,
\* finds the first run of so many zeros in the bitmap.  When there is none it answers -1,
\* but for the run that ends at the bit behind the bitmap.
THEOREM FirstRun == Spec => []ScanFindsRun
<1>1. ASSUME TypeOK, NEW cnt \in 2..Size, NEW beyond \in SUBSET Full, FreeByte(beyond) # NBytes
      PROVE  LET runs == {s \in 0..(Size - cnt) : \A n \in s..(s + cnt - 1) : ~Used(n)}
                 last == Size - cnt + 1
                 over == 0 \notin beyond /\ \A n \in last..(Size - 1) : ~Used(n)
                 found == BitmapScanRun(cnt, beyond)
             IN  IF runs # {} THEN found \in runs /\ \A s \in runs : found <= s
                 ELSE found = IF over THEN last ELSE -1
  <2> DEFINE runs == {s \in 0..(Size - cnt) : \A n \in s..(s + cnt - 1) : ~Used(n)}
             last == Size - cnt + 1
             over == 0 \notin beyond /\ \A n \in last..(Size - 1) : ~Used(n)
             wide == {s \in 0..(Size + 1 - cnt) : \A n \in s..(s + cnt - 1) : ~Taken(n, beyond)}
             found == BitmapScanRun(cnt, beyond)
  <2>1. Size \in Nat /\ cnt \in Nat /\ cnt >= 2
    BY TidPoolAssumption DEF Size
  <2>2. IF wide = {} THEN found = -1 ELSE found \in wide /\ \A s \in wide : found <= s
    BY <1>1, FirstRunFound
  <2> HIDE DEF found
  \* A run that begins before `last` ends in the bitmap.
  <2>3. ASSUME NEW s \in 0..(Size - cnt) PROVE s \in runs <=> s \in wide
    <3>1. \A n \in s..(s + cnt - 1) : n # Size
      BY <2>1
    <3>2. s \in 0..(Size + 1 - cnt)
      BY <2>1
    <3> QED BY <3>1, <3>2 DEF Taken
  <2>4. last \in wide <=> over
    <3>1. last \in 0..(Size + 1 - cnt) /\ last..(last + cnt - 1) = last..Size
      BY <2>1
    <3>2. \A n \in last..Size : n = Size \/ n \in last..(Size - 1)
      BY <2>1
    <3>3. Size \in last..Size /\ \A n \in last..(Size - 1) : n # Size /\ n \in last..Size
      BY <2>1
    <3> HIDE DEF last
    <3> QED BY <3>1, <3>2, <3>3 DEF Taken
  <2>5. \A s \in wide : s = last \/ s \in 0..(Size - cnt)
    BY <2>1
  <2>6. \A s \in runs : s \in 0..(Size - cnt) /\ s < last
    BY <2>1
  <2>7. \A s \in wide : s \in Nat
    BY <2>1
  <2>8. last \in Nat
    BY <2>1
  <2> HIDE DEF runs, last, over, wide
  <2>9. CASE runs # {}
    <3>1. PICK s \in runs : TRUE
      BY <2>9
    <3>2. \A r \in runs : r \in wide
      BY <2>3, <2>6
    <3>3. found \in wide /\ \A r \in wide : found <= r
      BY <2>2, <3>1, <3>2
    <3>4. found # last
      BY <2>6, <2>7, <2>8, <3>1, <3>2, <3>3
    <3>5. found \in runs
      BY <2>3, <2>5, <3>3, <3>4
    <3> QED BY <2>9, <3>2, <3>3, <3>5 DEF runs, found
  <2>10. CASE runs = {}
    <3>1. \A s \in wide : s = last
      BY <2>3, <2>5, <2>10
    <3>2. found = IF over THEN last ELSE -1
      BY <2>2, <2>4, <3>1
    <3> QED BY <2>10, <3>2 DEF runs, last, over, found
  <2> QED BY <2>9, <2>10
<1>2. TypeOK => ScanFindsRun
  BY <1>1 DEF ScanFindsRun
<1> QED BY <1>2, TypeCorrect, PTL

===============================================================================
