-------------------------------- MODULE TidPool --------------------------------
(***************************************************************************)
(* The tid pool of task.c and the bitmap below it: allocate_tid for a new  *)
(* task, release_tid at its end, bitmap_scan and bitmap_set.  A task here  *)
(* stands for whoever makes the call on its behalf.                        *)
(*                                                                         *)
(* The tid lock keeps the others out, which Sync is about; lock_acquire    *)
(* and lock_release are one step each.  Tasks are preempted between any    *)
(* two steps.                                                              *)
(***************************************************************************)
EXTENDS Integers, FiniteSets

CONSTANTS
    Tasks,
    Nobody,         \* NULL
    NBytes,         \* btmp_bytes_len
    ByteBits,       \* 8
    TidHalf         \* tid_t holds -TidHalf .. TidHalf - 1: 2^15

ASSUME TidPoolAssumption ==
    /\ IsFiniteSet(Tasks) /\ Nobody \notin Tasks
    /\ NBytes \in Nat \ {0} /\ ByteBits \in Nat \ {0}
    /\ TidHalf \in Nat \ {0}

VARIABLES
    bits,       \* tid_bitmap.bits: the bits of each byte that are 1
    holder,     \* tid_lock.holder
    pc,         \* where a task is
    bit,        \* bit_idx
    value,      \* the value bitmap_set gives the bit
    byte,       \* the register of |= and &=
    tid         \* task_struct.tid

vars == <<bits, holder, pc, bit, value, byte, tid>>

Size == NBytes * ByteBits
Bytes == 0..(NBytes - 1)
Full == 0..(ByteBits - 1)

Stages == {"none", "scan", "load", "store", "unlock", "live", "panic", "wild"}

Init ==
    /\ bits = [i \in Bytes |-> {}]
    /\ holder = Nobody
    /\ pc = [t \in Tasks |-> "none"]
    /\ bit = [t \in Tasks |-> 0]
    /\ value = [t \in Tasks |-> 0]
    /\ byte = [t \in Tasks |-> {}]
    /\ tid = [t \in Tasks |-> 0]

Used(n) == n % ByteBits \in bits[n \div ByteBits]       \* bitmap_scan_test

\* bitmap_scan for one bit: the first byte with a zero, and the first zero in it.  The
\* first loop looks at a byte before it compares the index with the length, so when all
\* bytes are full it reads the byte behind the bitmap too; `beyond` is what is there.
ByteAt(i, beyond) == IF i = NBytes THEN beyond ELSE bits[i]
Skips(i, beyond) == ByteAt(i, beyond) = Full /\ i < NBytes

FreeByte(beyond) ==
    CHOOSE i \in 0..NBytes : ~Skips(i, beyond) /\ \A j \in 0..(i - 1) : Skips(j, beyond)
FreeBit(i) == CHOOSE k \in Full : k \notin bits[i] /\ \A j \in 0..(k - 1) : j \in bits[i]
BitmapScan(beyond) == FreeByte(beyond) * ByteBits + FreeBit(FreeByte(beyond))

\* Mutant of Stored: a bit is cleared by clearing its byte.
MutStored(t) ==
    IF value[t] = 1 THEN byte[t] \union {bit[t] % ByteBits} ELSE {}

\* bitmap_set, its second half.
Stored(t) ==
    IF value[t] = 1 THEN byte[t] \union {bit[t] % ByteBits}
                    ELSE byte[t] \ {bit[t] % ByteBits}

\* What is left of a number in a tid_t.
Wrap(n) == ((n + TidHalf) % (2 * TidHalf)) - TidHalf

tid_start == 1

-------------------------------------------------------------------------------

\* Mutant of LockFree: the lock is left out.
MutLockFree == TRUE

LockFree == holder = Nobody

Goto(t, there) == pc' = [pc EXCEPT ![t] = there]

Allocate(t) ==
    /\ pc[t] = "none"
    /\ LockFree
    /\ holder' = t
    /\ Goto(t, "scan")
    /\ UNCHANGED <<bits, bit, value, byte, tid>>

\* When every bit is 1 the assertion of bitmap_scan fails, with the lock held.
Scan(t) ==
    /\ pc[t] = "scan"
    /\ \E beyond \in SUBSET Full :
        IF FreeByte(beyond) = NBytes
        THEN Goto(t, "panic") /\ UNCHANGED <<bit, value>>
        ELSE /\ bit' = [bit EXCEPT ![t] = BitmapScan(beyond)]
             /\ value' = [value EXCEPT ![t] = 1]
             /\ Goto(t, "load")
    /\ UNCHANGED <<bits, holder, byte, tid>>

Release(t) ==
    /\ pc[t] = "live"
    /\ LockFree
    /\ holder' = t
    /\ bit' = [bit EXCEPT ![t] = tid[t] - tid_start]
    /\ value' = [value EXCEPT ![t] = 0]
    /\ Goto(t, "load")
    /\ UNCHANGED <<bits, byte, tid>>

\* bitmap_set: the byte is read, changed and written back.  An index that is not in the
\* bitmap is an address far outside of it.
Load(t) ==
    /\ pc[t] = "load"
    /\ IF bit[t] \in 0..(Size - 1)
       THEN /\ byte' = [byte EXCEPT ![t] = bits[bit[t] \div ByteBits]]
            /\ Goto(t, "store")
       ELSE Goto(t, "wild") /\ UNCHANGED byte
    /\ UNCHANGED <<bits, holder, bit, value, tid>>

Store(t) ==
    /\ pc[t] = "store"
    /\ bits' = [bits EXCEPT ![bit[t] \div ByteBits] = Stored(t)]
    /\ Goto(t, "unlock")
    /\ UNCHANGED <<holder, bit, value, byte, tid>>

\* lock_release; allocate_tid then returns the tid.
Unlock(t) ==
    /\ pc[t] = "unlock"
    /\ holder' = Nobody
    /\ IF value[t] = 1
       THEN tid' = [tid EXCEPT ![t] = Wrap(bit[t] + tid_start)] /\ Goto(t, "live")
       ELSE Goto(t, "none") /\ UNCHANGED tid
    /\ UNCHANGED <<bits, bit, value, byte>>

Next ==
    \E t \in Tasks :
        Allocate(t) \/ Scan(t) \/ Release(t) \/ Load(t) \/ Store(t) \/ Unlock(t)

Spec == Init /\ [][Next]_vars

-------------------------------------------------------------------------------
(* Properties.                                                               *)

TypeOK ==
    /\ bits \in [Bytes -> SUBSET Full]
    /\ holder \in Tasks \union {Nobody}
    /\ pc \in [Tasks -> Stages]
    /\ bit \in [Tasks -> Int]
    /\ value \in [Tasks -> {0, 1}]
    /\ byte \in [Tasks -> SUBSET Full]
    /\ tid \in [Tasks -> Int]

\* A tid_t is wide enough when the bitmap, or the number of tasks that live at once, is
\* below half its range.  (The bitmap of task.c is not: it has 1000800 bits.)
TidsFit == Size < TidHalf \/ Cardinality(Tasks) < TidHalf

\* bitmap_scan takes the lowest free bit, so tids stay below the number of tasks that
\* live at once: none is out of tid_t's range, and no two tasks have the same.
TidsDistinct ==
    TidsFit =>
        /\ \A t \in Tasks : pc[t] = "live" => tid[t] \in 1..(TidHalf - 1)
        /\ \A s, t \in Tasks :
            pc[s] = "live" /\ pc[t] = "live" /\ tid[s] = tid[t] => s = t

\* With nobody inside the pool, the bits that are 1 are those of the tasks that live: none
\* is lost or given away by an unfinished |= or &=, none is left over.
BitsMatch ==
    TidsFit /\ holder = Nobody =>
        \A n \in 0..(Size - 1) :
            Used(n) <=> \E t \in Tasks : pc[t] = "live" /\ tid[t] = n + tid_start

\* bitmap_scan for cnt > 1 bits.  Its loop tests as many bits as there are from the first
\* free one on, but begins with the next, so it tests the first bit of `beyond` too.
Taken(n, beyond) == IF n = Size THEN 0 \in beyond ELSE Used(n)

\* Mutant of FirstCount: the first free bit is not counted.
MutFirstCount == 0

FirstCount == 1

Counts(start, beyond) ==
    LET count[n \in start..Size] ==
            IF n = start THEN FirstCount
            ELSE IF Taken(n, beyond) THEN 0 ELSE count[n - 1] + 1
    IN  count

BitmapScanRun(cnt, beyond) ==
    LET start == BitmapScan(beyond)
        ends == {n \in (start + 1)..Size : Counts(start, beyond)[n] = cnt}
    IN  IF ends = {} THEN -1
        ELSE (CHOOSE n \in ends : \A k \in ends : n <= k) - cnt + 1

\* bitmap.c: the start of cnt zeros in the bitmap, or -1.  When there are so many the
\* answer is the first run of them.  When there are not it is -1, but for one case that
\* breaks the promise: the last cnt - 1 bits are free and so is the bit behind the bitmap,
\* and the answer is a run whose last bit is not in the bitmap.
ScanFindsRun ==
    \A cnt \in 2..Size, beyond \in SUBSET Full :
        FreeByte(beyond) # NBytes =>
            LET runs == {s \in 0..(Size - cnt) : \A n \in s..(s + cnt - 1) : ~Used(n)}
                last == Size - cnt + 1
                over == 0 \notin beyond /\ \A n \in last..(Size - 1) : ~Used(n)
                found == BitmapScanRun(cnt, beyond)
            IN  IF runs # {} THEN found \in runs /\ \A s \in runs : found <= s
                ELSE found = IF over THEN last ELSE -1

==============================================================================
