--------------------------------- MODULE Fifo ---------------------------------
(***************************************************************************)
(* What ioq_putchar and ioq_getchar promise together: a bounded queue that *)
(* hands out every byte once, in the order in which they were put in.      *)
(***************************************************************************)
EXTENDS Naturals, Sequences

CONSTANTS Bytes, Capacity

VARIABLES contents, taken   \* what is in the queue, and the byte getchar is at

Init == contents = <<>> /\ taken \in Bytes

Put(b) ==
    /\ Len(contents) < Capacity
    /\ contents' = Append(contents, b)
    /\ UNCHANGED taken

\* getchar has read its byte: it is the oldest one, and still in the queue.
Read ==
    /\ contents # <<>>
    /\ taken' = Head(contents)
    /\ UNCHANGED contents

\* getchar makes room; it removes the byte it has read.
Remove ==
    /\ contents # <<>> /\ taken = Head(contents)
    /\ contents' = Tail(contents)
    /\ UNCHANGED taken

Next == Read \/ Remove \/ \E b \in Bytes : Put(b)

Spec == Init /\ [][Next]_<<contents, taken>>

==============================================================================
