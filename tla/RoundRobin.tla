------------------------------ MODULE RoundRobin ------------------------------
(***************************************************************************)
(* What the dispatcher promises: one circular queue whose head has the     *)
(* processor.  The head is sent to the back, or leaves the queue to sleep; *)
(* a sleeping task comes back at the end of the queue.  Nobody else moves. *)
(***************************************************************************)
EXTENDS Sequences, Functions

CONSTANTS Tasks, Sleepers

VARIABLES queue, asleep

rrVars == <<queue, asleep>>

Init ==
    /\ queue \in Seq(Tasks)
    /\ IsInjective(queue)
    /\ Range(queue) = Tasks
    /\ asleep = {}

\* The head has used up its turn.
Rotate ==
    /\ queue # <<>>
    /\ queue' = Append(Tail(queue), Head(queue))
    /\ UNCHANGED asleep

\* The head sleeps: the next one, if any, gets the processor.
Sleep ==
    /\ queue # <<>>
    /\ Head(queue) \in Sleepers
    /\ queue' = Tail(queue)
    /\ asleep' = asleep \union {Head(queue)}

Wake(t) ==
    /\ t \in asleep
    /\ queue # <<>>
    /\ queue' = Append(queue, t)
    /\ asleep' = asleep \ {t}

Next == Rotate \/ Sleep \/ \E t \in Tasks : Wake(t)

Spec == Init /\ [][Next]_rrVars

\* No head keeps the processor for ever, no sleeper is forgotten.
FairSpec ==
    /\ Spec
    /\ WF_rrVars(Rotate \/ Sleep)
    /\ \A t \in Tasks : WF_rrVars(Wake(t))
==============================================================================
