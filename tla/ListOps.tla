-------------------------------- MODULE ListOps --------------------------------
(***************************************************************************)
(* A doubly linked list of list.c, store by store: list_insert_before      *)
(* (behind list_push and list_append), list_remove (behind list_pop), and  *)
(* list_traversal, the walk of tid2task.                                   *)
(*                                                                         *)
(* No tick interrupts an operation that changes links: nothing useful is   *)
(* left of the list when one does.  A walk may be interrupted between any  *)
(* two elements, and the list is another one when it goes on.              *)
(***************************************************************************)
EXTENDS Naturals, FiniteSets

CONSTANTS Elems, Head_, Tail_, Null

ASSUME ListAssumption ==
    /\ IsFiniteSet(Elems)
    /\ {Head_, Tail_, Null} \intersect Elems = {}
    /\ Head_ # Tail_ /\ Null \notin {Head_, Tail_}

VARIABLES
    next, prev,     \* list_elem.next and .prev
    pc,             \* where the operation on an element is
    before,         \* the argument of list_insert_before
    busy,           \* the element whose links are being changed
    at,             \* the walk's elem; Null: there is no walk
    goal,           \* the element the walk is looking for
    stays,          \* history: goal has been in the list since the walk began
    ahead           \* history: the order of the nodes, <<m, n>> if m is ahead of n; those
                    \* that have left keep their place

linkVars == <<next, prev, pc, before, busy>>
walkVars == <<at, goal>>
vars == <<linkVars, walkVars, stays, ahead>>

Nodes == Elems \union {Head_, Tail_}
Stages == {"out", "link1", "link2", "link3", "link4", "in", "unlink1", "unlink2", "gone"}

\* list_init
Init ==
    /\ next = [n \in Nodes |-> IF n = Head_ THEN Tail_ ELSE Null]
    /\ prev = [n \in Nodes |-> IF n = Tail_ THEN Head_ ELSE Null]
    /\ pc = [x \in Elems |-> "out"]
    /\ before = Tail_
    /\ busy = Null
    /\ at = Null
    /\ goal \in Elems
    /\ stays = FALSE
    /\ ahead = {<<Head_, Tail_>>}

Goto(x, there) == pc' = [pc EXCEPT ![x] = there]

-------------------------------------------------------------------------------
(* list_insert_before.  An element is inserted once: a task_struct is not    *)
(* started twice.                                                            *)

Insert(x, where) ==
    /\ busy = Null /\ pc[x] = "out"
    /\ before' = where
    /\ busy' = x
    /\ Goto(x, "link1")
    /\ UNCHANGED <<next, prev>>

ListPush(x) == Insert(x, next[Head_])
ListAppend(x) == Insert(x, Tail_)

\* before->prev->next = elem
Link1(x) ==
    /\ pc[x] = "link1"
    /\ next' = [next EXCEPT ![prev[before]] = x]
    /\ Goto(x, "link2")
    /\ UNCHANGED <<prev, before, busy>>

\* Mutant of Predecessor: elem->prev = before.
MutPredecessor == before

Predecessor == prev[before]

\* elem->prev = before->prev
Link2(x) ==
    /\ pc[x] = "link2"
    /\ prev' = [prev EXCEPT ![x] = Predecessor]
    /\ Goto(x, "link3")
    /\ UNCHANGED <<next, before, busy>>

\* Mutant of Successor: what is then behind the predecessor: the element itself.
MutSuccessor == next[prev[before]]

Successor == before

\* elem->next = before
Link3(x) ==
    /\ pc[x] = "link3"
    /\ next' = [next EXCEPT ![x] = Successor]
    /\ Goto(x, "link4")
    /\ UNCHANGED <<prev, before, busy>>

\* before->prev = elem
Link4(x) ==
    /\ pc[x] = "link4"
    /\ prev' = [prev EXCEPT ![before] = x]
    /\ before' = Tail_
    /\ busy' = Null
    /\ Goto(x, "in")
    /\ UNCHANGED next

-------------------------------------------------------------------------------
(* list_remove                                                               *)

ListRemove(x) ==
    /\ busy = Null /\ pc[x] = "in"
    /\ busy' = x
    /\ Goto(x, "unlink1")
    /\ UNCHANGED <<next, prev, before>>

ListEmpty == next[Head_] = Tail_

\* list_pop, of a list that list_empty has found not to be empty.
ListPop ==
    /\ busy = Null
    /\ ~ListEmpty
    /\ ListRemove(next[Head_])

\* pelem->prev->next = pelem->next
Unlink1(x) ==
    /\ pc[x] = "unlink1"
    /\ next' = [next EXCEPT ![prev[x]] = next[x]]
    /\ Goto(x, "unlink2")
    /\ UNCHANGED <<prev, before, busy>>

\* Mutant of Kept: list_remove clears the links of the element.
MutKept(x) == next' = [next EXCEPT ![x] = Null]

\* list_remove leaves the links of the element as they are.
Kept(x) == UNCHANGED next

\* pelem->next->prev = pelem->prev
Unlink2(x) ==
    /\ pc[x] = "unlink2"
    /\ prev' = [prev EXCEPT ![next[x]] = prev[x]]
    /\ Kept(x)
    /\ busy' = Null
    /\ Goto(x, "gone")
    /\ UNCHANGED before

-------------------------------------------------------------------------------
(* list_traversal with tid_check: tid2task                                   *)

Listed(x) == pc[x] = "in"

StartWalk ==
    /\ busy = Null /\ at = Null
    /\ \E x \in Elems : goal' = x /\ stays' = Listed(x)
    /\ at' = next[Head_]
    /\ UNCHANGED <<linkVars, ahead>>

\* One turn of the loop.
WalkOn ==
    /\ busy = Null /\ at # Null
    /\ IF at = Tail_ \/ at = goal
       THEN at' = Null /\ stays' = FALSE
       ELSE at' = next[at] /\ UNCHANGED stays
    /\ UNCHANGED <<linkVars, goal, ahead>>

-------------------------------------------------------------------------------

\* An element that is inserted comes behind its predecessor and all that are ahead of it.
Behind(x, p) ==
    ahead \union {<<m, x>> : m \in {m \in Nodes : m = p \/ <<m, p>> \in ahead}}
          \union {<<x, n>> : n \in {n \in Nodes : <<p, n>> \in ahead}}

Change ==
    \/ ListPop
    \/ \E x \in Elems :
        \/ ListPush(x) \/ ListAppend(x) \/ ListRemove(x)
        \/ Link1(x) \/ Link2(x) \/ Link3(x)
        \/ Unlink1(x) \/ Unlink2(x)

Next ==
    \/ /\ \/ Change /\ UNCHANGED ahead
          \/ \E x \in Elems : Link4(x) /\ ahead' = Behind(x, prev[x])
       /\ stays' = (stays /\ pc'[goal] = "in")
       /\ UNCHANGED walkVars
    \/ StartWalk \/ WalkOn

Spec == Init /\ [][Next]_vars

-------------------------------------------------------------------------------
(* Properties.                                                               *)

TypeOK ==
    /\ next \in [Nodes -> Nodes \union {Null}] /\ prev \in [Nodes -> Nodes \union {Null}]
    /\ pc \in [Elems -> Stages]
    /\ before \in Nodes
    /\ busy \in Elems \union {Null}
    /\ at \in Elems \union {Tail_, Null} /\ goal \in Elems
    /\ stays \in BOOLEAN

\* In the list, until list_remove has taken effect.
Present(n) == n \in {Head_, Tail_} \/ pc[n] \in {"in", "unlink1", "unlink2"}

\* n is the next node in the list behind m.
Neighbours(m, n) ==
    /\ Present(m) /\ Present(n) /\ <<m, n>> \in ahead
    /\ \A k \in Nodes : Present(k) => ~(<<m, k>> \in ahead /\ <<k, n>> \in ahead)

\* Between the operations both directions give the same list, from end to end: the links
\* of each node lead to those beside it in the order in which all were put there.
LinksAgree ==
    busy = Null =>
        \A m, n \in Nodes : Neighbours(m, n) => next[m] = n /\ prev[n] = m

\* tid2task finds a task that is listed as long as it looks for it, although other tasks
\* come and go under the walk: it stands on a removed element at worst, whose next link
\* still leads back into the list.
WalkFinds == [][at # Null /\ at' = Null => at = goal \/ ~stays]_vars

===============================================================================
