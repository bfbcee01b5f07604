-------------------------------- MODULE ListSpec --------------------------------
(***************************************************************************)
(* What list.c promises: a sequence of elements.                           *)
(***************************************************************************)
EXTENDS Sequences, SequencesExt

CONSTANT Elems

VARIABLE items

Init == items = <<>>

Push(x) == x \notin Range(items) /\ items' = <<x>> \o items       \* list_push
Append_(x) == x \notin Range(items) /\ items' = Append(items, x)  \* list_append
Remove_(x) ==                                                     \* list_remove, list_pop
    \E i \in DOMAIN items : items[i] = x /\ items' = RemoveAt(items, i)

Next == \E x \in Elems : Push(x) \/ Append_(x) \/ Remove_(x)

Spec == Init /\ [][Next]_items

===============================================================================
