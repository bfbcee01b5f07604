------------------------------ MODULE ListChain ------------------------------
(***************************************************************************)
(* The list that the links of ListOps form, read off as a sequence, and    *)
(* that it is a list as ListSpec describes it.                             *)
(***************************************************************************)
EXTENDS ListOps, Sequences, SequencesExt

Before(links, n) == IF n \in {Head_, Null} THEN n ELSE links[n]

\* The nodes one comes by from the tail on.
NodesBack(links) ==
    LET node[k \in 0..Cardinality(Elems)] ==
            IF k = 0 THEN Tail_ ELSE Before(links, node[k - 1])
    IN  node

\* The elements among them, first the one that is nearest to the head.
Linked(links) ==
    LET node == NodesBack(links)
        length == Cardinality({k \in 1..Cardinality(Elems) : node[k] \in Elems})
    IN  [i \in 1..length |-> node[length + 1 - i]]

\* Either operation takes effect with its last store, the one to a prev link.
Items == Linked(prev)

List == INSTANCE ListSpec WITH items <- Items

\* list_push, list_append, list_remove and list_pop are those of a sequence.
ImplementsList == List!Spec
==============================================================================
