----------------------------- MODULE ListOpsProofs -----------------------------
(***************************************************************************)
(* Proofs about ListOps, for any number of elements: both directions of    *)
(* the list agree whenever no operation is under way, a walk that is       *)
(* interrupted finds what stays, and the list is a sequence.               *)
(***************************************************************************)
EXTENDS ListChain, FiniteSetTheorems, SequenceTheorems, WellFoundedInduction, TLAPS

Adding == {"link1", "link2", "link3", "link4"}
Removing == {"unlink1", "unlink2"}

\* The nodes that are or have been in the list.
Known == {n \in Nodes : Present(n) \/ (n \in Elems /\ pc[n] = "gone")}

NoneBetween(m, n) ==
    \A k \in Nodes : Present(k) => ~(<<m, k>> \in ahead /\ <<k, n>> \in ahead)

\* One operation at a time.
OneCall == \A x \in Elems : pc[x] \in Adding \union Removing <=> x = busy

\* The history is a strict order of all nodes from head to tail.
Ordered ==
    /\ ahead \subseteq Known \X Known
    /\ \A n \in Nodes : <<n, n>> \notin ahead
    /\ \A k, m, n \in Nodes : <<k, m>> \in ahead /\ <<m, n>> \in ahead => <<k, n>> \in ahead
    /\ \A m, n \in Known : m = n \/ <<m, n>> \in ahead \/ <<n, m>> \in ahead
    /\ \A n \in Known \ {Head_} : <<Head_, n>> \in ahead
    /\ \A n \in Known \ {Tail_} : <<n, Tail_>> \in ahead

\* The prev links are right at every moment, those of what is being inserted excepted.
PrevLinks ==
    \A n \in Nodes \ {Head_} : Present(n) => \E m \in Nodes : prev[n] = m /\ Neighbours(m, n)

\* A next link leads over nothing that is in the list, and from what is in the list to
\* what is, from what is not perhaps to what is not either.
LeadsOn(m, n) ==
    /\ n \in Known /\ <<m, n>> \in ahead /\ NoneBetween(m, n)
    /\ Present(m) => Present(n)

\* The node whose next link an operation under way has changed.
Torn(n) ==
    \E x \in Elems :
        \/ pc[x] \in Adding \ {"link1"} /\ n = prev[before]
        \/ pc[x] = "unlink2" /\ n = prev[x]

NextLinks ==
    \A n \in Known \ {Tail_} : ~Torn(n) => \E m \in Nodes : next[n] = m /\ LeadsOn(n, m)

\* What the stores of list_insert_before and list_remove have left so far.
HalfWay ==
    \A x \in Elems :
        /\ pc[x] \in Adding =>
            /\ before # Head_ /\ Present(before)
            /\ before = Tail_ \/ prev[before] = Head_
        /\ pc[x] \in {"link2", "link3", "link4"} => next[prev[before]] = x
        /\ pc[x] \in {"link3", "link4"} => prev[x] = prev[before]
        /\ pc[x] = "link4" => next[x] = before
        /\ pc[x] = "unlink2" => next[prev[x]] = next[x]

\* The walk has not passed what it looks for.
OnTheWay ==
    /\ at # Null => at \in Known \ {Head_}
    /\ stays => /\ at # Null /\ pc[goal] = "in"
                /\ at = goal \/ <<at, goal>> \in ahead

\* LinksAgree speaks of the moments between the operations, WalkFinds of the end of a
\* walk.  Both need what every next link leads over, those of the removed elements
\* included, on which a walk may stand.
LinkInv == TypeOK /\ OneCall /\ Ordered /\ PrevLinks /\ NextLinks /\ HalfWay

IInv == LinkInv /\ OnTheWay

-------------------------------------------------------------------------------
(* The order.                                                                *)

LEMMA NodeNames ==
    /\ Elems \subseteq Nodes /\ Head_ \in Nodes /\ Tail_ \in Nodes /\ Null \notin Nodes
    /\ Head_ # Tail_ /\ Head_ \notin Elems /\ Tail_ \notin Elems /\ Null \notin Elems
    /\ \A n \in Nodes : n \in Elems \/ n = Head_ \/ n = Tail_
    /\ Present(Head_) /\ Present(Tail_)
<1> QED BY ListAssumption DEF Nodes, Present

LEMMA KnownNodes ==
    /\ Known \subseteq Nodes /\ Head_ \in Known /\ Tail_ \in Known
    /\ \A n \in Nodes : Present(n) => n \in Known
    /\ \A x \in Elems : x \in Known <=> pc[x] \in {"in", "unlink1", "unlink2", "gone"}
    /\ \A x \in Elems : Present(x) <=> pc[x] \in {"in", "unlink1", "unlink2"}
<1> QED BY NodeNames DEF Known, Present

\* Who is ahead is not behind, nothing is ahead of the head or behind the tail.
LEMMA OneWay ==
    ASSUME Ordered, NEW m \in Nodes, NEW n \in Nodes, <<m, n>> \in ahead
    PROVE  /\ m \in Known /\ n \in Known /\ m # n /\ <<n, m>> \notin ahead
           /\ m # Tail_ /\ n # Head_
<1>1. m \in Known /\ n \in Known
  BY DEF Ordered
<1>2. m # n /\ <<n, m>> \notin ahead
  BY DEF Ordered
<1> QED BY <1>1, <1>2, KnownNodes DEF Ordered

\* What has the same node of the list behind it, and none between, is the same.
LEMMA OnlyOneBehind ==
    ASSUME Ordered, NEW k \in Nodes, NEW m \in Nodes, NEW n \in Nodes,
           Neighbours(k, m), LeadsOn(k, n)
    PROVE  m = n
<1> QED BY KnownNodes DEF Ordered, Neighbours, LeadsOn, NoneBetween

LEMMA OnlyOneAhead ==
    ASSUME Ordered, NEW k \in Nodes, NEW m \in Nodes, NEW n \in Nodes,
           Neighbours(m, k), Neighbours(n, k)
    PROVE  m = n
<1> QED BY KnownNodes DEF Ordered, Neighbours

\* Only one element has an operation under way.
LEMMA OnlyOneBusy ==
    ASSUME OneCall, NEW x \in Elems, pc[x] \in Adding \union Removing
    PROVE  busy = x /\ \A y \in Elems : pc[y] \in Adding \union Removing => y = x
<1> QED BY DEF OneCall

\* A node of the list and the one ahead of it.
LEMMA PrevOf ==
    ASSUME LinkInv, NEW n \in Nodes, n # Head_, Present(n)
    PROVE  /\ prev[n] \in Nodes /\ prev[n] \in Known /\ Present(prev[n])
           /\ <<prev[n], n>> \in ahead /\ prev[n] # n /\ prev[n] # Tail_
           /\ Neighbours(prev[n], n)
<1>1. PICK m \in Nodes : prev[n] = m /\ Neighbours(m, n)
  BY DEF LinkInv, PrevLinks
<1>2. <<m, n>> \in ahead /\ Present(m) /\ Ordered
  BY <1>1 DEF Neighbours, LinkInv
<1> QED BY <1>1, <1>2, OneWay

LEMMA NextOf ==
    ASSUME LinkInv, NEW n \in Known, n # Tail_, ~Torn(n)
    PROVE  /\ next[n] \in Nodes /\ next[n] \in Known /\ <<n, next[n]>> \in ahead
           /\ next[n] # n /\ next[n] # Head_
           /\ LeadsOn(n, next[n])
           /\ Present(n) => Present(next[n]) /\ Neighbours(n, next[n])
<1>1. PICK m \in Nodes : next[n] = m /\ LeadsOn(n, m)
  BY DEF LinkInv, NextLinks
<1>2. m \in Known /\ <<n, m>> \in ahead /\ n \in Nodes /\ Ordered
  BY <1>1, KnownNodes DEF LeadsOn, LinkInv
<1>3. Present(n) => Present(m) /\ Neighbours(n, m)
  BY <1>1, <1>2 DEF LeadsOn, NoneBetween, Neighbours
<1> QED BY <1>1, <1>2, <1>3, OneWay

\* A step that puts no element into the list and takes none out of it.
LEMMA SameList ==
    ASSUME LinkInv, ahead' = ahead, NEW x \in Elems,
           pc' = [pc EXCEPT ![x] = pc'[x]],
           \/ pc[x] \in Adding \union {"out"} /\ pc'[x] \in Adding
           \/ pc[x] \in {"in", "unlink1"} /\ pc'[x] \in Removing
    PROVE  /\ Known' = Known /\ Ordered'
           /\ \A n \in Nodes : Present(n)' <=> Present(n)
           /\ \A m, n \in Nodes : Neighbours(m, n)' <=> Neighbours(m, n)
           /\ \A m, n \in Nodes : LeadsOn(m, n)' <=> LeadsOn(m, n)
           /\ \A y \in Elems : y # x => pc'[y] = pc[y]
<1>1. \A y \in Elems : y # x => pc'[y] = pc[y]
  BY DEF LinkInv, TypeOK
<1>2. \A n \in Nodes : Present(n)' <=> Present(n)
  BY <1>1, NodeNames DEF Present, Adding, Removing
<1>3. Known' = Known
  <2>1. \A y \in Elems : pc'[y] = "gone" <=> pc[y] = "gone"
    BY <1>1 DEF Adding, Removing
  <2> QED BY <1>2, <2>1 DEF Known
<1>4. Ordered'
  BY <1>3 DEF LinkInv, Ordered
<1> QED BY <1>1, <1>2, <1>3, <1>4 DEF Neighbours, LeadsOn, NoneBetween

-------------------------------------------------------------------------------
(* The steps of an operation.                                                *)

\* The variables of the walk and the type of those of the links.
WalkTypes == UNCHANGED walkVars /\ stays' \in BOOLEAN

LEMMA Idle == ASSUME LinkInv, busy = Null PROVE \A n \in Nodes : ~Torn(n)
<1>1. \A x \in Elems : pc[x] \notin Adding \union Removing
  BY NodeNames DEF LinkInv, OneCall
<1> QED BY <1>1 DEF Torn, Adding, Removing

LEMMA StartStep ==
    ASSUME LinkInv, WalkTypes, NEW x \in Elems, ahead' = ahead,
           ListPush(x) \/ ListAppend(x) \/ ListRemove(x)
    PROVE  LinkInv'
<1>0. pc \in [Elems -> Stages]
  BY DEF LinkInv, TypeOK
<1>1. /\ busy = Null /\ busy' = x /\ UNCHANGED <<next, prev>>
      /\ pc' = [pc EXCEPT ![x] = pc'[x]] /\ pc'[x] \in {"link1", "unlink1"}
      /\ \/ pc[x] = "out" /\ pc'[x] = "link1" /\ before' \in {next[Head_], Tail_}
         \/ pc[x] = "in" /\ pc'[x] = "unlink1" /\ before' = before
  BY <1>0 DEF ListPush, ListAppend, ListRemove, Insert, Goto
<1>2. \A n \in Nodes : ~Torn(n)
  BY <1>1, Idle
<1>3. /\ Known' = Known /\ Ordered'
      /\ \A n \in Nodes : Present(n)' <=> Present(n)
      /\ \A m, n \in Nodes : Neighbours(m, n)' <=> Neighbours(m, n)
      /\ \A m, n \in Nodes : LeadsOn(m, n)' <=> LeadsOn(m, n)
      /\ \A y \in Elems : y # x => pc'[y] = pc[y]
  BY <1>1, SameList DEF Adding, Removing
<1>4. /\ next[Head_] \in Nodes /\ next[Head_] # Head_ /\ Present(next[Head_])
      /\ Neighbours(Head_, next[Head_])
  BY <1>2, NextOf, NodeNames, KnownNodes
<1>5. TypeOK'
  BY <1>1, <1>4, NodeNames DEF LinkInv, TypeOK, WalkTypes, walkVars, Stages
<1>6. \A y \in Elems : y # x => pc'[y] \notin Adding \union Removing
  BY <1>1, <1>3, NodeNames DEF LinkInv, OneCall
<1>7. OneCall'
  BY <1>1, <1>6 DEF OneCall, Adding, Removing
<1>8. PrevLinks'
  <2> SUFFICES ASSUME NEW n \in Nodes \ {Head_}, Present(n) PROVE \E m \in Nodes : prev'[n] = m /\ Neighbours(m, n)'
    BY <1>1, <1>3 DEF PrevLinks
  <2> QED BY <1>1, <1>3, PrevOf
<1>9. NextLinks'
  <2> SUFFICES ASSUME NEW n \in Known \ {Tail_} PROVE \E m \in Nodes : next'[n] = m /\ LeadsOn(n, m)'
    BY <1>1, <1>3 DEF NextLinks
  <2> QED BY <1>1, <1>2, <1>3, NextOf, KnownNodes
<1>10. HalfWay'
  <2>1. pc'[x] = "link1" =>
          /\ before' # Head_ /\ Present(before)' /\ (before' = Tail_ \/ prev[before'] = Head_)
    <3>1. prev[next[Head_]] = Head_
      <4>1. Neighbours(prev[next[Head_]], next[Head_]) /\ prev[next[Head_]] \in Nodes
        BY <1>4, PrevOf
      <4> QED BY <1>4, <4>1, OnlyOneAhead, NodeNames DEF LinkInv
    <3>2. PICK first \in Nodes : first = next[Head_] /\ Present(first)
      BY <1>4
    <3>3. Present(first)' /\ Present(Tail_)'
      BY <1>3, <3>2, NodeNames
    <3>4. \A n \in Nodes : n = before' /\ Present(n)' => Present(before)'
      BY DEF Present
    <3> QED BY <1>1, <1>4, <3>1, <3>2, <3>3, <3>4, NodeNames
  <2>2. ASSUME NEW y \in Elems, y # x PROVE pc'[y] \notin Adding \union {"unlink2"}
    BY <1>6, <2>2 DEF Removing
  <2> QED BY <1>1, <2>1, <2>2 DEF HalfWay, Adding
<1> QED BY <1>3, <1>5, <1>7, <1>8, <1>9, <1>10 DEF LinkInv

LEMMA Link1Step ==
    ASSUME LinkInv, WalkTypes, NEW x \in Elems, ahead' = ahead, Link1(x)
    PROVE  LinkInv'
<1> DEFINE p == prev[before]
<1>1. /\ pc[x] = "link1" /\ next' = [next EXCEPT ![p] = x]
      /\ pc' = [pc EXCEPT ![x] = "link2"] /\ pc'[x] = "link2" /\ UNCHANGED <<prev, before, busy>>
  BY DEF Link1, Goto, LinkInv, TypeOK
<1>2. busy = x /\ \A y \in Elems : y # x => pc[y] \notin Adding \union Removing
  BY <1>1, OnlyOneBusy DEF LinkInv, Adding
<1>3. /\ Known' = Known /\ Ordered'
      /\ \A n \in Nodes : Present(n)' <=> Present(n)
      /\ \A m, n \in Nodes : Neighbours(m, n)' <=> Neighbours(m, n)
      /\ \A m, n \in Nodes : LeadsOn(m, n)' <=> LeadsOn(m, n)
      /\ \A y \in Elems : y # x => pc'[y] = pc[y]
  BY <1>1, SameList DEF Adding, Removing
<1>4. before \in Nodes /\ before # Head_ /\ Present(before) /\ (before = Tail_ \/ p = Head_)
  BY <1>1 DEF LinkInv, HalfWay, TypeOK, Adding
<1>5. p \in Nodes /\ p # Tail_
  BY <1>4, PrevOf
<1>6. TypeOK'
  BY <1>1, <1>5, NodeNames DEF LinkInv, TypeOK, WalkTypes, walkVars, Stages
<1>7. OneCall'
  BY <1>1, <1>2, <1>3 DEF OneCall, Adding, Removing
<1>8. PrevLinks'
  <2> SUFFICES ASSUME NEW n \in Nodes \ {Head_}, Present(n) PROVE \E m \in Nodes : prev'[n] = m /\ Neighbours(m, n)'
    BY <1>1, <1>3 DEF PrevLinks
  <2> QED BY <1>1, <1>3, PrevOf
<1>9. NextLinks'
  <2> SUFFICES ASSUME NEW n \in Known \ {Tail_}, ~Torn(n)' PROVE \E m \in Nodes : next'[n] = m /\ LeadsOn(n, m)'
    BY <1>3 DEF NextLinks
  <2>1. n # p
    BY <1>1 DEF Torn, Adding
  <2>2. next'[n] = next[n]
    BY <1>1, <2>1, KnownNodes DEF LinkInv, TypeOK
  <2>3. ~Torn(n)
    BY <1>1, <1>2 DEF Torn, Adding, Removing
  <2> QED BY <1>3, <2>2, <2>3, NextOf, KnownNodes
<1>10. HalfWay'
  <2>1. next'[p] = x
    BY <1>1, <1>5 DEF LinkInv, TypeOK
  <2>2. Present(before)'
    BY <1>1, <1>3, <1>4 DEF Present
  <2>3. \A y \in Elems : y # x => pc'[y] \notin Adding \union Removing
    BY <1>2, <1>3
  <2> QED BY <1>1, <1>4, <2>1, <2>2, <2>3 DEF HalfWay, Adding, Removing
<1> QED BY <1>3, <1>6, <1>7, <1>8, <1>9, <1>10 DEF LinkInv

\* The stores to the links of the element itself, which is not in the list yet.
LEMMA OwnLinksStep ==
    ASSUME LinkInv, WalkTypes, NEW x \in Elems, ahead' = ahead, Link2(x) \/ Link3(x)
    PROVE  LinkInv'
<1>1. /\ \/ /\ pc[x] = "link2" /\ pc'[x] = "link3"
            /\ prev' = [prev EXCEPT ![x] = prev[before]] /\ next' = next
         \/ /\ pc[x] = "link3" /\ pc'[x] = "link4"
            /\ next' = [next EXCEPT ![x] = before] /\ prev' = prev
      /\ pc' = [pc EXCEPT ![x] = pc'[x]] /\ UNCHANGED <<before, busy>>
  BY DEF Link2, Link3, Goto, LinkInv, TypeOK, Predecessor, Successor
<1>2. busy = x /\ \A y \in Elems : y # x => pc[y] \notin Adding \union Removing
  BY <1>1, OnlyOneBusy DEF LinkInv, Adding
<1>3. /\ Known' = Known /\ Ordered'
      /\ \A n \in Nodes : Present(n)' <=> Present(n)
      /\ \A m, n \in Nodes : Neighbours(m, n)' <=> Neighbours(m, n)
      /\ \A m, n \in Nodes : LeadsOn(m, n)' <=> LeadsOn(m, n)
      /\ \A y \in Elems : y # x => pc'[y] = pc[y]
  BY <1>1, SameList DEF Adding, Removing
<1>4. before \in Nodes /\ before # Head_ /\ Present(before) /\ (before = Tail_ \/ prev[before] = Head_)
  BY <1>1 DEF LinkInv, HalfWay, TypeOK, Adding
<1>5. x \notin Known /\ ~Present(x) /\ x \in Nodes
  BY <1>1, KnownNodes, NodeNames
<1>6. /\ prev[before] \in Known /\ prev[before] \in Nodes
  BY <1>4, PrevOf
<1>7. \A n \in Nodes : n # x => next'[n] = next[n] /\ prev'[n] = prev[n]
  BY <1>1 DEF LinkInv, TypeOK
<1>8. before # x /\ prev[before] # x /\ prev'[before] = prev[before]
  BY <1>4, <1>5, <1>6, <1>7
<1>9. TypeOK'
  BY <1>1, <1>4, <1>6, NodeNames DEF LinkInv, TypeOK, WalkTypes, walkVars, Stages
<1>10. OneCall'
  BY <1>1, <1>2, <1>3 DEF OneCall, Adding, Removing
<1>11. PrevLinks'
  <2> SUFFICES ASSUME NEW n \in Nodes \ {Head_}, Present(n) PROVE \E m \in Nodes : prev'[n] = m /\ Neighbours(m, n)'
    BY <1>3 DEF PrevLinks
  <2>1. prev'[n] = prev[n]
    BY <1>5, <1>7
  <2> QED BY <1>3, <2>1, PrevOf
<1>12. NextLinks'
  <2> SUFFICES ASSUME NEW n \in Known \ {Tail_}, ~Torn(n)' PROVE \E m \in Nodes : next'[n] = m /\ LeadsOn(n, m)'
    BY <1>3 DEF NextLinks
  <2>1. next'[n] = next[n]
    BY <1>5, <1>7, KnownNodes
  <2>2. n # prev[before]
    BY <1>1, <1>8 DEF Torn, Adding
  <2>3. ~Torn(n)
    BY <1>1, <1>2, <2>2 DEF Torn, Adding, Removing
  <2> QED BY <1>3, <2>1, <2>3, NextOf, KnownNodes
<1>13. HalfWay'
  <2>1. next[prev[before]] = x /\ (pc[x] = "link3" => prev[x] = prev[before])
    BY <1>1 DEF LinkInv, HalfWay
  <2>2. next'[prev'[before]] = x
    BY <1>6, <1>7, <1>8, <2>1
  <2>3. prev'[x] = prev'[before] /\ (pc'[x] = "link4" => next'[x] = before)
    BY <1>1, <1>5, <1>8, <2>1 DEF LinkInv, TypeOK
  <2>4. Present(before)'
    BY <1>1, <1>3, <1>4 DEF Present
  <2>5. \A y \in Elems : y # x => pc'[y] \notin Adding \union Removing
    BY <1>2, <1>3
  <2> QED BY <1>1, <1>4, <1>8, <2>2, <2>3, <2>4, <2>5 DEF HalfWay, Adding, Removing
<1> QED BY <1>3, <1>9, <1>10, <1>11, <1>12, <1>13 DEF LinkInv

\* The last store of list_insert_before puts the element into the list, and into the order.
LEMMA Link4Order ==
    ASSUME LinkInv, NEW x \in Elems, NEW p \in Nodes, x \notin Known, Present(p), p # Tail_,
           ahead' = Behind(x, p), Known' = Known \union {x}
    PROVE  /\ Ordered' /\ ahead \subseteq ahead'
           /\ \A m, n \in Nodes :
                <<m, n>> \in ahead' <=>
                    \/ <<m, n>> \in ahead
                    \/ n = x /\ (m = p \/ <<m, p>> \in ahead)
                    \/ m = x /\ <<p, n>> \in ahead
<1>1. p \in Known /\ x \in Nodes /\ x # Head_ /\ x # Tail_ /\ Ordered
  BY KnownNodes, NodeNames DEF LinkInv
<1>2. \A m, n \in Nodes :
        <<m, n>> \in ahead' <=>
            \/ <<m, n>> \in ahead
            \/ n = x /\ (m = p \/ <<m, p>> \in ahead)
            \/ m = x /\ <<p, n>> \in ahead
  BY <1>1 DEF Behind
<1>3. \A n \in Nodes : <<x, n>> \notin ahead /\ <<n, x>> \notin ahead
  BY <1>1 DEF Ordered
<1>4. ahead' \subseteq Known' \X Known'
  <2>1. ahead \subseteq Known \X Known
    BY <1>1 DEF Ordered
  <2>2. \A m \in Nodes : m = p \/ <<m, p>> \in ahead => m \in Known
    BY <1>1, <2>1
  <2>3. \A n \in Nodes : <<p, n>> \in ahead => n \in Known
    BY <1>1, <2>1
  <2> SUFFICES ASSUME NEW w \in ahead' PROVE w \in Known' \X Known'
    OBVIOUS
  <2>4. CASE w \in ahead
    BY <2>1, <2>4
  <2>5. CASE \E m \in Nodes : w = <<m, x>> /\ (m = p \/ <<m, p>> \in ahead)
    BY <2>2, <2>5
  <2>6. CASE \E n \in Nodes : w = <<x, n>> /\ <<p, n>> \in ahead
    BY <2>3, <2>6
  <2> QED BY <2>4, <2>5, <2>6 DEF Behind
<1>5. \A n \in Nodes : <<n, n>> \notin ahead'
  BY <1>1, <1>2, <1>3 DEF Ordered
<1>6. ASSUME NEW k \in Nodes, NEW m \in Nodes, NEW n \in Nodes,
             <<k, m>> \in ahead', <<m, n>> \in ahead'
      PROVE  <<k, n>> \in ahead'
  <2>1. \A i, j, l \in Nodes : <<i, j>> \in ahead /\ <<j, l>> \in ahead => <<i, l>> \in ahead
    BY <1>1 DEF Ordered
  <2>2. CASE m = x
    <3>1. (k = p \/ <<k, p>> \in ahead) /\ <<p, n>> \in ahead
      BY <1>1, <1>2, <1>3, <1>6, <2>2
    <3>2. <<k, n>> \in ahead
      BY <1>1, <2>1, <3>1
    <3> QED BY <1>2, <3>2
  <2>3. CASE m # x
    <3>1. CASE k = x
      <4>1. <<p, m>> \in ahead /\ (<<m, n>> \in ahead \/ (n = x /\ (m = p \/ <<m, p>> \in ahead)))
        BY <1>1, <1>2, <1>3, <1>6, <2>3, <3>1
      <4>2. ~(m = p \/ <<m, p>> \in ahead)
        BY <1>1, <4>1, OneWay
      <4>3. <<p, n>> \in ahead
        BY <1>1, <2>1, <4>1, <4>2
      <4> QED BY <1>2, <3>1, <4>3
    <3>2. CASE n = x /\ k # x
      <4>1. <<k, m>> \in ahead /\ (m = p \/ <<m, p>> \in ahead)
        BY <1>2, <1>3, <1>6, <2>3, <3>2
      <4>2. <<k, p>> \in ahead
        BY <1>1, <2>1, <4>1
      <4> QED BY <1>2, <3>2, <4>2
    <3>3. CASE n # x /\ k # x
      <4>1. <<k, m>> \in ahead /\ <<m, n>> \in ahead
        BY <1>2, <1>6, <2>3, <3>3
      <4> QED BY <1>2, <2>1, <4>1
    <3> QED BY <3>1, <3>2, <3>3
  <2> QED BY <2>2, <2>3
<1>7. \A m, n \in Known' : m = n \/ <<m, n>> \in ahead' \/ <<n, m>> \in ahead'
  <2>1. \A m, n \in Known : m = n \/ <<m, n>> \in ahead \/ <<n, m>> \in ahead
    BY <1>1 DEF Ordered
  <2>2. \A n \in Known : <<n, x>> \in ahead' \/ <<x, n>> \in ahead'
    BY <1>1, <1>2, <2>1, KnownNodes
  <2>3. \A m, n \in Known : m = n \/ <<m, n>> \in ahead' \/ <<n, m>> \in ahead'
    BY <1>2, <2>1, KnownNodes
  <2> QED BY <2>2, <2>3
<1>8. /\ \A n \in Known' \ {Head_} : <<Head_, n>> \in ahead'
      /\ \A n \in Known' \ {Tail_} : <<n, Tail_>> \in ahead'
  BY <1>1, <1>2, KnownNodes DEF Ordered
<1>9. ahead \subseteq ahead'
  BY DEF Behind
<1> QED BY <1>2, <1>4, <1>5, <1>6, <1>7, <1>8, <1>9 DEF Ordered

LEMMA Link4Step ==
    ASSUME LinkInv, WalkTypes, NEW x \in Elems, Link4(x), ahead' = Behind(x, prev[x])
    PROVE  LinkInv' /\ Known \subseteq Known' /\ ahead \subseteq ahead'
<1>1. PICK b \in Nodes : b = before
  BY DEF LinkInv, TypeOK
<1>2. /\ pc[x] = "link4" /\ prev' = [prev EXCEPT ![b] = x] /\ next' = next
      /\ before' = Tail_ /\ busy' = Null
      /\ pc' = [pc EXCEPT ![x] = "in"] /\ pc'[x] = "in"
      /\ \A y \in Elems : y # x => pc'[y] = pc[y]
  BY <1>1 DEF Link4, Goto, LinkInv, TypeOK
<1>3. busy = x /\ \A y \in Elems : y # x => pc[y] \notin Adding \union Removing
  BY <1>2, OnlyOneBusy DEF LinkInv, Adding
<1>4. b # Head_ /\ Present(b) /\ prev[x] = prev[b] /\ next[x] = b /\ next[prev[b]] = x
  BY <1>1, <1>2 DEF LinkInv, HalfWay, Adding
<1>5. PICK p \in Nodes : p = prev[b] /\ Neighbours(p, b)
  BY <1>4, PrevOf
<1>6. /\ Present(p) /\ <<p, b>> \in ahead /\ p # Tail_
      /\ \A k \in Nodes : Present(k) => ~(<<p, k>> \in ahead /\ <<k, b>> \in ahead)
  BY <1>5, OneWay DEF Neighbours, LinkInv
<1>7. x \notin Known /\ ~Present(x) /\ x \in Nodes /\ x # Tail_ /\ x # Head_ /\ x # p /\ x # b
  BY <1>2, <1>4, <1>6, KnownNodes, NodeNames
<1>8. \A n \in Nodes : Present(n)' <=> Present(n) \/ n = x
  BY <1>2, NodeNames DEF Present
<1>9. Known' = Known \union {x}
  <2>1. \A y \in Elems : pc'[y] = "gone" <=> pc[y] = "gone"
    BY <1>2
  <2> QED BY <1>7, <1>8, <2>1 DEF Known
<1>10. ahead' = Behind(x, p)
  BY <1>4, <1>5
<1>11. /\ Ordered' /\ ahead \subseteq ahead'
       /\ \A m, n \in Nodes :
            <<m, n>> \in ahead' <=>
                \/ <<m, n>> \in ahead
                \/ n = x /\ (m = p \/ <<m, p>> \in ahead)
                \/ m = x /\ <<p, n>> \in ahead
  BY <1>6, <1>7, <1>9, <1>10, Link4Order
<1>12. /\ \A n \in Nodes : <<n, n>> \notin ahead /\ <<x, n>> \notin ahead /\ <<n, x>> \notin ahead
       /\ \A k, m, n \in Nodes : <<k, m>> \in ahead /\ <<m, n>> \in ahead => <<k, n>> \in ahead
  BY <1>7 DEF LinkInv, Ordered
<1>13. Neighbours(p, x)' /\ LeadsOn(p, x)'
  <2>1. NoneBetween(p, x)'
    BY <1>7, <1>8, <1>11, <1>12 DEF NoneBetween
  <2>2. Present(p)' /\ Present(x)' /\ <<p, x>> \in ahead' /\ x \in Known'
    BY <1>6, <1>7, <1>8, <1>9, <1>11
  <2> QED BY <2>1, <2>2 DEF Neighbours, LeadsOn, NoneBetween
<1>14. Neighbours(x, b)' /\ LeadsOn(x, b)'
  <2>1. NoneBetween(x, b)'
    BY <1>6, <1>7, <1>8, <1>11, <1>12 DEF NoneBetween
  <2>2. Present(b)' /\ Present(x)' /\ <<x, b>> \in ahead' /\ b \in Known'
    BY <1>4, <1>6, <1>7, <1>8, <1>9, <1>11, KnownNodes
  <2> QED BY <2>1, <2>2 DEF Neighbours, LeadsOn, NoneBetween
\* What led over neither p nor b does not lead over x.
<1>15. ASSUME NEW m \in Known, NEW n \in Known, LeadsOn(m, n), m # p PROVE LeadsOn(m, n)'
  <2>1. /\ m \in Nodes /\ n \in Nodes /\ m # x /\ n # x /\ <<m, n>> \in ahead
        /\ \A k \in Nodes : Present(k) => ~(<<m, k>> \in ahead /\ <<k, n>> \in ahead)
        /\ Present(m) => Present(n)
    BY <1>7, <1>15, KnownNodes DEF LeadsOn, NoneBetween
  <2>2. ~(<<m, x>> \in ahead' /\ <<x, n>> \in ahead')
    BY <1>6, <1>7, <1>11, <1>12, <1>15, <2>1
  <2>3. NoneBetween(m, n)'
    BY <1>8, <1>11, <2>1, <2>2 DEF NoneBetween
  <2> QED BY <1>8, <1>9, <1>11, <2>1, <2>3 DEF LeadsOn
<1>16. TypeOK'
  BY <1>1, <1>2, <1>7, NodeNames DEF LinkInv, TypeOK, WalkTypes, walkVars, Stages
<1>17. OneCall'
  BY <1>2, <1>3, NodeNames DEF OneCall, Adding, Removing
<1>18. PrevLinks'
  <2> SUFFICES ASSUME NEW n \in Nodes \ {Head_}, Present(n)'
               PROVE  \E m \in Nodes : prev'[n] = m /\ Neighbours(m, n)'
    BY DEF PrevLinks
  <2>1. CASE n = x
    BY <1>2, <1>4, <1>5, <1>7, <1>13, <2>1 DEF LinkInv, TypeOK
  <2>2. CASE n = b
    BY <1>2, <1>7, <1>14, <2>2 DEF LinkInv, TypeOK
  <2>3. CASE n # x /\ n # b
    <3>1. PICK m \in Nodes : prev[n] = m /\ Neighbours(m, n)
      BY <1>8, <2>3, PrevOf
    <3>2. prev'[n] = m
      BY <1>2, <2>3, <3>1 DEF LinkInv, TypeOK
    <3>3. m \in Known /\ n \in Known /\ LeadsOn(m, n) /\ Present(m) /\ Present(n)
      BY <3>1, KnownNodes DEF Neighbours, LeadsOn, NoneBetween
    <3>4. m # p
      <4> SUFFICES ASSUME m = p PROVE FALSE
        OBVIOUS
      <4>1. n = b
        BY <1>5, <3>3, OnlyOneBehind DEF LinkInv
      <4> QED BY <2>3, <4>1
    <3>5. LeadsOn(m, n)' /\ Present(m)' /\ Present(n)'
      BY <1>8, <1>15, <3>3, <3>4
    <3> QED BY <3>2, <3>5 DEF Neighbours, LeadsOn, NoneBetween
  <2> QED BY <2>1, <2>2, <2>3
<1>19. NextLinks'
  <2> SUFFICES ASSUME NEW n \in Known' \ {Tail_}
               PROVE  \E m \in Nodes : next'[n] = m /\ LeadsOn(n, m)'
    BY DEF NextLinks
  <2>1. CASE n = x
    BY <1>2, <1>4, <1>14, <2>1
  <2>2. CASE n = p
    BY <1>2, <1>4, <1>5, <1>7, <1>13, <2>2
  <2>3. CASE n # x /\ n # p
    <3>1. ~Torn(n) /\ n \in Known
      BY <1>1, <1>2, <1>3, <1>5, <1>9, <2>3 DEF Torn, Adding, Removing
    <3>2. PICK m \in Nodes : next[n] = m /\ LeadsOn(n, m) /\ m \in Known
      BY <3>1, NextOf
    <3> QED BY <1>2, <1>15, <2>3, <3>1, <3>2
  <2> QED BY <2>1, <2>2, <2>3
<1>20. HalfWay'
  BY <1>2, <1>3 DEF HalfWay, Adding, Removing
<1> QED BY <1>9, <1>11, <1>16, <1>17, <1>18, <1>19, <1>20 DEF LinkInv

LEMMA Unlink1Step ==
    ASSUME LinkInv, WalkTypes, NEW x \in Elems, ahead' = ahead, Unlink1(x)
    PROVE  LinkInv'
<1>1. /\ pc[x] = "unlink1" /\ next' = [next EXCEPT ![prev[x]] = next[x]]
      /\ pc' = [pc EXCEPT ![x] = "unlink2"] /\ pc'[x] = "unlink2" /\ UNCHANGED <<prev, before, busy>>
  BY DEF Unlink1, Goto, LinkInv, TypeOK
<1>2. busy = x /\ \A y \in Elems : y # x => pc[y] \notin Adding \union Removing
  BY <1>1, OnlyOneBusy DEF LinkInv, Removing
<1>3. /\ Known' = Known /\ Ordered'
      /\ \A n \in Nodes : Present(n)' <=> Present(n)
      /\ \A m, n \in Nodes : Neighbours(m, n)' <=> Neighbours(m, n)
      /\ \A m, n \in Nodes : LeadsOn(m, n)' <=> LeadsOn(m, n)
      /\ \A y \in Elems : y # x => pc'[y] = pc[y]
  BY <1>1, SameList DEF Adding, Removing
<1>4. Present(x) /\ x \in Known /\ x \in Nodes /\ x # Head_ /\ x # Tail_
  BY <1>1, KnownNodes, NodeNames
<1>5. prev[x] \in Nodes /\ prev[x] # x
  BY <1>4, PrevOf
<1>6. \A n \in Nodes : ~Torn(n)
  BY <1>1, <1>2 DEF Torn, Adding, Removing
<1>7. next[x] \in Nodes
  BY <1>4, <1>6, NextOf
<1>8. TypeOK'
  BY <1>1, <1>7, NodeNames DEF LinkInv, TypeOK, WalkTypes, walkVars, Stages
<1>9. OneCall'
  BY <1>1, <1>2, <1>3 DEF OneCall, Adding, Removing
<1>10. PrevLinks'
  <2> SUFFICES ASSUME NEW n \in Nodes \ {Head_}, Present(n)
               PROVE  \E m \in Nodes : prev'[n] = m /\ Neighbours(m, n)'
    BY <1>3 DEF PrevLinks
  <2> QED BY <1>1, <1>3, PrevOf
<1>11. NextLinks'
  <2> SUFFICES ASSUME NEW n \in Known \ {Tail_}, ~Torn(n)'
               PROVE  \E m \in Nodes : next'[n] = m /\ LeadsOn(n, m)'
    BY <1>3 DEF NextLinks
  <2>1. n # prev[x]
    BY <1>1 DEF Torn
  <2>2. next'[n] = next[n]
    BY <1>1, <2>1, KnownNodes DEF LinkInv, TypeOK
  <2> QED BY <1>3, <1>6, <2>2, NextOf, KnownNodes
<1>12. HalfWay'
  <2>1. next'[prev[x]] = next'[x]
    BY <1>1, <1>5 DEF LinkInv, TypeOK
  <2> QED BY <1>1, <1>2, <1>3, <2>1 DEF HalfWay, Adding, Removing
<1> QED BY <1>3, <1>8, <1>9, <1>10, <1>11, <1>12 DEF LinkInv

\* The last store of list_remove takes the element out of the list; its own links stay.
LEMMA Unlink2Step ==
    ASSUME LinkInv, WalkTypes, NEW x \in Elems, ahead' = ahead, Unlink2(x)
    PROVE  LinkInv' /\ Known' = Known
<1>1. /\ pc[x] = "unlink2" /\ prev' = [prev EXCEPT ![next[x]] = prev[x]] /\ next' = next
      /\ before' = before /\ busy' = Null
      /\ pc' = [pc EXCEPT ![x] = "gone"] /\ pc'[x] = "gone"
      /\ \A y \in Elems : y # x => pc'[y] = pc[y]
  BY DEF Unlink2, Kept, Goto, LinkInv, TypeOK
<1>2. busy = x /\ \A y \in Elems : y # x => pc[y] \notin Adding \union Removing
  BY <1>1, OnlyOneBusy DEF LinkInv, Removing
<1>3. Present(x) /\ x \in Known /\ x \in Nodes /\ x # Head_ /\ x # Tail_ /\ Ordered
  BY <1>1, KnownNodes, NodeNames DEF LinkInv
<1>4. PICK p \in Nodes : p = prev[x] /\ Neighbours(p, x)
  BY <1>3, PrevOf
<1>5. /\ Present(p) /\ <<p, x>> \in ahead /\ p # x /\ p \in Known
      /\ \A k \in Nodes : Present(k) => ~(<<p, k>> \in ahead /\ <<k, x>> \in ahead)
  BY <1>3, <1>4, OneWay DEF Neighbours
<1>6. \A n \in Nodes : Torn(n) => n = p
  BY <1>1, <1>2, <1>4 DEF Torn, Adding, Removing
<1>7. PICK s \in Nodes : s = next[x] /\ Neighbours(x, s) /\ LeadsOn(x, s)
  BY <1>3, <1>5, <1>6, NextOf
<1>8. /\ Present(s) /\ <<x, s>> \in ahead /\ s # x /\ s # Head_ /\ s \in Known
      /\ \A k \in Nodes : Present(k) => ~(<<x, k>> \in ahead /\ <<k, s>> \in ahead)
  BY <1>3, <1>7, OneWay DEF Neighbours
<1>9. \A n \in Nodes : Present(n)' <=> Present(n) /\ n # x
  BY <1>1, <1>3, NodeNames DEF Present
<1>10. Known' = Known
  <2>1. \A y \in Elems : y # x => (pc'[y] = "gone" <=> pc[y] = "gone")
    BY <1>1
  <2> QED BY <1>1, <1>3, <1>9, <2>1 DEF Known
<1>11. Ordered'
  BY <1>3, <1>10 DEF Ordered
<1>12. Neighbours(p, s)' /\ LeadsOn(p, s)'
  <2>1. <<p, s>> \in ahead
    BY <1>3, <1>5, <1>8 DEF Ordered
  <2>2. NoneBetween(p, s)'
    <3> SUFFICES ASSUME NEW k \in Nodes, Present(k), k # x, <<p, k>> \in ahead, <<k, s>> \in ahead
                 PROVE  FALSE
      BY <1>9 DEF NoneBetween
    <3>1. <<k, x>> \in ahead \/ <<x, k>> \in ahead
      BY <1>3, KnownNodes DEF Ordered
    <3> QED BY <1>5, <1>8, <3>1
  <2>3. Present(p)' /\ Present(s)' /\ s \in Known'
    BY <1>5, <1>8, <1>9, <1>10
  <2> QED BY <2>1, <2>2, <2>3 DEF Neighbours, LeadsOn, NoneBetween
<1>13. TypeOK'
  BY <1>1, <1>4, <1>7, NodeNames DEF LinkInv, TypeOK, WalkTypes, walkVars, Stages
<1>14. OneCall'
  BY <1>1, <1>2, NodeNames DEF OneCall, Adding, Removing
<1>15. PrevLinks'
  <2> SUFFICES ASSUME NEW n \in Nodes \ {Head_}, Present(n)'
               PROVE  \E m \in Nodes : prev'[n] = m /\ Neighbours(m, n)'
    BY DEF PrevLinks
  <2>1. CASE n = s
    BY <1>1, <1>4, <1>7, <1>12, <2>1 DEF LinkInv, TypeOK
  <2>2. CASE n # s
    <3>1. PICK m \in Nodes : prev[n] = m /\ Neighbours(m, n)
      BY <1>9, PrevOf
    <3>2. prev'[n] = m
      BY <1>1, <1>7, <2>2, <3>1 DEF LinkInv, TypeOK
    <3>3. m # x
      BY <1>3, <1>7, <2>2, <3>1, OnlyOneBehind
    <3> QED BY <1>9, <3>1, <3>2, <3>3 DEF Neighbours
  <2> QED BY <2>1, <2>2
<1>16. NextLinks'
  <2> SUFFICES ASSUME NEW n \in Known \ {Tail_}
               PROVE  \E m \in Nodes : next[n] = m /\ LeadsOn(n, m)'
    BY <1>1, <1>10 DEF NextLinks
  <2>1. CASE n = p
    <3>1. next[p] = s
      BY <1>1, <1>4, <1>7 DEF LinkInv, HalfWay
    <3> QED BY <1>12, <2>1, <3>1
  <2>2. CASE n # p
    <3>1. n \in Nodes /\ ~Torn(n)
      BY <1>6, <2>2, KnownNodes
    <3>2. PICK m \in Nodes : /\ next[n] = m /\ LeadsOn(n, m)
                             /\ Present(n) => Neighbours(n, m)
      BY <3>1, NextOf
    <3>3. Present(n) => m # x
      BY <1>3, <1>4, <2>2, <3>1, <3>2, OnlyOneAhead
    <3> QED BY <1>9, <1>10, <3>1, <3>2, <3>3 DEF LeadsOn, NoneBetween
  <2> QED BY <2>1, <2>2
<1>17. HalfWay'
  BY <1>1, <1>2 DEF HalfWay, Adding, Removing
<1> QED BY <1>10, <1>11, <1>13, <1>14, <1>15, <1>16, <1>17 DEF LinkInv

-------------------------------------------------------------------------------
(* The walk.                                                                 *)

\* A change of links does not put the walk off its way.
LEMMA StayOnTheWay ==
    ASSUME IInv, UNCHANGED walkVars, Known \subseteq Known', ahead \subseteq ahead',
           stays' = (stays /\ pc'[goal] = "in")
    PROVE  OnTheWay'
<1> QED BY DEF IInv, OnTheWay, walkVars

LEMMA SameLinks ==
    ASSUME LinkInv, UNCHANGED <<linkVars, ahead>>, TypeOK'
    PROVE  LinkInv'
<1>1. UNCHANGED <<next, prev, pc, before, busy, ahead>>
  BY DEF linkVars
<1>2. /\ Known' = Known
      /\ \A n \in Nodes : (Present(n)' <=> Present(n)) /\ (Torn(n)' <=> Torn(n))
  BY <1>1 DEF Known, Present, Torn
<1>3. \A m, n \in Nodes : /\ Neighbours(m, n)' <=> Neighbours(m, n)
                          /\ LeadsOn(m, n)' <=> LeadsOn(m, n)
  BY <1>1, <1>2 DEF Neighbours, LeadsOn, NoneBetween
<1>4. OneCall' /\ Ordered'
  BY <1>1, <1>2 DEF LinkInv, OneCall, Ordered
<1>5. PrevLinks'
  BY <1>1, <1>2, <1>3 DEF LinkInv, PrevLinks
<1>6. NextLinks'
  BY <1>1, <1>2, <1>3, KnownNodes DEF LinkInv, NextLinks
<1>7. HalfWay'
  BY <1>1 DEF LinkInv, HalfWay, Present
<1> QED BY <1>4, <1>5, <1>6, <1>7 DEF LinkInv

LEMMA StartWalkStep == ASSUME IInv, StartWalk PROVE IInv'
<1>1. PICK x \in Elems : goal' = x /\ stays' = (pc[x] = "in")
  BY DEF StartWalk, Listed
<1>2. /\ busy = Null /\ at' = next[Head_] /\ UNCHANGED <<next, prev, pc, before, busy, ahead>>
  BY DEF StartWalk, linkVars
<1>3. Head_ \in Known /\ Head_ # Tail_ /\ Head_ \in Nodes /\ Present(Head_) /\ ~Torn(Head_)
  BY <1>2, Idle, NodeNames, KnownNodes DEF IInv
<1>4. /\ at' \in Known /\ at' \in Nodes /\ at' # Head_ /\ <<Head_, at'>> \in ahead
      /\ NoneBetween(Head_, at')
  BY <1>2, <1>3, NextOf DEF IInv, LeadsOn
<1>5. at' # Null /\ at' \in Elems \union {Tail_}
  BY <1>4, NodeNames
<1>6. LinkInv'
  <2>1. TypeOK'
    BY <1>1, <1>2, <1>5 DEF IInv, LinkInv, TypeOK
  <2> QED BY <1>2, <2>1, SameLinks DEF IInv, linkVars
<1>7. Known' = Known
  BY <1>2 DEF Known, Present
<1>8. ASSUME stays' PROVE at' = goal' \/ <<at', goal'>> \in ahead
  <2>1. Present(x) /\ x \in Known /\ x \in Nodes /\ x # Head_
    BY <1>1, <1>8, KnownNodes, NodeNames
  <2>2. <<Head_, x>> \in ahead
    BY <2>1 DEF IInv, LinkInv, Ordered
  <2>3. <<x, at'>> \notin ahead
    BY <1>4, <2>1, <2>2 DEF NoneBetween
  <2> QED BY <1>1, <1>4, <2>1, <2>3 DEF IInv, LinkInv, Ordered
<1> QED BY <1>1, <1>2, <1>4, <1>5, <1>6, <1>7, <1>8 DEF IInv, OnTheWay

LEMMA WalkOnStep == ASSUME IInv, WalkOn PROVE IInv' /\ (at' = Null => at = goal \/ ~stays)
<1>1. /\ busy = Null /\ at # Null /\ UNCHANGED <<next, prev, pc, before, busy, goal, ahead>>
      /\ \/ (at = Tail_ \/ at = goal) /\ at' = Null /\ stays' = FALSE
         \/ at # Tail_ /\ at # goal /\ at' = next[at] /\ stays' = stays
  BY DEF WalkOn, linkVars
<1>2. at \in Known /\ at \in Nodes /\ at # Head_ /\ goal \in Elems /\ goal \in Nodes /\ Ordered
  BY <1>1, KnownNodes, NodeNames DEF IInv, OnTheWay, LinkInv, TypeOK
<1>3. at = Tail_ => at = goal \/ ~stays
  BY <1>2, OneWay DEF IInv, OnTheWay
<1>4. ASSUME at # Tail_, at # goal, at' = next[at], stays' = stays
      PROVE  /\ at' \in Known \ {Head_} /\ at' \in Elems \union {Tail_} /\ at' # Null
             /\ stays => at' = goal \/ <<at', goal>> \in ahead
  <2>1. ~Torn(at)
    BY <1>1, <1>2, Idle DEF IInv
  <2>2. at' \in Known /\ at' \in Nodes /\ at' # Head_ /\ NoneBetween(at, at')
    BY <1>2, <1>4, <2>1, NextOf DEF IInv, LeadsOn
  <2>3. ASSUME stays PROVE at' = goal \/ <<at', goal>> \in ahead
    <3>1. <<at, goal>> \in ahead /\ Present(goal) /\ goal \in Known
      BY <1>2, <1>4, <2>3, KnownNodes DEF IInv, OnTheWay
    <3>2. <<goal, at'>> \notin ahead
      BY <1>2, <2>2, <3>1 DEF NoneBetween
    <3> QED BY <1>2, <2>2, <3>1, <3>2 DEF Ordered
  <2> QED BY <2>2, <2>3, NodeNames
<1>5. LinkInv'
  <2>1. TypeOK'
    BY <1>1, <1>4 DEF IInv, LinkInv, TypeOK
  <2> QED BY <1>1, <2>1, SameLinks DEF IInv, linkVars
<1>6. Known' = Known
  BY <1>1 DEF Known, Present
<1>7. OnTheWay'
  <2>1. CASE at' = Null /\ stays' = FALSE
    BY <2>1 DEF OnTheWay
  <2>2. CASE at # Tail_ /\ at # goal /\ at' = next[at] /\ stays' = stays
    BY <1>1, <1>4, <1>6, <2>2 DEF IInv, OnTheWay
  <2> QED BY <1>1, <2>1, <2>2
<1> QED BY <1>1, <1>3, <1>4, <1>5, <1>7 DEF IInv

-------------------------------------------------------------------------------
(* The invariant.                                                            *)

LEMMA InitIInv == Init => IInv
<1> SUFFICES ASSUME Init PROVE IInv
  OBVIOUS
<1>1. /\ \A n \in Nodes : Present(n) <=> n \in {Head_, Tail_}
      /\ Known = {Head_, Tail_} /\ \A n \in Nodes : ~Torn(n)
      /\ ahead = {<<Head_, Tail_>>}
  BY NodeNames DEF Init, Present, Known, Torn, Adding
<1>2. prev[Tail_] = Head_ /\ next[Head_] = Tail_
  BY NodeNames DEF Init
<1>3. TypeOK /\ OneCall /\ HalfWay /\ OnTheWay
  BY NodeNames DEF Init, TypeOK, Stages, OneCall, HalfWay, OnTheWay, Adding, Removing
<1>4. Ordered
  BY <1>1, NodeNames DEF Ordered
<1>5. Neighbours(Head_, Tail_) /\ LeadsOn(Head_, Tail_)
  BY <1>1, NodeNames DEF Neighbours, LeadsOn, NoneBetween
<1>6. PrevLinks /\ NextLinks
  BY <1>1, <1>2, <1>5, NodeNames DEF PrevLinks, NextLinks
<1> QED BY <1>3, <1>4, <1>6 DEF IInv, LinkInv

\* list_pop takes the first element, which is one, not the tail.
LEMMA PopIsRemove == ASSUME LinkInv, ListPop PROVE \E x \in Elems : ListRemove(x)
<1>1. busy = Null /\ next[Head_] # Tail_ /\ ListRemove(next[Head_])
  BY DEF ListPop, ListEmpty
<1>2. next[Head_] \in Nodes /\ next[Head_] # Head_
  BY <1>1, Idle, NextOf, NodeNames, KnownNodes
<1> QED BY <1>1, <1>2, NodeNames

LEMMA KnownGrows ==
    ASSUME LinkInv, NEW x \in Elems, pc' = [pc EXCEPT ![x] = pc'[x]],
           pc[x] \in {"in", "unlink1", "unlink2", "gone"} =>
               pc'[x] \in {"in", "unlink1", "unlink2", "gone"}
    PROVE  Known \subseteq Known'
<1>1. \A y \in Elems : y # x => pc'[y] = pc[y]
  BY DEF LinkInv, TypeOK
<1>2. ASSUME NEW n \in Known PROVE n \in Known'
  BY <1>1, <1>2, NodeNames DEF Known, Present
<1> QED BY <1>2

\* One store of an operation, or its start.
LEMMA ChangeStep ==
    ASSUME LinkInv, WalkTypes, NEW x \in Elems,
           \/ /\ \/ ListPush(x) \/ ListAppend(x) \/ ListRemove(x)
                 \/ Link1(x) \/ Link2(x) \/ Link3(x) \/ Unlink1(x) \/ Unlink2(x)
              /\ ahead' = ahead
           \/ Link4(x) /\ ahead' = Behind(x, prev[x])
    PROVE  LinkInv' /\ Known \subseteq Known' /\ ahead \subseteq ahead'
<1>0. pc \in [Elems -> Stages]
  BY DEF LinkInv, TypeOK
<1>1. CASE (ListPush(x) \/ ListAppend(x) \/ ListRemove(x)) /\ ahead' = ahead
  <2>1. /\ pc' = [pc EXCEPT ![x] = pc'[x]]
        /\ pc[x] = "out" \/ pc'[x] = "unlink1"
    BY <1>0, <1>1 DEF ListPush, ListAppend, ListRemove, Insert, Goto
  <2> QED BY <1>1, <2>1, StartStep, KnownGrows
<1>2. CASE (Link1(x) \/ Link2(x) \/ Link3(x)) /\ ahead' = ahead
  <2>1. pc' = [pc EXCEPT ![x] = pc'[x]] /\ pc[x] \in Adding
    BY <1>0, <1>2 DEF Link1, Link2, Link3, Goto, Adding
  <2>2. Known \subseteq Known'
    BY <2>1, KnownGrows DEF Adding
  <2> QED BY <1>2, <2>2, Link1Step, OwnLinksStep
<1>3. CASE Unlink1(x) /\ ahead' = ahead
  <2>1. pc' = [pc EXCEPT ![x] = pc'[x]] /\ pc'[x] = "unlink2"
    BY <1>0, <1>3 DEF Unlink1, Goto
  <2> QED BY <1>3, <2>1, Unlink1Step, KnownGrows
<1>4. CASE Unlink2(x) /\ ahead' = ahead
  BY <1>4, Unlink2Step
<1>5. CASE Link4(x) /\ ahead' = Behind(x, prev[x])
  BY <1>5, Link4Step
<1> QED BY <1>1, <1>2, <1>3, <1>4, <1>5

LEMMA StepIInv == IInv /\ [Next]_vars => IInv'
<1> SUFFICES ASSUME IInv, [Next]_vars PROVE IInv'
  OBVIOUS
<1>1. CASE /\ \/ Change /\ UNCHANGED ahead
              \/ \E x \in Elems : Link4(x) /\ ahead' = Behind(x, prev[x])
           /\ stays' = (stays /\ pc'[goal] = "in")
           /\ UNCHANGED walkVars
  <2>1. WalkTypes /\ LinkInv
    BY <1>1 DEF WalkTypes, IInv
  <2>2. PICK x \in Elems :
          \/ /\ \/ ListPush(x) \/ ListAppend(x) \/ ListRemove(x)
                \/ Link1(x) \/ Link2(x) \/ Link3(x) \/ Unlink1(x) \/ Unlink2(x)
             /\ ahead' = ahead
          \/ Link4(x) /\ ahead' = Behind(x, prev[x])
    BY <1>1, <2>1, PopIsRemove DEF Change
  <2>3. LinkInv' /\ Known \subseteq Known' /\ ahead \subseteq ahead'
    BY <2>1, <2>2, ChangeStep
  <2> QED BY <1>1, <2>3, StayOnTheWay DEF IInv
<1>2. CASE StartWalk
  BY <1>2, StartWalkStep
<1>3. CASE WalkOn
  BY <1>3, WalkOnStep
<1>4. CASE UNCHANGED vars
  <2>1. UNCHANGED <<linkVars, ahead>> /\ UNCHANGED <<pc, at, goal, stays, ahead>>
    BY <1>4 DEF vars, linkVars, walkVars
  <2>2. TypeOK'
    BY <1>4 DEF IInv, LinkInv, TypeOK, vars, linkVars, walkVars
  <2>3. Known' = Known
    BY <2>1 DEF Known, Present
  <2> QED BY <2>1, <2>2, <2>3, SameLinks DEF IInv, OnTheWay
<1> QED BY <1>1, <1>2, <1>3, <1>4 DEF Next

LEMMA Inductive == Spec => []IInv
<1> QED BY InitIInv, StepIInv, PTL DEF Spec

-------------------------------------------------------------------------------

\* Every link leads to a node of the list or is not set, whatever is under way; the
\* walk never stands on the head.
THEOREM TypeCorrect == Spec => []TypeOK
<1>1. IInv => TypeOK
  BY DEF IInv, LinkInv
<1> QED BY <1>1, Inductive, PTL

\* Between the operations of list.c the next links and the prev links give the same
\* list, from head to tail: each node that is in it is linked both ways to those beside it.
THEOREM BothDirections == Spec => []LinksAgree
<1>1. ASSUME IInv, busy = Null, NEW m \in Nodes, NEW n \in Nodes, Neighbours(m, n)
      PROVE  next[m] = n /\ prev[n] = m
  <2>1. Present(m) /\ Present(n) /\ <<m, n>> \in ahead /\ Ordered /\ LinkInv
    BY <1>1 DEF Neighbours, IInv, LinkInv
  <2>2. m # Tail_ /\ n # Head_ /\ m \in Known /\ n \in Known
    BY <2>1, OneWay
  <2>3. prev[n] = m
    <3>1. prev[n] \in Nodes /\ Neighbours(prev[n], n)
      BY <2>1, <2>2, PrevOf
    <3> QED BY <1>1, <2>1, <3>1, OnlyOneAhead
  <2>4. next[m] = n
    <3>1. ~Torn(m)
      BY <1>1, <2>1, Idle
    <3>2. next[m] \in Nodes /\ LeadsOn(m, next[m])
      BY <2>1, <2>2, <3>1, NextOf
    <3> QED BY <1>1, <2>1, <3>2, OnlyOneBehind
  <2> QED BY <2>3, <2>4
<1>2. IInv => LinksAgree
  BY <1>1 DEF LinksAgree
<1> QED BY <1>2, Inductive, PTL

\* tid2task's walk, which ticks interrupt and other tasks remove and insert under, never
\* ends without the task it looks for if that one was listed all the time.
THEOREM WalkFindsGoal == Spec => WalkFinds
<1>1. IInv /\ [Next]_vars => [at # Null /\ at' = Null => at = goal \/ ~stays]_vars
  <2> SUFFICES ASSUME IInv, Next, at # Null, at' = Null PROVE at = goal \/ ~stays
    BY DEF vars
  <2>1. CASE UNCHANGED walkVars
    BY <2>1 DEF walkVars
  <2>2. CASE StartWalk
    BY <2>2 DEF StartWalk
  <2>3. CASE WalkOn
    BY <2>3, WalkOnStep
  <2> QED BY <2>1, <2>2, <2>3 DEF Next
<1> QED BY <1>1, Inductive, PTL DEF Spec, WalkFinds

\* list_append puts an element behind all that are in the list, list_push ahead of them,
\* and what has its place in the order keeps it.
AtTheEnds ==
    [][/\ ahead \subseteq ahead'
       /\ \A x \in Elems : pc[x] = "link4" /\ pc'[x] = "in" =>
            IF before = Tail_
            THEN \A n \in Nodes : Present(n) /\ n # Tail_ => <<n, x>> \in ahead'
            ELSE \A n \in Nodes : Present(n) /\ n # Head_ => <<x, n>> \in ahead']_vars

THEOREM PutAtTheEnds == Spec => AtTheEnds
<1>1. ASSUME LinkInv, NEW x \in Elems, Link4(x), ahead' = Behind(x, prev[x])
      PROVE  IF before = Tail_
             THEN \A n \in Nodes : Present(n) /\ n # Tail_ => <<n, x>> \in ahead'
             ELSE \A n \in Nodes : Present(n) /\ n # Head_ => <<x, n>> \in ahead'
  <2>1. PICK b \in Nodes : b = before
    BY <1>1 DEF LinkInv, TypeOK
  <2>2. /\ b # Head_ /\ Present(b) /\ prev[x] = prev[b]
        /\ b = Tail_ \/ prev[b] = Head_
    BY <1>1, <2>1 DEF Link4, LinkInv, HalfWay, Adding
  <2>3. PICK p \in Nodes : p = prev[b] /\ Neighbours(p, b)
    BY <1>1, <2>2, PrevOf
  <2>4. ahead' = Behind(x, p) /\ Ordered
    BY <1>1, <2>2, <2>3 DEF LinkInv
  <2>5. ASSUME b = Tail_, NEW n \in Nodes, Present(n), n # Tail_ PROVE <<n, x>> \in ahead'
    <3>1. <<n, b>> \in ahead /\ n \in Known /\ p \in Known
      BY <2>3, <2>4, <2>5, KnownNodes, OneWay DEF Ordered, Neighbours
    <3>2. <<p, n>> \notin ahead
      BY <2>3, <2>5, <3>1 DEF Neighbours
    <3>3. n = p \/ <<n, p>> \in ahead
      BY <2>4, <3>1, <3>2 DEF Ordered
    <3> QED BY <2>4, <3>3 DEF Behind
  <2>6. ASSUME p = Head_, NEW n \in Nodes, Present(n), n # Head_ PROVE <<x, n>> \in ahead'
    <3>1. <<p, n>> \in ahead
      BY <2>4, <2>6, KnownNodes DEF Ordered
    <3> QED BY <2>4, <3>1 DEF Behind
  <2> QED BY <2>1, <2>2, <2>3, <2>5, <2>6
<1>2. ASSUME IInv, Next PROVE ahead \subseteq ahead'
  <2>1. CASE /\ \/ Change /\ UNCHANGED ahead
                \/ \E x \in Elems : Link4(x) /\ ahead' = Behind(x, prev[x])
    BY <2>1 DEF Behind
  <2>2. CASE StartWalk \/ WalkOn
    BY <2>2 DEF StartWalk, WalkOn
  <2> QED BY <1>2, <2>1, <2>2 DEF Next
<1>3. ASSUME IInv, Next, NEW x \in Elems, pc[x] = "link4", pc'[x] = "in"
      PROVE  Link4(x) /\ ahead' = Behind(x, prev[x])
  <2>0. LinkInv /\ pc \in [Elems -> Stages]
    BY <1>3 DEF IInv, LinkInv, TypeOK
  <2>1. ~(StartWalk \/ WalkOn)
    BY <1>3 DEF StartWalk, WalkOn, linkVars
  <2>2. ~Change
    <3>1. ASSUME NEW y \in Elems,
                 \/ ListPush(y) \/ ListAppend(y) \/ ListRemove(y)
                 \/ Link1(y) \/ Link2(y) \/ Link3(y) \/ Unlink1(y) \/ Unlink2(y)
          PROVE  FALSE
      <4>1. pc' = [pc EXCEPT ![y] = pc'[y]] /\ pc'[y] # "in"
        BY <2>0, <3>1 DEF ListPush, ListAppend, ListRemove, Insert, Link1, Link2, Link3,
              Unlink1, Unlink2, Goto
      <4> QED BY <1>3, <2>0, <4>1
    <3> QED BY <2>0, <3>1, PopIsRemove DEF Change
  <2>3. PICK y \in Elems : Link4(y) /\ ahead' = Behind(y, prev[y])
    BY <1>3, <2>1, <2>2 DEF Next
  <2>4. y = x
    BY <1>3, <2>0, <2>3 DEF Link4, Goto
  <2> QED BY <2>3, <2>4
<1> DEFINE Ends ==
      /\ ahead \subseteq ahead'
      /\ \A x \in Elems : pc[x] = "link4" /\ pc'[x] = "in" =>
           IF before = Tail_
           THEN \A n \in Nodes : Present(n) /\ n # Tail_ => <<n, x>> \in ahead'
           ELSE \A n \in Nodes : Present(n) /\ n # Head_ => <<x, n>> \in ahead'
<1>4. IInv /\ [Next]_vars => [Ends]_vars
  BY <1>1, <1>2, <1>3 DEF IInv, vars
<1> QED BY <1>4, Inductive, PTL DEF Spec, AtTheEnds
-------------------------------------------------------------------------------
(* The list as a sequence.                                                   *)

\* The prev links lead from the tail through s, last to first, to the head.
IsChain(links, s) ==
    /\ s \in Seq(Elems)
    /\ \A i, j \in 1..Len(s) : s[i] = s[j] => i = j
    /\ links[Tail_] = IF Len(s) = 0 THEN Head_ ELSE s[Len(s)]
    /\ \A i \in 1..Len(s) : links[s[i]] = IF i = 1 THEN Head_ ELSE s[i - 1]

\* The k-th node from the tail on, of a list whose elements are s.
FromTail(s, k) ==
    IF k = 0 THEN Tail_ ELSE IF k <= Len(s) THEN s[Len(s) + 1 - k] ELSE Head_

\* A set of numbers has a least element.
LEMMA Least ==
    ASSUME NEW T, T \subseteq Nat, T # {}
    PROVE  \E x \in T : \A y \in T : x <= y
<1>1. IsWellFoundedOn(OpToRel(<, Nat), Nat)
  BY NatLessThanWellFounded
<1>2. PICK x \in T : \A y \in T : ~(<<y, x>> \in OpToRel(<, Nat))
  BY <1>1, WFMin
<1>3. \A y \in T : ~(y < x)
  BY <1>2 DEF OpToRel
<1> QED BY <1>3

\* NodesBack comes by the nodes of the chain.
LEMMA BackThrough ==
    ASSUME NEW links, NEW s, IsChain(links, s)
    PROVE  \A k \in 0..Cardinality(Elems) : NodesBack(links)[k] = FromTail(s, k)
<1> DEFINE N == Cardinality(Elems)
           Eq(f) == f = [k \in 0..N |-> IF k = 0 THEN Tail_ ELSE Before(links, f[k - 1])]
<1>1. N \in Nat /\ Len(s) \in Nat /\ \A i \in 1..Len(s) : s[i] \in Elems
  BY ListAssumption, FS_CardinalityType DEF IsChain
<1>2. ASSUME NEW k \in 1..N PROVE FromTail(s, k) = Before(links, FromTail(s, k - 1))
  <2>1. CASE k = 1
    BY <1>1, <2>1, ListAssumption DEF FromTail, Before, IsChain
  <2>2. CASE k > 1 /\ k - 1 <= Len(s)
    <3>1. PICK i \in 1..Len(s) : i = Len(s) + 2 - k
      BY <1>1, <2>2
    <3>2. FromTail(s, k - 1) = s[i] /\ FromTail(s, k) = IF i = 1 THEN Head_ ELSE s[i - 1]
      BY <1>1, <2>2, <3>1 DEF FromTail
    <3>3. Before(links, s[i]) = links[s[i]]
      BY <1>1, ListAssumption DEF Before
    <3> QED BY <3>2, <3>3 DEF IsChain
  <2>3. CASE k - 1 > Len(s)
    BY <1>1, <2>3 DEF FromTail, Before
  <2> QED BY <1>1, <2>1, <2>2, <2>3
<1> HIDE DEF N
<1>3. Eq([k \in 0..N |-> FromTail(s, k)])
  <2>1. \A k \in 0..N : FromTail(s, k) =
            IF k = 0 THEN Tail_ ELSE Before(links, [j \in 0..N |-> FromTail(s, j)][k - 1])
    <3> SUFFICES ASSUME NEW k \in 0..N, k # 0
                 PROVE  FromTail(s, k) = Before(links, [j \in 0..N |-> FromTail(s, j)][k - 1])
      BY DEF FromTail
    <3>1. k \in 1..N /\ k - 1 \in 0..N
      BY <1>1
    <3> QED BY <1>2, <3>1
  <2> QED BY <2>1
<1>4. Eq(NodesBack(links))
  BY <1>3 DEF NodesBack, N
<1> DEFINE node == NodesBack(links)
           Wrong == {k \in 0..N : node[k] # FromTail(s, k)}
<1>5. Wrong = {}
  <2> SUFFICES ASSUME Wrong # {} PROVE FALSE
    OBVIOUS
  <2>0. Wrong \subseteq Nat
    OBVIOUS
  <2>1. PICK m \in Wrong : \A k \in Wrong : m <= k
    <3> HIDE DEF Wrong
    <3> QED BY <2>0, Least
  <2>2. m \in 0..N /\ node[m] # FromTail(s, m)
    OBVIOUS
  <2> HIDE DEF Wrong, node
  <2>3. node[m] = IF m = 0 THEN Tail_ ELSE Before(links, node[m - 1])
    BY <1>4, <2>2 DEF node
  <2>4. m # 0
    BY <2>2, <2>3 DEF FromTail
  <2>5. m \in 1..N /\ m - 1 \in 0..N /\ m - 1 < m
    BY <1>1, <2>2, <2>4
  <2>6. node[m - 1] = FromTail(s, m - 1)
    BY <2>1, <2>5 DEF Wrong
  <2> QED BY <1>2, <2>2, <2>3, <2>4, <2>5, <2>6
<1> QED BY <1>5 DEF N

\* A chain has no more elements than there are.
LEMMA ChainIsShort ==
    ASSUME NEW links, NEW s, IsChain(links, s)
    PROVE  Len(s) \in 0..Cardinality(Elems) /\ Cardinality(1..Len(s)) = Len(s)
<1>1. Len(s) \in Nat /\ s \in [1..Len(s) -> Elems]
  BY DEF IsChain
<1>2. s \in Injection(1..Len(s), Elems)
  BY <1>1 DEF IsChain, Injection, IsInjective
<1>3. Cardinality(1..Len(s)) <= Cardinality(Elems)
  BY <1>2, FS_Injection, ListAssumption
<1>4. Cardinality(1..Len(s)) = Len(s)
  BY <1>1, FS_Interval
<1> QED BY <1>1, <1>3, <1>4, FS_CardinalityType, ListAssumption

\* Linked reads the elements of the chain off the links.
LEMMA LinkedIs ==
    ASSUME NEW links, NEW s, IsChain(links, s)
    PROVE  Linked(links) = s
<1> DEFINE N == Cardinality(Elems)
           node == NodesBack(links)
           found == {k \in 1..N : node[k] \in Elems}
<1>1. /\ N \in Nat /\ Len(s) \in 0..N /\ Len(s) \in Nat
      /\ s \in Seq(Elems) /\ \A i \in 1..Len(s) : s[i] \in Elems
  BY ListAssumption, FS_CardinalityType, ChainIsShort DEF IsChain
<1>2. \A k \in 0..N : node[k] = FromTail(s, k)
  BY BackThrough
<1>3. Linked(links) = [i \in 1..Cardinality(found) |-> node[Cardinality(found) + 1 - i]]
  BY DEF Linked
<1> HIDE DEF N, node
<1>4. found = 1..Len(s)
  <2>1. ASSUME NEW k \in 1..N PROVE node[k] \in Elems <=> k <= Len(s)
    <3>1. node[k] = IF k <= Len(s) THEN s[Len(s) + 1 - k] ELSE Head_
      BY <1>1, <1>2 DEF FromTail
    <3> QED BY <1>1, <3>1, ListAssumption
  <2> QED BY <1>1, <2>1
<1>5. Cardinality(found) = Len(s)
  <2>1. Cardinality(1..Len(s)) = Len(s)
    BY ChainIsShort
  <2> QED BY <1>4, <2>1
<1> HIDE DEF found
<1>6. Linked(links) = [i \in 1..Len(s) |-> node[Len(s) + 1 - i]]
  BY <1>3, <1>5
<1>7. ASSUME NEW i \in 1..Len(s) PROVE node[Len(s) + 1 - i] = s[i]
  <2>1. Len(s) + 1 - i \in 0..N /\ Len(s) + 1 - i # 0 /\ Len(s) + 1 - i <= Len(s)
        /\ Len(s) + 1 - (Len(s) + 1 - i) = i
    BY <1>1
  <2> QED BY <1>2, <2>1 DEF FromTail
<1>8. s = [i \in 1..Len(s) |-> s[i]]
  BY <1>1
<1> QED BY <1>6, <1>7, <1>8
\* A store to the prev link of a node that is neither in the chain nor the tail.
LEMMA ChainElsewhere ==
    ASSUME NEW links, NEW s, IsChain(links, s), NEW later, NEW x, x # Tail_,
           \A i \in 1..Len(s) : s[i] # x,
           \A n \in Elems \union {Tail_} : n # x => later[n] = links[n]
    PROVE  IsChain(later, s)
<1>1. \A i \in 1..Len(s) : s[i] \in Elems
  BY DEF IsChain
<1> QED BY <1>1 DEF IsChain

\* list_append: x between the last node of the chain and the tail.
LEMMA ChainAppend ==
    ASSUME NEW links, NEW s, IsChain(links, s), NEW x \in Elems, NEW later,
           \A i \in 1..Len(s) : s[i] # x,
           links[x] = links[Tail_], later[Tail_] = x,
           \A n \in Elems : later[n] = links[n]
    PROVE  IsChain(later, Append(s, x)) /\ Range(Append(s, x)) = Range(s) \union {x}
<1> DEFINE t == Append(s, x)
<1>1. /\ s \in Seq(Elems) /\ Len(s) \in Nat /\ t \in Seq(Elems)
      /\ Len(t) = Len(s) + 1 /\ t[Len(s) + 1] = x
      /\ \A i \in 1..Len(s) : t[i] = s[i] /\ s[i] \in Elems
  BY AppendProperties DEF IsChain
<1> HIDE DEF t
<1>2. \A i, j \in 1..Len(t) : t[i] = t[j] => i = j
  BY <1>1 DEF IsChain
<1>3. later[Tail_] = IF Len(t) = 0 THEN Head_ ELSE t[Len(t)]
  BY <1>1
<1>4. ASSUME NEW i \in 1..Len(t) PROVE later[t[i]] = IF i = 1 THEN Head_ ELSE t[i - 1]
  <2>1. CASE i = Len(s) + 1
    <3>1. later[t[i]] = IF Len(s) = 0 THEN Head_ ELSE s[Len(s)]
      BY <1>1, <2>1 DEF IsChain
    <3> QED BY <1>1, <2>1, <3>1
  <2>2. CASE i \in 1..Len(s)
    <3>1. later[t[i]] = IF i = 1 THEN Head_ ELSE s[i - 1]
      BY <1>1, <2>2 DEF IsChain
    <3>2. i # 1 => t[i - 1] = s[i - 1]
      BY <1>1, <2>2
    <3> QED BY <3>1, <3>2
  <2> QED BY <1>1, <2>1, <2>2
<1>5. Range(t) = Range(s) \union {x}
  <2>1. ASSUME NEW y \in Range(t) PROVE y \in Range(s) \union {x}
    <3>1. PICK i \in 1..Len(t) : t[i] = y
      BY <1>1, <2>1 DEF Range
    <3> QED BY <1>1, <3>1 DEF Range
  <2>2. ASSUME NEW y \in Range(s) PROVE y \in Range(t)
    <3>1. PICK i \in 1..Len(s) : s[i] = y
      BY <1>1, <2>2 DEF Range
    <3>2. i \in 1..Len(t) /\ t[i] = y
      BY <1>1, <3>1
    <3> QED BY <1>1, <3>2 DEF Range
  <2>3. x \in Range(t)
    BY <1>1 DEF Range
  <2> QED BY <2>1, <2>2, <2>3
<1> QED BY <1>1, <1>2, <1>3, <1>4, <1>5 DEF IsChain, t

\* list_push: x between the head and the first element of the chain.
LEMMA ChainPush ==
    ASSUME NEW links, NEW s, IsChain(links, s), s # <<>>, NEW x \in Elems, NEW later,
           \A i \in 1..Len(s) : s[i] # x,
           links[x] = Head_, later[s[1]] = x,
           \A n \in Elems \union {Tail_} : n # s[1] => later[n] = links[n]
    PROVE  IsChain(later, <<x>> \o s) /\ Range(<<x>> \o s) = Range(s) \union {x}
<1> DEFINE t == <<x>> \o s
<1>0. s \in Seq(Elems) /\ Len(s) \in Nat /\ Len(s) > 0 /\ \A i \in 1..Len(s) : s[i] \in Elems
  BY EmptySeq DEF IsChain
<1>1. t \in Seq(Elems) /\ Len(t) = Len(s) + 1 /\ t[1] = x /\ \A i \in 2..Len(t) : t[i] = s[i - 1]
  <2>1. <<x>> \in Seq(Elems) /\ Len(<<x>>) = 1 /\ <<x>>[1] = x
    OBVIOUS
  <2>2. /\ t \in Seq(Elems) /\ Len(t) = 1 + Len(s)
        /\ \A i \in 1..1 + Len(s) : t[i] = IF i <= 1 THEN <<x>>[i] ELSE s[i - 1]
    BY <1>0, <2>1, ConcatProperties
  <2> HIDE DEF t
  <2> QED BY <1>0, <2>1, <2>2
<1> HIDE DEF t
<1>2. ASSUME NEW i \in 1..Len(t), NEW j \in 1..Len(t), t[i] = t[j] PROVE i = j
  <2>1. i # 1 => i - 1 \in 1..Len(s) /\ t[i] = s[i - 1]
    BY <1>0, <1>1
  <2>2. j # 1 => j - 1 \in 1..Len(s) /\ t[j] = s[j - 1]
    BY <1>0, <1>1
  <2>3. i # 1 /\ j # 1 => i - 1 = j - 1
    BY <1>2, <2>1, <2>2 DEF IsChain
  <2>4. i = 1 <=> j = 1
    BY <1>1, <1>2, <2>1, <2>2
  <2> QED BY <2>3, <2>4
<1>3. later[Tail_] = IF Len(t) = 0 THEN Head_ ELSE t[Len(t)]
  <2>1. Tail_ # s[1]
    BY <1>0, ListAssumption
  <2>2. later[Tail_] = s[Len(s)]
    BY <1>0, <2>1 DEF IsChain
  <2> QED BY <1>0, <1>1, <2>2
<1>4. ASSUME NEW i \in 1..Len(t) PROVE later[t[i]] = IF i = 1 THEN Head_ ELSE t[i - 1]
  <2>1. CASE i = 1
    <3>1. s[1] # x
      BY <1>0
    <3> QED BY <1>1, <2>1, <3>1
  <2>2. CASE i = 2
    BY <1>0, <1>1, <2>2
  <2>3. CASE i > 2
    <3>1. PICK j \in 1..Len(s) : j = i - 1 /\ j # 1
      BY <1>1, <1>0, <2>3
    <3>2. t[i] = s[j] /\ t[i - 1] = s[j - 1] /\ s[j] # s[1] /\ s[j] \in Elems
      BY <1>0, <1>1, <2>3, <3>1 DEF IsChain
    <3> QED BY <2>3, <3>1, <3>2 DEF IsChain
  <2> QED BY <2>1, <2>2, <2>3
<1>5. Range(t) = Range(s) \union {x}
  <2>1. ASSUME NEW y \in Range(t) PROVE y \in Range(s) \union {x}
    <3>1. PICK i \in 1..Len(t) : t[i] = y
      BY <1>1, <2>1 DEF Range
    <3>2. i # 1 => i - 1 \in 1..Len(s) /\ y = s[i - 1]
      BY <1>0, <1>1, <3>1
    <3> QED BY <1>0, <1>1, <3>1, <3>2 DEF Range
  <2>2. ASSUME NEW y \in Range(s) PROVE y \in Range(t)
    <3>1. PICK i \in 1..Len(s) : s[i] = y
      BY <1>0, <2>2 DEF Range
    <3>2. i + 1 \in 2..Len(t) /\ t[i + 1] = y
      BY <1>0, <1>1, <3>1
    <3> QED BY <1>0, <1>1, <3>2 DEF Range
  <2>3. x \in Range(t)
    BY <1>0, <1>1 DEF Range
  <2> QED BY <2>1, <2>2, <2>3
<1> QED BY <1>1, <1>2, <1>3, <1>4, <1>5 DEF IsChain, t

\* What RemoveAt leaves of a sequence.
LEMMA AfterRemoveAt ==
    ASSUME NEW S, NEW s \in Seq(S), NEW i \in 1..Len(s)
    PROVE  /\ RemoveAt(s, i) \in Seq(S)
           /\ Len(RemoveAt(s, i)) = Len(s) - 1
           /\ \A j \in 1..(Len(s) - 1) : RemoveAt(s, i)[j] = IF j < i THEN s[j] ELSE s[j + 1]
<1> DEFINE front == SubSeq(s, 1, i - 1)
           back == SubSeq(s, i + 1, Len(s))
<1>0. Len(s) \in Nat /\ i \in Int /\ \A j \in 1..Len(s) : s[j] \in S
  OBVIOUS
<1>1. front \in Seq(S) /\ Len(front) = i - 1 /\ \A j \in 1..(i - 1) : front[j] = s[j]
  BY <1>0, SubSeqProperties
<1>2. back \in Seq(S) /\ Len(back) = Len(s) - i /\ \A j \in 1..(Len(s) - i) : back[j] = s[i + j]
  <2>1. \A j \in (i + 1)..Len(s) : s[j] \in S
    BY <1>0
  <2>2. /\ back \in Seq(S) /\ Len(back) = IF i + 1 <= Len(s) THEN Len(s) - (i + 1) + 1 ELSE 0
        /\ \A j \in 1..(Len(s) - (i + 1) + 1) : back[j] = s[i + 1 + j - 1]
    BY <1>0, <2>1, SubSeqProperties
  <2> HIDE DEF back
  <2> QED BY <1>0, <2>2
<1> HIDE DEF front, back
<1>3. /\ front \o back \in Seq(S) /\ Len(front \o back) = Len(front) + Len(back)
      /\ \A j \in 1..Len(front) + Len(back) :
            (front \o back)[j] = IF j <= Len(front) THEN front[j] ELSE back[j - Len(front)]
  BY <1>1, <1>2, ConcatProperties
<1>4. RemoveAt(s, i) = front \o back
  BY DEF RemoveAt, front, back
<1>5. ASSUME NEW j \in 1..(Len(s) - 1)
      PROVE  RemoveAt(s, i)[j] = IF j < i THEN s[j] ELSE s[j + 1]
  <2>1. j < i => j \in 1..(i - 1) /\ j <= Len(front)
    BY <1>0, <1>1
  <2>2. ~(j < i) => j - (i - 1) \in 1..(Len(s) - i) /\ i + (j - (i - 1)) = j + 1 /\ ~(j <= Len(front))
    BY <1>0, <1>1
  <2> QED BY <1>0, <1>1, <1>2, <1>3, <1>4, <2>1, <2>2
<1>6. Len(RemoveAt(s, i)) = Len(s) - 1
  <2>1. Len(front) + Len(back) = Len(s) - 1
    BY <1>0, <1>1, <1>2
  <2> QED BY <1>3, <1>4, <2>1
<1> QED BY <1>3, <1>4, <1>5, <1>6

\* list_remove: what is behind s[i] is linked to what is ahead of it.
LEMMA ChainRemove ==
    ASSUME NEW links, NEW s, IsChain(links, s), NEW i \in 1..Len(s), NEW later,
           NEW n, n = IF i = Len(s) THEN Tail_ ELSE s[i + 1],
           later[n] = links[s[i]],
           \A m \in Elems \union {Tail_} : m # n => later[m] = links[m]
    PROVE  IsChain(later, RemoveAt(s, i)) /\ Range(RemoveAt(s, i)) = Range(s) \ {s[i]}
<1> DEFINE t == RemoveAt(s, i)
<1>0. s \in Seq(Elems) /\ Len(s) \in Nat /\ \A j \in 1..Len(s) : s[j] \in Elems
  BY DEF IsChain
<1>1. /\ t \in Seq(Elems) /\ Len(t) = Len(s) - 1
      /\ \A j \in 1..(Len(s) - 1) : t[j] = IF j < i THEN s[j] ELSE s[j + 1]
  BY <1>0, AfterRemoveAt
<1> HIDE DEF t
<1>2. ASSUME NEW j \in 1..Len(t), NEW k \in 1..Len(t), t[j] = t[k] PROVE j = k
  <2>1. \E p \in 1..Len(s) : t[j] = s[p] /\ p = IF j < i THEN j ELSE j + 1
    BY <1>0, <1>1
  <2>2. \E p \in 1..Len(s) : t[k] = s[p] /\ p = IF k < i THEN k ELSE k + 1
    BY <1>0, <1>1
  <2>3. (IF j < i THEN j ELSE j + 1) = (IF k < i THEN k ELSE k + 1)
    BY <1>2, <2>1, <2>2 DEF IsChain
  <2> QED BY <1>0, <1>1, <2>3
<1>3. later[Tail_] = IF Len(t) = 0 THEN Head_ ELSE t[Len(t)]
  <2>1. CASE i = Len(s)
    BY <1>0, <1>1, <2>1 DEF IsChain
  <2>2. CASE i # Len(s)
    <3>1. later[Tail_] = s[Len(s)]
      BY <1>0, <2>2, ListAssumption DEF IsChain
    <3>2. t[Len(t)] = s[Len(s)] /\ Len(t) # 0
      BY <1>0, <1>1, <2>2
    <3> QED BY <3>1, <3>2
  <2> QED BY <2>1, <2>2
<1>4. ASSUME NEW j \in 1..Len(t) PROVE later[t[j]] = IF j = 1 THEN Head_ ELSE t[j - 1]
  <2>1. CASE j < i
    <3>0. j \in 1..(Len(s) - 1) /\ (j # 1 => j - 1 \in 1..(Len(s) - 1) /\ j - 1 < i)
      BY <1>0, <1>1, <2>1
    <3>1. t[j] = s[j] /\ j \in 1..Len(s) /\ (j # 1 => t[j - 1] = s[j - 1])
      BY <1>0, <1>1, <2>1, <3>0
    <3>2. s[j] # n /\ s[j] \in Elems
      BY <1>0, <2>1, <3>1, ListAssumption DEF IsChain
    <3> QED BY <3>1, <3>2 DEF IsChain
  <2>2. CASE j = i
    <3>1. t[j] = s[i + 1] /\ i # Len(s) /\ t[j] = n /\ (j # 1 => t[j - 1] = s[i - 1])
      BY <1>0, <1>1, <2>2
    <3> QED BY <2>2, <3>1 DEF IsChain
  <2>3. CASE j > i
    <3>1. j + 1 \in 1..Len(s) /\ t[j] = s[j + 1] /\ j # 1 /\ t[j - 1] = s[j] /\ j + 1 # 1 /\ j + 1 - 1 = j
      BY <1>0, <1>1, <2>3
    <3>2. i # Len(s) /\ i + 1 \in 1..Len(s) /\ j + 1 # i + 1
      BY <1>0, <1>1, <2>3
    <3>3. s[j + 1] # n /\ s[j + 1] \in Elems
      BY <1>0, <3>1, <3>2 DEF IsChain
    <3>4. links[s[j + 1]] = s[j]
      BY <3>1 DEF IsChain
    <3> QED BY <3>1, <3>3, <3>4
  <2> QED BY <1>0, <1>1, <2>1, <2>2, <2>3
<1>5. Range(t) = Range(s) \ {s[i]}
  <2>1. ASSUME NEW y \in Range(t) PROVE y \in Range(s) /\ y # s[i]
    <3>1. PICK j \in 1..(Len(s) - 1) : t[j] = y
      BY <1>1, <2>1 DEF Range
    <3>2. PICK k \in 1..Len(s) : k # i /\ y = s[k]
      BY <1>0, <1>1, <3>1
    <3> QED BY <1>0, <3>2 DEF Range, IsChain
  <2>2. ASSUME NEW y \in Range(s), y # s[i] PROVE y \in Range(t)
    <3>1. PICK k \in 1..Len(s) : s[k] = y
      BY <1>0, <2>2 DEF Range
    <3>2. PICK j \in 1..(Len(s) - 1) : j = IF k < i THEN k ELSE k - 1
      BY <1>0, <2>2, <3>1
    <3>3. t[j] = y
      BY <1>0, <1>1, <2>2, <3>1, <3>2
    <3> QED BY <1>1, <3>3 DEF Range
  <2> QED BY <2>1, <2>2
<1> QED BY <1>1, <1>2, <1>3, <1>4, <1>5 DEF IsChain, t
\* The elements of the list, in the order of the prev links.
IsList(s) ==
    /\ IsChain(prev, s)
    /\ \A x \in Elems : Present(x) <=> x \in Range(s)

HasList == \E s \in Seq(Elems) : IsList(s)

LEMMA ItemsAre == ASSUME NEW s, IsList(s) PROVE Items = s
<1> QED BY LinkedIs DEF IsList, Items

\* A step that changes no link of what is in the list.
LEMMA KeepsList ==
    ASSUME NEW s, IsList(s),
           \A x \in Elems : Present(x)' <=> Present(x),
           \A n \in Elems \union {Tail_} : n = Tail_ \/ Present(n) => prev'[n] = prev[n]
    PROVE  IsList(s)'
<1>1. s \in Seq(Elems) /\ \A i \in 1..Len(s) : s[i] \in Elems /\ s[i] \in Range(s)
  BY DEF IsList, IsChain, Range
<1>2. \A i \in 1..Len(s) : prev'[s[i]] = prev[s[i]]
  BY <1>1 DEF IsList
<1>3. prev'[Tail_] = prev[Tail_]
  OBVIOUS
<1> QED BY <1>2, <1>3 DEF IsList, IsChain

\* Only the last stores of the operations change the list.
LEMMA EarlierStores ==
    ASSUME LinkInv, NEW s, IsList(s), ahead' = ahead, NEW x \in Elems,
           \/ ListPush(x) \/ ListAppend(x) \/ ListRemove(x)
           \/ Link1(x) \/ Link2(x) \/ Link3(x) \/ Unlink1(x)
    PROVE  IsList(s)'
<1>0. pc \in [Elems -> Stages] /\ prev \in [Nodes -> Nodes \union {Null}]
  BY DEF LinkInv, TypeOK
<1>1. /\ pc' = [pc EXCEPT ![x] = pc'[x]]
      /\ \/ pc[x] \in Adding \union {"out"} /\ pc'[x] \in Adding
         \/ pc[x] \in {"in", "unlink1"} /\ pc'[x] \in Removing
  BY <1>0 DEF ListPush, ListAppend, ListRemove, Insert, Link1, Link2, Link3, Unlink1, Goto,
        Adding, Removing
<1>2. \A n \in Nodes : Present(n)' <=> Present(n)
  BY <1>1, SameList
<1>3. prev' = prev \/ (pc[x] = "link2" /\ prev' = [prev EXCEPT ![x] = prev'[x]])
  BY <1>0, NodeNames DEF ListPush, ListAppend, ListRemove, Insert, Link1, Link2, Link3, Unlink1
<1>4. pc[x] = "link2" => ~Present(x) /\ x # Tail_
  BY NodeNames DEF Present
<1>5. \A n \in Nodes : n = Tail_ \/ Present(n) => prev'[n] = prev[n]
  BY <1>0, <1>3, <1>4
<1> QED BY <1>2, <1>5, KeepsList, NodeNames

\* list_append and list_push.
LEMMA Link4Effect ==
    ASSUME LinkInv, NEW s, IsList(s), NEW x \in Elems, Link4(x)
    PROVE  x \notin Range(s) /\ (IsList(Append(s, x))' \/ IsList(<<x>> \o s)')
<1>1. PICK b \in Nodes : b = before
  BY DEF LinkInv, TypeOK
<1>2. /\ pc[x] = "link4" /\ prev' = [prev EXCEPT ![b] = x]
      /\ pc'[x] = "in" /\ \A y \in Elems : y # x => pc'[y] = pc[y]
  BY <1>1 DEF Link4, Goto, LinkInv, TypeOK
<1>3. b # Head_ /\ Present(b) /\ prev[x] = prev[b] /\ (b = Tail_ \/ prev[b] = Head_)
  BY <1>1, <1>2 DEF LinkInv, HalfWay, Adding
<1>4. prev'[b] = x /\ \A n \in Nodes : n # b => prev'[n] = prev[n]
  BY <1>2 DEF LinkInv, TypeOK
<1>5. /\ IsChain(prev, s) /\ s \in Seq(Elems) /\ Len(s) \in Nat
      /\ \A i \in 1..Len(s) : s[i] \in Elems /\ s[i] \in Range(s)
  BY DEF IsList, IsChain, Range
<1>6. x \notin Range(s) /\ \A i \in 1..Len(s) : s[i] # x
  <2>1. ~Present(x)
    BY <1>2, NodeNames DEF Present
  <2> QED BY <1>5, <2>1 DEF IsList
<1>7. \A y \in Elems : Present(y)' <=> y \in Range(s) \union {x}
  <2>1. \A y \in Elems : Present(y)' <=> Present(y) \/ y = x
    BY <1>2, NodeNames DEF Present
  <2> QED BY <2>1 DEF IsList
<1>8. CASE b = Tail_
  <2>1. \A n \in Elems : prev'[n] = prev[n]
    BY <1>4, <1>8, NodeNames
  <2>2. IsChain(prev', Append(s, x)) /\ Range(Append(s, x)) = Range(s) \union {x}
    BY <1>3, <1>4, <1>5, <1>6, <1>8, <2>1, ChainAppend
  <2>3. IsList(Append(s, x))'
    BY <1>7, <2>2 DEF IsList
  <2> QED BY <1>6, <2>3
<1>9. CASE b # Tail_
  <2>1. b \in Elems /\ b \in Range(s) /\ prev[b] = Head_
    BY <1>3, <1>9, NodeNames DEF IsList
  <2>2. PICK i \in 1..Len(s) : s[i] = b
    BY <1>5, <2>1 DEF Range
  <2>3. i = 1
    <3>1. prev[b] = IF i = 1 THEN Head_ ELSE s[i - 1]
      BY <1>5, <2>2 DEF IsChain
    <3>2. i # 1 => s[i - 1] \in Elems
      BY <1>5
    <3> QED BY <2>1, <3>1, <3>2, NodeNames
  <2>4. s # <<>> /\ s[1] = b
    BY <1>5, <2>2, <2>3
  <2>5. prev[x] = Head_ /\ prev'[s[1]] = x
        /\ \A n \in Elems \union {Tail_} : n # s[1] => prev'[n] = prev[n]
    BY <1>3, <1>4, <2>1, <2>4, NodeNames
  <2>6. IsChain(prev', <<x>> \o s) /\ Range(<<x>> \o s) = Range(s) \union {x}
    BY <1>5, <1>6, <2>4, <2>5, ChainPush
  <2>7. IsList(<<x>> \o s)'
    BY <1>7, <2>6 DEF IsList
  <2> QED BY <1>6, <2>7
<1> QED BY <1>8, <1>9

\* list_remove and list_pop.
LEMMA Unlink2Effect ==
    ASSUME LinkInv, NEW s, IsList(s), NEW x \in Elems, Unlink2(x)
    PROVE  \E i \in 1..Len(s) : s[i] = x /\ IsList(RemoveAt(s, i))'
<1> DEFINE n == next[x]
<1>1. /\ pc[x] = "unlink2" /\ prev' = [prev EXCEPT ![n] = prev[x]]
      /\ pc'[x] = "gone" /\ \A y \in Elems : y # x => pc'[y] = pc[y]
  BY DEF Unlink2, Goto, LinkInv, TypeOK
<1> HIDE DEF n
<1>2. x \in Nodes /\ x # Head_ /\ x # Tail_ /\ Present(x) /\ x \in Known
  BY <1>1, NodeNames, KnownNodes
<1>3. ~Torn(x)
  <2>1. \A y \in Elems : y # x => pc[y] \notin Adding \union Removing
    BY <1>1, OnlyOneBusy DEF LinkInv, Removing
  <2>2. prev[x] # x
    BY <1>2, PrevOf
  <2> QED BY <1>1, <2>1, <2>2 DEF Torn, Adding, Removing
<1>4. n \in Nodes /\ n # Head_ /\ Present(n) /\ Neighbours(x, n)
  BY <1>2, <1>3, NextOf DEF n
<1>5. prev[n] = x
  <2>1. prev[n] \in Nodes /\ Neighbours(prev[n], n)
    BY <1>4, PrevOf
  <2> QED BY <1>2, <1>4, <2>1, OnlyOneAhead DEF LinkInv
<1>6. /\ IsChain(prev, s) /\ s \in Seq(Elems) /\ Len(s) \in Nat
      /\ \A i \in 1..Len(s) : s[i] \in Elems
      /\ \A y \in Elems : y \in Range(s) => \E i \in 1..Len(s) : s[i] = y
  <2>1. IsChain(prev, s) /\ s \in Seq(Elems)
    BY DEF IsList, IsChain
  <2>2. DOMAIN s = 1..Len(s) /\ Len(s) \in Nat
    BY <2>1
  <2> QED BY <2>1, <2>2 DEF Range
<1>7. PICK i \in 1..Len(s) : s[i] = x
  BY <1>2, <1>6 DEF IsList
<1>8. n = IF i = Len(s) THEN Tail_ ELSE s[i + 1]
  <2>1. CASE n = Tail_
    <3>1. s[Len(s)] = x /\ Len(s) \in 1..Len(s)
      BY <1>5, <1>6, <1>7, <2>1 DEF IsChain
    <3>2. i = Len(s)
      BY <1>6, <1>7, <3>1 DEF IsChain
    <3> QED BY <2>1, <3>2
  <2>2. CASE n # Tail_
    <3>1. PICK j \in 1..Len(s) : s[j] = n
      BY <1>4, <1>6, <2>2, NodeNames DEF IsList
    <3>2. x = IF j = 1 THEN Head_ ELSE s[j - 1]
      BY <1>5, <1>6, <3>1 DEF IsChain
    <3>3. j # 1 /\ j - 1 \in 1..Len(s) /\ s[j - 1] = s[i]
      BY <1>2, <1>6, <1>7, <3>2
    <3>4. j - 1 = i
      BY <1>6, <3>3 DEF IsChain
    <3> QED BY <1>6, <3>1, <3>4
  <2> QED BY <2>1, <2>2
<1>9. prev'[n] = prev[s[i]] /\ \A m \in Elems \union {Tail_} : m # n => prev'[m] = prev[m]
  BY <1>1, <1>4, <1>7, NodeNames DEF LinkInv, TypeOK
<1>10. IsChain(prev', RemoveAt(s, i)) /\ Range(RemoveAt(s, i)) = Range(s) \ {x}
  BY <1>6, <1>7, <1>8, <1>9, ChainRemove
<1>11. \A y \in Elems : Present(y)' <=> y \in Range(s) \ {x}
  <2>1. \A y \in Elems : Present(y)' <=> Present(y) /\ y # x
    BY <1>1, NodeNames DEF Present
  <2> QED BY <2>1 DEF IsList
<1>12. IsList(RemoveAt(s, i))'
  BY <1>10, <1>11 DEF IsList
<1> QED BY <1>7, <1>12

\* Each step is an operation on the sequence or leaves it as it is.
LEMMA ListStep ==
    ASSUME IInv, HasList, [Next]_vars
    PROVE  HasList' /\ [List!Next]_Items
<1>1. PICK s \in Seq(Elems) : IsList(s)
  BY DEF HasList
<1>2. Items = s
  BY <1>1, ItemsAre
<1>3. ASSUME IsList(s)' PROVE HasList' /\ [List!Next]_Items
  <2>1. Items' = s
    BY <1>3, LinkedIs DEF IsList, Items
  <2> QED BY <1>2, <1>3, <2>1 DEF HasList
<1>4. ASSUME UNCHANGED <<prev, pc>> PROVE HasList' /\ [List!Next]_Items
  <2>1. IsList(s)'
    BY <1>1, <1>4 DEF IsList, Present
  <2> QED BY <1>3, <2>1
<1>5. ASSUME NEW x \in Elems, Link4(x) PROVE HasList' /\ [List!Next]_Items
  <2>1. PICK t \in {Append(s, x), <<x>> \o s} : x \notin Range(s) /\ IsList(t)'
    BY <1>1, <1>5, Link4Effect DEF IInv
  <2>2. Items' = t /\ t \in Seq(Elems)
    BY <2>1, LinkedIs DEF IsList, IsChain, Items
  <2>3. List!Push(x) \/ List!Append_(x)
    BY <1>2, <2>1, <2>2 DEF List!Push, List!Append_, List!Range, Range
  <2> QED BY <2>1, <2>2, <2>3 DEF HasList, List!Next
<1>6. ASSUME NEW x \in Elems, Unlink2(x) PROVE HasList' /\ [List!Next]_Items
  <2>1. PICK i \in 1..Len(s) : s[i] = x /\ IsList(RemoveAt(s, i))'
    BY <1>1, <1>6, Unlink2Effect DEF IInv
  <2>2. Items' = RemoveAt(s, i) /\ RemoveAt(s, i) \in Seq(Elems)
    BY <2>1, LinkedIs DEF IsList, IsChain, Items
  <2>3. List!Remove_(x)
    <3>1. i \in DOMAIN s /\ List!RemoveAt(s, i) = RemoveAt(s, i)
      BY DEF List!RemoveAt, RemoveAt
    <3> QED BY <1>2, <2>1, <2>2, <3>1 DEF List!Remove_
  <2> QED BY <2>1, <2>2, <2>3 DEF HasList, List!Next
<1>7. CASE StartWalk \/ WalkOn \/ UNCHANGED vars
  BY <1>4, <1>7 DEF StartWalk, WalkOn, vars, linkVars
<1>8. CASE \E x \in Elems : Link4(x)
  BY <1>5, <1>8
<1>9. CASE Change /\ UNCHANGED ahead
  <2>1. LinkInv
    BY DEF IInv
  <2>2. PICK x \in Elems :
          \/ ListPush(x) \/ ListAppend(x) \/ ListRemove(x)
          \/ Link1(x) \/ Link2(x) \/ Link3(x) \/ Unlink1(x) \/ Unlink2(x)
    BY <1>9, <2>1, PopIsRemove DEF Change
  <2>3. CASE Unlink2(x)
    BY <1>6, <2>3
  <2>4. CASE ~Unlink2(x)
    <3>1. IsList(s)'
      BY <1>1, <1>9, <2>1, <2>2, <2>4, EarlierStores
    <3> QED BY <1>3, <3>1
  <2> QED BY <2>3, <2>4
<1> QED BY <1>7, <1>8, <1>9 DEF Next

\* list_push, list_append, list_remove and list_pop, store by store, are those of a
\* sequence without repetition: each takes effect at once, with its last store.
THEOREM IsSequence == Spec => ImplementsList
<1>1. Init => HasList /\ List!Init
  <2> SUFFICES ASSUME Init PROVE HasList /\ List!Init
    OBVIOUS
  <2>1. prev[Tail_] = Head_ /\ \A x \in Elems : ~Present(x)
    BY NodeNames DEF Init, Present
  <2>2. <<>> \in Seq(Elems) /\ Len(<<>>) = 0 /\ Range(<<>>) = {}
    BY EmptySeq DEF Range
  <2>3. IsList(<<>>)
    BY <2>1, <2>2 DEF IsList, IsChain
  <2>4. Items = <<>>
    BY <2>3, ItemsAre
  <2> QED BY <2>2, <2>3, <2>4 DEF HasList, List!Init
<1>2. IInv /\ HasList /\ [Next]_vars => HasList' /\ [List!Next]_Items
  BY ListStep
<1> QED BY <1>1, <1>2, Inductive, PTL DEF Spec, ImplementsList, List!Spec
\* The walk of tid2task only moves towards the tail: as the order keeps what it has, it
\* comes by no element twice, whatever happens to the links between its steps.
WalkMovesOn == [][WalkOn => at' = Null \/ <<at, at'>> \in ahead']_vars

THEOREM WalkNeverTurns == Spec => WalkMovesOn
<1>1. IInv /\ [Next]_vars => [WalkOn => at' = Null \/ <<at, at'>> \in ahead']_vars
  <2> SUFFICES ASSUME IInv, WalkOn, at' # Null PROVE <<at, at'>> \in ahead'
    BY DEF vars
  <2>1. busy = Null /\ at \in Known /\ at # Tail_ /\ at' = next[at] /\ ahead' = ahead
    BY DEF WalkOn, IInv, OnTheWay
  <2>2. ~Torn(at)
    BY <2>1, Idle, KnownNodes DEF IInv
  <2> QED BY <2>1, <2>2, NextOf DEF IInv
<1> QED BY <1>1, Inductive, PTL DEF Spec, WalkMovesOn

===============================================================================
