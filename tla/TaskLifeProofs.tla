---------------------------- MODULE TaskLifeProofs ----------------------------
(***************************************************************************)
(* Proofs about TaskLife: where the tasks are, what the pool holds and     *)
(* what the lists and the count say, for any number of tasks, in both      *)
(* builds and under any ticks, up to a tick at one of the few statements   *)
(* that a promise of TaskLife names.                                       *)
(***************************************************************************)
EXTENDS TaskLife, SequenceTheorems, FiniteSetTheorems, TLAPS

-------------------------------------------------------------------------------
(* Lists without repetition.                                                 *)

\* list_append of an element that is not in the list.
LEMMA AppendNew ==
    ASSUME NEW S, NEW s \in Seq(S), NEW x \in S, IsInjective(s), x \notin Range(s)
    PROVE  /\ Append(s, x) \in Seq(S)
           /\ Append(s, x) # <<>>
           /\ Len(Append(s, x)) = Len(s) + 1
           /\ IsInjective(Append(s, x))
           /\ Range(Append(s, x)) = Range(s) \union {x}
<1>1. /\ Append(s, x) \in Seq(S)
      /\ Append(s, x) # <<>>
      /\ Len(Append(s, x)) = Len(s) + 1
      /\ \A i \in 1..Len(s) : Append(s, x)[i] = s[i]
      /\ Append(s, x)[Len(s) + 1] = x
  BY AppendProperties
<1>2. /\ Len(s) \in Nat
      /\ DOMAIN s = 1..Len(s)
      /\ DOMAIN Append(s, x) = 1..(Len(s) + 1)
  BY <1>1, LenProperties
<1>3. \A i \in 1..Len(s) : s[i] # x
  BY <1>2 DEF Range
<1>4. IsInjective(Append(s, x))
  BY <1>1, <1>2, <1>3 DEF IsInjective
<1>5. Range(Append(s, x)) = Range(s) \union {x}
  BY <1>1, <1>2 DEF Range
<1> QED BY <1>1, <1>4, <1>5

\* list_pop of a list that is not empty.
LEMMA PopFront ==
    ASSUME NEW S, NEW s \in Seq(S), s # <<>>, IsInjective(s)
    PROVE  /\ Head(s) \in S
           /\ Head(s) \in Range(s)
           /\ Tail(s) \in Seq(S)
           /\ Len(s) = Len(Tail(s)) + 1
           /\ IsInjective(Tail(s))
           /\ Range(Tail(s)) = Range(s) \ {Head(s)}
<1>1. /\ Len(s) \in Nat
      /\ Len(s) # 0
      /\ DOMAIN s = 1..Len(s)
  BY LenProperties, EmptySeq
<1>2. /\ Head(s) = s[1]
      /\ Head(s) \in S
      /\ Tail(s) \in Seq(S)
      /\ Len(Tail(s)) = Len(s) - 1
      /\ \A i \in 1..Len(Tail(s)) : Tail(s)[i] = s[i + 1]
  BY HeadTailProperties, ElementOfSeq, <1>1
<1>3. DOMAIN Tail(s) = 1..(Len(s) - 1)
  BY <1>2, LenProperties
<1>4. IsInjective(Tail(s))
  BY <1>1, <1>2, <1>3 DEF IsInjective
<1>5. \A i \in 2..Len(s) : s[i] = Tail(s)[i - 1] /\ i - 1 \in DOMAIN Tail(s)
  BY <1>1, <1>2, <1>3
<1>6. Range(Tail(s)) = Range(s) \ {Head(s)}
  <2>1. ASSUME NEW x \in Range(Tail(s)) PROVE x \in Range(s) \ {Head(s)}
    <3>1. PICK i \in 1..(Len(s) - 1) : x = Tail(s)[i]
      BY <1>3 DEF Range
    <3>2. x = s[i + 1] /\ i + 1 \in 1..Len(s) /\ 1 \in 1..Len(s) /\ i + 1 # 1
      BY <3>1, <1>1, <1>2
    <3> QED BY <3>2, <1>1, <1>2 DEF IsInjective, Range
  <2>2. ASSUME NEW x \in Range(s), x # Head(s) PROVE x \in Range(Tail(s))
    <3>1. PICK i \in 1..Len(s) : x = s[i]
      BY <1>1 DEF Range
    <3>2. i \in 2..Len(s)
      BY <3>1, <2>2, <1>1, <1>2
    <3> QED BY <3>1, <3>2, <1>5 DEF Range
  <2> QED BY <2>1, <2>2
<1>7. Head(s) \in Range(s)
  BY <1>1, <1>2 DEF Range
<1> QED BY <1>1, <1>2, <1>4, <1>6, <1>7

\* elem_find and list_remove of a node: exactly that one leaves the list.
LEMMA RemoveNode ==
    ASSUME NEW S, NEW s \in Seq(S), IsInjective(s), NEW e, e \in Range(s)
    PROVE  /\ RemoveFirst(s, e) \in Seq(S)
           /\ Len(s) = Len(RemoveFirst(s, e)) + 1
           /\ IsInjective(RemoveFirst(s, e))
           /\ Range(RemoveFirst(s, e)) = Range(s) \ {e}
<1>0. Len(s) \in Nat /\ DOMAIN s = 1..Len(s) /\ \A i \in 1..Len(s) : s[i] \in S
  BY LenProperties, ElementOfSeq
<1>1. PICK k \in 1..Len(s) : s[k] = e
  BY <1>0 DEF Range
<1>2. RemoveFirst(s, e) = RemoveAt(s, k)
  <2>1. {j \in 1..Len(s) : s[j] = e} = {k}
    BY <1>0, <1>1 DEF IsInjective
  <2>2. SelectInSeq(s, LAMBDA v : v = e) = Min({k})
    BY <2>1 DEF SelectInSeq
  <2>3. Min({k}) = k
    BY <1>0 DEF Min
  <2> QED BY <1>1, <2>2, <2>3 DEF RemoveFirst
<1>1a. k \in Int /\ Len(s) \in Int /\ 1 <= k /\ k <= Len(s)
  BY <1>0, <1>1
<1> DEFINE a == SubSeq(s, 1, k - 1)
           b == SubSeq(s, k + 1, Len(s))
<1>3. a \in Seq(S) /\ Len(a) = k - 1 /\ \A i \in 1..(k - 1) : a[i] = s[i]
  <2>1. /\ a \in Seq(S)
        /\ Len(a) = IF 1 <= k - 1 THEN k - 1 - 1 + 1 ELSE 0
        /\ \A i \in 1..(k - 1 - 1 + 1) : a[i] = s[1 + i - 1]
    <3>1. 1 \in Int /\ k - 1 \in Int /\ \A i \in 1..(k - 1) : s[i] \in S
      BY <1>0
    <3> QED BY <3>1, SubSeqProperties
  <2> HIDE DEF a
  <2>2. \A i \in 1..(k - 1) : 1 + i - 1 = i
    BY <1>1a
  <2>3. k - 1 - 1 + 1 = k - 1 /\ (~(1 <= k - 1) => k - 1 = 0)
    BY <1>1a
  <2> QED BY <2>1, <2>2, <2>3
<1>4. b \in Seq(S) /\ Len(b) = Len(s) - k /\ \A i \in 1..(Len(s) - k) : b[i] = s[k + i]
  <2>1. /\ b \in Seq(S)
        /\ Len(b) = IF k + 1 <= Len(s) THEN Len(s) - (k + 1) + 1 ELSE 0
        /\ \A i \in 1..(Len(s) - (k + 1) + 1) : b[i] = s[(k + 1) + i - 1]
    <3>1. k + 1 \in Int /\ Len(s) \in Int /\ \A i \in (k + 1)..Len(s) : s[i] \in S
      BY <1>0
    <3> QED BY <3>1, SubSeqProperties
  <2> HIDE DEF b
  <2>2. \A i \in 1..(Len(s) - k) : (k + 1) + i - 1 = k + i
    BY <1>1a
  <2>3. Len(s) - (k + 1) + 1 = Len(s) - k /\ (~(k + 1 <= Len(s)) => Len(s) - k = 0)
    BY <1>1a
  <2> QED BY <2>1, <2>2, <2>3
<1> DEFINE r == a \o b
<1> HIDE DEF a, b
<1>5. /\ r \in Seq(S) /\ Len(r) = Len(s) - 1 /\ DOMAIN r = 1..(Len(s) - 1)
      /\ \A i \in 1..(Len(s) - 1) : r[i] = IF i < k THEN s[i] ELSE s[i + 1]
  <2>1. /\ r \in Seq(S)
        /\ Len(r) = Len(a) + Len(b)
        /\ \A i \in 1..(Len(a) + Len(b)) : r[i] = IF i <= Len(a) THEN a[i] ELSE b[i - Len(a)]
    <3>1. a \in Seq(S) /\ b \in Seq(S)
      BY <1>3, <1>4
    <3> QED BY <3>1, ConcatProperties
  <2>2. Len(a) + Len(b) = Len(s) - 1 /\ Len(a) = k - 1
    BY <1>0, <1>3, <1>4
  <2>3. r \in Seq(S) /\ Len(r) = Len(s) - 1 /\ DOMAIN r = 1..(Len(s) - 1)
    <3> HIDE DEF r
    <3> QED BY <2>1, <2>2, LenProperties
  <2>4. ASSUME NEW i \in 1..(Len(s) - 1) PROVE r[i] = IF i < k THEN s[i] ELSE s[i + 1]
    <3>1. r[i] = IF i <= k - 1 THEN a[i] ELSE b[i - (k - 1)]
      <4> HIDE DEF r
      <4> QED BY <2>1, <2>2
    <3> HIDE DEF r
    <3>2. CASE i < k
      BY <1>0, <1>3, <3>1, <3>2
    <3>3. CASE ~(i < k)
      <4>1. i - (k - 1) \in 1..(Len(s) - k) /\ k + (i - (k - 1)) = i + 1 /\ ~(i <= k - 1)
        BY <1>0, <3>3
      <4> QED BY <1>4, <3>1, <3>3, <4>1
    <3> QED BY <3>2, <3>3
  <2> QED BY <2>3, <2>4
<1>6. RemoveFirst(s, e) = r
  BY <1>2 DEF RemoveAt, a, b
<1> HIDE DEF r
<1>7. IsInjective(r)
  <2> SUFFICES ASSUME NEW i \in 1..(Len(s) - 1), NEW j \in 1..(Len(s) - 1), r[i] = r[j]
               PROVE  i = j
    BY <1>5 DEF IsInjective
  <2> DEFINE u == IF i < k THEN i ELSE i + 1
             v == IF j < k THEN j ELSE j + 1
  <2>1. u \in DOMAIN s /\ v \in DOMAIN s
    BY <1>0, <1>1a
  <2>2. r[i] = s[u] /\ r[j] = s[v]
    BY <1>5
  <2>3. u = v
    <3> HIDE DEF u, v
    <3> QED BY <2>1, <2>2 DEF IsInjective
  <2> QED BY <2>3, <1>1a
<1>8. Range(r) = Range(s) \ {e}
  <2>1. ASSUME NEW i \in 1..(Len(s) - 1) PROVE r[i] \in Range(s) \ {e}
    <3> DEFINE j == IF i < k THEN i ELSE i + 1
    <3>1. j \in DOMAIN s /\ j # k /\ r[i] = s[j]
      BY <1>0, <1>1, <1>5
    <3> HIDE DEF j
    <3>2. s[j] \in Range(s)
      BY <3>1 DEF Range
    <3>3. s[j] # e
      BY <1>0, <1>1, <3>1 DEF IsInjective
    <3> QED BY <3>1, <3>2, <3>3
  <2>2. ASSUME NEW j \in 1..Len(s), s[j] # e PROVE s[j] \in Range(r)
    <3> DEFINE i == IF j < k THEN j ELSE j - 1
    <3>1. j # k
      BY <1>1, <2>2
    <3>2. i \in 1..(Len(s) - 1) /\ r[i] = s[j]
      <4>1. CASE j < k
        BY <1>0, <1>5, <4>1
      <4>2. CASE j > k
        BY <1>0, <1>5, <4>2
      <4> QED BY <1>0, <3>1, <4>1, <4>2
    <3> HIDE DEF i
    <3> QED BY <1>5, <3>2 DEF Range
  <2> QED BY <1>0, <1>5, <2>1, <2>2 DEF Range
<1>9. r \in Seq(S) /\ Len(s) = Len(r) + 1
  BY <1>5, <1>1a
<1> QED BY <1>6, <1>7, <1>8, <1>9, Zenon

\* elem_find that finds nothing.
LEMMA RemoveNothing ==
    ASSUME NEW S, NEW s \in Seq(S), NEW e, e \notin Range(s)
    PROVE  RemoveFirst(s, e) = s
<1>1. DOMAIN s = 1..Len(s)
  BY LenProperties
<1>2. \A i \in 1..Len(s) : s[i] # e
  BY <1>1 DEF Range
<1> QED BY <1>2 DEF RemoveFirst

\* A list without repetition is as long as it has members.
LEMMA LengthIsSize ==
    ASSUME NEW S, NEW s \in Seq(S), IsInjective(s)
    PROVE  IsFiniteSet(Range(s)) /\ Cardinality(Range(s)) = Len(s)
<1>1. Len(s) \in Nat /\ DOMAIN s = 1..Len(s) /\ s \in [1..Len(s) -> Range(s)]
  BY LenProperties DEF Range
<1>2. s \in Bijection(1..Len(s), Range(s))
  BY <1>1 DEF IsInjective, Range, Bijection, Injection, Surjection
<1>3. ExistsBijection(1..Len(s), Range(s))
  BY <1>2 DEF ExistsBijection
<1>4. IsFiniteSet(1..Len(s)) /\ Cardinality(1..Len(s)) = Len(s)
  BY <1>1, FS_Interval
<1> QED BY <1>3, <1>4, FS_Bijection

-------------------------------------------------------------------------------
(* The inductive invariant.                                                  *)

\* task_exit from the list_remove that takes the task off the list of all tasks.
OffList == {"uncount", "uncounted", "pool"} \union ExitTail

\* Where a task holds the tid lock, and where it has been blocked on it.
Inside == {"tidbit", "unbit"}
Blocked == {"tidwait", "unwait"}

\* The statements of task_start with a task_struct of its own: before and after it is
\* initialised.
Late == {"tid", "tidwait", "tidbit", "queue"}
Making == {"init"} \union Late

\* What runs after the memory of a task in use was cleared or freed is not followed.
Frozen == pc[cur] \in {"wiped", "freed", "overdrawn"}

Ordinary == Statements \union {"reused"} \union NotRunning

\* A task at an exposed statement has the processor.
Alone ==
    /\ \A t \in Tasks : pc[t] \in Misplacing => t = cur
    /\ Miscounted \/ \A t \in Tasks : pc[t] \in Miscounting => t = cur

\* What is current, ready, waiting or about to run has started and not ended; main stays.
Live ==
    /\ Running(cur)
    /\ \A t \in Range(ready) \union Range(waiters) : Running(t)
    /\ pc[cur] = "switch" =>
        tag \in Tasks /\ tag # cur /\ tag \notin Range(ready) \union Range(waiters) /\ Running(tag)
    /\ Running(Main) /\ pc[Main] \notin OffList \union {"die", "unlist"}

\* The tid lock: its holder is inside, a waiter is blocked, and as long as there is one
\* somebody is going to release the lock or to try it again.
Locked ==
    /\ \A t \in Tasks : pc[t] \in Inside <=> holder = t
    /\ \A t \in Range(waiters) : pc[t] \in Blocked /\ status[t] = "BLOCKED"
    /\ waiters # <<>> =>
        holder # Nobody \/ \E t \in Tasks : pc[t] \in Blocked /\ t \notin Range(waiters)

\* The pool holds the tasks that leave or have left, but for one that a task_start has
\* taken; what is in it is nobody's new task.
Leaving(t) == pc[t] \in ExitTail \union {"dead"}
Taken(t) == \E s \in Tasks : (pc[s] = "reuse" /\ tag = t) \/ (pc[s] = "init" /\ new[s] = t)
Pooled ==
    /\ IsInjective(pool)
    /\ \A t \in Range(pool) : Leaving(t)
    /\ \A t \in Tasks : Leaving(t) =>
        t \in Range(pool) \/ Taken(t) \/ \E s \in Tasks : pc[s] = "reused"
    /\ \A s \in Tasks : pc[s] = "reuse" =>
        tag \in Tasks /\ Leaving(tag) /\ tag \notin Range(pool) /\ \A r \in Tasks : new[r] # tag
    /\ \A s \in Tasks : new[s] \notin Range(pool)
    /\ \A s \in Tasks : pc[s] = "take" => pool # <<>>

\* The task_struct that task_start works on is its own, and nobody's yet.
Made ==
    /\ \A s \in Tasks : pc[s] \in Late => new[s] \in Tasks /\ pc[new[s]] = "new"
    /\ \A s \in Tasks : pc[s] = "init" =>
        new[s] \in Tasks /\ (pc[new[s]] = "new" \/ Leaving(new[s]))
    /\ \A s \in Tasks : pc[s] = "list" => new[s] \in Tasks /\ new[s] # s /\ pc[new[s]] = "own"
    /\ \A s \in Tasks : pc[s] = "reused" => new[s] \in Tasks /\ Leaving(new[s])
    /\ \A s, r \in Tasks : new[s] = new[r] /\ new[s] # Nobody => s = r
    /\ \A s \in Tasks : new[s] # Nobody => pc[s] \in Making \union {"list", "reused"}

\* The list of all tasks holds those that task_start has listed and task_exit has not
\* taken off.
ToBeListed(t) == \E s \in Tasks : pc[s] = "list" /\ new[s] = t
InAll(t) == Running(t) /\ pc[t] \notin OffList /\ ~ToBeListed(t)
AllList ==
    /\ IsInjective(all)
    /\ \A t \in Tasks : t \in Range(all) <=> InAll(t)

\* The count follows the list, but for the tasks between the one and the other.
Counting == {t \in Tasks : pc[t] \in {"count", "counted"}}
Uncounting == {t \in Tasks : pc[t] \in {"uncount", "uncounted"}}
Numbers ==
    Miscounted \/
    /\ nums + Cardinality(Counting) = Len(all) + Cardinality(Uncounting)
    /\ \A t \in Tasks : pc[t] \in Miscounting => temp[t] = nums

\* The promises of TaskLife are not inductive alone: that a task is in one place rests on
\* task_start working on a task_struct of its own, that somebody is ready when a task
\* blocks or ends on who holds the tid lock, and that the pool's tasks leave on who has
\* taken one from it.
Core ==
    /\ ~Misplaced
    /\ TypeOK /\ IsFiniteSet(torn)
    /\ OnePlace
    /\ \A t \in Tasks : pc[t] \in Ordinary
    /\ Alone /\ Live /\ Locked /\ Pooled /\ Made /\ AllList /\ Numbers

Promised == TypeOK /\ OnePlace /\ NeverStuck /\ PoolIsLeaving /\ ListsAgree

IInv == Misplaced \/ Core \/ (Frozen /\ Promised)

-------------------------------------------------------------------------------
(* What the invariant gives every step.                                      *)

LEMMA Members ==
    ASSUME Core
    PROVE  /\ cur \in Tasks /\ Main \in Tasks /\ Nobody \notin Tasks
           /\ pc \in [Tasks -> Statements \union Stuck \union NotRunning]
           /\ new \in [Tasks -> Tasks \union {Nobody}]
           /\ Range(ready) \subseteq Tasks /\ Range(all) \subseteq Tasks
           /\ Range(pool) \subseteq Tasks /\ Range(waiters) \subseteq Tasks
           /\ cur \notin Range(ready) \union Range(waiters)
           /\ Range(ready) \intersect Range(waiters) = {}
           /\ IsInjective(ready) /\ IsInjective(waiters)
BY RangeOfSeq, TaskLifeAssumption DEF Core, TypeOK, OnePlace

\* Whoever holds the tid lock and does not run is ready: nobody blocks inside.
LEMMA HolderReady ==
    ASSUME Core, holder # Nobody, pc[cur] \notin Inside \union {"switch"}
    PROVE  ready # <<>>
<1>1. holder \in Tasks /\ pc[holder] \in Inside
  BY DEF Core, TypeOK, Locked
<1>2. Running(holder) /\ holder # cur /\ holder \notin Range(waiters)
  BY <1>1 DEF Core, Locked, Running, NotRunning, Inside, Blocked
<1>3. holder \in Range(ready)
  BY <1>1, <1>2 DEF Core, OnePlace
<1> QED BY <1>3, EmptySeq, LenProperties DEF Range

\* A task that ends leaves somebody to go on with: main, or who keeps main waiting.
LEMMA SomebodyReady ==
    ASSUME Core, cur # Main, pc[cur] \notin Inside \union Blocked \union {"switch"}
    PROVE  ready # <<>>
<1>1. CASE Main \in Range(ready)
  BY <1>1, EmptySeq, LenProperties DEF Range
<1>2. CASE Main \notin Range(ready)
  <2>1. Main \in Range(waiters)
    BY <1>2, Members DEF Core, Live, OnePlace
  <2>2. waiters # <<>>
    BY <2>1, EmptySeq, LenProperties DEF Range
  <2>3. CASE holder # Nobody
    BY <2>3, HolderReady
  <2>4. CASE holder = Nobody
    <3>1. PICK t \in Tasks : pc[t] \in Blocked /\ t \notin Range(waiters)
      BY <2>2, <2>4 DEF Core, Locked
    <3>2. Running(t) /\ t # cur
      BY <3>1 DEF Running, NotRunning, Blocked
    <3>3. t \in Range(ready)
      BY <3>1, <3>2 DEF Core, OnePlace
    <3> QED BY <3>3, EmptySeq, LenProperties DEF Range
  <2> QED BY <2>3, <2>4
<1> QED BY <1>1, <1>2

\* The processor and the tid lock, after a step that moves no task and has nothing to do
\* with the lock.
LEMMA SamePlaces ==
    ASSUME Core,
           UNCHANGED <<cur, ready, holder, waiters, torn>>,
           \A s \in Tasks : Running(s)' <=> Running(s),
           \A s \in Tasks : s # cur =>
               pc'[s] = pc[s] \/ (pc[s] \in NotRunning /\ pc'[s] \in NotRunning),
           pc[cur] \notin Inside \union Blocked \union {"switch"},
           pc'[cur] \in Ordinary \ (Inside \union Blocked \union {"switch"}),
           cur = Main => pc'[cur] \notin OffList \union {"die", "unlist"},
           \A s \in Range(waiters) : status'[s] = status[s]
    PROVE  /\ ~Misplaced' /\ IsFiniteSet(torn') /\ OnePlace' /\ Alone' /\ Live' /\ Locked'
           /\ \A s \in Tasks : pc'[s] \in Ordinary
<1> USE DEF Core
<1>1. ~Misplaced' /\ IsFiniteSet(torn') /\ (Miscounted' <=> Miscounted)
  BY DEF Misplaced, Miscounted
<1>2. OnePlace'
  BY DEF OnePlace
<1>3. Alone'
  BY <1>1 DEF Alone, NotRunning, Misplacing, Miscounting
<1>4. Live'
  BY Members DEF Live, Running, NotRunning
<1>5. Locked'
  <2>1. \A s \in Tasks :
          /\ pc'[s] \in Inside <=> pc[s] \in Inside
          /\ pc'[s] \in Blocked <=> pc[s] \in Blocked
    BY DEF Inside, Blocked, NotRunning
  <2> QED BY <2>1, Members DEF Locked
<1>6. \A s \in Tasks : pc'[s] \in Ordinary
  BY DEF Ordinary
<1> QED BY <1>1, <1>2, <1>3, <1>4, <1>5, <1>6

\* The lists and the count see no difference between two such statements.
SameKind(from, to) ==
    /\ {from, to} \intersect (NotRunning \union {"reuse", "init", "list", "reused"}) = {}
    /\ from \in OffList <=> to \in OffList
    /\ from \in ExitTail <=> to \in ExitTail
    /\ from \in Late <=> to \in Late
    /\ from \in {"count", "counted"} <=> to \in {"count", "counted"}
    /\ from \in {"uncount", "uncounted"} <=> to \in {"uncount", "uncounted"}

\* The lists and the count, when the current task goes on by one statement.
LEMMA SameLists ==
    ASSUME Core, NEW to,
           pc' = [pc EXCEPT ![cur] = to],
           SameKind(pc[cur], to),
           to = "take" => pool # <<>>,
           UNCHANGED <<all, nums, pool, new, torn>>,
           Miscounted \/ \A t \in Tasks : pc'[t] \in Miscounting => temp'[t] = nums
    PROVE  Pooled' /\ Made' /\ AllList' /\ Numbers'
<1> USE DEF Core, SameKind
<1>0. /\ cur \in Tasks /\ pc'[cur] = to
      /\ \A t \in Tasks : t # cur => pc'[t] = pc[t]
      /\ \A t \in Tasks : pc[t] \notin {"list", "reuse"} /\ pc'[t] \notin {"list", "reuse"}
      /\ \A t \in Tasks : t # cur => pc[t] # "take"
  BY Members DEF Alone, Misplacing
<1>1. \A t \in Tasks :
        /\ Running(t)' <=> Running(t)
        /\ Leaving(t)' <=> Leaving(t)
        /\ pc'[t] \in {"init", "new", "reused"} \/ pc[t] \in {"init", "new", "reused"} =>
             pc'[t] = pc[t]
        /\ pc'[t] \in Late <=> pc[t] \in Late
        /\ pc'[t] \in OffList <=> pc[t] \in OffList
  BY <1>0 DEF Running, Leaving, NotRunning
<1>2. Pooled'
  <2>1. \A t \in Tasks : Taken(t)' <=> Taken(t)
    BY <1>0, <1>1 DEF Taken
  <2> QED BY <1>0, <1>1, <2>1, Members DEF Pooled
<1>3. Made'
  BY <1>0, <1>1 DEF Made, Making
<1>4. AllList'
  BY <1>0, <1>1 DEF AllList, InAll, ToBeListed
<1>5. Numbers'
  <2>1. Counting' = Counting /\ Uncounting' = Uncounting
    BY <1>0 DEF Counting, Uncounting
  <2>2. Miscounted' <=> Miscounted
    BY DEF Miscounted
  <2> QED BY <2>1, <2>2 DEF Numbers
<1> QED BY <1>2, <1>3, <1>4, <1>5

\* The promises hold of a state with the invariant.
LEMMA CorePromises == Core => Promised
<1> SUFFICES ASSUME Core PROVE Promised
  OBVIOUS
<1>1. NeverStuck
  BY DEF Core, NeverStuck, Ordinary, Statements, ExitTail, NotRunning
<1>2. PoolIsLeaving
  <2>1. ASSUME NEW t \in Range(pool)
        PROVE  /\ pc[t] \in ExitTail \union {"freed", "dead"}
               /\ t \notin Range(all)
               /\ pc[t] = "dead" => t # cur /\ t \notin Range(ready) \union Range(waiters)
               /\ \A s \in Tasks : new[s] # t
    <3>1. t \in Tasks /\ Leaving(t)
      BY Members DEF Core, Pooled
    <3>2. t \notin Range(all)
      BY <3>1 DEF Core, AllList, InAll, Leaving, OffList, Running, NotRunning
    <3>3. pc[t] = "dead" => t # cur /\ t \notin Range(ready) \union Range(waiters)
      BY DEF Core, Live, Running, NotRunning
    <3>4. \A s \in Tasks : new[s] # t
      BY DEF Core, Pooled
    <3> QED BY <3>1, <3>2, <3>3, <3>4 DEF Leaving
  <2> QED BY <2>1 DEF PoolIsLeaving, Core, Pooled
<1>3. ListsAgree
  <2> SUFFICES ASSUME AtRest
               PROVE  /\ Range(all) = {t \in Tasks : pc[t] = "own"}
                      /\ Range(pool) = {t \in Tasks : pc[t] = "dead"}
                      /\ Miscounted \/ nums = Len(all)
    BY DEF ListsAgree
  <2>0. \A t \in Tasks : pc[t] \in {"own", "none", "dead"}
    BY DEF AtRest
  <2>1. Range(all) = {t \in Tasks : pc[t] = "own"}
    BY <2>0, Members DEF Core, AllList, InAll, ToBeListed, Running, NotRunning, OffList, ExitTail
  <2>2. Miscounted \/ nums = Len(all)
    <3>1. Counting = {} /\ Uncounting = {}
      BY <2>0 DEF Counting, Uncounting
    <3>2. Miscounted \/ nums + Cardinality(Counting) = Len(all) + Cardinality(Uncounting)
      BY DEF Core, Numbers
    <3>3. Len(all) \in Nat /\ nums \in Int
      BY LenProperties DEF Core, TypeOK
    <3> QED BY <3>1, <3>2, <3>3, FS_EmptySet
  <2>3. Range(pool) = {t \in Tasks : pc[t] = "dead"}
    BY <2>0, Members DEF Core, Pooled, Leaving, Taken, ExitTail
  <2> QED BY <2>1, <2>2, <2>3
<1> QED BY <1>1, <1>2, <1>3 DEF Core, Promised

-------------------------------------------------------------------------------
(* The steps that leave the lists alone.                                     *)

LEMMA MovesIInv ==
    ASSUME Core, NEW t \in Tasks,
           Start(t) \/ Choose(t) \/ Exit(t) \/ Wait(t) \/ Waited(t)
           \/ Count(t) \/ Uncount(t) \/ Open(t),
           UNCHANGED <<shuts, torn>>
    PROVE  Core'
<1> DEFINE to == pc'[t]
<1>0. pc \in [Tasks -> Statements \union Stuck \union NotRunning]
  BY Members
<1>1. /\ t = cur /\ pc' = [pc EXCEPT ![t] = to]
      /\ UNCHANGED <<cpuVars, listVars, tag, lockVars, new>>
  BY <1>0 DEF Start, Choose, Exit, Wait, Waited, Count, Uncount, Open, At, Goto, Stand, localVars
<1>2. \/ /\ <<pc[t], to>> \in {<<"own", "choose">>, <<"choose", "take">>, <<"own", "wait">>,
                              <<"wait", "wait">>, <<"wait", "own">>}
         /\ UNCHANGED temp
      \/ pc[t] = "open" /\ to = "pop" /\ t # Main /\ UNCHANGED temp
      \/ pc[t] = "own" /\ to = "die" /\ t # Main /\ UNCHANGED temp
      \/ /\ <<pc[t], to>> \in {<<"count", "counted">>, <<"uncount", "uncounted">>}
         /\ temp' = [temp EXCEPT ![t] = nums]
         /\ t = Main => to # "uncounted"
  <2>1. ASSUME Open(t) PROVE pc[t] = "open" /\ to = "pop" /\ t # Main /\ UNCHANGED temp
    <3>1. t = cur /\ pc[t] = "open" /\ UNCHANGED temp
      BY <2>1 DEF Open, At, Stand, localVars
    <3>2. t # Main
      BY <3>1 DEF Core, Live, OffList, ExitTail
    <3>3. ready # <<>>
      BY <3>1, <3>2, SomebodyReady DEF Inside, Blocked
    <3> QED BY <1>0, <2>1, <3>1, <3>2, <3>3 DEF Open, Goto
  <2>2. ASSUME Count(t) \/ Uncount(t)
        PROVE  /\ <<pc[t], to>> \in {<<"count", "counted">>, <<"uncount", "uncounted">>}
               /\ temp' = [temp EXCEPT ![t] = nums]
               /\ t = Main => to # "uncounted"
    BY <1>0, <2>2 DEF Count, Uncount, At, Goto, Core, Live, OffList
  <2>3. ASSUME Start(t) \/ Choose(t) \/ Exit(t) \/ Wait(t) \/ Waited(t)
        PROVE  \/ /\ <<pc[t], to>> \in {<<"own", "choose">>, <<"choose", "take">>, <<"own", "wait">>,
                                       <<"wait", "wait">>, <<"wait", "own">>}
                  /\ UNCHANGED temp
               \/ pc[t] = "own" /\ to = "die" /\ t # Main /\ UNCHANGED temp
    BY <1>0, <2>3 DEF Start, Choose, Exit, Wait, Waited, At, Goto, Stand, localVars
  <2> QED BY <2>1, <2>2, <2>3
<1>3. masked' \in BOOLEAN
  BY DEF Core, TypeOK, Start, Choose, Exit, Wait, Waited, Count, Uncount, Open, Disable, Enable
<1> HIDE DEF to
<1>4. SameKind(pc[t], to)
  BY <1>2 DEF SameKind, OffList, ExitTail, Late, NotRunning
<1>5. /\ ~Misplaced' /\ IsFiniteSet(torn') /\ OnePlace' /\ Alone' /\ Live' /\ Locked'
      /\ \A s \in Tasks : pc'[s] \in Ordinary
  <2>1. to \in Ordinary \ (Inside \union Blocked \union {"switch"} \union NotRunning)
    BY <1>2 DEF Ordinary, Statements, ExitTail, Inside, Blocked, NotRunning
  <2>2. pc[t] \notin Inside \union Blocked \union {"switch"} \union NotRunning
    BY <1>2 DEF Inside, Blocked, NotRunning
  <2>3. \A s \in Tasks : Running(s)' <=> Running(s)
    BY <1>0, <1>1, <2>1, <2>2 DEF Running
  <2>4. t = Main => to \notin OffList \union {"die", "unlist"}
    BY <1>2 DEF OffList, ExitTail
  <2> QED BY <1>0, <1>1, <2>1, <2>2, <2>3, <2>4, SamePlaces DEF cpuVars, lockVars
<1>6. Miscounted \/ \A s \in Tasks : pc'[s] \in Miscounting => temp'[s] = nums
  BY <1>0, <1>1, <1>2 DEF Core, TypeOK, Numbers, Miscounting
<1>7. Pooled' /\ Made' /\ AllList' /\ Numbers'
  <2>1. to = "take" => pool # <<>>
    BY <1>1, <1>2 DEF Choose, Start, Exit, Wait, Waited, Count, Uncount, Open, At
  <2> QED BY <1>1, <1>4, <1>6, <2>1, SameLists DEF listVars
<1>8. TypeOK'
  <2>1. to \in Statements
    BY <1>2 DEF Statements, ExitTail
  <2>2. pc' \in [Tasks -> Statements \union Stuck \union NotRunning]
    BY <1>0, <1>1, <2>1
  <2>3. temp' \in [Tasks -> Int]
    BY <1>2 DEF Core, TypeOK
  <2>4. (Misplaced' <=> Misplaced) /\ (Miscounted' <=> Miscounted)
    BY DEF Misplaced, Miscounted
  <2> QED BY <1>1, <1>3, <2>2, <2>3, <2>4 DEF Core, TypeOK, cpuVars, listVars, lockVars
<1> QED BY <1>5, <1>7, <1>8 DEF Core

-------------------------------------------------------------------------------
(* The tid lock.                                                             *)

\* The statements at which allocate_tid or release_tid tries the lock, goes on trying it
\* and holds it.
Trying(from, again, held) ==
    \/ from \in {"tid", "tidwait"} /\ again = "tidwait" /\ held = "tidbit"
    \/ from \in {"untid", "unwait"} /\ again = "unwait" /\ held = "unbit"

LEMMA TryLockIInv ==
    ASSUME Core, NEW t \in Tasks, NEW mask \in BOOLEAN, NEW again, NEW held,
           t = cur, Trying(pc[t], again, held), TryLock(t, mask, again, held),
           UNCHANGED <<shuts, torn>>
    PROVE  Core'
<1> USE DEF Core
<1>0. /\ pc \in [Tasks -> Statements \union Stuck \union NotRunning]
      /\ status \in [Tasks -> {"RUNNING", "READY", "BLOCKED", "DIED"}]
      /\ ready \in Seq(Tasks) /\ waiters \in Seq(Tasks)
      /\ (Misplaced' <=> Misplaced) /\ (Miscounted' <=> Miscounted) /\ IsFiniteSet(torn')
  BY DEF TypeOK, Misplaced, Miscounted
<1>1. /\ pc[t] \notin Inside \union Misplacing \union Miscounting \union NotRunning
      /\ \A s \in Tasks : pc[s] \notin Misplacing
      /\ Miscounted \/ \A s \in Tasks : pc[s] \notin Miscounting
      /\ SameKind(pc[t], again) /\ SameKind(pc[t], held)
      /\ t = Main => {again, held} \intersect (OffList \union {"die", "unlist"}) = {}
      /\ {again, held} \subseteq Statements \ (Misplacing \union Miscounting \union NotRunning)
      /\ again \in Blocked /\ held \in Inside /\ Inside \intersect Blocked = {}
  BY DEF Trying, Alone, Live, SameKind, Inside, Blocked, Misplacing, Miscounting, NotRunning,
    OffList, ExitTail, Late, Statements
<1>2. CASE holder = Nobody
  <2>1. /\ holder' = t /\ masked' = FALSE /\ pc' = [pc EXCEPT ![t] = held]
        /\ UNCHANGED <<cpuVars, listVars, tag, waiters, localVars>>
    BY <1>2 DEF TryLock, Free, Enable, Goto
  <2>2. /\ pc'[t] = held /\ \A s \in Tasks : s # t => pc'[s] = pc[s]
        /\ \A s \in Tasks : Running(s)' <=> Running(s)
    BY <1>0, <1>1, <2>1 DEF Running
  <2>3. OnePlace' /\ Alone'
    BY <1>0, <1>1, <2>1, <2>2 DEF OnePlace, Alone, cpuVars, Misplacing
  <2>4. Live'
    BY <1>1, <2>1, <2>2, Members DEF Live, cpuVars, Misplacing
  <2>5. Locked'
    <3>1. \A s \in Tasks : pc[s] \notin Inside
      BY <1>2, Members DEF Locked
    <3>2. \A s \in Tasks : pc'[s] \in Inside <=> holder' = s
      BY <1>1, <2>1, <2>2, <3>1
    <3>3. \A s \in Range(waiters) : pc'[s] \in Blocked /\ status'[s] = "BLOCKED"
      BY <2>1, <2>2, Members DEF Locked, cpuVars
    <3>4. holder' # Nobody
      BY <2>1, Members
    <3> QED BY <2>1, <3>2, <3>3, <3>4 DEF Locked
  <2>6. Pooled' /\ Made' /\ AllList' /\ Numbers'
    <3>1. Miscounted \/ \A s \in Tasks : pc'[s] \in Miscounting => temp'[s] = nums
      BY <1>1, <2>2
    <3> QED BY <1>1, <2>1, <3>1, SameLists DEF listVars, localVars, Misplacing
  <2>7. \A s \in Tasks : pc'[s] \in Ordinary
    BY <1>1, <2>2 DEF Ordinary
  <2>8. TypeOK'
    <3>1. pc' \in [Tasks -> Statements \union Stuck \union NotRunning]
      BY <1>0, <1>1, <2>1
    <3> QED BY <1>0, <2>1, <3>1 DEF TypeOK, cpuVars, listVars, localVars
  <2> QED BY <1>0, <2>3, <2>4, <2>5, <2>6, <2>7, <2>8
<1>3. CASE holder # Nobody
  <2> DEFINE h == Head(ready)
  <2>0. t \notin Range(waiters) /\ ready # <<>>
    BY <1>1, <1>3, Members, HolderReady DEF Misplacing
  <2>1. /\ waiters' = Append(waiters, t) /\ masked' = mask
        /\ pc' = [pc EXCEPT ![t] = again]
        /\ tag' = h /\ cur' = h /\ ready' = Tail(ready)
        /\ status' = [status EXCEPT ![t] = "BLOCKED", ![h] = "RUNNING"]
        /\ UNCHANGED <<listVars, holder, localVars>>
    BY <1>3, <2>0 DEF TryLock, Free, GiveUp, Goto
  <2>2. /\ waiters' \in Seq(Tasks) /\ IsInjective(waiters')
        /\ Range(waiters') = Range(waiters) \union {t}
    BY <1>0, <2>0, <2>1, Members, AppendNew
  <2>3. /\ h \in Tasks /\ h \in Range(ready) /\ ready' \in Seq(Tasks)
        /\ IsInjective(ready') /\ Range(ready') = Range(ready) \ {h}
    BY <1>0, <2>0, <2>1, Members, PopFront
  <2> HIDE DEF h
  <2>4. /\ pc'[t] = again /\ \A s \in Tasks : s # t => pc'[s] = pc[s]
        /\ \A s \in Tasks : Running(s)' <=> Running(s)
        /\ h # t /\ h \notin Range(waiters)
        /\ status'[t] = "BLOCKED"
        /\ \A s \in Tasks : s # t /\ s # h => status'[s] = status[s]
    BY <1>0, <1>1, <2>1, <2>3, Members DEF Running
  <2>5. OnePlace'
    <3>1. \A s \in Tasks : Running(s) => s = t \/ s \in Range(ready) \union Range(waiters)
      BY <1>1 DEF OnePlace, Misplacing
    <3>2. cur' \notin Range(ready') \union Range(waiters')
      BY <2>1, <2>2, <2>3, <2>4
    <3>3. Range(ready') \intersect Range(waiters') = {}
      BY <2>2, <2>3, Members
    <3>4. \A s \in Tasks : Running(s)' => s = cur' \/ s \in Range(ready') \union Range(waiters')
      BY <2>1, <2>2, <2>3, <2>4, <3>1
    <3> QED BY <2>2, <2>3, <3>2, <3>3, <3>4 DEF OnePlace
  <2>6. Alone'
    BY <1>0, <1>1, <2>4 DEF Alone
  <2>7. Live'
    <3>1. Running(h) /\ pc'[h] # "switch"
      BY <1>1, <2>3, <2>4 DEF Live, Misplacing
    <3>2. \A s \in Range(ready') \union Range(waiters') : Running(s)'
      BY <2>2, <2>3, <2>4, Members DEF Live
    <3>3. Running(Main)' /\ pc'[Main] \notin OffList \union {"die", "unlist"}
      BY <1>1, <2>4, Members DEF Live
    <3> QED BY <2>1, <2>3, <2>4, <3>1, <3>2, <3>3 DEF Live
  <2>8. Locked'
    <3>1. \A s \in Tasks : pc'[s] \in Inside <=> holder' = s
      BY <1>1, <2>1, <2>4 DEF Locked
    <3>2. \A s \in Range(waiters') : pc'[s] \in Blocked /\ status'[s] = "BLOCKED"
      BY <1>1, <2>2, <2>4, Members DEF Locked
    <3> QED BY <1>3, <2>1, <3>1, <3>2 DEF Locked
  <2>9. Pooled' /\ Made' /\ AllList' /\ Numbers'
    <3>1. Miscounted \/ \A s \in Tasks : pc'[s] \in Miscounting => temp'[s] = nums
      BY <1>1, <2>4
    <3> QED BY <1>1, <2>1, <3>1, SameLists DEF listVars, localVars, Misplacing
  <2>10. \A s \in Tasks : pc'[s] \in Ordinary
    BY <1>1, <2>4 DEF Ordinary
  <2>11. TypeOK'
    <3>1. pc' \in [Tasks -> Statements \union Stuck \union NotRunning]
      BY <1>0, <1>1, <2>1
    <3>2. status' \in [Tasks -> {"RUNNING", "READY", "BLOCKED", "DIED"}]
      BY <1>0, <2>1
    <3> QED BY <1>0, <2>1, <2>2, <2>3, <3>1, <3>2 DEF TypeOK, listVars, localVars
  <2> QED BY <1>0, <2>5, <2>6, <2>7, <2>8, <2>9, <2>10, <2>11
<1> QED BY <1>2, <1>3

\* list_push of a task that is not in the list.
LEMMA PushNew ==
    ASSUME NEW S, NEW s \in Seq(S), NEW x \in S, IsInjective(s), x \notin Range(s)
    PROVE  /\ <<x>> \o s \in Seq(S)
           /\ IsInjective(<<x>> \o s)
           /\ Range(<<x>> \o s) = Range(s) \union {x}
<1> DEFINE q == <<x>> \o s
<1>1. /\ q \in Seq(S) /\ Len(q) = Len(s) + 1
      /\ \A i \in 1..Len(q) : q[i] = IF i <= 1 THEN x ELSE s[i - 1]
  BY ConcatProperties
<1>2. Len(s) \in Nat /\ DOMAIN s = 1..Len(s) /\ DOMAIN q = 1..(Len(s) + 1)
  BY <1>1, LenProperties
<1>3. q[1] = x /\ \A i \in 1..Len(s) : q[i + 1] = s[i]
  BY <1>1, <1>2
<1> HIDE DEF q
<1>4. \A i \in 1..Len(s) : s[i] # x
  BY <1>2 DEF Range
<1>5. IsInjective(q)
  <2>1. \A i \in 2..(Len(s) + 1) : i - 1 \in 1..Len(s) /\ q[i] = s[i - 1] /\ q[i] # x
    BY <1>1, <1>2, <1>4
  <2>2. \A i \in DOMAIN q : i = 1 \/ i \in 2..(Len(s) + 1)
    BY <1>2
  <2>3. ASSUME NEW i \in 2..(Len(s) + 1), NEW j \in 2..(Len(s) + 1), q[i] = q[j]
        PROVE  i = j
    <3>1. i - 1 = j - 1
      BY <1>2, <2>1, <2>3 DEF IsInjective
    <3> QED BY <1>2, <3>1
  <2> QED BY <1>3, <2>1, <2>2, <2>3 DEF IsInjective
<1>6. Range(q) = Range(s) \union {x}
  <2>1. \A i \in DOMAIN q : q[i] \in Range(s) \union {x}
    <3>1. \A i \in 2..(Len(s) + 1) : i - 1 \in DOMAIN s
      BY <1>2
    <3> QED BY <1>1, <1>2, <3>1 DEF Range
  <2>2. x \in Range(q)
    BY <1>2, <1>3 DEF Range
  <2>3. \A i \in DOMAIN s : s[i] \in Range(q)
    <3>1. \A i \in 1..Len(s) : i + 1 \in DOMAIN q
      BY <1>2
    <3> QED BY <1>2, <1>3, <3>1 DEF Range
  <2> QED BY <2>1, <2>2, <2>3 DEF Range
<1> QED BY <1>1, <1>5, <1>6 DEF q

LEMMA UnlockIInv ==
    ASSUME Core, NEW t \in Tasks, NEW there,
           t = cur, <<pc[t], there>> \in {<<"tidbit", "queue">>, <<"unbit", "open">>},
           Unlock(t, there), UNCHANGED <<shuts, torn>>
    PROVE  Core'
<1> USE DEF Core
<1> DEFINE w == Head(waiters)
<1>0. /\ pc \in [Tasks -> Statements \union Stuck \union NotRunning]
      /\ status \in [Tasks -> {"RUNNING", "READY", "BLOCKED", "DIED"}]
      /\ ready \in Seq(Tasks) /\ waiters \in Seq(Tasks)
      /\ (Misplaced' <=> Misplaced) /\ (Miscounted' <=> Miscounted) /\ IsFiniteSet(torn')
  BY DEF TypeOK, Misplaced, Miscounted
<1>1. /\ holder = t
      /\ pc[t] \notin Blocked \union Misplacing \union Miscounting \union NotRunning
      /\ \A s \in Tasks : pc[s] \notin Misplacing
      /\ Miscounted \/ \A s \in Tasks : pc[s] \notin Miscounting
      /\ SameKind(pc[t], there)
      /\ t = Main => there \notin OffList \union {"die", "unlist"}
      /\ there \in Statements \ (Misplacing \union Miscounting \union NotRunning)
      /\ there \notin Inside \union Blocked
  BY DEF Locked, Alone, Live, SameKind, Inside, Blocked, Misplacing, Miscounting, NotRunning,
    OffList, ExitTail, Late, Statements
<1>2. waiters # <<>> =>
        /\ w \in Range(waiters) /\ w \in Tasks /\ w # t /\ w \notin Range(ready)
        /\ status[w] = "BLOCKED" /\ pc[w] \in Blocked
        /\ Tail(waiters) \in Seq(Tasks) /\ IsInjective(Tail(waiters))
        /\ Range(Tail(waiters)) = Range(waiters) \ {w}
        /\ <<w>> \o ready \in Seq(Tasks) /\ IsInjective(<<w>> \o ready)
        /\ Range(<<w>> \o ready) = Range(ready) \union {w}
  <2> SUFFICES ASSUME waiters # <<>>
               PROVE  /\ w \in Range(waiters) /\ w \in Tasks /\ w # t /\ w \notin Range(ready)
                      /\ status[w] = "BLOCKED" /\ pc[w] \in Blocked
                      /\ Tail(waiters) \in Seq(Tasks) /\ IsInjective(Tail(waiters))
                      /\ Range(Tail(waiters)) = Range(waiters) \ {w}
                      /\ <<w>> \o ready \in Seq(Tasks) /\ IsInjective(<<w>> \o ready)
                      /\ Range(<<w>> \o ready) = Range(ready) \union {w}
    OBVIOUS
  <2>1. /\ w \in Range(waiters) /\ w \in Tasks
        /\ Tail(waiters) \in Seq(Tasks) /\ IsInjective(Tail(waiters))
        /\ Range(Tail(waiters)) = Range(waiters) \ {w}
    BY <1>0, Members, PopFront
  <2> HIDE DEF w
  <2>2. w # t /\ w \notin Range(ready) /\ status[w] = "BLOCKED" /\ pc[w] \in Blocked
    BY <2>1, Members DEF Locked
  <2>3. /\ <<w>> \o ready \in Seq(Tasks) /\ IsInjective(<<w>> \o ready)
        /\ Range(<<w>> \o ready) = Range(ready) \union {w}
    BY <1>0, <2>1, <2>2, Members, PushNew
  <2> QED BY <2>1, <2>2, <2>3
<1>3. /\ holder' = Nobody /\ masked' = FALSE /\ pc' = [pc EXCEPT ![t] = there]
      /\ UNCHANGED <<cur, listVars, tag, localVars>>
      /\ \/ waiters = <<>> /\ UNCHANGED <<waiters, ready, status>>
         \/ /\ waiters # <<>> /\ waiters' = Tail(waiters) /\ ready' = <<w>> \o ready
            /\ status' = [status EXCEPT ![w] = "READY"]
  BY <1>1, <1>2 DEF Unlock, WakeUp, SomebodyWaits, Enable, Goto
<1> HIDE DEF w
<1>4. /\ pc'[t] = there /\ \A s \in Tasks : s # t => pc'[s] = pc[s]
      /\ \A s \in Tasks : Running(s)' <=> Running(s)
  BY <1>0, <1>1, <1>3 DEF Running
<1>5. /\ IsInjective(ready') /\ IsInjective(waiters')
      /\ ready' \in Seq(Tasks) /\ waiters' \in Seq(Tasks)
      /\ Range(ready') \intersect Range(waiters') = {}
      /\ Range(ready') \union Range(waiters') = Range(ready) \union Range(waiters)
      /\ Range(waiters') \subseteq Range(waiters)
      /\ \A s \in Range(waiters') : status'[s] = status[s]
  <2>1. CASE waiters = <<>>
    BY <1>0, <1>3, <2>1, Members
  <2>2. CASE waiters # <<>>
    <3>1. /\ waiters' = Tail(waiters) /\ ready' = <<w>> \o ready
          /\ status' = [status EXCEPT ![w] = "READY"]
      BY <1>3, <2>2
    <3>2. \A s \in Range(waiters') : s # w /\ s \in Tasks
      BY <1>2, <2>2, <3>1, Members
    <3> QED BY <1>0, <1>2, <2>2, <3>1, <3>2, Members
  <2> QED BY <2>1, <2>2
<1>6. OnePlace'
  BY <1>1, <1>3, <1>4, <1>5 DEF OnePlace, Misplacing
<1>7. Alone'
  BY <1>0, <1>1, <1>4 DEF Alone
<1>8. Live'
  <2>1. \A s \in Range(ready') \union Range(waiters') : Running(s)'
    BY <1>4, <1>5, Members DEF Live
  <2>2. Running(Main)' /\ pc'[Main] \notin OffList \union {"die", "unlist"}
    BY <1>1, <1>4, Members DEF Live
  <2>3. Running(cur)' /\ pc'[cur'] # "switch" /\ cur' = cur
    BY <1>1, <1>3, <1>4, Members DEF Live, Misplacing
  <2> QED BY <2>1, <2>2, <2>3 DEF Live
<1>9. Locked'
  <2>1. \A s \in Tasks : pc'[s] \notin Inside
    BY <1>1, <1>4 DEF Locked
  <2>2. \A s \in Range(waiters') : pc'[s] \in Blocked /\ status'[s] = "BLOCKED"
    BY <1>1, <1>4, <1>5, Members DEF Locked
  <2>3. waiters' # <<>> => \E s \in Tasks : pc'[s] \in Blocked /\ s \notin Range(waiters')
    <3>1. CASE waiters = <<>>
      BY <1>3, <3>1
    <3>2. CASE waiters # <<>>
      <4>1. w \in Tasks /\ pc'[w] \in Blocked /\ w \notin Range(waiters')
        BY <1>2, <1>3, <1>4, <3>2
      <4> QED BY <4>1
    <3> QED BY <3>1, <3>2
  <2> QED BY <1>3, <2>1, <2>2, <2>3, Members DEF Locked
<1>10. Pooled' /\ Made' /\ AllList' /\ Numbers'
  <2>1. Miscounted \/ \A s \in Tasks : pc'[s] \in Miscounting => temp'[s] = nums
    BY <1>1, <1>4
  <2> QED BY <1>1, <1>3, <2>1, SameLists DEF listVars, localVars, Misplacing
<1>11. \A s \in Tasks : pc'[s] \in Ordinary
  BY <1>1, <1>4 DEF Ordinary
<1>12. TypeOK'
  <2>1. pc' \in [Tasks -> Statements \union Stuck \union NotRunning]
    BY <1>0, <1>1, <1>3
  <2>2. status' \in [Tasks -> {"RUNNING", "READY", "BLOCKED", "DIED"}]
    BY <1>0, <1>3
  <2> QED BY <1>0, <1>3, <1>5, <2>1, <2>2 DEF TypeOK, listVars, localVars
<1> QED BY <1>0, <1>6, <1>7, <1>8, <1>9, <1>10, <1>11, <1>12

LEMMA LockIInv ==
    ASSUME Core, NEW t \in Tasks, AllocateTid(t) \/ ReleaseTid(t), UNCHANGED <<shuts, torn>>
    PROVE  Core'
<1>1. shuts \in BOOLEAN /\ masked \in BOOLEAN
  BY DEF Core, TypeOK
<1>2. CASE At(t, "tid") /\ TryLock(t, shuts, "tidwait", "tidbit")
  BY <1>1, <1>2, TryLockIInv DEF At, Trying
<1>3. CASE At(t, "tidwait") /\ TryLock(t, masked, "tidwait", "tidbit")
  BY <1>1, <1>3, TryLockIInv DEF At, Trying
<1>4. CASE At(t, "untid") /\ TryLock(t, shuts, "unwait", "unbit")
  BY <1>1, <1>4, TryLockIInv DEF At, Trying
<1>5. CASE At(t, "unwait") /\ TryLock(t, masked, "unwait", "unbit")
  BY <1>1, <1>5, TryLockIInv DEF At, Trying
<1>6. CASE (At(t, "tidbit") /\ Unlock(t, "queue")) \/ (At(t, "unbit") /\ Unlock(t, "open"))
  BY <1>6, UnlockIInv DEF At
<1> QED BY <1>2, <1>3, <1>4, <1>5, <1>6 DEF AllocateTid, ReleaseTid
-------------------------------------------------------------------------------
(* task_start.                                                               *)

\* A statement that has nothing to do with the count leaves it right.
LEMMA SameNumbers ==
    ASSUME Core, UNCHANGED <<all, nums, torn>>,
           Counting' = Counting, Uncounting' = Uncounting,
           Miscounted \/ \A t \in Tasks : pc'[t] \notin Miscounting
    PROVE  Numbers'
<1>1. Miscounted' <=> Miscounted
  BY DEF Miscounted
<1> QED BY <1>1 DEF Core, Numbers

LEMMA TakeFromPoolIInv ==
    ASSUME Core, NEW t \in Tasks, TakeFromPool(t), UNCHANGED <<shuts, torn>> PROVE Core'
<1> DEFINE d == Head(pool)
<1>1. t = cur /\ pc[t] = "take" /\ pool # <<>>
  BY DEF TakeFromPool, At, Core, Pooled
<1>2. /\ tag' = d /\ pool' = Tail(pool) /\ pc' = [pc EXCEPT ![t] = "reuse"]
      /\ UNCHANGED <<masked, cpuVars, all, nums, lockVars, localVars>>
  BY <1>1 DEF TakeFromPool, Goto
<1>3. /\ d \in Range(pool) /\ d \in Tasks /\ pool' \in Seq(Tasks)
      /\ IsInjective(pool') /\ Range(pool') = Range(pool) \ {d}
  BY <1>1, <1>2, PopFront DEF Core, TypeOK, Pooled
<1> HIDE DEF d
<1>4. /\ pc'[t] = "reuse" /\ \A s \in Tasks : s # t => pc'[s] = pc[s]
      /\ \A s \in Tasks : s # t => pc[s] \notin Misplacing
      /\ Miscounted \/ \A s \in Tasks : pc[s] \notin Miscounting
  BY <1>1, <1>2, Members DEF Core, Alone, Misplacing, Miscounting
<1>5. \A s \in Tasks : Running(s)' <=> Running(s)
  BY <1>1, <1>4 DEF Running, NotRunning
<1>6. /\ ~Misplaced' /\ IsFiniteSet(torn') /\ OnePlace' /\ Alone' /\ Live' /\ Locked'
      /\ \A s \in Tasks : pc'[s] \in Ordinary
  <2>1. /\ pc[cur] \notin Inside \union Blocked \union {"switch"}
        /\ pc'[cur] \in Ordinary \ (Inside \union Blocked \union {"switch"})
        /\ pc'[cur] \notin OffList \union {"die", "unlist"}
    BY <1>1, <1>4 DEF Inside, Blocked, Ordinary, Statements, OffList, ExitTail
  <2> QED BY <1>1, <1>2, <1>4, <1>5, <2>1, SamePlaces DEF cpuVars, lockVars
<1>7. \A s \in Tasks : Leaving(s)' <=> Leaving(s)
  BY <1>1, <1>4 DEF Leaving, ExitTail
<1>8. Pooled'
  <2>1. \A s \in Tasks : pc'[s] = "reuse" <=> s = t
    BY <1>4 DEF Misplacing
  <2>2. \A s \in Range(pool') : Leaving(s)'
    BY <1>3, <1>7, Members DEF Core, Pooled
  <2>3. ASSUME NEW s \in Tasks, Leaving(s)'
        PROVE  s \in Range(pool') \/ Taken(s)' \/ \E r \in Tasks : pc'[r] = "reused"
    <3>1. CASE s = d
      BY <1>2, <2>1, <3>1 DEF Taken
    <3>2. CASE s # d
      <4>1. s \in Range(pool) \/ Taken(s) \/ \E r \in Tasks : pc[r] = "reused"
        BY <1>7, <2>3 DEF Core, Pooled
      <4>2. \A r \in Tasks : pc[r] \in {"init", "reused"} => pc'[r] = pc[r]
        BY <1>1, <1>4
      <4>3. \A r \in Tasks : pc[r] # "reuse"
        BY <1>1, <1>4 DEF Misplacing
      <4> QED BY <1>2, <1>3, <3>2, <4>1, <4>2, <4>3 DEF Taken, localVars
    <3> QED BY <3>1, <3>2
  <2>4. /\ tag' \in Tasks /\ pc'[tag'] \in ExitTail \union {"dead"} /\ tag' \notin Range(pool')
        /\ \A r \in Tasks : new'[r] # tag'
    <3>1. pc[d] \in ExitTail \union {"dead"} /\ \A r \in Tasks : new[r] # d
      BY <1>3 DEF Core, Pooled, Leaving
    <3>2. d # t
      BY <1>1, <3>1 DEF ExitTail
    <3> QED BY <1>2, <1>3, <1>4, <3>1, <3>2 DEF localVars
  <2>5. \A s \in Tasks : new'[s] \notin Range(pool') /\ pc'[s] # "take"
    BY <1>2, <1>3, <1>4 DEF Core, Pooled, localVars, Misplacing
  <2> QED BY <1>3, <2>1, <2>2, <2>3, <2>4, <2>5 DEF Pooled, Leaving
<1>9. Made'
  BY <1>1, <1>2, <1>4, <1>7, Members DEF Core, Made, Making, Late, localVars, Leaving, ExitTail
<1>10. AllList'
  <2>1. \A s \in Tasks : ToBeListed(s)' <=> ToBeListed(s)
    BY <1>1, <1>2, <1>4 DEF ToBeListed, localVars
  <2> QED BY <1>1, <1>2, <1>4, <1>5, <2>1 DEF Core, AllList, InAll, OffList, ExitTail
<1>11. Numbers'
  <2>1. Counting' = Counting /\ Uncounting' = Uncounting
    BY <1>1, <1>4 DEF Counting, Uncounting
  <2> QED BY <1>2, <1>4, <2>1, SameNumbers DEF Miscounting
<1>12. TypeOK'
  BY <1>2, <1>3 DEF Core, TypeOK, Statements, Misplaced, Miscounted, cpuVars, lockVars, localVars
<1> QED BY <1>6, <1>8, <1>9, <1>10, <1>11, <1>12 DEF Core

LEMMA AllocateIInv ==
    ASSUME Core, NEW t \in Tasks, Allocate(t), UNCHANGED <<shuts, torn>> PROVE Core'
<1>1. PICK s \in Tasks :
        /\ t = cur /\ pc[t] = "choose" /\ pc[s] = "none" /\ s # t
        /\ new' = [new EXCEPT ![t] = s]
        /\ pc' = [pc EXCEPT ![t] = "init", ![s] = "new"]
        /\ UNCHANGED <<masked, cpuVars, listVars, tag, lockVars, temp>>
  BY DEF Allocate, At, Unused
<1>2. /\ pc'[t] = "init" /\ pc'[s] = "new" /\ new'[t] = s
      /\ \A r \in Tasks : r # t /\ r # s => pc'[r] = pc[r]
      /\ \A r \in Tasks : r # t => new'[r] = new[r]
      /\ \A r \in Tasks : pc[r] \notin Misplacing
      /\ Miscounted \/ \A r \in Tasks : pc[r] \notin Miscounting
  BY <1>1, Members DEF Core, Alone, Misplacing, Miscounting
<1>3. \A r \in Tasks : (Running(r)' <=> Running(r)) /\ (Leaving(r)' <=> Leaving(r))
  BY <1>1, <1>2 DEF Running, NotRunning, Leaving, ExitTail
<1>4. /\ ~Misplaced' /\ IsFiniteSet(torn') /\ OnePlace' /\ Alone' /\ Live' /\ Locked'
      /\ \A r \in Tasks : pc'[r] \in Ordinary
  <2>1. /\ pc[cur] \notin Inside \union Blocked \union {"switch"}
        /\ pc'[cur] \in Ordinary \ (Inside \union Blocked \union {"switch"})
        /\ pc'[cur] \notin OffList \union {"die", "unlist"}
    BY <1>1, <1>2 DEF Inside, Blocked, Ordinary, Statements, OffList, ExitTail
  <2>2. \A r \in Tasks : r # cur =>
           pc'[r] = pc[r] \/ (pc[r] \in NotRunning /\ pc'[r] \in NotRunning)
    BY <1>1, <1>2 DEF NotRunning
  <2> QED BY <1>1, <1>3, <2>1, <2>2, SamePlaces DEF cpuVars, lockVars
<1>5. \A r \in Tasks : new[r] # s
  <2> SUFFICES ASSUME NEW r \in Tasks, new[r] = s PROVE FALSE
    OBVIOUS
  <2>1. pc[r] \in Making \union {"list", "reused"}
    BY <1>1, Members DEF Core, Made
  <2> QED BY <1>1, <2>1 DEF Core, Made, Making, Leaving, ExitTail
<1>6. Pooled'
  <2>1. s \notin Range(pool)
    BY <1>1 DEF Core, Pooled, Leaving, ExitTail
  <2>2. \A r \in Tasks : pc[r] \in {"init", "reused"} => pc'[r] = pc[r] /\ r # t
    BY <1>1, <1>2
  <2>3. \A r \in Tasks : pc[r] \notin {"reuse", "take"} /\ pc'[r] \notin {"reuse", "take"}
    BY <1>1, <1>2 DEF Misplacing
  <2>4. \A r \in Tasks : Taken(r) => Taken(r)'
    BY <1>2, <2>2, <2>3 DEF Taken
  <2> QED BY <1>1, <1>2, <1>3, <2>1, <2>2, <2>3, <2>4, Members DEF Core, Pooled, listVars
<1>7. Made'
  <2>1. \A r \in Tasks : r # t /\ r # s => pc'[r] = pc[r] /\ new'[r] = new[r]
    BY <1>2
  <2>2. pc'[s] \notin Making \union {"list", "reused"} /\ pc[s] \notin Making \union {"list", "reused"}
    BY <1>1, <1>2 DEF Making, Late
  <2>3. new[s] = Nobody /\ new'[s] = Nobody
    BY <1>1, <1>2, <2>2 DEF Core, Made, Making, Late
  <2>4. \A r \in Tasks : new[r] = t => FALSE
    BY <1>1, Members DEF Core, Made, Making, Late, Leaving, ExitTail
  <2> QED BY <1>1, <1>2, <1>3, <1>5, <2>1, <2>2, <2>3, <2>4, Members DEF Core, Made, Making, Late
<1>8. AllList'
  <2>1. \A r \in Tasks : ~ToBeListed(r)' /\ ~ToBeListed(r)
    BY <1>1, <1>2 DEF ToBeListed, Misplacing
  <2>2. \A r \in Tasks : InAll(r)' <=> InAll(r)
    BY <1>1, <1>2, <1>3, <2>1 DEF InAll, OffList, ExitTail, Running, NotRunning
  <2> QED BY <1>1, <2>2 DEF Core, AllList, listVars
<1>9. Numbers'
  <2>1. Counting' = Counting /\ Uncounting' = Uncounting
    BY <1>1, <1>2 DEF Counting, Uncounting
  <2>2. Miscounted \/ \A r \in Tasks : pc'[r] \notin Miscounting
    BY <1>1, <1>2 DEF Miscounting
  <2> QED BY <1>1, <2>1, <2>2, SameNumbers DEF listVars
<1>10. TypeOK'
  <2>1. /\ pc' \in [Tasks -> Statements \union Stuck \union NotRunning]
        /\ new' \in [Tasks -> Tasks \union {Nobody}]
    BY <1>1, Members DEF Statements, NotRunning
  <2> QED BY <1>1, <2>1 DEF Core, TypeOK, Misplaced, Miscounted, cpuVars, listVars, lockVars
<1> QED BY <1>4, <1>6, <1>7, <1>8, <1>9, <1>10 DEF Core

LEMMA ReuseIInv ==
    ASSUME Core, NEW t \in Tasks, Reuse(t), UNCHANGED <<shuts, torn>> PROVE Core'
<1> DEFINE to == pc'[t]
<1>1. /\ t = cur /\ pc[t] = "reuse"
      /\ tag \in Tasks /\ Leaving(tag) /\ tag \notin Range(pool) /\ \A r \in Tasks : new[r] # tag
  BY DEF Reuse, At, Core, Pooled
<1>2. /\ new' = [new EXCEPT ![t] = tag] /\ to \in {"init", "reused"} /\ pc' = [pc EXCEPT ![t] = to]
      /\ UNCHANGED <<masked, cpuVars, listVars, tag, lockVars, temp>>
  BY Members DEF Reuse, Goto
<1> HIDE DEF to
<1>3. /\ pc'[t] = to /\ \A s \in Tasks : s # t => pc'[s] = pc[s]
      /\ new'[t] = tag /\ \A s \in Tasks : s # t => new'[s] = new[s]
      /\ tag # t
      /\ \A s \in Tasks : s # t => pc[s] \notin Misplacing
      /\ Miscounted \/ \A s \in Tasks : pc[s] \notin Miscounting
  BY <1>1, <1>2, Members DEF Core, Alone, Misplacing, Miscounting, Leaving, ExitTail
<1>4. \A s \in Tasks : (Running(s)' <=> Running(s)) /\ (Leaving(s)' <=> Leaving(s))
  BY <1>1, <1>2, <1>3 DEF Running, NotRunning, Leaving, ExitTail
<1>5. /\ ~Misplaced' /\ IsFiniteSet(torn') /\ OnePlace' /\ Alone' /\ Live' /\ Locked'
      /\ \A s \in Tasks : pc'[s] \in Ordinary
  <2>1. /\ pc[cur] \notin Inside \union Blocked \union {"switch"}
        /\ pc'[cur] \in Ordinary \ (Inside \union Blocked \union {"switch"})
        /\ pc'[cur] \notin OffList \union {"die", "unlist"}
    BY <1>1, <1>2, <1>3 DEF Inside, Blocked, Ordinary, Statements, OffList, ExitTail
  <2> QED BY <1>1, <1>2, <1>3, <1>4, <2>1, SamePlaces DEF cpuVars, lockVars
<1>6. \A s \in Tasks : pc'[s] \notin Misplacing
  BY <1>2, <1>3 DEF Misplacing
<1>7. Pooled'
  <2>1. \A s \in Tasks : Taken(s) => Taken(s)' \/ \E r \in Tasks : pc'[r] = "reused"
    <3>1. \A s, r \in Tasks : pc[r] = "reuse" /\ tag = s => r = t
      BY <1>3 DEF Misplacing
    <3>2. \A s \in Tasks : (pc[t] = "reuse" /\ tag = s) => Taken(s)' \/ pc'[t] = "reused"
      BY <1>2, <1>3 DEF Taken
    <3>3. \A s, r \in Tasks : pc[r] = "init" /\ new[r] = s => pc'[r] = "init" /\ new'[r] = s
      BY <1>1, <1>3
    <3> QED BY <3>1, <3>2, <3>3 DEF Taken
  <2>2. \A s \in Tasks : pc[s] = "reused" => pc'[s] = "reused"
    BY <1>1, <1>3
  <2> QED BY <1>1, <1>2, <1>3, <1>4, <1>6, <2>1, <2>2, Members
      DEF Core, Pooled, listVars, Misplacing
<1>8. Made'
  <2>1. \A s \in Tasks : pc[s] = "new" <=> pc'[s] = "new"
    BY <1>1, <1>2, <1>3
  <2>2. \A s \in Tasks : pc'[s] \in Late => s # t
    BY <1>2, <1>3 DEF Late
  <2>3. \A s \in Tasks : pc'[s] # "list"
    BY <1>6 DEF Misplacing
  <2>4. pc'[tag] \in ExitTail \union {"dead"}
    BY <1>1, <1>3 DEF Leaving
  <2> QED BY <1>1, <1>2, <1>3, <1>4, <2>1, <2>2, <2>3, <2>4, Members DEF Core, Made, Making, Leaving
<1>9. AllList'
  <2>1. \A s \in Tasks : ~ToBeListed(s)' /\ ~ToBeListed(s)
    BY <1>1, <1>3, <1>6 DEF ToBeListed, Misplacing
  <2> QED BY <1>1, <1>2, <1>3, <1>4, <2>1 DEF Core, AllList, InAll, OffList, ExitTail, listVars
<1>10. Numbers'
  <2>1. Counting' = Counting /\ Uncounting' = Uncounting
    BY <1>1, <1>2, <1>3 DEF Counting, Uncounting
  <2> QED BY <1>2, <1>3, <2>1, SameNumbers DEF Miscounting, listVars
<1>11. TypeOK'
  <2>1. /\ pc' \in [Tasks -> Statements \union Stuck \union NotRunning]
        /\ new' \in [Tasks -> Tasks \union {Nobody}]
    BY <1>1, <1>2, Members DEF Statements, Stuck, PoolMisuse
  <2> QED BY <1>2, <2>1 DEF Core, TypeOK, Misplaced, Miscounted, cpuVars, listVars, lockVars
<1> QED BY <1>5, <1>7, <1>8, <1>9, <1>10, <1>11 DEF Core

\* After the last step that is followed, the promises hold too.
LEMMA LastStep ==
    ASSUME Core,
           pc[cur] # "switch",
           UNCHANGED <<cur, ready, waiters>>,
           pc'[cur] \in {"wiped", "freed", "overdrawn"},
           \A s \in Tasks : s # cur => pc'[s] = pc[s] \/ (pc[s] = "dead" /\ pc'[s] = "none")
    PROVE  Frozen' /\ OnePlace' /\ NeverStuck' /\ ListsAgree'
<1>1. Running(cur)
  BY DEF Core, Live
<1>2. \A s \in Tasks : Running(s)' <=> Running(s)
  BY <1>1 DEF Running, NotRunning
<1>3. OnePlace'
  BY <1>2 DEF Core, OnePlace
<1>4. NeverStuck'
  BY DEF Core, NeverStuck, Ordinary, Statements, ExitTail, NotRunning
<1>5. ListsAgree'
  BY Members DEF ListsAgree, AtRest
<1> QED BY <1>3, <1>4, <1>5 DEF Frozen

LEMMA InitTaskIInv ==
    ASSUME Core, NEW t \in Tasks, InitTask(t), UNCHANGED <<shuts, torn>> PROVE IInv'
<1> DEFINE n == new[t]
<1>1. /\ t = cur /\ pc[t] = "init" /\ n \in Tasks /\ n # t
      /\ pc[n] = "new" \/ Leaving(n)
      /\ n \notin Range(pool)
      /\ \A s \in Tasks : s # t => new[s] # n
  BY Members DEF InitTask, At, Core, Made, Pooled, Leaving, ExitTail
<1>2. CASE pc[n] \in ExitTail
  <2>1. /\ pc' = [pc EXCEPT ![t] = "wiped"]
        /\ UNCHANGED <<masked, cpuVars, listVars, tag, lockVars, localVars>>
    BY <1>2 DEF InitTask, Stop, Goto, Stand
  <2>2. pc'[t] = "wiped" /\ \A s \in Tasks : s # t => pc'[s] = pc[s]
    BY <2>1, Members
  <2>3. Frozen' /\ OnePlace' /\ NeverStuck' /\ ListsAgree'
    BY <1>1, <2>1, <2>2, LastStep DEF cpuVars, lockVars
  <2>4. PoolIsLeaving'
    <3>1. PoolIsLeaving
      BY CorePromises DEF Promised
    <3>2. t \notin Range(pool)
      BY <1>1 DEF Core, Pooled, Leaving, ExitTail
    <3> QED BY <2>1, <2>2, <3>1, <3>2, Members
        DEF PoolIsLeaving, Misplaced, cpuVars, listVars, lockVars, localVars
  <2>5. TypeOK'
    <3>1. pc' \in [Tasks -> Statements \union Stuck \union NotRunning]
      BY <2>1, Members DEF Stuck, PoolMisuse
    <3> QED BY <2>1, <3>1
        DEF Core, TypeOK, Misplaced, Miscounted, cpuVars, listVars, lockVars, localVars
  <2> QED BY <2>3, <2>4, <2>5 DEF IInv, Promised
<1>3. CASE pc[n] \notin ExitTail
  <2>1. pc[n] \in {"new", "dead"} /\ n \notin Range(ready) \union Range(waiters)
    BY <1>1, <1>3 DEF Leaving, Core, Live, Running, NotRunning
  <2>2. /\ status' = [status EXCEPT ![n] = "READY"]
        /\ pc' = [pc EXCEPT ![t] = "tid", ![n] = "new"]
        /\ UNCHANGED <<masked, cur, ready, listVars, tag, lockVars, localVars>>
    BY <1>3, <2>1 DEF InitTask, Running, NotRunning
  <2>3. /\ pc'[t] = "tid" /\ pc'[n] = "new" /\ new[t] = n
        /\ \A s \in Tasks : s # t /\ s # n => pc'[s] = pc[s]
        /\ \A s \in Tasks : s # n => status'[s] = status[s]
        /\ \A s \in Tasks : pc[s] \notin Misplacing /\ pc'[s] \notin Misplacing
        /\ Miscounted \/ \A s \in Tasks : pc[s] \notin Miscounting
    BY <1>1, <2>2, Members DEF Core, Alone, Misplacing, Miscounting, TypeOK
  <2> HIDE DEF n
  <2>4. \A s \in Tasks : Running(s)' <=> Running(s)
    BY <1>1, <2>1, <2>3 DEF Running, NotRunning
  <2>5. /\ ~Misplaced' /\ IsFiniteSet(torn') /\ OnePlace' /\ Alone' /\ Live' /\ Locked'
        /\ \A s \in Tasks : pc'[s] \in Ordinary
    <3>1. /\ pc[cur] \notin Inside \union Blocked \union {"switch"}
          /\ pc'[cur] \in Ordinary \ (Inside \union Blocked \union {"switch"})
          /\ pc'[cur] \notin OffList \union {"die", "unlist"}
      BY <1>1, <2>3 DEF Inside, Blocked, Ordinary, Statements, OffList, ExitTail
    <3>2. \A s \in Tasks : s # cur =>
             pc'[s] = pc[s] \/ (pc[s] \in NotRunning /\ pc'[s] \in NotRunning)
      BY <1>1, <2>1, <2>3 DEF NotRunning
    <3>3. \A s \in Range(waiters) : status'[s] = status[s]
      BY <2>1, <2>3, Members
    <3> QED BY <1>1, <2>2, <2>4, <3>1, <3>2, <3>3, SamePlaces DEF lockVars
  <2>6. \A s \in Tasks : Leaving(s)' <=> Leaving(s) /\ s # n
    BY <1>1, <2>3 DEF Leaving, ExitTail
  <2>7. Pooled'
    <3>1. \A s \in Tasks : s # n /\ Taken(s) => Taken(s)'
      <4>1. \A s, r \in Tasks : s # n /\ pc[r] = "init" /\ new[r] = s => pc'[r] = "init"
        BY <1>1, <2>1, <2>3
      <4>2. \A r \in Tasks : pc[r] # "reuse"
        BY <2>3 DEF Misplacing
      <4> QED BY <2>2, <4>1, <4>2 DEF Taken, localVars
    <3>2. \A s \in Tasks : pc[s] = "reused" => pc'[s] = "reused"
      BY <1>1, <2>1, <2>3
    <3>3. \A s \in Tasks : pc'[s] \notin {"reuse", "take"}
      BY <2>3 DEF Misplacing
    <3>4. \A s \in Range(pool) : s \in Tasks /\ s # n
      BY <1>1, Members
    <3> QED BY <1>1, <2>2, <2>6, <3>1, <3>2, <3>3, <3>4 DEF Core, Pooled, listVars, localVars
  <2>8. Made'
    <3>1. \A s \in Tasks : pc'[s] \in Late => pc[s] \in Late \/ s = t
      BY <1>1, <2>3 DEF Late
    <3>2. \A s \in Tasks : s # t /\ new[s] # Nobody => new[s] # n /\ new[s] # t
      <4> SUFFICES ASSUME NEW s \in Tasks, s # t, new[s] # Nobody, new[s] = t PROVE FALSE
        BY <1>1
      <4>1. pc[s] \in Making \union {"list", "reused"}
        BY DEF Core, Made
      <4> QED BY <1>1, <4>1 DEF Core, Made, Making, Leaving, ExitTail
    <3>3. \A s \in Tasks : pc'[s] \in {"init", "reused"} => pc[s] = pc'[s] /\ s # t
      BY <1>1, <2>3
    <3>4. \A s \in Tasks : pc[s] = "new" => pc'[s] = "new"
      BY <1>1, <2>3
    <3>5. \A s \in Tasks : new[s] # Nobody => pc'[s] \in Making \union {"list", "reused"}
      BY <1>1, <2>1, <2>3 DEF Core, Made, Making, Late
    <3>6. \A s \in Tasks : pc'[s] # "list"
      BY <2>3 DEF Misplacing
    <3>7. \A s \in Tasks : pc'[s] \in Late => new[s] \in Tasks /\ pc'[new[s]] = "new"
      BY <1>1, <2>3, <3>1, <3>4 DEF Core, Made
    <3>8. \A s \in Tasks : pc'[s] \in {"init", "reused"} => new[s] # Nobody /\ new[s] # n
      BY <3>2, <3>3, Members DEF Core, Made
    <3>9. \A s \in Tasks : pc'[s] = "init" =>
            new[s] \in Tasks /\ (pc'[new[s]] = "new" \/ pc'[new[s]] \in ExitTail \union {"dead"})
      BY <2>3, <3>2, <3>3, <3>8 DEF Core, Made, Leaving
    <3>10. \A s \in Tasks : pc'[s] = "reused" =>
             new[s] \in Tasks /\ pc'[new[s]] \in ExitTail \union {"dead"}
      BY <2>3, <3>2, <3>3, <3>8 DEF Core, Made, Leaving
    <3>11. \A s, r \in Tasks : new[s] = new[r] /\ new[s] # Nobody => s = r
      BY DEF Core, Made
    <3>12. new' = new
      BY <2>2 DEF localVars
    <3> QED BY <3>5, <3>6, <3>7, <3>9, <3>10, <3>11, <3>12 DEF Made, Leaving
  <2>9. AllList'
    <3>1. \A s \in Tasks : ~ToBeListed(s)' /\ ~ToBeListed(s)
      BY <2>3 DEF ToBeListed, Misplacing
    <3>2. \A s \in Tasks : InAll(s)' <=> InAll(s)
      BY <1>1, <2>1, <2>3, <2>4, <3>1 DEF InAll, Running, NotRunning, OffList, ExitTail
    <3> QED BY <2>2, <3>2 DEF Core, AllList, listVars
  <2>10. Numbers'
    <3>1. Counting' = Counting /\ Uncounting' = Uncounting
      BY <1>1, <2>1, <2>3 DEF Counting, Uncounting
    <3>2. Miscounted \/ \A s \in Tasks : pc'[s] \notin Miscounting
      BY <1>1, <2>3 DEF Miscounting
    <3> QED BY <2>2, <3>1, <3>2, SameNumbers DEF listVars
  <2>11. TypeOK'
    <3>1. /\ pc' \in [Tasks -> Statements \union Stuck \union NotRunning]
          /\ status' \in [Tasks -> {"RUNNING", "READY", "BLOCKED", "DIED"}]
      BY <2>2, Members DEF Statements, NotRunning, Core, TypeOK
    <3> QED BY <2>2, <3>1 DEF Core, TypeOK, Misplaced, Miscounted, listVars, lockVars, localVars
  <2> QED BY <2>5, <2>7, <2>8, <2>9, <2>10, <2>11 DEF Core, IInv
<1> QED BY <1>2, <1>3

LEMMA QueueIInv ==
    ASSUME Core, NEW t \in Tasks, Queue(t), UNCHANGED <<shuts, torn>> PROVE Core'
<1> DEFINE n == new[t]
<1>1. /\ t = cur /\ pc[t] = "queue" /\ n \in Tasks /\ pc[n] = "new" /\ n # t
      /\ \A s \in Tasks : s # t => new[s] # n
  BY Members DEF Queue, At, Core, Made, Late
<1>2. n \notin Range(ready) \union Range(waiters)
  BY <1>1 DEF Running, NotRunning, Core, Live
<1>3. /\ ready' = Append(ready, n)
      /\ pc' = [pc EXCEPT ![t] = "list", ![n] = "own"]
      /\ UNCHANGED <<masked, cur, status, listVars, tag, lockVars, localVars>>
  BY <1>2 DEF Queue
<1>4. /\ pc'[t] = "list" /\ pc'[n] = "own" /\ new[t] = n
      /\ \A s \in Tasks : s # t /\ s # n => pc'[s] = pc[s]
      /\ \A s \in Tasks : pc[s] \notin Misplacing
      /\ Miscounted \/ \A s \in Tasks : pc[s] \notin Miscounting
  BY <1>1, <1>3, Members DEF Core, Alone, Misplacing, Miscounting
<1>5. /\ ready' \in Seq(Tasks) /\ IsInjective(ready')
      /\ Range(ready') = Range(ready) \union {n}
  BY <1>1, <1>2, <1>3, AppendNew DEF Core, TypeOK, OnePlace
<1> HIDE DEF n
<1>6. /\ \A s \in Tasks : Running(s)' <=> Running(s) \/ s = n
      /\ \A s \in Tasks : Leaving(s)' <=> Leaving(s)
  BY <1>1, <1>4 DEF Running, NotRunning, Leaving, ExitTail
<1>7. TypeOK' /\ ~Misplaced' /\ IsFiniteSet(torn') /\ \A s \in Tasks : pc'[s] \in Ordinary
  <2>1. pc' \in [Tasks -> Statements \union Stuck \union NotRunning]
    BY <1>3, Members DEF Statements
  <2>2. \A s \in Tasks : pc'[s] \in Ordinary
    BY <1>4 DEF Core, Ordinary, Statements
  <2> QED BY <1>3, <1>5, <2>1, <2>2
      DEF Core, TypeOK, Misplaced, Miscounted, listVars, lockVars, localVars
<1>8. OnePlace' /\ Alone'
  <2>1. Alone'
    BY <1>1, <1>3, <1>4 DEF Alone, Misplacing, Miscounting, Miscounted
  <2>2. pc[cur] # "switch"
    BY <1>1
  <2> QED BY <1>1, <1>2, <1>3, <1>5, <1>6, <2>1, <2>2, Members DEF Core, OnePlace, lockVars
<1>9. Live'
  BY <1>1, <1>3, <1>4, <1>5, <1>6, Members DEF Core, Live, lockVars, OffList, ExitTail
<1>10. Locked'
  <2>1. \A s \in Tasks :
          /\ pc'[s] \in Inside <=> pc[s] \in Inside
          /\ pc'[s] \in Blocked <=> pc[s] \in Blocked
    BY <1>1, <1>4 DEF Inside, Blocked
  <2> QED BY <1>3, <2>1, Members DEF Core, Locked, lockVars
<1>11. Pooled'
  <2>1. \A s \in Tasks : pc[s] \in {"init", "reused"} => pc'[s] = pc[s]
    BY <1>1, <1>4
  <2>2. \A s \in Tasks : pc[s] \notin {"reuse", "take"} /\ pc'[s] \notin {"reuse", "take"}
    BY <1>1, <1>4 DEF Misplacing
  <2>3. \A s \in Tasks : Taken(s) => Taken(s)'
    BY <1>3, <2>1, <2>2 DEF Taken, localVars
  <2> QED BY <1>3, <1>6, <2>1, <2>2, <2>3, Members DEF Core, Pooled, listVars, localVars
<1>12. Made'
  <2>1. \A s \in Tasks : s # t /\ new[s] # Nobody => new[s] # n /\ new[s] # t
    <3> SUFFICES ASSUME NEW s \in Tasks, s # t, new[s] # Nobody, new[s] = t PROVE FALSE
      BY <1>1
    <3>1. pc[s] \in Making \union {"list", "reused"}
      BY DEF Core, Made
    <3> QED BY <1>1, <3>1 DEF Core, Made, Making, Leaving, ExitTail
  <2>2. \A s \in Tasks : s # t => (pc'[s] \in Making \union {"list", "reused"} => pc'[s] = pc[s])
    BY <1>1, <1>4 DEF Making, Late
  <2>3. pc'[t] \notin Making \union {"reused"}
    BY <1>4 DEF Making, Late
  <2>4. \A s \in Tasks : pc'[s] = "list" => s = t
    BY <1>1, <1>4 DEF Misplacing
  <2>5. \A s \in Tasks : new[s] # Nobody => pc'[s] \in Making \union {"list", "reused"}
    BY <1>1, <1>4 DEF Core, Made, Making, Late
  <2>6. \A s \in Tasks : s # t /\ new[s] # Nobody =>
          (new[s] \in Tasks => pc'[new[s]] = pc[new[s]])
    BY <1>4, <2>1
  <2>7. \A s \in Tasks : pc'[s] \in Late => new[s] \in Tasks /\ pc'[new[s]] = "new"
    BY <2>2, <2>3, <2>6, Members DEF Core, Made, Making
  <2>8. \A s \in Tasks : pc'[s] = "init" =>
          new[s] \in Tasks /\ (pc'[new[s]] = "new" \/ pc'[new[s]] \in ExitTail \union {"dead"})
    BY <2>2, <2>3, <2>6, Members DEF Core, Made, Making, Leaving
  <2>9. \A s \in Tasks : pc'[s] = "reused" =>
          new[s] \in Tasks /\ pc'[new[s]] \in ExitTail \union {"dead"}
    BY <2>2, <2>3, <2>6, Members DEF Core, Made, Making, Leaving
  <2>10. \A s, r \in Tasks : new[s] = new[r] /\ new[s] # Nobody => s = r
    BY DEF Core, Made
  <2>11. new' = new
    BY <1>3 DEF localVars
  <2> QED BY <1>1, <1>4, <2>4, <2>5, <2>7, <2>8, <2>9, <2>10, <2>11 DEF Made, Leaving
<1>13. AllList'
  <2>1. \A s \in Tasks : ~ToBeListed(s) /\ (ToBeListed(s)' <=> s = n)
    BY <1>1, <1>3, <1>4 DEF ToBeListed, Misplacing, localVars
  <2>2. \A s \in Tasks : InAll(s)' <=> InAll(s)
    BY <1>1, <1>4, <1>6, <2>1 DEF InAll, Running, NotRunning, OffList, ExitTail
  <2> QED BY <1>3, <2>2 DEF Core, AllList, listVars
<1>14. Numbers'
  <2>1. Counting' = Counting /\ Uncounting' = Uncounting
    BY <1>1, <1>4 DEF Counting, Uncounting
  <2>2. Miscounted \/ \A s \in Tasks : pc'[s] \notin Miscounting
    BY <1>1, <1>4 DEF Miscounting
  <2> QED BY <1>3, <2>1, <2>2, SameNumbers DEF listVars
<1> QED BY <1>7, <1>8, <1>9, <1>10, <1>11, <1>12, <1>13, <1>14 DEF Core

\* The tasks between the list and the count are listed, or just unlisted.
LEMMA CountBounds ==
    ASSUME Core
    PROVE  /\ IsFiniteSet(Counting) /\ IsFiniteSet(Uncounting)
           /\ Len(all) \in Nat /\ nums \in Int /\ Cardinality(Tasks) \in Nat
           /\ Cardinality(Counting) \in Nat /\ Cardinality(Uncounting) \in Nat
           /\ Cardinality(Counting) <= Len(all)
           /\ Len(all) + Cardinality(Uncounting) <= Cardinality(Tasks)
<1>1. IsFiniteSet(Range(all)) /\ Cardinality(Range(all)) = Len(all) /\ Len(all) \in Nat
  BY LengthIsSize, LenProperties DEF Core, TypeOK, AllList
<1>2. Counting \in SUBSET Range(all)
  <2>1. ASSUME NEW s \in Tasks, pc[s] \in {"count", "counted"} PROVE InAll(s)
    <3>1. \A r \in Tasks : pc[r] = "list" /\ new[r] = s => FALSE
      BY <2>1 DEF Core, Made
    <3> QED BY <2>1, <3>1 DEF InAll, Running, NotRunning, ToBeListed, OffList, ExitTail
  <2> QED BY <2>1 DEF Counting, Core, AllList
<1>3. Uncounting \in SUBSET Tasks /\ Range(all) \in SUBSET Tasks
  BY Members DEF Uncounting
<1>4. Uncounting \intersect Range(all) = {}
  BY <1>3 DEF Uncounting, Core, AllList, InAll, OffList
<1>5. IsFiniteSet(Uncounting) /\ IsFiniteSet(Tasks) /\ IsFiniteSet(Counting)
  BY <1>1, <1>2, <1>3, FS_Subset, TaskLifeAssumption
<1>6. Cardinality(Counting) <= Len(all)
  BY <1>1, <1>2, FS_Subset
<1>7. Cardinality(Range(all) \union Uncounting) = Len(all) + Cardinality(Uncounting)
  <2>1. Cardinality(Range(all) \union Uncounting) =
          Cardinality(Range(all)) + Cardinality(Uncounting)
          - Cardinality(Range(all) \intersect Uncounting)
    BY <1>1, <1>5, FS_Union
  <2>2. Range(all) \intersect Uncounting = {}
    BY <1>4
  <2>3. Cardinality(Range(all) \intersect Uncounting) = 0
    BY <2>2, FS_EmptySet
  <2>4. Cardinality(Uncounting) \in Nat
    BY <1>5, FS_CardinalityType
  <2> QED BY <1>1, <2>1, <2>3, <2>4
<1>8. Cardinality(Range(all) \union Uncounting) <= Cardinality(Tasks)
  BY <1>3, <1>5, FS_Subset
<1>9. Cardinality(Counting) \in Nat /\ Cardinality(Uncounting) \in Nat /\ Cardinality(Tasks) \in Nat
  BY <1>5, FS_CardinalityType
<1>10. nums \in Int
  BY DEF Core, TypeOK
<1> QED BY <1>1, <1>5, <1>6, <1>7, <1>8, <1>9, <1>10

\* The tasks and the pool, when the current task goes on by one statement that is not at
\* the beginning of task_start.
LEMMA SamePool ==
    ASSUME Core, NEW to,
           pc' = [pc EXCEPT ![cur] = to],
           {pc[cur], to} \intersect (NotRunning \union {"take", "reuse", "init", "reused"}) = {},
           pc[cur] \in ExitTail <=> to \in ExitTail,
           UNCHANGED <<pool, new>>
    PROVE  Pooled'
<1>1. /\ cur \in Tasks /\ pc'[cur] = to /\ \A s \in Tasks : s # cur => pc'[s] = pc[s]
      /\ \A s \in Tasks : pc[s] \notin {"take", "reuse"} /\ pc'[s] \notin {"take", "reuse"}
  BY Members DEF Core, Alone, Misplacing
<1>2. \A s \in Tasks : (Leaving(s)' <=> Leaving(s)) /\ (Taken(s) => Taken(s)')
  BY <1>1 DEF Leaving, Taken, NotRunning
<1>3. \A s \in Tasks : pc[s] = "reused" => pc'[s] = "reused"
  BY <1>1
<1> QED BY <1>1, <1>2, <1>3, Members DEF Core, Pooled

LEMMA SameMade ==
    ASSUME Core, NEW to,
           pc' = [pc EXCEPT ![cur] = to],
           {pc[cur], to} \intersect (Making \union {"list", "reused", "new"}) = {},
           pc[cur] \in ExitTail \union {"dead"} => to \in ExitTail \union {"dead"},
           UNCHANGED new
    PROVE  Made'
<1>1. pc'[cur] = to /\ \A s \in Tasks : s # cur => pc'[s] = pc[s]
  BY Members
<1>2. \A s \in Tasks :
        (s # cur /\ pc'[s] = pc[s]) \/ pc'[s] \notin Making \union {"list", "reused", "new"}
  BY <1>1
<1>3. \A s \in Tasks : pc[s] \in Making \union {"list", "reused", "new"} => pc'[s] = pc[s]
  BY <1>1
<1>4. \A s \in Tasks : pc'[s] # "list"
  BY <1>1 DEF Core, Alone, Misplacing
<1>5. \A s \in Tasks : pc[s] \in ExitTail \union {"dead"} => pc'[s] \in ExitTail \union {"dead"}
  BY <1>1
<1>6. \A s \in Tasks : pc'[s] \in Late => new[s] \in Tasks /\ pc'[new[s]] = "new"
  BY <1>2, <1>3 DEF Core, Made, Making
<1>7. \A s \in Tasks : pc'[s] = "init" =>
        new[s] \in Tasks /\ (pc'[new[s]] = "new" \/ pc'[new[s]] \in ExitTail \union {"dead"})
  BY <1>2, <1>3, <1>5 DEF Core, Made, Making, Leaving
<1>8. \A s \in Tasks : pc'[s] = "reused" => new[s] \in Tasks /\ pc'[new[s]] \in ExitTail \union {"dead"}
  BY <1>2, <1>5 DEF Core, Made, Leaving
<1>9. \A s \in Tasks : new[s] # Nobody => pc'[s] \in Making \union {"list", "reused"}
  BY <1>3 DEF Core, Made
<1> QED BY <1>4, <1>6, <1>7, <1>8, <1>9 DEF Core, Made, Leaving

LEMMA ListIInv ==
    ASSUME Core, NEW t \in Tasks, List(t), UNCHANGED <<shuts, torn>> PROVE Core'
<1> DEFINE n == new[t]
<1>1. t = cur /\ pc[t] = "list" /\ n \in Tasks /\ pc[n] = "own" /\ n # t
  BY DEF List, At, Core, Made
<1>2. n \notin Range(all)
  BY <1>1 DEF Core, AllList, InAll, ToBeListed
<1>3. /\ all' = Append(all, n) /\ new' = [new EXCEPT ![t] = Nobody]
      /\ pc' = [pc EXCEPT ![t] = "count"]
      /\ UNCHANGED <<masked, cpuVars, nums, pool, tag, lockVars, temp>>
  BY <1>2 DEF List, Listed, Goto
<1>4. /\ pc'[t] = "count" /\ \A s \in Tasks : s # t => pc'[s] = pc[s]
      /\ new'[t] = Nobody /\ \A s \in Tasks : s # t => new'[s] = new[s]
      /\ \A s \in Tasks : s # t => pc[s] \notin Misplacing
      /\ \A s \in Tasks : pc'[s] \notin Misplacing
      /\ Miscounted \/ \A s \in Tasks : pc[s] \notin Miscounting
  BY <1>1, <1>3, Members DEF Core, Alone, Misplacing, Miscounting
<1>5. /\ all' \in Seq(Tasks) /\ IsInjective(all') /\ Len(all') = Len(all) + 1
      /\ Range(all') = Range(all) \union {n}
  BY <1>1, <1>2, <1>3, AppendNew DEF Core, TypeOK, AllList
<1>6. new[t] = n
  OBVIOUS
<1> HIDE DEF n
<1>7. \A s \in Tasks : (Running(s)' <=> Running(s)) /\ (Leaving(s)' <=> Leaving(s))
  BY <1>1, <1>4 DEF Running, NotRunning, Leaving, ExitTail
<1>8. /\ ~Misplaced' /\ IsFiniteSet(torn') /\ OnePlace' /\ Alone' /\ Live' /\ Locked'
      /\ \A s \in Tasks : pc'[s] \in Ordinary
  <2>1. /\ pc[cur] \notin Inside \union Blocked \union {"switch"}
        /\ pc'[cur] \in Ordinary \ (Inside \union Blocked \union {"switch"})
        /\ pc'[cur] \notin OffList \union {"die", "unlist"}
    BY <1>1, <1>4 DEF Inside, Blocked, Ordinary, Statements, OffList, ExitTail
  <2> QED BY <1>1, <1>3, <1>4, <1>7, <2>1, SamePlaces DEF cpuVars, lockVars
<1>9. Pooled'
  <2>1. \A s \in Tasks : pc[s] \in {"init", "reused"} => s # t /\ pc'[s] = pc[s]
    BY <1>1, <1>4
  <2>2. \A s \in Tasks : pc[s] \notin {"reuse", "take"} /\ pc'[s] \notin {"reuse", "take"}
    BY <1>1, <1>4 DEF Misplacing
  <2>3. \A s \in Tasks : Taken(s) => Taken(s)'
    BY <1>4, <2>1, <2>2 DEF Taken
  <2>4. \A s \in Tasks : new'[s] \notin Range(pool)
    BY <1>4, Members DEF Core, Pooled
  <2> QED BY <1>3, <1>7, <2>1, <2>2, <2>3, <2>4, Members DEF Core, Pooled
<1>10. Made'
  <2>1. \A s \in Tasks : pc'[s] \in Making \union {"list", "reused"} => s # t /\ pc'[s] = pc[s]
    BY <1>1, <1>4 DEF Making, Late
  <2>2. \A s \in Tasks : pc'[s] = "new" <=> pc[s] = "new"
    BY <1>1, <1>4
  <2>3. \A s \in Tasks : s # t /\ pc[s] \in Making \union {"list", "reused"} =>
          pc'[s] \in Making \union {"list", "reused"}
    BY <1>4
  <2>4. \A s \in Tasks : pc'[s] # "list"
    BY <1>4 DEF Misplacing
  <2>5. \A s \in Tasks : pc'[s] \in Late => new'[s] \in Tasks /\ pc'[new'[s]] = "new"
    BY <1>4, <2>1, <2>2 DEF Core, Made, Making
  <2>6. \A s \in Tasks : pc'[s] = "init" =>
          new'[s] \in Tasks /\ (pc'[new'[s]] = "new" \/ pc'[new'[s]] \in ExitTail \union {"dead"})
    BY <1>4, <1>7, <2>1, <2>2 DEF Core, Made, Making, Leaving
  <2>7. \A s \in Tasks : pc'[s] = "reused" =>
          new'[s] \in Tasks /\ pc'[new'[s]] \in ExitTail \union {"dead"}
    BY <1>4, <1>7, <2>1 DEF Core, Made, Leaving
  <2>8. \A s, r \in Tasks : new'[s] = new'[r] /\ new'[s] # Nobody => s = r
    BY <1>4 DEF Core, Made
  <2>9. \A s \in Tasks : new'[s] # Nobody => pc'[s] \in Making \union {"list", "reused"}
    BY <1>4, <2>3 DEF Core, Made
  <2> QED BY <2>4, <2>5, <2>6, <2>7, <2>8, <2>9 DEF Made, Leaving
<1>11. AllList'
  <2>1. \A s \in Tasks : (ToBeListed(s) <=> s = n) /\ ~ToBeListed(s)'
    BY <1>1, <1>4, <1>6 DEF ToBeListed, Misplacing
  <2>2. \A s \in Tasks : InAll(s)' <=> InAll(s) \/ s = n
    BY <1>1, <1>4, <1>7, <2>1 DEF InAll, Running, NotRunning, OffList, ExitTail
  <2> QED BY <1>1, <1>5, <2>2 DEF Core, AllList
<1>12. Numbers'
  <2>0. Miscounted' <=> Miscounted
    BY DEF Miscounted
  <2>1. Counting' = Counting \union {t} /\ t \notin Counting /\ Uncounting' = Uncounting
    BY <1>1, <1>4 DEF Counting, Uncounting
  <2>2. /\ Cardinality(Counting') = Cardinality(Counting) + 1
        /\ Cardinality(Uncounting') = Cardinality(Uncounting)
        /\ nums' = nums /\ Len(all') = Len(all) + 1
    BY <1>3, <1>5, <2>1, CountBounds, FS_AddElement
  <2>3. Miscounted \/ nums + Cardinality(Counting) = Len(all) + Cardinality(Uncounting)
    BY DEF Core, Numbers
  <2>4. Miscounted \/ nums' + Cardinality(Counting') = Len(all') + Cardinality(Uncounting')
    BY <2>2, <2>3, CountBounds
  <2>5. Miscounted \/ \A s \in Tasks : pc'[s] \notin Miscounting
    BY <1>4 DEF Miscounting
  <2> QED BY <2>0, <2>4, <2>5 DEF Numbers
<1>13. TypeOK'
  <2>1. /\ pc' \in [Tasks -> Statements \union Stuck \union NotRunning]
        /\ new' \in [Tasks -> Tasks \union {Nobody}]
    BY <1>3, Members DEF Statements
  <2> QED BY <1>3, <1>5, <2>1 DEF Core, TypeOK, Misplaced, Miscounted, cpuVars, lockVars
<1> QED BY <1>8, <1>9, <1>10, <1>11, <1>12, <1>13 DEF Core

LEMMA CountedIInv ==
    ASSUME Core, NEW t \in Tasks, Counted(t), UNCHANGED <<shuts, torn>> PROVE Core'
<1>1. t = cur /\ pc[t] = "counted" /\ (Miscounted \/ temp[t] = nums)
  BY DEF Counted, At, Core, Numbers, Miscounting
<1>2. /\ nums' = temp[t] + 1 /\ temp' = [temp EXCEPT ![t] = 0] /\ masked' = FALSE
      /\ pc' = [pc EXCEPT ![t] = "own"]
      /\ UNCHANGED <<cpuVars, all, pool, tag, lockVars, new>>
  BY <1>1 DEF Counted, OneMore, Goto, Enable
<1>3. /\ pc'[t] = "own" /\ \A s \in Tasks : s # t => pc'[s] = pc[s]
      /\ \A s \in Tasks : pc[s] \notin Misplacing /\ pc'[s] \notin Misplacing
      /\ Miscounted \/ \A s \in Tasks : s # t => pc[s] \notin Miscounting
  BY <1>1, <1>2, Members DEF Core, Alone, Misplacing, Miscounting
<1>4. \A s \in Tasks : (Running(s)' <=> Running(s)) /\ (Leaving(s)' <=> Leaving(s))
  BY <1>1, <1>3 DEF Running, NotRunning, Leaving, ExitTail
<1>5. /\ ~Misplaced' /\ IsFiniteSet(torn') /\ OnePlace' /\ Alone' /\ Live' /\ Locked'
      /\ \A s \in Tasks : pc'[s] \in Ordinary
  <2>1. /\ pc[cur] \notin Inside \union Blocked \union {"switch"}
        /\ pc'[cur] \in Ordinary \ (Inside \union Blocked \union {"switch"})
        /\ pc'[cur] \notin OffList \union {"die", "unlist"}
    BY <1>1, <1>3 DEF Inside, Blocked, Ordinary, Statements, OffList, ExitTail
  <2> QED BY <1>1, <1>2, <1>3, <1>4, <2>1, SamePlaces DEF cpuVars, lockVars
<1>6. Counting' = Counting \ {t} /\ t \in Counting /\ Uncounting' = Uncounting
  BY <1>1, <1>3 DEF Counting, Uncounting
<1>7. Cardinality(Counting) = Cardinality(Counting') + 1 /\ Cardinality(Counting') \in Nat
  <2>1. IsFiniteSet(Counting')
    BY <1>6, CountBounds, FS_RemoveElement
  <2>2. Cardinality(Counting') = Cardinality(Counting) - 1
    BY <1>6, CountBounds, FS_RemoveElement
  <2>3. Cardinality(Counting') \in Nat
    BY <2>1, FS_CardinalityType
  <2> QED BY <2>2, <2>3, CountBounds
<1>8. Miscounted \/ (temp[t] = nums /\ nums + Cardinality(Counting) = Len(all) + Cardinality(Uncounting))
  BY <1>1 DEF Core, Numbers
<1>9. Miscounted \/ nums' \in 0..Cardinality(Tasks)
  <2> SUFFICES ASSUME ~Miscounted PROVE nums' \in 0..Cardinality(Tasks)
    OBVIOUS
  <2>1. /\ nums' = nums + 1 /\ nums \in 0..Cardinality(Tasks)
        /\ nums + Cardinality(Counting) = Len(all) + Cardinality(Uncounting)
    BY <1>2, <1>8 DEF Core, TypeOK
  <2> QED BY <1>7, <2>1, CountBounds
<1>10. TypeOK'
  <2>1. temp \in [Tasks -> Int]
    BY DEF Core, TypeOK
  <2>2. temp' \in [Tasks -> Int] /\ nums' \in Int
    BY <1>2, <2>1
  <2>3. pc' \in [Tasks -> Statements \union Stuck \union NotRunning]
    BY <1>2, Members DEF Statements
  <2> QED BY <1>2, <1>9, <2>2, <2>3 DEF Core, TypeOK, Misplaced, Miscounted, cpuVars, lockVars
<1>11. Pooled'
  <2>1. /\ {pc[cur], "own"} \intersect (NotRunning \union {"take", "reuse", "init", "reused"}) = {}
        /\ pc[cur] \in ExitTail <=> "own" \in ExitTail
    BY <1>1 DEF NotRunning, ExitTail
  <2> QED BY <1>1, <1>2, <2>1, SamePool
<1>12. Made'
  <2>1. /\ {pc[cur], "own"} \intersect (Making \union {"list", "reused", "new"}) = {}
        /\ pc[cur] \notin ExitTail \union {"dead"}
    BY <1>1 DEF Making, Late, ExitTail
  <2> QED BY <1>1, <1>2, <2>1, SameMade
<1>13. AllList'
  <2>1. \A s \in Tasks : ~ToBeListed(s) /\ ~ToBeListed(s)'
    BY <1>3 DEF ToBeListed, Misplacing
  <2> QED BY <1>1, <1>2, <1>3, <1>4, <2>1 DEF Core, AllList, InAll, OffList, ExitTail
<1>14. Numbers'
  <2>0. Miscounted' <=> Miscounted
    BY DEF Miscounted
  <2>1. Miscounted \/ nums' + Cardinality(Counting') = Len(all') + Cardinality(Uncounting')
    BY <1>2, <1>6, <1>7, <1>8, CountBounds
  <2>2. Miscounted \/ \A s \in Tasks : pc'[s] \notin Miscounting
    BY <1>3 DEF Miscounting
  <2> QED BY <2>0, <2>1, <2>2 DEF Numbers
<1> QED BY <1>5, <1>10, <1>11, <1>12, <1>13, <1>14 DEF Core

-------------------------------------------------------------------------------
(* task_exit.                                                                *)

LEMMA DieIInv ==
    ASSUME Core, NEW t \in Tasks, Die(t), UNCHANGED <<shuts, torn>> PROVE Core'
<1>1. /\ t = cur /\ pc[t] = "die" /\ t # Main
      /\ status' = [status EXCEPT ![t] = "DIED"]
      /\ pc' = [pc EXCEPT ![t] = "unlist"]
      /\ UNCHANGED <<masked, cur, listVars, tag, lockVars, localVars>>
  BY DEF Die, At, Goto, Core, Live
<1>2. ready' = ready
  <2>1. t \notin Range(ready) /\ ready \in Seq(Tasks)
    BY <1>1, Members DEF Core, TypeOK
  <2> QED BY <2>1, RemoveNothing DEF Die
<1>3. /\ pc'[t] = "unlist" /\ \A s \in Tasks : s # t => pc'[s] = pc[s] /\ status'[s] = status[s]
      /\ Miscounted \/ \A s \in Tasks : pc'[s] \notin Miscounting
  BY <1>1, Members DEF Core, TypeOK, Alone, Miscounting
<1>4. SameKind(pc[t], "unlist")
  BY <1>1 DEF SameKind, NotRunning, OffList, ExitTail, Late
<1>5. /\ ~Misplaced' /\ IsFiniteSet(torn') /\ OnePlace' /\ Alone' /\ Live' /\ Locked'
      /\ \A s \in Tasks : pc'[s] \in Ordinary
  <2>1. /\ pc[cur] \notin Inside \union Blocked \union {"switch"}
        /\ pc'[cur] \in Ordinary \ (Inside \union Blocked \union {"switch"})
    BY <1>1, <1>3 DEF Inside, Blocked, Ordinary, Statements
  <2>2. \A s \in Tasks : Running(s)' <=> Running(s)
    BY <1>1, <1>3 DEF Running, NotRunning
  <2>3. \A s \in Range(waiters) : status'[s] = status[s]
    BY <1>1, <1>3, Members
  <2> QED BY <1>1, <1>2, <1>3, <2>1, <2>2, <2>3, SamePlaces DEF lockVars
<1>6. Pooled' /\ Made' /\ AllList' /\ Numbers'
  BY <1>1, <1>3, <1>4, SameLists DEF listVars, localVars
<1>7. TypeOK'
  <2>1. /\ pc' \in [Tasks -> Statements \union Stuck \union NotRunning]
        /\ status' \in [Tasks -> {"RUNNING", "READY", "BLOCKED", "DIED"}]
    BY <1>1, Members DEF Statements, Core, TypeOK
  <2> QED BY <1>1, <1>2, <2>1
      DEF Core, TypeOK, Misplaced, Miscounted, listVars, lockVars, localVars
<1> QED BY <1>5, <1>6, <1>7 DEF Core

\* What the next three steps have in common.
LEMMA LeavingStep ==
    ASSUME Core, NEW t \in Tasks, t = cur,
           NEW to,
           pc' = [pc EXCEPT ![t] = to],
           \/ pc[t] = "unlist" /\ to = "uncount"
           \/ pc[t] = "uncounted" /\ to = "pool"
           \/ pc[t] = "pool" /\ to = "untid",
           UNCHANGED <<cpuVars, lockVars, new, torn>>
    PROVE  /\ ~Misplaced' /\ IsFiniteSet(torn') /\ OnePlace' /\ Alone' /\ Live' /\ Locked'
           /\ \A s \in Tasks : pc'[s] \in Ordinary
           /\ Made' /\ t # Main
           /\ pc'[t] = to /\ \A s \in Tasks : s # t => pc'[s] = pc[s]
           /\ \A s \in Tasks : (Running(s)' <=> Running(s)) /\ ~ToBeListed(s) /\ ~ToBeListed(s)'
           /\ pc' \in [Tasks -> Statements \union Stuck \union NotRunning]
           /\ Miscounted \/ \A s \in Tasks : s # t => pc[s] \notin Miscounting
<1>1. /\ pc'[t] = to /\ \A s \in Tasks : s # t => pc'[s] = pc[s]
      /\ pc' \in [Tasks -> Statements \union Stuck \union NotRunning]
      /\ Miscounted \/ \A s \in Tasks : s # t => pc[s] \notin Miscounting
      /\ t # Main
  BY Members DEF Statements, ExitTail, Core, Alone, Live, OffList, Miscounting
<1>2. \A s \in Tasks : Running(s)' <=> Running(s)
  BY <1>1 DEF Running, NotRunning
<1>3. \A s \in Tasks : ~ToBeListed(s) /\ ~ToBeListed(s)'
  BY <1>1 DEF ToBeListed, Core, Alone, Misplacing
<1>4. /\ pc[cur] \notin Inside \union Blocked \union {"switch"}
      /\ pc'[cur] \in Ordinary \ (Inside \union Blocked \union {"switch"})
  BY <1>1 DEF Inside, Blocked, Ordinary, Statements, ExitTail
<1>5. /\ ~Misplaced' /\ IsFiniteSet(torn') /\ OnePlace' /\ Alone' /\ Live' /\ Locked'
      /\ \A s \in Tasks : pc'[s] \in Ordinary
  BY <1>1, <1>2, <1>4, SamePlaces DEF cpuVars, lockVars
<1>6. Made'
  <2>1. /\ {pc[cur], to} \intersect (Making \union {"list", "reused", "new"}) = {}
        /\ pc[cur] \notin ExitTail \union {"dead"}
    BY DEF Making, Late, ExitTail
  <2> QED BY <2>1, SameMade
<1> QED BY <1>1, <1>2, <1>3, <1>5, <1>6

LEMMA UnlistIInv ==
    ASSUME Core, NEW t \in Tasks, Unlist(t), UNCHANGED <<shuts, torn>> PROVE Core'
<1>1. t = cur /\ pc[t] = "unlist"
  BY DEF Unlist, At
<1>2. t \in Range(all)
  BY <1>1 DEF Core, AllList, InAll, ToBeListed, Made, Running, NotRunning, OffList, ExitTail
<1>3. /\ all' = RemoveFirst(all, t) /\ pc' = [pc EXCEPT ![t] = "uncount"]
      /\ UNCHANGED <<masked, cpuVars, nums, pool, tag, lockVars, localVars>>
  BY <1>2 DEF Unlist, Unlisted, Goto
<1>4. /\ all' \in Seq(Tasks) /\ Len(all) = Len(all') + 1 /\ IsInjective(all')
      /\ Range(all') = Range(all) \ {t}
  BY <1>2, <1>3, RemoveNode DEF Core, TypeOK, AllList
<1>5. /\ ~Misplaced' /\ IsFiniteSet(torn') /\ OnePlace' /\ Alone' /\ Live' /\ Locked'
      /\ \A s \in Tasks : pc'[s] \in Ordinary
      /\ Made' /\ t # Main
      /\ pc'[t] = "uncount" /\ \A s \in Tasks : s # t => pc'[s] = pc[s]
      /\ \A s \in Tasks : (Running(s)' <=> Running(s)) /\ ~ToBeListed(s) /\ ~ToBeListed(s)'
      /\ pc' \in [Tasks -> Statements \union Stuck \union NotRunning]
      /\ Miscounted \/ \A s \in Tasks : s # t => pc[s] \notin Miscounting
  BY <1>1, <1>3, LeavingStep, Zenon DEF localVars
<1>6. Pooled'
  <2>1. /\ {pc[cur], "uncount"} \intersect (NotRunning \union {"take", "reuse", "init", "reused"}) = {}
        /\ pc[cur] \in ExitTail <=> "uncount" \in ExitTail
    BY <1>1 DEF NotRunning, ExitTail
  <2> QED BY <1>1, <1>3, <2>1, SamePool DEF localVars
<1>7. AllList'
  <2>1. \A s \in Tasks : InAll(s)' <=> InAll(s) /\ s # t
    BY <1>1, <1>5 DEF InAll, OffList, ExitTail
  <2> QED BY <1>4, <2>1 DEF Core, AllList
<1>8. Numbers'
  <2>0. Miscounted' <=> Miscounted
    BY DEF Miscounted
  <2>1. Uncounting' = Uncounting \union {t} /\ t \notin Uncounting /\ Counting' = Counting
    BY <1>1, <1>5 DEF Counting, Uncounting
  <2>2. /\ Cardinality(Uncounting') = Cardinality(Uncounting) + 1
        /\ Cardinality(Counting') = Cardinality(Counting)
        /\ nums' = nums /\ Len(all') \in Nat
    BY <1>3, <1>4, <2>1, CountBounds, FS_AddElement, LenProperties
  <2>3. Miscounted \/ nums + Cardinality(Counting) = Len(all) + Cardinality(Uncounting)
    BY DEF Core, Numbers
  <2>4. Miscounted \/ nums' + Cardinality(Counting') = Len(all') + Cardinality(Uncounting')
    BY <1>4, <2>2, <2>3, CountBounds
  <2>5. Miscounted \/ \A s \in Tasks : pc'[s] \notin Miscounting
    BY <1>5 DEF Miscounting
  <2> QED BY <2>0, <2>4, <2>5 DEF Numbers
<1>9. TypeOK'
  BY <1>3, <1>4, <1>5 DEF Core, TypeOK, Misplaced, Miscounted, cpuVars, lockVars, localVars
<1> QED BY <1>5, <1>6, <1>7, <1>8, <1>9 DEF Core

LEMMA UncountedIInv ==
    ASSUME Core, NEW t \in Tasks, Uncounted(t), UNCHANGED <<shuts, torn>> PROVE Core'
<1>1. t = cur /\ pc[t] = "uncounted" /\ (Miscounted \/ temp[t] = nums)
  BY DEF Uncounted, At, Core, Numbers, Miscounting
<1>2. /\ nums' = temp[t] - 1 /\ temp' = [temp EXCEPT ![t] = 0]
      /\ pc' = [pc EXCEPT ![t] = "pool"]
      /\ UNCHANGED <<masked, cpuVars, all, pool, tag, lockVars, new>>
  BY DEF Uncounted, Goto
<1>3. /\ ~Misplaced' /\ IsFiniteSet(torn') /\ OnePlace' /\ Alone' /\ Live' /\ Locked'
      /\ \A s \in Tasks : pc'[s] \in Ordinary
      /\ Made' /\ t # Main
      /\ pc'[t] = "pool" /\ \A s \in Tasks : s # t => pc'[s] = pc[s]
      /\ \A s \in Tasks : (Running(s)' <=> Running(s)) /\ ~ToBeListed(s) /\ ~ToBeListed(s)'
      /\ pc' \in [Tasks -> Statements \union Stuck \union NotRunning]
      /\ Miscounted \/ \A s \in Tasks : s # t => pc[s] \notin Miscounting
  BY <1>1, <1>2, LeavingStep, Zenon
<1>4. Pooled'
  <2>1. /\ {pc[cur], "pool"} \intersect (NotRunning \union {"take", "reuse", "init", "reused"}) = {}
        /\ pc[cur] \in ExitTail <=> "pool" \in ExitTail
    BY <1>1 DEF NotRunning, ExitTail
  <2> QED BY <1>1, <1>2, <2>1, SamePool
<1>5. Uncounting' = Uncounting \ {t} /\ t \in Uncounting /\ Counting' = Counting
  BY <1>1, <1>3 DEF Counting, Uncounting
<1>6. Cardinality(Uncounting) = Cardinality(Uncounting') + 1 /\ Cardinality(Uncounting') \in Nat
  <2>1. IsFiniteSet(Uncounting')
    BY <1>5, CountBounds, FS_RemoveElement
  <2>2. Cardinality(Uncounting') = Cardinality(Uncounting) - 1
    BY <1>5, CountBounds, FS_RemoveElement
  <2>3. Cardinality(Uncounting') \in Nat
    BY <2>1, FS_CardinalityType
  <2> QED BY <2>2, <2>3, CountBounds
<1>7. Miscounted \/ (temp[t] = nums /\ nums + Cardinality(Counting) = Len(all) + Cardinality(Uncounting))
  BY <1>1 DEF Core, Numbers
<1>8. Miscounted \/ nums' \in 0..Cardinality(Tasks)
  <2> SUFFICES ASSUME ~Miscounted PROVE nums' \in 0..Cardinality(Tasks)
    OBVIOUS
  <2>1. /\ nums' = nums - 1 /\ nums \in 0..Cardinality(Tasks)
        /\ nums + Cardinality(Counting) = Len(all) + Cardinality(Uncounting)
    BY <1>2, <1>7 DEF Core, TypeOK
  <2> QED BY <1>6, <2>1, CountBounds
<1>9. TypeOK'
  <2>1. temp \in [Tasks -> Int]
    BY DEF Core, TypeOK
  <2>2. temp' \in [Tasks -> Int] /\ nums' \in Int
    BY <1>2, <2>1
  <2> QED BY <1>2, <1>3, <1>8, <2>2 DEF Core, TypeOK, Misplaced, Miscounted, cpuVars, lockVars
<1>10. AllList'
  BY <1>1, <1>2, <1>3 DEF Core, AllList, InAll, OffList, ExitTail
<1>11. Numbers'
  <2>0. Miscounted' <=> Miscounted
    BY DEF Miscounted
  <2>1. Miscounted \/ nums' + Cardinality(Counting') = Len(all') + Cardinality(Uncounting')
    BY <1>2, <1>5, <1>6, <1>7, CountBounds
  <2>2. Miscounted \/ \A s \in Tasks : pc'[s] \notin Miscounting
    BY <1>3 DEF Miscounting
  <2> QED BY <2>0, <2>1, <2>2 DEF Numbers
<1> QED BY <1>3, <1>4, <1>9, <1>10, <1>11 DEF Core

LEMMA PoolIInv ==
    ASSUME Core, NEW t \in Tasks, Pool(t), UNCHANGED <<shuts, torn>> PROVE Core'
<1>1. /\ t = cur /\ pc[t] = "pool"
      /\ pool' = Append(pool, t) /\ pc' = [pc EXCEPT ![t] = "untid"]
      /\ UNCHANGED <<masked, cpuVars, all, nums, tag, lockVars, localVars>>
  BY DEF Pool, At, Goto
<1>2. /\ ~Misplaced' /\ IsFiniteSet(torn') /\ OnePlace' /\ Alone' /\ Live' /\ Locked'
      /\ \A s \in Tasks : pc'[s] \in Ordinary
      /\ Made' /\ t # Main
      /\ pc'[t] = "untid" /\ \A s \in Tasks : s # t => pc'[s] = pc[s]
      /\ \A s \in Tasks : (Running(s)' <=> Running(s)) /\ ~ToBeListed(s) /\ ~ToBeListed(s)'
      /\ pc' \in [Tasks -> Statements \union Stuck \union NotRunning]
      /\ Miscounted \/ \A s \in Tasks : s # t => pc[s] \notin Miscounting
  BY <1>1, LeavingStep, Zenon DEF localVars
<1>3. t \notin Range(pool)
  BY <1>1 DEF Core, Pooled, Leaving, ExitTail
<1>4. /\ pool' \in Seq(Tasks) /\ pool' # <<>> /\ IsInjective(pool')
      /\ Range(pool') = Range(pool) \union {t}
  BY <1>1, <1>3, AppendNew DEF Core, TypeOK, Pooled
<1>5. Pooled'
  <2>1. \A s \in Tasks : Leaving(s)' <=> Leaving(s) \/ s = t
    BY <1>1, <1>2 DEF Leaving, ExitTail
  <2>2. \A s \in Tasks : pc[s] \notin {"take", "reuse"} /\ pc'[s] \notin {"take", "reuse"}
    BY <1>1, <1>2 DEF Core, Alone, Misplacing
  <2>3. \A s \in Tasks : pc[s] \in {"init", "reused"} => pc'[s] = pc[s]
    BY <1>1, <1>2
  <2>4. \A s \in Tasks : Taken(s) => Taken(s)'
    BY <1>1, <2>2, <2>3 DEF Taken, localVars
  <2>5. \A s \in Tasks : new[s] # t
    <3> SUFFICES ASSUME NEW s \in Tasks, new[s] = t PROVE FALSE
      OBVIOUS
    <3>1. pc[s] \in Making \union {"list", "reused"}
      BY Members DEF Core, Made
    <3> QED BY <1>1, <3>1 DEF Core, Made, Making, Leaving, ExitTail
  <2> QED BY <1>1, <1>4, <2>1, <2>2, <2>3, <2>4, <2>5, Members DEF Core, Pooled, localVars
<1>6. AllList'
  BY <1>1, <1>2 DEF Core, AllList, InAll, OffList, ExitTail
<1>7. Numbers'
  <2>1. Counting' = Counting /\ Uncounting' = Uncounting
    BY <1>1, <1>2 DEF Counting, Uncounting
  <2>2. Miscounted \/ \A s \in Tasks : pc'[s] \notin Miscounting
    BY <1>2 DEF Miscounting
  <2> QED BY <1>1, <2>1, <2>2, SameNumbers
<1>8. TypeOK'
  BY <1>1, <1>2, <1>4 DEF Core, TypeOK, Misplaced, Miscounted, cpuVars, lockVars, localVars
<1> QED BY <1>2, <1>5, <1>6, <1>7, <1>8 DEF Core

LEMMA PopIInv ==
    ASSUME Core, NEW t \in Tasks, Pop(t), UNCHANGED <<shuts, torn>> PROVE Core'
<1> DEFINE h == Head(ready)
<1>1. t = cur /\ pc[t] = "pop" /\ t # Main
  BY DEF Pop, At, Core, Live, OffList, ExitTail
<1>2. ready # <<>>
  BY <1>1, SomebodyReady DEF Inside, Blocked
<1>3. /\ tag' = h /\ ready' = Tail(ready) /\ pc' = [pc EXCEPT ![t] = "switch"]
      /\ UNCHANGED <<masked, cur, status, listVars, lockVars, localVars>>
  BY <1>2 DEF Pop, Popped, Goto
<1>4. /\ h \in Tasks /\ h \in Range(ready) /\ ready' \in Seq(Tasks)
      /\ IsInjective(ready') /\ Range(ready') = Range(ready) \ {h}
  BY <1>2, <1>3, PopFront DEF Core, TypeOK, OnePlace
<1> HIDE DEF h
<1>5. /\ pc'[t] = "switch" /\ \A s \in Tasks : s # t => pc'[s] = pc[s]
      /\ \A s \in Tasks : pc[s] \notin Misplacing
      /\ Miscounted \/ \A s \in Tasks : pc[s] \notin Miscounting
      /\ h # t /\ h \notin Range(waiters) /\ Running(h)
  BY <1>1, <1>3, <1>4, Members DEF Core, Alone, Live, Misplacing, Miscounting
<1>6. \A s \in Tasks : Running(s)' <=> Running(s)
  BY <1>1, <1>5 DEF Running, NotRunning
<1>7. /\ ~Misplaced' /\ IsFiniteSet(torn') /\ (Miscounted' <=> Miscounted)
      /\ \A s \in Tasks : pc'[s] \in Ordinary
  BY <1>5 DEF Core, Misplaced, Miscounted, Ordinary, Statements, ExitTail
<1>8. OnePlace'
  <2>1. \A s \in Tasks : Running(s) => s = t \/ s \in Range(ready) \union Range(waiters)
    BY <1>1 DEF Core, OnePlace
  <2> QED BY <1>1, <1>3, <1>4, <1>5, <1>6, <2>1, Members DEF OnePlace, lockVars
<1>9. Alone'
  BY <1>1, <1>3, <1>5, <1>7 DEF Alone, Miscounting
<1>10. Live'
  <2>1. Running(t) /\ \A s \in Range(ready) \union Range(waiters) : Running(s)
    BY <1>1 DEF Core, Live
  <2>2. pc'[h] = pc[h]
    BY <1>4, <1>5
  <2>3. h \notin Range(ready') \union Range(waiters) /\ pc'[h] \notin NotRunning
    BY <1>4, <1>5, <2>2 DEF Running
  <2>4. Running(Main)' /\ pc'[Main] \notin OffList \union {"die", "unlist"}
    BY <1>1, <1>5, <1>6, Members DEF Core, Live
  <2>5. \A s \in Range(ready') \union Range(waiters) : Running(s)'
    BY <1>4, <1>6, <2>1, Members
  <2> QED BY <1>1, <1>3, <1>4, <1>5, <1>6, <2>1, <2>3, <2>4, <2>5 DEF Live, Running, lockVars
<1>11. Locked'
  <2>1. \A s \in Tasks :
          /\ pc'[s] \in Inside <=> pc[s] \in Inside
          /\ pc'[s] \in Blocked <=> pc[s] \in Blocked
    BY <1>1, <1>5 DEF Inside, Blocked
  <2> QED BY <1>3, <2>1, Members DEF Core, Locked, lockVars
<1>12. Pooled' /\ Made'
  <2>1. /\ {pc[cur], "switch"} \intersect (NotRunning \union {"take", "reuse", "init", "reused"}) = {}
        /\ {pc[cur], "switch"} \subseteq ExitTail
        /\ {pc[cur], "switch"} \intersect (Making \union {"list", "reused", "new"}) = {}
    BY <1>1 DEF NotRunning, ExitTail, Making, Late
  <2>2. Pooled'
    BY <1>1, <1>3, <2>1, SamePool DEF listVars, localVars
  <2> QED BY <1>1, <1>3, <2>1, <2>2, SameMade DEF localVars
<1>13. AllList'
  <2>1. \A s \in Tasks : ~ToBeListed(s) /\ ~ToBeListed(s)'
    BY <1>5 DEF ToBeListed, Misplacing
  <2> QED BY <1>1, <1>3, <1>5, <1>6, <2>1 DEF Core, AllList, InAll, OffList, ExitTail, listVars
<1>14. Numbers'
  <2>1. Counting' = Counting /\ Uncounting' = Uncounting
    BY <1>1, <1>5 DEF Counting, Uncounting
  <2> QED BY <1>3, <1>5, <2>1, SameNumbers DEF Miscounting, listVars
<1>15. TypeOK'
  <2>1. pc' \in [Tasks -> Statements \union Stuck \union NotRunning]
    BY <1>3, Members DEF Statements, ExitTail
  <2> QED BY <1>3, <1>4, <2>1
      DEF Core, TypeOK, Misplaced, Miscounted, listVars, lockVars, localVars
<1> QED BY <1>7, <1>8, <1>9, <1>10, <1>11, <1>12, <1>13, <1>14, <1>15 DEF Core

LEMMA SwitchIInv ==
    ASSUME Core, NEW t \in Tasks, Switch(t), UNCHANGED <<shuts, torn>> PROVE Core'
<1>1. /\ t = cur /\ pc[t] = "switch" /\ t # Main
      /\ tag \in Tasks /\ tag # t /\ tag \notin Range(ready) \union Range(waiters) /\ Running(tag)
  BY DEF Switch, At, Core, Live, OffList, ExitTail
<1>2. /\ cur' = tag /\ status' = [status EXCEPT ![tag] = "RUNNING"]
      /\ pc' = [pc EXCEPT ![t] = "dead"]
      /\ UNCHANGED <<masked, ready, listVars, tag, lockVars, localVars>>
  BY <1>1 DEF Switch
<1>3. /\ pc'[t] = "dead" /\ \A s \in Tasks : s # t => pc'[s] = pc[s]
      /\ \A s \in Tasks : s # t => pc[s] \notin Misplacing
      /\ \A s \in Tasks : pc'[s] \notin Misplacing
      /\ Miscounted \/ \A s \in Tasks : pc[s] \notin Miscounting
      /\ \A s \in Tasks : s # tag => status'[s] = status[s]
  BY <1>1, <1>2, Members DEF Core, TypeOK, Alone, Misplacing, Miscounting
<1>4. \A s \in Tasks : Running(s)' <=> Running(s) /\ s # t
  BY <1>1, <1>3 DEF Running, NotRunning
<1>5. /\ ~Misplaced' /\ IsFiniteSet(torn') /\ (Miscounted' <=> Miscounted)
      /\ \A s \in Tasks : pc'[s] \in Ordinary
  BY <1>3 DEF Core, Misplaced, Miscounted, Ordinary, NotRunning
<1>6. t \notin Range(ready) \union Range(waiters)
  BY <1>1, Members
<1>7. OnePlace'
  BY <1>1, <1>2, <1>3, <1>4, Members DEF Core, OnePlace, lockVars
<1>8. Alone'
  BY <1>1, <1>3, <1>5 DEF Alone, Miscounting
<1>9. Live'
  <2>1. \A s \in Range(ready) \union Range(waiters) : Running(s)'
    BY <1>4, <1>6, Members DEF Core, Live
  <2>2. pc'[tag] \notin NotRunning /\ pc'[tag] # "switch"
    BY <1>1, <1>3 DEF Running, Misplacing
  <2>3. Running(Main)' /\ pc'[Main] \notin OffList \union {"die", "unlist"}
    BY <1>1, <1>3, <1>4, Members DEF Core, Live
  <2> QED BY <1>2, <2>1, <2>2, <2>3 DEF Live, Running, lockVars
<1>10. Locked'
  <2>1. \A s \in Tasks :
          /\ pc'[s] \in Inside <=> pc[s] \in Inside
          /\ pc'[s] \in Blocked <=> pc[s] \in Blocked
    BY <1>1, <1>3 DEF Inside, Blocked
  <2>2. \A s \in Range(waiters) : status'[s] = status[s]
    BY <1>1, <1>3, Members
  <2> QED BY <1>2, <2>1, <2>2, Members DEF Core, Locked, lockVars
<1>11. Pooled'
  <2>1. \A s \in Tasks : (Leaving(s)' <=> Leaving(s))
    BY <1>1, <1>3 DEF Leaving, ExitTail
  <2>2. \A s \in Tasks : pc[s] \notin {"take", "reuse"} /\ pc'[s] \notin {"take", "reuse"}
    BY <1>1, <1>3 DEF Misplacing
  <2>3. \A s \in Tasks : pc[s] \in {"init", "reused"} => pc'[s] = pc[s]
    BY <1>1, <1>3
  <2>4. \A s \in Tasks : Taken(s) => Taken(s)'
    BY <1>2, <2>2, <2>3 DEF Taken, localVars
  <2> QED BY <1>2, <2>1, <2>2, <2>3, <2>4, Members DEF Core, Pooled, listVars, localVars
<1>12. Made'
  <2>1. /\ {pc[cur], "dead"} \intersect (Making \union {"list", "reused", "new"}) = {}
    BY <1>1 DEF Making, Late
  <2> QED BY <1>1, <1>2, <2>1, SameMade DEF localVars
<1>13. AllList'
  <2>1. \A s \in Tasks : ~ToBeListed(s) /\ ~ToBeListed(s)'
    BY <1>1, <1>3 DEF ToBeListed, Misplacing
  <2> QED BY <1>1, <1>2, <1>3, <1>4, <2>1 DEF Core, AllList, InAll, OffList, ExitTail, listVars
<1>14. Numbers'
  <2>1. Counting' = Counting /\ Uncounting' = Uncounting
    BY <1>1, <1>3 DEF Counting, Uncounting
  <2>2. Miscounted \/ \A s \in Tasks : pc'[s] \notin Miscounting
    BY <1>3 DEF Miscounting
  <2> QED BY <1>2, <2>1, <2>2, SameNumbers DEF listVars
<1>15. TypeOK'
  <2>1. /\ pc' \in [Tasks -> Statements \union Stuck \union NotRunning]
        /\ status' \in [Tasks -> {"RUNNING", "READY", "BLOCKED", "DIED"}]
    BY <1>2, Members DEF NotRunning, Core, TypeOK
  <2> QED BY <1>1, <1>2, <2>1
      DEF Core, TypeOK, Misplaced, Miscounted, listVars, lockVars, localVars
<1> QED BY <1>5, <1>7, <1>8, <1>9, <1>10, <1>11, <1>12, <1>13, <1>14, <1>15 DEF Core

-------------------------------------------------------------------------------
(* The tick.                                                                 *)

\* A tick makes a mark in the history if it falls on an exposed statement, and none
\* otherwise.
LEMMA Marks ==
    ASSUME Core, Arrives
    PROVE  /\ torn' \subseteq Exposed /\ IsFiniteSet(torn') /\ Cardinality(torn') <= MaxTears
           /\ Miscounted => Miscounted'
           /\ pc[cur] \in Miscounting => Miscounted'
           /\ Misplaced' <=> pc[cur] \in Misplacing
           /\ pc[cur] \notin {"crash", "wiped", "freed", "overdrawn"}
<1>1. torn \subseteq Exposed /\ IsFiniteSet(torn) /\ Cardinality(torn) <= MaxTears
  BY DEF Core, TypeOK
<1>2. /\ torn' = torn \union ({pc[cur]} \intersect Exposed)
      /\ pc[cur] \in Exposed => Cardinality(torn) < MaxTears
      /\ pc[cur] \notin {"crash", "wiped", "freed", "overdrawn"}
  BY DEF Arrives, PoolMisuse
<1>3. IsFiniteSet(torn') /\ Cardinality(torn') <= MaxTears
  <2>1. CASE pc[cur] \in torn \/ pc[cur] \notin Exposed
    <3>1. torn' = torn
      BY <1>2, <2>1
    <3> QED BY <1>1, <3>1
  <2>2. CASE pc[cur] \notin torn /\ pc[cur] \in Exposed
    <3>1. torn' = torn \union {pc[cur]}
      BY <1>2, <2>2
    <3>2. IsFiniteSet(torn') /\ Cardinality(torn') = Cardinality(torn) + 1
      BY <1>1, <2>2, <3>1, FS_AddElement
    <3>3. Cardinality(torn) \in Nat
      BY <1>1, FS_CardinalityType
    <3> QED BY <1>2, <2>2, <3>2, <3>3, TaskLifeAssumption
  <2> QED BY <2>1, <2>2
<1>4. Misplaced' <=> pc[cur] \in Misplacing
  BY <1>2 DEF Core, Misplaced, Exposed
<1>5. (Miscounted => Miscounted') /\ (pc[cur] \in Miscounting => Miscounted')
  BY <1>2 DEF Miscounted, Exposed
<1> QED BY <1>1, <1>2, <1>3, <1>4, <1>5

LEMMA TickIInv ==
    ASSUME Core, Tick, UNCHANGED shuts PROVE IInv'
<1>0. /\ torn' \subseteq Exposed /\ IsFiniteSet(torn') /\ Cardinality(torn') <= MaxTears
      /\ Miscounted => Miscounted'
      /\ pc[cur] \in Miscounting => Miscounted'
      /\ Misplaced' <=> pc[cur] \in Misplacing
  BY Marks DEF Tick
<1> SUFFICES ASSUME pc[cur] \notin Misplacing PROVE Core'
  BY <1>0 DEF IInv
<1> DEFINE q == Append(ready, cur)
<1>1. cur \notin Range(ready)
  BY Members
<1>2. /\ q \in Seq(Tasks) /\ q # <<>> /\ IsInjective(q)
      /\ Range(q) = Range(ready) \union {cur}
  <2>1. ready \in Seq(Tasks) /\ cur \in Tasks /\ IsInjective(ready)
    BY Members DEF Core, TypeOK
  <2> QED BY <1>1, <2>1, AppendNew
<1>3. /\ tag' = Head(q) /\ cur' = Head(q) /\ ready' = Tail(q)
      /\ status' = [status EXCEPT ![cur] = "READY", ![Head(q)] = "RUNNING"]
      /\ UNCHANGED <<masked, listVars, lockVars, pc, localVars>>
  <2>1. Requeued = q
    BY DEF Requeued
  <2> HIDE DEF q
  <2> QED BY <1>1, <2>1 DEF Tick
<1> HIDE DEF q
<1>4. /\ cur' \in Range(ready) \union {cur} /\ cur' \in Tasks
      /\ ready' \in Seq(Tasks) /\ IsInjective(ready')
      /\ Range(ready') = (Range(ready) \union {cur}) \ {cur'}
  BY <1>2, <1>3, PopFront
<1>5. /\ \A s \in Tasks : pc[s] \notin Misplacing
      /\ Miscounted' \/ \A s \in Tasks : pc[s] \notin Miscounting
      /\ Running(cur) /\ Running(cur')
      /\ cur \notin Range(waiters) /\ cur' \notin Range(waiters)
  BY <1>0, <1>4, Members DEF Core, Alone, Live
<1>6. \A s \in Tasks : Running(s)' <=> Running(s)
  BY <1>3 DEF Running
<1>7. TypeOK'
  <2>1. status' \in [Tasks -> {"RUNNING", "READY", "BLOCKED", "DIED"}]
    BY <1>3 DEF Core, TypeOK
  <2>2. tag' \in Tasks
    BY <1>3, <1>4
  <2> QED BY <1>0, <1>3, <1>4, <2>1, <2>2 DEF Core, TypeOK, listVars, lockVars, localVars
<1>8. OnePlace'
  <2>1. \A s \in Tasks : Running(s) => s = cur \/ s \in Range(ready) \union Range(waiters)
    BY <1>5 DEF Core, OnePlace, Misplacing
  <2> QED BY <1>3, <1>4, <1>5, <1>6, <2>1, Members DEF OnePlace, lockVars
<1>9. Alone' /\ ~Misplaced' /\ \A s \in Tasks : pc'[s] \in Ordinary
  BY <1>0, <1>3, <1>5 DEF Core, Alone
<1>10. Live'
  <2>1. \A s \in Range(ready') \union Range(waiters') : Running(s)'
    BY <1>3, <1>4, <1>5, <1>6, Members DEF Core, Live, lockVars
  <2>2. pc'[cur'] # "switch" /\ Running(cur')
    BY <1>3, <1>4, <1>5 DEF Misplacing
  <2> QED BY <1>3, <1>4, <1>6, <2>1, <2>2, Members DEF Core, Live, Running
<1>11. Locked'
  <2>1. \A s \in Range(waiters) : status'[s] = status[s]
    BY <1>3, <1>5, Members DEF Core, TypeOK
  <2> QED BY <1>3, <2>1, Members DEF Core, Locked, lockVars
<1>12. Pooled'
  <2>1. \A s \in Tasks : (Leaving(s)' <=> Leaving(s)) /\ (Taken(s) => Taken(s)')
    BY <1>3, <1>5 DEF Leaving, Taken, Misplacing, localVars
  <2> QED BY <1>3, <1>5, <2>1, Members DEF Core, Pooled, Misplacing, listVars, localVars
<1>13. Made'
  <2>1. pc' = pc /\ new' = new
    BY <1>3 DEF localVars
  <2> QED BY <2>1 DEF Core, Made, Leaving
<1>14. AllList'
  BY <1>3, <1>6 DEF Core, AllList, InAll, ToBeListed, listVars, localVars
<1>15. Numbers'
  BY <1>0, <1>3 DEF Core, Numbers, Counting, Uncounting, listVars, localVars
<1> QED BY <1>0, <1>7, <1>8, <1>9, <1>10, <1>11, <1>12, <1>13, <1>14, <1>15 DEF Core

LEMMA CleanIInv ==
    ASSUME Core, Clean, UNCHANGED shuts PROVE IInv'
<1>0. /\ torn' \subseteq Exposed /\ IsFiniteSet(torn') /\ Cardinality(torn') <= MaxTears
      /\ Miscounted => Miscounted'
      /\ pc[cur] \in Miscounting => Miscounted'
      /\ Misplaced' <=> pc[cur] \in Misplacing
  BY Marks DEF Clean
<1> SUFFICES ASSUME pc[cur] \notin Misplacing PROVE IInv'
  BY <1>0 DEF IInv
<1>a. /\ \A s \in Tasks : pc[s] \notin Misplacing
      /\ Miscounted' \/ \A s \in Tasks : pc[s] \notin Miscounting
      /\ pc[cur] # "switch" /\ Running(cur) /\ pool # <<>>
  BY <1>0 DEF Core, Alone, Live, Misplacing, Clean
<1> DEFINE d == Head(pool)
<1>b. /\ d \in Range(pool) /\ d \in Tasks /\ Leaving(d)
      /\ Tail(pool) \in Seq(Tasks) /\ Len(pool) = Len(Tail(pool)) + 1
      /\ IsInjective(Tail(pool)) /\ Range(Tail(pool)) = Range(pool) \ {d}
  BY <1>a, PopFront DEF Core, TypeOK, Pooled
<1>c. PoolIsLeaving
  BY CorePromises DEF Promised
<1>1. CASE pc[d] \in ExitTail
  <2>1. /\ pc' = [pc EXCEPT ![cur] = "freed"]
        /\ UNCHANGED <<masked, cpuVars, listVars, tag, lockVars, localVars>>
    BY <1>1 DEF Clean, Stop, Goto, Stand
  <2>2. pc'[cur] = "freed" /\ \A s \in Tasks : s # cur => pc'[s] = pc[s]
    BY <2>1, Members
  <2>3. Frozen' /\ OnePlace' /\ NeverStuck' /\ ListsAgree'
    BY <1>a, <2>1, <2>2, LastStep DEF cpuVars, lockVars
  <2>4. PoolIsLeaving'
    BY <1>c, <2>1, <2>2, Members
    DEF PoolIsLeaving, Core, cpuVars, listVars, lockVars, localVars
  <2>5. TypeOK'
    <3>1. pc' \in [Tasks -> Statements \union Stuck \union NotRunning]
      BY <2>1, Members DEF Stuck, PoolMisuse
    <3> QED BY <1>0, <2>1, <3>1
        DEF Core, TypeOK, cpuVars, listVars, lockVars, localVars
  <2> QED BY <2>3, <2>4, <2>5 DEF IInv, Promised
<1>2. CASE pc[d] \notin ExitTail
  <2>1. /\ tag' = d /\ pool' = Tail(pool)
        /\ pc' = IF Len(pool) = 1
                 THEN [pc EXCEPT ![d] = "none", ![cur] = "overdrawn"]
                 ELSE [pc EXCEPT ![d] = "none"]
        /\ UNCHANGED <<masked, cpuVars, all, nums, lockVars, localVars>>
    BY <1>2 DEF Clean
  <2>2. /\ pc[d] = "dead" /\ d # cur /\ ~Running(d)
        /\ d \notin Range(ready) \union Range(waiters) /\ d # Main
    BY <1>2, <1>a, <1>b, Members DEF Leaving, Running, NotRunning, Core, Live
  <2> HIDE DEF d
  <2>3. TypeOK'
    <3>1. pc' \in [Tasks -> Statements \union Stuck \union NotRunning]
      BY <2>1, Members DEF Stuck, PoolMisuse, NotRunning
    <3> QED BY <1>0, <1>b, <2>1, <3>1 DEF Core, TypeOK, cpuVars, lockVars, localVars
  <2>4. CASE Len(pool) = 1
    <3>1. pc'[cur] = "overdrawn" /\ \A s \in Tasks : s # cur => pc'[s] = pc[s] \/ (s = d /\ pc'[s] = "none")
      BY <2>1, <2>4, Members
    <3>2. Frozen' /\ OnePlace' /\ NeverStuck' /\ ListsAgree'
      BY <1>a, <2>1, <2>2, <3>1, LastStep DEF cpuVars, lockVars
    <3>3. Range(pool') = {}
      <4>1. Len(pool') = 0
        BY <1>b, <2>1, <2>4, LenProperties
      <4>2. pool' = <<>>
        BY <1>b, <2>1, <4>1, EmptySeq
      <4> QED BY <4>2 DEF Range
    <3>4. PoolIsLeaving'
      BY <1>b, <2>1, <3>3 DEF PoolIsLeaving
    <3> QED BY <2>3, <3>2, <3>4 DEF IInv, Promised
  <2>5. CASE Len(pool) # 1
    <3>1. pc' = [pc EXCEPT ![d] = "none"]
      BY <2>1, <2>5
    <3>2. /\ pc'[d] = "none" /\ \A s \in Tasks : s # d => pc'[s] = pc[s]
          /\ \A s \in Tasks : pc'[s] \notin Misplacing
      BY <1>a, <1>b, <3>1, Members DEF Misplacing
    <3>3. /\ \A s \in Tasks : Running(s)' <=> Running(s)
          /\ \A s \in Tasks : Leaving(s)' <=> Leaving(s) /\ s # d
      BY <2>2, <3>2 DEF Running, NotRunning, Leaving, ExitTail
    <3>4. OnePlace' /\ Alone' /\ ~Misplaced' /\ \A s \in Tasks : pc'[s] \in Ordinary
      <4>1. OnePlace'
        BY <1>a, <2>1, <3>3 DEF Core, OnePlace, cpuVars, lockVars
      <4> QED BY <1>0, <1>a, <3>2, <4>1 DEF Core, Alone, Miscounting, Ordinary, NotRunning
    <3>5. Live'
      <4>1. pc'[cur] # "switch" /\ Running(cur)'
        BY <1>a, <2>1, <2>2, <3>2, <3>3, Members DEF cpuVars
      <4> QED BY <2>1, <2>2, <3>2, <3>3, <4>1, Members DEF Core, Live, cpuVars, lockVars
    <3>6. Locked'
      <4>1. \A s \in Tasks :
              /\ pc'[s] \in Inside <=> pc[s] \in Inside
              /\ pc'[s] \in Blocked <=> pc[s] \in Blocked
        BY <2>2, <3>2 DEF Inside, Blocked
      <4> QED BY <2>1, <4>1, Members DEF Core, Locked, cpuVars, lockVars
    <3>7. Pooled'
      <4>1. \A s \in Tasks : pc[s] \notin {"take", "reuse"} /\ pc'[s] \notin {"take", "reuse"}
        BY <1>a, <3>2 DEF Misplacing
      <4>2. \A s \in Tasks : pc[s] \in {"init", "reused"} => pc'[s] = pc[s]
        BY <2>2, <3>2
      <4>3. \A s \in Tasks : Taken(s) => Taken(s)'
        BY <2>1, <4>1, <4>2 DEF Taken, localVars
      <4>4. \A s \in Range(pool') : Leaving(s)'
        BY <1>b, <2>1, <3>3, Members DEF Core, Pooled
      <4>5. \A s \in Tasks : Leaving(s)' =>
              s \in Range(pool') \/ Taken(s)' \/ \E r \in Tasks : pc'[r] = "reused"
        BY <1>b, <2>1, <3>3, <4>2, <4>3 DEF Core, Pooled
      <4>6. \A s \in Tasks : new'[s] \notin Range(pool')
        BY <1>b, <2>1 DEF Core, Pooled, localVars
      <4> QED BY <1>b, <2>1, <4>1, <4>4, <4>5, <4>6 DEF Pooled
    <3>8. Made'
      <4>1. \A s \in Tasks : new[s] # d
        BY <1>b DEF Core, Pooled
      <4>2. \A s \in Tasks : pc'[s] \in Making \union {"list", "reused"} => pc'[s] = pc[s]
        BY <3>2 DEF Making, Late
      <4>3. \A s \in Tasks : pc[s] \in Making \union {"list", "reused"} => pc'[s] = pc[s]
        BY <2>2, <3>2 DEF Making, Late
      <4>4. \A s \in Tasks : new[s] \in Tasks => pc'[new[s]] = pc[new[s]]
        BY <3>2, <4>1
      <4>5. new' = new
        BY <2>1 DEF localVars
      <4>6. \A s \in Tasks : pc'[s] \in Late => new[s] \in Tasks /\ pc'[new[s]] = "new"
        BY <4>2, <4>4 DEF Core, Made, Making
      <4>7. \A s \in Tasks : pc'[s] = "init" =>
              new[s] \in Tasks /\ (pc'[new[s]] = "new" \/ pc'[new[s]] \in ExitTail \union {"dead"})
        BY <4>2, <4>4 DEF Core, Made, Making, Leaving
      <4>8. \A s \in Tasks : pc'[s] = "reused" =>
              new[s] \in Tasks /\ pc'[new[s]] \in ExitTail \union {"dead"}
        BY <4>2, <4>4 DEF Core, Made, Leaving
      <4>9. \A s \in Tasks : new[s] # Nobody => pc'[s] \in Making \union {"list", "reused"}
        BY <4>3 DEF Core, Made
      <4>10. \A s \in Tasks : pc'[s] # "list"
        BY <3>2 DEF Misplacing
      <4> QED BY <4>5, <4>6, <4>7, <4>8, <4>9, <4>10 DEF Core, Made, Leaving
    <3>9. AllList'
      <4>1. \A s \in Tasks : ~ToBeListed(s) /\ ~ToBeListed(s)'
        BY <1>a, <3>2 DEF ToBeListed, Misplacing
      <4>2. \A s \in Tasks : InAll(s)' <=> InAll(s)
        BY <2>2, <3>2, <3>3, <4>1 DEF InAll
      <4> QED BY <2>1, <4>2 DEF Core, AllList
    <3>10. Numbers'
      <4>1. Counting' = Counting /\ Uncounting' = Uncounting
        BY <2>2, <3>2 DEF Counting, Uncounting
      <4>2. Miscounted' \/ \A s \in Tasks : pc'[s] \notin Miscounting
        BY <1>a, <3>2 DEF Miscounting
      <4> QED BY <1>0, <2>1, <4>1, <4>2 DEF Core, Numbers
    <3> QED BY <1>0, <2>3, <3>4, <3>5, <3>6, <3>7, <3>8, <3>9, <3>10 DEF Core, IInv
  <2> QED BY <2>4, <2>5
<1> QED BY <1>1, <1>2

-------------------------------------------------------------------------------
(* The invariant is inductive.                                               *)

LEMMA InitIInv == Init => Core
<1> SUFFICES ASSUME Init PROVE Core
  OBVIOUS
<1> USE TaskLifeAssumption DEF Init
<1>1. /\ <<>> \in Seq(Tasks) /\ <<Main>> \in Seq(Tasks)
      /\ Range(<<>>) = {} /\ IsInjective(<<>>)
      /\ Range(<<Main>>) = {Main} /\ IsInjective(<<Main>>) /\ Len(<<Main>>) = 1
  BY EmptySeq DEF Range, IsInjective
<1>2. Cardinality(Tasks) \in Nat /\ 1 <= Cardinality(Tasks)
  <2>1. Cardinality(Tasks) \in Nat
    BY FS_CardinalityType
  <2>2. Cardinality(Tasks) # 0
    BY FS_EmptySet
  <2> QED BY <2>1, <2>2
<1>3. \A t \in Tasks : pc[t] = IF t = Main THEN "own" ELSE "none"
  OBVIOUS
<1>4. \A t \in Tasks : Running(t) <=> t = Main
  BY <1>3 DEF Running, NotRunning
<1>5. TypeOK /\ IsFiniteSet(torn)
  <2>1. nums \in 0..Cardinality(Tasks) /\ temp \in [Tasks -> Int]
    BY <1>2
  <2>2. pc \in [Tasks -> Statements \union Stuck \union NotRunning]
    BY DEF Statements, NotRunning
  <2>3. IsFiniteSet(torn) /\ Cardinality(torn) <= MaxTears /\ torn \subseteq Exposed
    BY FS_EmptySet
  <2>4. /\ shuts \in BOOLEAN /\ masked \in BOOLEAN
        /\ status \in [Tasks -> {"RUNNING", "READY", "BLOCKED", "DIED"}]
        /\ new \in [Tasks -> Tasks \union {Nobody}]
    OBVIOUS
  <2>5. nums \in Int
    OBVIOUS
  <2> HIDE DEF Init
  <2>6. /\ cur \in Tasks /\ tag \in Tasks \union {Nobody} /\ holder \in Tasks \union {Nobody}
        /\ ready \in Seq(Tasks) /\ all \in Seq(Tasks) /\ pool \in Seq(Tasks)
        /\ waiters \in Seq(Tasks)
    BY <1>1 DEF Init
  <2> QED BY <2>1, <2>2, <2>3, <2>4, <2>5, <2>6 DEF TypeOK
<1>6. OnePlace /\ ~Misplaced
  BY <1>1, <1>4 DEF OnePlace, Misplaced
<1>7. Alone /\ Locked /\ \A t \in Tasks : pc[t] \in Ordinary
  BY <1>1, <1>3 DEF Alone, Locked, Misplacing, Miscounting, Inside, Blocked, Ordinary,
    Statements, NotRunning
<1>8. Live
  BY <1>1, <1>3, <1>4 DEF Live, OffList, ExitTail
<1>9. Pooled
  BY <1>1, <1>3 DEF Pooled, Leaving, ExitTail
<1>10. Made
  BY <1>3 DEF Made, Late
<1>11. AllList
  BY <1>1, <1>3, <1>4 DEF AllList, InAll, ToBeListed, OffList, ExitTail
<1>12. Numbers
  <2>1. Counting = {} /\ Uncounting = {}
    BY <1>3 DEF Counting, Uncounting
  <2> QED BY <1>1, <1>3, <2>1, FS_EmptySet DEF Numbers, Miscounting
<1> QED BY <1>5, <1>6, <1>7, <1>8, <1>9, <1>10, <1>11, <1>12 DEF Core

LEMMA StepCore == ASSUME Core, [Next]_vars PROVE IInv'
<1>1. ASSUME NEW t \in Tasks, Code(t), UNCHANGED shuts PROVE IInv'
  <2>1. CASE InitTask(t) /\ UNCHANGED torn
    BY <1>1, <2>1, InitTaskIInv
  <2>2. CASE (Start(t) \/ Exit(t) \/ Wait(t) \/ InCall(t)) /\ ~InitTask(t) /\ UNCHANGED torn
    <3>1. Core'
      BY <1>1, <2>2, MovesIInv, TakeFromPoolIInv, AllocateIInv, ReuseIInv, LockIInv, QueueIInv,
        ListIInv, CountedIInv, DieIInv, UnlistIInv, UncountedIInv, PoolIInv, PopIInv, SwitchIInv
        DEF InCall
    <3> QED BY <3>1 DEF IInv
  <2> QED BY <1>1, <2>1, <2>2 DEF Code, InCall
<1>2. CASE UNCHANGED vars
  BY <1>2 DEF vars, cpuVars, listVars, lockVars, localVars, IInv, Core, TypeOK, OnePlace, Misplaced,
    Miscounted, Alone, Live, Locked, Pooled, Leaving, Taken, Made, AllList, InAll, ToBeListed,
    Numbers, Counting, Uncounting, Running
<1> QED BY <1>1, <1>2, TickIInv, CleanIInv DEF Next

\* Nothing happens after the last step that is followed.
LEMMA StepFrozen == ASSUME Frozen, Promised, [Next]_vars PROVE IInv'
<1>1. ~Arrives
  BY DEF Frozen, Arrives, PoolMisuse
<1>2. ASSUME NEW t \in Tasks, Code(t) PROVE FALSE
  <2>1. cur = t /\ pc[t] \in Statements
    BY <1>2 DEF Code, InCall, Start, Exit, Wait, Choose, TakeFromPool, Allocate, Reuse, InitTask,
      AllocateTid, Queue, List, Count, Counted, Die, Unlist, Uncount, Uncounted, Pool, ReleaseTid,
      Open, Pop, Switch, Waited, At, Statements, ExitTail
  <2> QED BY <2>1 DEF Frozen, Statements, ExitTail
<1>3. UNCHANGED vars
  BY <1>1, <1>2 DEF Next, Tick, Clean
<1> QED BY <1>3 DEF vars, cpuVars, listVars, lockVars, localVars, IInv, Frozen, Promised, TypeOK,
  OnePlace, NeverStuck, PoolIsLeaving, ListsAgree, AtRest, Misplaced, Miscounted, Running

LEMMA Inductive == Spec => []IInv
<1>1. Init => IInv
  BY InitIInv DEF IInv
<1>2. IInv /\ [Next]_vars => IInv'
  <2>1. ASSUME Misplaced, [Next]_vars PROVE Misplaced'
    BY <2>1 DEF Misplaced, Next, Code, Tick, Clean, Arrives, vars
  <2> QED BY <2>1, StepCore, StepFrozen DEF IInv
<1> QED BY <1>1, <1>2, PTL DEF Spec

-------------------------------------------------------------------------------
(* The theorems.                                                             *)

\* Type correctness; in particular the count, whose ++ and -- are no single step, stays
\* between 0 and the number of tasks, as long as no tick has fallen on one of the
\* statements that misplace a task or part the count.
THEOREM TypeCorrect == Spec => [](Misplaced \/ TypeOK)
<1>1. IInv => Misplaced \/ TypeOK
  BY DEF IInv, Core, Promised
<1> QED BY <1>1, Inductive, PTL

\* A task that task_start has queued and task_exit has not taken off is current, ready or
\* waiting for the tid lock, once, or in task_tag on its way to the processor
\* (task.c:95, 108, 249, 404).
THEOREM NoTaskLost == Spec => []OnePlace
<1>1. IInv => OnePlace
  BY DEF IInv, Core, Promised, OnePlace
<1> QED BY <1>1, Inductive, PTL

\* The assertions of task_start, of schedule and of the tid lock (task.c:249, 254, 404,
\* 316; sync.c:52, 76) hold, and block_task_schedule and died_task_schedule find a task
\* to go on with: main never ends, and while it waits for the tid lock somebody else is
\* ready.
THEOREM NothingStuck == Spec => []NeverStuck
<1>1. IInv => NeverStuck
  BY CorePromises DEF IInv, Promised, NeverStuck
<1> QED BY <1>1, Inductive, PTL

\* What task_exit has put in the pool is at its end, also when it waits there for the tid
\* lock, and is nobody's new task (task.c:108, 138, 234).
THEOREM PoolHoldsLeavers == Spec => []PoolIsLeaving
<1>1. IInv => PoolIsLeaving
  BY CorePromises DEF IInv, Promised, PoolIsLeaving
<1> QED BY <1>1, Inductive, PTL

\* task_all_list, task_all_nums and task_pool_list agree whenever nobody is inside
\* task_start or task_exit, although each is changed in several statements.
THEOREM ListsAndCount == Spec => []ListsAgree
<1>1. IInv => ListsAgree
  BY CorePromises DEF IInv, Promised, ListsAgree
<1> QED BY <1>1, Inductive, PTL

===============================================================================
