--------------------------- MODULE SupervisorProofs ---------------------------
(***************************************************************************)
(* Proofs about Supervisor, for every set of tasks and every number of     *)
(* workers, whatever blocks and whatever the signals do: a notification is *)
(* in one pair of hands, and the thread that has it answers its own task.  *)
(***************************************************************************)
EXTENDS Supervisor, FiniteSetTheorems, FunctionTheorems, SequenceTheorems, WellFoundedInduction, TLAPS

-----------------------------------------------------------------------------
(* The inductive invariant.                                                *)

Waiting(t) == task[t].st \in {"queued", "taken"}
NotifOf(t) == [id |-> task[t].id, task |-> t, op |-> task[t].op]
Held(i) == reader.notif.id = i \/ \E w \in Workers : worker[w].notif.id = i

\* A task has a notification exactly while it waits for an answer.
TasksNotified ==
  \A t \in Tasks : IF Waiting(t) THEN task[t].id \in Ids /\ task[t].op # "none"
                                 ELSE task[t].id = NoId

\* The kernel gave no id to two calls that wait.
IdsDistinct ==
  \A t, u \in Tasks : task[t].id \in Ids /\ task[t].id = task[u].id => t = u

\* The queue holds the tasks that were not received yet, each once.
Once(q) == \A i, j \in 1..Len(q) : q[i] = q[j] => i = j
In(q, t) == \E i \in 1..Len(q) : q[i] = t
QueueExact == Once(queue) /\ \A t \in Tasks : task[t].st = "queued" <=> In(queue, t)

\* No two threads have notifications of one id.
HandsDistinct ==
  \A w \in Workers : worker[w].notif.id \in Ids =>
    /\ reader.notif.id # worker[w].notif.id
    /\ \A v \in Workers : worker[v].notif.id = worker[w].notif.id => v = w

\* A notification is in somebody's hands once it was received, not before.
TakenHeld ==
  \A t \in Tasks : Waiting(t) => (task[t].st = "taken" <=> Held(task[t].id))

\* Whoever has the id of a task that waits has that task's call.
HoldersRight ==
  \A t \in Tasks : task[t].st = "taken" =>
    /\ reader.notif.id = task[t].id => reader.notif = NotifOf(t)
    /\ \A w \in Workers : worker[w].notif.id = task[t].id => worker[w].notif = NotifOf(t)

IInv == TypeOK /\ TasksNotified /\ IdsDistinct /\ QueueExact /\ HandsDistinct
        /\ TakenHeld /\ HoldersRight

-----------------------------------------------------------------------------
(* Ids.                                                                    *)

\* A set of numbers has a least one.
LEMMA LeastNatural ==
  ASSUME NEW T \in SUBSET Nat, T # {}
  PROVE  \E x \in T : \A y \in T : x <= y
<1> DEFINE R == OpToRel(<, Nat)
<1>1. IsWellFoundedOn(R, Nat)
  BY NatLessThanWellFounded
<1>2. PICK x \in T : \A y \in T : ~(<<y, x>> \in R)
  <2> HIDE DEF R
  <2> QED
    BY <1>1, WFMin
<1>3. ASSUME NEW y \in T PROVE x <= y
  <2>1. ~(<<y, x>> \in {ss \in Nat \X Nat : ss[1] < ss[2]})
    BY <1>2 DEF OpToRel
  <2> QED
    BY <2>1
<1> QED
  BY <1>2, <1>3

\* A set that a function maps onto is no larger than the function's domain.
LEMMA ImageBound ==
  ASSUME NEW S, IsFiniteSet(S), NEW T, NEW f \in [S -> T],
         \A y \in T : \E x \in S : f[x] = y
  PROVE  /\ IsFiniteSet(T) /\ Cardinality(T) \in Nat
         /\ Cardinality(S) \in Nat /\ Cardinality(T) <= Cardinality(S)
<1>1. f \in Surjection(S, T)
  BY Fun_IsSurj
<1> QED
  BY <1>1, FS_Surjection, FS_CardinalityType

\* There are more ids than tasks, workers and the receiving thread can refer to
\* while one task has none: the next id is one that nothing refers to.
LEMMA NextIdFresh ==
  ASSUME TypeOK, NEW t \in Tasks, task[t].id = NoId
  PROVE  NextId \in Ids \ Used
<1> DEFINE A == {task[u].id : u \in Tasks}
           B == {worker[w].notif.id : w \in Workers}
           r == reader.notif.id
<1>1. IsFiniteSet(A) /\ Cardinality(A) <= Cardinality(Tasks) /\ Cardinality(A) \in Nat
  <2> DEFINE f == [u \in Tasks |-> task[u].id]
  <2>1. f \in [Tasks -> A] /\ \A y \in A : \E u \in Tasks : f[u] = y
    OBVIOUS
  <2> HIDE DEF A, f
  <2> QED
    BY <2>1, ImageBound, SupervisorAssumption
<1>2. IsFiniteSet(B) /\ Cardinality(B) <= Cardinality(Workers) /\ Cardinality(B) \in Nat
  <2> DEFINE f == [w \in Workers |-> worker[w].notif.id]
  <2>1. f \in [Workers -> B] /\ \A y \in B : \E w \in Workers : f[w] = y
    OBVIOUS
  <2> HIDE DEF B, f
  <2> QED
    BY <2>1, ImageBound, SupervisorAssumption
<1>3. Cardinality(Tasks) \in Nat /\ Cardinality(Workers) \in Nat /\ MaxId \in Nat
      /\ MaxId > Cardinality(Tasks) + Cardinality(Workers)
  BY FS_CardinalityType, SupervisorAssumption
<1>4. Used = (A \cup {r}) \cup B
  BY DEF Used
<1>5. IsFiniteSet(A \cup {r}) /\ Cardinality(A \cup {r}) <= Cardinality(Tasks) + 1
      /\ Cardinality(A \cup {r}) \in Nat
  <2> HIDE DEF A, r
  <2>1. /\ IsFiniteSet(A \cup {r})
        /\ Cardinality(A \cup {r}) = IF r \in A THEN Cardinality(A) ELSE Cardinality(A) + 1
    BY <1>1, FS_AddElement
  <2> QED
    BY <1>1, <1>3, <2>1
<1>6. IsFiniteSet(Used) /\ Cardinality(Used) \in Nat
      /\ Cardinality(Used) <= Cardinality(Tasks) + 1 + Cardinality(Workers)
  <2> DEFINE C == A \cup {r}
  <2> HIDE DEF A, B, C
  <2>1. IsFiniteSet(C) /\ Cardinality(C) \in Nat /\ Cardinality(C) <= Cardinality(Tasks) + 1
    BY <1>5 DEF C
  <2>2. Cardinality(C \cap B) \in Nat
    BY <2>1, FS_Intersection, FS_CardinalityType
  <2>3. /\ IsFiniteSet(C \cup B)
        /\ Cardinality(C \cup B) = Cardinality(C) + Cardinality(B) - Cardinality(C \cap B)
    BY <1>2, <2>1, FS_Union
  <2>4. Cardinality(C \cup B) \in Nat
    BY <2>3, FS_CardinalityType
  <2>5. Used = C \cup B
    BY <1>4 DEF C
  <2> QED
    BY <1>2, <1>3, <2>1, <2>2, <2>3, <2>4, <2>5
<1>7. ASSUME Ids \subseteq Used PROVE FALSE
  <2>1. 0..MaxId \in SUBSET Used
    BY <1>3, <1>7 DEF Ids, NoId, Used
  <2>2. Cardinality(0..MaxId) = MaxId + 1
    BY <1>3, FS_Interval
  <2> QED
    BY <1>3, <1>6, <2>1, <2>2, FS_Subset
<1>8. Ids \ Used \in SUBSET Nat /\ Ids \ Used # {}
  BY <1>7 DEF Ids
<1> QED
  BY <1>8, LeastNatural DEF NextId

-----------------------------------------------------------------------------
(* The queue.                                                              *)

\* A task that traps is put at the end.
LEMMA QueueAppend ==
  ASSUME NEW q \in Seq(Tasks), Once(q), NEW t \in Tasks, ~In(q, t)
  PROVE  /\ Append(q, t) \in Seq(Tasks) /\ Once(Append(q, t))
         /\ \A u \in Tasks : In(Append(q, t), u) <=> (In(q, u) \/ u = t)
<1>1. /\ Append(q, t) \in Seq(Tasks) /\ Len(Append(q, t)) = Len(q) + 1
      /\ \A i \in 1..Len(q) : Append(q, t)[i] = q[i]
      /\ Append(q, t)[Len(q) + 1] = t /\ Len(q) \in Nat
  BY AppendProperties
<1> DEFINE r == Append(q, t)
<1> HIDE DEF r
<1>2. Once(r)
  BY <1>1 DEF Once, In, r
<1>3. ASSUME NEW u \in Tasks PROVE In(r, u) <=> (In(q, u) \/ u = t)
  BY <1>1 DEF In, r
<1> QED
  BY <1>1, <1>2, <1>3 DEF r

\* The oldest notification is received: its task is in the queue no more.
LEMMA QueueTail ==
  ASSUME NEW q \in Seq(Tasks), Once(q), q # <<>>
  PROVE  /\ Head(q) \in Tasks /\ In(q, Head(q))
         /\ Tail(q) \in Seq(Tasks) /\ Once(Tail(q))
         /\ \A u \in Tasks : In(Tail(q), u) <=> (In(q, u) /\ u # Head(q))
<1>1. /\ Head(q) \in Tasks /\ Head(q) = q[1] /\ Len(q) \in Nat \ {0}
      /\ Tail(q) \in Seq(Tasks) /\ Len(Tail(q)) = Len(q) - 1
      /\ \A i \in 1..Len(Tail(q)) : Tail(q)[i] = q[i + 1]
  BY HeadTailProperties, EmptySeq, LenProperties
<1> DEFINE r == Tail(q)
           h == Head(q)
<1> HIDE DEF r, h
<1>2. Once(r)
  BY <1>1 DEF Once, r
<1>3. In(q, h)
  BY <1>1 DEF In, h
<1>4. ASSUME NEW u \in Tasks, In(r, u) PROVE In(q, u) /\ u # h
  <2>1. PICK i \in 1..Len(r) : r[i] = u
    BY <1>4 DEF In
  <2>2. i + 1 \in 1..Len(q) /\ q[i + 1] = u /\ i + 1 # 1 /\ 1 \in 1..Len(q)
    BY <1>1, <2>1 DEF r
  <2> QED
    BY <1>1, <2>2 DEF Once, In, h
<1>5. ASSUME NEW u \in Tasks, In(q, u), u # h PROVE In(r, u)
  <2>1. PICK i \in 1..Len(q) : q[i] = u
    BY <1>5 DEF In
  <2>2. i # 1
    BY <1>1, <1>5, <2>1 DEF h
  <2>3. i - 1 \in 1..Len(r) /\ r[i - 1] = u
    BY <1>1, <2>1, <2>2 DEF r
  <2> QED
    BY <2>3 DEF In
<1> QED
  BY <1>1, <1>2, <1>3, <1>4, <1>5 DEF r, h

\* A wait that ends takes the task's notification out of the queue, and no other.
LEMMA QueueWithout ==
  ASSUME queue \in Seq(Tasks), Once(queue), NEW t \in Tasks
  PROVE  /\ Without(t) \in Seq(Tasks) /\ Once(Without(t))
         /\ \A u \in Tasks : In(Without(t), u) <=> (In(queue, u) /\ u # t)
<1>1. CASE ~In(queue, t)
  BY <1>1 DEF Without, In
<1>2. CASE In(queue, t)
  <2> DEFINE k == CHOOSE i \in 1..Len(queue) : queue[i] = t
             n == Len(queue)
             a == SubSeq(queue, 1, k - 1)
             b == SubSeq(queue, k + 1, n)
             r == a \o b
  <2>1. k \in 1..n /\ queue[k] = t /\ n \in Nat
    BY <1>2, LenProperties DEF In
  <2>2. Without(t) = r
    BY <1>2 DEF Without, In, RemoveAt
  <2> HIDE DEF k, n
  <2>3. \A i \in 1..n : queue[i] \in Tasks
    BY ElementOfSeq DEF n
  <2>4. a \in Seq(Tasks) /\ Len(a) = k - 1 /\ \A i \in 1..k - 1 : a[i] = queue[i]
    BY <2>1, <2>3, SubSeqProperties
  <2>5. b \in Seq(Tasks) /\ Len(b) = n - k /\ \A i \in 1..n - k : b[i] = queue[k + i]
    BY <2>1, <2>3, SubSeqProperties
  <2> HIDE DEF a, b
  <2>6. /\ r \in Seq(Tasks) /\ Len(r) = n - 1
        /\ \A i \in 1..n - 1 : r[i] = IF i < k THEN queue[i] ELSE queue[i + 1]
    <3>1. /\ r \in Seq(Tasks) /\ Len(r) = Len(a) + Len(b)
          /\ \A i \in 1..Len(a) + Len(b) : r[i] = IF i <= Len(a) THEN a[i] ELSE b[i - Len(a)]
      BY <2>4, <2>5, ConcatProperties
    <3> HIDE DEF r
    <3>2. ASSUME NEW i \in 1..n - 1 PROVE r[i] = IF i < k THEN queue[i] ELSE queue[i + 1]
      <4>1. CASE i < k
        <5>1. i \in 1..k - 1 /\ i \in 1..Len(a) + Len(b) /\ i <= Len(a)
          BY <2>1, <2>4, <2>5, <4>1
        <5>2. r[i] = a[i] /\ a[i] = queue[i]
          BY <2>4, <3>1, <5>1
        <5> QED
          BY <4>1, <5>2
      <4>2. CASE ~(i < k)
        <5>1. i - (k - 1) \in 1..n - k /\ r[i] = b[i - (k - 1)] /\ k + (i - (k - 1)) = i + 1
          BY <2>1, <2>4, <2>5, <3>1, <4>2
        <5> QED
          BY <2>5, <4>2, <5>1
      <4> QED
        BY <4>1, <4>2
    <3> QED
      BY <2>1, <2>4, <2>5, <3>1, <3>2
  <2> HIDE DEF r
  <2>7. ASSUME NEW i \in 1..Len(r), NEW j \in 1..Len(r), r[i] = r[j] PROVE i = j
    <3> DEFINE Back(x) == IF x < k THEN x ELSE x + 1
    <3>1. /\ Back(i) \in 1..n /\ Back(j) \in 1..n
          /\ r[i] = queue[Back(i)] /\ r[j] = queue[Back(j)]
      BY <2>1, <2>6
    <3>2. Back(i) = Back(j)
      <4> HIDE DEF Back
      <4> QED
        BY <2>7, <3>1 DEF Once, n
    <3> QED
      BY <2>1, <2>6, <3>2
  <2>8. ASSUME NEW u \in Tasks, In(r, u) PROVE In(queue, u) /\ u # t
    <3>1. PICK i \in 1..n - 1 : r[i] = u
      BY <2>6, <2>8 DEF In
    <3> DEFINE j == IF i < k THEN i ELSE i + 1
    <3>2. j \in 1..n /\ j # k /\ queue[j] = u
      BY <2>1, <2>6, <3>1
    <3>3. queue[j] # t
      BY <2>1, <3>2 DEF Once, n
    <3> HIDE DEF j
    <3> QED
      BY <3>2, <3>3 DEF In, n
  <2>9. ASSUME NEW u \in Tasks, In(queue, u), u # t PROVE In(r, u)
    <3>1. PICK j \in 1..n : queue[j] = u
      BY <2>9 DEF In, n
    <3> DEFINE i == IF j < k THEN j ELSE j - 1
    <3>2. i \in 1..n - 1 /\ r[i] = u
      <4>1. j # k
        BY <2>1, <2>9, <3>1
      <4>2. CASE j < k
        BY <2>1, <2>6, <3>1, <4>2
      <4>3. CASE j > k
        BY <2>1, <2>6, <3>1, <4>3
      <4> QED
        BY <2>1, <3>1, <4>1, <4>2, <4>3
    <3> HIDE DEF i
    <3> QED
      BY <2>6, <3>2 DEF In
  <2> QED
    BY <2>2, <2>6, <2>7, <2>8, <2>9 DEF Once
<1> QED
  BY <1>1, <1>2

-----------------------------------------------------------------------------
(* The steps.                                                              *)

\* The types of the constants and of the empty records.
LEMMA Types ==
  /\ NoId \notin Ids /\ Ids \subseteq Nat /\ NoId \in Nat
  /\ NoTask \notin Tasks /\ NoNotif \notin Notif /\ NoNotif.id = NoId
  /\ \A n \in Notif : n.id \in Ids /\ n.task \in Tasks
  /\ \A t \in Tasks : Calls(t) \subseteq {"read", "recv", "write", "other"}
BY SupervisorAssumption DEF NoId, Ids, NoNotif, Notif, Calls

\* A task makes a call: its notification is new, and waits in the queue.
LEMMA TrapStep ==
  ASSUME IInv, NEW t \in Tasks, NEW op \in Calls(t), Trap(t, op)
  PROVE  IInv'
<1> DEFINE i == NextId
<1> USE DEF IInv, Trap
<1>1. task[t].st = "user" /\ task[t].id = NoId
  BY DEF TasksNotified, Waiting
<1>2. i \in Ids /\ i \notin Used
  BY <1>1, NextIdFresh
<1> HIDE DEF i
<1>3. task' = [task EXCEPT ![t] = [st |-> "queued", id |-> i, op |-> op]]
  BY DEF i
<1>4. /\ \A u \in Tasks : task[u].id # i
      /\ reader.notif.id # i /\ \A w \in Workers : worker[w].notif.id # i
  BY <1>2 DEF Used
<1>5. op \in {"read", "recv", "write", "other"}
  BY Types
<1>6. \A u \in Tasks : task'[u] = IF u = t THEN [st |-> "queued", id |-> i, op |-> op]
                                           ELSE task[u]
  BY <1>3 DEF TypeOK
<1>7. ~In(queue, t)
  BY <1>1 DEF QueueExact
<1>8. TypeOK'
  <2>1. task' \in [Tasks -> [st : {"user", "queued", "taken", "gone"},
                             id : Ids \cup {NoId},
                             op : {"read", "recv", "write", "other", "none"}]]
    BY <1>2, <1>3, <1>5 DEF TypeOK
  <2>2. queue' \in Seq(Tasks)
    BY <1>7, QueueAppend DEF TypeOK, QueueExact
  <2> QED
    BY <2>1, <2>2 DEF TypeOK
<1>9. TasksNotified'
  BY <1>2, <1>5, <1>6 DEF TasksNotified, Waiting
<1>10. IdsDistinct'
  BY <1>4, <1>6 DEF IdsDistinct
<1>11. QueueExact'
  BY <1>6, <1>7, QueueAppend DEF QueueExact, TypeOK
<1>12. HandsDistinct'
  BY DEF HandsDistinct
<1>13. TakenHeld'
  BY <1>4, <1>6 DEF TakenHeld, Waiting, Held
<1>14. HoldersRight'
  BY <1>6 DEF HoldersRight, NotifOf
<1> QED
  BY <1>8, <1>9, <1>10, <1>11, <1>12, <1>13, <1>14

\* A signal or the death of a task takes its notification back: who has it
\* already keeps an id that no task waits for.
LEMMA WaitEnds ==
  ASSUME IInv, NEW t \in Tasks, NEW r \in {Running, Gone},
         task' = [task EXCEPT ![t] = r], queue' = Without(t),
         UNCHANGED <<pipe, reader, worker>>
  PROVE  IInv'
<1> USE DEF IInv
<1>1. r.st \in {"user", "gone"} /\ r.id = NoId /\ r.op = "none"
  BY DEF Running, Gone
<1>2. \A u \in Tasks : task'[u] = IF u = t THEN r ELSE task[u]
  BY DEF TypeOK
<1>3. /\ queue' \in Seq(Tasks) /\ Once(queue')
      /\ \A u \in Tasks : In(queue', u) <=> (In(queue, u) /\ u # t)
  BY QueueWithout DEF TypeOK, QueueExact
<1>4. TypeOK'
  <2>1. task' \in [Tasks -> [st : {"user", "queued", "taken", "gone"},
                             id : Ids \cup {NoId},
                             op : {"read", "recv", "write", "other", "none"}]]
    BY DEF TypeOK, Running, Gone
  <2> QED
    BY <1>3, <2>1 DEF TypeOK
<1>5. TasksNotified'
  BY <1>1, <1>2 DEF TasksNotified, Waiting
<1>6. IdsDistinct'
  BY <1>1, <1>2, Types DEF IdsDistinct
<1>7. QueueExact'
  BY <1>1, <1>2, <1>3 DEF QueueExact
<1>8. HandsDistinct'
  BY DEF HandsDistinct
<1>9. TakenHeld'
  BY <1>1, <1>2 DEF TakenHeld, Waiting, Held
<1>10. HoldersRight'
  BY <1>1, <1>2 DEF HoldersRight, NotifOf
<1> QED
  BY <1>4, <1>5, <1>6, <1>7, <1>8, <1>9, <1>10

\* The guest tree is killed: nobody waits any more.
LEMMA KillAllStep ==
  ASSUME IInv, KillAll
  PROVE  IInv'
<1> USE DEF IInv, KillAll
<1>1. \A u \in Tasks : task'[u] = Gone /\ Gone.st = "gone" /\ Gone.id = NoId
  BY DEF Gone
<1>2. TypeOK'
  <2>1. task' \in [Tasks -> [st : {"user", "queued", "taken", "gone"},
                             id : Ids \cup {NoId},
                             op : {"read", "recv", "write", "other", "none"}]]
    BY DEF Gone
  <2> QED
    BY <2>1, EmptySeq DEF TypeOK
<1>3. TasksNotified' /\ IdsDistinct'
  BY <1>1, Types DEF TasksNotified, IdsDistinct, Waiting
<1>4. QueueExact'
  BY <1>1, EmptySeq DEF QueueExact, Once, In
<1>5. HandsDistinct' /\ TakenHeld' /\ HoldersRight'
  BY <1>1 DEF HandsDistinct, TakenHeld, HoldersRight, Waiting
<1> QED
  BY <1>2, <1>3, <1>4, <1>5

\* The receiving thread moves without a notification, or the pipe is fed.
LEMMA ReaderMoves ==
  ASSUME IInv, reader.notif = NoNotif, NEW pc \in {"poll", "recv", "join", "done"},
         reader' = [pc |-> pc, notif |-> NoNotif],
         UNCHANGED <<task, queue, pipe, worker>>
  PROVE  IInv'
<1> USE DEF IInv
<1>1. TypeOK'
  BY DEF TypeOK
<1>2. TasksNotified' /\ IdsDistinct'
  BY DEF TasksNotified, IdsDistinct, Waiting
<1>3. QueueExact' /\ HandsDistinct'
  BY DEF QueueExact, HandsDistinct
<1>4. TakenHeld'
  BY DEF TakenHeld, Waiting, Held
<1>5. HoldersRight'
  BY DEF HoldersRight, NotifOf
<1> QED
  BY <1>1, <1>2, <1>3, <1>4, <1>5

\* The oldest notification goes from the queue to the receiving thread.
LEMMA RecvStep ==
  ASSUME IInv, recv
  PROVE  IInv'
<1> USE DEF IInv
<1>1. reader.notif = NoNotif
  BY DEF recv, ReaderAt, TypeOK
<1>2. CASE queue = <<>>
  BY <1>1, <1>2, ReaderMoves DEF recv, ReaderGoes
<1>3. CASE queue # <<>>
  <2> DEFINE t == Head(queue)
             n == [id |-> task[t].id, task |-> t, op |-> task[t].op]
  <2>1. /\ t \in Tasks /\ In(queue, t) /\ queue' \in Seq(Tasks) /\ Once(queue')
        /\ \A u \in Tasks : In(queue', u) <=> (In(queue, u) /\ u # t)
    <3>1. queue \in Seq(Tasks) /\ Once(queue) /\ queue' = Tail(queue)
      BY <1>3 DEF recv, TypeOK, QueueExact
    <3> QED
      BY <1>3, <3>1, QueueTail
  <2>2. /\ task' = [task EXCEPT ![t] = [@ EXCEPT !.st = "taken"]]
        /\ reader' = [pc |-> "send", notif |-> n]
        /\ UNCHANGED <<pipe, worker>>
    BY <1>3 DEF recv, ReaderGoes
  <2> HIDE DEF t
  <2>3. task[t].st = "queued" /\ task[t].id \in Ids
        /\ task[t].op \in {"read", "recv", "write", "other"}
    BY <2>1 DEF QueueExact, TasksNotified, Waiting, TypeOK
  <2>4. n \in Notif
    BY <2>1, <2>3 DEF Notif
  <2>5. /\ \A u \in Tasks : task'[u].id = task[u].id /\ task'[u].op = task[u].op
        /\ \A u \in Tasks : task'[u].st = IF u = t THEN "taken" ELSE task[u].st
    BY <2>1, <2>2 DEF TypeOK
  <2>6. \A w \in Workers : worker[w].notif.id # task[t].id
    BY <2>1, <2>3 DEF TakenHeld, Waiting, Held
  <2>7. TypeOK'
    <3>1. task' \in [Tasks -> [st : {"user", "queued", "taken", "gone"},
                               id : Ids \cup {NoId},
                               op : {"read", "recv", "write", "other", "none"}]]
      BY <2>1, <2>2 DEF TypeOK
    <3> QED
      BY <2>1, <2>2, <2>4, <3>1 DEF TypeOK
  <2>8. TasksNotified'
    BY <2>1, <2>3, <2>5 DEF TasksNotified, Waiting
  <2>9. IdsDistinct'
    BY <2>5 DEF IdsDistinct
  <2>10. QueueExact'
    BY <2>1, <2>5 DEF QueueExact
  <2>11. HandsDistinct'
    BY <2>2, <2>6 DEF HandsDistinct
  <2>12. TakenHeld'
    <3> SUFFICES ASSUME NEW u \in Tasks, Waiting(u)'
                 PROVE  task'[u].st = "taken" <=> Held(task[u].id)'
      BY <2>5 DEF TakenHeld
    <3>1. CASE u = t
      BY <2>2, <2>5, <3>1 DEF Held
    <3>2. CASE u # t
      <4>1. Waiting(u) /\ task'[u].st = task[u].st /\ task[u].id \in Ids
        BY <2>5, <3>2 DEF Waiting, TasksNotified
      <4>2. task[u].id # task[t].id /\ task[u].id # NoId
        BY <2>1, <3>2, <4>1, Types DEF IdsDistinct
      <4>3. Held(task[u].id)' <=> Held(task[u].id)
        BY <1>1, <2>2, <4>2, Types DEF Held
      <4> QED
        BY <4>1, <4>3 DEF TakenHeld
    <3> QED
      BY <3>1, <3>2
  <2>13. HoldersRight'
    <3> SUFFICES ASSUME NEW u \in Tasks, task'[u].st = "taken"
                 PROVE  /\ n.id = task[u].id => n = NotifOf(u)'
                        /\ \A w \in Workers : worker[w].notif.id = task[u].id
                              => worker[w].notif = NotifOf(u)'
      BY <2>2, <2>5 DEF HoldersRight
    <3>1. NotifOf(u)' = NotifOf(u)
      BY <2>5 DEF NotifOf
    <3>2. n.id = task[u].id => u = t
      BY <2>1, <2>3 DEF IdsDistinct
    <3>3. u # t => task[u].st = "taken"
      BY <2>5
    <3> QED
      BY <2>6, <3>1, <3>2, <3>3 DEF HoldersRight, NotifOf
  <2> QED
    BY <2>7, <2>8, <2>9, <2>10, <2>11, <2>12, <2>13
<1> QED
  BY <1>2, <1>3

\* The notification goes from the receiving thread to an idle worker.
LEMMA HandOverStep ==
  ASSUME IInv, NEW w \in Workers, hand_over(w)
  PROVE  IInv'
<1> DEFINE n == reader.notif
<1> USE DEF IInv
<1>1. /\ n \in Notif /\ n.id \in Ids /\ n.id # NoId
      /\ worker[w].notif = NoNotif /\ worker[w].notif.id = NoId
  BY Types DEF hand_over, ReaderAt, TypeOK
<1>2. /\ worker' = [worker EXCEPT ![w] = [pc |-> "handle", notif |-> n]]
      /\ reader' = [pc |-> "poll", notif |-> NoNotif] /\ reader'.notif.id = NoId
      /\ UNCHANGED <<task, queue, pipe>>
  BY Types DEF hand_over, ReaderGoes
<1>3. \A v \in Workers : worker'[v].notif = IF v = w THEN n ELSE worker[v].notif
  BY <1>2 DEF TypeOK
<1>4. \A v \in Workers : worker[v].notif.id # n.id
  BY <1>1 DEF HandsDistinct
<1>5. TypeOK'
  <2>1. NoNotif \notin Notif
    BY Types
  <2> QED
    BY <1>1, <1>2, <2>1 DEF TypeOK
<1>6. TasksNotified' /\ IdsDistinct' /\ QueueExact'
  BY <1>2 DEF TasksNotified, IdsDistinct, QueueExact, Waiting
<1>7. HandsDistinct'
  BY <1>1, <1>2, <1>3, <1>4, Types DEF HandsDistinct
<1>8. \A i \in Ids : Held(i)' <=> Held(i)
  BY <1>1, <1>2, <1>3, Types DEF Held
<1>9. TakenHeld'
  BY <1>2, <1>8 DEF TakenHeld, Waiting, TasksNotified
<1>10. HoldersRight'
  BY <1>1, <1>2, <1>3, Types DEF HoldersRight, NotifOf, TasksNotified, Waiting
<1> QED
  BY <1>5, <1>6, <1>7, <1>9, <1>10

\* A worker goes on with its notification.
LEMMA WorkerMoves ==
  ASSUME IInv, NEW w \in Workers, worker[w].pc \notin {"idle", "ended"},
         NEW pc \in {"handle", "poll", "read", "try", "check", "write", "reply"},
         Goes(w, pc), pipe' \in 0..Capacity, UNCHANGED <<task, queue, reader>>
  PROVE  IInv'
<1> USE DEF IInv
<1>1. /\ \A v \in Workers : worker'[v].notif = worker[v].notif
      /\ \A v \in Workers : worker'[v].pc = IF v = w THEN pc ELSE worker[v].pc
  BY DEF Goes, TypeOK
<1>2. worker' \in [Workers -> [pc : {"idle", "handle", "poll", "read", "try", "check",
                                     "write", "reply", "ended"},
                               notif : Notif \cup {NoNotif}]]
  BY DEF Goes, TypeOK
<1>3. TypeOK'
  BY <1>1, <1>2 DEF TypeOK
<1>4. TasksNotified' /\ IdsDistinct' /\ QueueExact'
  BY DEF TasksNotified, IdsDistinct, QueueExact, Waiting
<1>5. HandsDistinct'
  BY <1>1 DEF HandsDistinct
<1>6. TakenHeld'
  BY <1>1 DEF TakenHeld, Waiting, Held
<1>7. HoldersRight'
  BY <1>1 DEF HoldersRight, NotifOf
<1> QED
  BY <1>3, <1>4, <1>5, <1>6, <1>7

\* The handlers' steps but the answer: some of them use the pipe.
LEMMA HandlerSteps ==
  ASSUME IInv, NEW w \in Workers,
         handle(w) \/ poll_readable(w) \/ read(w) \/ try_recv(w) \/ check_valid(w) \/ write(w)
  PROVE  IInv'
<1> USE DEF IInv, At
<1>1. pipe \in 0..Capacity /\ Capacity \in Nat
  BY SupervisorAssumption DEF TypeOK
<1>2. worker[w].pc \notin {"idle", "ended"}
        => Blocked[Op(w)] \in {"poll", "try", "write", "reply"}
  <2> SUFFICES ASSUME worker[w].pc \notin {"idle", "ended"}
               PROVE  Blocked[Op(w)] \in {"poll", "try", "write", "reply"}
    OBVIOUS
  <2>1. worker[w].notif \in Notif
    BY DEF TypeOK
  <2>2. worker[w].notif.op \in {"read", "recv", "write", "other"}
    BY <2>1 DEF Notif
  <2> QED
    BY <2>2 DEF Blocked, Op
<1>3. CASE handle(w)
  BY <1>1, <1>2, <1>3, WorkerMoves DEF handle
<1>4. CASE poll_readable(w)
  BY <1>1, <1>4, WorkerMoves DEF poll_readable
<1>5. CASE check_valid(w)
  BY <1>1, <1>2, <1>5, WorkerMoves DEF check_valid
<1>6. ASSUME worker[w].pc \in {"read", "try"}, Takes(w) PROVE IInv'
  <2>1. pipe' \in 0..Capacity
    BY <1>1, <1>6 DEF Takes
  <2> QED
    BY <1>6, <2>1, WorkerMoves DEF Takes
<1>7. CASE read(w)
  BY <1>6, <1>7 DEF read
<1>8. CASE try_recv(w)
  <2>1. CASE Takes(w)
    BY <1>6, <1>8, <2>1 DEF try_recv
  <2>2. CASE pipe = 0 /\ Goes(w, "check") /\ UNCHANGED <<task, queue, pipe, reader>>
    BY <1>1, <1>8, <2>2, WorkerMoves DEF try_recv
  <2> QED
    BY <1>8, <2>1, <2>2 DEF try_recv
<1>9. CASE write(w)
  <2>1. pipe' \in 0..Capacity
    BY <1>1, <1>9 DEF write
  <2> QED
    BY <1>9, <2>1, WorkerMoves DEF write
<1> QED
  BY <1>3, <1>4, <1>5, <1>7, <1>8, <1>9

\* The answer reaches the task that waits for it, if one still does, and
\* the worker has no notification any more.
LEMMA SendStep ==
  ASSUME IInv, NEW w \in Workers, send(w)
  PROVE  IInv'
<1> DEFINE i == worker[w].notif.id
<1> USE DEF IInv
<1>1. worker[w].notif \in Notif /\ i \in Ids /\ i # NoId
  BY Types DEF send, At, TypeOK
<1>2. /\ worker' = [worker EXCEPT ![w] = Idle]
      /\ UNCHANGED <<queue, pipe, reader>>
      /\ task' = [t \in Tasks |-> IF task[t].st = "taken" /\ task[t].id = i
                                    THEN Running ELSE task[t]]
  BY DEF send, Answered, Id
<1>3. \A t \in Tasks : task'[t] = IF task[t].st = "taken" /\ task[t].id = i
                                    THEN Running ELSE task[t]
  BY <1>2
<1>4. \A v \in Workers : worker'[v].notif = IF v = w THEN NoNotif ELSE worker[v].notif
  BY <1>2 DEF TypeOK, Idle
<1>5. Running.st = "user" /\ Running.id = NoId
  BY DEF Running
<1>6. TypeOK'
  <2>1. task' \in [Tasks -> [st : {"user", "queued", "taken", "gone"},
                             id : Ids \cup {NoId},
                             op : {"read", "recv", "write", "other", "none"}]]
    BY <1>2 DEF TypeOK, Running
  <2>2. worker' \in [Workers -> [pc : {"idle", "handle", "poll", "read", "try", "check",
                                       "write", "reply", "ended"},
                                 notif : Notif \cup {NoNotif}]]
    BY <1>2 DEF TypeOK, Idle
  <2>3. \A v \in Workers : worker'[v].pc \in {"idle", "ended"} <=> worker'[v].notif = NoNotif
    BY <1>2 DEF TypeOK, Idle
  <2> QED
    BY <1>2, <2>1, <2>2, <2>3 DEF TypeOK
<1>7. TasksNotified' /\ IdsDistinct'
  BY <1>3, <1>5, Types DEF TasksNotified, IdsDistinct, Waiting
<1>8. QueueExact'
  BY <1>2, <1>3, <1>5 DEF QueueExact
<1>9. HandsDistinct'
  BY <1>2, <1>4, Types DEF HandsDistinct
<1>10. \A j \in Ids : j # i => (Held(j)' <=> Held(j))
  BY <1>2, <1>4, Types DEF Held
<1>11. TakenHeld'
  <2> SUFFICES ASSUME NEW t \in Tasks, Waiting(t)'
               PROVE  task'[t].st = "taken" <=> Held(task[t].id)'
    BY <1>2 DEF TakenHeld
  <2>1. task'[t] = task[t] /\ Waiting(t) /\ task[t].id \in Ids
    BY <1>3, <1>5 DEF Waiting, TasksNotified
  <2>2. task[t].id # i
    BY <1>3, <1>5, <2>1 DEF TakenHeld, Held, Waiting
  <2> QED
    BY <1>10, <2>1, <2>2 DEF TakenHeld
<1>12. HoldersRight'
  <2> SUFFICES ASSUME NEW t \in Tasks, task'[t].st = "taken"
               PROVE  /\ reader.notif.id = task'[t].id => reader.notif = NotifOf(t)'
                      /\ \A v \in Workers : worker'[v].notif.id = task'[t].id
                            => worker'[v].notif = NotifOf(t)'
    BY <1>2 DEF HoldersRight
  <2>1. task'[t] = task[t] /\ NotifOf(t)' = NotifOf(t) /\ task[t].id \in Ids
    BY <1>3, <1>5 DEF NotifOf, TasksNotified, Waiting
  <2> QED
    BY <1>4, <2>1, Types DEF HoldersRight
<1> QED
  BY <1>6, <1>7, <1>8, <1>9, <1>11, <1>12

\* The workers end with the channel.
LEMMA WorkerEndsStep ==
  ASSUME IInv, NEW w \in Workers, worker_ends(w)
  PROVE  IInv'
<1> USE DEF IInv
<1>1. /\ worker' = [worker EXCEPT ![w] = Ended] /\ UNCHANGED <<task, queue, pipe, reader>>
      /\ worker[w].notif = NoNotif
  BY DEF worker_ends, At, TypeOK
<1>2. \A v \in Workers : worker'[v].notif = worker[v].notif
  BY <1>1 DEF TypeOK, Ended
<1>3. TypeOK'
  BY <1>1 DEF TypeOK, Ended
<1>4. TasksNotified' /\ IdsDistinct' /\ QueueExact'
  BY <1>1 DEF TasksNotified, IdsDistinct, QueueExact, Waiting
<1>5. HandsDistinct'
  BY <1>1, <1>2 DEF HandsDistinct
<1>6. TakenHeld'
  BY <1>1, <1>2 DEF TakenHeld, Waiting, Held
<1>7. HoldersRight'
  BY <1>1, <1>2 DEF HoldersRight, NotifOf
<1> QED
  BY <1>3, <1>4, <1>5, <1>6, <1>7

-----------------------------------------------------------------------------
(* The theorems.                                                           *)

\* Nothing is queued, received or handled when run begins.
LEMMA InitOK == Init => IInv
<1> SUFFICES ASSUME Init PROVE IInv
  OBVIOUS
<1> USE DEF Init
<1>1. TypeOK
  <2>1. <<>> \in Seq(Tasks) /\ 0 \in 0..Capacity
    BY EmptySeq, SupervisorAssumption
  <2> QED
    BY <2>1 DEF TypeOK, Running, Idle, NoId
<1>2. TasksNotified /\ IdsDistinct
  BY Types DEF TasksNotified, IdsDistinct, Waiting, Running
<1>3. QueueExact
  BY EmptySeq DEF QueueExact, Once, In, Running
<1>4. HandsDistinct /\ TakenHeld /\ HoldersRight
  BY Types DEF HandsDistinct, TakenHeld, HoldersRight, Waiting, Running, Idle
<1> QED
  BY <1>1, <1>2, <1>3, <1>4 DEF IInv

\* A step of a guest task, of the receiving thread or of a worker.
LEMMA NextOK == IInv /\ [Next]_vars => IInv'
<1> SUFFICES ASSUME IInv, [Next]_vars PROVE IInv'
  OBVIOUS
<1>1. ASSUME NEW t \in Tasks, NEW op \in Calls(t), Trap(t, op) PROVE IInv'
  BY <1>1, TrapStep
<1>2. ASSUME NEW t \in Tasks, Interrupt(t) PROVE IInv'
  BY <1>2, WaitEnds DEF Interrupt
<1>3. ASSUME NEW t \in Tasks, End(t) PROVE IInv'
  BY <1>3, WaitEnds DEF End
<1>4. CASE KillAll
  BY <1>4, KillAllStep
<1>5. CASE PeerWrites
  <2>1. pipe' \in 0..Capacity /\ UNCHANGED <<task, queue, reader, worker>>
    BY <1>5, SupervisorAssumption DEF PeerWrites, IInv, TypeOK
  <2>2. TypeOK' /\ TasksNotified' /\ IdsDistinct' /\ QueueExact'
    BY <2>1 DEF IInv, TypeOK, TasksNotified, IdsDistinct, QueueExact, Waiting
  <2>3. HandsDistinct' /\ TakenHeld' /\ HoldersRight'
    BY <2>1 DEF IInv, HandsDistinct, TakenHeld, HoldersRight, Waiting, Held, NotifOf
  <2> QED
    BY <2>2, <2>3 DEF IInv
<1>6. CASE poll
  BY <1>6, ReaderMoves DEF poll, ReaderAt, ReaderGoes, IInv, TypeOK
<1>7. CASE recv
  BY <1>7, RecvStep
<1>8. CASE join
  <2>1. reader' = [pc |-> "done", notif |-> NoNotif] /\ UNCHANGED <<task, queue, pipe, worker>>
        /\ reader.notif = NoNotif
    BY <1>8 DEF join, ReaderAt, ReaderGoes, IInv, TypeOK
  <2>2. TypeOK' /\ TasksNotified' /\ IdsDistinct' /\ QueueExact'
    BY <2>1 DEF IInv, TypeOK, TasksNotified, IdsDistinct, QueueExact, Waiting
  <2>3. HandsDistinct' /\ TakenHeld' /\ HoldersRight'
    BY <2>1 DEF IInv, HandsDistinct, TakenHeld, HoldersRight, Waiting, Held, NotifOf
  <2> QED
    BY <2>2, <2>3 DEF IInv
<1>9. ASSUME NEW w \in Workers, Work(w) PROVE IInv'
  BY <1>9, HandOverStep, HandlerSteps, SendStep, WorkerEndsStep DEF Work
<1>10. CASE UNCHANGED vars
  <2>1. TypeOK' /\ TasksNotified' /\ IdsDistinct' /\ QueueExact'
    BY <1>10 DEF vars, IInv, TypeOK, TasksNotified, IdsDistinct, QueueExact, Waiting
  <2>2. HandsDistinct' /\ TakenHeld' /\ HoldersRight'
    BY <1>10 DEF vars, IInv, HandsDistinct, TakenHeld, HoldersRight, Waiting, Held, NotifOf
  <2> QED
    BY <2>1, <2>2 DEF IInv
<1> QED
  BY <1>1, <1>2, <1>3, <1>4, <1>5, <1>6, <1>7, <1>8, <1>9, <1>10 DEF Next, Kernel

\* The state of the loop, the workers and the kernel's queue stays consistent
\* (run, recv, handle), whatever interrupts and ends the guest's calls.
THEOREM Inductive == Spec => []IInv
BY InitOK, NextOK, PTL DEF Spec

\* No two threads have one notification.
LEMMA OneOwnerHolds == IInv => OneOwner
<1> SUFFICES ASSUME IInv PROVE OneOwner
  OBVIOUS
<1>1. ASSUME NEW i \in Ids
      PROVE  Cardinality(Owners(i)) + (IF reader.notif.id = i THEN 1 ELSE 0) <= 1
  <2>1. CASE Owners(i) = {}
    <3>1. Cardinality(Owners(i)) = 0
      BY <2>1, FS_EmptySet
    <3> QED
      BY <3>1
  <2>2. CASE Owners(i) # {}
    <3>1. PICK w \in Workers : worker[w].notif.id = i
      BY <2>2 DEF Owners
    <3>2. Owners(i) = {w} /\ reader.notif.id # i
      BY <3>1 DEF Owners, IInv, HandsDistinct
    <3>3. Cardinality(Owners(i)) = 1
      BY <3>2, FS_Singleton
    <3> QED
      BY <3>2, <3>3
  <2> QED
    BY <2>1, <2>2
<1>2. ASSUME NEW t \in Tasks, task[t].st = "taken"
      PROVE  reader.notif.id = task[t].id \/ Owners(task[t].id) # {}
  BY <1>2 DEF IInv, TakenHeld, Waiting, Held, Owners
<1> QED
  BY <1>1, <1>2 DEF OneOwner

\* A notification is in one pair of hands from the RECV ioctl to its answer, and
\* a task that waits for an answer is in somebody's (recv, the channel of run,
\* the SEND ioctl); every variable keeps its type.
THEOREM AlwaysHandled == Spec => []Handled
<1>1. IInv => Handled
  BY OneOwnerHolds DEF IInv, Handled
<1> QED
  BY <1>1, Inductive, PTL

\* An answer goes to the task whose call was handled, or to nobody: a SEND
\* ioctl never answers a call other than the one the worker was handed, though
\* ids are used again (handle, send).
AnswersItsOwn ==
  \A w \in Workers : send(w) =>
    \A t \in Tasks : task'[t] # task[t] =>
      worker[w].notif = [id |-> task[t].id, task |-> t, op |-> task[t].op]
THEOREM AlwaysAnswersItsOwn == Spec => [][AnswersItsOwn]_vars
<1>1. IInv /\ [Next]_vars => [AnswersItsOwn]_vars
  <2> SUFFICES ASSUME IInv, NEW w \in Workers, send(w), NEW t \in Tasks, task'[t] # task[t]
               PROVE  worker[w].notif = NotifOf(t)
    BY DEF AnswersItsOwn, NotifOf
  <2>1. task[t].st = "taken" /\ task[t].id = worker[w].notif.id
    BY DEF send, Answered, Id
  <2> QED
    BY <2>1 DEF IInv, HoldersRight
<1> QED
  BY <1>1, Inductive, PTL DEF Spec

\* A notification that was received leaves the worker's hands only by the
\* answer: no worker drops a call or takes another before it replied.
KeepsUntilAnswered ==
  \A w \in Workers : worker[w].notif # NoNotif =>
    worker'[w].notif = worker[w].notif \/ send(w)
THEOREM AlwaysKeepsUntilAnswered == Spec => [][KeepsUntilAnswered]_vars
<1>1. IInv /\ [Next]_vars => [KeepsUntilAnswered]_vars
  <2> SUFFICES ASSUME IInv, Next, NEW w \in Workers, worker[w].notif # NoNotif, ~send(w)
               PROVE  worker'[w].notif = worker[w].notif
    BY DEF KeepsUntilAnswered
  <2>1. worker[w].pc \notin {"idle", "ended"}
    BY DEF IInv, TypeOK
  <2>2. ASSUME NEW v \in Workers, NEW pc, Goes(v, pc) PROVE worker'[w].notif = worker[w].notif
    BY <2>2 DEF Goes, IInv, TypeOK
  <2>3. CASE UNCHANGED worker
    BY <2>3
  <2>4. ASSUME NEW v \in Workers, Work(v) PROVE worker'[w].notif = worker[w].notif
    <3>1. CASE hand_over(v)
      BY <2>1, <3>1 DEF hand_over, IInv, TypeOK
    <3>2. CASE send(v)
      BY <3>2 DEF send, IInv, TypeOK
    <3>3. CASE worker_ends(v)
      BY <2>1, <3>3 DEF worker_ends, At, IInv, TypeOK
    <3>4. CASE handle(v) \/ poll_readable(v) \/ read(v) \/ try_recv(v) \/ check_valid(v) \/ write(v)
      BY <2>2, <3>4 DEF handle, poll_readable, read, try_recv, check_valid, write, Takes
    <3> QED
      BY <2>4, <3>1, <3>2, <3>3, <3>4 DEF Work
  <2> QED
    BY <2>3, <2>4 DEF Next, Kernel, Trap, Interrupt, End, KillAll, PeerWrites, poll, recv, join
<1> QED
  BY <1>1, Inductive, PTL DEF Spec
=============================================================================
