------------------------- MODULE TaskManagerProofs -------------------------
(***************************************************************************)
(* Proofs of the safety properties of TaskManager, for every set of tasks. *)
(*                                                                         *)
(* Beside the types, the induction needs to know where the loop is: what   *)
(* it has passed is no longer pending, the task it stands at is running or *)
(* done, and as long as nothing was prioritized during the run its array   *)
(* is this.order (Walk).                                                   *)
(***************************************************************************)
EXTENDS TaskManager, TLAPS, WellFoundedInduction

Walk ==
  /\ shared => running /\ array = order
  /\ running /\ ~reordered => shared
  /\ running => status[array[at]] \in {"running", "done"}
  /\ \A i \in 1 .. at : status[array[i]] # "pending"
  /\ \A i \in 1 .. Len(array) : status[array[i]] # "absent"

IInv == TypeOK /\ OneTaskRuns /\ Walk
-----------------------------------------------------------------------------
(* Operators. *)

\* A set of naturals that is not empty has a least element.
LEMMA MinOfNats ==
  ASSUME NEW S \in SUBSET Nat, S # {}
  PROVE  Min(S) \in S /\ \A x \in S : Min(S) <= x
<1> DEFINE R == OpToRel(<, Nat)
<1>1. \A x, y \in Nat : <<y, x>> \in R <=> y < x
  BY DEF OpToRel
<1>2. IsWellFoundedOn(R, Nat)
  BY NatLessThanWellFounded
<1> HIDE DEF R
<1>3. PICK x \in S : \A y \in S : ~ (<<y, x>> \in R)
  BY <1>2, WFMin
<1>4. \A y \in S : ~ (y < x)
  BY <1>1, <1>3
<1>5. \A y \in S : x <= y
  BY <1>4
<1>6. QED
  BY <1>5 DEF Min

\* Moving a task to the front permutes the sequence.
LEMMA MoveToFrontPermutes ==
  ASSUME NEW s \in Seq(Tasks), IsInjective(s), NEW t \in ToSet(s)
  PROVE  LET m == MoveToFront(s, t)
         IN  m \in Seq(Tasks) /\ IsInjective(m) /\ ToSet(m) = ToSet(s)
<1> DEFINE k == CHOOSE i \in 1 .. Len(s) : s[i] = t
           m == MoveToFront(s, t)
<1>1. k \in 1 .. Len(s) /\ s[k] = t
  BY DEF ToSet
<1>2. m = [i \in 1 .. Len(s) |-> IF i = 1 THEN t ELSE IF i <= k THEN s[i - 1] ELSE s[i]]
  BY DEF MoveToFront
<1> HIDE DEF k, m
<1>3. Len(s) \in Nat /\ DOMAIN s = 1 .. Len(s) /\ \A i \in 1 .. Len(s) : s[i] \in Tasks
  OBVIOUS
<1>4. \A i \in 1 .. Len(s) : m[i] \in Tasks
  BY <1>1, <1>2, <1>3
<1>5. m \in Seq(Tasks) /\ DOMAIN m = 1 .. Len(s)
  BY <1>2, <1>3, <1>4
<1>6. IsInjective(m)
  <2> SUFFICES ASSUME NEW i \in 1 .. Len(s), NEW j \in 1 .. Len(s), m[i] = m[j]
               PROVE  i = j
    BY <1>5 DEF IsInjective
  <2>1. \A a, b \in 1 .. Len(s) : s[a] = s[b] => a = b
    BY <1>3 DEF IsInjective
  <2>2. QED
    BY <1>1, <1>2, <1>3, <2>1
<1>7. ToSet(m) = ToSet(s)
  <2>1. ASSUME NEW i \in 1 .. Len(s) PROVE m[i] \in ToSet(s)
    BY <1>1, <1>2, <1>3 DEF ToSet
  <2>2. ASSUME NEW i \in 1 .. Len(s) PROVE s[i] \in ToSet(m)
    <3>1. CASE i < k
      <4>1. i + 1 \in 1 .. Len(s) /\ m[i + 1] = s[i]
        BY <1>1, <1>2, <1>3, <3>1
      <4>2. QED
        BY <4>1, <1>5 DEF ToSet
    <3>2. CASE i = k
      <4>1. 1 \in 1 .. Len(s) /\ m[1] = s[i]
        BY <1>1, <1>2, <1>3, <3>2
      <4>2. QED
        BY <4>1, <1>5 DEF ToSet
    <3>3. CASE i > k
      <4>1. m[i] = s[i]
        BY <1>1, <1>2, <1>3, <3>3
      <4>2. QED
        BY <4>1, <1>5 DEF ToSet
    <3>4. QED
      BY <1>1, <1>3, <3>1, <3>2, <3>3
  <2>3. QED
    BY <2>1, <2>2, <1>3, <1>5 DEF ToSet
<1>8. QED
  BY <1>5, <1>6, <1>7 DEF m
-----------------------------------------------------------------------------
(* The loop. *)

Added(st) == {t \in Tasks : st[t] # "absent"}

\* Where StartNext leaves the loop, when no task runs and the passed ones are
\* not pending
LEMMA StartNextInv ==
  ASSUME NEW s \in Seq(Tasks), NEW st \in [Tasks -> Statuses], NEW i \in 0 .. Len(s),
         PendingAfter(s, i, st) # {}, StartNext(s, i, st),
         \A t \in Tasks : st[t] # "running",
         \A j \in 1 .. i : st[s[j]] # "pending",
         \A j \in 1 .. Len(s) : st[s[j]] # "absent",
         array' = s, running' = TRUE
  PROVE  /\ status' \in [Tasks -> Statuses] /\ Added(status') = Added(st)
         /\ at' \in 1 .. Len(s)
         /\ OneTaskRuns'
         /\ status'[s[at']] = "running" /\ st[s[at']] = "pending"
         /\ \A j \in 1 .. Len(s) : j < at' => st[s[j]] # "pending"
         /\ \A j \in 1 .. at' : status'[s[j]] # "pending"
         /\ \A j \in 1 .. Len(s) : status'[s[j]] # "absent"
         /\ \A t \in Tasks : st[t] # "pending" => status'[t] = st[t]
         /\ \A t \in Tasks : status'[t] = "running" => t = s[at']
<1> DEFINE n == Min(PendingAfter(s, i, st))
           new == [st EXCEPT ![s[n]] = "running"]
<1>1. n \in PendingAfter(s, i, st) /\ \A j \in PendingAfter(s, i, st) : n <= j
  <2>1. PendingAfter(s, i, st) \subseteq Nat
    BY DEF PendingAfter
  <2>2. QED
    BY <2>1, MinOfNats
<1>2. at' = n /\ status' = new
  BY DEF StartNext
<1> HIDE DEF n
<1>3. /\ n \in 1 .. Len(s) /\ n > i /\ st[s[n]] = "pending"
      /\ n \in Nat /\ Len(s) \in Nat /\ i \in Nat
      /\ \A j \in 1 .. Len(s) : s[j] \in Tasks
  BY <1>1 DEF PendingAfter
<1>4. new \in [Tasks -> Statuses] /\ Added(new) = Added(st)
  BY <1>3 DEF Added, Statuses
<1>5. ASSUME NEW j \in 1 .. Len(s), j < n PROVE st[s[j]] # "pending"
  <2>1. CASE j <= i
    BY <2>1, <1>3
  <2>2. CASE j > i
    BY <2>2, <1>1, <1>3, <1>5 DEF PendingAfter
  <2>3. QED
    BY <2>1, <2>2, <1>3
<1>6. \A j \in 1 .. n : new[s[j]] # "pending"
  BY <1>3, <1>5
<1>7. \A t \in Tasks : new[t] = "running" => t = s[n]
  BY <1>3
<1>8. OneTaskRuns'
  BY <1>2, <1>7 DEF OneTaskRuns
<1>9. \A j \in 1 .. Len(s) : new[s[j]] # "absent"
  BY <1>3
<1>10. new[s[n]] = "running" /\ \A t \in Tasks : st[t] # "pending" => new[t] = st[t]
  BY <1>3
<1> HIDE DEF new
<1>11. QED
  BY <1>2, <1>3, <1>4, <1>5, <1>6, <1>7, <1>8, <1>9, <1>10

\* The loop goes on with statuses in which its task is no longer running.
LEMMA AdvanceInv ==
  ASSUME IInv, running, NEW st \in [Tasks -> Statuses], Advance(st),
         Added(st) = Added(status),
         \A t \in Tasks : st[t] # "running" /\ (st[t] = "pending" => status[t] = "pending")
  PROVE  IInv'
<1>1. at \in 1 .. Len(array) /\ array \in Seq(Tasks)
  BY DEF IInv, TypeOK
<1>2. \A j \in 1 .. at : st[array[j]] # "pending"
  BY <1>1 DEF IInv, Walk
<1>6. \A j \in 1 .. Len(array) : st[array[j]] # "absent"
  BY <1>1 DEF IInv, Walk, Added
<1>3. CASE EndRun /\ status' = st
  <2>1. TypeOK'
    <3>1. <<>> \in Seq(Tasks) /\ Len(<<>>) = 0
      OBVIOUS
    <3>2. array' \in Seq(Tasks) /\ at' \in 0 .. Len(array')
      BY <3>1, <1>3 DEF EndRun
    <3>3. QED
      BY <3>2, <1>3 DEF IInv, TypeOK, Advance, EndRun, Added
  <2>2. OneTaskRuns' /\ Walk'
    BY <1>3 DEF OneTaskRuns, Walk, EndRun
  <2>3. QED
    BY <2>1, <2>2 DEF IInv
<1>4. CASE /\ PendingAfter(array, at, st) # {}
           /\ StartNext(array, at, st)
           /\ UNCHANGED <<running, array, shared, reordered>>
  <2>1. /\ status' \in [Tasks -> Statuses] /\ Added(status') = Added(st)
        /\ at' \in 1 .. Len(array)
        /\ OneTaskRuns'
        /\ status'[array[at']] = "running"
        /\ \A j \in 1 .. at' : status'[array[j]] # "pending"
        /\ \A j \in 1 .. Len(array) : status'[array[j]] # "absent"
    BY <1>1, <1>2, <1>6, <1>4, StartNextInv
  <2>2. TypeOK'
    BY <1>4, <2>1 DEF IInv, TypeOK, Advance, Added
  <2>3. Walk'
    BY <1>4, <2>1 DEF IInv, Walk, Advance
  <2>4. QED
    BY <2>1, <2>2, <2>3 DEF IInv
<1>5. QED
  BY <1>3, <1>4 DEF Advance
-----------------------------------------------------------------------------
(* Actions. *)

LEMMA AddTaskInv == ASSUME IInv, NEW t \in Tasks, AddTask(t) PROVE IInv'
<1> USE DEF AddTask
<1>1. t \notin ToSet(order) /\ order \in Seq(Tasks)
  BY DEF IInv, TypeOK
<1>2. order' \in Seq(Tasks) /\ IsInjective(order')
  BY <1>1 DEF IInv, TypeOK, IsInjective, ToSet
<1>3. ToSet(order') = ToSet(order) \cup {t}
  <2>1. DOMAIN order' = 1 .. Len(order) + 1 /\ order'[Len(order) + 1] = t
    BY <1>1
  <2>2. \A i \in 1 .. Len(order) : order'[i] = order[i]
    BY <1>1
  <2>3. DOMAIN order = 1 .. Len(order) /\ Len(order) \in Nat
    BY <1>1
  <2>4. QED
    BY <2>1, <2>2, <2>3 DEF ToSet
<1>4. status' \in [Tasks -> Statuses] /\ Added(status') = Added(status) \cup {t}
  BY DEF IInv, TypeOK, Added, Statuses
<1>5. /\ array' \in Seq(Tasks) /\ Len(array) <= Len(array')
      /\ \A i \in 1 .. Len(array) : array'[i] = array[i]
  <2>1. CASE shared
    BY <2>1, <1>1, <1>2 DEF IInv, Walk
  <2>2. CASE ~shared
    BY <2>2 DEF IInv, TypeOK
  <2>3. QED
    BY <2>1, <2>2
<1>6. TypeOK'
  BY <1>2, <1>3, <1>4, <1>5 DEF IInv, TypeOK, Added
<1>7. \A i \in 1 .. Len(array) : array[i] \in Tasks /\ array[i] # t
  BY DEF IInv, TypeOK, Walk
<1>8. OneTaskRuns'
  <2> SUFFICES ASSUME NEW q \in Tasks, status'[q] = "running"
               PROVE  running' /\ array'[at'] = q
    BY DEF OneTaskRuns
  <2>1. status[q] = "running"
    BY DEF IInv, TypeOK
  <2>2. running /\ array[at] = q /\ at \in 1 .. Len(array)
    BY <2>1 DEF IInv, OneTaskRuns, TypeOK
  <2>3. QED
    BY <2>2, <1>5
<1>9. Walk'
  <2>1. shared' => running' /\ array' = order'
    BY DEF IInv, Walk
  <2>2. running' => status'[array'[at']] \in {"running", "done"}
    BY <1>5, <1>7 DEF IInv, TypeOK, Walk
  <2>3. \A i \in 1 .. at' : status'[array'[i]] # "pending"
    BY <1>5, <1>7 DEF IInv, TypeOK, Walk
  <2>4. \A i \in 1 .. Len(array') : status'[array'[i]] # "absent"
    <3>1. CASE shared
      <4>1. array' = Append(array, t)
        BY <3>1 DEF IInv, Walk
      <4>2. QED
        BY <4>1, <1>7 DEF IInv, TypeOK, Walk
    <3>2. CASE ~shared
      BY <3>2, <1>7 DEF IInv, TypeOK, Walk
    <3>3. QED
      BY <3>1, <3>2
  <2>5. QED
    BY <2>1, <2>2, <2>3, <2>4 DEF IInv, Walk
<1>10. QED
  BY <1>6, <1>8, <1>9 DEF IInv

LEMMA CancelTaskInv == ASSUME IInv, NEW t \in Tasks, CancelTask(t) PROVE IInv'
<1> USE DEF CancelTask
<1>1. status' \in [Tasks -> Statuses] /\ Added(status') = Added(status)
  BY DEF IInv, TypeOK, Added, Statuses
<1>2. TypeOK'
  BY <1>1 DEF IInv, TypeOK, Added
<1>3. \A q \in Tasks : status'[q] = status[q] \/ (status[q] = "pending" /\ status'[q] = "cancelled")
  BY DEF IInv, TypeOK
<1>4. OneTaskRuns'
  BY <1>3 DEF IInv, OneTaskRuns
<1>5. \A i \in 1 .. Len(array) : array[i] \in Tasks
  BY DEF IInv, TypeOK
<1>6. Walk'
  BY <1>3, <1>5 DEF IInv, TypeOK, Walk
<1>7. QED
  BY <1>2, <1>4, <1>6 DEF IInv

LEMMA PrioritizeTaskInv == ASSUME IInv, NEW t \in Tasks, PrioritizeTask(t) PROVE IInv'
<1>1. t \in ToSet(order)
  BY DEF PrioritizeTask, IInv, TypeOK
<1>2. order' \in Seq(Tasks) /\ IsInjective(order') /\ ToSet(order') = ToSet(order)
  BY <1>1, MoveToFrontPermutes DEF PrioritizeTask, IInv, TypeOK
<1>3. TypeOK'
  BY <1>2 DEF PrioritizeTask, IInv, TypeOK
<1>4. OneTaskRuns' /\ Walk'
  BY DEF PrioritizeTask, IInv, OneTaskRuns, Walk
<1>5. QED
  BY <1>3, <1>4 DEF IInv

\* A run that begins has a pending task to start with.
LEMMA OrderHasPending ==
  ASSUME IInv, Pending # {}
  PROVE  PendingAfter(order, 0, status) # {}
<1>1. PICK t \in Tasks : status[t] = "pending"
  BY DEF Pending
<1>2. t \in ToSet(order) /\ order \in Seq(Tasks)
  BY <1>1 DEF IInv, TypeOK
<1>3. PICK j \in 1 .. Len(order) : order[j] = t
  BY <1>2 DEF ToSet
<1>4. j \in PendingAfter(order, 0, status)
  BY <1>1, <1>3 DEF PendingAfter
<1>5. QED
  BY <1>4

\* What StartNextInv says of the start of a run
LEMMA RunQueueStarts ==
  ASSUME IInv, RunQueue
  PROVE  /\ status' \in [Tasks -> Statuses] /\ Added(status') = Added(status)
         /\ at' \in 1 .. Len(order)
         /\ OneTaskRuns'
         /\ status'[order[at']] = "running" /\ status[order[at']] = "pending"
         /\ \A j \in 1 .. Len(order) : j < at' => status[order[j]] # "pending"
         /\ \A j \in 1 .. at' : status'[order[j]] # "pending"
         /\ \A j \in 1 .. Len(order) : status'[order[j]] # "absent"
         /\ \A t \in Tasks : status'[t] = "running" => t = order[at']
<1>1. order \in Seq(Tasks) /\ status \in [Tasks -> Statuses] /\ 0 \in 0 .. Len(order)
  BY DEF IInv, TypeOK
<1>2. PendingAfter(order, 0, status) # {}
  BY OrderHasPending DEF RunQueue
<1>3. \A t \in Tasks : status[t] # "running"
  BY DEF RunQueue, IInv, OneTaskRuns
<1>4. \A j \in 1 .. Len(order) : status[order[j]] # "absent"
  <2>1. \A j \in 1 .. Len(order) : order[j] \in ToSet(order)
    BY <1>1 DEF ToSet
  <2>2. QED
    BY <2>1 DEF IInv, TypeOK
<1>5. StartNext(order, 0, status) /\ array' = order /\ running' = TRUE
  BY DEF RunQueue
<1>6. \A j \in 1 .. 0 : status[order[j]] # "pending"
  OBVIOUS
<1>7. QED
  BY <1>1, <1>2, <1>3, <1>4, <1>5, <1>6, StartNextInv

LEMMA RunQueueInv == ASSUME IInv, RunQueue PROVE IInv'
<1>1. /\ status' \in [Tasks -> Statuses] /\ Added(status') = Added(status)
      /\ at' \in 1 .. Len(order)
  BY RunQueueStarts
<1>2. TypeOK'
  <2>1. order \in Seq(Tasks) /\ Len(order) \in Nat
    BY DEF IInv, TypeOK
  <2>2. at' \in 0 .. Len(array') /\ (running' <=> at' # 0)
    BY <1>1, <2>1 DEF RunQueue
  <2>3. ToSet(order') = {t \in Tasks : status'[t] # "absent"}
    BY <1>1 DEF RunQueue, IInv, TypeOK, Added
  <2>4. /\ order' \in Seq(Tasks) /\ array' \in Seq(Tasks) /\ IsInjective(order')
        /\ running' \in BOOLEAN /\ aborted' \in BOOLEAN
        /\ shared' \in BOOLEAN /\ reordered' \in BOOLEAN
    BY DEF RunQueue, IInv, TypeOK
  <2>5. QED
    BY <1>1, <2>2, <2>3, <2>4 DEF TypeOK
<1>3. Walk'
  BY RunQueueStarts DEF RunQueue, Walk
<1>4. QED
  BY <1>2, <1>3, RunQueueStarts DEF IInv

LEMMA TaskDoneInv == ASSUME IInv, TaskDone PROVE IInv'
<1> USE DEF TaskDone
<1>1. at \in 1 .. Len(array) /\ \A i \in 1 .. Len(array) : array[i] \in Tasks
  BY DEF IInv, TypeOK
<1>2. status' \in [Tasks -> Statuses] /\ Added(status') = Added(status)
  BY <1>1 DEF IInv, TypeOK, Added, Statuses
<1>3. \A q \in Tasks : status'[q] = IF q = array[at] THEN "done" ELSE status[q]
  BY <1>1 DEF IInv, TypeOK
<1>4. TypeOK'
  BY <1>2 DEF IInv, TypeOK, Added
<1>5. OneTaskRuns'
  BY <1>3 DEF IInv, OneTaskRuns
<1>6. Walk'
  BY <1>1, <1>3 DEF IInv, TypeOK, Walk
<1>7. QED
  BY <1>4, <1>5, <1>6 DEF IInv

\* The statuses the loop goes on with
After == IF status[array[at]] = "running" THEN [status EXCEPT ![array[at]] = "failed"] ELSE status

LEMMA AfterTask ==
  ASSUME IInv, running
  PROVE  /\ After \in [Tasks -> Statuses] /\ Added(After) = Added(status)
         /\ \A t \in Tasks : After[t] # "running" /\ (After[t] = "pending" <=> status[t] = "pending")
<1>1. at \in 1 .. Len(array) /\ array[at] \in Tasks
  BY DEF IInv, TypeOK
<1>2. \A t \in Tasks : status[t] = "running" => t = array[at]
  BY DEF IInv, OneTaskRuns
<1>3. status \in [Tasks -> Statuses] /\ "failed" \in Statuses
  BY DEF IInv, TypeOK, Statuses
<1>4. CASE status[array[at]] = "running"
  BY <1>1, <1>2, <1>3, <1>4 DEF After, Added
<1>5. CASE status[array[at]] # "running"
  BY <1>1, <1>2, <1>3, <1>5 DEF After, Added
<1>6. QED
  BY <1>4, <1>5

LEMMA Goes == ASSUME JournalWritten \/ TaskFails PROVE running /\ Advance(After)
<1>1. CASE JournalWritten
  BY <1>1 DEF JournalWritten, After
<1>2. CASE TaskFails
  BY <1>2 DEF TaskFails, After
<1>3. QED
  BY <1>1, <1>2

LEMMA GoesInv == ASSUME IInv, JournalWritten \/ TaskFails PROVE IInv'
  BY Goes, AfterTask, AdvanceInv
-----------------------------------------------------------------------------
(* The invariant. *)

LEMMA InitInv == Init => IInv
<1> SUFFICES ASSUME Init PROVE IInv
  OBVIOUS
<1>1. <<>> \in Seq(Tasks) /\ Len(<<>>) = 0 /\ DOMAIN <<>> = {}
  OBVIOUS
<1>2. IsInjective(order) /\ ToSet(order) = {}
  BY <1>1 DEF Init, IsInjective, ToSet
<1>3. {t \in Tasks : status[t] # "absent"} = {} /\ status \in [Tasks -> Statuses]
  BY DEF Init, Statuses
<1>4. order \in Seq(Tasks) /\ array \in Seq(Tasks) /\ Len(array) = 0
  BY <1>1 DEF Init
<1>5. TypeOK
  <2>1. running \in BOOLEAN /\ aborted \in BOOLEAN /\ shared \in BOOLEAN /\ reordered \in BOOLEAN
    BY DEF Init
  <2>2. at \in 0 .. Len(array) /\ (running <=> at # 0)
    BY <1>4 DEF Init
  <2>3. QED
    BY <1>2, <1>3, <1>4, <2>1, <2>2 DEF TypeOK
<1>6. OneTaskRuns /\ Walk
  BY <1>1 DEF Init, OneTaskRuns, Walk
<1>7. QED
  BY <1>5, <1>6 DEF IInv

LEMMA NextInv == IInv /\ [Next]_vars => IInv'
<1> SUFFICES ASSUME IInv, [Next]_vars PROVE IInv'
  OBVIOUS
<1>1. ASSUME NEW t \in Tasks, AddTask(t) PROVE IInv'
  BY <1>1, AddTaskInv
<1>2. ASSUME NEW t \in Tasks, CancelTask(t) PROVE IInv'
  BY <1>2, CancelTaskInv
<1>3. ASSUME NEW t \in Tasks, PrioritizeTask(t) PROVE IInv'
  BY <1>3, PrioritizeTaskInv
<1>4. CASE RunQueue
  BY <1>4, RunQueueInv
<1>5. CASE RunQueueAgain \/ UNCHANGED vars
  BY <1>5 DEF RunQueueAgain, vars, IInv, TypeOK, OneTaskRuns, Walk
<1>6. CASE AbortQueue
  BY <1>6 DEF AbortQueue, IInv, TypeOK, OneTaskRuns, Walk
<1>7. CASE TaskDone
  BY <1>7, TaskDoneInv
<1>8. CASE JournalWritten \/ TaskFails
  BY <1>8, GoesInv
<1>9. QED
  BY <1>1, <1>2, <1>3, <1>4, <1>5, <1>6, <1>7, <1>8 DEF Next

LEMMA Invariant == Spec => []IInv
  BY InitInv, NextInv, PTL DEF Spec

\* The order always lists the tasks of the map, each once, and the loop stands
\* at a position of its array exactly during a run.
THEOREM TypeCorrect == Spec => []TypeOK
  BY Invariant, PTL DEF IInv

\* Tasks run one at a time, whatever run_queue messages arrive.
THEOREM OneTask == Spec => []OneTaskRuns
  BY Invariant, PTL DEF IInv
-----------------------------------------------------------------------------
(* Action properties. *)

\* Where the loop goes on to, when it does: what StartNextInv says of Advance
LEMMA GoesOn ==
  ASSUME IInv, running, Advance(After), running'
  PROVE  /\ ~aborted
         /\ at' \in 1 .. Len(array)
         /\ \A j \in 1 .. Len(array) : j < at' => After[array[j]] # "pending"
         /\ \A t \in Tasks : status'[t] = "running" => t = array[at']
<1>1. /\ PendingAfter(array, at, After) # {} /\ ~aborted
      /\ StartNext(array, at, After) /\ array' = array /\ running' = TRUE
  BY DEF Advance, EndRun
<1>2. /\ array \in Seq(Tasks) /\ at \in 1 .. Len(array) /\ at \in 0 .. Len(array)
      /\ \A j \in 1 .. Len(array) : array[j] \in Tasks
  BY DEF IInv, TypeOK
<1>3. /\ After \in [Tasks -> Statuses] /\ Added(After) = Added(status)
      /\ \A t \in Tasks : After[t] # "running" /\ (After[t] = "pending" <=> status[t] = "pending")
  BY AfterTask
<1>4. \A j \in 1 .. at : After[array[j]] # "pending"
  BY <1>2, <1>3 DEF IInv, Walk
<1>5. \A j \in 1 .. Len(array) : After[array[j]] # "absent"
  <2>1. \A t \in Tasks : After[t] # "absent" <=> status[t] # "absent"
    BY <1>3 DEF Added
  <2>2. QED
    BY <2>1, <1>2 DEF IInv, Walk
<1>6. QED
  BY <1>1, <1>2, <1>3, <1>4, <1>5, StartNextInv

\* Only two steps start a task: the start of a run, and the loop going on.
LEMMA WhoStarts ==
  ASSUME IInv, [Next]_vars, NEW t \in Tasks, Starts(t)
  PROVE  RunQueue \/ ((JournalWritten \/ TaskFails) /\ running')
<1> USE DEF Starts
<1>1. ASSUME NEW q \in Tasks, AddTask(q) \/ CancelTask(q) \/ PrioritizeTask(q) PROVE FALSE
  BY <1>1 DEF AddTask, CancelTask, PrioritizeTask, IInv, TypeOK
<1>2. ~ (RunQueueAgain \/ AbortQueue \/ UNCHANGED vars)
  BY DEF RunQueueAgain, AbortQueue, vars
<1>3. ~ TaskDone
  BY DEF TaskDone, IInv, TypeOK
<1>4. ASSUME JournalWritten \/ TaskFails PROVE running'
  <2>1. running /\ Advance(After) /\ \A q \in Tasks : After[q] # "running"
    BY <1>4, Goes, AfterTask
  <2>2. CASE EndRun /\ status' = After
    BY <2>1, <2>2
  <2>3. CASE UNCHANGED running
    BY <2>1, <2>3
  <2>4. QED
    BY <2>1, <2>2, <2>3 DEF Advance
<1>5. QED
  BY <1>1, <1>2, <1>3, <1>4 DEF Next

\* An abort that was acknowledged is not lost: it lasts as long as the run, and
\* no task starts before the run is over.
THEOREM AbortsHold == Spec => AbortHolds
<1>1. IInv /\ [Next]_vars => [ running /\ aborted =>
        /\ running' => aborted'
        /\ \A t \in Tasks : ~Starts(t) ]_vars
  <2> SUFFICES ASSUME IInv, [Next]_vars, running, aborted
               PROVE  aborted' /\ \A t \in Tasks : ~Starts(t)
    OBVIOUS
  <2>1. ~ RunQueue
    BY DEF RunQueue
  <2>2. aborted'
    BY <2>1 DEF Next, AddTask, CancelTask, PrioritizeTask, RunQueueAgain, AbortQueue,
                TaskDone, JournalWritten, TaskFails, Advance, vars
  <2>3. ASSUME NEW t \in Tasks, Starts(t) PROVE FALSE
    BY <2>1, <2>3, WhoStarts, Goes, GoesOn
  <2>4. QED
    BY <2>2, <2>3
<1>2. QED
  BY <1>1, Invariant, PTL DEF Spec, AbortHolds

\* Unless the queue was reordered during the run, the task that starts is the
\* first pending one of the order the user sees, tasks added meanwhile included.
THEOREM OrderIsFollowed == Spec => OrderFollowed
<1>1. IInv /\ [Next]_vars => [ \A t \in Tasks : Starts(t) /\ ~reordered => FirstPending(t) ]_vars
  <2> SUFFICES ASSUME IInv, [Next]_vars, NEW t \in Tasks, Starts(t), ~reordered,
                      NEW i \in DOMAIN order, NEW j \in DOMAIN order, order[j] = t, i < j
               PROVE  status[order[i]] # "pending"
    BY DEF FirstPending
  <2>1. /\ order \in Seq(Tasks) /\ Len(order) \in Nat
        /\ i \in 1 .. Len(order) /\ j \in 1 .. Len(order)
        /\ order[i] \in Tasks /\ status'[t] = "running"
    BY DEF IInv, TypeOK, Starts
  <2>2. \A k \in 1 .. Len(order) : order[k] = t => k = j
    BY <2>1 DEF IInv, TypeOK, IsInjective
  <2>3. CASE RunQueue
    <3>1. at' \in 1 .. Len(order) /\ t = order[at']
      BY <2>1, <2>3, RunQueueStarts
    <3>2. at' = j
      BY <2>2, <3>1
    <3>3. QED
      BY <2>1, <2>3, <3>2, RunQueueStarts
  <2>4. CASE (JournalWritten \/ TaskFails) /\ running'
    <3>1. running /\ Advance(After)
      BY <2>4, Goes
    <3>2. array = order
      BY <3>1 DEF IInv, Walk
    <3>3. /\ at' \in 1 .. Len(order) /\ t = order[at']
          /\ \A k \in 1 .. Len(order) : k < at' => After[order[k]] # "pending"
      BY <2>1, <2>4, <3>1, <3>2, GoesOn
    <3>4. at' = j
      BY <2>2, <3>3
    <3>5. After[order[i]] # "pending"
      BY <2>1, <3>3, <3>4
    <3>6. QED
      BY <2>1, <3>1, <3>5, AfterTask
  <2>5. QED
    BY <2>3, <2>4, WhoStarts
<1>2. QED
  BY <1>1, Invariant, PTL DEF Spec, OrderFollowed

\* A run that is not aborted leaves none of the tasks of its array pending, and
\* none at all if nothing was prioritized: no task added in time is forgotten.
THEOREM RunsDrain == Spec => RunDrains
<1>1. IInv /\ [Next]_vars => [ running /\ ~running' /\ ~aborted =>
        /\ \A t \in ToSet(array) : status'[t] # "pending"
        /\ ~reordered => Pending' = {} ]_vars
  <2> SUFFICES ASSUME IInv, [Next]_vars, running, ~running', ~aborted
               PROVE  /\ \A t \in ToSet(array) : status'[t] # "pending"
                      /\ ~reordered => Pending' = {}
    OBVIOUS
  <2>1. JournalWritten \/ TaskFails
    BY DEF Next, AddTask, CancelTask, PrioritizeTask, RunQueue, RunQueueAgain, AbortQueue,
           TaskDone, vars
  <2>2. Advance(After)
    BY <2>1, Goes
  <2>3. PendingAfter(array, at, After) = {} /\ status' = After
    BY <2>2 DEF Advance
  <2>4. /\ array \in Seq(Tasks) /\ at \in 1 .. Len(array) /\ Len(array) \in Nat
        /\ \A k \in 1 .. Len(array) : array[k] \in Tasks
    BY DEF IInv, TypeOK
  <2>5. \A q \in Tasks : After[q] = "pending" <=> status[q] = "pending"
    BY AfterTask
  <2>6. ASSUME NEW k \in 1 .. Len(array) PROVE After[array[k]] # "pending"
    <3>1. CASE k > at
      BY <2>3, <2>4, <3>1 DEF PendingAfter
    <3>2. CASE k <= at
      BY <2>4, <2>5, <3>2 DEF IInv, Walk
    <3>3. QED
      BY <2>4, <3>1, <3>2
  <2>7. \A t \in ToSet(array) : After[t] # "pending"
    BY <2>4, <2>6 DEF ToSet
  <2>8. ASSUME ~reordered PROVE Pending' = {}
    <3>1. array = order
      BY <2>8 DEF IInv, Walk
    <3>2. \A t \in Tasks : status[t] = "pending" => t \in ToSet(array)
      BY <3>1 DEF IInv, TypeOK
    <3>3. \A t \in Tasks : status'[t] # "pending"
      BY <3>2, <2>3, <2>5, <2>7
    <3>4. QED
      BY <3>3 DEF Pending
  <2>9. QED
    BY <2>3, <2>7, <2>8
<1>2. QED
  BY <1>1, Invariant, PTL DEF Spec, RunDrains
=============================================================================
