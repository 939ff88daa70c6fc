----------------------------- MODULE TaskManager -----------------------------
(***************************************************************************)
(* The task queue of a session (orchestrator/task-manager.js) with the     *)
(* messages that drive it (index.js, add_task ... prioritize_task).        *)
(*                                                                         *)
(* runQueue iterates over the array this.order was when it began: addTask  *)
(* appends to that array in place, prioritizeTask puts another one in its  *)
(* stead.  Messages arrive while a task runs and while the journal entry   *)
(* of a task that is done is written; between the end of one task and the  *)
(* start of the next there is no such moment.                              *)
(***************************************************************************)
EXTENDS Integers, Sequences, FiniteSets, FiniteSetsExt, SequencesExt

CONSTANT Tasks   \* ids of the tasks the user adds, each once

VARIABLES
  status,    \* task -> status, "absent" before it is added
  order,     \* this.order
  running,   \* this._running
  aborted,   \* this._aborted
  array,     \* the array the run iterates over, empty between runs
  at,        \* the position of the iteration
  shared,    \* that array is this.order still
  reordered  \* history: a task was prioritized during this run

vars == <<status, order, running, aborted, array, at, shared, reordered>>

Statuses == {"absent", "pending", "running", "done", "failed", "cancelled"}

\* Beside the types: the order lists the tasks of the map, each once.
TypeOK ==
  /\ status \in [Tasks -> Statuses]
  /\ order \in Seq(Tasks)
  /\ IsInjective(order)
  /\ ToSet(order) = {t \in Tasks : status[t] # "absent"}
  /\ running \in BOOLEAN
  /\ aborted \in BOOLEAN
  /\ array \in Seq(Tasks)
  /\ at \in 0 .. Len(array)
  /\ running <=> at # 0
  /\ shared \in BOOLEAN
  /\ reordered \in BOOLEAN

Init ==
  /\ status = [t \in Tasks |-> "absent"]
  /\ order = <<>>
  /\ running = FALSE
  /\ aborted = FALSE
  /\ array = <<>>
  /\ at = 0
  /\ shared = FALSE
  /\ reordered = FALSE

Pending == {t \in Tasks : status[t] = "pending"}

\* Where pending tasks of s lie after position i, given their statuses
PendingAfter(s, i, st) == {j \in 1 .. Len(s) : j > i /\ st[s[j]] = "pending"}

\* s, in which t occurs once, with t moved to its front
MoveToFront(s, t) ==
  LET k == CHOOSE k \in 1 .. Len(s) : s[k] = t
  IN  [i \in 1 .. Len(s) |-> IF i = 1 THEN t ELSE IF i <= k THEN s[i - 1] ELSE s[i]]
-----------------------------------------------------------------------------
(* Messages. *)

\* Mutant: the new task is appended to a copy of the array
AddTask_Copies(t) ==
  /\ status[t] = "absent"
  /\ status' = [status EXCEPT ![t] = "pending"]
  /\ order' = Append(order, t)
  /\ shared' = FALSE
  /\ UNCHANGED <<running, aborted, array, at, reordered>>

\* addTask pushes to the array in place.
AddTask(t) ==
  /\ status[t] = "absent"
  /\ status' = [status EXCEPT ![t] = "pending"]
  /\ order' = Append(order, t)
  /\ array' = IF shared THEN order' ELSE array
  /\ UNCHANGED <<running, aborted, at, shared, reordered>>

\* Only a pending task is cancelled.
CancelTask(t) ==
  /\ status[t] = "pending"
  /\ status' = [status EXCEPT ![t] = "cancelled"]
  /\ UNCHANGED <<order, running, aborted, array, at, shared, reordered>>

\* Mutant: the task keeps its old place in the order as well
PrioritizeTask_Duplicates(t) ==
  /\ status[t] # "absent"
  /\ order' = <<t>> \o order
  /\ shared' = FALSE
  /\ reordered' = running
  /\ UNCHANGED <<status, running, aborted, array, at>>

PrioritizeTask(t) ==
  /\ status[t] # "absent"
  /\ order' = MoveToFront(order, t)
  /\ shared' = FALSE
  /\ reordered' = running
  /\ UNCHANGED <<status, running, aborted, array, at>>

\* Mutant: the iteration picks the newest task
StartNext_Newest(s, i, st) ==
  /\ at' = Max(PendingAfter(s, i, st))
  /\ status' = [st EXCEPT ![s[at']] = "running"]

\* The first pending task after position i
StartNext(s, i, st) ==
  /\ at' = Min(PendingAfter(s, i, st))
  /\ status' = [st EXCEPT ![s[at']] = "running"]

\* Mutant: no test of _running
RunQueue_Reenters ==
  /\ Pending # {}
  /\ running' = TRUE
  /\ aborted' = FALSE
  /\ array' = order
  /\ shared' = TRUE
  /\ reordered' = FALSE
  /\ StartNext(order, 0, status)
  /\ UNCHANGED order

\* run_queue, which needs a pending task, up to the await of the first one
RunQueue ==
  /\ Pending # {}
  /\ ~running
  /\ running' = TRUE
  /\ aborted' = FALSE
  /\ array' = order
  /\ shared' = TRUE
  /\ reordered' = FALSE
  /\ StartNext(order, 0, status)
  /\ UNCHANGED order

\* Mutant: _aborted is reset before _running is tested
RunQueueAgain_LiftsAbort ==
  /\ Pending # {}
  /\ running
  /\ aborted' = FALSE
  /\ UNCHANGED <<status, order, running, array, at, shared, reordered>>

\* run_queue during a run returns at once.
RunQueueAgain ==
  /\ Pending # {}
  /\ running
  /\ UNCHANGED vars

AbortQueue ==
  /\ aborted' = TRUE
  /\ UNCHANGED <<status, order, running, array, at, shared, reordered>>
-----------------------------------------------------------------------------
(* The run. *)

EndRun ==
  /\ running' = FALSE
  /\ array' = <<>>
  /\ at' = 0
  /\ shared' = FALSE
  /\ reordered' = FALSE

\* The loop goes on, given the statuses by now: it stops when it is aborted or
\* at the end of its array.
Advance(st) ==
  /\ \/ /\ aborted \/ PendingAfter(array, at, st) = {}
        /\ EndRun
        /\ status' = st
     \/ /\ ~aborted /\ PendingAfter(array, at, st) # {}
        /\ StartNext(array, at, st)
        /\ UNCHANGED <<running, array, shared, reordered>>
  /\ UNCHANGED <<order, aborted>>

\* handlePrompt returns: the result is announced, the journal entry begun
TaskDone ==
  /\ running
  /\ status[array[at]] = "running"
  /\ status' = [status EXCEPT ![array[at]] = "done"]
  /\ UNCHANGED <<order, running, aborted, array, at, shared, reordered>>

\* The entry is written, or failed to be, which nobody notices.
JournalWritten ==
  /\ running
  /\ status[array[at]] = "done"
  /\ Advance(status)

\* Mutant: an error of a task leaves the loop
TaskFails_EndsRun ==
  /\ running
  /\ status[array[at]] = "running"
  /\ status' = [status EXCEPT ![array[at]] = "failed"]
  /\ EndRun
  /\ UNCHANGED <<order, aborted>>

\* handlePrompt throws, or the state machine of the task fails.
TaskFails ==
  /\ running
  /\ status[array[at]] = "running"
  /\ Advance([status EXCEPT ![array[at]] = "failed"])

Next ==
  \/ \E t \in Tasks : AddTask(t) \/ CancelTask(t) \/ PrioritizeTask(t)
  \/ RunQueue
  \/ RunQueueAgain
  \/ AbortQueue
  \/ TaskDone
  \/ JournalWritten
  \/ TaskFails

\* Prompts and journal writes end.  The user owes nothing.
Fairness == WF_vars(TaskDone \/ TaskFails) /\ WF_vars(JournalWritten)

Spec == Init /\ [][Next]_vars /\ Fairness
-----------------------------------------------------------------------------
(* Properties. *)

Starts(t) == status[t] = "pending" /\ status'[t] = "running"

\* t is the first pending task of this.order.
FirstPending(t) ==
  \A i, j \in DOMAIN order :
    order[j] = t /\ i < j => status[order[i]] # "pending"

\* Tasks run one at a time: the task that runs is the one the only loop awaits,
\* whatever run_queue messages arrive meanwhile (runQueue tests _running).
OneTaskRuns ==
  \A t \in Tasks : status[t] = "running" => running /\ array[at] = t

\* index.js: "Queue will stop after the current task completes."  An abort holds
\* until its run is over, and no task starts before that.
AbortHolds ==
  [][ running /\ aborted =>
        /\ running' => aborted'
        /\ \A t \in Tasks : ~Starts(t) ]_vars

\* A run that nobody aborts or reorders leaves no task pending, not even those
\* added after it began; one that is reordered runs all the tasks it began with.
RunDrains ==
  [][ running /\ ~running' /\ ~aborted =>
        /\ \A t \in ToSet(array) : status'[t] # "pending"
        /\ ~reordered => Pending' = {} ]_vars

\* Unless the queue is reordered during the run, tasks start in its order.
OrderFollowed ==
  [][ \A t \in Tasks : Starts(t) /\ ~reordered => FirstPending(t) ]_vars

\* index.js acknowledges prioritize_task with "moved to front": the next task to
\* start is always the first pending one of the queue.
PrioritizedFirst ==
  [][ \A t \in Tasks : Starts(t) => FirstPending(t) ]_vars

\* Every task a run has before it is settled in the end, unless the queue is
\* aborted: a task that fails or is cancelled holds up none of the others.
EveryTaskSettles ==
  \A t \in Tasks :
    (running /\ t \in ToSet(array) /\ status[t] = "pending")
      ~> (status[t] \in {"done", "failed", "cancelled"} \/ aborted)
=============================================================================
