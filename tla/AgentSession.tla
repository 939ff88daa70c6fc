---------------------------- MODULE AgentSession ----------------------------
(***************************************************************************)
(* One WebSocket session of the server (index.js, the wss connection       *)
(* handler) with the agent runs its prompts start, the run slots of its    *)
(* user (ConcurrencyGovernor) and the approval engine its tool calls pass  *)
(* (auth/approval-engine.js).                                              *)
(*                                                                         *)
(* A run suspends on promises that a message, a timer, the idle pause or   *)
(* the end of the socket settle, each in an order of its own.  The agent   *)
(* loop of a run (orchestrator/index.js) is abstracted to one thread of    *)
(* bounded interactions followed by the return of handlePrompt; it         *)
(* swallows some failed interactions and passes others on, so a run whose  *)
(* interaction fails may go on or return.  delegate_task runs a nested     *)
(* handlePrompt under a run id of its own.                                 *)
(*                                                                         *)
(* authorizeToolCall asks for the approval of a tool after it has checked  *)
(* the permissions of the snapshot it is given.  executeTool gives it one  *)
(* without permissions, roles or scopes, which the check refuses for every *)
(* tool that needs one; the model lets a tool pass the check or fail, as   *)
(* it would for a snapshot made by buildToolAuthSnapshot.                  *)
(***************************************************************************)
EXTENDS ConcurrencyGovernor, Sequences, FiniteSetsExt, SequencesExt

CONSTANTS
  None,         \* null
  WriteTools,   \* tools that need an approval, delegate_task among them
  MaxPrompts,   \* MAX_PROMPTS of the 15-minute window (no prompt ages in the model)
  MaxSteps      \* bound of the model: interactions of all runs together

\* Run ids: that of a prompt, and those of the delegations made under it, which
\* are told apart by the number of interactions begun before them
RunId == [run : Runs, sub : Nat]
Root(r) == [run |-> r, sub |-> 0]

ASSUME SessionAssumption ==
  /\ None \notin RunId
  /\ "delegate_task" \in WriteTools
  /\ MaxPrompts \in Nat
  /\ MaxSteps \in Nat

VARIABLES
  socket,    \* ws.readyState: "open", "closing", "closed"
  aborted,   \* session.aborted
  current,   \* session.currentRunIdentity
  pending,   \* pendingToolCalls, pendingClarifications and pendingPlans
  phase,     \* run -> where its prompt handler is suspended
  saved,     \* run -> previousRunIdentity of its prompt handler, then previousRun
             \*   of each delegation in progress
  steps,     \* run -> interactions begun, which names the latest one
  key,       \* run -> lease key of its latest write call: run id and tool
  leases,    \* approvalEngine.approvalLeases: keys with a live lease
  tangled    \* history: a prompt overlapped a run, or a session check threw

session == <<socket, aborted, current, pending, phase, saved, steps, key, leases, tangled>>
vars == <<active, session>>

\* What settles the promise a suspended run awaits, by phase.
Waits == {"calling", "asking", "planning", "approving"}
\* From the acquisition of the slot to the end of the handler.
ExecutingPhases == Waits \cup {"running", "granting"}
Phases == ExecutingPhases \cup {"new", "checking", "done"}

\* A write tool's approval is asked with a plan, as create_plan is.
KindOf(ph) == CASE ph = "calling" -> "call"
                [] ph = "asking" -> "ask"
                [] OTHER -> "plan"
Interaction == [run : Runs, step : Nat, kind : {"call", "ask", "plan"}]
LeaseKey == [id : RunId, tool : WriteTools]

Executing == {r \in Runs : phase[r] \in ExecutingPhases}
InProgress == {r \in Runs : phase[r] = "checking"} \cup Executing
Started == {r \in Runs : phase[r] # "new"}

Child(r) == [run |-> r, sub |-> steps[r] + 1]

\* The interaction whose promise run r awaits
Awaited(r) == [run |-> r, step |-> steps[r], kind |-> KindOf(phase[r])]
IsAwaited(i) == phase[i.run] \in Waits /\ i = Awaited(i.run)

\* Mutant: only the flag is checked
Aborted_FlagOnly == aborted

\* The check at the top of onToolCall, onClarification and onPlan
Aborted == aborted \/ socket # "open"

TypeOK ==
  /\ active \subseteq Runs
  /\ socket \in {"open", "closing", "closed"}
  /\ aborted \in BOOLEAN
  /\ current \in RunId \cup {None}
  /\ pending \subseteq Interaction
  /\ phase \in [Runs -> Phases]
  /\ saved \in [Runs -> Seq(RunId \cup {None})]
  /\ steps \in [Runs -> Nat]
  /\ key \in [Runs -> [id : RunId \cup {None}, tool : WriteTools]]
  /\ leases \subseteq LeaseKey
  /\ tangled \in BOOLEAN

Init ==
  /\ GovernorInit
  /\ socket = "open"
  /\ aborted = FALSE
  /\ current = None
  /\ pending = {}
  /\ phase = [r \in Runs |-> "new"]
  /\ saved = [r \in Runs |-> <<>>]
  /\ steps = [r \in Runs |-> 0]
  /\ key = [r \in Runs |-> [id |-> None, tool |-> "delegate_task"]]
  /\ leases = {}
  /\ tangled = FALSE
-----------------------------------------------------------------------------
(* The 'prompt' message. *)

\* A prompt within the rate limit, up to the await of assertSessionStillValid
Prompt(r) ==
  /\ socket # "closed"
  /\ phase[r] = "new"
  /\ Cardinality(Started) < MaxPrompts
  /\ aborted' = FALSE
  /\ saved' = [saved EXCEPT ![r] = <<current>>]
  /\ current' = Root(r)
  /\ phase' = [phase EXCEPT ![r] = "checking"]
  /\ tangled' = (tangled \/ InProgress # {})
  /\ UNCHANGED <<active, socket, pending, steps, key, leases>>

\* One beyond it, which lifts the abort all the same
PromptRefused ==
  /\ socket # "closed"
  /\ Cardinality(Started) >= MaxPrompts
  /\ aborted' = FALSE
  /\ UNCHANGED <<active, socket, current, pending, phase, saved, steps, key, leases, tangled>>

\* The handler returns before the run started.
LeaveCheck(r) ==
  /\ phase' = [phase EXCEPT ![r] = "done"]
  /\ saved' = [saved EXCEPT ![r] = <<>>]
  /\ UNCHANGED <<active, socket, aborted, pending, steps, key, leases>>

\* Mutant: the refused prompt leaves its run id behind
CheckFails_KeepsIdentity(r) ==
  /\ phase[r] = "checking"
  /\ LeaveCheck(r)
  /\ UNCHANGED <<current, tangled>>

\* The session was revoked: reauth_required
CheckFails(r) ==
  /\ phase[r] = "checking"
  /\ current' = saved[r][1]
  /\ LeaveCheck(r)
  /\ UNCHANGED tangled

\* The session store fails: the rejection leaves the handler, nothing is undone
CheckThrows(r) ==
  /\ phase[r] = "checking"
  /\ tangled' = TRUE
  /\ LeaveCheck(r)
  /\ UNCHANGED current

\* The session is valid and the governor has no slot: concurrency_exceeded
SlotRefused(r) ==
  /\ phase[r] = "checking"
  /\ RefuseRun(r)
  /\ current' = saved[r][1]
  /\ LeaveCheck(r)
  /\ UNCHANGED tangled

StartRun(r) ==
  /\ phase[r] = "checking"
  /\ AcquireRun(r)
  /\ phase' = [phase EXCEPT ![r] = "running"]
  /\ UNCHANGED <<socket, aborted, current, pending, saved, steps, key, leases, tangled>>

\* handlePrompt returns or throws: the finally block
Finish(r) ==
  /\ phase[r] = "running"
  /\ Len(saved[r]) = 1
  /\ phase' = [phase EXCEPT ![r] = "done"]
  /\ saved' = [saved EXCEPT ![r] = <<>>]
  /\ current' = saved[r][1]
  /\ ReleaseRun(r)
  /\ UNCHANGED <<socket, aborted, pending, steps, key, leases, tangled>>
-----------------------------------------------------------------------------
(* The interactions of a run. *)

\* Run r registers a promise with its timer and suspends on it.
Suspend(r, ph) ==
  /\ steps' = [steps EXCEPT ![r] = @ + 1]
  /\ phase' = [phase EXCEPT ![r] = ph]
  /\ pending' = pending \cup {[run |-> r, step |-> steps[r] + 1, kind |-> KindOf(ph)]}

MayInteract(r) ==
  phase[r] = "running" /\ ~Aborted /\ MapThenSumSet(LAMBDA q : steps[q], Runs) < MaxSteps

\* onToolCall for a read-only tool of the client, onClarification, create_plan
Interact(r) ==
  /\ MayInteract(r)
  /\ \E ph \in {"calling", "asking", "planning"} : Suspend(r, ph)
  /\ UNCHANGED <<active, socket, aborted, current, saved, key, leases, tangled>>

\* onToolCall for write tool t: the engine looks for a lease of the tool under
\* the run id the session holds now ...
UseLease(r, t) ==
  /\ MayInteract(r)
  /\ [id |-> current, tool |-> t] \in leases
  /\ steps' = [steps EXCEPT ![r] = @ + 1]
  /\ key' = [key EXCEPT ![r] = [id |-> current, tool |-> t]]
  /\ phase' = [phase EXCEPT ![r] = "granting"]
  /\ UNCHANGED <<active, socket, aborted, current, pending, saved, leases, tangled>>

\* ... and asks the user when there is none
AskApproval(r, t) ==
  /\ MayInteract(r)
  /\ [id |-> current, tool |-> t] \notin leases
  /\ Suspend(r, "approving")
  /\ key' = [key EXCEPT ![r] = [id |-> current, tool |-> t]]
  /\ UNCHANGED <<active, socket, aborted, current, saved, leases, tangled>>

\* insertAgentActionGrant returns: the tool runs here, or its call goes to the
\* client.  onToolCall does not check the session again.
Granted(r) ==
  /\ phase[r] = "granting"
  /\ \/ phase' = [phase EXCEPT ![r] = "running"] /\ UNCHANGED pending
     \/ /\ key[r].tool # "delegate_task"
        /\ phase' = [phase EXCEPT ![r] = "calling"]
        /\ pending' = pending \cup {[run |-> r, step |-> steps[r], kind |-> "call"]}
  /\ UNCHANGED <<active, socket, aborted, current, saved, steps, key, leases, tangled>>

\* delegate_task, which does check it again: the run goes on as a nested one
Delegate(r) ==
  /\ phase[r] = "granting"
  /\ key[r].tool = "delegate_task"
  /\ ~Aborted
  /\ phase' = [phase EXCEPT ![r] = "running"]
  /\ saved' = [saved EXCEPT ![r] = Append(@, current)]
  /\ current' = Child(r)
  /\ UNCHANGED <<active, socket, aborted, pending, steps, key, leases, tangled>>

\* The nested handlePrompt returns or throws.
DelegateEnds(r) ==
  /\ phase[r] = "running"
  /\ Len(saved[r]) > 1
  /\ current' = Last(saved[r])
  /\ saved' = [saved EXCEPT ![r] = Front(@)]
  /\ UNCHANGED <<active, socket, aborted, pending, phase, steps, key, leases, tangled>>

\* tool_response, clarification_response, or a plan_response that answers a
\* plan or denies an approval; an answer nobody awaits is only taken off the map
Respond(i) ==
  /\ socket # "closed"
  /\ i \in pending
  /\ pending' = pending \ {i}
  /\ phase' = IF IsAwaited(i) THEN [phase EXCEPT ![i.run] = "running"] ELSE phase
  /\ UNCHANGED <<active, socket, aborted, current, saved, steps, key, leases, tangled>>

\* Mutant: the lease is recorded by the answer itself, awaited or not
Approve_LateCounts(i) ==
  /\ socket # "closed"
  /\ i \in pending /\ i.kind = "plan"
  /\ pending' = pending \ {i}
  /\ phase' = IF IsAwaited(i) THEN [phase EXCEPT ![i.run] = "granting"] ELSE phase
  /\ leases' = leases \cup ({key[i.run]} \cap LeaseKey)
  /\ UNCHANGED <<active, socket, aborted, current, saved, steps, key, tangled>>

\* Mutant: a lease is recorded even when the session names no run
Approve_NullKey(i) ==
  /\ socket # "closed"
  /\ i \in pending /\ IsAwaited(i)
  /\ phase[i.run] = "approving"
  /\ pending' = pending \ {i}
  /\ phase' = [phase EXCEPT ![i.run] = "granting"]
  /\ leases' = leases \cup {key[i.run]}
  /\ UNCHANGED <<active, socket, aborted, current, saved, steps, key, tangled>>

\* plan_response that approves what a run waits for: the engine records a lease
\* under the run id the approval was asked with
Approve(i) ==
  /\ socket # "closed"
  /\ i \in pending /\ IsAwaited(i)
  /\ phase[i.run] = "approving"
  /\ pending' = pending \ {i}
  /\ phase' = [phase EXCEPT ![i.run] = "granting"]
  /\ leases' = leases \cup ({key[i.run]} \cap LeaseKey)
  /\ UNCHANGED <<active, socket, aborted, current, saved, steps, key, tangled>>

\* Mutant: the timer cleans the map and leaves the promise unsettled
TimerFires_NoSettle(i) ==
  /\ i \in pending
  /\ pending' = pending \ {i}
  /\ UNCHANGED <<active, socket, aborted, current, phase, saved, steps, key, leases, tangled>>

\* The timer of an interaction fires.
TimerFires(i) ==
  /\ i \in pending
  /\ pending' = pending \ {i}
  /\ phase' = IF IsAwaited(i) THEN [phase EXCEPT ![i.run] = "running"] ELSE phase
  /\ UNCHANGED <<active, socket, aborted, current, saved, steps, key, leases, tangled>>

\* The approval engine's own timer wins its race: denied, the plan stays pending
EngineTimeout(r) ==
  /\ phase[r] = "approving"
  /\ phase' = [phase EXCEPT ![r] = "running"]
  /\ UNCHANGED <<active, socket, aborted, current, pending, saved, steps, key, leases, tangled>>

ApprovalExpires(k) ==
  /\ k \in leases
  /\ leases' = leases \ {k}
  /\ UNCHANGED <<active, socket, aborted, current, pending, phase, saved, steps, key, tangled>>

SlotExpires(r) == LeaseExpires(r) /\ UNCHANGED session
-----------------------------------------------------------------------------
(* The session as a whole. *)

\* Mutant: the plans are dropped from the map without rejecting their promises
RejectAll_ForgetsPlans ==
  /\ pending' = {}
  /\ phase' = [r \in Runs |-> IF phase[r] \in {"calling", "asking"} /\ Awaited(r) \in pending
                              THEN "running" ELSE phase[r]]

\* Every pending promise is rejected and its timer cleared.
RejectAll ==
  /\ pending' = {}
  /\ phase' = [r \in Runs |-> IF phase[r] \in Waits /\ Awaited(r) \in pending
                              THEN "running" ELSE phase[r]]

\* Five minutes without a message (pauseIdleRun)
PauseIdle ==
  /\ socket # "closed"
  /\ current # None
  /\ ~aborted
  /\ aborted' = TRUE
  /\ RejectAll
  /\ UNCHANGED <<active, socket, current, saved, steps, key, leases, tangled>>

\* The session's fingerprint changed (wsSessionCleanup).
Revoke ==
  /\ socket = "open"
  /\ aborted' = TRUE
  /\ socket' = "closing"
  /\ UNCHANGED <<active, current, pending, phase, saved, steps, key, leases, tangled>>

\* The 'close' and 'error' events
Close ==
  /\ socket # "closed"
  /\ socket' = "closed"
  /\ RejectAll
  /\ UNCHANGED <<active, aborted, current, saved, steps, key, leases, tangled>>

\* What a run does by itself once the promise it awaits is settled
RunStep(r) ==
  \/ CheckFails(r) \/ CheckThrows(r) \/ SlotRefused(r) \/ StartRun(r)
  \/ Interact(r) \/ (\E t \in WriteTools : UseLease(r, t) \/ AskApproval(r, t))
  \/ Granted(r) \/ Delegate(r) \/ DelegateEnds(r)
  \/ Finish(r)

Next ==
  \/ \E r \in Runs : Prompt(r) \/ RunStep(r) \/ EngineTimeout(r) \/ SlotExpires(r)
  \/ PromptRefused
  \/ \E i \in pending : Respond(i) \/ Approve(i) \/ TimerFires(i)
  \/ \E k \in leases : ApprovalExpires(k)
  \/ PauseIdle
  \/ Revoke
  \/ Close

\* Timers fire and promises of the server settle.  The user and the network owe
\* nothing.
Fairness ==
  /\ \A r \in Runs : WF_vars(RunStep(r)) /\ WF_vars(EngineTimeout(r))
  /\ WF_vars(\E i \in pending : TimerFires(i))

Spec == Init /\ [][Next]_vars /\ Fairness
-----------------------------------------------------------------------------
(* Properties. *)

\* A run in a slot is executing and the user's slots are bounded: a run that
\* ended, however it ended, holds none (acquireRun, the finally block).
SlotsBound ==
  /\ active \subseteq Executing
  /\ Cardinality(active) <= MaxConcurrentRuns

\* concurrency-governor.js: the governor is "enforcing a maximum of 3 concurrent
\* agent runs per user".
RunsBound == Cardinality(Executing) <= MaxConcurrentRuns

\* No run is stranded: what a suspended run awaits is still in the maps, where
\* an answer, a timer, the pause or the close will find it.  A tool call whose
\* session ended between its check and its registration is no exception.
NoStrandedRun == \A r \in Runs : phase[r] \in Waits => Awaited(r) \in pending

\* While prompts come one at a time, the session names the run in progress, or
\* the delegation it is in, and nothing else: approvals, events and the idle
\* pause, which all read currentRunIdentity long after it was set, concern the
\* right run.
Untangled ==
  ~tangled =>
    /\ \A r \in InProgress :
         /\ current # None /\ current.run = r
         /\ current = Root(r) <=> Len(saved[r]) = 1
    /\ InProgress = {} => current = None

\* An approval counts only while the tool call that asked for it still waits: an
\* answer after the engine denied the call gives no lease for the next one.
LateApprovalHarmless ==
  [][ \A k \in leases' \ leases :
        \E r \in Runs : phase[r] = "approving" /\ phase'[r] = "granting" /\ key[r] = k ]_vars

\* Once the session is revoked or closed, no run begins an interaction or a
\* delegation, except for the tool call that had passed the check and was being
\* recorded.
NothingStartsAfterClose ==
  [][ socket # "open" =>
        /\ \A i \in pending' \ pending : phase[i.run] = "granting"
        /\ \A r \in Runs : Len(saved'[r]) > 1 => Len(saved'[r]) <= Len(saved[r]) ]_vars

\* Every prompt ends, whether its user answers, stays silent or goes away.
EveryRunEnds == \A r \in Runs : (phase[r] = "checking") ~> (phase[r] = "done")
=============================================================================
