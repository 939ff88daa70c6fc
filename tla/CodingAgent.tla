---------------------------- MODULE CodingAgent ----------------------------
(***************************************************************************)
(* A coding run: Router.executeWithStateMachine (orchestrator/router.js)   *)
(* driving the XState machine of orchestrator/state_machine.js.  The       *)
(* machine's transient states (evaluating_failure, rollback) are left in   *)
(* the step that enters them, as XState does: nobody observes them.        *)
(* Contexts, code, tests and error texts are left out; what the next draft *)
(* is told of the last failure (sandboxError) is kept as a flag.           *)
(***************************************************************************)
EXTENDS Integers, FiniteSets

CONSTANTS
  Execs,                \* executions: one per request
  EffortOf,             \* Execs -> effort level of the request
  EFFORT_RETRY_LIMITS   \* quick 0, standard 3, deep 5

Levels == {"quick", "standard", "deep"}

ASSUME AgentAssumption ==
  /\ EffortOf \in [Execs -> Levels]
  /\ EFFORT_RETRY_LIMITS \in [Levels -> Nat]

VARIABLES
  agent,       \* Execs -> what its Promise and its machine hold
  listeners,   \* executions whose onFileStaged is subscribed to the VFS
  stagedRuns,  \* executions that have staged their file
  shown        \* <<e, f>>: the file of e was emitted on the socket of f

agentVars == <<agent, listeners, stagedRuns, shown>>

Working == {"loading_contexts", "parsing_ast", "drafting_code",
            "generating_tests", "sandboxing"}
Settled == {"success", "fatal_failure", "error", "aborted"}
Executing == {"reading"} \cup Working

Idle == [st |-> "idle", retries |-> 0, rollbacks |-> 0, drafts |-> 0,
         sandboxError |-> FALSE]

retryLimitForEffort(l) == EFFORT_RETRY_LIMITS[l]
maxRollbacks(l) == IF l = "quick" THEN 0 ELSE 1

AgentInit ==
  /\ agent = [e \in Execs |-> Idle]
  /\ listeners = {}
  /\ stagedRuns = {}
  /\ shown = {}

\* The listener is subscribed, then the target file is read.
ExecuteBegins(e) ==
  /\ agent[e].st \notin Executing
  /\ agent' = [agent EXCEPT ![e] = [Idle EXCEPT !.st = "reading"]]
  /\ listeners' = listeners \cup {e}
  /\ UNCHANGED <<stagedRuns, shown>>

\* Mutant: the listener is kept when the run ends badly
Becomes_KeepsListener(e, a) ==
  /\ agent' = [agent EXCEPT ![e] = a]
  /\ listeners' = IF a.st = "success" THEN listeners \ {e} ELSE listeners

\* The machine of e moves to a; a settled Promise drops its listener.
Becomes(e, a) ==
  /\ agent' = [agent EXCEPT ![e] = a]
  /\ listeners' = IF a.st \in Settled THEN listeners \ {e} ELSE listeners

GoTo(e, st) == Becomes(e, [agent[e] EXCEPT !.st = st])

Draft(a) == [a EXCEPT !.st = "drafting_code", !.drafts = @ + 1]

\* The read is over (a missing file reads as empty); onAbortReady hands out
\* the abort handler and START_TASK is sent.
StartTask(e) ==
  /\ agent[e].st = "reading"
  /\ GoTo(e, "loading_contexts")
  /\ UNCHANGED <<stagedRuns, shown>>

LoadContexts(e) ==
  /\ agent[e].st = "loading_contexts"
  /\ GoTo(e, "parsing_ast") \/ GoTo(e, "fatal_failure")
  /\ UNCHANGED <<stagedRuns, shown>>

ParseAst(e) ==
  /\ agent[e].st = "parsing_ast"
  /\ Becomes(e, Draft(agent[e])) \/ GoTo(e, "fatal_failure")
  /\ UNCHANGED <<stagedRuns, shown>>

\* Mutant: one retry more than the effort level allows
EvaluateFailure_OffByOne(e, a) ==
  IF a.retries <= retryLimitForEffort(EffortOf[e])
    THEN Draft([a EXCEPT !.retries = @ + 1])
    ELSE [a EXCEPT !.st = "fatal_failure"]

\* Mutant: a rollback forgets to count itself
EvaluateFailure_Uncounted(e, a) ==
  LET limit == retryLimitForEffort(EffortOf[e]) IN
  IF a.retries < limit THEN Draft([a EXCEPT !.retries = @ + 1])
  ELSE IF a.rollbacks < maxRollbacks(EffortOf[e])
         THEN Draft([a EXCEPT !.retries = 0])
         ELSE [a EXCEPT !.st = "fatal_failure"]

\* evaluating_failure and rollback: retry, start over once, or give up.
EvaluateFailure(e, a) ==
  LET limit == retryLimitForEffort(EffortOf[e]) IN
  IF a.retries < limit THEN Draft([a EXCEPT !.retries = @ + 1])
  ELSE IF a.rollbacks < maxRollbacks(EffortOf[e])
         THEN Draft([a EXCEPT !.retries = 0, !.rollbacks = @ + 1])
         ELSE [a EXCEPT !.st = "fatal_failure"]

FailsWithTrace(e) ==
  Becomes(e, EvaluateFailure(e, [agent[e] EXCEPT !.sandboxError = TRUE]))

DraftCode(e) ==
  /\ agent[e].st = "drafting_code"
  /\ GoTo(e, "generating_tests") \/ FailsWithTrace(e)
  /\ UNCHANGED <<stagedRuns, shown>>

\* Tests that cannot be generated do not stop the run.
GenerateTests(e) ==
  /\ agent[e].st = "generating_tests"
  /\ GoTo(e, "sandboxing")
  /\ UNCHANGED <<stagedRuns, shown>>

\* The success state stages the file as it is entered; the VFS tells every
\* listener, whoever staged.
StageOnSuccess(e) ==
  /\ GoTo(e, "success")
  /\ stagedRuns' = stagedRuns \cup {e}
  /\ shown' = shown \cup ({e} \X listeners)

\* executeGeneratedCodeInLocalDocker passes, fails or throws; a staging
\* container at its limits throws inside the entry action instead.
Sandbox(e) ==
  /\ agent[e].st = "sandboxing"
  /\ \/ StageOnSuccess(e)
     \/ /\ GoTo(e, "error") \/ FailsWithTrace(e)
        /\ UNCHANGED <<stagedRuns, shown>>

AgentStep(e) ==
  \/ StartTask(e)
  \/ LoadContexts(e)
  \/ ParseAst(e)
  \/ DraftCode(e)
  \/ GenerateTests(e)
  \/ Sandbox(e)

\* Mutant: aborting drops the listener but leaves the machine running
AbortAll_MachineRuns(S) ==
  /\ listeners' = listeners \ {e \in S : agent[e].st \in Working}
  /\ UNCHANGED agent

\* Mutant: the machine is stopped and nothing rejects the Promise
AbortAll_NoReject(S) ==
  LET hit == {e \in S : agent[e].st \in Working} IN
  /\ agent' = [e \in Execs |->
                 IF e \in hit THEN [agent[e] EXCEPT !.st = "stopped"] ELSE agent[e]]
  /\ listeners' = listeners \ hit

\* abortExecution of the executions of S: it exists once the file is read;
\* before that abortRun is null and the call does nothing.
AbortAll(S) ==
  LET hit == {e \in S : agent[e].st \in Working} IN
  /\ agent' = [e \in Execs |->
                 IF e \in hit THEN [agent[e] EXCEPT !.st = "aborted"] ELSE agent[e]]
  /\ listeners' = listeners \ hit

AgentTypeOK ==
  /\ agent \in [Execs -> [st : {"idle"} \cup Executing \cup Settled,
                          retries : Nat, rollbacks : 0..1, drafts : Nat,
                          sandboxError : BOOLEAN]]
  /\ \A e \in Execs : agent[e].retries <= retryLimitForEffort(EffortOf[e])
  /\ listeners \subseteq Execs
  /\ stagedRuns \subseteq Execs
  /\ shown \subseteq Execs \X Execs

\* The number of model drafts of a run is what its effort level pays for, and
\* every draft but the first is told what went wrong before it.
DraftBudget ==
  \A e \in Execs :
    LET a == agent[e]
        limit == retryLimitForEffort(EffortOf[e]) IN
    /\ a.drafts <= (limit + 1) * (maxRollbacks(EffortOf[e]) + 1)
    /\ a.drafts > 1 => a.sandboxError

\* A run listens to the staging container exactly while it executes: no path
\* out of executeWithStateMachine leaves a listener behind, and none drops it
\* before the run has staged.
ListenersOfLiveRuns == listeners = {e \in Execs : agent[e].st \in Executing}
=============================================================================
