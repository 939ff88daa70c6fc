------------------------------ MODULE CodeJobs ------------------------------
(***************************************************************************)
(* A user's coding requests from the HTTP handler to their end:            *)
(* handleCodeRequest (orchestrator/router.js), the run slots               *)
(* (ConcurrencyGovernor), the BullMQ lane and its worker                   *)
(* (orchestrator/job-queue.js), the processor of index.js, the session     *)
(* whose end aborts runs (auth/session.js), and the coding run itself      *)
(* (CodingAgent).  Without REDIS_URL there is no queue and the handler     *)
(* executes the run itself.  A request, its job and its execution share    *)
(* one name.  Redis and BullMQ are external: a job is delivered to a free  *)
(* place of the worker, an attempt that throws is counted and retried      *)
(* later, a rate-limited one goes back uncounted, a job started too often  *)
(* fails for good, and a job whose worker died is delivered again.         *)
(***************************************************************************)
EXTENDS ConcurrencyGovernor, CodingAgent

CONSTANTS
  Attempts,       \* laneConfig.attempts
  MaxStarted,     \* laneConfig.maxStartedAttempts
  Concurrency,    \* laneConfig.concurrency
  MaxInflight,    \* LLM_INFERENCE_MAX_INFLIGHT
  MaxRollbackRuns,\* MAX_CONSECUTIVE_ROLLBACKS
  WithSession,    \* the requests of the browser; the others have no session
  MaxCrashes      \* bound: crashes of the server process

ASSUME JobsAssumption ==
  /\ Runs = Execs /\ IsFiniteSet(Execs)
  /\ WithSession \subseteq Execs
  /\ Attempts \in Nat \ {0} /\ Concurrency \in Nat \ {0}
  /\ MaxInflight \in Nat \ {0} /\ MaxRollbackRuns \in Nat \ {0}
  /\ MaxStarted \in Nat /\ MaxCrashes \in Nat

VARIABLES
  codeQueue,       \* whether REDIS_URL is set
  req,             \* request -> what became of it at the handler
  job,             \* request -> its BullMQ job
  unfiled,         \* exhausted jobs whose failed handler has yet to file them
  deadLetters,     \* jobs in the dead-letter queue
  dlqLost,         \* jobs whose dead letter was not written
  activeProcessors,\* pressureState.activeProcessors
  rollbackTracker, \* failed inline runs within the retry window
  session,         \* the session of the browser: "valid", "revoking" or "revoked"
  cleanups,        \* sessionCleanupRegistry of the session
  crashes

letterVars == <<unfiled, deadLetters, dlqLost>>
queueVars == <<codeQueue, job, letterVars, activeProcessors>>
sessionVars == <<session, cleanups>>
jobsVars == <<active, agentVars, req, queueVars, rollbackTracker, sessionVars, crashes>>

\* The worker holds the job.
InLane == {"checking", "limiting", "passed", "brain", "asserting", "executing"}
JobOver == {"completed", "failed"}

NoJob == [st |-> "none", made |-> 0, started |-> 0]

JobsInit ==
  /\ GovernorInit
  /\ AgentInit
  /\ codeQueue \in BOOLEAN
  /\ req = [r \in Execs |-> "new"]
  /\ job = [r \in Execs |-> NoJob]
  /\ unfiled = {}
  /\ deadLetters = {}
  /\ dlqLost = {}
  /\ activeProcessors = 0
  /\ rollbackTracker = 0
  /\ session = "valid"
  /\ cleanups = {}
  /\ crashes = 0

Answer(r, status) == req' = [req EXCEPT ![r] = status]

-----------------------------------------------------------------------------
(* The HTTP handler. *)

\* requireAuth lets a request of the browser in while its session lasts; then
\* the retry check and the slot.
CodeRequest(r) ==
  /\ req[r] = "new"
  /\ r \in WithSession => session = "valid"
  /\ \/ /\ rollbackTracker >= MaxRollbackRuns
        /\ Answer(r, "refused")
        /\ UNCHANGED active
     \/ /\ rollbackTracker < MaxRollbackRuns
        /\ RefuseRun(r)
        /\ Answer(r, "refused")
     \/ /\ rollbackTracker < MaxRollbackRuns
        /\ AcquireRun(r)
        /\ Answer(r, IF codeQueue THEN "enqueuing" ELSE "inline")
  /\ UNCHANGED <<agentVars, queueVars, rollbackTracker, sessionVars, crashes>>

EnqueueFails(r) ==
  /\ req[r] = "enqueuing"
  /\ Answer(r, "error")
  /\ ReleaseRun(r)
  /\ UNCHANGED <<agentVars, queueVars, rollbackTracker, sessionVars, crashes>>

\* queue.add has written the job; a worker may take it before the 202 is sent.
JobAdded(r) ==
  /\ req[r] = "enqueuing"
  /\ job[r].st = "none"
  /\ job' = [job EXCEPT ![r].st = "waiting"]
  /\ Answer(r, "queued")
  /\ UNCHANGED <<active, agentVars, codeQueue, letterVars,
                 activeProcessors, rollbackTracker, sessionVars, crashes>>

\* Without a queue: the cleanup is registered and the run begins.
InlineBegins(r) ==
  /\ req[r] = "inline"
  /\ agent[r].st = "idle"
  /\ ExecuteBegins(r)
  /\ cleanups' = IF r \in WithSession THEN cleanups \cup {r} ELSE cleanups
  /\ UNCHANGED <<active, req, queueVars, rollbackTracker, session, crashes>>

\* The run has settled: the tracker is reset or, unless the run was aborted,
\* counts one more; the finally block drops the cleanup and the slot.
InlineAnswers(r) ==
  /\ req[r] = "inline"
  /\ agent[r].st \in Settled
  /\ \/ /\ agent[r].st = "success"
        /\ rollbackTracker' = 0
        /\ Answer(r, "200")
     \/ /\ agent[r].st = "aborted"
        /\ UNCHANGED rollbackTracker
        /\ Answer(r, "401")
     \/ /\ agent[r].st \in {"fatal_failure", "error"}
        /\ rollbackTracker' = rollbackTracker + 1
        /\ Answer(r, "202")
  /\ cleanups' = cleanups \ {r}
  /\ ReleaseRun(r)
  /\ UNCHANGED <<agentVars, queueVars, session, crashes>>

\* RETRY_WINDOW_MS after the last failure.
RetryWindowPasses ==
  /\ rollbackTracker > 0
  /\ rollbackTracker' = 0
  /\ UNCHANGED <<active, agentVars, req, queueVars, sessionVars, crashes>>

\* LEASE_TIMEOUT_MS after the slot was taken.
LeaseTimesOut(r) ==
  /\ LeaseExpires(r)
  /\ UNCHANGED <<agentVars, req, queueVars, rollbackTracker, sessionVars, crashes>>

-----------------------------------------------------------------------------
(* The lane's worker.  The interactive lane is the only one the handler    *)
(* fills: it passes no queueLane.                                          *)

JobGoes(r, st) == job' = [job EXCEPT ![r].st = st]

\* Mutant: the failed handler takes the exhausted job for one to be retried
AttemptFails_NoDeadLetter(r) ==
  LET made == job[r].made + 1 IN
  /\ job' = [job EXCEPT ![r] = [@ EXCEPT !.made = made,
               !.st = IF made < Attempts THEN "delayed" ELSE "failed"]]
  /\ UNCHANGED letterVars

\* The worker's function threw: BullMQ retries the job while attempts remain;
\* else it is failed, and the failed handler has a dead letter to write.
AttemptFails(r) ==
  LET made == job[r].made + 1
      failed == [job[r] EXCEPT !.made = made, !.st = "failed"] IN
  /\ UNCHANGED <<deadLetters, dlqLost>>
  /\ \/ /\ made < Attempts
        /\ job' = [job EXCEPT ![r] = [failed EXCEPT !.st = "delayed"]]
        /\ UNCHANGED unfiled
     \/ /\ made >= Attempts
        /\ job' = [job EXCEPT ![r] = failed]
        /\ unfiled' = unfiled \cup {r}

\* worker.on('failed'): the write to the dead-letter queue, whose failure is
\* only logged.
DeadLetterEnds(r) ==
  /\ r \in unfiled
  /\ unfiled' = unfiled \ {r}
  /\ \/ deadLetters' = deadLetters \cup {r} /\ UNCHANGED dlqLost
     \/ dlqLost' = dlqLost \cup {r} /\ UNCHANGED deadLetters
  /\ UNCHANGED <<active, agentVars, req, codeQueue, job, activeProcessors,
                 rollbackTracker, sessionVars, crashes>>

\* The worker takes a job if a place is free.
TakeJob(r) ==
  /\ job[r].st = "waiting"
  /\ Cardinality({s \in Execs : job[s].st \in InLane}) < Concurrency
  /\ job[r].started < MaxStarted
  /\ job' = [job EXCEPT ![r].st = "checking", ![r].started = @ + 1]
  /\ UNCHANGED <<active, agentVars, req, codeQueue, letterVars,
                 activeProcessors, rollbackTracker, sessionVars, crashes>>

\* BullMQ fails a job started too often without calling the processor; unless
\* that was its last attempt, the failed handler writes no dead letter.
StartedTooOften(r) ==
  /\ job[r].st = "waiting"
  /\ job[r].started >= MaxStarted
  /\ LET made == job[r].made + 1 IN
     /\ job' = [job EXCEPT ![r] = [@ EXCEPT !.st = "failed", !.made = made]]
     /\ unfiled' = IF made >= Attempts THEN unfiled \cup {r} ELSE unfiled
  /\ UNCHANGED <<active, agentVars, req, codeQueue, deadLetters, dlqLost,
                 activeProcessors, rollbackTracker, sessionVars, crashes>>

\* maybeApplyBackpressure reads the counter.  The worker's function awaits it,
\* so other jobs may read the counter before this one raises it.
Backpressure(r) ==
  /\ job[r].st = "checking"
  /\ JobGoes(r, IF activeProcessors < MaxInflight THEN "passed" ELSE "limiting")
  /\ UNCHANGED <<active, agentVars, req, codeQueue, letterVars,
                 activeProcessors, rollbackTracker, sessionVars, crashes>>

\* worker.rateLimit is done and the job goes back uncounted; or Redis refused
\* it, which counts as a failed attempt.
RateLimited(r) ==
  /\ job[r].st = "limiting"
  /\ \/ JobGoes(r, "waiting") /\ UNCHANGED letterVars
     \/ AttemptFails(r)
  /\ UNCHANGED <<active, agentVars, req, codeQueue, activeProcessors,
                 rollbackTracker, sessionVars, crashes>>

\* The check was passed, however long ago: the counter is raised, whatever it
\* has become, and the brain is asked.
RaiseCounter(r) ==
  /\ job[r].st = "passed"
  /\ JobGoes(r, "brain")
  /\ activeProcessors' = activeProcessors + 1
  /\ UNCHANGED <<active, agentVars, req, codeQueue, letterVars,
                 rollbackTracker, sessionVars, crashes>>

LeaveCounter == activeProcessors' = IF activeProcessors > 0 THEN activeProcessors - 1 ELSE 0

\* Mutant: the counter is lowered only when the brain answers
BrainThrows_KeepsCounter(r) ==
  /\ job[r].st = "brain"
  /\ AttemptFails(r)
  /\ UNCHANGED activeProcessors
  /\ UNCHANGED <<active, agentVars, req, codeQueue, rollbackTracker, sessionVars, crashes>>

BrainThrows(r) ==
  /\ job[r].st = "brain"
  /\ AttemptFails(r)
  /\ LeaveCounter
  /\ UNCHANGED <<active, agentVars, req, codeQueue, rollbackTracker, sessionVars, crashes>>

\* A heavy task is handed to GitHub Actions: the processor is never called,
\* nor its finally block, which releases the slot.
HeavyLift(r) ==
  /\ job[r].st = "brain"
  /\ JobGoes(r, "completed")
  /\ LeaveCounter
  /\ UNCHANGED <<active, agentVars, req, codeQueue, letterVars,
                 rollbackTracker, sessionVars, crashes>>

\* `return processor(...)` without await: the finally block lowers the counter
\* as soon as the processor first waits.
CallProcessor(r) ==
  /\ job[r].st = "brain"
  /\ LeaveCounter
  /\ \/ /\ r \in WithSession
        /\ JobGoes(r, "asserting")
        /\ UNCHANGED <<agent, listeners, stagedRuns, shown>>
     \/ /\ r \notin WithSession
        /\ JobGoes(r, "executing")
        /\ ExecuteBegins(r)
  /\ UNCHANGED <<active, req, codeQueue, letterVars, rollbackTracker,
                 sessionVars, crashes>>

\* assertSessionStillValid found the session gone, or its query failed.
SessionGone(r) ==
  /\ job[r].st = "asserting"
  /\ AttemptFails(r)
  /\ ReleaseRun(r)
  /\ UNCHANGED <<agentVars, req, codeQueue, activeProcessors, rollbackTracker,
                 sessionVars, crashes>>

\* It read a valid session; the session may end before the answer arrives.
SessionRead(r) ==
  /\ job[r].st = "asserting"
  /\ session = "valid"
  /\ JobGoes(r, "executing")
  /\ UNCHANGED <<active, agentVars, req, codeQueue, letterVars,
                 activeProcessors, rollbackTracker, sessionVars, crashes>>

\* The cleanup is registered and the run begins, whatever the session now is.
ProcessorExecutes(r) ==
  /\ job[r].st = "executing"
  /\ agent[r].st = "idle"
  /\ ExecuteBegins(r)
  /\ cleanups' = cleanups \cup {r}
  /\ UNCHANGED <<active, req, queueVars, rollbackTracker, session, crashes>>

\* The run has settled: the processor's finally block, then BullMQ.
ProcessorEnds(r) ==
  /\ job[r].st = "executing"
  /\ agent[r].st \in Settled
  /\ \/ /\ agent[r].st = "success"
        /\ JobGoes(r, "completed")
        /\ UNCHANGED <<letterVars, agent>>
     \/ /\ agent[r].st /= "success"
        /\ AttemptFails(r)
        /\ agent' = [agent EXCEPT ![r] = Idle]
  /\ cleanups' = cleanups \ {r}
  /\ ReleaseRun(r)
  /\ UNCHANGED <<listeners, stagedRuns, shown, req, codeQueue, activeProcessors,
                 rollbackTracker, session, crashes>>

\* The backoff delay is over.
BackoffEnds(r) ==
  /\ job[r].st = "delayed"
  /\ JobGoes(r, "waiting")
  /\ UNCHANGED <<active, agentVars, req, codeQueue, letterVars,
                 activeProcessors, rollbackTracker, sessionVars, crashes>>

RunSteps(r) ==
  /\ AgentStep(r)
  /\ UNCHANGED <<active, req, queueVars, rollbackTracker, sessionVars, crashes>>

-----------------------------------------------------------------------------
(* The session and the process. *)

\* revokeSessionForFingerprintMismatch or the reuse of a refresh token: the row
\* is revoked first and the cleanups are called after more awaits.
SessionRevoked ==
  /\ session = "valid"
  /\ session' = "revoking"
  /\ UNCHANGED <<active, agentVars, req, queueVars, rollbackTracker, cleanups, crashes>>

\* triggerFingerprintMismatchCleanup.
CleanupTriggered ==
  /\ session = "revoking"
  /\ session' = "revoked"
  /\ AbortAll(cleanups)
  /\ cleanups' = {}
  /\ UNCHANGED <<active, stagedRuns, shown, req, queueVars, rollbackTracker, crashes>>

\* logoutSession drops the callbacks without calling them.
Logout ==
  /\ session = "valid"
  /\ session' = "revoked"
  /\ cleanups' = {}
  /\ UNCHANGED <<active, agentVars, req, queueVars, rollbackTracker, crashes>>

\* The process dies: everything but Redis is lost.  Stalled jobs are delivered
\* again; requests that were not answered never are, nor are dead letters that
\* were not written yet.
Crash ==
  /\ crashes < MaxCrashes
  /\ crashes' = crashes + 1
  /\ active' = {}
  /\ agent' = [r \in Execs |-> IF agent[r].st \in Settled /\ job[r].st /= "executing"
                                 THEN agent[r] ELSE Idle]
  /\ listeners' = {}
  /\ req' = [r \in Execs |-> IF req[r] \in {"enqueuing", "inline"} THEN "lost" ELSE req[r]]
  /\ job' = [r \in Execs |-> IF job[r].st \in InLane
                               THEN [job[r] EXCEPT !.st = "waiting"] ELSE job[r]]
  /\ activeProcessors' = 0
  /\ rollbackTracker' = 0
  /\ cleanups' = {}
  /\ session' = IF session = "revoking" THEN "revoked" ELSE session
  /\ dlqLost' = dlqLost \cup unfiled
  /\ unfiled' = {}
  /\ UNCHANGED <<stagedRuns, shown, codeQueue, deadLetters>>

HandlerStep(r) ==
  \/ EnqueueFails(r)
  \/ JobAdded(r)
  \/ InlineBegins(r)
  \/ InlineAnswers(r)

WorkerStep(r) ==
  \/ TakeJob(r)
  \/ StartedTooOften(r)
  \/ Backpressure(r)
  \/ RateLimited(r)
  \/ RaiseCounter(r)
  \/ DeadLetterEnds(r)
  \/ BrainThrows(r)
  \/ HeavyLift(r)
  \/ CallProcessor(r)
  \/ SessionGone(r)
  \/ SessionRead(r)
  \/ ProcessorExecutes(r)
  \/ ProcessorEnds(r)
  \/ BackoffEnds(r)

JobsNext ==
  \/ \E r \in Execs :
       \/ CodeRequest(r)
       \/ HandlerStep(r)
       \/ WorkerStep(r)
       \/ RunSteps(r)
       \/ LeaseTimesOut(r)
  \/ RetryWindowPasses
  \/ SessionRevoked
  \/ CleanupTriggered
  \/ Logout
  \/ Crash

\* Users, the session's end and crashes owe nothing; a request's chain of
\* awaits (handler, worker, run) goes on, and lease timers fire.
JobsFairness ==
  \A r \in Execs :
    /\ WF_jobsVars(HandlerStep(r) \/ WorkerStep(r) \/ RunSteps(r))
    /\ WF_jobsVars(LeaseTimesOut(r))

JobsSpec == JobsInit /\ [][JobsNext]_jobsVars /\ JobsFairness

-----------------------------------------------------------------------------
JobsTypeOK ==
  /\ AgentTypeOK
  /\ active \subseteq Execs
  /\ codeQueue \in BOOLEAN
  /\ req \in [Execs -> {"new", "refused", "enqueuing", "queued", "error", "inline",
                        "200", "401", "202", "lost"}]
  /\ job \in [Execs -> [st : {"none", "waiting", "delayed"} \cup InLane \cup JobOver,
                        made : 0..Attempts, started : 0..MaxStarted]]
  /\ unfiled \subseteq Execs /\ deadLetters \subseteq Execs /\ dlqLost \subseteq Execs
  /\ activeProcessors \in 0..Concurrency
  /\ rollbackTracker \in 0..(MaxRollbackRuns + Cardinality(Execs))
  /\ session \in {"valid", "revoking", "revoked"}
  /\ cleanups \subseteq WithSession
  /\ crashes \in 0..MaxCrashes

\* The counter that backpressure reads is the number of jobs between its raise
\* and the processor, on every path out of the worker's function.  Jobs that
\* read it together all pass, so it may exceed MaxInflight, up to the lane's
\* concurrency; but a path that forgot to lower it, or lowered it for a job that
\* never raised it, would close the lane for good or open it to everybody.
PressureBalanced ==
  activeProcessors = Cardinality({r \in Execs : job[r].st = "brain"})

\* A job that used up its attempts is about to be filed, was written to the
\* dead-letter queue, or its letter was lost with a failed write or a crash; and
\* a job that is filed, or about to be, is never delivered again.
DeadLettersFinal ==
  \A r \in Execs :
    /\ job[r].st = "failed" /\ job[r].made >= Attempts =>
         r \in unfiled \cup deadLetters \cup dlqLost
    /\ r \in unfiled \cup deadLetters => job[r].st = "failed"

\* A file is staged only by a run that was still running the step before, and
\* its own client hears of it: a run that was aborted with its session, or was
\* given up, stages nothing, although the promise its machine was waiting for
\* still resolves.
OnlyLiveRunsStage ==
  [][\A e \in Execs : e \in stagedRuns' \ stagedRuns =>
       agent[e].st = "sandboxing" /\ e \in listeners /\ <<e, e>> \in shown']_jobsVars

\* A run slot comes back, whatever happens to the request it was taken for:
\* the heavy path and a lost worker give it back only through its lease.
SlotsReturn == \A r \in Execs : r \in active ~> r \notin active

\* A queued job comes to an end, through retries, backpressure, a revoked
\* session and a crash of the server.
JobsSettle == \A r \in Execs : job[r].st = "waiting" ~> job[r].st \in JobOver
=============================================================================
