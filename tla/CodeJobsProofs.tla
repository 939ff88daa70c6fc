--------------------------- MODULE CodeJobsProofs ---------------------------
(***************************************************************************)
(* Proofs of the safety properties of CodeJobs, for every finite set of    *)
(* requests, every table of efforts and every limit of the lane.           *)
(*                                                                         *)
(* Beside the types, the induction needs what a run has paid for its       *)
(* drafts (Sound), which jobs have an attempt left (SoundJob), the sets    *)
(* behind the counters (Brain, Lane and, with the failures that may still  *)
(* be counted, Inline in Tracked), and which processor has begun its run   *)
(* (Called).                                                               *)
(***************************************************************************)
EXTENDS CodeJobs, FiniteSetTheorems, TLAPS

Undrafted == {"idle", "reading", "loading_contexts", "parsing_ast"}

RunRecord == [st : {"idle"} \cup Executing \cup Settled, retries : Nat, rollbacks : 0 .. 1,
              drafts : Nat, sandboxError : BOOLEAN]

\* A run within its retries that has paid for its drafts: a draft is the first,
\* a retry, or the first after the rollback.
Sound(e, a) ==
  LET limit == retryLimitForEffort(EffortOf[e]) IN
  /\ a \in RunRecord
  /\ a.retries <= limit
  /\ a.st \in Undrafted => a.retries = 0 /\ a.rollbacks = 0 /\ a.drafts = 0
  /\ a.rollbacks <= maxRollbacks(EffortOf[e])
  /\ a.rollbacks = 0 => a.drafts <= a.retries + 1
  /\ a.drafts <= a.retries + limit + 2
  /\ a.drafts > 1 => a.sandboxError

RunsSound == \A e \in Execs : Sound(e, agent[e])

JobRecord == [st : {"none", "waiting", "delayed"} \cup InLane \cup JobOver,
              made : 0 .. Attempts, started : 0 .. MaxStarted]

\* A job that is not over has an attempt left.
SoundJob(j) == j \in JobRecord /\ (j.st \notin JobOver => j.made < Attempts)

JobsSound ==
  /\ job \in [Execs -> JobRecord]
  /\ \A r \in Execs : SoundJob(job[r])
  /\ unfiled \subseteq Execs /\ deadLetters \subseteq Execs /\ dlqLost \subseteq Execs
  /\ DeadLettersFinal

\* The jobs that are counted, the jobs the worker holds, and
\* the requests that execute without a queue.
Brain == {r \in Execs : job[r].st = "brain"}
Lane == {r \in Execs : job[r].st \in InLane}
Inline == {r \in Execs : req[r] = "inline"}

RequestStates == {"new", "refused", "enqueuing", "queued", "error", "inline",
                  "200", "401", "202", "lost"}

\* Failed inline runs and those that may yet fail are within the tracker's range.
Tracked ==
  /\ req \in [Execs -> RequestStates]
  /\ rollbackTracker \in Nat
  /\ rollbackTracker + Cardinality(Inline) <= MaxRollbackRuns + Cardinality(Execs)

Slots == active \subseteq Execs /\ Cardinality(active) <= MaxConcurrentRuns

\* Who waits for the session, and whose run has begun when its processor has.
Called ==
  /\ \A r \in Execs :
       /\ job[r].st = "asserting" => r \in WithSession
       /\ job[r].st = "executing" /\ r \notin WithSession => agent[r].st # "idle"
  /\ cleanups \subseteq WithSession
  /\ session \in {"valid", "revoking", "revoked"}
  /\ codeQueue \in BOOLEAN
  /\ crashes \in 0 .. MaxCrashes

IInv ==
  /\ agent \in [Execs -> RunRecord] /\ RunsSound
  /\ ListenersOfLiveRuns
  /\ stagedRuns \subseteq Execs /\ shown \subseteq Execs \X Execs
  /\ JobsSound
  /\ activeProcessors = Cardinality(Brain)
  /\ Cardinality(Lane) <= Concurrency
  /\ Tracked
  /\ Slots
  /\ Called
-----------------------------------------------------------------------------
(* Runs: whatever a step is for, it does to the runs one of these.         *)

\* The attempt is over and the run with it.
Forget(e) ==
  /\ agent[e].st \in Settled
  /\ agent' = [agent EXCEPT ![e] = Idle]
  /\ UNCHANGED <<listeners, stagedRuns, shown>>

\* The process dies; a run that settled may still be remembered.
Die ==
  /\ \E S \in SUBSET {e \in Execs : agent[e].st \in Settled} :
       agent' = [e \in Execs |-> IF e \in S THEN agent[e] ELSE Idle]
  /\ listeners' = {}
  /\ UNCHANGED <<stagedRuns, shown>>

RunsMove ==
  \/ UNCHANGED agentVars
  \/ \E e \in Execs : ExecuteBegins(e)
  \/ \E e \in Execs : AgentStep(e)
  \/ \E S : AbortAll(S) /\ UNCHANGED <<stagedRuns, shown>>
  \/ \E e \in Execs : Forget(e)
  \/ Die

LEMMA RunsOfWorker ==
  ASSUME NEW r \in Execs, WorkerStep(r)
  PROVE  RunsMove
<1>1. CASE CallProcessor(r)
  BY <1>1 DEF CallProcessor, RunsMove, agentVars
<1>2. CASE ProcessorExecutes(r)
  BY <1>2 DEF ProcessorExecutes, RunsMove
<1>3. CASE ProcessorEnds(r)
  BY <1>3 DEF ProcessorEnds, RunsMove, Forget, agentVars
<1>4. CASE \/ TakeJob(r) \/ StartedTooOften(r) \/ Backpressure(r) \/ RateLimited(r)
           \/ RaiseCounter(r) \/ DeadLetterEnds(r) \/ BrainThrows(r) \/ HeavyLift(r)
           \/ SessionGone(r) \/ SessionRead(r) \/ BackoffEnds(r)
  BY <1>4 DEF TakeJob, StartedTooOften, Backpressure, RateLimited, RaiseCounter, DeadLetterEnds,
              BrainThrows, HeavyLift, SessionGone, SessionRead, BackoffEnds, RunsMove
<1>5. QED
  BY <1>1, <1>2, <1>3, <1>4 DEF WorkerStep

LEMMA RunsOfStep ==
  ASSUME [JobsNext]_jobsVars
  PROVE  RunsMove
<1>1. ASSUME NEW r \in Execs, CodeRequest(r) \/ HandlerStep(r) \/ RunSteps(r) \/ LeaseTimesOut(r)
      PROVE  RunsMove
  BY <1>1 DEF CodeRequest, HandlerStep, EnqueueFails, JobAdded, InlineBegins, InlineAnswers,
              RunSteps, LeaseTimesOut, RunsMove
<1>2. CASE RetryWindowPasses \/ SessionRevoked \/ Logout \/ UNCHANGED jobsVars
  BY <1>2 DEF RetryWindowPasses, SessionRevoked, Logout, jobsVars, RunsMove
<1>3. CASE CleanupTriggered
  BY <1>3 DEF CleanupTriggered, RunsMove
<1>4. CASE Crash
  <2> DEFINE S == {e \in Execs : agent[e].st \in Settled /\ job[e].st # "executing"}
  <2>1. agent' = [e \in Execs |-> IF e \in S THEN agent[e] ELSE Idle]
    BY <1>4 DEF Crash
  <2>2. S \in SUBSET {e \in Execs : agent[e].st \in Settled}
    OBVIOUS
  <2>3. Die
    BY <1>4, <2>1, <2>2 DEF Crash, Die
  <2>4. QED
    BY <2>3 DEF RunsMove
<1>5. QED
  BY <1>1, <1>2, <1>3, <1>4, RunsOfWorker DEF JobsNext

\* What an effort level pays for.
LEMMA Limits ==
  ASSUME NEW e \in Execs
  PROVE  /\ retryLimitForEffort(EffortOf[e]) \in Nat
         /\ maxRollbacks(EffortOf[e]) \in 0 .. 1
BY AgentAssumption DEF retryLimitForEffort, maxRollbacks

\* A run that merely goes on keeps what it has paid for.
LEMMA GoesOn ==
  ASSUME NEW e \in Execs, NEW a, Sound(e, a), NEW st \in Executing \cup Settled,
         st \in Undrafted => a.st \in Undrafted
  PROVE  Sound(e, [a EXCEPT !.st = st]) /\ [a EXCEPT !.st = st].st = st
BY DEF Sound, RunRecord

\* One draft more.
LEMMA Drafted ==
  ASSUME NEW a \in RunRecord
  PROVE  /\ Draft(a) \in RunRecord
         /\ Draft(a).st = "drafting_code" /\ Draft(a).drafts = a.drafts + 1
         /\ Draft(a).retries = a.retries /\ Draft(a).rollbacks = a.rollbacks
         /\ Draft(a).sandboxError = a.sandboxError
<1> DEFINE b == [a EXCEPT !.st = "drafting_code"]
<1>1. /\ b \in RunRecord /\ b.st = "drafting_code" /\ b.drafts = a.drafts
      /\ b.retries = a.retries /\ b.rollbacks = a.rollbacks /\ b.sandboxError = a.sandboxError
  BY DEF RunRecord, Executing, Working
<1>2. Draft(a) = [b EXCEPT !.drafts = a.drafts + 1]
  BY <1>1 DEF Draft
<1> HIDE DEF b
<1>3. [b EXCEPT !.drafts = a.drafts + 1] \in RunRecord
  BY <1>1 DEF RunRecord
<1>4. QED
  BY <1>1, <1>2, <1>3 DEF RunRecord

\* The first draft.
LEMMA FirstDraft ==
  ASSUME NEW e \in Execs, NEW a, Sound(e, a), a.st \in Undrafted
  PROVE  Sound(e, Draft(a)) /\ Draft(a).st = "drafting_code"
<1>1. a \in RunRecord /\ a.retries = 0 /\ a.rollbacks = 0 /\ a.drafts = 0
  BY DEF Sound
<1>2. Draft(a).drafts = 1 /\ Draft(a).st \notin Undrafted
  BY <1>1, Drafted DEF Undrafted
<1>3. QED
  BY <1>1, <1>2, Drafted, Limits DEF Sound

\* A failure is retried, rolled back or final, within the budget.
LEMMA FailurePaid ==
  ASSUME NEW e \in Execs, NEW a, Sound(e, a), a.st \notin Undrafted
  PROVE  /\ Sound(e, EvaluateFailure(e, [a EXCEPT !.sandboxError = TRUE]))
         /\ EvaluateFailure(e, [a EXCEPT !.sandboxError = TRUE]).st # "idle"
<1> DEFINE limit == retryLimitForEffort(EffortOf[e])
           b == [a EXCEPT !.sandboxError = TRUE]
<1>1. limit \in Nat /\ maxRollbacks(EffortOf[e]) \in 0 .. 1
  BY Limits
<1>2. /\ Sound(e, b) /\ b \in RunRecord /\ b.sandboxError = TRUE
      /\ b.retries \in Nat /\ b.drafts \in Nat /\ b.rollbacks \in 0 .. 1
      /\ b.drafts <= b.retries + limit + 2
      /\ b.rollbacks = 0 => b.drafts <= b.retries + 1
      /\ b.rollbacks <= maxRollbacks(EffortOf[e])
  BY <1>1 DEF Sound, RunRecord
<1>3. CASE b.retries < limit
  <2> DEFINE c == [b EXCEPT !.retries = @ + 1]
  <2>1. EvaluateFailure(e, b) = Draft(c)
    BY <1>3 DEF EvaluateFailure
  <2> HIDE DEF b, limit
  <2>2. /\ c \in RunRecord /\ c.retries = b.retries + 1 /\ c.drafts = b.drafts
        /\ c.rollbacks = b.rollbacks /\ c.sandboxError = TRUE
    BY <1>2 DEF RunRecord
  <2> HIDE DEF c
  <2>3. Sound(e, Draft(c)) /\ Draft(c).st # "idle"
    BY <1>1, <1>2, <1>3, <2>2, Drafted DEF Sound, Undrafted, limit
  <2>4. QED
    BY <2>1, <2>3 DEF b
<1>4. CASE b.retries >= limit /\ b.rollbacks < maxRollbacks(EffortOf[e])
  <2> DEFINE c == [b EXCEPT !.retries = 0, !.rollbacks = @ + 1]
  <2>1. EvaluateFailure(e, b) = Draft(c)
    BY <1>1, <1>2, <1>4 DEF EvaluateFailure
  <2>2. b.rollbacks = 0 /\ b.retries = limit
    BY <1>1, <1>2, <1>4 DEF Sound
  <2> HIDE DEF b, limit
  <2>3. /\ c \in RunRecord /\ c.retries = 0 /\ c.drafts = b.drafts
        /\ c.rollbacks = 1 /\ c.sandboxError = TRUE
    <3> DEFINE d == [b EXCEPT !.retries = 0]
    <3>1. /\ d \in RunRecord /\ d.retries = 0 /\ d.drafts = b.drafts
          /\ d.rollbacks = 0 /\ d.sandboxError = TRUE
      BY <1>2, <2>2 DEF RunRecord
    <3>2. c = [d EXCEPT !.rollbacks = 1]
      BY <2>2
    <3> HIDE DEF c, d
    <3>3. QED
      BY <3>1, <3>2 DEF RunRecord
  <2> HIDE DEF c
  <2>4. Sound(e, Draft(c)) /\ Draft(c).st # "idle"
    BY <1>1, <1>2, <1>4, <2>2, <2>3, Drafted DEF Sound, Undrafted, limit
  <2>5. QED
    BY <2>1, <2>4 DEF b
<1>5. CASE b.retries >= limit /\ ~(b.rollbacks < maxRollbacks(EffortOf[e]))
  <2>1. EvaluateFailure(e, b) = [b EXCEPT !.st = "fatal_failure"]
    BY <1>1, <1>2, <1>5 DEF EvaluateFailure, Sound, RunRecord
  <2>2. "fatal_failure" \in Executing \cup Settled /\ "fatal_failure" \notin Undrafted
    BY DEF Settled, Undrafted
  <2> HIDE DEF b
  <2>3. Sound(e, [b EXCEPT !.st = "fatal_failure"]) /\ [b EXCEPT !.st = "fatal_failure"].st # "idle"
    BY <1>2, <2>2, GoesOn
  <2>4. QED
    BY <2>1, <2>3 DEF b
<1>6. QED
  BY <1>1, <1>2, <1>3, <1>4, <1>5 DEF Sound, RunRecord

\* A step of the machine.
LEMMA SoundMachine ==
  ASSUME agent \in [Execs -> RunRecord], RunsSound, NEW e \in Execs, AgentStep(e)
  PROVE  \E a : Becomes(e, a) /\ Sound(e, a) /\ a.st # "idle"
<1> DEFINE Led == \E a : Becomes(e, a) /\ Sound(e, a) /\ a.st # "idle"
<1>1. Sound(e, agent[e])
  BY DEF RunsSound
<1>2. ASSUME NEW st \in Executing \cup Settled, GoTo(e, st),
             st \in Undrafted => agent[e].st \in Undrafted
      PROVE  Led
  <2>1. st # "idle"
    BY DEF Executing, Working, Settled
  <2>2. QED
    BY <1>1, <1>2, <2>1, GoesOn DEF GoTo
<1>3. ASSUME agent[e].st \notin Undrafted, FailsWithTrace(e) PROVE Led
  BY <1>1, <1>3, FailurePaid DEF FailsWithTrace
<1>4. CASE StartTask(e) \/ LoadContexts(e) \/ DraftCode(e) \/ GenerateTests(e) \/ Sandbox(e)
  BY <1>2, <1>3, <1>4 DEF StartTask, LoadContexts, DraftCode, GenerateTests, Sandbox,
        StageOnSuccess, Undrafted, Executing, Working, Settled
<1>5. CASE ParseAst(e)
  <2>1. CASE GoTo(e, "fatal_failure")
    BY <1>2, <2>1 DEF Undrafted, Settled
  <2>2. CASE Becomes(e, Draft(agent[e]))
    BY <1>1, <1>5, <2>2, FirstDraft DEF ParseAst, Undrafted
  <2>3. QED
    BY <1>5, <2>1, <2>2 DEF ParseAst
<1>6. QED
  BY <1>4, <1>5 DEF AgentStep

\* Runs that have not begun have spent nothing.
LEMMA SoundIdle ==
  ASSUME NEW e \in Execs
  PROVE  Sound(e, Idle) /\ Sound(e, [Idle EXCEPT !.st = "reading"])
<1>1. Idle \in RunRecord /\ Idle.st \in Undrafted
  BY DEF Idle, RunRecord, Undrafted
<1>2. Sound(e, Idle)
  BY <1>1, Limits DEF Sound, Idle
<1>3. QED
  BY <1>1, <1>2, GoesOn DEF Executing

LEMMA SoundInductive ==
  ASSUME agent \in [Execs -> RunRecord], RunsSound, RunsMove
  PROVE  agent' \in [Execs -> RunRecord] /\ RunsSound'
<1> DEFINE Goal == agent' \in [Execs -> RunRecord] /\ \A d \in Execs : Sound(d, agent'[d])
<1>1. SUFFICES Goal
  BY DEF RunsSound, Sound
<1>2. ASSUME NEW e \in Execs, NEW a, agent' = [agent EXCEPT ![e] = a], Sound(e, a)
      PROVE  Goal
  <2>1. a \in RunRecord
    BY <1>2 DEF Sound
  <2>2. QED
    BY <1>2, <2>1 DEF RunsSound
<1>3. CASE UNCHANGED agentVars
  BY <1>3 DEF agentVars, RunsSound
<1>4. CASE \E e \in Execs : ExecuteBegins(e)
  BY <1>2, <1>4, SoundIdle DEF ExecuteBegins
<1>5. CASE \E e \in Execs : AgentStep(e)
  BY <1>2, <1>5, SoundMachine DEF Becomes
<1>6. ASSUME NEW S, AbortAll(S) PROVE Goal
  <2>1. \A e \in Execs : agent[e].st \in Working => Sound(e, [agent[e] EXCEPT !.st = "aborted"])
    BY GoesOn DEF RunsSound, Settled, Undrafted
  <2>2. \A e \in Execs :
          \/ agent'[e] = agent[e]
          \/ agent[e].st \in Working /\ agent'[e] = [agent[e] EXCEPT !.st = "aborted"]
    BY <1>6 DEF AbortAll
  <2>3. \A e \in Execs : Sound(e, agent'[e]) /\ agent'[e] \in RunRecord
    BY <2>1, <2>2 DEF RunsSound, Sound
  <2>4. agent' = [e \in Execs |-> agent'[e]]
    BY <1>6 DEF AbortAll
  <2>5. QED
    BY <2>3, <2>4
<1>7. CASE \E e \in Execs : Forget(e)
  BY <1>2, <1>7, SoundIdle DEF Forget
<1>8. CASE Die
  <2>1. agent' = [e \in Execs |-> agent'[e]]
        /\ \A e \in Execs : agent'[e] = agent[e] \/ agent'[e] = Idle
    BY <1>8 DEF Die
  <2>2. \A e \in Execs : Sound(e, agent'[e]) /\ agent'[e] \in RunRecord
    BY <2>1, SoundIdle DEF RunsSound, Sound
  <2>3. QED
    BY <2>1, <2>2
<1>9. QED
  BY <1>3, <1>4, <1>5, <1>6, <1>7, <1>8 DEF RunsMove

\* A run's listener goes exactly when the run ends.
LEMMA ListenersInductive ==
  ASSUME agent \in [Execs -> RunRecord], RunsSound, ListenersOfLiveRuns, RunsMove
  PROVE  ListenersOfLiveRuns'
<1>1. agent' \in [Execs -> RunRecord]
  BY SoundInductive
<1>2. ASSUME NEW e \in Execs, NEW a, Becomes(e, a), agent[e].st \in Executing,
             a.st \in Executing \cup Settled
      PROVE  ListenersOfLiveRuns'
  BY <1>2 DEF Becomes, ListenersOfLiveRuns, Executing, Working, Settled
<1>3. CASE UNCHANGED agentVars
  BY <1>3 DEF agentVars, ListenersOfLiveRuns
<1>4. CASE \E e \in Execs : ExecuteBegins(e)
  BY <1>4 DEF ExecuteBegins, ListenersOfLiveRuns, Executing, Idle
<1>5. ASSUME NEW e \in Execs, AgentStep(e) PROVE ListenersOfLiveRuns'
  <2>1. agent[e].st \in Executing
    BY <1>5 DEF AgentStep, StartTask, LoadContexts, ParseAst, DraftCode, GenerateTests, Sandbox,
                Executing, Working
  <2>2. PICK a : Becomes(e, a) /\ Sound(e, a) /\ a.st # "idle"
    BY <1>5, SoundMachine
  <2>3. QED
    BY <1>2, <2>1, <2>2 DEF Sound, RunRecord
<1>6. ASSUME NEW S, AbortAll(S) PROVE ListenersOfLiveRuns'
  BY <1>6 DEF AbortAll, ListenersOfLiveRuns, Executing, Working, RunRecord
<1>7. CASE \E e \in Execs : Forget(e)
  BY <1>7 DEF Forget, ListenersOfLiveRuns, Executing, Working, Settled, Idle
<1>8. CASE Die
  BY <1>8 DEF Die, ListenersOfLiveRuns, Executing, Working, Settled, Idle
<1>9. QED
  BY <1>3, <1>4, <1>5, <1>6, <1>7, <1>8 DEF RunsMove

\* Nothing but a live run stages, and its own client is told.
LEMMA StagesLive ==
  ASSUME agent \in [Execs -> RunRecord], ListenersOfLiveRuns, RunsMove
  PROVE  /\ stagedRuns \subseteq Execs => stagedRuns' \subseteq Execs
         /\ shown \subseteq Execs \X Execs => shown' \subseteq Execs \X Execs
         /\ \A e \in Execs : e \in stagedRuns' \ stagedRuns =>
              agent[e].st = "sandboxing" /\ e \in listeners /\ <<e, e>> \in shown'
<1>1. CASE UNCHANGED <<stagedRuns, shown>>
  BY <1>1
<1>2. ASSUME NEW e \in Execs, agent[e].st = "sandboxing", StageOnSuccess(e)
      PROVE  /\ stagedRuns \subseteq Execs => stagedRuns' \subseteq Execs
             /\ shown \subseteq Execs \X Execs => shown' \subseteq Execs \X Execs
             /\ stagedRuns' \ stagedRuns \subseteq {e}
             /\ e \in listeners /\ <<e, e>> \in shown'
  <2>1. listeners \subseteq Execs /\ e \in listeners
    BY <1>2 DEF ListenersOfLiveRuns, Executing, Working
  <2>2. {e} \X listeners \subseteq Execs \X Execs /\ <<e, e>> \in {e} \X listeners
    BY <2>1
  <2>3. stagedRuns' = stagedRuns \cup {e} /\ shown' = shown \cup ({e} \X listeners)
    BY <1>2 DEF StageOnSuccess
  <2>4. QED
    BY <2>1, <2>2, <2>3
<1>3. \/ UNCHANGED <<stagedRuns, shown>>
      \/ \E e \in Execs : agent[e].st = "sandboxing" /\ StageOnSuccess(e)
  BY DEF RunsMove, agentVars, ExecuteBegins, AgentStep, StartTask, LoadContexts, ParseAst,
         DraftCode, GenerateTests, Sandbox, Forget, Die
<1>4. QED
  BY <1>1, <1>2, <1>3

-----------------------------------------------------------------------------
(* Jobs: a step moves at most one of them, and a crash puts the lane back. *)

\* What is left to be filed of a job r that becomes j.
Filed(r, j) ==
  /\ UNCHANGED <<deadLetters, dlqLost>>
  /\ unfiled \subseteq unfiled' /\ unfiled' \subseteq unfiled \cup {r}
  /\ r \in unfiled' \ unfiled => j.st = "failed"
  /\ j.st = "failed" /\ j.made >= Attempts => r \in unfiled'

JobMoves(r, j) ==
  /\ job[r].st \notin JobOver
  /\ job' = [job EXCEPT ![r] = j]
  /\ SoundJob(j)
  /\ Filed(r, j)

\* A job that has not failed goes elsewhere in the lane, or is done.
LEMMA JobGoesOn ==
  ASSUME JobsSound, NEW r \in Execs, job[r].st \notin JobOver,
         NEW st \in {"waiting", "delayed", "completed"} \cup InLane,
         JobGoes(r, st), UNCHANGED letterVars
  PROVE  \E j : JobMoves(r, j) /\ j.st = st
<1> DEFINE j == [job[r] EXCEPT !.st = st]
<1>1. job' = [job EXCEPT ![r] = j]
  BY DEF JobGoes, JobsSound
<1>2. SoundJob(j) /\ j.st = st
  BY DEF JobsSound, SoundJob, JobRecord, JobOver
<1>3. Filed(r, j)
  BY <1>2 DEF Filed, JobOver, InLane, letterVars
<1>4. QED
  BY <1>1, <1>2, <1>3 DEF JobMoves

\* A failed attempt is counted: the job waits for the next or is filed.
LEMMA AttemptCounted ==
  ASSUME JobsSound, NEW r \in Execs, job[r].st \notin JobOver, AttemptFails(r)
  PROVE  \E j : JobMoves(r, j) /\ j.st \in {"delayed", "failed"}
<1> DEFINE made == job[r].made + 1
           failed == [job[r] EXCEPT !.made = made, !.st = "failed"]
<1>1. job[r] \in JobRecord /\ job[r].made < Attempts /\ Attempts \in Nat
  BY JobsAssumption DEF JobsSound, SoundJob
<1>2. made \in 0 .. Attempts
  BY <1>1 DEF JobRecord
<1>3. failed \in JobRecord /\ failed.made = made /\ failed.st = "failed"
  <2> DEFINE counted == [job[r] EXCEPT !.made = made]
  <2>1. counted \in JobRecord /\ counted.made = made
    BY <1>1, <1>2 DEF JobRecord
  <2>2. failed = [counted EXCEPT !.st = "failed"]
    BY <1>1 DEF JobRecord
  <2> HIDE DEF counted, made
  <2>3. QED
    BY <2>1, <2>2 DEF JobRecord, JobOver
<1>4. CASE /\ made < Attempts
           /\ job' = [job EXCEPT ![r] = [failed EXCEPT !.st = "delayed"]]
           /\ UNCHANGED <<unfiled, deadLetters, dlqLost>>
  <2> HIDE DEF failed, made
  <2> DEFINE j == [failed EXCEPT !.st = "delayed"]
  <2>1. j \in JobRecord /\ j.made = made /\ j.st = "delayed"
    BY <1>3 DEF JobRecord
  <2>2. SoundJob(j) /\ Filed(r, j)
    BY <1>4, <2>1 DEF SoundJob, Filed
  <2>3. QED
    BY <1>4, <2>1, <2>2 DEF JobMoves
<1>5. CASE /\ made >= Attempts
           /\ job' = [job EXCEPT ![r] = failed]
           /\ unfiled' = unfiled \cup {r} /\ UNCHANGED <<deadLetters, dlqLost>>
  <2> HIDE DEF failed, made
  <2>1. SoundJob(failed) /\ Filed(r, failed)
    BY <1>3, <1>5 DEF SoundJob, Filed, JobOver
  <2>2. QED
    BY <1>3, <1>5, <2>1 DEF JobMoves
<1>6. QED
  BY <1>4, <1>5 DEF AttemptFails

\* A job that was started too often fails, whatever attempts it has left.
LEMMA TooOftenFiled ==
  ASSUME JobsSound, NEW r \in Execs, StartedTooOften(r)
  PROVE  \E j : JobMoves(r, j) /\ j.st = "failed"
<1> DEFINE made == job[r].made + 1
           j == [job[r] EXCEPT !.st = "failed", !.made = made]
<1>1. job[r] \in JobRecord /\ job[r].made < Attempts /\ Attempts \in Nat
  BY JobsAssumption DEF JobsSound, SoundJob, StartedTooOften, JobOver
<1>2. made \in 0 .. Attempts
  BY <1>1 DEF JobRecord
<1>3. j \in JobRecord /\ j.made = made /\ j.st = "failed"
  <2> DEFINE stopped == [job[r] EXCEPT !.st = "failed"]
  <2>1. stopped \in JobRecord /\ stopped.st = "failed"
    BY <1>1 DEF JobRecord, JobOver
  <2>2. j = [stopped EXCEPT !.made = made]
    BY <1>1 DEF JobRecord
  <2> HIDE DEF stopped, made
  <2>3. QED
    BY <1>2, <2>1, <2>2 DEF JobRecord
<1>4. /\ job' = [job EXCEPT ![r] = j]
      /\ unfiled' = IF made >= Attempts THEN unfiled \cup {r} ELSE unfiled
      /\ UNCHANGED <<deadLetters, dlqLost>>
  BY DEF StartedTooOften
<1> HIDE DEF j, made
<1>5. SoundJob(j) /\ Filed(r, j)
  BY <1>3, <1>4 DEF SoundJob, Filed, JobOver
<1>6. job[r].st \notin JobOver
  BY DEF StartedTooOften, JobOver
<1>7. QED
  BY <1>3, <1>4, <1>5, <1>6 DEF JobMoves

\* A place of the worker is taken.
LEMMA TakenSound ==
  ASSUME JobsSound, NEW r \in Execs, TakeJob(r)
  PROVE  \E j : JobMoves(r, j) /\ j.st = "checking"
<1> DEFINE started == job[r].started + 1
           j == [job[r] EXCEPT !.st = "checking", !.started = started]
<1>1. job[r] \in JobRecord /\ job[r].made < Attempts /\ job[r].started < MaxStarted
  BY DEF JobsSound, SoundJob, TakeJob, JobOver
<1>2. started \in 0 .. MaxStarted
  BY <1>1, JobsAssumption DEF JobRecord
<1>3. j \in JobRecord /\ j.made = job[r].made /\ j.st = "checking"
  <2> DEFINE taken == [job[r] EXCEPT !.st = "checking"]
  <2>1. taken \in JobRecord /\ taken.st = "checking" /\ taken.made = job[r].made
    BY <1>1 DEF JobRecord, InLane
  <2>2. j = [taken EXCEPT !.started = started]
    BY <1>1 DEF JobRecord
  <2> HIDE DEF taken, started
  <2>3. QED
    BY <1>2, <2>1, <2>2 DEF JobRecord
<1>4. job' = [job EXCEPT ![r] = j] /\ UNCHANGED <<unfiled, deadLetters, dlqLost>>
      /\ job[r].st \notin JobOver
  BY DEF TakeJob, JobsSound, JobOver, letterVars
<1> HIDE DEF j
<1>5. SoundJob(j) /\ Filed(r, j)
  BY <1>1, <1>3, <1>4 DEF SoundJob, Filed
<1>6. QED
  BY <1>3, <1>4, <1>5 DEF JobMoves

\* The crash: what the worker held waits again.
Stall ==
  /\ job' = [r \in Execs |-> IF job[r].st \in InLane
                               THEN [job[r] EXCEPT !.st = "waiting"] ELSE job[r]]
  /\ unfiled' = {} /\ dlqLost' = dlqLost \cup unfiled
  /\ UNCHANGED deadLetters

\* What a step of the worker does to its job.
LEMMA JobOfWorker ==
  ASSUME JobsSound, NEW r \in Execs, WorkerStep(r), ~DeadLetterEnds(r)
  PROVE  \E j : JobMoves(r, j)
<1>1. CASE BrainThrows(r) \/ SessionGone(r)
  BY <1>1, AttemptCounted DEF BrainThrows, SessionGone, JobOver
<1>2. CASE \/ Backpressure(r) \/ RaiseCounter(r) \/ HeavyLift(r) \/ CallProcessor(r)
           \/ SessionRead(r) \/ BackoffEnds(r)
  BY <1>2, JobGoesOn DEF Backpressure, RaiseCounter, HeavyLift, CallProcessor, SessionRead,
                         BackoffEnds, JobOver, InLane
<1>3. CASE RateLimited(r)
  BY <1>3, AttemptCounted, JobGoesOn DEF RateLimited, JobOver
<1>4. CASE ProcessorEnds(r)
  <2>1. CASE AttemptFails(r)
    BY <1>4, <2>1, AttemptCounted DEF ProcessorEnds, JobOver
  <2>2. CASE JobGoes(r, "completed") /\ UNCHANGED letterVars
    BY <1>4, <2>2, JobGoesOn DEF ProcessorEnds, JobOver
  <2>3. QED
    BY <1>4, <2>1, <2>2 DEF ProcessorEnds
<1>5. CASE ProcessorExecutes(r)
  <2>1. JobMoves(r, job[r])
    BY <1>5 DEF ProcessorExecutes, queueVars, letterVars, JobMoves, JobsSound, Filed,
        JobOver
  <2>2. QED
    BY <2>1
<1>6. QED
  BY <1>1, <1>2, <1>3, <1>4, <1>5, TakenSound, TooOftenFiled DEF WorkerStep

LEMMA JobOfStep ==
  ASSUME JobsSound, [JobsNext]_jobsVars
  PROVE  \/ UNCHANGED <<job, letterVars>>
         \/ \E r \in Execs : \E j : JobMoves(r, j)
         \/ \E r \in Execs : DeadLetterEnds(r)
         \/ Stall
<1>1. ASSUME NEW r \in Execs,
             \/ CodeRequest(r) \/ EnqueueFails(r) \/ InlineBegins(r) \/ InlineAnswers(r)
             \/ RunSteps(r) \/ LeaseTimesOut(r)
      PROVE  UNCHANGED <<job, letterVars>>
  BY <1>1 DEF CodeRequest, EnqueueFails, InlineBegins, InlineAnswers, RunSteps, LeaseTimesOut,
              queueVars
<1>2. CASE RetryWindowPasses \/ SessionRevoked \/ CleanupTriggered \/ Logout \/ UNCHANGED jobsVars
  BY <1>2 DEF RetryWindowPasses, SessionRevoked, CleanupTriggered, Logout, jobsVars, queueVars
<1>3. ASSUME NEW r \in Execs, JobAdded(r) PROVE \E j : JobMoves(r, j)
  <2>1. JobGoes(r, "waiting") /\ UNCHANGED letterVars /\ job[r].st \notin JobOver
    BY <1>3 DEF JobAdded, JobGoes, JobOver
  <2>2. QED
    BY <2>1, JobGoesOn
<1>4. CASE Crash
  BY <1>4 DEF Crash, Stall
<1>5. QED
  BY <1>1, <1>2, <1>3, <1>4, JobOfWorker DEF JobsNext, HandlerStep

\* Jobs keep their types and their attempts, and the dead letters are those of
\* jobs that failed for good.
LEMMA JobsInductive ==
  ASSUME JobsSound, [JobsNext]_jobsVars
  PROVE  JobsSound'
<1>1. CASE UNCHANGED <<job, letterVars>>
  BY <1>1 DEF letterVars, JobsSound, DeadLettersFinal
<1>2. ASSUME NEW r \in Execs, NEW j, JobMoves(r, j) PROVE JobsSound'
  <2>1. job' \in [Execs -> JobRecord] /\ \A q \in Execs : SoundJob(job'[q])
    BY <1>2 DEF JobMoves, JobsSound, SoundJob
  <2>2. job'[r] = j /\ \A q \in Execs : q # r => job'[q] = job[q]
    BY <1>2 DEF JobMoves, JobsSound
  <2>3. r \notin deadLetters \cup unfiled
    BY <1>2 DEF JobMoves, JobsSound, DeadLettersFinal, JobOver
  <2>4. DeadLettersFinal'
    BY <1>2, <2>2, <2>3 DEF JobMoves, Filed, JobsSound, DeadLettersFinal
  <2>5. unfiled' \subseteq Execs /\ deadLetters' \subseteq Execs /\ dlqLost' \subseteq Execs
    BY <1>2 DEF JobMoves, Filed, JobsSound
  <2>6. QED
    BY <2>1, <2>4, <2>5 DEF JobsSound, SoundJob
<1>3. CASE Stall
  <2>1. ASSUME NEW r \in Execs
        PROVE  job'[r] \in JobRecord /\ SoundJob(job'[r])
               /\ job'[r].made = job[r].made
               /\ (job'[r].st = "failed" <=> job[r].st = "failed")
    <3>1. CASE job[r].st \notin InLane
      BY <1>3, <3>1 DEF Stall, JobsSound
    <3>2. CASE job[r].st \in InLane
      <4>1. job'[r] = [job[r] EXCEPT !.st = "waiting"]
        BY <1>3, <3>2 DEF Stall
      <4>2. QED
        BY <3>2, <4>1 DEF JobsSound, SoundJob, JobRecord, InLane, JobOver
    <3>3. QED
      BY <3>1, <3>2
  <2>2. job' = [r \in Execs |-> job'[r]]
    BY <1>3 DEF Stall
  <2>3. QED
    BY <1>3, <2>1, <2>2 DEF Stall, JobsSound, DeadLettersFinal, SoundJob
<1>4. ASSUME NEW r \in Execs, DeadLetterEnds(r) PROVE JobsSound'
  BY <1>4 DEF DeadLetterEnds, JobsSound, DeadLettersFinal, SoundJob
<1>5. QED
  BY <1>1, <1>2, <1>3, <1>4, JobOfStep

-----------------------------------------------------------------------------
(* The counters. *)

\* The sets that are counted are finite.
LEMMA Finite ==
  /\ IsFiniteSet(Brain) /\ Cardinality(Brain) \in Nat
  /\ IsFiniteSet(Lane) /\ Cardinality(Lane) \in Nat /\ Cardinality(Brain) <= Cardinality(Lane)
  /\ IsFiniteSet(Inline) /\ Cardinality(Inline) \in Nat
  /\ Cardinality(Inline) <= Cardinality(Execs) /\ Cardinality(Execs) \in Nat
<1>1. IsFiniteSet(Execs)
  BY JobsAssumption
<1>2. Brain \in SUBSET Lane /\ Lane \in SUBSET Execs /\ Inline \in SUBSET Execs
  BY DEF Brain, Lane, Inline, InLane
<1>3. IsFiniteSet(Lane) /\ IsFiniteSet(Inline) /\ Cardinality(Inline) <= Cardinality(Execs)
  BY <1>1, <1>2, FS_Subset
<1>4. IsFiniteSet(Brain) /\ Cardinality(Brain) <= Cardinality(Lane)
  BY <1>2, <1>3, FS_Subset
<1>5. QED
  BY <1>1, <1>3, <1>4, FS_CardinalityType

\* A job that moves enters or leaves the sets it is counted in.
LEMMA Counted ==
  ASSUME JobsSound, NEW r \in Execs, NEW j, JobMoves(r, j)
  PROVE  /\ Brain' = IF j.st = "brain" THEN Brain \cup {r} ELSE Brain \ {r}
         /\ Lane' = IF j.st \in InLane THEN Lane \cup {r} ELSE Lane \ {r}
<1>1. job'[r] = j /\ \A q \in Execs : q # r => job'[q] = job[q]
  BY DEF JobMoves, JobsSound
<1>2. QED
  BY <1>1 DEF Brain, Lane

LeavesBrain(r) == BrainThrows(r) \/ HeavyLift(r) \/ CallProcessor(r)

\* The steps of the worker that lower the counter.
LEMMA LeavesCounter ==
  ASSUME JobsSound, NEW r \in Execs, LeavesBrain(r)
  PROVE  /\ job[r].st = "brain" /\ LeaveCounter
         /\ \E j : JobMoves(r, j) /\ j.st # "brain"
<1>1. CASE BrainThrows(r)
  BY <1>1, AttemptCounted DEF BrainThrows, JobOver
<1>2. CASE HeavyLift(r)
  BY <1>2, JobGoesOn DEF HeavyLift, JobOver
<1>3. CASE CallProcessor(r)
  <2>1. \E st \in {"asserting", "executing"} :
          JobGoes(r, st) /\ UNCHANGED letterVars
    BY <1>3 DEF CallProcessor
  <2>2. QED
    BY <1>3, <2>1, JobGoesOn DEF CallProcessor, JobOver, InLane
<1>4. QED
  BY <1>1, <1>2, <1>3 DEF LeavesBrain

\* The steps that have nothing to do with the counter.
KeepsCounter(r) ==
  /\ UNCHANGED activeProcessors
  /\ \E j : JobMoves(r, j) /\ (job[r].st = "brain" <=> j.st = "brain")

LEMMA RestOfWorker ==
  ASSUME JobsSound, NEW r \in Execs,
         \/ TakeJob(r) \/ StartedTooOften(r) \/ Backpressure(r) \/ RateLimited(r)
         \/ SessionGone(r) \/ SessionRead(r) \/ ProcessorExecutes(r) \/ ProcessorEnds(r)
         \/ BackoffEnds(r) \/ JobAdded(r)
  PROVE  KeepsCounter(r)
<1>1. CASE TakeJob(r) \/ StartedTooOften(r)
  <2>1. UNCHANGED activeProcessors /\ job[r].st # "brain"
    BY <1>1 DEF TakeJob, StartedTooOften
  <2>2. QED
    BY <1>1, <2>1, TakenSound, TooOftenFiled DEF KeepsCounter
<1>2. CASE SessionGone(r)
  BY <1>2, AttemptCounted DEF SessionGone, JobOver, KeepsCounter
<1>3. CASE Backpressure(r) \/ SessionRead(r) \/ BackoffEnds(r)
  BY <1>3, JobGoesOn DEF Backpressure, SessionRead, BackoffEnds, JobOver, InLane, KeepsCounter
<1>4. CASE RateLimited(r)
  BY <1>4, AttemptCounted, JobGoesOn DEF RateLimited, JobOver, KeepsCounter
<1>5. CASE ProcessorExecutes(r)
  <2>1. JobMoves(r, job[r]) /\ UNCHANGED activeProcessors
    BY <1>5 DEF ProcessorExecutes, queueVars, letterVars, JobMoves, JobsSound, Filed,
        JobOver
  <2>2. QED
    BY <2>1 DEF KeepsCounter
<1>6. CASE ProcessorEnds(r)
  <2>1. job[r].st = "executing" /\ UNCHANGED activeProcessors
    BY <1>6 DEF ProcessorEnds
  <2>2. CASE AttemptFails(r)
    BY <2>1, <2>2, AttemptCounted DEF JobOver, KeepsCounter
  <2>3. CASE JobGoes(r, "completed") /\ UNCHANGED letterVars
    BY <2>1, <2>3, JobGoesOn DEF JobOver, KeepsCounter
  <2>4. QED
    BY <1>6, <2>2, <2>3 DEF ProcessorEnds
<1>7. CASE JobAdded(r)
  <2>1. JobGoes(r, "waiting") /\ UNCHANGED <<letterVars, activeProcessors>>
        /\ job[r].st = "none"
    BY <1>7 DEF JobAdded, JobGoes
  <2>2. QED
    BY <2>1, JobGoesOn DEF JobOver, KeepsCounter
<1>8. QED
  BY <1>1, <1>2, <1>3, <1>4, <1>5, <1>6, <1>7

LEMMA PressureInductive ==
  ASSUME JobsSound, activeProcessors = Cardinality(Brain), [JobsNext]_jobsVars
  PROVE  activeProcessors' = Cardinality(Brain')
<1>1. CASE UNCHANGED <<job, activeProcessors>>
  BY <1>1 DEF Brain
<1>2. ASSUME NEW r \in Execs, DeadLetterEnds(r) PROVE UNCHANGED <<job, activeProcessors>>
  BY <1>2 DEF DeadLetterEnds
<1>3. ASSUME NEW r \in Execs, KeepsCounter(r) PROVE activeProcessors' = Cardinality(Brain')
  <2>1. Brain' = Brain
    BY <1>3, Counted DEF KeepsCounter, Brain
  <2>2. QED
    BY <1>3, <2>1 DEF KeepsCounter
<1>4. ASSUME NEW r \in Execs, LeavesBrain(r) PROVE activeProcessors' = Cardinality(Brain')
  <2>1. Brain' = Brain \ {r} /\ r \in Brain /\ LeaveCounter
    BY <1>4, LeavesCounter, Counted DEF Brain
  <2>2. Cardinality(Brain \ {r}) = Cardinality(Brain) - 1 /\ Cardinality(Brain) \in Nat
        /\ Cardinality(Brain) # 0
    BY <2>1, Finite, FS_RemoveElement, FS_EmptySet
  <2>3. QED
    BY <2>1, <2>2 DEF LeaveCounter
<1>5. ASSUME NEW r \in Execs, RaiseCounter(r) PROVE activeProcessors' = Cardinality(Brain')
  <2>1. /\ job[r].st = "passed" /\ UNCHANGED letterVars /\ r \notin Brain
        /\ JobGoes(r, "brain") /\ activeProcessors' = activeProcessors + 1
    BY <1>5 DEF RaiseCounter, Brain
  <2>2. Brain' = Brain \cup {r}
    BY <2>1, JobGoesOn, Counted DEF JobOver, InLane
  <2>3. Cardinality(Brain \cup {r}) = Cardinality(Brain) + 1
    BY <2>1, Finite, FS_AddElement
  <2>4. QED
    BY <2>1, <2>2, <2>3
<1>6. CASE Crash
  <2>1. Brain' = {} /\ activeProcessors' = 0
    BY <1>6 DEF Crash, Brain, InLane, JobsSound, JobRecord
  <2>2. QED
    BY <2>1, FS_EmptySet
<1>7. ASSUME NEW r \in Execs,
             \/ CodeRequest(r) \/ EnqueueFails(r) \/ InlineBegins(r) \/ InlineAnswers(r)
             \/ RunSteps(r) \/ LeaseTimesOut(r)
      PROVE  UNCHANGED <<job, activeProcessors>>
  BY <1>7 DEF CodeRequest, EnqueueFails, InlineBegins, InlineAnswers, RunSteps, LeaseTimesOut,
              queueVars
<1>8. CASE RetryWindowPasses \/ SessionRevoked \/ CleanupTriggered \/ Logout \/ UNCHANGED jobsVars
  BY <1>1, <1>8 DEF RetryWindowPasses, SessionRevoked, CleanupTriggered, Logout, jobsVars, queueVars
<1>9. QED
  BY <1>1, <1>2, <1>3, <1>4, <1>5, <1>6, <1>7, <1>8, RestOfWorker
     DEF JobsNext, HandlerStep, WorkerStep, LeavesBrain

\* The lane fills only by a job that is taken.
LEMMA LaneBounded ==
  ASSUME JobsSound, Cardinality(Lane) <= Concurrency, [JobsNext]_jobsVars
  PROVE  Cardinality(Lane') <= Concurrency
<1>1. Concurrency \in Nat
  BY JobsAssumption
<1>2. ASSUME Lane' \in SUBSET Lane PROVE Cardinality(Lane') <= Concurrency
  BY <1>1, <1>2, Finite, FS_Subset, FS_CardinalityType
<1>3. ASSUME NEW r \in Execs, NEW j, JobMoves(r, j), r \in Lane
      PROVE  Lane' \in SUBSET Lane
  BY <1>3, Counted
<1>4. ASSUME NEW r \in Execs, TakeJob(r) PROVE Cardinality(Lane') <= Concurrency
  <2>1. Cardinality(Lane) < Concurrency
    BY <1>4 DEF TakeJob, Lane
  <2>2. Lane' = Lane \cup {r}
    BY <1>4, TakenSound, Counted DEF InLane
  <2>3. Cardinality(Lane \cup {r}) = IF r \in Lane THEN Cardinality(Lane) ELSE Cardinality(Lane) + 1
    BY Finite, FS_AddElement
  <2>4. QED
    BY <1>1, <2>1, <2>2, <2>3, Finite
<1>5. ASSUME NEW r \in Execs, WorkerStep(r), ~TakeJob(r) PROVE Lane' \in SUBSET Lane
  <2>1. CASE r \in Lane /\ ~DeadLetterEnds(r)
    BY <1>3, <1>5, <2>1, JobOfWorker
  <2>2. CASE StartedTooOften(r)
    BY <2>2, TooOftenFiled, Counted DEF InLane
  <2>3. CASE BackoffEnds(r)
    BY <2>3, JobGoesOn, Counted DEF BackoffEnds, JobOver, InLane
  <2>4. CASE DeadLetterEnds(r)
    BY <2>4 DEF DeadLetterEnds, Lane
  <2>5. r \in Lane \/ StartedTooOften(r) \/ BackoffEnds(r) \/ DeadLetterEnds(r)
    BY <1>5 DEF WorkerStep, Backpressure, RateLimited, RaiseCounter, BrainThrows, HeavyLift, CallProcessor, SessionGone,
                SessionRead, ProcessorExecutes, ProcessorEnds, Lane, InLane
  <2>6. QED
    BY <2>1, <2>2, <2>3, <2>4, <2>5
<1>6. ASSUME NEW r \in Execs, JobAdded(r) PROVE Lane' \in SUBSET Lane
  <2>1. JobGoes(r, "waiting") /\ UNCHANGED letterVars /\ job[r].st = "none"
    BY <1>6 DEF JobAdded, JobGoes
  <2>2. QED
    BY <2>1, JobGoesOn, Counted DEF JobOver, InLane
<1>7. ASSUME Crash PROVE Lane' \in SUBSET Lane
  BY <1>7 DEF Crash, Lane, InLane, JobsSound, JobRecord
<1>8. ASSUME NEW r \in Execs,
             \/ CodeRequest(r) \/ EnqueueFails(r) \/ InlineBegins(r) \/ InlineAnswers(r)
             \/ RunSteps(r) \/ LeaseTimesOut(r)
      PROVE  Lane' = Lane
  BY <1>8 DEF CodeRequest, EnqueueFails, InlineBegins, InlineAnswers, RunSteps, LeaseTimesOut,
              queueVars, Lane
<1>9. ASSUME \/ RetryWindowPasses \/ SessionRevoked \/ CleanupTriggered \/ Logout
             \/ UNCHANGED jobsVars
      PROVE  Lane' = Lane
  BY <1>9 DEF RetryWindowPasses, SessionRevoked, CleanupTriggered, Logout, jobsVars, queueVars, Lane
<1>10. (\E r \in Execs : TakeJob(r)) \/ Lane' \in SUBSET Lane
  BY <1>5, <1>6, <1>7, <1>8, <1>9 DEF JobsNext, HandlerStep
<1>11. QED
  BY <1>2, <1>4, <1>10

LEMMA TrackerInductive ==
  ASSUME Tracked, [JobsNext]_jobsVars
  PROVE  Tracked'
<1>1. MaxRollbackRuns \in Nat /\ Cardinality(Execs) \in Nat /\ rollbackTracker \in Nat
  BY JobsAssumption, Finite DEF Tracked
<1>2. IsFiniteSet(Inline) /\ Cardinality(Inline) \in Nat
  BY Finite
<1>3. ASSUME UNCHANGED <<req, rollbackTracker>> PROVE Tracked'
  BY <1>3 DEF Tracked, Inline
<1>4. ASSUME NEW r \in Execs, NEW st \in RequestStates \ {"inline"}, Answer(r, st)
      PROVE  req' \in [Execs -> RequestStates] /\ Inline' = Inline \ {r}
  BY <1>4 DEF Answer, Tracked, Inline
<1>5. ASSUME NEW r \in Execs
      PROVE  /\ Cardinality(Inline \ {r}) \in Nat
             /\ Cardinality(Inline \ {r}) = IF r \in Inline THEN Cardinality(Inline) - 1
                                                            ELSE Cardinality(Inline)
  BY <1>2, FS_RemoveElement, FS_CardinalityType
<1>6. ASSUME NEW r \in Execs, NEW st \in RequestStates \ {"inline"}, Answer(r, st),
             rollbackTracker' = rollbackTracker \/ rollbackTracker' = 0
             \/ (rollbackTracker' = rollbackTracker + 1 /\ r \in Inline)
      PROVE  Tracked'
  <2>1. Cardinality(Inline') = Cardinality(Inline \ {r})
    BY <1>4, <1>6
  <2>2. rollbackTracker' \in Nat
        /\ rollbackTracker' + Cardinality(Inline') <= MaxRollbackRuns + Cardinality(Execs)
    BY <1>1, <1>2, <1>5, <1>6, <2>1 DEF Tracked
  <2>3. QED
    BY <1>4, <1>6, <2>2 DEF Tracked
<1>7. ASSUME NEW r \in Execs, CodeRequest(r) PROVE Tracked'
  <2>1. UNCHANGED rollbackTracker
    BY <1>7 DEF CodeRequest
  <2>2. CASE Answer(r, "refused") \/ Answer(r, "enqueuing")
    BY <1>6, <2>1, <2>2 DEF RequestStates
  <2>3. CASE Answer(r, "inline") /\ rollbackTracker < MaxRollbackRuns
    <3>1. req' \in [Execs -> RequestStates]
      BY <2>3 DEF Answer, Tracked, RequestStates
    <3>2. Cardinality(Inline') <= Cardinality(Execs) /\ Cardinality(Inline') \in Nat
      <4>1. Inline' \in SUBSET Execs /\ IsFiniteSet(Execs)
        BY JobsAssumption DEF Inline
      <4>2. QED
        BY <4>1, FS_Subset, FS_CardinalityType
    <3>3. QED
      BY <1>1, <2>1, <2>3, <3>1, <3>2 DEF Tracked
  <2>4. QED
    BY <1>7, <2>2, <2>3 DEF CodeRequest
<1>8. ASSUME NEW r \in Execs, HandlerStep(r) PROVE Tracked'
  <2>1. CASE EnqueueFails(r)
    BY <1>6, <2>1 DEF EnqueueFails, RequestStates
  <2>2. CASE JobAdded(r)
    BY <1>6, <2>2 DEF JobAdded, RequestStates
  <2>3. CASE InlineBegins(r)
    BY <1>3, <2>3 DEF InlineBegins
  <2>4. CASE InlineAnswers(r)
    <3>1. r \in Inline
      BY <2>4 DEF InlineAnswers, Inline
    <3>2. QED
      BY <1>6, <2>4, <3>1 DEF InlineAnswers, RequestStates
  <2>5. QED
    BY <1>8, <2>1, <2>2, <2>3, <2>4 DEF HandlerStep
<1>9. CASE RetryWindowPasses
  <2>1. UNCHANGED req /\ rollbackTracker' = 0 /\ Inline' = Inline
    BY <1>9 DEF RetryWindowPasses, Inline
  <2>2. QED
    BY <1>1, <1>2, <2>1 DEF Tracked
<1>10. CASE Crash
  <2>1. req' \in [Execs -> RequestStates] /\ Inline' = {} /\ rollbackTracker' = 0
    BY <1>10 DEF Crash, Tracked, Inline, RequestStates
  <2>2. QED
    BY <1>1, <2>1, FS_EmptySet DEF Tracked
<1>11. ASSUME NEW r \in Execs, WorkerStep(r) PROVE UNCHANGED <<req, rollbackTracker>>
  BY <1>11 DEF WorkerStep, TakeJob, StartedTooOften, Backpressure, RateLimited, RaiseCounter,
       DeadLetterEnds, BrainThrows, HeavyLift, CallProcessor, SessionGone, SessionRead, ProcessorExecutes, ProcessorEnds, BackoffEnds
<1>12. CASE \/ SessionRevoked \/ CleanupTriggered \/ Logout \/ UNCHANGED jobsVars
            \/ \E r \in Execs : RunSteps(r) \/ LeaseTimesOut(r)
  BY <1>3, <1>12 DEF SessionRevoked, CleanupTriggered, Logout, jobsVars, RunSteps, LeaseTimesOut
<1>13. QED
  BY <1>3, <1>7, <1>8, <1>9, <1>10, <1>11, <1>12 DEF JobsNext

-----------------------------------------------------------------------------
(* Slots, the session and its cleanups. *)

\* A slot is taken only when one is free, and the leases only give back.
LEMMA SlotsInductive ==
  ASSUME Slots, [JobsNext]_jobsVars
  PROVE  Slots'
<1>1. /\ IsFiniteSet(active) /\ Cardinality(active) \in Nat /\ MaxConcurrentRuns \in Nat
      /\ active \in SUBSET Execs
  BY JobsAssumption, GovernorAssumption, FS_Subset, FS_CardinalityType DEF Slots
<1>2. ASSUME active' \in SUBSET active PROVE Slots'
  BY <1>1, <1>2, FS_Subset, FS_CardinalityType DEF Slots
<1>3. ASSUME NEW r \in Execs, AcquireRun(r) PROVE Slots'
  <2>1. Cardinality(active \cup {r}) = IF r \in active THEN Cardinality(active)
                                                       ELSE Cardinality(active) + 1
    BY <1>1, FS_AddElement
  <2>2. QED
    BY <1>1, <1>3, <2>1 DEF AcquireRun, MayAcquire, Slots
<1>4. ASSUME NEW r \in Execs, CodeRequest(r) \/ HandlerStep(r) \/ RunSteps(r) \/ LeaseTimesOut(r)
      PROVE  AcquireRun(r) \/ active' \in SUBSET active
  BY <1>4 DEF CodeRequest, HandlerStep, EnqueueFails, JobAdded, InlineBegins, InlineAnswers,
       RunSteps, LeaseTimesOut, LeaseExpires, RefuseRun, ReleaseRun
<1>5. ASSUME NEW r \in Execs, WorkerStep(r) PROVE active' \in SUBSET active
  BY <1>5 DEF WorkerStep, TakeJob, StartedTooOften, Backpressure, RateLimited, RaiseCounter,
       DeadLetterEnds, BrainThrows, HeavyLift, CallProcessor, SessionGone, SessionRead, ProcessorExecutes, ProcessorEnds, BackoffEnds,
       ReleaseRun
<1>6. ASSUME \/ RetryWindowPasses \/ SessionRevoked \/ CleanupTriggered \/ Logout \/ Crash
             \/ UNCHANGED jobsVars
      PROVE  active' \in SUBSET active
  BY <1>6 DEF RetryWindowPasses, SessionRevoked, CleanupTriggered, Logout, Crash, jobsVars
<1>7. QED
  BY <1>2, <1>3, <1>4, <1>5, <1>6 DEF JobsNext

\* No machine goes back to idle of itself.
LEMMA StaysBegun ==
  ASSUME agent \in [Execs -> RunRecord], RunsSound, NEW e \in Execs,
         AgentStep(e) \/ ExecuteBegins(e)
  PROVE  agent'[e].st # "idle" /\ \A d \in Execs : d # e => agent'[d] = agent[d]
<1>1. CASE ExecuteBegins(e)
  BY <1>1 DEF ExecuteBegins, Idle
<1>2. CASE AgentStep(e)
  BY <1>2, SoundMachine DEF Becomes
<1>3. QED
  BY <1>1, <1>2

LEMMA CalledWorker ==
  ASSUME agent \in [Execs -> RunRecord], RunsSound, JobsSound, Called,
         NEW r \in Execs, WorkerStep(r)
  PROVE  Called'
<1> DEFINE Then(j) ==
      /\ j.st = "asserting" => r \in WithSession
      /\ j.st = "executing" /\ r \notin WithSession => agent'[r].st # "idle"
<1>1. ASSUME NEW j, JobMoves(r, j), Then(j),
             \A d \in Execs : d # r => agent'[d] = agent[d],
             cleanups' \subseteq WithSession, UNCHANGED <<session, codeQueue, crashes>>
      PROVE  Called'
  <2>1. job'[r] = j /\ \A q \in Execs : q # r => job'[q] = job[q]
    BY <1>1 DEF JobMoves, JobsSound
  <2>2. QED
    BY <1>1, <2>1 DEF Called
<1>2. CASE TakeJob(r) \/ StartedTooOften(r)
  <2>1. UNCHANGED <<agentVars, sessionVars, codeQueue, crashes>>
    BY <1>2 DEF TakeJob, StartedTooOften
  <2>2. QED
    BY <1>1, <1>2, <2>1, TakenSound, TooOftenFiled DEF agentVars, sessionVars, Called
<1>3. CASE BrainThrows(r) \/ SessionGone(r)
  <2>1. /\ UNCHANGED <<agentVars, sessionVars, codeQueue, crashes>>
        /\ AttemptFails(r) /\ job[r].st \notin JobOver
    BY <1>3 DEF BrainThrows, SessionGone, JobOver
  <2>2. QED
    BY <1>1, <2>1, AttemptCounted DEF agentVars, sessionVars, Called
<1>4. CASE \/ Backpressure(r) \/ RateLimited(r) \/ RaiseCounter(r) \/ HeavyLift(r)
           \/ BackoffEnds(r)
  <2>1. /\ UNCHANGED <<agentVars, sessionVars, codeQueue, crashes>>
        /\ job[r].st \notin JobOver
        /\ \/ /\ UNCHANGED letterVars
              /\ \E st \in {"waiting", "passed", "limiting", "brain", "completed"} :
                   JobGoes(r, st)
           \/ AttemptFails(r)
    BY <1>4 DEF Backpressure, RateLimited, RaiseCounter, HeavyLift, BackoffEnds, JobOver
  <2>2. QED
    BY <1>1, <2>1, JobGoesOn, AttemptCounted DEF agentVars, sessionVars, Called, InLane
<1>5. CASE DeadLetterEnds(r)
  BY <1>5 DEF DeadLetterEnds, agentVars, sessionVars, Called
<1>6. CASE CallProcessor(r)
  <2>1. /\ UNCHANGED <<sessionVars, codeQueue, crashes, letterVars>>
        /\ job[r].st \notin JobOver
    BY <1>6 DEF CallProcessor, JobOver
  <2>2. CASE r \in WithSession /\ JobGoes(r, "asserting") /\ UNCHANGED agent
    BY <1>1, <2>1, <2>2, JobGoesOn DEF sessionVars, Called, InLane
  <2>3. CASE r \notin WithSession /\ JobGoes(r, "executing") /\ ExecuteBegins(r)
    BY <1>1, <2>1, <2>3, JobGoesOn, StaysBegun DEF sessionVars, Called, InLane
  <2>4. QED
    BY <1>6, <2>2, <2>3 DEF CallProcessor
<1>7. CASE SessionRead(r)
  <2>1. /\ UNCHANGED <<agentVars, sessionVars, codeQueue, crashes, letterVars>>
        /\ job[r].st = "asserting" /\ r \in WithSession /\ JobGoes(r, "executing")
    BY <1>7 DEF SessionRead, Called
  <2>2. QED
    BY <1>1, <2>1, JobGoesOn DEF agentVars, sessionVars, Called, InLane, JobOver
<1>8. CASE ProcessorExecutes(r)
  <2>1. JobMoves(r, job[r]) /\ r \in WithSession /\ ExecuteBegins(r)
    BY <1>8 DEF ProcessorExecutes, queueVars, letterVars, JobMoves, JobsSound, Filed,
        JobOver, Called
  <2>2. cleanups' \subseteq WithSession /\ UNCHANGED <<session, codeQueue, crashes>>
    BY <1>8, <2>1 DEF ProcessorExecutes, queueVars, Called
  <2>3. QED
    BY <1>1, <2>1, <2>2, StaysBegun DEF Called
<1>9. CASE ProcessorEnds(r)
  <2>1. /\ cleanups' \subseteq WithSession /\ UNCHANGED <<session, codeQueue, crashes>>
        /\ \A d \in Execs : d # r => agent'[d] = agent[d]
        /\ job[r].st \notin JobOver
    BY <1>9 DEF ProcessorEnds, Called, JobOver
  <2>2. CASE JobGoes(r, "completed") /\ UNCHANGED letterVars
    BY <1>1, <2>1, <2>2, JobGoesOn
  <2>3. CASE AttemptFails(r)
    BY <1>1, <2>1, <2>3, AttemptCounted
  <2>4. QED
    BY <1>9, <2>2, <2>3 DEF ProcessorEnds
<1>10. QED
  BY <1>2, <1>3, <1>4, <1>5, <1>6, <1>7, <1>8, <1>9 DEF WorkerStep

LEMMA CalledInductive ==
  ASSUME agent \in [Execs -> RunRecord], RunsSound, JobsSound, Called, [JobsNext]_jobsVars
  PROVE  Called'
<1>1. ASSUME NEW r \in Execs, RunSteps(r) \/ InlineBegins(r) PROVE Called'
  <2>1. /\ UNCHANGED <<job, codeQueue, session, crashes>>
        /\ cleanups' \subseteq WithSession
        /\ AgentStep(r) \/ ExecuteBegins(r)
    BY <1>1 DEF RunSteps, InlineBegins, queueVars, sessionVars, Called
  <2>2. QED
    BY <2>1, StaysBegun DEF Called
<1>2. ASSUME NEW r \in Execs, JobAdded(r) PROVE Called'
  <2>1. JobGoes(r, "waiting") /\ UNCHANGED <<agentVars, codeQueue, sessionVars, crashes>>
    BY <1>2 DEF JobAdded, JobGoes
  <2>2. job'[r].st = "waiting" /\ \A q \in Execs : q # r => job'[q] = job[q]
    BY <2>1 DEF JobGoes, JobsSound, JobRecord
  <2>3. QED
    BY <2>1, <2>2 DEF Called, agentVars, sessionVars
<1>3. ASSUME NEW r \in Execs,
             CodeRequest(r) \/ EnqueueFails(r) \/ InlineAnswers(r) \/ LeaseTimesOut(r)
      PROVE  Called'
  BY <1>3 DEF CodeRequest, EnqueueFails, InlineAnswers, LeaseTimesOut, queueVars, sessionVars,
              agentVars, Called
<1>4. CASE RetryWindowPasses \/ SessionRevoked \/ Logout \/ UNCHANGED jobsVars
  BY <1>4 DEF RetryWindowPasses, SessionRevoked, Logout, jobsVars, queueVars, sessionVars,
              agentVars, Called
<1>5. CASE CleanupTriggered
  <2>1. \A e \in Execs : agent[e].st # "idle" => agent'[e].st # "idle"
    BY <1>5 DEF CleanupTriggered, AbortAll, RunRecord
  <2>2. QED
    BY <1>5, <2>1 DEF CleanupTriggered, queueVars, Called
<1>6. CASE Crash
  <2>1. \A r \in Execs : job'[r].st \notin InLane
    BY <1>6 DEF Crash, JobsSound, JobRecord, InLane
  <2>2. crashes' \in 0 .. MaxCrashes
    BY <1>6, JobsAssumption DEF Crash, Called
  <2>3. QED
    BY <1>6, <2>1, <2>2 DEF Crash, Called, InLane
<1>7. QED
  BY <1>1, <1>2, <1>3, <1>4, <1>5, <1>6, CalledWorker DEF JobsNext, HandlerStep

-----------------------------------------------------------------------------
(* Theorems. *)

LEMMA Initial == JobsInit => IInv
<1> SUFFICES ASSUME JobsInit PROVE IInv
  OBVIOUS
<1>1. agent \in [Execs -> RunRecord] /\ RunsSound
  BY SoundIdle DEF JobsInit, AgentInit, RunsSound, Sound
<1>2. /\ ListenersOfLiveRuns
      /\ stagedRuns \subseteq Execs /\ shown \subseteq Execs \X Execs
  BY DEF JobsInit, AgentInit, ListenersOfLiveRuns, Executing, Working, Idle
<1>3. NoJob \in JobRecord /\ SoundJob(NoJob) /\ NoJob.st = "none"
  BY JobsAssumption DEF NoJob, JobRecord, SoundJob, JobOver
<1>4. JobsSound
  BY <1>3 DEF JobsInit, JobsSound, DeadLettersFinal
<1>5. Brain = {} /\ Lane = {} /\ Inline = {}
  BY <1>3 DEF JobsInit, Brain, Lane, Inline, InLane
<1>6. activeProcessors = Cardinality(Brain) /\ Cardinality(Lane) <= Concurrency
  BY <1>5, FS_EmptySet, JobsAssumption DEF JobsInit
<1>7. Tracked
  <2>1. MaxRollbackRuns \in Nat /\ Cardinality(Execs) \in Nat /\ Cardinality(Inline) = 0
    BY <1>5, FS_EmptySet, Finite, JobsAssumption
  <2>2. QED
    BY <2>1 DEF JobsInit, Tracked, RequestStates
<1>8. Slots
  BY FS_EmptySet, GovernorAssumption DEF JobsInit, GovernorInit, Slots
<1>9. Called
  BY <1>3, JobsAssumption DEF JobsInit, Called
<1>10. QED
  BY <1>1, <1>2, <1>4, <1>6, <1>7, <1>8, <1>9 DEF IInv

LEMMA Inductive == IInv /\ [JobsNext]_jobsVars => IInv'
<1> SUFFICES ASSUME IInv, [JobsNext]_jobsVars PROVE IInv'
  OBVIOUS
<1>1. RunsMove
  BY RunsOfStep
<1>2. (agent \in [Execs -> RunRecord])' /\ RunsSound' /\ ListenersOfLiveRuns'
  BY <1>1, SoundInductive, ListenersInductive DEF IInv
<1>3. (stagedRuns \subseteq Execs)' /\ (shown \subseteq Execs \X Execs)'
  BY <1>1, StagesLive DEF IInv
<1>4. JobsSound' /\ (activeProcessors = Cardinality(Brain))' /\ (Cardinality(Lane) <= Concurrency)'
  BY JobsInductive, PressureInductive, LaneBounded DEF IInv
<1>5. Tracked' /\ Slots' /\ Called'
  BY TrackerInductive, SlotsInductive, CalledInductive DEF IInv
<1>6. QED
  BY <1>2, <1>3, <1>4, <1>5 DEF IInv

LEMMA Invariant == JobsSpec => []IInv
BY Initial, Inductive, PTL DEF JobsSpec

\* The types: in particular the worker never holds more jobs at the brain than
\* the lane has places, no job is tried or started more often than it may be,
\* and the tracker of failed runs stays within the requests there are.
THEOREM JobsTypes == JobsSpec => []JobsTypeOK
<1>1. IInv => JobsTypeOK
  <2> SUFFICES ASSUME IInv PROVE JobsTypeOK
    OBVIOUS
  <2>1. AgentTypeOK
    BY DEF IInv, RunsSound, Sound, RunRecord, AgentTypeOK, ListenersOfLiveRuns
  <2>2. activeProcessors \in 0 .. Concurrency
    BY Finite, JobsAssumption DEF IInv
  <2>3. rollbackTracker \in 0 .. (MaxRollbackRuns + Cardinality(Execs))
    BY Finite, JobsAssumption DEF IInv, Tracked
  <2>4. QED
    BY <2>1, <2>2, <2>3 DEF IInv, JobsTypeOK, JobsSound, JobRecord, Tracked, RequestStates, Slots,
       Called
<1>2. QED
  BY <1>1, Invariant, PTL

\* No path through retries, the rollback, aborts and crashes lets a run ask the
\* model for more drafts than its effort level pays for, and every draft but
\* the first is told what went wrong.
THEOREM DraftsPaid == JobsSpec => []DraftBudget
<1>1. IInv => DraftBudget
  <2> SUFFICES ASSUME IInv, NEW e \in Execs
               PROVE  /\ agent[e].drafts <= (retryLimitForEffort(EffortOf[e]) + 1)
                                              * (maxRollbacks(EffortOf[e]) + 1)
                      /\ agent[e].drafts > 1 => agent[e].sandboxError
    BY DEF DraftBudget
  <2> DEFINE limit == retryLimitForEffort(EffortOf[e])
             most == maxRollbacks(EffortOf[e])
  <2>1. Sound(e, agent[e])
    BY DEF IInv, RunsSound
  <2>2. /\ limit \in Nat /\ most \in 0 .. 1
        /\ agent[e].drafts \in Nat /\ agent[e].retries \in Nat /\ agent[e].rollbacks \in 0 .. 1
        /\ agent[e].retries <= limit /\ agent[e].rollbacks <= most
        /\ agent[e].rollbacks = 0 => agent[e].drafts <= agent[e].retries + 1
        /\ agent[e].drafts <= agent[e].retries + limit + 2
    BY <2>1, Limits DEF Sound, RunRecord
  <2>3. agent[e].drafts > 1 => agent[e].sandboxError
    BY <2>1 DEF Sound
  <2> HIDE DEF limit, most
  <2>4. CASE most = 0
    <3>1. (limit + 1) * (most + 1) = limit + 1
      BY <2>2, <2>4
    <3>2. agent[e].drafts <= limit + 1
      BY <2>2, <2>4
    <3>3. QED
      BY <2>3, <3>1, <3>2 DEF limit, most
  <2>5. CASE most = 1
    <3>1. (limit + 1) * (most + 1) = 2 * limit + 2
      BY <2>2, <2>5
    <3>2. agent[e].drafts <= 2 * limit + 2
      BY <2>2
    <3>3. QED
      BY <2>3, <3>1, <3>2 DEF limit, most
  <2>6. QED
    BY <2>2, <2>4, <2>5
<1>2. QED
  BY <1>1, Invariant, PTL

\* A run listens to the staging container exactly while it executes, through
\* aborts, failed attempts, redelivered jobs and crashes.
THEOREM ListenersKept == JobsSpec => []ListenersOfLiveRuns
<1>1. IInv => ListenersOfLiveRuns
  BY DEF IInv
<1>2. QED
  BY <1>1, Invariant, PTL

\* The counter that backpressure reads never drifts from the jobs it counts,
\* whatever number of jobs pass its check before the first of them raises it.
THEOREM PressureKept == JobsSpec => []PressureBalanced
<1>1. IInv => PressureBalanced
  BY DEF IInv, PressureBalanced, Brain
<1>2. QED
  BY <1>1, Invariant, PTL

\* A job that used up its attempts is filed, and a filed job never runs again.
THEOREM DeadLettersKept == JobsSpec => []DeadLettersFinal
<1>1. IInv => DeadLettersFinal
  BY DEF IInv, JobsSound
<1>2. QED
  BY <1>1, Invariant, PTL

\* A user never holds more run slots than MAX_CONCURRENT_RUNS, and the worker
\* never more jobs than the lane's concurrency.
THEOREM WithinLimits ==
  JobsSpec => [](/\ Cardinality(active) <= MaxConcurrentRuns
                 /\ Cardinality({r \in Execs : job[r].st \in InLane}) <= Concurrency)
<1>1. IInv => /\ Cardinality(active) <= MaxConcurrentRuns
              /\ Cardinality({r \in Execs : job[r].st \in InLane}) <= Concurrency
  BY DEF IInv, Slots, Lane
<1>2. QED
  BY <1>1, Invariant, PTL

\* Nothing stages a file but a run that was sandboxing, with its listener on, the
\* step before; and its own client is told.
THEOREM LiveRunsStage == JobsSpec => OnlyLiveRunsStage
<1>1. IInv /\ [JobsNext]_jobsVars =>
        [\A e \in Execs : e \in stagedRuns' \ stagedRuns =>
           agent[e].st = "sandboxing" /\ e \in listeners /\ <<e, e>> \in shown']_jobsVars
  BY RunsOfStep, StagesLive DEF IInv
<1>2. QED
  BY <1>1, Invariant, PTL DEF JobsSpec, OnlyLiveRunsStage
=============================================================================
