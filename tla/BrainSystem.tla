---------------------------- MODULE BrainSystem ----------------------------
(***************************************************************************)
(* The brain system (orchestrator/brain-system.js): a prompt goes through  *)
(* its stages on the low-edit route, on the high-feature route, or on the  *)
(* second after the first, whose candidate was refused.  The high-feature  *)
(* route plans sync tasks, which run one after the other and leave a       *)
(* ground truth, and tasks that run in parallel on it                      *)
(* (orchestrator/worker-orchestrator.js, agents/lead-architect.js).        *)
(*                                                                         *)
(* The verdict on the sandbox is not read: only the validator decides, and *)
(* the sandbox runs the files of the workspace, not the candidate.  The    *)
(* sandbox and the models are choices here.                                *)
(***************************************************************************)
EXTENDS Naturals, Sequences, FiniteSets

CONSTANTS
  SyncTasks,       \* bound: number of tasks the planner marks DB
  ParallelTasks    \* the others of the planner

\* The planner's matrix has a sync task if it has none of its own.
ASSUME BrainAssumption == SyncTasks \in Nat \ {0}

VARIABLES
  brain,       \* the run: stage, route, whether it is the fallback of the other
  candidate,   \* outputs made: 0, 1 on the first route, 2 on the second
  validated,   \* candidates the validator has seen, with its verdict
  ledger,      \* failures recorded
  syncDone,    \* sync tasks done, in order
  worker,      \* parallel task -> new, asked, done, failed
  prompted     \* parallel task -> sync outputs in its prompt

brainVars == <<brain, candidate, validated, ledger, syncDone, worker, prompted>>

BrainInit ==
  /\ brain = [stage |-> "triage", route |-> "none", fallback |-> FALSE]
  /\ candidate = 0
  /\ validated = {}
  /\ ledger = 0
  /\ syncDone = 0
  /\ worker = [w \in ParallelTasks |-> "new"]
  /\ prompted = [w \in ParallelTasks |-> 0]

To(stage) == brain' = [brain EXCEPT !.stage = stage]

BrainOver == {"rejected", "thrown", "completed", "failed"}

-----------------------------------------------------------------------------
\* checkSecurity, assertPromptSafe and the triage: whatever goes wrong rejects
\* the prompt.
Triage ==
  /\ brain.stage = "triage"
  /\ To("preFlight") \/ To("rejected")
  /\ UNCHANGED <<candidate, validated, ledger, syncDone, worker, prompted>>

StaticAnalysis ==
  /\ brain.stage = "preFlight"
  /\ To("compress")
  /\ UNCHANGED <<candidate, validated, ledger, syncDone, worker, prompted>>

\* The route: the words of the prompt, the triage, its intent, or more than
\* five files.
ContextCompression ==
  /\ brain.stage = "compress"
  /\ \/ brain' = [brain EXCEPT !.stage = "plan", !.route = "low"]
     \/ brain' = [brain EXCEPT !.stage = "architect", !.route = "high"]
  /\ UNCHANGED <<candidate, validated, ledger, syncDone, worker, prompted>>

\* An answer of the planner that does not parse is an empty plan.
PlanSequentialFix ==
  /\ brain.stage = "plan"
  /\ To("code")
  /\ UNCHANGED <<candidate, validated, ledger, syncDone, worker, prompted>>

RunSequential ==
  /\ brain.stage = "code"
  /\ candidate' = candidate + 1
  /\ To("sandbox")
  /\ UNCHANGED <<validated, ledger, syncDone, worker, prompted>>

\* buildParallelMatrix: DB tasks, one if there are none, before all others.  Its
\* own fallback names a logger it does not import, so what it cannot parse
\* throws.
BuildParallelMatrix ==
  /\ brain.stage = "architect"
  /\ To("sync")
  /\ UNCHANGED <<candidate, validated, ledger, syncDone, worker, prompted>>

\* A sync task, whose output must parse.
RunSyncTask ==
  /\ brain.stage = "sync"
  /\ syncDone' = syncDone + 1
  /\ IF syncDone' = SyncTasks
       THEN To("parallel")
       ELSE UNCHANGED brain
  /\ UNCHANGED <<candidate, validated, ledger, worker, prompted>>

\* All parallel tasks are asked in one go, with the ground truth so far.
AskWorkers ==
  /\ brain.stage = "parallel" /\ \A w \in ParallelTasks : worker[w] = "new"
  /\ worker' = [w \in ParallelTasks |-> "asked"]
  /\ prompted' = [w \in ParallelTasks |-> syncDone]
  /\ UNCHANGED <<brain, candidate, validated, ledger, syncDone>>

\* A worker goes on after another one failed and the run has thrown.
WorkerEnds(w) ==
  /\ worker[w] = "asked"
  /\ \/ worker' = [worker EXCEPT ![w] = "done"] /\ UNCHANGED brain
     \/ /\ worker' = [worker EXCEPT ![w] = "failed"]
        /\ IF brain.stage = "parallel" THEN To("thrown") ELSE UNCHANGED brain
  /\ UNCHANGED <<candidate, validated, ledger, syncDone, prompted>>

Merge ==
  /\ brain.stage = "parallel" /\ \A w \in ParallelTasks : worker[w] = "done"
  /\ candidate' = candidate + 1
  /\ To("sandbox")
  /\ UNCHANGED <<validated, ledger, syncDone, worker, prompted>>

RunSandbox ==
  /\ brain.stage = "sandbox"
  /\ To("validate")
  /\ UNCHANGED <<candidate, validated, ledger, syncDone, worker, prompted>>

\* validateCandidate; what does not parse is a refusal.
\* Mutant: the run goes on with the other route before the refusal is recorded
ValidateCandidate_SkipsLedger ==
  /\ brain.stage = "validate"
  /\ \E satisfied \in BOOLEAN :
       /\ validated' = validated \cup {[of |-> candidate, ok |-> satisfied]}
       /\ brain' = IF satisfied THEN [brain EXCEPT !.stage = "completed"]
                   ELSE IF brain.route = "low"
                   THEN [stage |-> "architect", route |-> "high", fallback |-> TRUE]
                   ELSE [brain EXCEPT !.stage = "refused"]
  /\ UNCHANGED <<candidate, ledger, syncDone, worker, prompted>>

ValidateCandidate ==
  /\ brain.stage = "validate"
  /\ \E satisfied \in BOOLEAN :
       /\ validated' = validated \cup {[of |-> candidate, ok |-> satisfied]}
       /\ To(IF satisfied THEN "completed" ELSE "refused")
  /\ UNCHANGED <<candidate, ledger, syncDone, worker, prompted>>

\* recordFailure swallows its own errors; then the other route, once.
RecordFailure ==
  /\ brain.stage = "refused"
  /\ ledger' = ledger + 1
  /\ brain' = IF brain.route = "low"
                THEN [stage |-> "architect", route |-> "high", fallback |-> TRUE]
                ELSE [brain EXCEPT !.stage = "failed"]
  /\ UNCHANGED <<candidate, validated, syncDone, worker, prompted>>

\* Any other await of the run may reject, and nothing catches it.
Throws ==
  /\ brain.stage \in {"preFlight", "compress", "plan", "code", "architect", "sync",
                      "parallel", "sandbox", "validate"}
  /\ brain.stage = "parallel" => \A w \in ParallelTasks : worker[w] = "done"
  /\ To("thrown")
  /\ UNCHANGED <<candidate, validated, ledger, syncDone, worker, prompted>>

BrainStep ==
  \/ Triage \/ StaticAnalysis \/ ContextCompression
  \/ PlanSequentialFix \/ RunSequential
  \/ BuildParallelMatrix \/ RunSyncTask \/ AskWorkers \/ Merge
  \/ RunSandbox \/ ValidateCandidate \/ RecordFailure \/ Throws
  \/ \E w \in ParallelTasks : WorkerEnds(w)

BrainSpec == BrainInit /\ [][BrainStep]_brainVars /\ WF_brainVars(BrainStep)

-----------------------------------------------------------------------------
BrainTypeOK ==
  /\ brain.stage \in BrainOver \cup {"triage", "preFlight", "compress", "plan", "code", "architect",
                                "sync", "parallel", "sandbox", "validate", "refused"}
  /\ brain.route \in {"none", "low", "high"} /\ brain.fallback \in BOOLEAN
  /\ candidate \in 0..2
  /\ validated \subseteq [of : 1..2, ok : BOOLEAN]
  /\ ledger \in 0..2
  /\ syncDone \in 0..SyncTasks
  /\ worker \in [ParallelTasks -> {"new", "asked", "done", "failed"}]
  /\ prompted \in [ParallelTasks -> 0..SyncTasks]

\* A run completes with the candidate the validator accepted last, every refusal
\* is in the ledger when the other route begins, so that its planner could know
\* of it, and no worker builds before all sync tasks are done.
BrainInOrder ==
  /\ brain.stage = "completed" => [of |-> candidate, ok |-> TRUE] \in validated
  /\ brain.stage /= "refused" => ledger = Cardinality({v \in validated : ~v.ok})
  /\ \A w \in ParallelTasks : worker[w] /= "new" => prompted[w] = SyncTasks

\* A run ends, after at most two routes.
BrainIsOver == brain.stage \in BrainOver
BrainEnds == <>BrainIsOver
=============================================================================
