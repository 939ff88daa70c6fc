----------------------------- MODULE RunRecords -----------------------------
(***************************************************************************)
(* What is kept of a run (handlePrompt of orchestrator/index.js with       *)
(* run_store.js, rollout_recorder.js and db.js): a record in the database  *)
(* for the run and for every expert, and a rollout directory with a status *)
(* file.  Every write is best effort: a failure is swallowed.              *)
(*                                                                         *)
(* The expert the run was routed to writes into the record of the run      *)
(* itself.  When another expert of a swarm fails, the run ends while this  *)
(* one goes on, and its end is the last word in the record.                *)
(***************************************************************************)
EXTENDS Naturals, FiniteSets

CONSTANTS
  Primary,      \* the expert the run is routed to
  Peers         \* the other experts of a swarm

\* Names of experts are not names of records.
ASSUME PeersAssumption == {"run", "rollout"} \cap Peers = {}

SwarmExperts == {Primary} \cup Peers

VARIABLES
  run,          \* where handlePrompt is, and its outcome
  swarm,        \* the experts of this run
  expert,       \* expert -> idle, starting, working, completed, failed
  record,       \* database: status of the run and of every peer
  rollout,      \* the status file: none, planning, completed, failed
  unwritten,    \* history: records and files whose last write failed
  outlived      \* history: the primary expert wrote after another one had failed

recordVars == <<run, swarm, expert, record, rollout, unwritten, outlived>>

\* runIdentity: the primary expert has the identity of the run.
RecordOf(e) == IF e = Primary THEN "run" ELSE e
Records == {RecordOf(e) : e \in SwarmExperts}

\* handleWebSocket has stored the run before it calls handlePrompt.
RecordsInit ==
  /\ run = [at |-> "guarding", outcome |-> "none"]
  /\ swarm \in {{Primary} \cup p : p \in SUBSET Peers}
  /\ expert = [e \in SwarmExperts |-> "idle"]
  /\ record \in {[r \in Records |-> IF r = "run" THEN s ELSE "none"] : s \in {"running", "none"}}
  /\ rollout = "none"
  /\ unwritten = IF record["run"] = "none" THEN {"run"} ELSE {}
  /\ outlived = FALSE

\* persistRun and persistRunStatus: bestEffort.
Persist(r, status) ==
  \/ record' = [record EXCEPT ![r] = status] /\ unwritten' = unwritten \ {r}
  \/ record' = record /\ unwritten' = unwritten \cup {r}

\* updateStatus of an existing record only: an update finds no row otherwise.
PersistStatus(r, status) ==
  IF record[r] = "none" THEN UNCHANGED record /\ unwritten' = unwritten \cup {r}
  ELSE Persist(r, status)

RunGoes(at, outcome) == run' = [at |-> at, outcome |-> outcome]

\* The guards, the triage and the scan of the project; what they throw leaves
\* the record as it is.
Guarded ==
  /\ run.at = "guarding"
  /\ \/ RunGoes("over", "refused") /\ UNCHANGED <<record, unwritten>>
     \/ RunGoes("recording", "none") /\ Persist("run", "running")
  /\ UNCHANGED <<swarm, expert, rollout, outlived>>

\* The recorder is created if the audit mode asks for it and the disk lets it.
CreateRollout ==
  /\ run.at = "recording"
  /\ RunGoes("routing", "none")
  /\ rollout' \in {"none", "planning"}
  /\ PersistStatus("run", "running")
  /\ UNCHANGED <<swarm, expert, outlived>>

\* The router, the confirmation of expensive steps, and the record again.
Routed ==
  /\ run.at = "routing"
  /\ \/ RunGoes("failing", "failed") /\ UNCHANGED <<record, unwritten, expert>>
     \/ /\ RunGoes("working", "none")
        /\ Persist("run", "running")
        /\ expert' = [e \in SwarmExperts |-> IF e \in swarm THEN "starting" ELSE "idle"]
  /\ UNCHANGED <<swarm, rollout, outlived>>

IsLate(e) == e = Primary /\ run.at /= "working"

ExpertStarts(e) ==
  /\ expert[e] = "starting"
  /\ expert' = [expert EXCEPT ![e] = "working"]
  /\ Persist(RecordOf(e), "running")
  /\ outlived' = (outlived \/ IsLate(e))
  /\ UNCHANGED <<run, swarm, rollout>>

\* Promise.all: the first failure is the run's.
\* Mutant: a failed expert is skipped
ExpertEnds_Skipped(e) ==
  /\ expert[e] = "working"
  /\ \E outcome \in {"completed", "failed"} :
       /\ expert' = [expert EXCEPT ![e] = outcome]
       /\ PersistStatus(RecordOf(e), outcome)
  /\ run' = IF run.at = "working" /\ \A x \in swarm : expert'[x] \in {"completed", "failed"}
            THEN [at |-> "merging", outcome |-> "completed"] ELSE run
  /\ outlived' = (outlived \/ IsLate(e))
  /\ UNCHANGED <<swarm, rollout>>

ExpertEnds(e) ==
  /\ expert[e] = "working"
  /\ \E outcome \in {"completed", "failed"} :
       /\ expert' = [expert EXCEPT ![e] = outcome]
       /\ PersistStatus(RecordOf(e), outcome)
       /\ run' = IF run.at /= "working" THEN run
                 ELSE IF outcome = "failed" THEN [at |-> "failing", outcome |-> "failed"]
                 ELSE IF \A x \in swarm : expert'[x] = "completed"
                      THEN [at |-> "merging", outcome |-> "completed"] ELSE run
  /\ outlived' = (outlived \/ IsLate(e))
  /\ UNCHANGED <<swarm, rollout>>

\* Both ends: the status file, then the record.
UpdateStatus ==
  /\ run.at \in {"merging", "failing"}
  /\ RunGoes("ending", run.outcome)
  /\ \/ rollout' = (IF rollout = "none" THEN "none" ELSE run.outcome) /\ UNCHANGED unwritten
     \/ rollout /= "none" /\ UNCHANGED rollout /\ unwritten' = unwritten \cup {"rollout"}
  /\ UNCHANGED <<swarm, expert, record, outlived>>

HandlePromptEnds ==
  /\ run.at = "ending"
  /\ RunGoes("over", run.outcome)
  /\ PersistStatus("run", run.outcome)
  /\ UNCHANGED <<swarm, expert, rollout, outlived>>

RunProgress ==
  \/ Guarded \/ CreateRollout \/ Routed \/ UpdateStatus \/ HandlePromptEnds
  \/ \E e \in SwarmExperts : ExpertStarts(e) \/ ExpertEnds(e)

\* The process may stop; no start looks for what it left.
ProcessStops ==
  /\ run.at \notin {"over", "stopped"}
  /\ RunGoes("stopped", run.outcome)
  /\ expert' = [e \in SwarmExperts |-> "idle"]
  /\ UNCHANGED <<swarm, record, rollout, unwritten, outlived>>

RecordsNext == RunProgress \/ ProcessStops

-----------------------------------------------------------------------------
RecordsTypeOK ==
  /\ run.outcome \in {"none", "refused", "completed", "failed"}
  /\ Primary \in swarm /\ swarm \subseteq SwarmExperts
  /\ \A e \in SwarmExperts \ swarm : expert[e] = "idle"
  /\ \A r \in Records : record[r] \in {"none", "running", "completed", "failed"}
  /\ rollout \in {"none", "planning", "completed", "failed"}
  /\ unwritten \subseteq Records \cup {"rollout"} /\ outlived \in BOOLEAN

\* A run that is over has its end in the record and in the status file, and was
\* completed by all its experts, unless a write failed, its guards refused it,
\* or its primary expert went on after the failure of another one.
RecordsTellTheEnd ==
  (run.at = "over" /\ run.outcome /= "refused") =>
    /\ ("run" \in unwritten \/ outlived \/ record["run"] = run.outcome)
    /\ ("rollout" \in unwritten \/ rollout \in {"none", run.outcome})
    /\ (run.outcome = "completed" => \A e \in swarm : expert[e] = "completed")
    /\ \A e \in swarm \ {Primary} :
         (expert[e] \in {"completed", "failed"} /\ e \notin unwritten) => record[e] = expert[e]

RunIsOver == run.at \in {"over", "stopped"}
=============================================================================
