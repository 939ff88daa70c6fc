---------------------------- MODULE DagExecution ----------------------------
(***************************************************************************)
(* One task run by the state machine of orchestrator/state-machine.js, with *)
(* its Git checkpoints and its rollbacks.  The machine takes its phases as *)
(* callbacks: StateMachineTaskManager supplies those of ManagerDeps and a  *)
(* graph of a single node; a caller of createAgentMachine may supply all   *)
(* of them and register nodes with parents.  The phases are external: each *)
(* succeeds, refuses or throws.                                            *)
(***************************************************************************)
EXTENDS Naturals, Sequences

CONSTANTS
  DagNodes,
  Root,            \* the node without a parent, which is that of all others
  MaxWork          \* bound of the model: changes of the work tree

ASSUME DagAssumption == Root \in DagNodes /\ MaxWork \in Nat

VARIABLES
  dag,             \* the state of the machine, and the callbacks it was given
  node,            \* the current node
  nodes,           \* node -> its state, its attempts, its checkpoint
  branch,          \* currentBranch, the path of nodes
  rollbacks,       \* rollbackCount
  workTree,        \* the version of the work tree
  history          \* executionHistory

dagVars == <<dag, node, nodes, branch, rollbacks, workTree, history>>

MaxAttempts == 3
MaxRollbacks == 5
NoCheckpoint == MaxWork + 1
Phases == {"execute", "verify", "debate", "rollback", "merge", "audit", "sandbox", "intent"}
ManagerDeps == {"execute", "verify", "debate", "rollback"}
DagFinal == {"complete", "failed", "erred"}
Parent(n) == IF n = Root THEN {} ELSE {Root}

ExecutionNode == [state |-> "pending", attempts |-> 0, checkpoint |-> NoCheckpoint]

\* The task manager starts with the root; another caller may start with a
\* child, whose parent is registered and has the checkpoint of its own run.
DagInit ==
  /\ \/ dag = [at |-> "idle", deps |-> ManagerDeps] /\ node = Root
     \/ dag = [at |-> "idle", deps |-> Phases] /\ node \in DagNodes
  /\ nodes = [n \in DagNodes |-> IF n = Root /\ node /= Root
                THEN [state |-> "success", attempts |-> 1, checkpoint |-> 0]
                ELSE ExecutionNode]
  /\ branch = IF node = Root THEN <<>> ELSE <<Root>>
  /\ rollbacks = 0
  /\ workTree = 0
  /\ history = {}

Enters(at) ==
  /\ dag' = [dag EXCEPT !.at = at]
  /\ history' = IF at = "erred" THEN history ELSE history \cup {at}
  /\ rollbacks' = IF at = "rollback" THEN rollbacks + 1 ELSE rollbacks

Running(at) == dag.at = at
Supplied(phase) == phase \in dag.deps

\* Work that a tool or a command does on the files; a tool that writes files is
\* refused under the task manager, whose wrapper reads an unbound name.
Changes == workTree' \in workTree..MaxWork

-----------------------------------------------------------------------------
\* executeTask: the checkpoint of the first node, then START.
executeTask ==
  /\ Running("idle")
  /\ \/ /\ nodes' = [nodes EXCEPT ![node].checkpoint = workTree, ![node].state = "running"]
        /\ branch' = Append(branch, node)
        /\ Enters("executing")
     \/ Enters("erred") /\ UNCHANGED <<nodes, branch>>
  /\ UNCHANGED <<node, workTree>>

executing ==
  /\ Running("executing")
  /\ Changes
  /\ \E ok \in BOOLEAN :
       /\ nodes' = [nodes EXCEPT ![node].state = IF ok THEN "success" ELSE "failed"]
       /\ Enters(IF ok THEN "verifying" ELSE "failed")
  /\ UNCHANGED <<node, branch>>

\* A refusal is worth another execution as long as the node has attempts left.
Retries(n, attempts) ==
  IF attempts >= MaxAttempts
    THEN Enters("rollback") /\ nodes' = [nodes EXCEPT ![n].attempts = attempts]
    ELSE /\ Enters("executing")
         /\ nodes' = [nodes EXCEPT ![n].attempts = attempts, ![n].state = "running"]

\* The build, whose failure to run is a failed verification; a callback of
\* another caller may throw.
verifying ==
  /\ Running("verifying")
  /\ \/ /\ Enters("debating")
        /\ nodes' = [nodes EXCEPT ![node].attempts = @ + 1]
     \/ Retries(node, nodes[node].attempts + 1)
     \/ /\ dag.deps = Phases
        /\ Enters("failed")
        /\ nodes' = [nodes EXCEPT ![node].attempts = @ + 1]
  /\ UNCHANGED <<node, branch, workTree>>

\* The state has no onError: a review that throws stops the actor.
debating ==
  /\ Running("debating")
  /\ \/ Enters("merging") /\ UNCHANGED nodes
     \/ Retries(node, nodes[node].attempts)
     \/ Enters("erred") /\ UNCHANGED nodes
  /\ UNCHANGED <<node, branch, workTree>>

merging ==
  /\ Running("merging")
  /\ \/ Supplied("merge") /\ Enters("securityAuditing")
     \/ Enters("failed")
  /\ UNCHANGED <<node, nodes, branch, workTree>>

securityAuditing ==
  /\ Running("securityAuditing")
  /\ Enters("executingSandbox") \/ Enters("failed")
  /\ UNCHANGED <<node, nodes, branch, workTree>>

executingSandbox ==
  /\ Running("executingSandbox")
  /\ Changes
  /\ Enters("intentValidating") \/ Enters("failed")
  /\ UNCHANGED <<node, nodes, branch>>

intentValidating ==
  /\ Running("intentValidating")
  /\ Enters("complete") \/ Enters("rollback")
  /\ UNCHANGED <<node, nodes, branch, workTree>>

-----------------------------------------------------------------------------
\* rollback refuses a node that has attempts left, and one without a parent.
Refused(n) ==
  /\ nodes[n].attempts < MaxAttempts \/ Parent(n) = {}
  /\ nodes' = IF nodes[n].attempts < MaxAttempts THEN nodes
              ELSE [nodes EXCEPT ![n].state = "failed"]
  /\ Enters("failed")
  /\ UNCHANGED <<node, branch, workTree>>

\* The branch as far as p, when p is on it.
BranchTo(p) ==
  LET places == {i \in 1..Len(branch) : branch[i] = p} IN
  IF places = {} THEN branch
  ELSE SubSeq(branch, 1, CHOOSE i \in places : \A j \in places : i <= j)

\* restoreCheckpoint: git reset --hard.
Restored(n, p) ==
  /\ workTree' = IF nodes[p].checkpoint = NoCheckpoint THEN workTree ELSE nodes[p].checkpoint
  /\ branch' = BranchTo(p)
  /\ IF rollbacks >= MaxRollbacks
       THEN /\ Enters("failed")
            /\ nodes' = [nodes EXCEPT ![n].state = "failed"]
            /\ UNCHANGED node
       ELSE /\ Enters("executing")
            /\ nodes' = [nodes EXCEPT ![n].state = "failed", ![p].state = "running"]
            /\ node' = p

ResetFails(n) ==
  /\ nodes' = [nodes EXCEPT ![n].state = "failed"]
  /\ Enters("erred")
  /\ UNCHANGED <<node, branch, workTree>>

rollback ==
  /\ Running("rollback")
  /\ \/ Refused(node)
     \/ /\ nodes[node].attempts >= MaxAttempts
        /\ \E p \in Parent(node) : Restored(node, p) \/ ResetFails(node)

DagStep ==
  \/ executeTask \/ executing \/ verifying \/ debating \/ rollback
  \/ merging \/ securityAuditing \/ executingSandbox \/ intentValidating

DagSpec == DagInit /\ [][DagStep]_dagVars /\ WF_dagVars(DagStep)

-----------------------------------------------------------------------------
DagTypeOK ==
  /\ dag \in [at : {"idle", "executing", "verifying", "debating", "rollback", "merging",
       "securityAuditing", "executingSandbox", "intentValidating"} \cup DagFinal,
       deps : {ManagerDeps, Phases}]
  /\ node \in DagNodes
  /\ nodes \in [DagNodes -> [state : {"pending", "running", "success", "failed"},
       attempts : 0..MaxAttempts, checkpoint : 0..NoCheckpoint]]
  /\ branch \in Seq(DagNodes) /\ Len(branch) <= 2
  /\ rollbacks \in 0..MaxRollbacks
  /\ workTree \in 0..MaxWork
  /\ history \subseteq {"executing", "verifying", "debating", "rollback", "merging",
       "securityAuditing", "executingSandbox", "intentValidating", "complete", "failed"}

\* A task ends however often its verification, its review or its intent check
\* refuses it.
DagIsOver == dag.at \in DagFinal
DagEnds == <>DagIsOver
=============================================================================
