------------------------------ MODULE AgentLoop ------------------------------
(***************************************************************************)
(* The prompts one orchestrator handles (orchestrator/index.js,            *)
(* handlePrompt), each as a single expert loop or as a swarm of them under *)
(* Promise.all.                                                            *)
(*                                                                         *)
(* The experts belong to the orchestrator, not to the prompt: a loop puts  *)
(* its execution context on its expert, and on the reviewer during a       *)
(* review, and puts back what it found when it leaves.  Calls to a model   *)
(* and to tools are awaited; between any two steps of a loop the others    *)
(* may move.  A member of a swarm is named by its run and its domain.      *)
(***************************************************************************)
EXTENDS Integers, Sequences, FiniteSets, SequencesExt

CONSTANTS
  Runs,      \* prompts in one session
  Domains,   \* domains the router knows; each has an expert
  MaxIters,  \* itersMap[effortLevel] for standard and deep; a quick loop ends in its first
  MaxLoops,  \* bound of the model: loops active when a run has started
  NoLoop     \* the empty execution context an expert is built with

ASSUME LoopAssumption ==
  /\ {"code", "security"} \subseteq Domains
  /\ "reviewer" \notin Domains
  /\ MaxIters \in Nat \ {0}
  /\ MaxLoops \in Nat
  /\ NoLoop \notin Runs \X Domains

VARIABLES
  run,      \* run -> state of its handlePrompt
  quick,    \* run -> effortLevel = "quick"
  swarm,    \* run -> domains of its loops
  pc,       \* loop -> what it awaits
  iter,     \* loop -> currentIter of its innermost frame
  frames,   \* loop -> calls of runExpertLoop: expert and the context it found there
  found,    \* loop -> previousReviewerContext
  built,    \* history: loop -> its last build passed
  context,  \* expert -> executionContext: the loop that set it, or NoLoop
  overlap   \* history: some loop found its expert, or the reviewer, taken

vars == <<run, quick, swarm, pc, iter, frames, found, built, context, overlap>>

Loops == Runs \X Domains
Experts == Domains \cup {"reviewer"}
Holder == Loops \cup {NoLoop}

Working == {"executing", "rerouting", "reviewing", "verifying"}
Leaving == {"completing", "failing"}
Over == {"returned", "threw"}

Expert(l) == Last(frames[l]).expert
Members(r) == {r} \X swarm[r]
Active(l) == pc[l] \in Working \cup Leaving

TypeOK ==
  /\ run \in [Runs -> {"new", "looping", "completed", "failed"}]
  /\ quick \in [Runs -> BOOLEAN]
  /\ swarm \in [Runs -> SUBSET Domains]
  /\ pc \in [Loops -> {"new"} \cup Working \cup Leaving \cup Over]
  /\ iter \in [Loops -> 0 .. MaxIters]
  /\ frames \in [Loops -> Seq([expert : Domains, found : Holder])]
  /\ \A l \in Loops : Active(l) <=> frames[l] # <<>>
  /\ found \in [Loops -> Holder]
  /\ built \in [Loops -> BOOLEAN]
  /\ context \in [Experts -> Holder]
  /\ overlap \in BOOLEAN

Init ==
  /\ run = [r \in Runs |-> "new"]
  /\ quick = [r \in Runs |-> FALSE]
  /\ swarm = [r \in Runs |-> {}]
  /\ pc = [l \in Loops |-> "new"]
  /\ iter = [l \in Loops |-> 0]
  /\ frames = [l \in Loops |-> <<>>]
  /\ found = [l \in Loops |-> NoLoop]
  /\ built = [l \in Loops |-> FALSE]
  /\ context = [e \in Experts |-> NoLoop]
  /\ overlap = FALSE
-----------------------------------------------------------------------------
(* handlePrompt. *)

\* The guards, the routing and the confirmation pass, and the loops of the
\* domains begin together.
StartRun(r, ds) ==
  /\ run[r] = "new"
  /\ Cardinality({l \in Loops : Active(l)} ) + Cardinality(ds) <= MaxLoops
  /\ \E effort \in BOOLEAN : quick' = [quick EXCEPT ![r] = effort]
  /\ run' = [run EXCEPT ![r] = "looping"]
  /\ swarm' = [swarm EXCEPT ![r] = ds]
  /\ LET begun == {r} \X ds IN
       /\ pc' = [l \in Loops |-> IF l \in begun THEN "executing" ELSE pc[l]]
       /\ iter' = [l \in Loops |-> IF l \in begun THEN 1 ELSE iter[l]]
       /\ frames' = [l \in Loops |->
            IF l \in begun THEN <<[expert |-> l[2], found |-> context[l[2]]]>>
                           ELSE frames[l]]
  /\ context' = [e \in Experts |-> IF e \in ds THEN <<r, e>> ELSE context[e]]
  /\ overlap' = (overlap \/ \E e \in ds : context[e] # NoLoop)
  /\ UNCHANGED <<found, built>>

\* One of them does not.
RefuseRun(r) ==
  /\ run[r] = "new"
  /\ run' = [run EXCEPT ![r] = "failed"]
  /\ UNCHANGED <<quick, swarm, pc, iter, frames, found, built, context, overlap>>

\* Mutant: the first loop to return completes the run
CompleteRun_First(r) ==
  /\ run[r] = "looping"
  /\ \E l \in Members(r) : pc[l] = "returned"
  /\ run' = [run EXCEPT ![r] = "completed"]
  /\ UNCHANGED <<quick, swarm, pc, iter, frames, found, built, context, overlap>>

\* All loops returned.
CompleteRun(r) ==
  /\ run[r] = "looping"
  /\ \A l \in Members(r) : pc[l] = "returned"
  /\ run' = [run EXCEPT ![r] = "completed"]
  /\ UNCHANGED <<quick, swarm, pc, iter, frames, found, built, context, overlap>>

\* One loop threw: handlePrompt throws, and leaves the others to themselves.
FailRun(r) ==
  /\ run[r] = "looping"
  /\ \E l \in Members(r) : pc[l] = "threw"
  /\ run' = [run EXCEPT ![r] = "failed"]
  /\ UNCHANGED <<quick, swarm, pc, iter, frames, found, built, context, overlap>>
-----------------------------------------------------------------------------
(* runExpertLoop. *)

Go(l, ph) == pc' = [pc EXCEPT ![l] = ph]

\* The loop awaits the record of its outcome, then leaves its frame.
Complete(l) == Go(l, "completing") /\ UNCHANGED <<iter, found, context, overlap>>

Verify(l) == Go(l, "verifying") /\ UNCHANGED <<iter, found, context, overlap>>

\* Mutant: the limit is passed by one
NextIteration_OneMore(l) ==
  \/ iter[l] <= MaxIters /\ iter' = [iter EXCEPT ![l] = @ + 1] /\ Go(l, "executing")
  \/ iter[l] > MaxIters /\ UNCHANGED iter /\ Go(l, "completing")

\* continue, or the end of the loop whatever its last iteration left behind
NextIteration(l) ==
  \/ iter[l] < MaxIters /\ iter' = [iter EXCEPT ![l] = @ + 1] /\ Go(l, "executing")
  \/ iter[l] >= MaxIters /\ UNCHANGED iter /\ Go(l, "completing")

Review(l) ==
  /\ Go(l, "reviewing")
  /\ found' = [found EXCEPT ![l] = context["reviewer"]]
  /\ context' = [context EXCEPT !["reviewer"] = l]
  /\ overlap' = (overlap \/ context["reviewer"] # NoLoop)
  /\ UNCHANGED iter

\* expert.execute returns.  The security gate rejects any answer that is not
\* empty; after that, tool calls are reviewed and the build verified.
ExecuteReturns(l) ==
  /\ pc[l] = "executing"
  /\ \/ /\ Expert(l) = "security"
        /\ Go(l, "rerouting")
        /\ UNCHANGED <<iter, found, context, overlap>>
     \/ quick[l[1]] /\ Complete(l)
     \/ ~quick[l[1]] /\ Review(l)
     \/ ~quick[l[1]] /\ Verify(l)
  /\ UNCHANGED <<run, quick, swarm, frames, built>>

\* An await of the loop rejects.
Throws(l) ==
  /\ pc[l] \in {"executing", "rerouting"}
  /\ Go(l, "failing")
  /\ UNCHANGED <<run, quick, swarm, iter, frames, found, built, context, overlap>>

\* Mutant: the rejected answer goes to the security expert again
Reroute_ToSecurity(l) ==
  /\ pc[l] = "rerouting"
  /\ Go(l, "executing")
  /\ iter' = [iter EXCEPT ![l] = 1]
  /\ UNCHANGED <<run, quick, swarm, frames, found, built, context, overlap>>

\* A rejected answer: the loop of the code expert runs inside this one.
Reroute(l) ==
  /\ pc[l] = "rerouting"
  /\ Go(l, "executing")
  /\ iter' = [iter EXCEPT ![l] = 1]
  /\ frames' = [frames EXCEPT ![l] = Append(@, [expert |-> "code", found |-> context["code"]])]
  /\ context' = [context EXCEPT !["code"] = l]
  /\ overlap' = (overlap \/ context["code"] # NoLoop)
  /\ UNCHANGED <<run, quick, swarm, found, built>>

\* The reviewer answers or throws; its context is put back first.
ReviewEnds(l) ==
  /\ pc[l] = "reviewing"
  /\ found' = [found EXCEPT ![l] = NoLoop]
  /\ context' = [context EXCEPT !["reviewer"] = found[l]]
  /\ \/ Go(l, "verifying") /\ UNCHANGED iter
     \/ NextIteration(l)
     \/ Go(l, "failing") /\ UNCHANGED iter
  /\ UNCHANGED <<run, quick, swarm, frames, built, overlap>>

\* The build passes, and the loop ends; or it fails, or the tool call rejects,
\* which is one more reason for another iteration
VerifyEnds(l) ==
  /\ pc[l] = "verifying"
  /\ \/ /\ built' = [built EXCEPT ![l] = TRUE]
        /\ Go(l, "completing")
        /\ UNCHANGED iter
     \/ UNCHANGED built /\ NextIteration(l)
  /\ UNCHANGED <<run, quick, swarm, frames, found, context, overlap>>

\* Mutant: a loop that failed leaves its context on the expert
Leave_OnlyOnSuccess(l) ==
  /\ pc[l] \in Leaving
  /\ context' = IF pc[l] = "failing" THEN context
                ELSE [context EXCEPT ![Expert(l)] = Last(frames[l]).found]
  /\ frames' = [frames EXCEPT ![l] = Front(@)]
  /\ \/ Len(frames[l]) > 1 /\ UNCHANGED <<pc, iter>>
     \/ /\ Len(frames[l]) = 1
        /\ Go(l, IF pc[l] = "completing" THEN "returned" ELSE "threw")
        /\ iter' = [iter EXCEPT ![l] = 0]
  /\ UNCHANGED <<run, quick, swarm, found, built, overlap>>

\* The finally block of the innermost frame
Leave(l) ==
  /\ pc[l] \in Leaving
  /\ context' = [context EXCEPT ![Expert(l)] = Last(frames[l]).found]
  /\ frames' = [frames EXCEPT ![l] = Front(@)]
  /\ \/ Len(frames[l]) > 1 /\ UNCHANGED <<pc, iter>>
     \/ /\ Len(frames[l]) = 1
        /\ Go(l, IF pc[l] = "completing" THEN "returned" ELSE "threw")
        /\ iter' = [iter EXCEPT ![l] = 0]
  /\ UNCHANGED <<run, quick, swarm, found, built, overlap>>

LoopStep(l) ==
  \/ ExecuteReturns(l)
  \/ Throws(l)
  \/ Reroute(l)
  \/ ReviewEnds(l)
  \/ VerifyEnds(l)
  \/ Leave(l)

RunEnds(r) == CompleteRun(r) \/ FailRun(r)

Next ==
  \/ \E r \in Runs : RefuseRun(r) \/ RunEnds(r)
  \/ \E r \in Runs, ds \in (SUBSET Domains) \ {{}} : StartRun(r, ds)
  \/ \E l \in Loops : LoopStep(l)

\* While something is awaited, some model, tool or record answers or fails.  No
\* loop needs a fairness of its own: each takes finitely many steps.
Fairness == WF_vars((\E l \in Loops : LoopStep(l)) \/ (\E r \in Runs : RunEnds(r)))

Spec == Init /\ [][Next]_vars /\ Fairness
-----------------------------------------------------------------------------
(* Properties. *)

\* A run is reported completed only when every expert of its swarm returned:
\* nothing of it runs on, and no failure is swallowed.  Only a failed run can
\* leave loops behind.
CompletedInFull ==
  \A r \in Runs : run[r] = "completed" => \A l \in Members(r) : pc[l] = "returned"

\* While no two loops take the same expert, the calls of a loop are made, billed
\* and audited in its own name, and an expert nobody uses carries no context.
\* Overlapping loops restore in the order they end, not in the reverse of the
\* order in which they began.
OwnContext ==
  ~overlap =>
    /\ \A l \in Loops :
         /\ Active(l) => context[Expert(l)] = l
         /\ pc[l] = "reviewing" => context["reviewer"] = l
    /\ \A e \in Experts : context[e] # NoLoop => Active(context[e])

\* Every run ends, with the reroute of the security gate, the reviews and the
\* repairs that may repeat.
EveryRunEnds == \A r \in Runs : (run[r] = "looping") ~> (run[r] \in {"completed", "failed"})

\* The plan handlePrompt writes for each run: "Verify with the project build
\* command and repair failures before completion."
VerifiedOnCompletion ==
  \A r \in Runs :
    run[r] = "completed" /\ ~quick[r] => \A l \in Members(r) : built[l]
=============================================================================
