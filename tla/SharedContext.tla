---------------------------- MODULE SharedContext ----------------------------
(***************************************************************************)
(* The conversation the experts of one orchestrator share                  *)
(* (orchestrator/context.js, secure-memory.js, and the history of          *)
(* expert-base.js with utils/context-pruner.js).  Every expert is built    *)
(* with the store of the first context as its own history; compressing the *)
(* history replaces it by an array of the expert's.  Executions overlap:   *)
(* the members of a swarm, a prompt and a task, and what a failed swarm    *)
(* leaves running.                                                         *)
(*                                                                         *)
(* A turn is a prompt and its answer, named by its execution.              *)
(***************************************************************************)
EXTENDS Naturals, Sequences

CONSTANTS
  Executions,      \* calls of an expert's execute
  ContextExperts,
  HistoryLimit,    \* turns an expert may have before it compresses them
  RecentTurns,     \* turns the pruner keeps as they are
  Summary          \* the turn the pruner makes of the others

ASSUME ContextAssumption ==
  /\ {HistoryLimit, RecentTurns} \subseteq Nat \ {0}
  /\ Summary \notin Executions

VARIABLES
  store,      \* the history of the first context
  private,    \* expert -> its own array, once it has one
  execution,  \* execution -> its expert, where it is, the history it read
  current,    \* the orchestrator's context is still the first
  committed   \* history: the turns committed since the store last expired

contextVars == <<store, private, execution, current, committed>>

NoArray == "none"
ContextTurn == Executions \cup {Summary}

historyOf(e) == IF private[e].kind = NoArray THEN store ELSE private[e].turns
Executing(x, e, at) == execution[x].at = at /\ execution[x].expert = e
ExecutionGoes(x, at) == execution' = [execution EXCEPT ![x].at = at]

ContextInit ==
  /\ store = <<>>
  /\ private = [e \in ContextExperts |-> [kind |-> NoArray, turns |-> <<>>]]
  /\ \E expert \in [Executions -> ContextExperts] :
       execution = [x \in Executions |-> [at |-> "new", expert |-> expert[x], seen |-> <<>>]]
  /\ current = TRUE
  /\ committed = <<>>

-----------------------------------------------------------------------------
\* The setter of SharedContext.history: the store takes the turns of the array
\* and forgets its own.  Assigning the store to itself changes nothing.
setHistory(turns) == store' = turns

\* execute, as far as its first wait: the pruner, or a provider.
execute(x, e) ==
  /\ Executing(x, e, "new")
  /\ LET compresses == /\ Len(historyOf(e)) > HistoryLimit
                       /\ \A y \in Executions : ~Executing(y, e, "pruning")
     IN execution' = [execution EXCEPT ![x].at = IF compresses THEN "pruning" ELSE "asking",
                                       ![x].seen = historyOf(e)]
  /\ UNCHANGED <<store, private, current, committed>>

\* pruneSessionMemory: the turns as they were when they fit the budget; else
\* the recent ones, after a summary of the others unless it failed or had to go.
pruneSessionMemory(turns) ==
  LET recent == SubSeq(turns, Len(turns) - RecentTurns + 1, Len(turns)) IN
  {turns} \cup IF Len(turns) <= RecentTurns THEN {} ELSE {recent, <<Summary>> \o recent}

\* The expert has an array of its own from here on, compressed or not, and the
\* turns the store took while the pruner was at work are gone.
summarizeHistory(x, e) ==
  /\ Executing(x, e, "pruning")
  /\ \E turns \in pruneSessionMemory(execution[x].seen) :
       /\ private' = [private EXCEPT ![e] = [kind |-> "array", turns |-> turns]]
       /\ setHistory(turns)
       /\ execution' = [execution EXCEPT ![x].at = "asking", ![x].seen = turns]
  /\ UNCHANGED <<current, committed>>

\* Mutant: the turn is added to the history the execution began with
commitHistory_Stale(x, e) ==
  /\ Executing(x, e, "asking")
  /\ LET turns == Append(execution[x].seen, x) IN
       /\ private' = IF private[e].kind = NoArray THEN private
                     ELSE [private EXCEPT ![e].turns = turns]
       /\ setHistory(turns)
  /\ committed' = Append(committed, x)
  /\ ExecutionGoes(x, "done")
  /\ UNCHANGED current

\* commitHistory, when a provider has answered.
commitHistory(x, e) ==
  /\ Executing(x, e, "asking")
  /\ LET turns == Append(historyOf(e), x) IN
       /\ private' = IF private[e].kind = NoArray THEN private
                     ELSE [private EXCEPT ![e].turns = turns]
       /\ setHistory(turns)
  /\ committed' = Append(committed, x)
  /\ ExecutionGoes(x, "done")
  /\ UNCHANGED current

\* No provider answers: the prompt leaves no trace in the history.
ExecuteFails(x, e) ==
  /\ Executing(x, e, "asking")
  /\ ExecutionGoes(x, "done")
  /\ UNCHANGED <<store, private, current, committed>>

\* flushContext, at the end of a task: a new context for the orchestrator; the
\* experts are given it in a property they do not read.
flushContext ==
  /\ current
  /\ current' = FALSE
  /\ UNCHANGED <<store, private, execution, committed>>

\* purgeExpired: the setter has encrypted the turns anew at the last commit, so
\* that they expire together.  An array of an expert never expires.
purgeExpired ==
  /\ store /= <<>>
  /\ store' = <<>>
  /\ committed' = <<>>
  /\ UNCHANGED <<private, execution, current>>

ContextNext ==
  \/ \E x \in Executions, e \in ContextExperts :
       \/ execute(x, e) \/ summarizeHistory(x, e) \/ commitHistory(x, e) \/ ExecuteFails(x, e)
  \/ flushContext
  \/ purgeExpired

ContextSpec == ContextInit /\ [][ContextNext]_contextVars

-----------------------------------------------------------------------------
ContextTypeOK ==
  /\ store \in Seq(ContextTurn)
  /\ private \in [ContextExperts -> [kind : {NoArray, "array"}, turns : Seq(ContextTurn)]]
  /\ execution \in [Executions -> [at : {"new", "pruning", "asking", "done"},
                                   expert : ContextExperts, seen : Seq(ContextTurn)]]
  /\ current \in BOOLEAN
  /\ committed \in Seq(Executions)

\* Executions that overlap, of one expert or of several, lose none of each
\* other's turns as long as no expert has compressed its history.
TurnsAreShared ==
  (\A e \in ContextExperts : private[e].kind = NoArray) => store = committed
=============================================================================
