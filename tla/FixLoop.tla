------------------------------- MODULE FixLoop -------------------------------
(***************************************************************************)
(* The browser's run-and-fix loop and its terminal (services/AgentLoop.js  *)
(* and services/InternalTerminal.js of the frontend), one of each for the  *)
(* page.  The terminal keeps its sessions under ids of its own; the loop   *)
(* and tool_executeShell ask for them by the name they gave them.  So the  *)
(* first command of a loop finds no session, whatever was created, and     *)
(* what comes after a command that ran is not reached and not here.        *)
(***************************************************************************)
EXTENDS Naturals, Sequences

CONSTANTS
  Starts,         \* calls of start, by the user or by an agent's tool
  MaxIterations,  \* maxIterations
  ShellIds        \* the ids createSession gives, in order; bounds the shells spawned

\* An id is "term_1", "term_2" and so on; no loop is named like that.
ASSUME FixAssumption ==
  /\ MaxIterations \in Nat \ {0}
  /\ Len(ShellIds) \in Nat /\ \A i \in 1..Len(ShellIds) : ShellIds[i] \notin Starts

VARIABLES
  fixLoop,   \* the fields of the loop: isRunning, currentIteration, sessionId
  started,   \* call of start -> where it is
  terminal,  \* the sessions of the terminal: the id, the name, and isActive
  callbacks  \* the loop was made by the page, with its callbacks

fixVars == <<fixLoop, started, terminal, callbacks>>

NoName == "none"
Sessions == 1..Len(terminal)
FixOver == {"completed", "failed", "refused"}

\* The page makes the loop with its callbacks, unless a tool or the boot of the
\* workspace asked for it before.
FixInit ==
  /\ fixLoop = [isRunning |-> FALSE, iteration |-> 0, name |-> NoName]
  /\ started = [n \in Starts |-> "new"]
  /\ terminal = <<>>
  /\ callbacks \in BOOLEAN

StartAt(n, at) == started[n] = at
StartGoes(n, at) == started' = [started EXCEPT ![n] = at]

-----------------------------------------------------------------------------
(* InternalTerminal. *)

\* createSession: the shell is spawned under the next id.
createSession(name) ==
  /\ Len(terminal) < Len(ShellIds)
  /\ terminal' = Append(terminal, [id |-> ShellIds[Len(terminal) + 1],
                                   name |-> name, isActive |-> TRUE])

\* sessions.has: the id is what a session is found by.
HasSession(id) == \E s \in Sessions : terminal[s].id = id

\* killSession throws when it finds none.
killSession(id) ==
  terminal' = [s \in Sessions |->
                 [terminal[s] EXCEPT !.isActive = @ /\ terminal[s].id # id]]

\* terminal_create_session, terminal_kill_session and an exit of the shell.
ToolCreates == createSession("tool") /\ UNCHANGED <<fixLoop, started, callbacks>>

SessionEnds ==
  /\ \E s \in Sessions : terminal[s].isActive /\ killSession(terminal[s].id)
  /\ UNCHANGED <<fixLoop, started, callbacks>>

-----------------------------------------------------------------------------
(* AgentLoop. *)

start(n) ==
  /\ StartAt(n, "new")
  /\ IF fixLoop.isRunning
       THEN StartGoes(n, "refused") /\ UNCHANGED fixLoop
       ELSE /\ StartGoes(n, "creating")
            /\ fixLoop' = [isRunning |-> TRUE, iteration |-> 0, name |-> n]
  /\ UNCHANGED <<terminal, callbacks>>

\* A shell may fail to spawn.
CreateHidden(n) ==
  /\ StartAt(n, "creating")
  /\ \/ createSession(n) /\ StartGoes(n, "writing")
     \/ StartGoes(n, "failing") /\ UNCHANGED terminal
  /\ UNCHANGED <<fixLoop, callbacks>>

\* create_file refuses a file that is there.
writeFiles(n) ==
  /\ StartAt(n, "writing")
  /\ StartGoes(n, "iterating") \/ StartGoes(n, "failing")
  /\ UNCHANGED <<fixLoop, terminal, callbacks>>

\* The loop reads the fields, which a stop and another start may have set.
executeAndIterate(n) ==
  /\ StartAt(n, "iterating")
  /\ IF fixLoop.isRunning /\ fixLoop.iteration < MaxIterations
       THEN StartGoes(n, "executing") /\ fixLoop' = [fixLoop EXCEPT !.iteration = @ + 1]
       ELSE StartGoes(n, "completing") /\ UNCHANGED fixLoop
  /\ UNCHANGED <<terminal, callbacks>>

\* It makes sure that the session exists by creating one more, and does not
\* find it.
tool_executeShell(n) ==
  /\ StartAt(n, "executing")
  /\ ~HasSession(fixLoop.name)
  /\ createSession(fixLoop.name) \/ UNCHANGED terminal
  /\ StartGoes(n, "failing")
  /\ UNCHANGED <<fixLoop, callbacks>>

\* onComplete or onError, which throws when it is missing, and cleanup, which
\* ends whatever start the fields belong to by now.
Ends(n) ==
  /\ \/ StartAt(n, "completing") /\ StartGoes(n, IF callbacks THEN "completed" ELSE "failed")
     \/ StartAt(n, "failing") /\ StartGoes(n, "failed")
  /\ fixLoop' = [fixLoop EXCEPT !.isRunning = FALSE]
  /\ killSession(fixLoop.name)
  /\ UNCHANGED callbacks

stop ==
  /\ fixLoop.isRunning
  /\ fixLoop' = [fixLoop EXCEPT !.isRunning = FALSE]
  /\ UNCHANGED <<started, terminal, callbacks>>

StartStep(n) ==
  CreateHidden(n) \/ writeFiles(n) \/ executeAndIterate(n) \/ tool_executeShell(n) \/ Ends(n)

FixNext ==
  \/ \E n \in Starts : start(n) \/ StartStep(n)
  \/ stop
  \/ ToolCreates
  \/ SessionEnds

FixFairness == \A n \in Starts : WF_fixVars(StartStep(n))

FixSpec == FixInit /\ [][FixNext]_fixVars /\ FixFairness

-----------------------------------------------------------------------------
FixTypeOK ==
  /\ fixLoop \in [isRunning : BOOLEAN, iteration : 0..MaxIterations,
                  name : Starts \cup {NoName}]
  /\ started \in [Starts -> {"new", "creating", "writing", "iterating", "executing",
                             "completing", "failing"} \cup FixOver]
  /\ \A s \in Sessions : /\ terminal[s].id = ShellIds[s]
                          /\ terminal[s].name \in Starts \cup {"tool"}
  /\ callbacks \in BOOLEAN

\* A start that was taken ends, also when it overlaps with another after a stop.
StartIsSettled(n) == started[n] \in {"new"} \cup FixOver
StartsSettle == \A n \in Starts : []<>StartIsSettled(n)
=============================================================================
