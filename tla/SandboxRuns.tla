---------------------------- MODULE SandboxRuns ----------------------------
(***************************************************************************)
(* Runs of code in containers (sandbox/docker_executor.js behind           *)
(* sandbox/providers.js).  A run copies the files it needs into a          *)
(* directory of its own, starts the docker client on it, and answers when  *)
(* the client has ended.  The timer kills the client only: the container   *)
(* goes on until docker removes it, while the end of the client already    *)
(* answers the run.  Removing a container is tried once, for five seconds. *)
(***************************************************************************)
EXTENDS Naturals, FiniteSets

CONSTANTS
  SandboxCalls,   \* calls of executeScript and executeCommand
  Copies          \* bound: files a call copies

ASSUME SandboxAssumption == Copies \in Nat

VARIABLES
  sandbox,     \* call -> new, copying, running, killed, closing, refused, answered
  copied,      \* call -> files in its directory
  directory,   \* call -> does its directory exist
  container,   \* call -> none, running, gone
  timer,       \* call -> off, armed, removing (docker rm under way), cleaning, over
  timedOut,    \* calls whose timer fired
  result,      \* call -> none, success, failure
  abandoned    \* history: calls refused after their directory was made, or whose rm failed

sandboxVars == <<sandbox, copied, directory, container, timer, timedOut, result, abandoned>>

SandboxInit ==
  /\ sandbox = [x \in SandboxCalls |-> "new"]
  /\ copied = [x \in SandboxCalls |-> 0]
  /\ directory = [x \in SandboxCalls |-> FALSE]
  /\ container = [x \in SandboxCalls |-> "none"]
  /\ timer = [x \in SandboxCalls |-> "off"]
  /\ timedOut = {}
  /\ result = [x \in SandboxCalls |-> "none"]
  /\ abandoned = {}

SandboxAt(x, at) == sandbox' = [sandbox EXCEPT ![x] = at]
DirectoryIs(x, exists) == directory' = [directory EXCEPT ![x] = exists]

-----------------------------------------------------------------------------
\* The provider is disabled, unknown or not configured (no adapter is ever
\* given to the cloud's), the runtime is unknown, or the script's path leaves
\* the workspace.
Refuse(x) ==
  /\ sandbox[x] = "new"
  /\ SandboxAt(x, "refused")
  /\ UNCHANGED <<copied, directory, container, timer, timedOut, result, abandoned>>

\* mkdtemp comes before the requested paths are checked, outside of the try:
\* the directory of a call with a restricted path stays.
createIsolatedSandboxWorkspace(x) ==
  /\ sandbox[x] = "new"
  /\ DirectoryIs(x, TRUE)
  /\ \/ SandboxAt(x, "copying") /\ UNCHANGED abandoned
     \/ SandboxAt(x, "refused") /\ abandoned' = abandoned \cup {x}
  /\ UNCHANGED <<copied, container, timer, timedOut, result>>

copyRequestedFile(x) ==
  /\ sandbox[x] = "copying" /\ copied[x] < Copies
  /\ copied' = [copied EXCEPT ![x] = @ + 1]
  /\ UNCHANGED <<sandbox, directory, container, timer, timedOut, result, abandoned>>

\* A missing file, or a directory where a file is meant.
CopyFails(x) ==
  /\ sandbox[x] = "copying"
  /\ SandboxAt(x, "refused") /\ DirectoryIs(x, FALSE)
  /\ UNCHANGED <<copied, container, timer, timedOut, result, abandoned>>

-----------------------------------------------------------------------------
(* runDocker. *)

Answers(x, success) ==
  /\ SandboxAt(x, "answered")
  /\ result' = [result EXCEPT ![x] = IF success THEN "success" ELSE "failure"]

\* The container runtime that the configuration asks for may be missing.
runDocker(x) ==
  /\ sandbox[x] = "copying"
  /\ \/ Answers(x, FALSE) /\ DirectoryIs(x, FALSE) /\ UNCHANGED timer
     \/ /\ SandboxAt(x, "running") /\ timer' = [timer EXCEPT ![x] = "armed"]
        /\ UNCHANGED <<directory, result>>
  /\ UNCHANGED <<copied, container, timedOut, abandoned>>

ContainerStarts(x) ==
  /\ sandbox[x] = "running" /\ container[x] = "none"
  /\ container' = [container EXCEPT ![x] = "running"]
  /\ UNCHANGED <<sandbox, copied, directory, timer, timedOut, result, abandoned>>

\* The program in the container ends, and --rm removes it.
ContainerEnds(x) ==
  /\ container[x] = "running"
  /\ container' = [container EXCEPT ![x] = "gone"]
  /\ UNCHANGED <<sandbox, copied, directory, timer, timedOut, result, abandoned>>

\* Mutant: the timer kills the client and leaves the rest to --rm
TimerFires_LeavesContainer(x) ==
  /\ timer[x] = "armed" /\ sandbox[x] = "running"
  /\ timedOut' = timedOut \cup {x}
  /\ SandboxAt(x, "killed")
  /\ timer' = [timer EXCEPT ![x] = "cleaning"]
  /\ UNCHANGED <<copied, directory, container, result, abandoned>>

TimerFires(x) ==
  /\ timer[x] = "armed" /\ sandbox[x] = "running"
  /\ timedOut' = timedOut \cup {x}
  /\ SandboxAt(x, "killed")
  /\ timer' = [timer EXCEPT ![x] = "removing"]
  /\ UNCHANGED <<copied, directory, container, result, abandoned>>

\* docker rm -f, whose failure is nobody's concern.
cleanupContainer(x) ==
  /\ timer[x] = "removing"
  /\ timer' = [timer EXCEPT ![x] = "cleaning"]
  /\ \/ /\ container' = [container EXCEPT ![x] = IF @ = "running" THEN "gone" ELSE @]
        /\ UNCHANGED abandoned
     \/ /\ abandoned' = abandoned \cup {x}
        /\ UNCHANGED container
  /\ UNCHANGED <<sandbox, copied, directory, timedOut, result>>

TimerCleans(x) ==
  /\ timer[x] = "cleaning"
  /\ timer' = [timer EXCEPT ![x] = "over"]
  /\ DirectoryIs(x, FALSE)
  /\ UNCHANGED <<sandbox, copied, container, timedOut, result, abandoned>>

\* The docker client could not be started.
ChildErrs(x) ==
  /\ sandbox[x] = "running" /\ container[x] = "none"
  /\ SandboxAt(x, "closing")
  /\ timer' = [timer EXCEPT ![x] = "off"]
  /\ result' = [result EXCEPT ![x] = "failure"]
  /\ UNCHANGED <<copied, directory, container, timedOut, abandoned>>

\* The client ends with its container, or because it was killed; the timer that
\* has not fired is cleared.
ChildCloses(x) ==
  /\ \/ sandbox[x] = "running" /\ container[x] = "gone"
     \/ sandbox[x] = "killed"
  /\ SandboxAt(x, "closing")
  /\ timer' = [timer EXCEPT ![x] = IF @ = "armed" THEN "off" ELSE @]
  /\ \E exit0 \in BOOLEAN :
       result' = [result EXCEPT ![x] = IF exit0 /\ x \notin timedOut THEN "success" ELSE "failure"]
  /\ UNCHANGED <<copied, directory, container, timedOut, abandoned>>

cleanupSandboxWorkspace(x) ==
  /\ sandbox[x] = "closing"
  /\ SandboxAt(x, "answered") /\ DirectoryIs(x, FALSE)
  /\ UNCHANGED <<copied, container, timer, timedOut, result, abandoned>>

RunStep(x) ==
  \/ copyRequestedFile(x) \/ CopyFails(x) \/ runDocker(x)
  \/ TimerFires(x) \/ cleanupContainer(x) \/ TimerCleans(x)
  \/ ChildErrs(x) \/ ChildCloses(x) \/ cleanupSandboxWorkspace(x)

SandboxNext ==
  \E x \in SandboxCalls :
    \/ Refuse(x) \/ createIsolatedSandboxWorkspace(x)
    \/ ContainerStarts(x) \/ ContainerEnds(x) \/ RunStep(x)

\* Timers fire and docker's client ends; the program need not.
SandboxSpec ==
  SandboxInit /\ [][SandboxNext]_sandboxVars
  /\ \A x \in SandboxCalls : WF_sandboxVars(RunStep(x))

-----------------------------------------------------------------------------
SandboxTypeOK ==
  /\ sandbox \in [SandboxCalls -> {"new", "copying", "running", "killed", "closing",
                                   "refused", "answered"}]
  /\ copied \in [SandboxCalls -> 0..Copies]
  /\ directory \in [SandboxCalls -> BOOLEAN]
  /\ container \in [SandboxCalls -> {"none", "running", "gone"}]
  /\ timer \in [SandboxCalls -> {"off", "armed", "removing", "cleaning", "over"}]
  /\ timedOut \subseteq SandboxCalls /\ abandoned \subseteq SandboxCalls
  /\ result \in [SandboxCalls -> {"none", "success", "failure"}]

\* When a run has answered and its timer has nothing left to do, neither its
\* directory nor its container is left, whichever of the timer and the end of
\* the client came first; except where docker refused to remove the container
\* or the requested paths were refused.
NothingLeft ==
  \A x \in SandboxCalls :
    (/\ sandbox[x] \in {"refused", "answered"}
     /\ timer[x] \in {"off", "over"}
     /\ x \notin abandoned) => ~directory[x] /\ container[x] /= "running"

\* A run is answered, though its program may run for ever.
SandboxesHaveAnswered ==
  \A x \in SandboxCalls : sandbox[x] \in {"new", "refused", "answered"}
SandboxesAnswer == []<>SandboxesHaveAnswered
=============================================================================
