--------------------------- MODULE BrowserSession ---------------------------
(***************************************************************************)
(* The workspace page of the browser at the other end of the agent's       *)
(* socket (hooks/useAgent.js and SwarmSocket of services/socket.js).  Each *)
(* change of the user runs the effect again: its cleanup takes the         *)
(* listeners off the old socket and closes it, and the effect boots the    *)
(* WebContainer and connects a new one when the boot is done, unless it    *)
(* was cancelled meanwhile.  A closed socket is never opened again, and    *)
(* what is sent through it is dropped without a word.                      *)
(*                                                                         *)
(* Of the server there is what a page can see: AgentSession says when it   *)
(* asks.  Clarifications have no answer: nothing calls                     *)
(* sendClarificationAnswer.                                                *)
(***************************************************************************)
EXTENDS Naturals, Sequences, FiniteSets

CONSTANTS
  Mounts,       \* runs of the effect
  Plans,        \* plan requests of the server, numbered in their order
  MaxMessages   \* bound: messages under way to the page

ASSUME PageAssumption == MaxMessages \in Nat

VARIABLES
  signedIn,   \* is the store's user set
  mount,      \* run of the effect -> new, booting, cancelled, live, over
  ws,         \* its socket -> none, connecting, open, closing, closed
  coming,      \* its messages under way to the page
  thinking,   \* isThinking
  gate,       \* pendingApproval: the plan on the screen, or no plan
  running,    \* sockets whose session runs a prompt
  plan,       \* plan -> its socket, and: new, pending, answering, over
  tool,       \* a tool request -> its socket, and: none, asked, executing, answered, dropped
  overlapped  \* history: the server asked for a plan while another one was open

sessionPageVars ==
  <<signedIn, mount, ws, coming, thinking, gate, running, plan, tool, overlapped>>

NoGate == {}
NoSocket == 0

SessionPageInit ==
  /\ signedIn = FALSE
  /\ mount = [n \in Mounts |-> "new"]
  /\ ws = [n \in Mounts |-> "none"]
  /\ coming = [n \in Mounts |-> <<>>]
  /\ thinking = FALSE
  /\ gate = NoGate
  /\ running = {}
  /\ plan = [p \in Plans |-> [of |-> NoSocket, at |-> "new"]]
  /\ tool = [of |-> NoSocket, at |-> "none"]
  /\ overlapped = FALSE

serverVars == <<running, plan, tool, overlapped>>
screenVars == <<thinking, gate>>

-----------------------------------------------------------------------------
(* The effect. *)

\* Mutant: a boot that ends after the cleanup connects all the same
Boot_IgnoresCancel(n) ==
  /\ mount[n] \in {"booting", "cancelled"}
  /\ mount' = [mount EXCEPT ![n] = "live"]
  /\ ws' = [ws EXCEPT ![n] = "connecting"]
  /\ UNCHANGED <<signedIn, coming, screenVars, serverVars>>

Boot(n) ==
  /\ \/ /\ mount[n] = "booting"
        /\ mount' = [mount EXCEPT ![n] = "live"]
        /\ ws' = [ws EXCEPT ![n] = "connecting"]
     \/ /\ mount[n] \in {"booting", "cancelled"}  \* it fails, or nobody wants it
        /\ mount' = [mount EXCEPT ![n] = "over"]
        /\ UNCHANGED ws
  /\ UNCHANGED <<signedIn, coming, screenVars, serverVars>>

\* What the cleanup makes of a run of the effect and of its socket.
Cleaned(n) == IF mount[n] = "booting" THEN "cancelled"
              ELSE IF mount[n] = "live" THEN "over" ELSE mount[n]
Left(n) == IF mount[n] = "live" /\ ws[n] \in {"connecting", "open"} THEN "closing" ELSE ws[n]

\* The user signs in, out, or is set anew.
UserChanges(user) ==
  /\ user \/ signedIn
  /\ signedIn' = user
  /\ LET cleaned == [n \in Mounts |-> Cleaned(n)] IN
     IF user
       THEN \E n \in Mounts :
              /\ mount[n] = "new" /\ \A m \in Mounts : m < n => mount[m] /= "new"
              /\ mount' = [cleaned EXCEPT ![n] = "booting"]
       ELSE mount' = cleaned
  /\ ws' = [n \in Mounts |-> Left(n)]
  /\ UNCHANGED <<coming, screenVars, serverVars>>

-----------------------------------------------------------------------------
(* The socket. *)

Opens(n) ==
  /\ ws[n] = "connecting"
  /\ ws' = [ws EXCEPT ![n] = "open"]
  /\ UNCHANGED <<signedIn, mount, coming, screenVars, serverVars>>

\* The connection ends: by the page's own close, by the server or the network.
\* The server's session rejects all that is pending.
Closes(n) ==
  /\ ws[n] \in {"connecting", "open", "closing"}
  /\ ws' = [ws EXCEPT ![n] = "closed"]
  /\ coming' = [coming EXCEPT ![n] = <<>>]
  /\ running' = running \ {n}
  /\ plan' = [p \in Plans |-> IF plan[p].of = n THEN [plan[p] EXCEPT !.at = "over"] ELSE plan[p]]
  /\ tool' = IF tool.of = n /\ tool.at = "asked" THEN [tool EXCEPT !.at = "dropped"] ELSE tool
  /\ UNCHANGED <<signedIn, mount, screenVars, overlapped>>

Sends(n, msg) ==
  /\ Len(coming[n]) < MaxMessages
  /\ coming' = [coming EXCEPT ![n] = Append(@, msg)]

ServerAsksPlan(n, p) ==
  /\ n \in running
  /\ plan[p].at = "new" /\ \A q \in Plans : q < p => plan[q].at /= "new"
  /\ plan' = [plan EXCEPT ![p] = [of |-> n, at |-> "pending"]]
  /\ Sends(n, [type |-> "plan", plan |-> p])
  /\ overlapped' = (overlapped \/ \E q \in Plans : plan[q].at \in {"pending", "answering"})
  /\ UNCHANGED <<signedIn, mount, ws, screenVars, running, tool>>

\* The five minutes of onPlan: the run goes on, and the page is not told.
PlanTimesOut(p) ==
  /\ plan[p].at \in {"pending", "answering"}
  /\ plan' = [plan EXCEPT ![p].at = "over"]
  /\ UNCHANGED <<signedIn, mount, ws, coming, screenVars, running, tool, overlapped>>

ServerCallsTool(n) ==
  /\ n \in running
  /\ tool.at = "none"
  /\ tool' = [of |-> n, at |-> "asked"]
  /\ Sends(n, [type |-> "tool"])
  /\ UNCHANGED <<signedIn, mount, ws, screenVars, running, plan, overlapped>>

RunEnds(n) ==
  /\ n \in running
  /\ \A p \in Plans : plan[p].of = n => plan[p].at = "over"
  /\ running' = running \ {n}
  /\ Sends(n, [type |-> "thinking", value |-> FALSE])
  /\ UNCHANGED <<signedIn, mount, ws, screenVars, plan, tool, overlapped>>

-----------------------------------------------------------------------------
(* The page. *)

\* onmessage.  The listeners of a socket are gone after the cleanup; its tool
\* handler is not.
Delivered(n) ==
  /\ ws[n] \in {"open", "closing"}
  /\ coming[n] /= <<>>
  /\ coming' = [coming EXCEPT ![n] = Tail(@)]
  /\ LET msg == Head(coming[n]) IN
       /\ thinking' = IF mount[n] = "live" /\ msg.type = "thinking" THEN msg.value ELSE thinking
       /\ gate' = IF mount[n] = "live" /\ msg.type = "plan" THEN {msg.plan} ELSE gate
       /\ tool' = IF msg.type = "tool" THEN [tool EXCEPT !.at = "executing"] ELSE tool
  /\ UNCHANGED <<signedIn, mount, ws, running, plan, overlapped>>

\* handleToolRequest: the answer goes to the socket the request came from.
ToolEnds ==
  /\ tool.at = "executing"
  /\ tool' = [tool EXCEPT !.at = IF ws[tool.of] = "open" THEN "answered" ELSE "dropped"]
  /\ UNCHANGED <<signedIn, mount, ws, coming, screenVars, running, plan, overlapped>>

Live == {n \in Mounts : mount[n] = "live"}

\* handleSend and sendPrompt: without a socket, or through a closed one, the
\* prompt goes nowhere.
sendPrompt(n) ==
  /\ ~thinking
  /\ n \in Live
  /\ ws[n] = "open"
  /\ n \notin running
  /\ running' = running \cup {n}
  /\ Sends(n, [type |-> "thinking", value |-> TRUE])
  /\ UNCHANGED <<signedIn, mount, ws, screenVars, plan, tool, overlapped>>

\* The answer goes to the socket of the effect that runs now.
sendPlanApproval(p) ==
  /\ gate = {p}
  /\ gate' = NoGate
  /\ IF plan[p].at = "pending" /\ plan[p].of \in Live /\ ws[plan[p].of] = "open"
       THEN plan' = [plan EXCEPT ![p].at = "answering"]
       ELSE UNCHANGED plan
  /\ UNCHANGED <<signedIn, mount, ws, coming, thinking, running, tool, overlapped>>

AnswerArrives(p) ==
  /\ plan[p].at = "answering"
  /\ plan' = [plan EXCEPT ![p].at = "over"]
  /\ UNCHANGED <<signedIn, mount, ws, coming, screenVars, running, tool, overlapped>>

SessionPageNext ==
  \/ \E user \in BOOLEAN : UserChanges(user)
  \/ \E n \in Mounts :
       \/ Boot(n) \/ Opens(n) \/ Closes(n) \/ Delivered(n)
       \/ ServerCallsTool(n) \/ RunEnds(n) \/ sendPrompt(n)
       \/ \E p \in Plans : ServerAsksPlan(n, p)
  \/ \E p \in Plans : PlanTimesOut(p) \/ sendPlanApproval(p) \/ AnswerArrives(p)
  \/ ToolEnds

SessionPageSpec == SessionPageInit /\ [][SessionPageNext]_sessionPageVars

-----------------------------------------------------------------------------
SessionPageTypeOK ==
  /\ signedIn \in BOOLEAN /\ thinking \in BOOLEAN /\ overlapped \in BOOLEAN
  /\ mount \in [Mounts -> {"new", "booting", "cancelled", "live", "over"}]
  /\ ws \in [Mounts -> {"none", "connecting", "open", "closing", "closed"}]
  /\ \A n \in Mounts : Len(coming[n]) <= MaxMessages
  /\ gate \subseteq Plans /\ Cardinality(gate) <= 1
  /\ running \subseteq Mounts
  /\ plan \in [Plans -> [of : Mounts \cup {NoSocket},
                         at : {"new", "pending", "answering", "over"}]]
  /\ tool \in [of : Mounts \cup {NoSocket},
               at : {"none", "asked", "executing", "answered", "dropped"}]

\* However the user changes while the WebContainer boots, at most one socket
\* has listeners, so no event is shown twice; and while the server asks one
\* thing at a time, a plan it waits for is on the screen or on its way there.
EachEventOnce == Cardinality(Live) <= 1
WaitingIsVisible ==
  \A p \in Plans :
    (plan[p].at = "pending" /\ ~overlapped /\ plan[p].of \in Live) =>
      \/ gate = {p}
      \/ \E i \in 1..Len(coming[plan[p].of]) :
           coming[plan[p].of][i] = [type |-> "plan", plan |-> p]
PageFollowsServer == EachEventOnce /\ WaitingIsVisible
=============================================================================
