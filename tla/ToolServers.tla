---------------------------- MODULE ToolServers ----------------------------
(***************************************************************************)
(* The registry of tool servers (mcp/MCPManager.js), the processes it      *)
(* talks to (mcp/MCPClient.js) and the calls of their tools.               *)
(*                                                                         *)
(* A request to a server has no time limit: what is asked of a process     *)
(* that has died, or answered in two pieces, is never settled.  An answer  *)
(* that reports an error resolves to undefined, which a listing skips, a   *)
(* call of a tool takes for a result, and the handshake of connect()       *)
(* chokes on after it has marked itself settled.                           *)
(***************************************************************************)
EXTENDS Naturals, Sequences, FiniteSets

CONSTANTS
  Registrations,       \* calls of registerServer, each with a process of its own
  Namings,             \* ways the registrations name their servers
  Listings,            \* calls of refreshTools by a request or The Brain
  ToolCalls            \* calls of tools

VARIABLES
  nameOf,        \* registration -> the server it names
  registration,  \* -> new, connecting, refreshing, stuck, ok, failed
  process,       \* registration -> its child: none, up, dead
  servers,       \* clients: names in the order of their first registration
  client,        \* clients: name -> the registration whose process it is, or NoClient
  serverStatus,  \* name -> none, connected, error
  refreshing,    \* registration or listing -> its run of refreshTools
  tools,         \* servers whose tools are listed
  toolCall,      \* tool call -> where it is, server, process asked
  trouble        \* history: a process died or erred, or an answer was lost

toolServerVars == <<nameOf, registration, process, servers, client, serverStatus,
                    refreshing, tools, toolCall, trouble>>

Names == {nameOf[g] : g \in Registrations}
Refreshers == Registrations \cup Listings
NoClient == "nobody"
NoRefreshRun == [at |-> "idle"]

\* A request is no registration, whatever both are called.
ASSUME ToolServersAssumption ==
  Registrations \cap Listings = {} /\ NoClient \notin Registrations

ToolServersInit ==
  /\ nameOf \in Namings
  /\ registration = [g \in Registrations |-> "new"]
  /\ process = [g \in Registrations |-> "none"]
  /\ servers = <<>>
  /\ client = [n \in Names |-> NoClient]
  /\ serverStatus = [n \in Names |-> "none"]
  /\ refreshing = [f \in Refreshers |-> NoRefreshRun]
  /\ tools = {}
  /\ toolCall = [c \in ToolCalls |-> [at |-> "new"]]
  /\ trouble = FALSE

registryVars == <<servers, client, serverStatus, refreshing, tools>>

-----------------------------------------------------------------------------
(* refreshTools. *)

\* The iterator of a Map goes on to the entries added since it began.
Remaining(f, now) == SubSeq(now, refreshing[f].i + 1, Len(now))

\* Ask the next server, or replace the list.
\* Mutant: the list is filled as the answers come
ListGoes_Publishes(f, i, listed, rest, clients) ==
  /\ tools' = listed
  /\ refreshing' = [refreshing EXCEPT ![f] =
       IF rest = <<>> THEN [at |-> "over"]
       ELSE [at |-> "asked", i |-> i, name |-> Head(rest), of |-> clients[Head(rest)],
             listed |-> listed]]

ListGoes(f, i, listed, rest, clients) ==
  IF rest = <<>>
    THEN /\ refreshing' = [refreshing EXCEPT ![f] = [at |-> "over"]]
         /\ tools' = listed
    ELSE /\ refreshing' = [refreshing EXCEPT ![f] =
              [at |-> "asked", i |-> i, name |-> Head(rest), of |-> clients[Head(rest)],
               listed |-> listed]]
         /\ UNCHANGED tools

refreshTools(l) ==
  /\ refreshing[l] = NoRefreshRun
  /\ ListGoes(l, 1, {}, servers, client)
  /\ UNCHANGED <<nameOf, registration, process, servers, client, serverStatus, toolCall, trouble>>

\* A registration answers when its refresh is over.
Settles(f) ==
  registration' = IF f \in Registrations /\ refreshing'[f].at = "over"
                    THEN [registration EXCEPT ![f] = "ok"] ELSE registration

\* The server lists its tools, or answers with an error.
ListAnswered(f) ==
  /\ refreshing[f].at = "asked"
  /\ process[refreshing[f].of] = "up"
  /\ LET run == refreshing[f] IN
     \E ok \in BOOLEAN :
       /\ trouble' = (trouble \/ ~ok)
       /\ serverStatus' = IF ok THEN [serverStatus EXCEPT ![run.name] = "connected"]
                          ELSE serverStatus
       /\ ListGoes(f, run.i + 1, IF ok THEN run.listed \cup {run.name} ELSE run.listed,
               Remaining(f, servers), client)
  /\ Settles(f)
  /\ UNCHANGED <<nameOf, process, servers, client, toolCall>>

-----------------------------------------------------------------------------
(* registerServer and the process. *)

Fails(g) ==
  /\ registration' = [registration EXCEPT ![g] = "failed"]
  /\ serverStatus' = [serverStatus EXCEPT ![nameOf[g]] = "error"]

registerServer(g) ==
  /\ registration[g] = "new"
  /\ \/ /\ registration' = [registration EXCEPT ![g] = "connecting"]
        /\ process' = [process EXCEPT ![g] = "up"]
        /\ UNCHANGED serverStatus
     \/ Fails(g) /\ UNCHANGED process     \* the command guard refuses
  /\ UNCHANGED <<nameOf, servers, client, refreshing, tools, toolCall, trouble>>

\* The process that served the name before is neither stopped nor forgotten by
\* those who wait for it.
Initialized(g) ==
  /\ registration[g] = "connecting" /\ process[g] = "up"
  /\ LET name == nameOf[g]
         now == IF client[name] = NoClient THEN Append(servers, name) ELSE servers
         clients == [client EXCEPT ![name] = g] IN
       /\ servers' = now
       /\ client' = clients
       /\ serverStatus' = [serverStatus EXCEPT ![name] = "connected"]
       /\ ListGoes(g, 1, {}, now, clients)
  /\ registration' = [registration EXCEPT ![g] = "refreshing"]
  /\ UNCHANGED <<nameOf, process, toolCall, trouble>>

\* The answer to initialize is an error: nobody settles the promise any more.
InitializeErrs(g) ==
  /\ registration[g] = "connecting" /\ process[g] = "up"
  /\ registration' = [registration EXCEPT ![g] = "stuck"]
  /\ trouble' = TRUE
  /\ UNCHANGED <<nameOf, process, registryVars, toolCall>>

\* Before the handshake is over, the end of the process fails it.
Dies(g) ==
  /\ process[g] = "up"
  /\ process' = [process EXCEPT ![g] = "dead"]
  /\ IF registration[g] = "connecting"
       THEN Fails(g) /\ UNCHANGED trouble
       ELSE trouble' = TRUE /\ UNCHANGED <<registration, serverStatus>>
  /\ UNCHANGED <<nameOf, servers, client, refreshing, tools, toolCall>>

\* A chunk of output ends within an answer: neither half parses.
AnswerLost(f) ==
  /\ refreshing[f].at = "asked" /\ process[refreshing[f].of] = "up"
  /\ refreshing' = [refreshing EXCEPT ![f] = [at |-> "forgotten"]]
  /\ trouble' = TRUE
  /\ UNCHANGED <<nameOf, registration, process, servers, client, serverStatus, tools, toolCall>>

-----------------------------------------------------------------------------
(* Calls. *)

\* callTool, once it is approved: the process that has the name now is asked,
\* whether the tool is listed (its arguments are checked then) or not.
callTool(c) ==
  /\ toolCall[c].at = "new"
  /\ \E n \in Names :
       toolCall' \in {[toolCall EXCEPT ![c] = [at |-> "failed"]]} \cup
         (IF client[n] /= NoClient
            THEN {[toolCall EXCEPT ![c] = [at |-> "asked", of |-> client[n]]]} ELSE {})
  /\ UNCHANGED <<nameOf, registration, process, registryVars, trouble>>

\* A result or an error: both resolve.
ToolAnswered(c) ==
  /\ toolCall[c].at = "asked" /\ process[toolCall[c].of] = "up"
  /\ toolCall' = [toolCall EXCEPT ![c] = [at |-> "answered"]]
  /\ UNCHANGED <<nameOf, registration, process, registryVars, trouble>>

ServerAnswers ==
  \/ \E f \in Refreshers : ListAnswered(f)
  \/ \E g \in Registrations : Initialized(g)

ToolServersNext ==
  \/ ServerAnswers
  \/ \E l \in Listings : refreshTools(l)
  \/ \E f \in Refreshers : AnswerLost(f)
  \/ \E g \in Registrations : registerServer(g) \/ InitializeErrs(g) \/ Dies(g)
  \/ \E c \in ToolCalls : callTool(c) \/ ToolAnswered(c)

\* Servers that are up answer.
ToolServersSpec ==
  ToolServersInit /\ [][ToolServersNext]_toolServerVars /\ WF_toolServerVars(ServerAnswers)

-----------------------------------------------------------------------------
ToolServersTypeOK ==
  /\ nameOf \in Namings
  /\ registration \in [Registrations ->
       {"new", "connecting", "refreshing", "stuck", "ok", "failed"}]
  /\ process \in [Registrations -> {"none", "up", "dead"}]
  /\ {servers[i] : i \in 1..Len(servers)} = {n \in Names : client[n] /= NoClient}
  /\ \A n \in Names : client[n] /= NoClient => nameOf[client[n]] = n
  /\ serverStatus \in [Names -> {"none", "connected", "error"}]
  /\ \A f \in Refreshers : refreshing[f].at \in {"idle", "asked", "forgotten", "over"}
  /\ tools \subseteq Names
  /\ \A c \in ToolCalls : toolCall[c].at \in {"new", "failed", "asked", "answered"}

\* Whichever refreshes overlap, and although each replaces the list by what it
\* has collected, a server whose registration has answered is listed as long as
\* all servers work.
RegisteredIsListed ==
  trouble \/ \A g \in Registrations : registration[g] = "ok" => nameOf[g] \in tools

\* As long as all servers work, every registration is answered.
RegistrationsAreSettled ==
  \A g \in Registrations : registration[g] \in {"new", "ok", "failed"} \/ trouble
RegistrationsSettle == []<>RegistrationsAreSettled
=============================================================================
