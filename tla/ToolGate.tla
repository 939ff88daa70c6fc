------------------------------ MODULE ToolGate ------------------------------
(***************************************************************************)
(* What stands before every tool (orchestrator/tool-execution-policy.js,   *)
(* tool_auth_guard.js, auth/approval-engine.js and action-grants.js), for  *)
(* the agent's calls (executeTool of index.js) and those of HTTP clients   *)
(* (handleCallTool of orchestrator/router.js): the limits of payloads,     *)
(* commands, queries and paths, the circuit of the tool, the permission,   *)
(* and for a tool whose policy requires it the consent of the user: an     *)
(* agent asks for it, an HTTP client shows a signed grant.  An approval    *)
(* leaves a lease behind, under which further calls of the tool in the     *)
(* same run, with whatever parameters, are not asked about.                *)
(*                                                                         *)
(* The circuit is read before the user is asked and not again: what was    *)
(* asked before the tool was disabled still runs.  Nothing enables a tool  *)
(* again.  A result that reports a failure counts as a success.  The       *)
(* permissions are those of the snapshot that authorizeToolCall is given;  *)
(* the snapshots of the two callers hold none today, so that the guard     *)
(* refuses every tool but those whose policy is "none".  The rules of the  *)
(* approval engine are empty.  A call outside a run has a run of its own.  *)
(***************************************************************************)
EXTENDS Naturals, Sequences, FiniteSets

CONSTANTS
  GatedTools,
  ToolPolicy,       \* tool -> type: none, readonly or write; requireApproval
  Permitted,        \* tools whose permission the snapshot of the caller has
  ToolParams,       \* tool -> its parameters
  ToolRuns,         \* runs in whose name tools are called
  Invocations,      \* calls of tools
  LeaseTtl,         \* how long an approval is a lease
  GrantTtl,         \* SELINA_ACTION_GRANT_TTL_MS
  MaxGateClock,     \* bound: time
  MaxGrants,        \* bound: grants
  CircuitWindow, CircuitMinSamples, CircuitErrorPercent

ASSUME GateAssumption ==
  /\ CircuitWindow \in Nat \ {0} /\ CircuitMinSamples \in Nat /\ CircuitErrorPercent \in Nat
  /\ LeaseTtl \in Nat /\ GrantTtl \in Nat /\ MaxGateClock \in Nat /\ MaxGrants \in Nat

VARIABLES
  gateClock,
  circuit,      \* tool -> outcomes in the window, is it disabled
  invocation,   \* call -> how far it is, whose, run, tool, parameters, since when
  granted,      \* grants that were made: run, tool, parameters, when
  approvalLeases,\* run and tool -> when the lease expires, 0 if there is none
  consent,      \* history: the calls the user was asked about and approved, and when
  earlier       \* history: calls past the circuit's check when it opened

gateVars == <<gateClock, circuit, invocation, granted, approvalLeases, consent, earlier>>

Scopes == UNION {[run : ToolRuns, tool : {t}, params : ToolParams[t]] : t \in GatedTools}
NoScope == [run |-> "none", tool |-> "none", params |-> "none"]
NeedsConsent(t) == ToolPolicy[t].type = "write" /\ ToolPolicy[t].requireApproval

Still(at) == [at |-> at, by |-> "nobody", of |-> NoScope, since |-> 0]

GateInit ==
  /\ gateClock = 0
  /\ circuit = [t \in GatedTools |-> [outcomes |-> <<>>, disabled |-> FALSE]]
  /\ invocation = [c \in Invocations |-> Still("new")]
  /\ granted = {}
  /\ approvalLeases = [k \in ToolRuns \X GatedTools |-> 0]
  /\ consent = {}
  /\ earlier = {}

InFlight(t) ==
  {c \in Invocations : invocation[c].of.tool = t /\ invocation[c].at \in {"asking", "executing"}}

InvocationGoes(c, at, by, scope) ==
  invocation' = [invocation EXCEPT ![c] = [at |-> at, by |-> by, of |-> scope, since |-> gateClock]]
InvocationStops(c, at) == invocation' = [invocation EXCEPT ![c] = Still(at)]

GateTick ==
  /\ gateClock < MaxGateClock
  /\ gateClock' = gateClock + 1
  /\ UNCHANGED <<circuit, invocation, granted, approvalLeases, consent, earlier>>

-----------------------------------------------------------------------------
(* The circuit. *)

TooManyErrors(outcomes) ==
  /\ Len(outcomes) >= CircuitMinSamples
  /\ 100 * Cardinality({i \in 1..Len(outcomes) : ~outcomes[i]}) > CircuitErrorPercent * Len(outcomes)

LastOf(outcomes) ==
  SubSeq(outcomes, IF Len(outcomes) > CircuitWindow THEN Len(outcomes) - CircuitWindow + 1 ELSE 1,
         Len(outcomes))

recordToolExecutionOutcome(t, ok) ==
  LET outcomes == LastOf(Append(circuit[t].outcomes, ok))
      trips == TooManyErrors(outcomes) IN
    /\ circuit' = [circuit EXCEPT ![t] = [outcomes |-> outcomes, disabled |-> @.disabled \/ trips]]
    /\ earlier' = earlier \cup (IF trips /\ ~circuit[t].disabled THEN InFlight(t) ELSE {})

-----------------------------------------------------------------------------
(* Grants and leases. *)

\* POST /approvals/grants, for a run of the user; for other tools nobody reads it.
createActionGrant(scope) ==
  /\ NeedsConsent(scope.tool)
  /\ Cardinality(granted) < MaxGrants
  /\ granted' = granted \cup {[of |-> scope, at |-> gateClock]}
  /\ UNCHANGED <<gateClock, circuit, invocation, approvalLeases, consent, earlier>>

\* A grant counts for its user, run, tool and parameters, until it expires and as
\* often as it is shown.
verifyActionGrant(scope) == \E g \in granted : g.of = scope /\ gateClock <= g.at + GrantTtl

leaseKey(scope) == <<scope.run, scope.tool>>

\* Mutant: a lease of another run counts
Leased_AnyRun(scope) == \E r \in ToolRuns : gateClock < approvalLeases[<<r, scope.tool>>]

\* ApprovalEngine.request answers without asking.
Leased(scope) == gateClock < approvalLeases[leaseKey(scope)]

-----------------------------------------------------------------------------
(* Calls. *)

\* The schema, the size of the payload, the allowed commands, queries and
\* paths, and the circuit.
RefusedByPolicy(c) ==
  /\ invocation[c].at = "new"
  /\ InvocationStops(c, "refused")
  /\ UNCHANGED <<gateClock, circuit, granted, approvalLeases, consent, earlier>>

\* authorizeToolCall, up to the consent.
MayGo(t) == ToolPolicy[t].type = "none" \/ t \in Permitted

\* A call of the agent; the grant that index.js makes for a tool that writes is
\* for this call alone and always verifies.
executeTool(c, scope) ==
  /\ invocation[c].at = "new"
  /\ ~circuit[scope.tool].disabled
  /\ MayGo(scope.tool)
  /\ InvocationGoes(c, IF NeedsConsent(scope.tool) /\ ~Leased(scope) THEN "asking" ELSE "executing",
                    "agent", scope)
  /\ UNCHANGED <<gateClock, circuit, granted, approvalLeases, consent, earlier>>

\* The user approved and the approval becomes a lease; or the user rejected the
\* call, or did not answer in time.
ApprovalEnds(c, approved) ==
  LET scope == invocation[c].of IN
  /\ invocation[c].at = "asking"
  /\ \/ /\ approved
        /\ InvocationGoes(c, "executing", "agent", scope)
        /\ consent' = consent \cup {[call |-> c, of |-> scope, at |-> gateClock]}
        /\ approvalLeases' = [approvalLeases EXCEPT ![leaseKey(scope)] = gateClock + LeaseTtl]
     \/ /\ ~approved
        /\ InvocationStops(c, "refused")
        /\ UNCHANGED <<consent, approvalLeases>>
  /\ UNCHANGED <<gateClock, circuit, granted, earlier>>

\* handleCallTool, with a grant or without one; leases do not count for it.
handleCallTool(c, scope) ==
  /\ invocation[c].at = "new"
  /\ ~circuit[scope.tool].disabled
  /\ MayGo(scope.tool)
  /\ NeedsConsent(scope.tool) => verifyActionGrant(scope)
  /\ InvocationGoes(c, "executing", "http", scope)
  /\ UNCHANGED <<gateClock, circuit, granted, approvalLeases, consent, earlier>>

InvocationEnds(c) ==
  /\ invocation[c].at = "executing"
  /\ InvocationStops(c, "over")
  /\ \E ok \in BOOLEAN : recordToolExecutionOutcome(invocation[c].of.tool, ok)
  /\ UNCHANGED <<gateClock, granted, approvalLeases, consent>>

GateNext ==
  \/ GateTick
  \/ \E c \in Invocations :
       \/ RefusedByPolicy(c) \/ InvocationEnds(c)
       \/ \E scope \in Scopes : executeTool(c, scope) \/ handleCallTool(c, scope)
       \/ \E approved \in BOOLEAN : ApprovalEnds(c, approved)
  \/ \E scope \in Scopes : createActionGrant(scope)

GateSpecification == GateInit /\ [][GateNext]_gateVars

-----------------------------------------------------------------------------
GateTypeOK ==
  /\ gateClock \in 0..MaxGateClock
  /\ \A t \in GatedTools :
       /\ Len(circuit[t].outcomes) <= CircuitWindow
       /\ circuit[t].disabled \in BOOLEAN
  /\ \A c \in Invocations :
       invocation[c] \in [at : {"new", "asking", "executing", "refused", "over"},
                          by : {"nobody", "agent", "http"}, of : Scopes \cup {NoScope},
                          since : 0..MaxGateClock]
  /\ granted \subseteq [of : Scopes, at : 0..MaxGateClock]
  /\ approvalLeases \in [ToolRuns \X GatedTools -> 0..MaxGateClock + LeaseTtl]
  /\ consent \subseteq [call : Invocations, of : Scopes, at : 0..MaxGateClock]
  /\ earlier \subseteq Invocations

\* However the calls of agents and HTTP clients overlap, a tool that goes on is
\* one whose last outcomes were good, and a tool that was disabled finishes what
\* was past its check and starts nothing.
BrokenToolsStop ==
  \A t \in GatedTools :
    /\ TooManyErrors(circuit[t].outcomes) => circuit[t].disabled
    /\ circuit[t].disabled => InFlight(t) \subseteq earlier

\* A tool whose policy requires approval runs for an HTTP client under a grant
\* for exactly its run, tool and parameters that had not expired; and for an
\* agent when the user approved this very call, or began within LeaseTtl of an
\* approved call of the same tool in the same run.  No rejected or unanswered
\* question, no approval of another run or tool and no grant leaves a lease.
ExecutesWithConsent ==
  \A c \in Invocations :
    LET call == invocation[c] IN
    (call.at = "executing" /\ NeedsConsent(call.of.tool)) =>
      \/ /\ call.by = "http"
         /\ \E g \in granted : g.of = call.of /\ call.since \in g.at..g.at + GrantTtl
      \/ /\ call.by = "agent"
         /\ \E a \in consent :
              \/ a.call = c /\ a.of = call.of
              \/ leaseKey(a.of) = leaseKey(call.of) /\ call.since \in a.at..a.at + LeaseTtl - 1
ToolsAreGated == BrokenToolsStop /\ ExecutesWithConsent
=============================================================================
