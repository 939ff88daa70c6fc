--------------------------- MODULE PlatformProofs ---------------------------
(***************************************************************************)
(* Proofs about the components around the core: for each an invariant that *)
(* its steps keep, and at the end what follows for MCPlatform, whose parts *)
(* take no steps of each other.                                            *)
(***************************************************************************)
EXTENDS MCPlatform, OneTimeTokenProofs, RecordProofs, VFSContainerProofs

-----------------------------------------------------------------------------
(* SandboxRuns: what a run in a container leaves. *)

\* Where the run is says what its timer may be doing, and with it what is left
\* of the directory and the container.
Tidy(x) ==
  /\ sandbox[x] \in {"new", "copying", "refused"} => timer[x] = "off" /\ container[x] = "none"
  /\ sandbox[x] = "new" => ~directory[x]
  /\ sandbox[x] = "refused" => ~directory[x] \/ x \in abandoned
  /\ sandbox[x] = "running" => timer[x] = "armed"
  /\ sandbox[x] = "killed" => timer[x] \in {"removing", "cleaning", "over"}
  /\ sandbox[x] \in {"closing", "answered"} =>
       timer[x] # "armed" /\ (timer[x] = "off" => container[x] # "running")
  /\ sandbox[x] = "answered" => ~directory[x]
  /\ timer[x] \in {"cleaning", "over"} =>
       sandbox[x] \in {"killed", "closing", "answered"}
         /\ (container[x] # "running" \/ x \in abandoned)

SandboxInv == SandboxTypeOK /\ \A x \in SandboxCalls : Tidy(x)

LEMMA SandboxBegins == SandboxInit => SandboxInv
BY SandboxAssumption DEF SandboxInit, SandboxInv, SandboxTypeOK, Tidy

LEMMA SandboxSteps ==
  ASSUME SandboxInv, NEW x \in SandboxCalls,
         \/ Refuse(x) \/ createIsolatedSandboxWorkspace(x)
         \/ ContainerStarts(x) \/ ContainerEnds(x) \/ RunStep(x)
  PROVE  SandboxInv'
<1> USE DEF SandboxInv, SandboxTypeOK, SandboxAt, DirectoryIs
<1>1. CASE Refuse(x)
  BY <1>1 DEF Refuse, Tidy
<1>2. CASE createIsolatedSandboxWorkspace(x)
  BY <1>2 DEF createIsolatedSandboxWorkspace, Tidy
<1>3. CASE ContainerStarts(x)
  BY <1>3 DEF ContainerStarts, Tidy
<1>4. CASE ContainerEnds(x)
  BY <1>4 DEF ContainerEnds, Tidy
<1>5. CASE copyRequestedFile(x)
  BY <1>5, SandboxAssumption DEF copyRequestedFile, Tidy
<1>6. CASE CopyFails(x)
  BY <1>6 DEF CopyFails, Tidy
<1>7. CASE runDocker(x)
  <2>1. sandbox[x] = "copying" /\ UNCHANGED <<copied, container, timedOut, abandoned>>
    BY <1>7 DEF runDocker
  <2>2. CASE Answers(x, FALSE) /\ DirectoryIs(x, FALSE) /\ UNCHANGED timer
    BY <2>1, <2>2 DEF Answers, Tidy
  <2>3. CASE /\ SandboxAt(x, "running") /\ timer' = [timer EXCEPT ![x] = "armed"]
             /\ UNCHANGED <<directory, result>>
    BY <2>1, <2>3 DEF Tidy
  <2> QED
    BY <1>7, <2>2, <2>3 DEF runDocker
<1>8. CASE TimerFires(x)
  BY <1>8 DEF TimerFires, Tidy
<1>9. CASE cleanupContainer(x)
  BY <1>9 DEF cleanupContainer, Tidy
<1>10. CASE TimerCleans(x)
  BY <1>10 DEF TimerCleans, Tidy
<1>11. CASE ChildErrs(x)
  BY <1>11 DEF ChildErrs, Tidy
<1>12. CASE ChildCloses(x)
  BY <1>12 DEF ChildCloses, Tidy
<1>13. CASE cleanupSandboxWorkspace(x)
  BY <1>13 DEF cleanupSandboxWorkspace, Tidy
<1> QED
  BY <1>1, <1>2, <1>3, <1>4, <1>5, <1>6, <1>7, <1>8, <1>9, <1>10, <1>11, <1>12, <1>13
  DEF RunStep

LEMMA SandboxStep == SandboxInv /\ [SandboxNext]_sandboxVars => SandboxInv'
<1> SUFFICES ASSUME SandboxInv, [SandboxNext]_sandboxVars  PROVE SandboxInv'
  OBVIOUS
<1>1. CASE SandboxNext
  BY <1>1, SandboxSteps DEF SandboxNext
<1>2. CASE UNCHANGED sandboxVars
  BY <1>2 DEF sandboxVars, SandboxInv, SandboxTypeOK, Tidy
<1> QED
  BY <1>1, <1>2

\* When a run has answered and its timer is over, neither its directory nor its
\* container is left, in whatever order the timer, the removal of the container
\* and the end of the docker client came.
THEOREM NothingIsLeft == SandboxSpec => [](SandboxTypeOK /\ NothingLeft)
<1>1. SandboxInv => SandboxTypeOK /\ NothingLeft
  BY DEF SandboxInv, NothingLeft, Tidy, SandboxTypeOK
<1> QED
  BY <1>1, SandboxBegins, SandboxStep, PTL DEF SandboxSpec

-----------------------------------------------------------------------------
(* ConnectionLimiter: the places of an address. *)

\* The sockets whose place was not given back: those that are open, and those
\* whose client left before anybody listened.
Held == {k \in Sockets : conn[k] \in {"authenticating", "leftEarly", "live", "stranded", "dropped"}}

\* The counter is the number of places held.
AddressInv ==
  /\ conn \in [Sockets -> {"new", "refused", "authenticating", "leftEarly", "live",
                           "released", "closed", "stranded", "dropped"}]
  /\ IsFiniteSet(Held)
  /\ Cardinality(Held) = wsActiveByIp
  /\ wsActiveByIp \in 0..WS_MAX_ACTIVE_PER_IP

LEMMA LimiterBegins == LimiterInit => AddressInv
<1> SUFFICES ASSUME LimiterInit  PROVE AddressInv
  OBVIOUS
<1>1. Held = {}
  BY DEF LimiterInit, Held
<1> QED
  BY <1>1, FS_EmptySet, LimiterAssumption DEF LimiterInit, AddressInv

\* A socket that keeps what it holds leaves the counter right.
LEMMA PlaceKept ==
  ASSUME AddressInv, NEW k \in Sockets, NEW to, ConnGoes(k, to), UNCHANGED wsActiveByIp,
         to \in {"refused", "leftEarly", "live", "closed", "stranded", "dropped"},
         to \in {"refused", "closed"} <=> k \notin Held
  PROVE  AddressInv'
<1>1. Held' = Held
  BY DEF ConnGoes, AddressInv, Held
<1> QED
  BY <1>1 DEF ConnGoes, AddressInv

\* A place is taken while there is one.
LEMMA PlaceTaken ==
  ASSUME AddressInv, NEW k \in Sockets, conn[k] = "new", ConnGoes(k, "authenticating"),
         wsActiveByIp < WS_MAX_ACTIVE_PER_IP, wsActiveByIp' = wsActiveByIp + 1
  PROVE  AddressInv'
<1>1. Held' = Held \cup {k} /\ k \notin Held
  BY DEF ConnGoes, AddressInv, Held
<1>2. IsFiniteSet(Held) /\ Cardinality(Held) = wsActiveByIp
  BY DEF AddressInv
<1>3. IsFiniteSet(Held') /\ Cardinality(Held') = wsActiveByIp + 1
  BY <1>1, <1>2, FS_AddElement
<1> QED
  BY <1>3, LimiterAssumption DEF ConnGoes, AddressInv

\* A place is given back by the socket that holds it.
LEMMA PlaceReleased ==
  ASSUME AddressInv, NEW k \in Held, NEW to \in {"refused", "released", "closed"},
         ConnGoes(k, to), releaseWsConnection
  PROVE  AddressInv'
<1>1. Held' = Held \ {k} /\ k \in Sockets
  BY DEF ConnGoes, AddressInv, Held
<1>2. IsFiniteSet(Held) /\ Cardinality(Held) = wsActiveByIp
  BY DEF AddressInv
<1>3. IsFiniteSet(Held') /\ Cardinality(Held') = wsActiveByIp - 1
  BY <1>1, <1>2, FS_RemoveElement
<1>4. Cardinality(Held') \in Nat
  BY <1>3, FS_CardinalityType
<1>5. wsActiveByIp' = wsActiveByIp - 1
  BY <1>3, <1>4 DEF releaseWsConnection, AddressInv
<1> QED
  BY <1>1, <1>3, <1>4, <1>5, LimiterAssumption DEF ConnGoes, AddressInv

LEMMA LimiterStep == AddressInv /\ [LimiterNext]_limiterVars => AddressInv'
<1> SUFFICES ASSUME AddressInv, [LimiterNext]_limiterVars  PROVE AddressInv'
  OBVIOUS
<1>1. CASE WindowPasses \/ UNCHANGED limiterVars
  BY <1>1 DEF WindowPasses, limiterVars, AddressInv, Held
<1>2. ASSUME NEW k \in Sockets,
             \/ Connect(k) \/ LeaveEarly(k) \/ RefuseUnauthenticated(k)
             \/ \E u \in SocketUsers : Admit(k, u) \/ RefuseUser(k, u)
             \/ SocketErrs(k) \/ SocketCloses(k) \/ HeartbeatDrops(k)
      PROVE  AddressInv'
  <2>1. CASE Connect(k)
    <3>1. conn[k] = "new" /\ k \notin Held
      BY <2>1 DEF Connect, Held
    <3>2. CASE ConnGoes(k, "refused") /\ UNCHANGED wsActiveByIp
      BY <3>1, <3>2, PlaceKept
    <3>3. CASE /\ ConnGoes(k, "authenticating") /\ wsActiveByIp < WS_MAX_ACTIVE_PER_IP
               /\ wsActiveByIp' = wsActiveByIp + 1
      BY <3>1, <3>3, PlaceTaken
    <3> QED
      BY <2>1, <3>2, <3>3 DEF Connect
  <2>2. CASE LeaveEarly(k)
    BY <2>2, PlaceKept DEF LeaveEarly, Held
  <2>3. CASE RefuseUnauthenticated(k)
    BY <2>3, PlaceReleased DEF RefuseUnauthenticated, Held
  <2>4. CASE \E u \in SocketUsers : Admit(k, u)
    BY <2>4, PlaceKept DEF Admit, Held
  <2>5. CASE \E u \in SocketUsers : RefuseUser(k, u)
    BY <2>5, PlaceReleased DEF RefuseUser, Held
  <2>6. CASE SocketErrs(k)
    BY <2>6, PlaceReleased DEF SocketErrs, Held
  <2>7. CASE SocketCloses(k)
    <3>1. CASE conn[k] = "live" /\ releaseWsConnection
      BY <2>7, <3>1, PlaceReleased DEF SocketCloses, Held
    <3>2. CASE conn[k] = "released" /\ UNCHANGED wsActiveByIp
      BY <2>7, <3>2, PlaceKept DEF SocketCloses, Held
    <3> QED
      BY <2>7, <3>1, <3>2 DEF SocketCloses
  <2>8. CASE HeartbeatDrops(k)
    BY <2>8, PlaceKept DEF HeartbeatDrops, Held
  <2> QED
    BY <1>2, <2>1, <2>2, <2>3, <2>4, <2>5, <2>6, <2>7, <2>8
<1> QED
  BY <1>1, <1>2 DEF LimiterNext

LEMMA AddressIsLimited == AddressInv => AddressLimit
<1> SUFFICES ASSUME AddressInv  PROVE AddressLimit
  OBVIOUS
<1> DEFINE open == {k \in Sockets : conn[k] \in {"authenticating", "live"}}
<1>1. open \subseteq Held
  BY DEF Held
<1>2. IsFiniteSet(Held) /\ Cardinality(Held) <= WS_MAX_ACTIVE_PER_IP /\ Cardinality(Held) \in Nat
  BY LimiterAssumption DEF AddressInv
<1>3. Cardinality(open) <= Cardinality(Held) /\ Cardinality(open) \in Nat
  BY <1>1, <1>2, FS_Subset, FS_CardinalityType
<1> QED
  BY <1>2, <1>3, LimiterAssumption DEF AddressLimit

-----------------------------------------------------------------------------
(* ToolGate: circuits and consent. *)

\* A call executes with consent: ExecutesWithConsent, of one call.
Agreed(c) ==
  LET inv == invocation[c] IN
  (inv.at = "executing" /\ NeedsConsent(inv.of.tool)) =>
    \/ /\ inv.by = "http"
       /\ \E g \in granted : g.of = inv.of /\ inv.since \in g.at..g.at + GrantTtl
    \/ /\ inv.by = "agent"
       /\ \E a \in consent :
            \/ a.call = c /\ a.of = inv.of
            \/ leaseKey(a.of) = leaseKey(inv.of) /\ inv.since \in a.at..a.at + LeaseTtl - 1

\* A lease was left by a call of its run and tool that the user approved.
LeaseIsOf(k, a) ==
  leaseKey(a.of) = k /\ a.at \in Nat /\ a.at <= gateClock /\ approvalLeases[k] = a.at + LeaseTtl

LeasesInv ==
  /\ gateClock \in Nat
  /\ \A g \in granted : g.at \in Nat /\ g.at <= gateClock
  /\ approvalLeases = [k \in ToolRuns \X GatedTools |-> approvalLeases[k]]
  /\ \A k \in ToolRuns \X GatedTools :
       approvalLeases[k] = 0 \/ \E a \in consent : LeaseIsOf(k, a)

\* Leases come of consent, and calls on their way have a tool.
GateInv ==
  /\ circuit = [t \in GatedTools |-> circuit[t]]
  /\ invocation = [c \in Invocations |-> invocation[c]]
  /\ \A c \in Invocations :
       invocation[c].at \in {"asking", "executing"} => invocation[c].of \in Scopes
  /\ LeasesInv
  /\ BrokenToolsStop
  /\ \A c \in Invocations : Agreed(c)

LEMMA ScopeHasTool ==
  ASSUME NEW scope \in Scopes
  PROVE  scope.tool \in GatedTools /\ leaseKey(scope) \in ToolRuns \X GatedTools
BY DEF Scopes, leaseKey

LEMMA GateBegins == GateInit => GateInv
<1> SUFFICES ASSUME GateInit  PROVE GateInv
  OBVIOUS
<1>1. ~TooManyErrors(<<>>)
  <2>1. {i \in 1 .. Len(<<>>) : ~(<<>>)[i]} = {} /\ Len(<<>>) = 0
    OBVIOUS
  <2>2. Cardinality({i \in 1 .. Len(<<>>) : ~(<<>>)[i]}) = 0
    BY <2>1, FS_EmptySet
  <2> QED
    BY <2>1, <2>2, GateAssumption DEF TooManyErrors
<1>2. \A t \in GatedTools : circuit[t].outcomes = <<>> /\ ~circuit[t].disabled
  BY DEF GateInit
<1>3. BrokenToolsStop
  BY <1>1, <1>2 DEF BrokenToolsStop
<1>4. \A c \in Invocations : invocation[c].at = "new"
  BY DEF GateInit, Still
<1>5. LeasesInv
  BY DEF GateInit, LeasesInv
<1> QED
  BY <1>3, <1>4, <1>5 DEF GateInit, GateInv, Agreed

\* A call that does not move keeps the consent it has.
LEMMA ConsentStays ==
  ASSUME NEW d \in Invocations, Agreed(d), invocation'[d] = invocation[d],
         granted \subseteq granted', consent \subseteq consent'
  PROVE  Agreed(d)'
BY DEF Agreed, NeedsConsent, leaseKey

\* Time, grants that are made and consent that is given take nothing away.
LEMMA GateGrows ==
  ASSUME GateInv, UNCHANGED <<circuit, invocation, approvalLeases, consent, earlier>>,
         gateClock' \in Nat, gateClock <= gateClock', granted \subseteq granted',
         \A g \in granted' : g \in granted \/ g.at = gateClock
  PROVE  GateInv'
<1>1. BrokenToolsStop'
  BY DEF GateInv, BrokenToolsStop, InFlight, TooManyErrors
<1>2. \A d \in Invocations : Agreed(d)'
  BY ConsentStays DEF GateInv
<1>3. LeasesInv'
  BY DEF GateInv, LeasesInv, LeaseIsOf, leaseKey
<1> QED
  BY <1>1, <1>2, <1>3 DEF GateInv

\* A call that begins: no circuit that is open lets it in, and it has a grant or a
\* lease, or asks.
LEMMA CallBegins ==
  ASSUME GateInv, NEW c \in Invocations, NEW scope \in Scopes,
         executeTool(c, scope) \/ handleCallTool(c, scope)
  PROVE  GateInv'
<1>1. PICK at \in {"asking", "executing"}, by \in {"agent", "http"} :
        /\ InvocationGoes(c, at, by, scope)
        /\ (at = "executing" /\ NeedsConsent(scope.tool)) =>
             (by = "agent" /\ Leased(scope)) \/ (by = "http" /\ verifyActionGrant(scope))
  <2>1. CASE executeTool(c, scope)
    <3>1. PICK at : at = IF NeedsConsent(scope.tool) /\ ~Leased(scope) THEN "asking" ELSE "executing"
      OBVIOUS
    <3>2. InvocationGoes(c, at, "agent", scope)
      BY <2>1, <3>1 DEF executeTool, InvocationGoes
    <3>3. at = "asking" \/ (at = "executing" /\ (NeedsConsent(scope.tool) => Leased(scope)))
      BY <3>1
    <3> QED
      BY <3>2, <3>3
  <2>2. CASE handleCallTool(c, scope)
    <3>1. InvocationGoes(c, "executing", "http", scope)
          /\ (NeedsConsent(scope.tool) => verifyActionGrant(scope))
      BY <2>2 DEF handleCallTool
    <3> QED
      BY <3>1
  <2> QED
    BY <2>1, <2>2
<1>2. ~circuit[scope.tool].disabled
      /\ UNCHANGED <<gateClock, circuit, granted, approvalLeases, consent, earlier>>
  BY DEF executeTool, handleCallTool
<1>3. /\ invocation'[c] = [at |-> at, by |-> by, of |-> scope, since |-> gateClock]
      /\ \A d \in Invocations : d # c => invocation'[d] = invocation[d]
      /\ invocation' = [d \in Invocations |-> invocation'[d]]
  BY <1>1 DEF InvocationGoes, GateInv
<1>4. \A t \in GatedTools : circuit[t].disabled => InFlight(t)' \subseteq InFlight(t)
  BY <1>2, <1>3 DEF InFlight
<1>5. BrokenToolsStop'
  BY <1>2, <1>4 DEF BrokenToolsStop, GateInv, TooManyErrors
<1>6. LeasesInv'
  BY <1>2 DEF GateInv, LeasesInv, LeaseIsOf, leaseKey
<1>7. Agreed(c)'
  <2> SUFFICES ASSUME at = "executing", NeedsConsent(scope.tool)
               PROVE  \/ /\ by = "http"
                         /\ \E g \in granted : g.of = scope /\ gateClock \in g.at..g.at + GrantTtl
                      \/ /\ by = "agent"
                         /\ \E a \in consent : leaseKey(a.of) = leaseKey(scope)
                                               /\ gateClock \in a.at..a.at + LeaseTtl - 1
    BY <1>2, <1>3 DEF Agreed, NeedsConsent, leaseKey
  <2>1. CASE by = "http" /\ verifyActionGrant(scope)
    BY <2>1, GateAssumption DEF verifyActionGrant, GateInv, LeasesInv
  <2>2. CASE by = "agent" /\ Leased(scope)
    <3>1. PICK k \in ToolRuns \X GatedTools : k = leaseKey(scope)
      BY ScopeHasTool
    <3>2. gateClock \in Nat /\ gateClock < approvalLeases[k]
      BY <2>2, <3>1 DEF Leased, GateInv, LeasesInv
    <3>3. PICK a \in consent : LeaseIsOf(k, a)
      BY <3>2 DEF GateInv, LeasesInv
    <3>4. leaseKey(a.of) = leaseKey(scope) /\ gateClock \in a.at..a.at + LeaseTtl - 1
      BY <3>1, <3>2, <3>3, GateAssumption DEF LeaseIsOf
    <3> QED
      BY <2>2, <3>4
  <2> QED
    BY <1>1, <2>1, <2>2
<1>8. \A d \in Invocations : Agreed(d)'
  BY <1>2, <1>3, <1>7, ConsentStays DEF GateInv
<1> QED
  BY <1>2, <1>3, <1>5, <1>6, <1>8 DEF GateInv

\* A call that ends, or is refused.
LEMMA CallStops ==
  ASSUME GateInv, NEW c \in Invocations, NEW at \in {"refused", "over"}, InvocationStops(c, at)
  PROVE  /\ invocation' = [d \in Invocations |-> invocation'[d]]
         /\ \A d \in Invocations :
              invocation'[d].at \in {"asking", "executing"} => invocation'[d].of \in Scopes
         /\ \A t \in GatedTools : InFlight(t)' \subseteq InFlight(t)
         /\ granted \subseteq granted' /\ consent \subseteq consent'
              => \A d \in Invocations : Agreed(d)'
<1>1. /\ invocation'[c].at = at
      /\ \A d \in Invocations : d # c => invocation'[d] = invocation[d]
      /\ invocation' = [d \in Invocations |-> invocation'[d]]
  BY DEF InvocationStops, Still, GateInv
<1>2. Agreed(c)'
  BY <1>1 DEF Agreed
<1>3. \A t \in GatedTools : InFlight(t)' \subseteq InFlight(t)
  BY <1>1 DEF InFlight
<1> QED
  BY <1>1, <1>2, <1>3, ConsentStays DEF GateInv

\* A refused call leaves no lease.
LEMMA CallRefused ==
  ASSUME GateInv, NEW c \in Invocations, InvocationStops(c, "refused"),
         UNCHANGED <<gateClock, circuit, granted, approvalLeases, consent, earlier>>
  PROVE  GateInv'
<1>1. LeasesInv'
  BY DEF GateInv, LeasesInv, LeaseIsOf, leaseKey
<1>2. BrokenToolsStop'
  BY CallStops DEF BrokenToolsStop, GateInv, TooManyErrors
<1> QED
  BY <1>1, <1>2, CallStops DEF GateInv

\* An approved call goes on with what was asked for, and leaves a lease.
LEMMA CallApproved ==
  ASSUME GateInv, NEW c \in Invocations, ApprovalEnds(c, TRUE)
  PROVE  GateInv'
<1>s. PICK scope : scope = invocation[c].of
  OBVIOUS
<1>k. PICK k : k = leaseKey(scope)
  OBVIOUS
<1>a. PICK a : a = [call |-> c, of |-> scope, at |-> gateClock]
  OBVIOUS
<1>1. /\ invocation[c].at = "asking" /\ scope \in Scopes
      /\ InvocationGoes(c, "executing", "agent", scope)
      /\ consent' = consent \cup {a}
      /\ approvalLeases' = [approvalLeases EXCEPT ![k] = gateClock + LeaseTtl]
      /\ UNCHANGED <<gateClock, circuit, granted, earlier>>
  BY <1>s, <1>k, <1>a DEF ApprovalEnds, GateInv
<1>2. /\ invocation'[c] = [at |-> "executing", by |-> "agent", of |-> scope, since |-> gateClock]
      /\ \A d \in Invocations : d # c => invocation'[d] = invocation[d]
      /\ invocation' = [d \in Invocations |-> invocation'[d]]
  BY <1>1 DEF InvocationGoes, GateInv
<1>3. \A t \in GatedTools : InFlight(t)' \subseteq InFlight(t)
  BY <1>1, <1>2, <1>s DEF InFlight
<1>4. BrokenToolsStop'
  BY <1>1, <1>3 DEF BrokenToolsStop, GateInv, TooManyErrors
<1>5. LeasesInv'
  <2>1. LeaseIsOf(k, a)'
    BY <1>1, <1>a, <1>k, ScopeHasTool DEF LeaseIsOf, leaseKey, GateInv, LeasesInv
  <2>2. \A j \in ToolRuns \X GatedTools :
          j # k => approvalLeases'[j] = approvalLeases[j]
    BY <1>1 DEF GateInv, LeasesInv
  <2>3. \A j \in ToolRuns \X GatedTools : approvalLeases'[j] = 0 \/ \E b \in consent' : LeaseIsOf(j, b)'
    BY <1>1, <2>1, <2>2 DEF GateInv, LeasesInv, LeaseIsOf, leaseKey
  <2>4. approvalLeases' = [j \in ToolRuns \X GatedTools |-> approvalLeases'[j]]
    BY <1>1 DEF GateInv, LeasesInv
  <2> QED
    BY <1>1, <2>3, <2>4 DEF GateInv, LeasesInv
<1>6. Agreed(c)'
  BY <1>1, <1>2, <1>a DEF Agreed
<1>7. \A d \in Invocations : Agreed(d)'
  BY <1>1, <1>2, <1>6, ConsentStays DEF GateInv
<1> QED
  BY <1>1, <1>2, <1>4, <1>5, <1>7 DEF GateInv

\* The outcome that opens a circuit finds who is past its check.
LEMMA CallEnds ==
  ASSUME GateInv, NEW c \in Invocations, InvocationEnds(c)
  PROVE  GateInv'
<1>1. invocation[c].at = "executing" /\ invocation[c].of.tool \in GatedTools
  BY ScopeHasTool DEF InvocationEnds, GateInv
<1>t. PICK t \in GatedTools : t = invocation[c].of.tool
  BY <1>1
<1>2. PICK ok \in BOOLEAN : recordToolExecutionOutcome(t, ok)
  BY <1>t DEF InvocationEnds
<1>o. PICK o : o = LastOf(Append(circuit[t].outcomes, ok))
  OBVIOUS
<1>3. /\ circuit' = [circuit EXCEPT ![t] =
           [outcomes |-> o, disabled |-> circuit[t].disabled \/ TooManyErrors(o)]]
      /\ earlier' = earlier \cup
           (IF TooManyErrors(o) /\ ~circuit[t].disabled THEN InFlight(t) ELSE {})
  BY <1>2, <1>o DEF recordToolExecutionOutcome, GateInv
<1>4. InvocationStops(c, "over") /\ UNCHANGED <<gateClock, granted, approvalLeases, consent>>
  BY DEF InvocationEnds
<1>5. \A u \in GatedTools : InFlight(u)' \subseteq InFlight(u)
  BY <1>4, CallStops
<1>6. /\ circuit'[t].outcomes = o
      /\ circuit'[t].disabled <=> circuit[t].disabled \/ TooManyErrors(o)
      /\ \A u \in GatedTools : u # t => circuit'[u] = circuit[u]
      /\ circuit' = [u \in GatedTools |-> circuit'[u]]
  BY <1>3 DEF GateInv
<1>7. BrokenToolsStop'
  <2> SUFFICES ASSUME NEW u \in GatedTools
               PROVE  /\ TooManyErrors(circuit'[u].outcomes) => circuit'[u].disabled
                      /\ circuit'[u].disabled => InFlight(u)' \subseteq earlier'
    BY DEF BrokenToolsStop, TooManyErrors
  <2>1. CASE u = t
    BY <1>3, <1>5, <1>6, <2>1 DEF GateInv, BrokenToolsStop
  <2>2. CASE u # t
    BY <1>3, <1>5, <1>6, <2>2 DEF GateInv, BrokenToolsStop
  <2> QED
    BY <2>1, <2>2
<1>8. LeasesInv'
  BY <1>4 DEF GateInv, LeasesInv, LeaseIsOf, leaseKey
<1> QED
  BY <1>4, <1>6, <1>7, <1>8, CallStops DEF GateInv

LEMMA GateStep == GateInv /\ [GateNext]_gateVars => GateInv'
<1> SUFFICES ASSUME GateInv, [GateNext]_gateVars  PROVE GateInv'
  OBVIOUS
<1>0. gateClock \in Nat
  BY DEF GateInv, LeasesInv
<1>1. CASE UNCHANGED gateVars
  BY <1>0, <1>1, GateGrows DEF gateVars
<1>2. CASE GateTick
  BY <1>0, <1>2, GateGrows DEF GateTick
<1>3. ASSUME NEW scope \in Scopes, createActionGrant(scope)
      PROVE  GateInv'
  BY <1>0, <1>3, GateGrows DEF createActionGrant
<1>4. ASSUME NEW c \in Invocations, RefusedByPolicy(c)  PROVE GateInv'
  BY <1>4, CallRefused DEF RefusedByPolicy
<1>5. ASSUME NEW c \in Invocations, NEW approved \in BOOLEAN, ApprovalEnds(c, approved)
      PROVE  GateInv'
  <2>1. CASE approved
    BY <1>5, <2>1, CallApproved
  <2>2. CASE ~approved
    BY <1>5, <2>2, CallRefused DEF ApprovalEnds
  <2> QED
    BY <2>1, <2>2
<1> QED
  BY <1>1, <1>2, <1>3, <1>4, <1>5, CallBegins, CallEnds DEF GateNext

-----------------------------------------------------------------------------
(* StagingView: no approval reaches back behind what was on view. *)

\* Ids grow with every version that is staged, so the entry of a path is newer
\* than all the messages about it.
Outdone(v) ==
  /\ v \in Version
  /\ v.id < nextId
  /\ staging[v.path] # NotStaged => v.id <= staging[v.path].ver.id

\* What the view, the messages and the requests hold is outdone by the entry of
\* its path, and a handler writes what is not older than what it was sent for.
ViewInv ==
  /\ nextId \in Nat
  /\ staging \in [Paths -> {NotStaged} \cup Entry]
  /\ \A p \in Paths : staging[p] # NotStaged => staging[p].ver.id < nextId
  /\ inbox \in Seq(Version) /\ \A i \in 1 .. Len(inbox) : Outdone(inbox[i])
  /\ active # NoDiff => Outdone(active)
  /\ DOMAIN post = Requests /\ DOMAIN req = Requests
  /\ \A r \in Requests :
       /\ post[r] # NoPost => Outdone(post[r].ver)
       /\ req[r] # Idle => /\ req[r] \in Handler
                           /\ post[r].at = "handling"
                           /\ req[r].path = post[r].ver.path
                           /\ req[r].ver.id >= post[r].ver.id
LEMMA ViewBegins == ViewInit => ViewInv
BY DEF ViewInit, Init, ViewInv, NotStaged, Idle

\* What was staged stays, is approved or goes.
StagingThins ==
  /\ staging' \in [Paths -> {NotStaged} \cup Entry]
  /\ \A p \in Paths : staging'[p] # NotStaged =>
       staging[p] # NotStaged /\ staging'[p].ver = staging[p].ver
  /\ UNCHANGED nextId

LEMMA OutdoneStays ==
  ASSUME ViewInv, StagingThins, NEW v, Outdone(v)
  PROVE  Outdone(v)'
<1>1. v.path \in Paths
  BY DEF Outdone, Version
<1> QED
  BY <1>1 DEF Outdone, StagingThins

\* A handler on its way, as ViewInv has it.
Handles(r) == req[r] # Idle => /\ req[r] \in Handler
                               /\ post[r].at = "handling"
                               /\ req[r].path = post[r].ver.path
                               /\ req[r].ver.id >= post[r].ver.id

\* A step that stages nothing and shows nothing new keeps ViewInv if it keeps
\* what its request and its handler have in common.
LEMMA RequestKept ==
  ASSUME ViewInv, StagingThins, NEW r \in Requests,
         inbox' = inbox \/ inbox' = <<>>, active' = active \/ active' = NoDiff,
         DOMAIN post' = Requests, DOMAIN req' = Requests,
         \A q \in Requests : q # r => post'[q] = post[q] /\ req'[q] = req[q],
         post'[r] # NoPost => Outdone(post'[r].ver), Handles(r)'
  PROVE  ViewInv'
<1>1. \A v : Outdone(v) => Outdone(v)'
  BY OutdoneStays
<1>2. inbox' \in Seq(Version) /\ (\A i \in 1 .. Len(inbox) : Outdone(inbox[i]))'
  <2>1. CASE inbox' = inbox
    BY <1>1, <2>1 DEF ViewInv
  <2>2. CASE inbox' = <<>>
    BY <2>2
  <2> QED
    BY <2>1, <2>2
<1>3. (active # NoDiff => Outdone(active))'
  <2>1. CASE active' = active
    BY <1>1, <2>1 DEF ViewInv
  <2> QED
    BY <2>1 DEF NoDiff
<1>4. /\ nextId' \in Nat /\ staging' \in [Paths -> {NotStaged} \cup Entry]
      /\ \A p \in Paths : staging'[p] # NotStaged => staging'[p].ver.id < nextId'
  BY DEF ViewInv, StagingThins, NotStaged
<1>5. ASSUME NEW q \in Requests
      PROVE  ((post[q] # NoPost => Outdone(post[q].ver)) /\ Handles(q))'
  <2>1. CASE q = r
    BY <1>1, <2>1 DEF NoPost
  <2>2. CASE q # r
    BY <1>1, <2>2 DEF ViewInv, Handles, NoPost, Idle
  <2> QED
    BY <2>1, <2>2
<1> QED
  BY <1>2, <1>3, <1>4, <1>5 DEF ViewInv, Handles, NoPost, NoDiff, Idle, NotStaged

LEMMA VersionStaged ==
  ASSUME ViewInv, NEW u \in Users, NEW p \in Paths, NEW s \in Sizes, StageAndSend(u, p, s)
  PROVE  ViewInv'
<1> USE VFSAssumption
<1>0. PICK v : v = Staged(u, p, s)
  OBVIOUS
<1>1. PICK copies \in 0 .. 2 : inbox' = inbox \o [i \in 1 .. copies |-> v]
  BY <1>0 DEF StageAndSend
<1>2. /\ staging' = [staging EXCEPT ![p] = FreshEntry(u, p, s)]
      /\ nextId' = nextId + 1 /\ nextId \in Nat
      /\ UNCHANGED <<req, active, pending, fetched, post, shown>>
  BY DEF StageAndSend, Stage, ViewInv
<1>3. v \in Version /\ v.id = nextId /\ v.path = p
  BY <1>0, <1>2 DEF Staged, Version
<1>4. FreshEntry(u, p, s).ver = v /\ FreshEntry(u, p, s) \in Entry
  BY <1>0, <1>3 DEF Staged, FreshEntry, Entry
<1>5. /\ staging' \in [Paths -> {NotStaged} \cup Entry] /\ staging'[p].ver = v
      /\ \A q \in Paths : q # p => staging'[q] = staging[q]
  BY <1>2, <1>4 DEF ViewInv
<1>6. \A w : Outdone(w) => Outdone(w)'
  <2> SUFFICES ASSUME NEW w, Outdone(w)  PROVE Outdone(w)'
    OBVIOUS
  <2>1. w \in Version /\ w.id \in Nat /\ w.path \in Paths
    BY DEF Outdone, Version
  <2> QED
    BY <1>2, <1>3, <1>5, <2>1 DEF Outdone
<1>7. Outdone(v)'
  BY <1>2, <1>3, <1>5 DEF Outdone
<1>8. inbox' \in Seq(Version) /\ (\A i \in 1 .. Len(inbox) : Outdone(inbox[i]))'
  <2> DEFINE new == [i \in 1 .. copies |-> v]
  <2>1. new \in Seq(Version) /\ Len(new) = copies /\ \A i \in 1 .. copies : new[i] = v
    BY <1>3
  <2> HIDE DEF new
  <2>2. inbox \in Seq(Version) /\ inbox' = inbox \o new
    BY <1>1 DEF ViewInv, new
  <2>3. inbox' \in Seq(Version) /\ Len(inbox') = Len(inbox) + copies
    BY <2>1, <2>2
  <2>4. ASSUME NEW i \in 1 .. Len(inbox')  PROVE (Outdone(inbox[i]))'
    <3>1. CASE i <= Len(inbox)
      <4>1. i \in 1 .. Len(inbox) /\ inbox'[i] = inbox[i]
        BY <2>1, <2>2, <3>1
      <4> QED
        BY <1>6, <4>1 DEF ViewInv, Outdone
    <3>2. CASE i > Len(inbox)
      <4>1. inbox'[i] = v
        BY <2>1, <2>2, <2>3, <3>2
      <4> QED
        BY <1>7, <4>1 DEF Outdone
    <3> QED
      BY <2>2, <3>1, <3>2
  <2> QED
    BY <2>3, <2>4
<1>9. \A q \in Paths : staging'[q] # NotStaged => staging'[q].ver.id < nextId'
  BY <1>2, <1>3, <1>5 DEF ViewInv, Entry, Version, NotStaged
<1>10. nextId' \in Nat
  BY <1>2
<1>11. (\A r \in Requests : post[r] # NoPost => Outdone(post[r].ver))'
  BY <1>2, <1>6 DEF ViewInv
<1>12. (active # NoDiff => Outdone(active))'
  BY <1>2, <1>6 DEF ViewInv
<1> QED
  BY <1>2, <1>5, <1>8, <1>9, <1>10, <1>11, <1>12 DEF ViewInv, NoPost, NoDiff, Idle, NotStaged

LEMMA VersionShown == ViewInv /\ stageProposedChanges => ViewInv'
<1> SUFFICES ASSUME ViewInv, stageProposedChanges  PROVE ViewInv'
  OBVIOUS
<1>1. /\ inbox # <<>> /\ inbox' = Tail(inbox) /\ active' = Head(inbox)
      /\ UNCHANGED <<staging, req, nextId, post>>
  BY DEF stageProposedChanges, vars
<1>2. \A v : Outdone(v) => Outdone(v)'
  BY <1>1 DEF Outdone
<1>3. inbox' \in Seq(Version) /\ Len(inbox') = Len(inbox) - 1 /\ Len(inbox) \in Nat
      /\ \A i \in 1 .. Len(inbox') : inbox'[i] = inbox[i + 1]
  BY <1>1 DEF ViewInv
<1>4. (\A i \in 1 .. Len(inbox) : Outdone(inbox[i]))'
  BY <1>2, <1>3 DEF ViewInv
<1>5. Outdone(active)'
  <2>1. 1 \in 1 .. Len(inbox) /\ active' = inbox[1]
    BY <1>1, <1>3 DEF ViewInv
  <2> QED
    BY <1>2, <2>1 DEF ViewInv
<1> QED
  BY <1>1, <1>2, <1>3, <1>4, <1>5 DEF ViewInv, NoPost, NoDiff, Idle, NotStaged

LEMMA StagingStays == ASSUME ViewInv, UNCHANGED <<staging, nextId>>  PROVE StagingThins
BY DEF ViewInv, StagingThins

LEMMA StagingTaken ==
  ASSUME ViewInv, NEW p, staging' = [staging EXCEPT ![p] = NotStaged], UNCHANGED nextId
  PROVE  StagingThins
BY DEF ViewInv, StagingThins, NotStaged

LEMMA ViewRequests ==
  ASSUME ViewInv, NEW r \in Requests,
         \/ \E approved \in BOOLEAN : Respond(r, approved)
         \/ HandleApproval(r) \/ HandleRejection(r) \/ HandlerGoesOn(r)
         \/ Responded(r) \/ RespondFails(r)
  PROVE  ViewInv'
<1>0. /\ DOMAIN post = Requests /\ DOMAIN req = Requests /\ Handles(r)
      /\ post[r] # NoPost => Outdone(post[r].ver)
  BY DEF ViewInv, Handles
<1>1. ASSUME NEW approved \in BOOLEAN, Respond(r, approved)  PROVE ViewInv'
  <2>1. /\ active # NoDiff /\ post[r] = NoPost
        /\ post' = [post EXCEPT ![r] = [at |-> "sent", ver |-> active, approved |-> approved]]
        /\ UNCHANGED <<staging, nextId, req, inbox, active>>
    BY <1>1 DEF Respond, vars
  <2>2. req[r] = Idle
    BY <1>0, <2>1 DEF Handles, NoPost
  <2>3. /\ DOMAIN post' = Requests /\ post'[r].ver = active
        /\ \A q \in Requests : q # r => post'[q] = post[q]
    BY <1>0, <2>1
  <2>4. Outdone(post'[r].ver) /\ Handles(r)'
    BY <2>1, <2>2, <2>3 DEF ViewInv, Handles, Idle
  <2> QED
    BY <1>0, <2>1, <2>3, <2>4, StagingStays, RequestKept
<1>2. CASE HandleApproval(r)
  <2>1. post[r].at = "sent" /\ UNCHANGED <<inbox, active>>
    BY <1>2 DEF HandleApproval
  <2>2. post[r] # NoPost /\ post[r].ver.path \in Paths /\ post[r].ver \in Version
    BY <1>0, <2>1 DEF NoPost, Outdone, Version
  <2>3. CASE ApproveFile(r, Viewer, post[r].ver.path) /\ Answer(r, "handling")
    <3> DEFINE p == post[r].ver.path
               h == [pc |-> "approved", user |-> Viewer, path |-> p, ver |-> staging[p].ver]
    <3>1. /\ req[r] = Idle /\ staging[p] # NotStaged
          /\ staging' = [staging EXCEPT ![p].status = "approved"]
          /\ req' = [req EXCEPT ![r] = h] /\ UNCHANGED nextId
          /\ post' = [post EXCEPT ![r].at = "handling"]
      BY <2>3 DEF ApproveFile, OwnedBy, Answer
    <3>2. /\ DOMAIN post' = Requests /\ post'[r].at = "handling" /\ post'[r].ver = post[r].ver
          /\ \A q \in Requests : q # r => post'[q] = post[q]
      BY <1>0, <2>1, <3>1 DEF NoPost
    <3>3. staging[p] \in Entry /\ staging[p].ver \in Version
      BY <2>2, <3>1 DEF ViewInv, Entry
    <3>4. StagingThins
      BY <2>2, <3>1, <3>3 DEF ViewInv, StagingThins, Entry, NotStaged
    <3>5. h \in Handler /\ h.path = p /\ h.ver = staging[p].ver
      BY <2>2, <3>3, ViewerAssumption DEF Handler
    <3>6. staging[p].ver.id >= post[r].ver.id
      BY <1>0, <2>2, <3>1, <3>3 DEF Outdone, Version
    <3>7. req'[r] = h /\ DOMAIN req' = Requests /\ \A q \in Requests : q # r => req'[q] = req[q]
      BY <1>0, <3>1
    <3> HIDE DEF h
    <3>8. Handles(r)'
      BY <3>2, <3>5, <3>6, <3>7 DEF Handles
    <3> QED
      BY <1>0, <2>1, <2>2, <3>2, <3>4, <3>7, <3>8, RequestKept
  <2>4. CASE Answer(r, "error") /\ UNCHANGED vars
    <3>1. /\ DOMAIN post' = Requests /\ post'[r].ver = post[r].ver
          /\ \A q \in Requests : q # r => post'[q] = post[q]
      BY <1>0, <2>1, <2>4 DEF Answer, NoPost
    <3>2. req[r] = Idle /\ UNCHANGED <<req, staging, nextId>>
      BY <1>0, <2>1, <2>4 DEF Handles, vars
    <3>3. Handles(r)'
      BY <3>2 DEF Handles, Idle
    <3> QED
      BY <1>0, <2>1, <2>2, <3>1, <3>2, <3>3, StagingStays, RequestKept
  <2> QED
    BY <1>2, <2>3, <2>4 DEF HandleApproval
<1>3. CASE HandleRejection(r)
  <2>1. /\ post[r].at = "sent" /\ UNCHANGED <<inbox, active>>
        /\ \E a \in {"ok", "error"} : Answer(r, a)
    BY <1>3 DEF HandleRejection
  <2>2. post[r] # NoPost /\ req[r] = Idle
    BY <1>0, <2>1 DEF NoPost, Handles
  <2>3. UNCHANGED <<req, nextId>> /\ StagingThins
    <3>1. CASE RejectFile(Viewer, post[r].ver.path)
      BY <3>1, StagingTaken DEF RejectFile
    <3>2. CASE UNCHANGED vars
      BY <3>2, StagingStays DEF vars
    <3> QED
      BY <1>3, <3>1, <3>2 DEF HandleRejection
  <2>4. /\ DOMAIN post' = Requests /\ post'[r].ver = post[r].ver
        /\ \A q \in Requests : q # r => post'[q] = post[q]
    BY <1>0, <2>1 DEF Answer, NoPost
  <2>5. Handles(r)'
    BY <2>2, <2>3 DEF Handles, Idle
  <2> QED
    BY <1>0, <2>1, <2>2, <2>3, <2>4, <2>5, RequestKept
<1>4. CASE HandlerGoesOn(r)
  <2>1. UNCHANGED <<inbox, active, nextId>>
    BY <1>4 DEF HandlerGoesOn, StartCommit, OpenFile, WriteFile, FinishCommit, RefuseCommit, CommitFails
  <2>2. req[r] # Idle
    BY <1>4 DEF HandlerGoesOn, StartCommit, OpenFile, WriteFile, FinishCommit, RefuseCommit,
                CommitFails, Idle
  <2>3. /\ req[r] \in Handler /\ post[r].at = "handling" /\ post[r] # NoPost
        /\ req[r].path = post[r].ver.path /\ req[r].ver.id >= post[r].ver.id
        /\ req[r].path \in Paths
    BY <1>0, <2>2 DEF Handles, Handler, NoPost
  <2>4. CASE StartCommit(r) /\ UNCHANGED post
    <3> DEFINE e == staging[req[r].path].ver
               h == [req[r] EXCEPT !.pc = "mkdir", !.ver = e]
    <3>1. req' = [req EXCEPT ![r] = h] /\ staging[req[r].path] # NotStaged /\ UNCHANGED staging
      BY <2>3, <2>4 DEF StartCommit, MayCommit, OwnedBy, ViewInv
    <3>2. e \in Version
      BY <2>3, <3>1 DEF ViewInv, Entry
    <3>3. e.id >= post[r].ver.id
      BY <1>0, <2>3, <3>1, <3>2 DEF Outdone, Version
    <3> HIDE DEF e
    <3>4. h \in Handler /\ h.path = req[r].path /\ h.ver = e
      BY <2>3, <3>2 DEF Handler
    <3>5. req'[r] = h /\ DOMAIN req' = Requests /\ \A q \in Requests : q # r => req'[q] = req[q]
      BY <1>0, <3>1
    <3> HIDE DEF h
    <3>6. Handles(r)'
      BY <2>3, <2>4, <3>3, <3>4, <3>5 DEF Handles
    <3> QED
      BY <1>0, <2>1, <2>3, <2>4, <3>1, <3>5, <3>6, StagingStays, RequestKept
  <2>5. CASE (OpenFile(r) \/ WriteFile(r)) /\ UNCHANGED post
    <3>1. PICK pc \in {"opened", "written"} : req' = [req EXCEPT ![r].pc = pc]
      BY <2>5 DEF OpenFile, WriteFile
    <3>2. UNCHANGED staging
      BY <2>5 DEF OpenFile, WriteFile
    <3>3. /\ DOMAIN req' = Requests /\ \A q \in Requests : q # r => req'[q] = req[q]
          /\ req'[r] \in Handler /\ req'[r].path = req[r].path /\ req'[r].ver = req[r].ver
      BY <1>0, <2>3, <3>1 DEF Handler
    <3>4. Handles(r)'
      BY <2>3, <2>5, <3>3 DEF Handles
    <3> QED
      BY <1>0, <2>1, <2>3, <2>5, <3>2, <3>3, <3>4, StagingStays, RequestKept
  <2>6. CASE /\ FinishCommit(r) \/ RefuseCommit(r) \/ CommitFails(r)
             /\ \E a \in {"ok", "error"} : Answer(r, a)
    <3>1. req' = [req EXCEPT ![r] = Idle]
      BY <2>6 DEF FinishCommit, RefuseCommit, CommitFails
    <3>2. StagingThins
      <4>1. CASE FinishCommit(r)
        BY <4>1, StagingTaken DEF FinishCommit
      <4>2. CASE RefuseCommit(r) \/ CommitFails(r)
        BY <4>2, StagingStays DEF RefuseCommit, CommitFails
      <4> QED
        BY <2>6, <4>1, <4>2
    <3>3. /\ DOMAIN post' = Requests /\ post'[r].ver = post[r].ver
          /\ \A q \in Requests : q # r => post'[q] = post[q]
      BY <1>0, <2>3, <2>6 DEF Answer, NoPost
    <3>4. /\ DOMAIN req' = Requests /\ req'[r] = Idle
          /\ \A q \in Requests : q # r => req'[q] = req[q]
      BY <1>0, <3>1
    <3>5. Handles(r)'
      BY <3>4 DEF Handles, Idle
    <3> QED
      BY <1>0, <2>1, <2>3, <3>2, <3>3, <3>4, <3>5, RequestKept
  <2> QED
    BY <1>4, <2>4, <2>5, <2>6 DEF HandlerGoesOn
<1>5. CASE Responded(r) \/ RespondFails(r)
  <2>1. /\ post[r].at \in {"ok", "error"} /\ post' = [post EXCEPT ![r] = NoPost]
        /\ UNCHANGED <<staging, nextId, req, inbox>> /\ (active' = active \/ active' = NoDiff)
    BY <1>5 DEF Responded, RespondFails, vars
  <2>2. req[r] = Idle
    BY <1>0, <2>1 DEF Handles
  <2>3. /\ DOMAIN post' = Requests /\ post'[r] = NoPost
        /\ \A q \in Requests : q # r => post'[q] = post[q]
    BY <1>0, <2>1
  <2>4. Handles(r)'
    BY <2>1, <2>2 DEF Handles, Idle
  <2> QED
    BY <1>0, <2>1, <2>3, <2>4, StagingStays, RequestKept
<1> QED
  BY <1>1, <1>2, <1>3, <1>4, <1>5

LEMMA NoRequestMoves ==
  ASSUME ViewInv, StagingThins, UNCHANGED <<post, req>>,
         inbox' = inbox \/ inbox' = <<>>, active' = active
  PROVE  ViewInv'
<1>1. CASE Requests = {}
  <2>1. \A v : Outdone(v) => Outdone(v)'
    BY OutdoneStays
  <2>2. inbox' \in Seq(Version) /\ (\A i \in 1 .. Len(inbox) : Outdone(inbox[i]))'
    <3>1. CASE inbox' = inbox
      BY <2>1, <3>1 DEF ViewInv
    <3>2. CASE inbox' = <<>>
      BY <3>2
    <3> QED
      BY <3>1, <3>2
  <2> QED
    BY <1>1, <2>1, <2>2 DEF ViewInv, StagingThins, NotStaged, NoDiff
<1>2. CASE Requests # {}
  <2>1. PICK r \in Requests : TRUE
    BY <1>2
  <2>2. (post[r] # NoPost => Outdone(post[r].ver)) /\ Handles(r)'
    BY DEF ViewInv, Handles
  <2> QED
    BY <2>2, RequestKept DEF ViewInv
<1> QED
  BY <1>1, <1>2

LEMMA ViewStep == ViewInv /\ [ViewNext]_<<vars, viewVars>> => ViewInv'
<1> SUFFICES ASSUME ViewInv, [ViewNext]_<<vars, viewVars>>  PROVE ViewInv'
  OBVIOUS
<1>1. ASSUME UNCHANGED <<staging, nextId, post, req, active>>, inbox' = inbox \/ inbox' = <<>>
      PROVE  ViewInv'
  BY <1>1, StagingStays, NoRequestMoves
<1>2. CASE MessagesLost \/ handleGetPendingFiles \/ fetchPendingFiles \/ UNCHANGED <<vars, viewVars>>
  BY <1>1, <1>2 DEF MessagesLost, handleGetPendingFiles, fetchPendingFiles, vars, viewVars
<1>3. CASE ClearExpired /\ UNCHANGED viewVars
  <2>1. PICK expired \in SUBSET Paths :
          /\ staging' = [p \in Paths |-> IF p \in expired THEN NotStaged ELSE staging[p]]
          /\ UNCHANGED <<req, nextId>>
    BY <1>3 DEF ClearExpired, StagedPaths
  <2>2. StagingThins
    BY <2>1 DEF StagingThins, ViewInv
  <2> QED
    BY <1>3, <2>1, <2>2, NoRequestMoves DEF viewVars
<1> QED
  BY <1>2, <1>3, VersionStaged, VersionShown, ViewRequests DEF ViewNext

LEMMA ViewIsCurrent == ViewInv => NeverOlderThanShown
BY DEF ViewInv, NeverOlderThanShown

\* What an approval of this browser writes is never older than the version the
\* user had on view.
THEOREM NoneOlderWritten == ViewSpec => []NeverOlderThanShown
BY ViewBegins, ViewStep, ViewIsCurrent, PTL DEF ViewSpec
-----------------------------------------------------------------------------
(* BrowserSession: the page has one socket, and what the server waits for. *)

PlanMessage(p) == [type |-> "plan", plan |-> p]
PageMessages == {PlanMessage(p) : p \in Plans} \cup [type : {"tool"}]
                  \cup [type : {"thinking"}, value : BOOLEAN]

\* From i on, the queue holds no plan.
NoPlanFrom(s, i) == \A j \in 1 .. Len(s) : j >= i => s[j].type # "plan"

\* A plan is on the screen, and no other comes after it; or it is on its way and
\* the last to come.
OnItsWay(p, s) ==
  \/ gate = {p} /\ NoPlanFrom(s, 1)
  \/ \E i \in 1 .. Len(s) : s[i] = PlanMessage(p) /\ NoPlanFrom(s, i + 1)

\* The effect runs once at a time, sockets of a run that ended are never opened
\* again, a session runs on an open socket and waits for what it asked through it.
PageInv ==
  /\ \A n, m \in Mounts : {mount[n], mount[m]} \subseteq {"booting", "live"} => n = m
  /\ DOMAIN mount = Mounts /\ DOMAIN ws = Mounts
  /\ coming \in [Mounts -> Seq(PageMessages)]
  /\ running \subseteq Mounts
  /\ \A n \in Mounts : /\ mount[n] = "live" => ws[n] # "closing"
                       /\ n \in running => /\ ws[n] \in {"open", "closing"}
                                            /\ mount[n] \in {"live", "over"}
  /\ overlapped \in BOOLEAN
  /\ plan \in [Plans -> [of : Mounts \cup {NoSocket},
                         at : {"new", "pending", "answering", "over"}]]
  /\ \A p \in Plans :
       /\ plan[p].at \in {"pending", "answering"} => plan[p].of \in running
       /\ plan[p].at = "pending" /\ ~overlapped /\ plan[p].of \in Live
            => OnItsWay(p, coming[plan[p].of])
LEMMA PageBegins == SessionPageInit => PageInv
<1> SUFFICES ASSUME SessionPageInit  PROVE PageInv
  OBVIOUS
<1>1. /\ \A n \in Mounts : mount[n] = "new" /\ ws[n] = "none"
      /\ \A p \in Plans : plan[p].at = "new"
  BY DEF SessionPageInit
<1>2. \A n, m \in Mounts : ~({mount[n], mount[m]} \subseteq {"booting", "live"})
  BY <1>1
<1>3. plan \in [Plans -> [of : Mounts \cup {NoSocket},
                         at : {"new", "pending", "answering", "over"}]]
  BY DEF SessionPageInit
<1>4. coming \in [Mounts -> Seq(PageMessages)]
  BY DEF SessionPageInit
<1> QED
  BY <1>1, <1>2, <1>3, <1>4 DEF SessionPageInit, PageInv

\* A queue that loses its head, or gets something behind that is no plan.
LEMMA PlansAhead ==
  ASSUME NEW s \in Seq(PageMessages), NEW p, NEW i \in Nat, NoPlanFrom(s, i)
  PROVE  /\ \A m \in PageMessages : m.type # "plan" => NoPlanFrom(Append(s, m), i)
         /\ s # <<>> /\ i > 1 => NoPlanFrom(Tail(s), i - 1)
         /\ s # <<>> => NoPlanFrom(Tail(s), i)
<1> USE DEF NoPlanFrom
<1>1. ASSUME NEW m \in PageMessages, m.type # "plan"  PROVE NoPlanFrom(Append(s, m), i)
  BY <1>1
<1>2. ASSUME s # <<>>
      PROVE  NoPlanFrom(Tail(s), i) /\ (i > 1 => NoPlanFrom(Tail(s), i - 1))
  <2>1. \A j \in 1 .. Len(Tail(s)) : j + 1 \in 1 .. Len(s) /\ Tail(s)[j] = s[j + 1]
    BY <1>2
  <2> QED
    BY <2>1
<1> QED
  BY <1>1, <1>2

LEMMA PlanMessages ==
  \A p \in Plans : PlanMessage(p) \in PageMessages /\ PlanMessage(p).type = "plan"
                     /\ PlanMessage(p).plan = p
BY DEF PlanMessage, PageMessages

LEMMA WayGrows ==
  ASSUME NEW s \in Seq(PageMessages), NEW p \in Plans, OnItsWay(p, s), NEW m \in PageMessages,
         m.type # "plan"
  PROVE  OnItsWay(p, Append(s, m))
<1>1. CASE gate = {p} /\ NoPlanFrom(s, 1)
  BY <1>1, PlansAhead DEF OnItsWay
<1>2. ASSUME NEW i \in 1 .. Len(s), s[i] = PlanMessage(p), NoPlanFrom(s, i + 1)
      PROVE  OnItsWay(p, Append(s, m))
  <2>1. NoPlanFrom(Append(s, m), i + 1)
    BY <1>2, PlansAhead
  <2>2. i \in 1 .. Len(Append(s, m)) /\ Append(s, m)[i] = PlanMessage(p)
    BY <1>2
  <2> QED
    BY <2>1, <2>2 DEF OnItsWay
<1> QED
  BY <1>1, <1>2 DEF OnItsWay

\* What the page has and what the server waits for, when nothing but the socket
\* of a session moves.
PlanIsShown(p) ==
  /\ plan[p].at \in {"pending", "answering"} => plan[p].of \in running
  /\ plan[p].at = "pending" /\ ~overlapped /\ plan[p].of \in Live
       => OnItsWay(p, coming[plan[p].of])

LEMMA QueueGrows ==
  ASSUME PageInv, NEW n \in Mounts, NEW m \in PageMessages, Sends(n, m), UNCHANGED <<mount, ws, gate>>
  PROVE  /\ coming' \in [Mounts -> Seq(PageMessages)]
         /\ coming'[n] = Append(coming[n], m)
         /\ \A k \in Mounts : k # n => coming'[k] = coming[k]
         /\ m.type # "plan" =>
              \A p \in Plans, k \in Mounts : OnItsWay(p, coming[k]) => OnItsWay(p, coming'[k])
<1>1. coming' = [coming EXCEPT ![n] = Append(@, m)]
  BY DEF Sends
<1>2. coming[n] \in Seq(PageMessages)
  BY DEF PageInv
<1>3. /\ coming' \in [Mounts -> Seq(PageMessages)]
      /\ coming'[n] = Append(coming[n], m)
      /\ \A k \in Mounts : k # n => coming'[k] = coming[k]
  BY <1>1, <1>2 DEF PageInv
<1> QED
  BY <1>2, <1>3, WayGrows

LEMMA EffectMoves ==
  ASSUME PageInv,
         \/ \E same \in BOOLEAN : UserChanges(same)
         \/ \E n \in Mounts : Boot(n) \/ Opens(n)
  PROVE  PageInv'
<1>0. UNCHANGED <<coming, gate, running, plan, overlapped>>
  BY DEF UserChanges, Boot, Opens, screenVars, serverVars
<1>1. ASSUME NEW same \in BOOLEAN, UserChanges(same)  PROVE PageInv'
  <2>1. /\ ws' = [n \in Mounts |-> Left(n)]
        /\ \/ \E n \in Mounts :
                /\ mount[n] = "new"
                /\ mount' = [[m \in Mounts |-> Cleaned(m)] EXCEPT ![n] = "booting"]
           \/ mount' = [m \in Mounts |-> Cleaned(m)]
    BY <1>1 DEF UserChanges
  <2>2. \A n \in Mounts : Cleaned(n) \notin {"booting", "live"}
                          /\ (mount[n] = "over" => Cleaned(n) = "over")
                          /\ (mount[n] = "live" => Cleaned(n) = "over")
    BY DEF Cleaned
  <2>3. /\ \A n, m \in Mounts : {mount'[n], mount'[m]} \subseteq {"booting", "live"} => n = m
        /\ \A n \in Mounts : mount'[n] # "live"
        /\ DOMAIN mount' = Mounts
        /\ \A n \in Mounts : mount[n] \in {"live", "over"} => mount'[n] = "over"
    <3>1. CASE mount' = [m \in Mounts |-> Cleaned(m)]
      BY <2>2, <3>1
    <3>2. ASSUME NEW k \in Mounts, mount[k] = "new",
                 mount' = [[m \in Mounts |-> Cleaned(m)] EXCEPT ![k] = "booting"]
          PROVE  /\ \A n, m \in Mounts : {mount'[n], mount'[m]} \subseteq {"booting", "live"} => n = m
                 /\ \A n \in Mounts : mount'[n] # "live"
                 /\ DOMAIN mount' = Mounts
                 /\ \A n \in Mounts : mount[n] \in {"live", "over"} => mount'[n] = "over"
      <4>1. mount'[k] = "booting" /\ \A m \in Mounts : m # k => mount'[m] = Cleaned(m)
        BY <3>2
      <4> QED
        BY <2>2, <3>2, <4>1
    <3> QED
      BY <2>1, <3>1, <3>2
  <2>4. \A n \in Mounts : n \in running => ws'[n] \in {"open", "closing"}
    BY <2>1 DEF PageInv, Left
  <2>5. Live' = {}
    BY <2>3 DEF Live
  <2> QED
    BY <1>0, <2>1, <2>3, <2>4, <2>5 DEF PageInv
<1>2. ASSUME NEW n \in Mounts, Boot(n)  PROVE PageInv'
  <2>1. CASE /\ mount[n] = "booting"
             /\ mount' = [mount EXCEPT ![n] = "live"]
             /\ ws' = [ws EXCEPT ![n] = "connecting"]
    <3>1. n \notin running
      BY <2>1 DEF PageInv
    <3>2. \A p \in Plans : plan[p].at = "pending" => plan[p].of # n
      BY <3>1 DEF PageInv
    <3>3. Live' = Live \cup {n}
      BY <2>1 DEF Live, PageInv
    <3>4. \A p \in Plans : PlanIsShown(p)'
      BY <1>0, <3>2, <3>3 DEF PageInv, PlanIsShown, OnItsWay
    <3> QED
      BY <1>0, <2>1, <3>1, <3>4 DEF PageInv, PlanIsShown
  <2>2. CASE /\ mount[n] \in {"booting", "cancelled"}
             /\ mount' = [mount EXCEPT ![n] = "over"] /\ UNCHANGED ws
    <3>1. Live' = Live
      BY <2>2 DEF Live, PageInv
    <3>2. \A p \in Plans : PlanIsShown(p)'
      BY <1>0, <3>1 DEF PageInv, PlanIsShown, OnItsWay
    <3> QED
      BY <1>0, <2>2, <3>2 DEF PageInv, PlanIsShown
  <2> QED
    BY <1>2, <2>1, <2>2 DEF Boot
<1>3. ASSUME NEW n \in Mounts, Opens(n)  PROVE PageInv'
  <2>1. ws[n] = "connecting" /\ ws' = [ws EXCEPT ![n] = "open"] /\ UNCHANGED mount
    BY <1>3 DEF Opens
  <2>2. \A p \in Plans : PlanIsShown(p)'
    BY <1>0, <2>1 DEF PageInv, PlanIsShown, OnItsWay, Live
  <2> QED
    BY <1>0, <2>1, <2>2 DEF PageInv, PlanIsShown
<1> QED
  BY <1>1, <1>2, <1>3

LEMMA OneSocketCloses == ASSUME PageInv, NEW n \in Mounts, Closes(n)  PROVE PageInv'
<1>1. /\ ws' = [ws EXCEPT ![n] = "closed"]
      /\ coming' = [coming EXCEPT ![n] = <<>>]
      /\ running' = running \ {n}
      /\ plan' = [p \in Plans |-> IF plan[p].of = n THEN [plan[p] EXCEPT !.at = "over"]
                                  ELSE plan[p]]
      /\ UNCHANGED <<mount, gate, overlapped>>
  BY DEF Closes, screenVars
<1>2. \A p \in Plans : /\ plan[p].of = n => plan'[p].of = n /\ plan'[p].at = "over"
                       /\ plan[p].of # n => plan'[p] = plan[p]
                       /\ plan'[p] \in [of : Mounts \cup {NoSocket},
                                        at : {"new", "pending", "answering", "over"}]
  BY <1>1 DEF PageInv
<1>3. coming' \in [Mounts -> Seq(PageMessages)] /\ \A k \in Mounts : k # n => coming'[k] = coming[k]
  BY <1>1 DEF PageInv
<1>4. \A p \in Plans : PlanIsShown(p)'
  BY <1>1, <1>2, <1>3 DEF PageInv, PlanIsShown, OnItsWay, Live
<1>5. plan' \in [Plans -> [of : Mounts \cup {NoSocket},
                           at : {"new", "pending", "answering", "over"}]]
  BY <1>1, <1>2
<1> QED
  BY <1>1, <1>3, <1>4, <1>5 DEF PageInv, PlanIsShown

\* A message reaches the page.
LEMMA PageTold == ASSUME PageInv, NEW n \in Mounts, Delivered(n)  PROVE PageInv'
<1> DEFINE s == coming[n]
           msg == Head(s)
<1>1. /\ s # <<>> /\ coming' = [coming EXCEPT ![n] = Tail(s)]
      /\ gate' = IF mount[n] = "live" /\ msg.type = "plan" THEN {msg.plan} ELSE gate
      /\ UNCHANGED <<mount, ws, running, plan, overlapped>>
  BY DEF Delivered
<1>2. s \in Seq(PageMessages) /\ Tail(s) \in Seq(PageMessages) /\ 1 \in 1 .. Len(s) /\ msg = s[1]
      /\ Len(Tail(s)) = Len(s) - 1 /\ \A j \in 1 .. Len(Tail(s)) : Tail(s)[j] = s[j + 1]
  BY <1>1 DEF PageInv
<1>3. /\ coming' \in [Mounts -> Seq(PageMessages)] /\ coming'[n] = Tail(s)
      /\ \A k \in Mounts : k # n => coming'[k] = coming[k]
  BY <1>1, <1>2 DEF PageInv
<1>4. ASSUME NEW p \in Plans, plan[p].at = "pending", ~overlapped, plan[p].of \in Live
      PROVE  OnItsWay(p, coming[plan[p].of])'
  <2>1. OnItsWay(p, coming[plan[p].of]) /\ plan[p].of \in Mounts /\ mount[plan[p].of] = "live"
    BY <1>4 DEF PageInv, Live
  <2>2. CASE plan[p].of # n
    <3>1. mount[n] # "live"
      BY <2>1, <2>2 DEF PageInv
    <3>2. gate' = gate /\ coming'[plan[p].of] = coming[plan[p].of]
      BY <1>1, <1>3, <2>1, <2>2, <3>1
    <3> QED
      BY <1>1, <2>1, <3>2 DEF OnItsWay
  <2>3. CASE plan[p].of = n
    <3>1. OnItsWay(p, s)
      BY <2>1, <2>3
    <3>2. CASE gate = {p} /\ NoPlanFrom(s, 1)
      <4>1. gate' = gate
        BY <1>1, <1>2, <3>2 DEF NoPlanFrom
      <4>2. NoPlanFrom(Tail(s), 1)
        BY <1>1, <1>2, <3>2, PlansAhead
      <4> QED
        BY <1>1, <1>3, <2>3, <3>2, <4>1, <4>2 DEF OnItsWay
    <3>3. ASSUME NEW i \in 1 .. Len(s), s[i] = PlanMessage(p), NoPlanFrom(s, i + 1)
          PROVE  OnItsWay(p, coming[plan[p].of])'
      <4>1. CASE i = 1
        <5>1. gate' = {p}
          BY <1>1, <1>2, <2>1, <2>3, <3>3, <4>1, PlanMessages
        <5>2. NoPlanFrom(Tail(s), 1)
          BY <1>1, <1>2, <3>3, <4>1, PlansAhead
        <5> QED
          BY <1>1, <1>3, <2>3, <5>1, <5>2 DEF OnItsWay
      <4>2. CASE i > 1
        <5>1. i - 1 \in 1 .. Len(Tail(s)) /\ Tail(s)[i - 1] = PlanMessage(p)
          BY <1>2, <3>3, <4>2
        <5>2. NoPlanFrom(Tail(s), (i - 1) + 1)
          <6>1. i + 1 \in Nat /\ i + 1 > 1 /\ (i + 1) - 1 = (i - 1) + 1
            BY <1>2
          <6> QED
            BY <1>1, <1>2, <3>3, <6>1, PlansAhead
        <5> QED
          BY <1>1, <1>3, <2>3, <5>1, <5>2 DEF OnItsWay
      <4> QED
        BY <1>2, <4>1, <4>2
    <3> QED
      BY <3>1, <3>2, <3>3 DEF OnItsWay
  <2> QED
    BY <2>2, <2>3
<1> QED
  BY <1>1, <1>3, <1>4 DEF PageInv, Live

LEMMA SessionsMove ==
  ASSUME PageInv, NEW n \in Mounts,
         ServerCallsTool(n) \/ RunEnds(n) \/ sendPrompt(n)
  PROVE  PageInv'
<1> DEFINE beat == [type |-> "tool"]
           off == [type |-> "thinking", value |-> FALSE]
           on == [type |-> "thinking", value |-> TRUE]
<1>1. /\ {beat, off, on} \subseteq PageMessages
      /\ beat.type # "plan" /\ off.type # "plan" /\ on.type # "plan"
  BY DEF PageMessages
<1>2. UNCHANGED <<mount, ws, gate, plan, overlapped>>
  BY DEF ServerCallsTool, RunEnds, sendPrompt, screenVars
<1>3. Sends(n, beat) \/ Sends(n, off) \/ Sends(n, on)
  BY DEF ServerCallsTool, RunEnds, sendPrompt
<1> HIDE DEF beat, off, on
<1>4. /\ coming' \in [Mounts -> Seq(PageMessages)]
      /\ \A p \in Plans, k \in Mounts : OnItsWay(p, coming[k]) => OnItsWay(p, coming'[k])
  BY <1>1, <1>2, <1>3, QueueGrows
<1>5. /\ running' \subseteq Mounts
      /\ \A k \in running' : k \in running \/ (k = n /\ mount[n] = "live" /\ ws[n] = "open")
      /\ \A p \in Plans : plan[p].at \in {"pending", "answering"} => plan[p].of \in running'
  BY DEF ServerCallsTool, RunEnds, sendPrompt, PageInv, Live
<1>6. \A p \in Plans : plan[p].at = "pending" /\ ~overlapped /\ plan[p].of \in Live
                         => OnItsWay(p, coming[plan[p].of])'
  BY <1>2, <1>4 DEF PageInv, Live, OnItsWay
<1> QED
  BY <1>2, <1>4, <1>5, <1>6 DEF PageInv, Live

LEMMA PlanAsked ==
  ASSUME PageInv, NEW n \in Mounts, NEW p \in Plans, ServerAsksPlan(n, p)  PROVE PageInv'
<1> DEFINE m == PlanMessage(p)
<1>1. /\ n \in running /\ plan' = [plan EXCEPT ![p] = [of |-> n, at |-> "pending"]]
      /\ Sends(n, m)
      /\ overlapped' = (overlapped \/ \E q \in Plans : plan[q].at \in {"pending", "answering"})
      /\ UNCHANGED <<mount, ws, gate, running>>
  BY DEF ServerAsksPlan, screenVars, PlanMessage
<1>2. m \in PageMessages
  BY PlanMessages
<1>3. coming' \in [Mounts -> Seq(PageMessages)] /\ coming'[n] = Append(coming[n], m)
  BY <1>1, <1>2, QueueGrows
<1>4. OnItsWay(p, coming[n])'
  <2>1. coming[n] \in Seq(PageMessages)
    BY DEF PageInv
  <2>2. /\ Len(coming[n]) + 1 \in 1 .. Len(coming'[n])
        /\ coming'[n][Len(coming[n]) + 1] = m
        /\ NoPlanFrom(coming'[n], Len(coming[n]) + 2)
    BY <1>3, <2>1 DEF NoPlanFrom
  <2>3. (Len(coming[n]) + 1) + 1 = Len(coming[n]) + 2
    BY <2>1
  <2> QED
    BY <2>2, <2>3 DEF OnItsWay
<1>5. /\ plan'[p] = [of |-> n, at |-> "pending"] /\ \A q \in Plans : q # p => plan'[q] = plan[q]
      /\ plan' \in [Plans -> [of : Mounts \cup {NoSocket},
                              at : {"new", "pending", "answering", "over"}]]
  BY <1>1 DEF PageInv
<1>6. \A q \in Plans : PlanIsShown(q)'
  BY <1>1, <1>4, <1>5 DEF PageInv, PlanIsShown
<1>7. overlapped' \in BOOLEAN
  BY <1>1 DEF PageInv
<1> QED
  BY <1>1, <1>3, <1>5, <1>6, <1>7 DEF PageInv, PlanIsShown

LEMMA PlanSettles ==
  ASSUME PageInv, NEW p \in Plans, PlanTimesOut(p) \/ sendPlanApproval(p) \/ AnswerArrives(p)
  PROVE  PageInv'
<1>1. UNCHANGED <<mount, ws, coming, running, overlapped>>
  BY DEF PlanTimesOut, sendPlanApproval, AnswerArrives, screenVars
<1>2. CASE PlanTimesOut(p) \/ AnswerArrives(p)
  <2>1. plan' = [plan EXCEPT ![p].at = "over"] /\ UNCHANGED gate
    BY <1>2 DEF PlanTimesOut, AnswerArrives, screenVars
  <2>2. /\ \A q \in Plans : plan'[q] = plan[q] \/ plan'[q].at = "over"
        /\ plan' \in [Plans -> [of : Mounts \cup {NoSocket},
                                at : {"new", "pending", "answering", "over"}]]
    BY <2>1 DEF PageInv
  <2>3. \A q \in Plans : PlanIsShown(q)'
    BY <1>1, <2>1, <2>2 DEF PageInv, PlanIsShown, OnItsWay, Live
  <2> QED
    BY <1>1, <2>2, <2>3 DEF PageInv, PlanIsShown
<1>3. CASE sendPlanApproval(p)
  <2>1. gate = {p} /\ gate' = {}
    BY <1>3 DEF sendPlanApproval, NoGate
  <2>2. CASE plan[p].at = "pending" /\ plan[p].of \in Live
    <3>1. plan[p].of \in running /\ plan[p].of \in Mounts /\ mount[plan[p].of] = "live"
      BY <2>2 DEF PageInv, Live
    <3>2. ws[plan[p].of] = "open"
      BY <3>1 DEF PageInv
    <3>3. plan' = [plan EXCEPT ![p].at = "answering"]
      BY <1>3, <2>2, <3>2 DEF sendPlanApproval
    <3>4. /\ plan'[p].at = "answering" /\ plan'[p].of = plan[p].of
          /\ \A q \in Plans : q # p => plan'[q] = plan[q]
          /\ plan' \in [Plans -> [of : Mounts \cup {NoSocket},
                                  at : {"new", "pending", "answering", "over"}]]
      BY <3>3 DEF PageInv
    <3>5. ASSUME NEW q \in Plans  PROVE PlanIsShown(q)'
      <4>1. CASE q = p
        BY <1>1, <3>1, <3>4, <4>1 DEF PlanIsShown
      <4>2. CASE q # p
        <5>1. {p} # {q}
          BY <4>2
        <5>2. \A s : OnItsWay(q, s) => OnItsWay(q, s)'
          BY <2>1, <5>1 DEF OnItsWay
        <5>3. plan'[q] = plan[q] /\ PlanIsShown(q)
          BY <3>4, <4>2 DEF PageInv, PlanIsShown
        <5> QED
          BY <1>1, <5>2, <5>3 DEF PlanIsShown, Live, OnItsWay
      <4> QED
        BY <4>1, <4>2
    <3> QED
      BY <1>1, <3>4, <3>5 DEF PageInv, PlanIsShown
  <2>3. CASE ~(plan[p].at = "pending" /\ plan[p].of \in Live)
    <3>1. plan' = plan
      BY <1>3, <2>3 DEF sendPlanApproval
    <3>2. \A q \in Plans : PlanIsShown(q)'
      BY <1>1, <2>1, <2>3, <3>1 DEF PageInv, PlanIsShown, OnItsWay, Live
    <3> QED
      BY <1>1, <3>1, <3>2 DEF PageInv, PlanIsShown
  <2> QED
    BY <2>2, <2>3
<1> QED
  BY <1>2, <1>3

LEMMA PageStep == PageInv /\ [SessionPageNext]_sessionPageVars => PageInv'
<1> SUFFICES ASSUME PageInv, [SessionPageNext]_sessionPageVars  PROVE PageInv'
  OBVIOUS
<1>1. CASE ToolEnds \/ UNCHANGED sessionPageVars
  <2>1. UNCHANGED <<mount, ws, coming, gate, running, plan, overlapped>>
    BY <1>1 DEF ToolEnds, sessionPageVars, screenVars
  <2> QED
    BY <2>1 DEF PageInv, OnItsWay, Live
<1> QED
  BY <1>1, EffectMoves, OneSocketCloses, PageTold, SessionsMove, PlanAsked, PlanSettles
  DEF SessionPageNext

LEMMA PageIsCurrent == PageInv => PageFollowsServer
<1> SUFFICES ASSUME PageInv  PROVE EachEventOnce /\ WaitingIsVisible
  BY DEF PageFollowsServer
<1>1. EachEventOnce
  <2>1. CASE Live = {}
    BY <2>1, FS_EmptySet DEF EachEventOnce
  <2>2. CASE Live # {}
    <3>1. PICK n : n \in Live
      BY <2>2
    <3>2. \A m \in Live : m = n
      <4>1. \A m \in Mounts : mount[m] = "live" => {mount[m], mount[n]} \subseteq {"booting", "live"}
        BY <3>1 DEF Live
      <4> QED
        BY <3>1, <4>1 DEF Live, PageInv
    <3>3. Live = {n}
      BY <3>1, <3>2
    <3> QED
      BY <3>3, FS_Singleton DEF EachEventOnce
  <2> QED
    BY <2>1, <2>2
<1>2. WaitingIsVisible
  BY DEF PageInv, WaitingIsVisible, OnItsWay, PlanMessage
<1> QED
  BY <1>1, <1>2

\* However the user changes while the page boots, at most one socket has
\* listeners; and while the server asks one thing at a time, what it waits for is
\* on the screen or on its way there.
THEOREM PageKeepsUp == SessionPageSpec => []PageFollowsServer
BY PageBegins, PageStep, PageIsCurrent, PTL DEF SessionPageSpec
-----------------------------------------------------------------------------
(* Idempotency: how often a request has polled. *)

\* A request has polled no more than it may, and less as long as it polls.
IdemInv ==
  /\ IdemTypeOK
  /\ \A q \in KeyedRequests : keyed[q] \in {"new", "polling"} => polls[q] < MaxPolls

LEMMA IdemBegins == IdemInit => IdemInv
BY PollAssumption DEF IdemInit, IdemInv, IdemTypeOK, Missing, NoAnswer

LEMMA IdemKeeps == IdemInv /\ [IdemNext]_idemVars => IdemInv'
<1> SUFFICES ASSUME IdemInv, [IdemNext]_idemVars  PROVE IdemInv'
  OBVIOUS
<1> USE PollAssumption DEF IdemInv, IdemTypeOK
<1>1. CASE UNCHANGED idemVars
  BY <1>1 DEF idemVars
<1>2. CASE EntryExpires
  BY <1>2 DEF EntryExpires
<1>3. ASSUME NEW q \in KeyedRequests, KeyedStep(q)  PROVE IdemInv'
  <2>1. CASE CacheFails(q)
    BY <2>1 DEF CacheFails, KeyedGoes
  <2>2. CASE MarkPending(q)
    BY <2>2 DEF MarkPending, KeyedGoes
  <2>3. CASE HandlerAnswers(q)
    BY <2>3 DEF HandlerAnswers, KeyedGoes
  <2>4. CASE Record(q)
    BY <2>4 DEF Record, KeyedGoes
  <2>5. cached.state = "complete" => cached.of \in KeyedRequests
    BY DEF Missing, Pending, Complete
  <2>6. ASSUME cached.state = "complete", Replay(q)  PROVE IdemInv'
    BY <2>5, <2>6 DEF Replay, KeyedGoes
  <2>7. CASE LookUpKey(q)
    BY <2>6, <2>7 DEF LookUpKey, KeyedGoes
  <2>8. CASE Poll(q)
    <3>1. CASE cached.state = "complete" /\ Replay(q)
      BY <2>6, <3>1
    <3>2. CASE /\ polls' = [polls EXCEPT ![q] = @ + 1]
               /\ KeyedGoes(q, IF cached.state = "none" \/ polls[q] + 1 = MaxPolls
                                 THEN "marking" ELSE "polling")
               /\ UNCHANGED <<cached, answer>>
      BY <2>8, <3>2 DEF Poll, KeyedGoes
    <3> QED
      BY <2>8, <3>1, <3>2 DEF Poll
  <2> QED
    BY <1>3, <2>1, <2>2, <2>3, <2>4, <2>7, <2>8 DEF KeyedStep
<1> QED
  BY <1>1, <1>2, <1>3 DEF IdemNext
-----------------------------------------------------------------------------
(* ConnectionLimiter: the counters and the sockets they count. *)

\* The sockets that have connected, as often as the window counts them.
CameOf(states) == {k \in Sockets : states[k] /= "new"}

CountersInv ==
  /\ LimiterTypeOK
  /\ IsFiniteSet(CameOf(conn))

LEMMA CountersBegin == LimiterInit => CountersInv
<1> SUFFICES ASSUME LimiterInit  PROVE CountersInv
  OBVIOUS
<1>1. CameOf(conn) = {}
  BY DEF LimiterInit, CameOf
<1>2. IsFiniteSet(CameOf(conn)) /\ Cardinality(CameOf(conn)) = 0
  BY <1>1, FS_EmptySet
<1> QED
  BY <1>2, LimiterAssumption DEF LimiterInit, CountersInv, LimiterTypeOK, CameOf

\* Sockets that have connected stay connected, or are over.
LEMMA CameStays ==
  ASSUME CountersInv, NEW k \in Sockets, conn[k] # "new", NEW to, to # "new", ConnGoes(k, to)
  PROVE  CameOf(conn') = CameOf(conn)
BY DEF ConnGoes, CountersInv, LimiterTypeOK, CameOf

LEMMA PlaceGivenBack ==
  ASSUME CountersInv, releaseWsConnection
  PROVE  wsActiveByIp' \in 0..WS_MAX_ACTIVE_PER_IP
BY LimiterAssumption DEF CountersInv, LimiterTypeOK, releaseWsConnection

LEMMA UserGivenBack ==
  ASSUME CountersInv, NEW u, releaseWsUser(u)
  PROVE  wsActiveByUser' \in [SocketUsers -> 0..WS_MAX_ACTIVE_PER_USER]
BY LimiterAssumption DEF CountersInv, LimiterTypeOK, releaseWsUser

LEMMA CountersKeep == CountersInv /\ [LimiterNext]_limiterVars => CountersInv'
<1> SUFFICES ASSUME CountersInv, [LimiterNext]_limiterVars  PROVE CountersInv'
  OBVIOUS
<1> DEFINE came == CameOf(conn)
<1> USE LimiterAssumption
<1>0. /\ IsFiniteSet(came) /\ Cardinality(came) \in Nat /\ bucket \in 0..Cardinality(came)
      /\ wsActiveByIp \in 0..WS_MAX_ACTIVE_PER_IP
      /\ wsActiveByUser \in [SocketUsers -> 0..WS_MAX_ACTIVE_PER_USER]
      /\ ofUser \in [Sockets -> SocketUsers \cup {NoUser}]
  BY FS_CardinalityType DEF CountersInv, LimiterTypeOK, CameOf
<1>1. CASE WindowPasses \/ UNCHANGED limiterVars
  <2>1. UNCHANGED <<conn, ofUser, wsActiveByIp, wsActiveByUser>> /\ bucket' \in {0, bucket}
    BY <1>1 DEF WindowPasses, limiterVars
  <2>2. bucket' \in 0..Cardinality(came)
    BY <1>0, <2>1
  <2>3. CameOf(conn)' = came
    BY <2>1 DEF CameOf
  <2> QED
    BY <2>1, <2>2, <2>3 DEF CountersInv, LimiterTypeOK, CameOf
<1>2. ASSUME NEW k \in Sockets, Connect(k)  PROVE CountersInv'
  <2>1. CameOf(conn') = came \cup {k} /\ k \notin came
    BY <1>2 DEF Connect, ConnGoes, CountersInv, LimiterTypeOK, CameOf
  <2>2. IsFiniteSet(CameOf(conn')) /\ Cardinality(CameOf(conn')) = Cardinality(came) + 1
    BY <1>0, <2>1, FS_AddElement
  <2>3. bucket' \in 0..Cardinality(CameOf(conn'))
    BY <1>0, <1>2, <2>2 DEF Connect
  <2>4. UNCHANGED <<ofUser, wsActiveByUser>> /\ wsActiveByIp' \in 0..WS_MAX_ACTIVE_PER_IP
    BY <1>0, <1>2 DEF Connect
  <2> QED
    BY <1>0, <1>2, <2>2, <2>3, <2>4
    DEF Connect, ConnGoes, CountersInv, LimiterTypeOK, CameOf
<1>3. ASSUME NEW k \in Sockets,
             \/ LeaveEarly(k) \/ RefuseUnauthenticated(k)
             \/ \E u \in SocketUsers : Admit(k, u) \/ RefuseUser(k, u)
             \/ SocketErrs(k) \/ SocketCloses(k) \/ HeartbeatDrops(k)
      PROVE  CountersInv'
  <2>1. /\ conn[k] # "new" /\ UNCHANGED bucket
        /\ \E to \in {"refused", "leftEarly", "live", "released", "closed", "stranded", "dropped"} :
             ConnGoes(k, to)
    BY <1>3 DEF LeaveEarly, RefuseUnauthenticated, Admit, RefuseUser, SocketErrs, SocketCloses,
                HeartbeatDrops
  <2>2. CameOf(conn') = came
    BY <2>1, CameStays
  <2>3. wsActiveByIp' \in 0..WS_MAX_ACTIVE_PER_IP
    BY <1>0, <1>3, PlaceGivenBack
    DEF LeaveEarly, RefuseUnauthenticated, Admit, RefuseUser, SocketErrs, SocketCloses,
        HeartbeatDrops
  <2>4. wsActiveByUser' \in [SocketUsers -> 0..WS_MAX_ACTIVE_PER_USER]
    <3>1. CASE \E u \in SocketUsers : Admit(k, u)
      BY <1>0, <3>1 DEF Admit
    <3>2. CASE ~ \E u \in SocketUsers : Admit(k, u)
      BY <1>0, <1>3, <3>2, UserGivenBack
      DEF LeaveEarly, RefuseUnauthenticated, RefuseUser, SocketErrs, SocketCloses, HeartbeatDrops
    <3> QED
      BY <3>1, <3>2
  <2>5. ofUser' \in [Sockets -> SocketUsers \cup {NoUser}]
    BY <1>0, <1>3
    DEF LeaveEarly, RefuseUnauthenticated, Admit, RefuseUser, SocketErrs, SocketCloses,
        HeartbeatDrops
  <2>6. conn' \in [Sockets -> {"new", "refused", "authenticating", "leftEarly", "live",
                               "released", "closed", "stranded", "dropped"}]
    BY <2>1 DEF ConnGoes, CountersInv, LimiterTypeOK
  <2> QED
    BY <1>0, <2>1, <2>2, <2>3, <2>4, <2>5, <2>6 DEF CountersInv, LimiterTypeOK, CameOf
<1> QED
  BY <1>1, <1>2, <1>3 DEF LimiterNext
-----------------------------------------------------------------------------
(* FixLoop: shells, starts and the iterations of the loop. *)

\* The ids the terminal gives out, and its sessions: they keep id and name.
ShellRecord ==
  [id : {ShellIds[i] : i \in 1..Len(ShellIds)}, name : Starts \cup {"tool"}, isActive : BOOLEAN]

StartStates == {"new", "creating", "writing", "iterating", "executing", "completing", "failing"}
                 \cup FixOver

\* A start that is under way has given the loop a name.
FixInv ==
  /\ fixLoop \in [isRunning : BOOLEAN, iteration : 0..MaxIterations,
                  name : Starts \cup {NoName}]
  /\ started \in [Starts -> StartStates]
  /\ terminal \in Seq(ShellRecord)
  /\ \A s \in Sessions : terminal[s].id = ShellIds[s]
  /\ callbacks \in BOOLEAN
  /\ \A n \in Starts : started[n] \notin {"new", "refused"} => fixLoop.name \in Starts
  /\ fixLoop.isRunning => fixLoop.name \in Starts

LEMMA FixBegins == FixInit => FixInv
BY FixAssumption DEF FixInit, FixInv, StartStates, Sessions

LEMMA FixTyped == FixInv => FixTypeOK
<1> SUFFICES ASSUME FixInv  PROVE FixTypeOK
  OBVIOUS
<1>1. \A s \in Sessions : terminal[s] \in ShellRecord
  BY DEF FixInv, Sessions
<1>2. \A s \in Sessions : terminal[s].name \in Starts \cup {"tool"}
  BY <1>1 DEF ShellRecord
<1> QED
  BY <1>2 DEF FixInv, FixTypeOK, StartStates

\* Shells of the terminal, made and killed.
Shells == terminal \in Seq(ShellRecord) /\ \A s \in Sessions : terminal[s].id = ShellIds[s]

LEMMA ShellMade ==
  ASSUME Shells, NEW name \in Starts \cup {"tool"}, createSession(name)  PROVE Shells'
<1>1. PICK shell : shell = [id |-> ShellIds[Len(terminal) + 1], name |-> name, isActive |-> TRUE]
  OBVIOUS
<1>2. terminal \in Seq(ShellRecord) /\ terminal' = Append(terminal, shell)
  BY <1>1 DEF Shells, createSession
<1>3. Len(terminal) \in Nat /\ Len(terminal) + 1 \in 1..Len(ShellIds)
  BY <1>2, FixAssumption DEF createSession
<1>4. shell \in ShellRecord /\ shell.id = ShellIds[Len(terminal) + 1]
  BY <1>1, <1>3 DEF ShellRecord
<1> QED
  BY <1>2, <1>4 DEF Shells, Sessions

LEMMA ShellKilled ==
  ASSUME Shells, NEW id, killSession(id)  PROVE Shells'
<1> DEFINE Killed(s) == [terminal[s] EXCEPT !.isActive = @ /\ terminal[s].id # id]
<1>1. terminal' = [s \in Sessions |-> Killed(s)]
  BY DEF killSession
<1>2. ASSUME NEW s \in Sessions  PROVE Killed(s) \in ShellRecord /\ Killed(s).id = ShellIds[s]
  <2>1. terminal[s] \in ShellRecord /\ terminal[s].id = ShellIds[s]
    BY DEF Shells, Sessions
  <2> QED
    BY <2>1 DEF ShellRecord
<1> HIDE DEF Killed
<1>3. terminal' \in Seq(ShellRecord) /\ Len(terminal') = Len(terminal)
  BY <1>1, <1>2 DEF Shells, Sessions
<1> QED
  BY <1>1, <1>2, <1>3 DEF Shells, Sessions

LEMMA FixKeeps == FixInv /\ [FixNext]_fixVars => FixInv'
<1> SUFFICES ASSUME FixInv, [FixNext]_fixVars  PROVE FixInv'
  OBVIOUS
<1> DEFINE Loops == [isRunning : BOOLEAN, iteration : 0..MaxIterations,
                     name : Starts \cup {NoName}]
<1>0. Shells /\ fixLoop \in Loops /\ started \in [Starts -> StartStates] /\ callbacks \in BOOLEAN
  BY DEF FixInv, Shells
<1>a. ASSUME Shells', UNCHANGED callbacks,
             NEW n \in Starts, NEW at \in StartStates \ {"new"}, StartGoes(n, at),
             fixLoop' \in Loops,
             \/ at = "refused" /\ UNCHANGED fixLoop
             \/ fixLoop'.name \in Starts
      PROVE  FixInv'
  BY <1>0, <1>a DEF FixInv, Shells, StartGoes
<1>b. ASSUME Shells', UNCHANGED <<started, callbacks>>, fixLoop' \in Loops,
             fixLoop'.name = fixLoop.name, fixLoop'.isRunning => fixLoop.isRunning
      PROVE  FixInv'
  BY <1>0, <1>b DEF FixInv, Shells
<1>1. CASE UNCHANGED fixVars
  BY <1>0, <1>1, <1>b DEF fixVars, Shells, Sessions
<1>2. CASE stop
  <2>1. PICK ends : ends = [fixLoop EXCEPT !.isRunning = FALSE]
    OBVIOUS
  <2>2. ends \in Loops /\ ends.name = fixLoop.name /\ ~ends.isRunning
    BY <1>0, <2>1
  <2>3. fixLoop' = ends /\ UNCHANGED <<started, terminal, callbacks>>
    BY <1>2, <2>1 DEF stop
  <2>4. Shells'
    BY <1>0, <2>3 DEF Shells, Sessions
  <2> QED
    BY <1>b, <2>2, <2>3, <2>4
<1>3. CASE ToolCreates
  BY <1>0, <1>3, <1>b, ShellMade DEF ToolCreates
<1>4. CASE SessionEnds
  BY <1>0, <1>4, <1>b, ShellKilled DEF SessionEnds
<1>5. ASSUME NEW n \in Starts, start(n)  PROVE FixInv'
  <2>1. Shells' /\ UNCHANGED callbacks
    BY <1>0, <1>5 DEF start, Shells, Sessions
  <2>2. CASE StartGoes(n, "refused") /\ UNCHANGED fixLoop
    BY <1>0, <1>a, <2>1, <2>2 DEF StartStates, FixOver
  <2>3. CASE /\ StartGoes(n, "creating")
             /\ fixLoop' = [isRunning |-> TRUE, iteration |-> 0, name |-> n]
    <3>1. fixLoop' \in Loops /\ fixLoop'.name \in Starts
      BY <2>3, FixAssumption
    <3> QED
      BY <1>a, <2>1, <2>3, <3>1 DEF StartStates
  <2> QED
    BY <1>5, <2>2, <2>3 DEF start
<1>6. ASSUME NEW n \in Starts, StartStep(n)  PROVE FixInv'
  <2>0. fixLoop.name \in Starts /\ UNCHANGED callbacks
    BY <1>6 DEF FixInv, StartStep, CreateHidden, writeFiles, executeAndIterate, tool_executeShell,
                Ends, StartAt
  <2>1. CASE CreateHidden(n)
    <3>1. Shells'
      BY <1>0, <2>1, ShellMade DEF CreateHidden, Shells, Sessions
    <3> QED
      BY <1>0, <1>a, <2>0, <2>1, <3>1 DEF CreateHidden, StartStates
  <2>2. CASE writeFiles(n)
    <3>1. Shells'
      BY <1>0, <2>2 DEF writeFiles, Shells, Sessions
    <3> QED
      BY <1>0, <1>a, <2>0, <2>2, <3>1 DEF writeFiles, StartStates
  <2>3. CASE executeAndIterate(n)
    <3>1. Shells'
      BY <1>0, <2>3 DEF executeAndIterate, Shells, Sessions
    <3>2. PICK goes : goes = [fixLoop EXCEPT !.iteration = @ + 1]
      OBVIOUS
    <3>3. CASE StartGoes(n, "executing") /\ fixLoop' = goes /\ fixLoop.iteration < MaxIterations
      <4>1. goes \in Loops /\ goes.name = fixLoop.name
        BY <1>0, <3>2, <3>3, FixAssumption
      <4> QED
        BY <1>a, <2>0, <3>1, <3>3, <4>1 DEF StartStates
    <3>4. CASE StartGoes(n, "completing") /\ UNCHANGED fixLoop
      BY <1>0, <1>a, <2>0, <3>1, <3>4 DEF StartStates
    <3> QED
      BY <2>3, <3>2, <3>3, <3>4 DEF executeAndIterate
  <2>4. CASE tool_executeShell(n)
    <3>1. Shells'
      BY <1>0, <2>0, <2>4, ShellMade DEF tool_executeShell, Shells, Sessions
    <3> QED
      BY <1>0, <1>a, <2>0, <2>4, <3>1 DEF tool_executeShell, StartStates
  <2>5. CASE Ends(n)
    <3>1. Shells'
      BY <1>0, <2>5, ShellKilled DEF Ends
    <3>2. PICK ends : ends = [fixLoop EXCEPT !.isRunning = FALSE]
      OBVIOUS
    <3>3. ends \in Loops /\ ends.name = fixLoop.name
      BY <1>0, <3>2
    <3>4. fixLoop' = ends /\ \E at \in {"completed", "failed"} : StartGoes(n, at)
      BY <2>5, <3>2 DEF Ends
    <3> QED
      BY <1>a, <2>0, <3>1, <3>3, <3>4 DEF StartStates, FixOver
  <2> QED
    BY <1>6, <2>1, <2>2, <2>3, <2>4, <2>5 DEF StartStep
<1> QED
  BY <1>1, <1>2, <1>3, <1>4, <1>5, <1>6 DEF FixNext
-----------------------------------------------------------------------------
(* DagExecution: tasks, attempts and checkpoints. *)

DagStates == {"idle", "executing", "verifying", "debating", "rollback", "merging",
              "securityAuditing", "executingSandbox", "intentValidating"} \cup DagFinal
NodeStates == {"pending", "running", "success", "failed"}
NodeRecord == [state : NodeStates, attempts : 0..MaxAttempts, checkpoint : 0..NoCheckpoint]
DagRecord == [at : DagStates, deps : {ManagerDeps, Phases}]
Phased == {"executing", "verifying", "debating", "rollback", "merging",
           "securityAuditing", "executingSandbox", "intentValidating", "complete", "failed"}

DagTypes ==
  /\ dag \in DagRecord
  /\ node \in DagNodes
  /\ nodes \in [DagNodes -> NodeRecord]
  /\ branch \in Seq(DagNodes)
  /\ rollbacks \in Nat
  /\ workTree \in 0..MaxWork
  /\ history \subseteq Phased

Before == IF node = Root THEN 1 ELSE 0
Underway == IF dag.at \in {"rollback"} \cup DagFinal THEN 1 ELSE 0

\* A node that executes has attempts left, and so has the root as long as a child of
\* it executes; a rollback ends the task or goes from the child to the root.
DagInv ==
  /\ DagTypes
  /\ Len(branch) <= (IF dag.at = "idle" THEN 1 ELSE 2)
  /\ dag.at \in {"idle", "executing", "verifying"} => nodes[node].attempts < MaxAttempts
  /\ node # Root => nodes[Root].attempts < MaxAttempts
  /\ rollbacks <= Before + Underway

LEMMA DagTyped == DagInv => DagTypeOK
<1> SUFFICES ASSUME DagInv  PROVE DagTypeOK
  OBVIOUS
<1>1. dag \in DagRecord /\ nodes \in [DagNodes -> NodeRecord] /\ history \subseteq Phased
  BY DEF DagInv, DagTypes
<1>2. branch \in Seq(DagNodes) /\ Len(branch) <= 2
  BY DEF DagInv, DagTypes
<1>3. rollbacks \in 0..MaxRollbacks
  BY DEF DagInv, DagTypes, Before, Underway, MaxRollbacks
<1>4. node \in DagNodes /\ workTree \in 0..MaxWork
  BY DEF DagInv, DagTypes
<1> QED
  BY <1>1, <1>2, <1>3, <1>4, Zenon
  DEF DagTypeOK, DagRecord, NodeRecord, DagStates, NodeStates, Phased

LEMMA DagBegins == DagInit => DagInv
<1> SUFFICES ASSUME DagInit  PROVE DagInv
  OBVIOUS
<1> USE DagAssumption
<1>1. ExecutionNode \in NodeRecord
      /\ [state |-> "success", attempts |-> 1, checkpoint |-> 0] \in NodeRecord
  BY DEF ExecutionNode, NodeRecord, NodeStates, NoCheckpoint, MaxAttempts
<1>2. dag \in DagRecord /\ dag.at = "idle" /\ node \in DagNodes
  BY DEF DagInit, DagRecord, DagStates
<1>3. nodes \in [DagNodes -> NodeRecord]
  BY <1>1 DEF DagInit
<1>4. \A n \in DagNodes : nodes[n].attempts = IF n = Root /\ node # Root THEN 1 ELSE 0
  BY DEF DagInit, ExecutionNode
<1>5. branch \in Seq(DagNodes) /\ Len(branch) <= 1
  BY DEF DagInit
<1>6. rollbacks = 0 /\ workTree \in 0..MaxWork /\ history = {}
  BY DEF DagInit
<1> QED
  BY <1>2, <1>3, <1>4, <1>5, <1>6 DEF DagInv, DagTypes, Before, Underway, MaxAttempts

\* Where the machine goes, and what that counts.
LEMMA EntersState ==
  ASSUME DagTypes, NEW at \in DagStates \ {"idle"}, Enters(at)
  PROVE  /\ dag' \in DagRecord /\ dag'.at = at /\ dag'.deps = dag.deps
         /\ history' \subseteq Phased
         /\ rollbacks' = IF at = "rollback" THEN rollbacks + 1 ELSE rollbacks
<1>1. PICK goes : goes = [dag EXCEPT !.at = at]
  OBVIOUS
<1>2. dag' = goes
  BY <1>1 DEF Enters
<1>3. goes \in DagRecord /\ goes.at = at /\ goes.deps = dag.deps
  BY <1>1 DEF DagTypes, DagRecord
<1>4. history' \subseteq Phased
  BY DEF Enters, DagTypes, DagStates, DagFinal, Phased
<1> QED
  BY <1>2, <1>3, <1>4 DEF Enters

\* What a step makes of one node.
LEMMA NodeBecomes ==
  ASSUME DagTypes, NEW n \in DagNodes, NEW was, was = nodes[n],
         NEW r \in NodeRecord, nodes' = [nodes EXCEPT ![n] = r]
  PROVE  /\ nodes' \in [DagNodes -> NodeRecord] /\ nodes'[n] = r
         /\ \A m \in DagNodes \ {n} : nodes'[m] = nodes[m]
BY DEF DagTypes

\* Everywhere but in a rollback the node stays, and keeps the attempts it needs.
LEMMA NodeStays ==
  ASSUME DagInv, NEW at \in DagStates \ {"idle"}, Enters(at), UNCHANGED node,
         dag.at \notin {"rollback"} \cup DagFinal,
         workTree' \in 0..MaxWork, branch' \in Seq(DagNodes), Len(branch') <= 2,
         NEW r \in NodeRecord, nodes' = [nodes EXCEPT ![node] = r],
         at \in {"executing", "verifying"} => r.attempts < MaxAttempts
  PROVE  DagInv'
<1> USE DagAssumption
<1>0. DagTypes /\ node \in DagNodes
  BY DEF DagInv, DagTypes
<1>1. /\ dag' \in DagRecord /\ dag'.at = at
      /\ history' \subseteq Phased
      /\ rollbacks' = IF at = "rollback" THEN rollbacks + 1 ELSE rollbacks
  BY <1>0, EntersState
<1>2. /\ nodes' \in [DagNodes -> NodeRecord] /\ nodes'[node] = r
      /\ \A m \in DagNodes \ {node} : nodes'[m] = nodes[m]
  BY <1>0, NodeBecomes
<1>3. rollbacks \in Nat /\ rollbacks <= Before
  BY DEF DagInv, DagTypes, Before, Underway
<1>4. node' = node /\ Before' = Before
  BY DEF Before
<1>5. rollbacks' \in Nat /\ rollbacks' <= Before + (IF at \in {"rollback"} \cup DagFinal THEN 1 ELSE 0)
  BY <1>1, <1>3 DEF Before
<1>6. DagTypes'
  BY <1>0, <1>1, <1>2, <1>4, <1>5 DEF DagTypes
<1>7. node # Root => nodes'[Root].attempts < MaxAttempts
  BY <1>2 DEF DagInv
<1>8. Underway' = IF at \in {"rollback"} \cup DagFinal THEN 1 ELSE 0
  BY <1>1 DEF Underway
<1> QED
  BY <1>1, <1>2, <1>4, <1>5, <1>6, <1>7, <1>8 DEF DagInv

\* Phases that end in another state than these leave no attempt to be kept.
LEMMA NodeStaysAt ==
  ASSUME DagInv, NEW at \in DagStates \ {"idle", "executing", "verifying"}, Enters(at),
         UNCHANGED node,
         dag.at \notin {"rollback", "complete", "failed", "erred"},
         workTree' \in 0..MaxWork, branch' \in Seq(DagNodes), Len(branch') <= 2,
         NEW r \in NodeRecord, nodes' = [nodes EXCEPT ![node] = r]
  PROVE  DagInv'
<1>1. at \in DagStates \ {"idle"} /\ at \notin {"executing", "verifying"}
  OBVIOUS
<1>2. dag.at \notin {"rollback"} \cup DagFinal
  BY DEF DagFinal
<1> QED
  BY <1>1, <1>2, NodeStays

LEMMA NodeHasRecord ==
  ASSUME DagTypes  PROVE nodes[node] \in NodeRecord /\ nodes = [nodes EXCEPT ![node] = nodes[node]]
BY DEF DagTypes

LEMMA NodeChecked ==
  ASSUME DagInv, executeTask  PROVE DagInv'
<1> USE DagAssumption
<1>0. DagTypes /\ dag.at = "idle" /\ node \in DagNodes /\ workTree \in 0..MaxWork
  BY DEF DagInv, DagTypes, executeTask, Running
<1>1. nodes[node] \in NodeRecord /\ nodes[node].attempts < MaxAttempts
      /\ branch \in Seq(DagNodes) /\ Len(branch) <= 1
  BY <1>0, NodeHasRecord DEF DagInv, DagTypes
<1>2. CASE /\ nodes' = [nodes EXCEPT ![node].checkpoint = workTree, ![node].state = "running"]
           /\ branch' = Append(branch, node)
           /\ Enters("executing")
  <2>1. PICK r : r = [nodes[node] EXCEPT !.checkpoint = workTree, !.state = "running"]
    OBVIOUS
  <2>2. r \in NodeRecord /\ r.attempts < MaxAttempts
    <3>1. workTree \in 0..NoCheckpoint
      BY <1>0 DEF NoCheckpoint
    <3> QED
      BY <1>1, <2>1, <3>1 DEF NodeRecord, NodeStates
  <2>3. nodes' = [nodes EXCEPT ![node] = r]
    BY <1>0, <1>2, <2>1 DEF DagTypes
  <2>4. branch' \in Seq(DagNodes) /\ Len(branch') <= 2
    BY <1>0, <1>1, <1>2
  <2>5. UNCHANGED <<node, workTree>>
    BY DEF executeTask
  <2> QED
    BY <1>0, <1>2, <2>2, <2>3, <2>4, <2>5, NodeStays DEF DagStates, DagFinal
<1>3. CASE Enters("erred") /\ UNCHANGED <<nodes, branch>>
  <2>1. UNCHANGED <<node, workTree>>
    BY DEF executeTask
  <2> QED
    BY <1>0, <1>1, <1>3, <2>1, NodeHasRecord, NodeStays DEF DagStates, DagFinal
<1> QED
  BY <1>2, <1>3 DEF executeTask

LEMMA NodeExecuted ==
  ASSUME DagInv, executing  PROVE DagInv'
<1> USE DagAssumption
<1>0. /\ DagTypes /\ dag.at = "executing" /\ node \in DagNodes
      /\ nodes[node] \in NodeRecord /\ nodes[node].attempts < MaxAttempts
      /\ branch' \in Seq(DagNodes) /\ Len(branch') <= 2 /\ UNCHANGED node
  BY NodeHasRecord DEF DagInv, DagTypes, executing, Running
<1>1. workTree' \in 0..MaxWork
  BY DEF executing, Changes, DagInv, DagTypes
<1>2. PICK ok \in BOOLEAN :
        /\ nodes' = [nodes EXCEPT ![node].state = IF ok THEN "success" ELSE "failed"]
        /\ Enters(IF ok THEN "verifying" ELSE "failed")
  BY DEF executing
<1>3. PICK r : r = [nodes[node] EXCEPT !.state = IF ok THEN "success" ELSE "failed"]
  OBVIOUS
<1>4. r \in NodeRecord /\ r.attempts < MaxAttempts
  BY <1>0, <1>3 DEF NodeRecord, NodeStates
<1>5. nodes' = [nodes EXCEPT ![node] = r]
  BY <1>0, <1>2, <1>3 DEF DagTypes
<1> QED
  BY <1>0, <1>1, <1>2, <1>4, <1>5, NodeStays DEF DagStates, DagFinal

\* A refusal, after so many attempts.
LEMMA NodeRetried ==
  ASSUME DagInv, NEW attempts \in 0..MaxAttempts, dag.at \in {"verifying", "debating"},
         Retries(node, attempts), UNCHANGED <<node, branch, workTree>>
  PROVE  DagInv'
<1>0. /\ DagTypes /\ node \in DagNodes /\ nodes[node] \in NodeRecord
      /\ branch' \in Seq(DagNodes) /\ Len(branch') <= 2
      /\ workTree' \in 0..MaxWork
  BY NodeHasRecord DEF DagInv, DagTypes
<1>1. CASE attempts >= MaxAttempts
  <2>1. PICK r : r = [nodes[node] EXCEPT !.attempts = attempts]
    OBVIOUS
  <2>2. r \in NodeRecord /\ nodes' = [nodes EXCEPT ![node] = r] /\ Enters("rollback")
    BY <1>0, <1>1, <2>1 DEF Retries, NodeRecord, NodeStates, DagTypes
  <2> QED
    BY <1>0, <2>2, NodeStaysAt DEF DagStates, DagFinal
<1>2. CASE ~(attempts >= MaxAttempts)
  <2>1. PICK r : r = [nodes[node] EXCEPT !.attempts = attempts, !.state = "running"]
    OBVIOUS
  <2>2. r \in NodeRecord /\ r.attempts = attempts
    BY <1>0, <2>1 DEF NodeRecord, NodeStates
  <2>3. nodes' = [nodes EXCEPT ![node] = r] /\ Enters("executing")
    BY <1>0, <1>2, <2>1 DEF Retries, DagTypes
  <2>4. r.attempts < MaxAttempts
    BY <1>2, <2>2 DEF MaxAttempts
  <2> QED
    BY <1>0, <2>2, <2>3, <2>4, NodeStays DEF DagStates, DagFinal
<1> QED
  BY <1>1, <1>2

LEMMA NodeVerified ==
  ASSUME DagInv, verifying  PROVE DagInv'
<1>0. /\ DagTypes /\ dag.at = "verifying" /\ node \in DagNodes /\ nodes[node] \in NodeRecord
      /\ nodes[node].attempts < MaxAttempts
      /\ UNCHANGED <<node, branch, workTree>>
      /\ branch' \in Seq(DagNodes) /\ Len(branch') <= 2 /\ workTree' \in 0..MaxWork
  BY NodeHasRecord DEF DagInv, DagTypes, verifying, Running
<1>1. nodes[node].attempts + 1 \in 0..MaxAttempts
  BY <1>0 DEF NodeRecord, MaxAttempts
<1>2. CASE Retries(node, nodes[node].attempts + 1)
  BY <1>0, <1>1, <1>2, NodeRetried
<1>3. CASE /\ Enters("debating") \/ Enters("failed")
           /\ nodes' = [nodes EXCEPT ![node].attempts = @ + 1]
  <2>1. PICK r : r = [nodes[node] EXCEPT !.attempts = @ + 1]
    OBVIOUS
  <2>2. r \in NodeRecord /\ nodes' = [nodes EXCEPT ![node] = r]
    BY <1>0, <1>1, <1>3, <2>1 DEF NodeRecord, NodeStates, DagTypes
  <2> QED
    BY <1>0, <1>3, <2>2, NodeStaysAt DEF DagStates, DagFinal
<1> QED
  BY <1>2, <1>3 DEF verifying

LEMMA NodeDebated ==
  ASSUME DagInv, debating  PROVE DagInv'
<1>0. /\ DagTypes /\ dag.at = "debating" /\ node \in DagNodes /\ nodes[node] \in NodeRecord
      /\ UNCHANGED <<node, branch, workTree>>
      /\ branch' \in Seq(DagNodes) /\ Len(branch') <= 2 /\ workTree' \in 0..MaxWork
  BY NodeHasRecord DEF DagInv, DagTypes, debating, Running
<1>1. CASE Retries(node, nodes[node].attempts)
  <2>1. nodes[node].attempts \in 0..MaxAttempts
    BY <1>0 DEF NodeRecord
  <2> QED
    BY <1>0, <1>1, <2>1, NodeRetried
<1>2. CASE (Enters("merging") \/ Enters("erred")) /\ UNCHANGED nodes
  <2>1. nodes' = [nodes EXCEPT ![node] = nodes[node]]
    BY <1>0, <1>2, NodeHasRecord
  <2> QED
    BY <1>0, <1>2, <2>1, NodeStaysAt DEF DagStates, DagFinal
<1> QED
  BY <1>1, <1>2 DEF debating

\* The phases after the review leave the nodes alone.
LEMMA NodeMerged ==
  ASSUME DagInv, merging \/ securityAuditing \/ executingSandbox \/ intentValidating
  PROVE  DagInv'
<1>0. /\ DagTypes /\ node \in DagNodes /\ nodes[node] \in NodeRecord
      /\ dag.at \in {"merging", "securityAuditing", "executingSandbox", "intentValidating"}
      /\ UNCHANGED <<node, nodes, branch>>
      /\ branch' \in Seq(DagNodes) /\ Len(branch') <= 2
  BY NodeHasRecord DEF DagInv, DagTypes, merging, securityAuditing, executingSandbox,
     intentValidating, Running
<1>1. workTree' \in 0..MaxWork
  BY DagAssumption DEF merging, securityAuditing, executingSandbox, intentValidating, Changes,
     DagInv, DagTypes
<1>2. \E at \in {"securityAuditing", "failed", "executingSandbox", "intentValidating", "complete",
                 "rollback"} : Enters(at)
  BY DEF merging, securityAuditing, executingSandbox, intentValidating
<1>3. nodes' = [nodes EXCEPT ![node] = nodes[node]]
  BY <1>0, NodeHasRecord
<1> QED
  BY <1>0, <1>1, <1>2, <1>3, NodeStays DEF DagStates, DagFinal

LEMMA BranchTrimmed ==
  ASSUME DagInv, NEW p, NEW trimmed, trimmed = BranchTo(p)
  PROVE  trimmed \in Seq(DagNodes) /\ Len(trimmed) <= 2
<1> DEFINE places == {i \in 1..Len(branch) : branch[i] = p}
<1>0. branch \in Seq(DagNodes) /\ Len(branch) <= 2 /\ Len(branch) \in Nat
  BY DEF DagInv, DagTypes
<1>1. CASE places = {}
  BY <1>0, <1>1 DEF BranchTo
<1>2. CASE places # {}
  <2>1. PICK first : first = (CHOOSE i \in places : \A j \in places : i <= j)
    OBVIOUS
  <2>2. \E i \in places : \A j \in places : i <= j
    <3>1. CASE 1 \in places
      BY <1>0, <3>1
    <3>2. CASE 1 \notin places
      BY <1>0, <1>2, <3>2
    <3> QED
      BY <3>1, <3>2
  <2>3. first \in 1..Len(branch)
    BY <2>1, <2>2
  <2>4. trimmed = SubSeq(branch, 1, first)
    BY <1>2, <2>1 DEF BranchTo
  <2> QED
    BY <1>0, <2>3, <2>4
<1> QED
  BY <1>1, <1>2

\* A rollback ends the task, or goes to the root.
LEMMA RolledBack ==
  ASSUME DagInv, rollback  PROVE DagInv'
<1> USE DagAssumption
<1>0. /\ DagTypes /\ node \in DagNodes /\ Root \in DagNodes /\ nodes[node] \in NodeRecord
      /\ dag.at = "rollback" /\ dag \in DagRecord /\ workTree \in 0..MaxWork
      /\ branch \in Seq(DagNodes) /\ Len(branch) <= 2
      /\ rollbacks \in Nat /\ rollbacks <= Before + 1
      /\ nodes \in [DagNodes -> NodeRecord]
      /\ node # Root => nodes[Root].attempts < MaxAttempts
  BY NodeHasRecord DEF DagInv, DagTypes, rollback, Running, Underway
<1>1. ASSUME NEW at \in {"failed", "erred"}, Enters(at), UNCHANGED node,
             workTree' \in 0..MaxWork, branch' \in Seq(DagNodes), Len(branch') <= 2,
             NEW r \in NodeRecord, nodes' = [nodes EXCEPT ![node] = r]
      PROVE  DagInv'
  <2>1. dag' \in DagRecord /\ dag'.at = at /\ history' \subseteq Phased /\ rollbacks' = rollbacks
    BY <1>0, <1>1, EntersState DEF DagStates, DagFinal
  <2>2. /\ nodes' \in [DagNodes -> NodeRecord]
        /\ \A m \in DagNodes \ {node} : nodes'[m] = nodes[m]
    BY <1>0, <1>1, NodeBecomes
  <2>3. Before' = Before /\ Underway' = 1
    BY <1>1, <2>1 DEF Before, Underway, DagFinal
  <2>4. DagTypes'
    BY <1>0, <1>1, <2>1, <2>2 DEF DagTypes
  <2> QED
    BY <1>0, <1>1, <2>1, <2>2, <2>3, <2>4 DEF DagInv
<1>2. PICK failed : failed = [nodes[node] EXCEPT !.state = "failed"]
  OBVIOUS
<1>3. failed \in NodeRecord
  BY <1>0, <1>2 DEF NodeRecord, NodeStates
<1>4. [nodes EXCEPT ![node].state = "failed"] = [nodes EXCEPT ![node] = failed]
  BY <1>0, <1>2
<1>5. CASE Refused(node)
  <2>1. Enters("failed") /\ UNCHANGED <<node, branch, workTree>>
        /\ nodes' \in {nodes, [nodes EXCEPT ![node] = failed]}
    BY <1>4, <1>5 DEF Refused
  <2>2. nodes = [nodes EXCEPT ![node] = nodes[node]]
    BY <1>0
  <2> QED
    BY <1>0, <1>1, <1>3, <2>1, <2>2
<1>6. CASE ResetFails(node)
  BY <1>0, <1>1, <1>3, <1>4, <1>6 DEF ResetFails
<1>7. ASSUME NEW p \in Parent(node), Restored(node, p)  PROVE DagInv'
  <2>1. node # Root /\ p = Root
    BY DEF Parent
  <2>2. branch' \in Seq(DagNodes) /\ Len(branch') <= 2
    BY <1>7, BranchTrimmed DEF Restored
  <2>3. workTree' \in 0..MaxWork
    <3>1. nodes[p].checkpoint \in 0..NoCheckpoint
      BY <1>0, <2>1 DEF NodeRecord
    <3> QED
      BY <1>0, <1>7, <3>1 DEF Restored, NoCheckpoint
  <2>4. CASE rollbacks >= MaxRollbacks
    BY <1>0, <1>1, <1>3, <1>4, <1>7, <2>2, <2>3, <2>4 DEF Restored
  <2>5. CASE ~(rollbacks >= MaxRollbacks)
    <3>1. /\ Enters("executing") /\ node' = Root
          /\ nodes' = [nodes EXCEPT ![node].state = "failed", ![Root].state = "running"]
      BY <1>7, <2>1, <2>5 DEF Restored
    <3>2. dag' \in DagRecord /\ dag'.at = "executing" /\ history' \subseteq Phased
          /\ rollbacks' = rollbacks
      BY <1>0, <3>1, EntersState DEF DagStates, DagFinal
    <3>3. PICK runs : runs = [nodes[Root] EXCEPT !.state = "running"]
      OBVIOUS
    <3>4. nodes[Root] \in NodeRecord
      BY <1>0
    <3>5. runs \in NodeRecord /\ runs.attempts = nodes[Root].attempts
      BY <3>3, <3>4 DEF NodeRecord, NodeStates
    <3>6. nodes' = [nodes EXCEPT ![node] = failed, ![Root] = runs]
      BY <1>0, <1>2, <2>1, <3>1, <3>3
    <3>7. nodes' \in [DagNodes -> NodeRecord] /\ nodes'[Root] = runs
      BY <1>0, <1>3, <3>5, <3>6
    <3>8. Before = 0 /\ Before' = 1 /\ Underway' = 0
      BY <2>1, <3>1, <3>2 DEF Before, Underway, DagFinal
    <3>9. DagTypes'
      BY <1>0, <2>2, <2>3, <3>1, <3>2, <3>7 DEF DagTypes
    <3> QED
      BY <1>0, <2>1, <2>2, <3>1, <3>2, <3>5, <3>7, <3>8, <3>9 DEF DagInv
  <2> QED
    BY <2>4, <2>5
<1> QED
  BY <1>5, <1>6, <1>7 DEF rollback

LEMMA DagKeeps == DagInv /\ [DagStep]_dagVars => DagInv'
<1> SUFFICES ASSUME DagInv, [DagStep]_dagVars  PROVE DagInv'
  OBVIOUS
<1>1. CASE UNCHANGED dagVars
  BY <1>1 DEF dagVars, DagInv, DagTypes, Before, Underway
<1>2. CASE DagStep
  BY <1>2, NodeChecked, NodeExecuted, NodeVerified, NodeDebated, NodeMerged, RolledBack DEF DagStep
<1> QED
  BY <1>1, <1>2
-----------------------------------------------------------------------------
(* WorkspaceSearch: the queue, and how many entries are walked at once. *)

\* The entries of a directory, in the order they are read in.
LEMMA EntriesAreListed ==
  ASSUME NEW S, IsFiniteSet(S), NEW list, list = SetToSeq(S)
  PROVE  list \in Seq(S)
<1>1. PICK n \in Nat : ExistsBijection(1..n, S)
  BY FS_NatBijection
<1>2. Cardinality(S) = n
  BY <1>1, FS_CountingElements
<1>3. \E f \in [1..n -> S] : IsInjective(f)
  BY <1>1, Zenon DEF ExistsBijection, Bijection, Injection
<1>4. list = CHOOSE f \in [1..n -> S] : IsInjective(f)
  BY <1>2, Zenon DEF SetToSeq
<1>5. list \in [1..n -> S]
  BY <1>3, <1>4, Zenon
<1> QED
  BY <1>5

LEMMA SearchBegins == SearchInit => SearchTypeOK
<1> SUFFICES ASSUME SearchInit  PROVE SearchTypeOK
  OBVIOUS
<1>1. IsFiniteSet(Found) /\ EntriesIn(Top) \subseteq Found
  BY SearchAssumption DEF SearchInit, Found, EntriesIn
<1>2. IsFiniteSet(EntriesIn(Top))
  BY <1>1, FS_Subset
<1>3. queue \in Seq(EntriesIn(Top))
  BY <1>2, EntriesAreListed DEF SearchInit
<1>4. queue \in Seq(Found)
  BY <1>1, <1>3
<1>5. Places = {}
  BY DEF SearchInit, Places
<1>6. Cardinality(Places) <= Concurrency
  BY <1>5, FS_EmptySet, SearchAssumption
<1> QED
  BY <1>4, <1>6 DEF SearchInit, SearchTypeOK

LEMMA SearchKeeps == SearchTypeOK /\ [SearchNext]_searchVars => SearchTypeOK'
<1> SUFFICES ASSUME SearchTypeOK, [SearchNext]_searchVars  PROVE SearchTypeOK'
  OBVIOUS
<1>0. /\ tree \in Trees /\ queue \in Seq(Found)
      /\ entry \in [Found -> {"none", "active", "walked", "done"}]
      /\ Places \subseteq Found /\ IsFiniteSet(Found)
  BY SearchAssumption DEF SearchTypeOK, Places, Found
<1>1. IsFiniteSet(Places) /\ Cardinality(Places) \in Nat /\ Cardinality(Places) <= Concurrency
  BY <1>0, FS_Subset, FS_CardinalityType DEF SearchTypeOK
<1>2. CASE UNCHANGED searchVars
  BY <1>2 DEF searchVars, SearchTypeOK, Places, Found
<1>3. CASE next
  <2>1. PICK first : first = Head(queue)
    OBVIOUS
  <2>2. /\ queue # <<>> /\ queue' = Tail(queue) /\ entry' = [entry EXCEPT ![first] = "active"]
        /\ Cardinality(Places) < Concurrency /\ tree' = tree
    BY <1>3, <2>1 DEF next
  <2>3. first \in Found /\ queue' \in Seq(Found)
    BY <1>0, <2>1, <2>2
  <2>4. Found' = Found
    BY <2>2 DEF Found
  <2>5. Places' = Places \cup {first}
    BY <1>0, <2>2, <2>3, <2>4 DEF Places
  <2>6. Cardinality(Places') <= Concurrency
    <3>1. Cardinality(Places') \in {Cardinality(Places), Cardinality(Places) + 1}
      BY <1>1, <2>5, FS_AddElement
    <3> QED
      BY <1>1, <2>2, <3>1, SearchAssumption
  <2> QED
    BY <1>0, <2>2, <2>3, <2>4, <2>6 DEF SearchTypeOK
<1>4. ASSUME NEW e \in Found, EntryDone(e) \/ walk(e) \/ WalkDone(e)  PROVE SearchTypeOK'
  <2>1. tree' = tree /\ Found' = Found
    BY <1>4 DEF EntryDone, walk, WalkDone, Found
  <2>2. queue' \in Seq(Found)
    <3>1. CASE UNCHANGED queue
      BY <1>0, <3>1
    <3>2. CASE queue' = queue \o SetToSeq(EntriesIn(e))
      <4>1. PICK list : list = SetToSeq(EntriesIn(e))
        OBVIOUS
      <4>2. EntriesIn(e) \subseteq Found
        BY DEF EntriesIn
      <4>3. list \in Seq(EntriesIn(e))
        BY <1>0, <4>1, <4>2, EntriesAreListed, FS_Subset
      <4> QED
        BY <1>0, <3>2, <4>1, <4>2, <4>3
    <3> QED
      BY <1>4, <3>1, <3>2 DEF EntryDone, walk, WalkDone
  <2>3. PICK at \in {"walked", "done"} : entry' = [entry EXCEPT ![e] = at]
    BY <1>4 DEF EntryDone, walk, WalkDone
  <2>4. Places' \subseteq Places
    BY <1>0, <1>4, <2>1, <2>3 DEF Places, EntryDone, walk, WalkDone
  <2>5. Cardinality(Places') <= Cardinality(Places) /\ Cardinality(Places') \in Nat
    BY <1>1, <2>4, FS_Subset, FS_CardinalityType
  <2> QED
    BY <1>0, <1>1, <2>1, <2>2, <2>3, <2>5, SearchAssumption DEF SearchTypeOK
<1> QED
  BY <1>2, <1>3, <1>4 DEF SearchNext
-----------------------------------------------------------------------------
(* ToolGate: the windows of the circuits and the calls on their way. *)

Circuits == [outcomes : Seq(BOOLEAN), disabled : BOOLEAN]
Invoked == [at : {"new", "asking", "executing", "refused", "over"},
            by : {"nobody", "agent", "http"}, of : Scopes \cup {NoScope},
            since : 0..MaxGateClock]
Moments == 0..MaxGateClock

\* A window holds no more outcomes than it is wide, and calls on their way have a tool.
WindowsInv ==
  /\ gateClock \in Moments
  /\ circuit \in [GatedTools -> Circuits]
  /\ \A t \in GatedTools : Len(circuit[t].outcomes) <= CircuitWindow
  /\ invocation \in [Invocations -> Invoked]
  /\ \A c \in Invocations : invocation[c].at \in {"asking", "executing"} => invocation[c].of \in Scopes
  /\ granted \subseteq [of : Scopes, at : Moments]
  /\ approvalLeases \in [ToolRuns \X GatedTools -> 0..MaxGateClock + LeaseTtl]
  /\ consent \subseteq [call : Invocations, of : Scopes, at : Moments]
  /\ earlier \subseteq Invocations

LEMMA WindowsBegin == GateInit => WindowsInv
<1> SUFFICES ASSUME GateInit  PROVE WindowsInv
  OBVIOUS
<1>1. [outcomes |-> <<>>, disabled |-> FALSE] \in Circuits
  BY DEF Circuits
<1>2. Still("new") \in Invoked /\ Still("new").at = "new"
  BY GateAssumption DEF Invoked, Still
<1> QED
  BY <1>1, <1>2, GateAssumption DEF GateInit, WindowsInv, Moments

LEMMA WindowsTyped == WindowsInv => GateTypeOK
<1> SUFFICES ASSUME WindowsInv  PROVE GateTypeOK
  OBVIOUS
<1>1. \A t \in GatedTools : circuit[t].disabled \in BOOLEAN
  BY DEF WindowsInv, Circuits
<1>2. \A c \in Invocations : invocation[c] \in Invoked
  BY DEF WindowsInv
<1> QED
  BY <1>1, <1>2, Zenon DEF WindowsInv, GateTypeOK, Invoked, Moments

\* The outcome that is new, and those before it as far as the latest goes.
LEMMA WindowSlides ==
  ASSUME NEW S, NEW s \in Seq(S), NEW e \in S, Len(s) <= CircuitWindow,
         NEW latest, latest = LastOf(Append(s, e))
  PROVE  latest \in Seq(S) /\ Len(latest) <= CircuitWindow
<1>1. PICK longer : longer = Append(s, e)
  OBVIOUS
<1>2. longer \in Seq(S) /\ Len(longer) = Len(s) + 1 /\ Len(s) \in Nat
  BY <1>1
<1>3. CASE Len(longer) > CircuitWindow
  <2>1. latest = SubSeq(longer, Len(longer) - CircuitWindow + 1, Len(longer))
    BY <1>1, <1>3 DEF LastOf
  <2>2. Len(longer) - CircuitWindow + 1 \in 1..Len(longer)
    BY <1>2, <1>3, GateAssumption
  <2> QED
    BY <1>2, <2>1, <2>2, GateAssumption
<1>4. CASE ~(Len(longer) > CircuitWindow)
  <2>1. latest = SubSeq(longer, 1, Len(longer))
    BY <1>1, <1>4 DEF LastOf
  <2> QED
    BY <1>2, <1>4, <2>1, GateAssumption
<1> QED
  BY <1>3, <1>4

\* The calls on their way have a tool, after a call moves.
CallsInv ==
  /\ invocation \in [Invocations -> Invoked]
  /\ \A c \in Invocations : invocation[c].at \in {"asking", "executing"} => invocation[c].of \in Scopes

LEMMA InvocationMoves ==
  ASSUME WindowsInv, NEW c \in Invocations, NEW scope \in Scopes,
         NEW at \in {"asking", "executing"}, NEW by \in {"agent", "http"},
         InvocationGoes(c, at, by, scope)
  PROVE  CallsInv'
<1>1. PICK r : r = [at |-> at, by |-> by, of |-> scope, since |-> gateClock]
  OBVIOUS
<1>2. r \in Invoked /\ r.of \in Scopes
  BY <1>1 DEF Invoked, WindowsInv, Moments
<1>3. invocation' = [invocation EXCEPT ![c] = r]
  BY <1>1 DEF InvocationGoes
<1> QED
  BY <1>2, <1>3 DEF WindowsInv, CallsInv

LEMMA InvocationIsStill ==
  ASSUME WindowsInv, NEW c \in Invocations, NEW at \in {"refused", "over"}, InvocationStops(c, at)
  PROVE  CallsInv'
<1>1. PICK r : r = Still(at)
  OBVIOUS
<1>2. r \in Invoked /\ r.at = at
  BY <1>1, GateAssumption DEF Invoked, Still
<1>3. invocation' = [invocation EXCEPT ![c] = r]
  BY <1>1 DEF InvocationStops
<1> QED
  BY <1>2, <1>3 DEF WindowsInv, CallsInv

LEMMA OutcomeRecorded ==
  ASSUME WindowsInv, NEW t \in GatedTools, NEW ok \in BOOLEAN, recordToolExecutionOutcome(t, ok)
  PROVE  /\ circuit' \in [GatedTools -> Circuits]
         /\ \A u \in GatedTools : Len(circuit'[u].outcomes) <= CircuitWindow
         /\ earlier' \subseteq Invocations
<1>1. PICK latest : latest = LastOf(Append(circuit[t].outcomes, ok))
  OBVIOUS
<1>2. circuit[t].outcomes \in Seq(BOOLEAN) /\ Len(circuit[t].outcomes) <= CircuitWindow
      /\ circuit[t].disabled \in BOOLEAN
  BY DEF WindowsInv, Circuits
<1>3. latest \in Seq(BOOLEAN) /\ Len(latest) <= CircuitWindow
  BY <1>1, <1>2, WindowSlides, Zenon
<1>4. PICK r : r = [outcomes |-> latest, disabled |-> circuit[t].disabled \/ TooManyErrors(latest)]
  OBVIOUS
<1>5. r.outcomes = latest /\ r \in Circuits
  <2>1. (circuit[t].disabled \/ TooManyErrors(latest)) \in BOOLEAN
    OBVIOUS
  <2> QED
    BY <1>3, <1>4, <2>1 DEF Circuits
<1>6. circuit' = [circuit EXCEPT ![t] = r]
  <2>1. circuit' = [circuit EXCEPT ![t] = [outcomes |-> latest,
                                           disabled |-> circuit[t].disabled \/ TooManyErrors(latest)]]
    BY <1>1, Zenon DEF recordToolExecutionOutcome
  <2> QED
    BY <1>4, <2>1, Zenon
<1>7. earlier' \subseteq Invocations
  BY DEF recordToolExecutionOutcome, InFlight, WindowsInv
<1> QED
  BY <1>3, <1>5, <1>6, <1>7 DEF WindowsInv

LEMMA WindowsKeep == WindowsInv /\ [GateNext]_gateVars => WindowsInv'
<1> SUFFICES ASSUME WindowsInv, [GateNext]_gateVars  PROVE WindowsInv'
  OBVIOUS
<1>1. CASE UNCHANGED gateVars
  BY <1>1 DEF gateVars, WindowsInv
<1>2. CASE GateTick
  BY <1>2, GateAssumption DEF GateTick, WindowsInv, Moments
<1>3. ASSUME CallsInv', UNCHANGED <<gateClock, circuit, granted, approvalLeases, consent, earlier>>
      PROVE  WindowsInv'
  BY <1>3 DEF WindowsInv, CallsInv
<1>4. ASSUME NEW c \in Invocations, RefusedByPolicy(c)  PROVE WindowsInv'
  BY <1>3, <1>4, InvocationIsStill DEF RefusedByPolicy
<1>5. ASSUME NEW c \in Invocations, NEW scope \in Scopes,
             executeTool(c, scope) \/ handleCallTool(c, scope)
      PROVE  WindowsInv'
  <2>1. PICK at \in {"asking", "executing"}, by \in {"agent", "http"} :
          InvocationGoes(c, at, by, scope)
    BY <1>5 DEF executeTool, handleCallTool
  <2>2. UNCHANGED <<gateClock, circuit, granted, approvalLeases, consent, earlier>>
    BY <1>5 DEF executeTool, handleCallTool
  <2> QED
    BY <1>3, <2>1, <2>2, InvocationMoves
<1>6. ASSUME NEW c \in Invocations, ApprovalEnds(c, FALSE)  PROVE WindowsInv'
  BY <1>3, <1>6, InvocationIsStill DEF ApprovalEnds
<1>7. ASSUME NEW c \in Invocations, ApprovalEnds(c, TRUE)  PROVE WindowsInv'
  <2>1. PICK scope : scope = invocation[c].of
    OBVIOUS
  <2>2. scope \in Scopes
    BY <1>7, <2>1 DEF ApprovalEnds, WindowsInv
  <2>3. InvocationGoes(c, "executing", "agent", scope) /\ UNCHANGED <<gateClock, circuit, granted, earlier>>
    BY <1>7, <2>1 DEF ApprovalEnds
  <2>4. CallsInv'
    BY <2>2, <2>3, InvocationMoves
  <2>5. consent' \subseteq [call : Invocations, of : Scopes, at : Moments]
    BY <1>7, <2>1, <2>2 DEF ApprovalEnds, WindowsInv
  <2>6. gateClock + LeaseTtl \in 0..MaxGateClock + LeaseTtl
    BY GateAssumption DEF WindowsInv, Moments
  <2>7. approvalLeases' \in [ToolRuns \X GatedTools -> 0..MaxGateClock + LeaseTtl]
    BY <1>7, <2>6 DEF ApprovalEnds, WindowsInv
  <2> QED
    BY <2>3, <2>4, <2>5, <2>7 DEF WindowsInv, CallsInv
<1>8. ASSUME NEW c \in Invocations, InvocationEnds(c)  PROVE WindowsInv'
  <2>1. PICK t : t = invocation[c].of.tool
    OBVIOUS
  <2>2. t \in GatedTools
    BY <1>8, <2>1, ScopeHasTool DEF InvocationEnds, WindowsInv
  <2>3. InvocationStops(c, "over") /\ UNCHANGED <<gateClock, granted, approvalLeases, consent>>
    BY <1>8 DEF InvocationEnds
  <2>4. PICK ok \in BOOLEAN : recordToolExecutionOutcome(t, ok)
    BY <1>8, <2>1 DEF InvocationEnds
  <2>5. CallsInv'
    BY <2>3, InvocationIsStill
  <2>6. /\ circuit' \in [GatedTools -> Circuits]
        /\ \A u \in GatedTools : Len(circuit'[u].outcomes) <= CircuitWindow
        /\ earlier' \subseteq Invocations
    BY <2>2, <2>4, OutcomeRecorded
  <2> QED
    BY <2>3, <2>5, <2>6 DEF WindowsInv, CallsInv
<1>9. ASSUME NEW scope \in Scopes, createActionGrant(scope)
      PROVE  WindowsInv'
  BY <1>9 DEF createActionGrant, WindowsInv
<1>10. ASSUME NEW c \in Invocations, NEW approved \in BOOLEAN, ApprovalEnds(c, approved)
       PROVE  WindowsInv'
  BY <1>6, <1>7, <1>10
<1> QED
  BY <1>1, <1>2, <1>4, <1>5, <1>8, <1>9, <1>10 DEF GateNext
-----------------------------------------------------------------------------
(* BrowserSession: what the effect, the socket and the screen can be. *)

\* What the effect, the socket and the screen of the page can be.
ScreenInv ==
  /\ signedIn \in BOOLEAN /\ thinking \in BOOLEAN
  /\ mount \in [Mounts -> {"new", "booting", "cancelled", "live", "over"}]
  /\ ws \in [Mounts -> {"none", "connecting", "open", "closing", "closed"}]
  /\ \A n \in Mounts : Len(coming[n]) <= MaxMessages
  /\ gate = NoGate \/ \E p \in Plans : gate = {p}
  /\ tool \in [of : Mounts \cup {NoSocket},
               at : {"none", "asked", "executing", "answered", "dropped"}]

LEMMA ScreenBegins == SessionPageInit => ScreenInv
<1> SUFFICES ASSUME SessionPageInit  PROVE ScreenInv
  OBVIOUS
<1>1. \A n \in Mounts : coming[n] = <<>>
  BY DEF SessionPageInit
<1>2. \A n \in Mounts : Len(coming[n]) <= MaxMessages
  BY <1>1, PageAssumption
<1>3. /\ mount \in [Mounts -> {"new", "booting", "cancelled", "live", "over"}]
      /\ ws \in [Mounts -> {"none", "connecting", "open", "closing", "closed"}]
  BY DEF SessionPageInit
<1>4. tool \in [of : Mounts \cup {NoSocket},
               at : {"none", "asked", "executing", "answered", "dropped"}]
  BY DEF SessionPageInit
<1> QED
  BY <1>2, <1>3, <1>4, Zenon DEF SessionPageInit, ScreenInv

LEMMA ScreenTyped == PageInv /\ ScreenInv => SessionPageTypeOK
<1> SUFFICES ASSUME PageInv, ScreenInv  PROVE SessionPageTypeOK
  OBVIOUS
<1>1. gate \subseteq Plans /\ Cardinality(gate) <= 1
  <2>1. CASE gate = NoGate
    BY <2>1, FS_EmptySet DEF NoGate
  <2>2. ASSUME NEW p \in Plans, gate = {p}  PROVE gate \subseteq Plans /\ Cardinality(gate) <= 1
    BY <2>2, FS_Singleton
  <2> QED
    BY <2>1, <2>2 DEF ScreenInv
<1> QED
  BY <1>1 DEF PageInv, ScreenInv, SessionPageTypeOK

\* The sockets of the page, when neither a queue nor the screen changes.
LEMMA SocketMoves ==
  ASSUME ScreenInv, UNCHANGED <<coming, thinking, gate, tool>>,
         \/ \E signed \in BOOLEAN : UserChanges(signed)
         \/ \E n \in Mounts : Boot(n) \/ Opens(n)
  PROVE  ScreenInv'
<1>1. ASSUME NEW signed \in BOOLEAN, UserChanges(signed)  PROVE ScreenInv'
  <2>1. \A n \in Mounts : /\ Cleaned(n) \in {"new", "booting", "cancelled", "live", "over"}
                          /\ Left(n) \in {"none", "connecting", "open", "closing", "closed"}
    BY DEF ScreenInv, Cleaned, Left
  <2>2. ws' \in [Mounts -> {"none", "connecting", "open", "closing", "closed"}]
    BY <1>1, <2>1 DEF UserChanges
  <2>3. mount' \in [Mounts -> {"new", "booting", "cancelled", "live", "over"}]
    BY <1>1, <2>1 DEF UserChanges
  <2>4. signedIn' \in BOOLEAN
    BY <1>1 DEF UserChanges
  <2> QED
    BY <2>2, <2>3, <2>4 DEF ScreenInv
<1>2. ASSUME NEW n \in Mounts, Boot(n) \/ Opens(n)  PROVE ScreenInv'
  <2>1. /\ mount' \in [Mounts -> {"new", "booting", "cancelled", "live", "over"}]
        /\ ws' \in [Mounts -> {"none", "connecting", "open", "closing", "closed"}]
        /\ signedIn' = signedIn
    BY <1>2 DEF Boot, Opens, ScreenInv
  <2> QED
    BY <2>1 DEF ScreenInv
<1> QED
  BY <1>1, <1>2

\* A queue never holds more than the bound, nor does it grow when it loses its head.
LEMMA QueuesStay ==
  ASSUME PageInv, ScreenInv, NEW n \in Mounts,
         \/ \E m \in PageMessages : Sends(n, m)
         \/ coming' = [coming EXCEPT ![n] = <<>>]
         \/ coming[n] # <<>> /\ coming' = [coming EXCEPT ![n] = Tail(@)]
  PROVE  \A k \in Mounts : Len(coming'[k]) <= MaxMessages
<1>1. coming \in [Mounts -> Seq(PageMessages)] /\ MaxMessages \in Nat
      /\ \A k \in Mounts : Len(coming[k]) <= MaxMessages
  BY PageAssumption DEF PageInv, ScreenInv
<1>2. ASSUME NEW m \in PageMessages, Sends(n, m)
      PROVE  \A k \in Mounts : Len(coming'[k]) <= MaxMessages
  BY <1>1, <1>2 DEF Sends
<1>3. CASE coming' = [coming EXCEPT ![n] = <<>>]
  BY <1>1, <1>3
<1>4. CASE coming[n] # <<>> /\ coming' = [coming EXCEPT ![n] = Tail(@)]
  BY <1>1, <1>4
<1> QED
  BY <1>2, <1>3, <1>4

LEMMA ScreenTold ==
  ASSUME PageInv, ScreenInv, NEW n \in Mounts, Delivered(n)
  PROVE  ScreenInv'
<1> DEFINE msg == Head(coming[n])
<1>1. /\ UNCHANGED <<signedIn, mount, ws>>
      /\ coming[n] # <<>> /\ coming' = [coming EXCEPT ![n] = Tail(@)]
      /\ thinking' = IF mount[n] = "live" /\ msg.type = "thinking" THEN msg.value ELSE thinking
      /\ gate' = IF mount[n] = "live" /\ msg.type = "plan" THEN {msg.plan} ELSE gate
      /\ tool' = IF msg.type = "tool" THEN [tool EXCEPT !.at = "executing"] ELSE tool
  BY DEF Delivered
<1>2. msg \in PageMessages
  BY <1>1 DEF PageInv
<1>3. /\ msg.type = "thinking" => msg.value \in BOOLEAN
      /\ msg.type = "plan" => msg.plan \in Plans
  BY <1>2 DEF PageMessages, PlanMessage
<1>4. \A k \in Mounts : Len(coming'[k]) <= MaxMessages
  BY <1>1, QueuesStay
<1>5. thinking' \in BOOLEAN /\ (gate' = NoGate \/ \E p \in Plans : gate' = {p})
  BY <1>1, <1>3, Zenon DEF ScreenInv
<1>6. tool' \in [of : Mounts \cup {NoSocket},
                 at : {"none", "asked", "executing", "answered", "dropped"}]
  BY <1>1 DEF ScreenInv
<1> QED
  BY <1>1, <1>4, <1>5, <1>6 DEF ScreenInv

LEMMA ScreenKeeps == PageInv /\ ScreenInv /\ [SessionPageNext]_sessionPageVars => ScreenInv'
<1> SUFFICES ASSUME PageInv, ScreenInv, [SessionPageNext]_sessionPageVars  PROVE ScreenInv'
  OBVIOUS
<1>1. CASE UNCHANGED sessionPageVars
  BY <1>1 DEF sessionPageVars, ScreenInv
<1>2. CASE \/ \E signed \in BOOLEAN : UserChanges(signed)
           \/ \E n \in Mounts : Boot(n) \/ Opens(n)
  BY <1>2, SocketMoves DEF UserChanges, Boot, Opens, screenVars, serverVars
<1>3. ASSUME NEW n \in Mounts, Closes(n)  PROVE ScreenInv'
  <2>1. \A k \in Mounts : Len(coming'[k]) <= MaxMessages
    BY <1>3, QueuesStay DEF Closes
  <2>2. tool' \in [of : Mounts \cup {NoSocket},
                   at : {"none", "asked", "executing", "answered", "dropped"}]
    BY <1>3 DEF Closes, ScreenInv
  <2>3. ws' \in [Mounts -> {"none", "connecting", "open", "closing", "closed"}]
    BY <1>3 DEF Closes, ScreenInv
  <2> QED
    BY <1>3, <2>1, <2>2, <2>3 DEF Closes, ScreenInv, screenVars
<1>4. ASSUME NEW n \in Mounts, Delivered(n)  PROVE ScreenInv'
  BY <1>4, ScreenTold
<1>5. ASSUME NEW n \in Mounts,
             \/ ServerCallsTool(n) \/ RunEnds(n) \/ sendPrompt(n)
             \/ \E p \in Plans : ServerAsksPlan(n, p)
      PROVE  ScreenInv'
  <2>1. \E m \in PageMessages : Sends(n, m)
    BY <1>5, Zenon DEF ServerCallsTool, RunEnds, sendPrompt, ServerAsksPlan, PageMessages, PlanMessage
  <2>2. \A k \in Mounts : Len(coming'[k]) <= MaxMessages
    BY <2>1, QueuesStay
  <2>3. tool' \in [of : Mounts \cup {NoSocket},
                   at : {"none", "asked", "executing", "answered", "dropped"}]
    <3>1. tool' = [of |-> n, at |-> "asked"] \/ tool' = tool
      BY <1>5 DEF ServerCallsTool, RunEnds, sendPrompt, ServerAsksPlan
    <3> QED
      BY <3>1 DEF ScreenInv
  <2>4. UNCHANGED <<signedIn, mount, ws, thinking, gate>>
    BY <1>5 DEF ServerCallsTool, RunEnds, sendPrompt, ServerAsksPlan, screenVars
  <2> QED
    BY <2>2, <2>3, <2>4 DEF ScreenInv
<1>6. ASSUME NEW p \in Plans, PlanTimesOut(p) \/ sendPlanApproval(p) \/ AnswerArrives(p)
      PROVE  ScreenInv'
  <2>1. UNCHANGED <<signedIn, mount, ws, coming, thinking, tool>>
    BY <1>6 DEF PlanTimesOut, sendPlanApproval, AnswerArrives, screenVars
  <2>2. gate' = NoGate \/ gate' = gate
    BY <1>6 DEF PlanTimesOut, sendPlanApproval, AnswerArrives, screenVars
  <2> QED
    BY <2>1, <2>2 DEF ScreenInv
<1>7. CASE ToolEnds
  <2>1. tool' \in [of : Mounts \cup {NoSocket},
                   at : {"none", "asked", "executing", "answered", "dropped"}]
    BY <1>7 DEF ToolEnds, ScreenInv
  <2> QED
    BY <1>7, <2>1 DEF ToolEnds, ScreenInv, screenVars
<1> QED
  BY <1>1, <1>2, <1>3, <1>4, <1>5, <1>6, <1>7 DEF SessionPageNext
-----------------------------------------------------------------------------
(* StagingView: what the view consists of. *)

Posts == [at : {"sent", "handling", "ok", "error"}, ver : shown, approved : BOOLEAN]

\* What the view and the answers on their way consist of, and what the user was shown.
ShownInv ==
  /\ active \in shown \cup {NoDiff}
  /\ pending \subseteq Version /\ shown \subseteq Version
  /\ fetched \in Seq(SUBSET Version)
  /\ \A r \in Requests : post[r] \in {NoPost} \cup Posts

LEMMA ShownBegins == ViewInit => ShownInv
<1> SUFFICES ASSUME ViewInit  PROVE ShownInv
  OBVIOUS
<1>1. \A r \in Requests : post[r] = NoPost
  BY DEF ViewInit
<1>2. fetched \in Seq(SUBSET Version)
  BY DEF ViewInit
<1> QED
  BY <1>1, <1>2, Zenon DEF ViewInit, ShownInv

LEMMA ViewTyped == VFSInv /\ ViewInv /\ ShownInv => ViewTypeOK
BY DEF VFSInv, ViewInv, ShownInv, ViewTypeOK, Posts

\* Behind the view is the staging area, in one of its steps or as it was.
LEMMA ViewStages ==
  ASSUME ViewInv, [ViewNext]_<<vars, viewVars>>
  PROVE  [Next]_vars
<1>1. CASE UNCHANGED <<vars, viewVars>>
  BY <1>1
<1>2. ASSUME NEW u \in Users, NEW p \in Paths, NEW s \in Sizes, StageAndSend(u, p, s)
      PROVE  Next
  BY <1>2 DEF StageAndSend, Next
<1>3. ASSUME NEW r \in Requests, HandleApproval(r) \/ HandleRejection(r)
      PROVE  [Next]_vars
  <2>1. post[r].ver.path \in Paths
    BY <1>3 DEF HandleApproval, HandleRejection, ViewInv, Outdone, Version, NoPost
  <2> QED
    BY <1>3, <2>1, ViewerAssumption, Zenon DEF HandleApproval, HandleRejection, Next
<1>4. ASSUME NEW r \in Requests, HandlerGoesOn(r)  PROVE Next
  BY <1>4 DEF HandlerGoesOn, Next, HandlerStep
<1>5. ASSUME NEW r \in Requests,
             \/ \E approved \in BOOLEAN : Respond(r, approved)
             \/ Responded(r) \/ RespondFails(r)
      PROVE  UNCHANGED vars
  BY <1>5 DEF Respond, Responded, RespondFails
<1>6. CASE \/ MessagesLost \/ stageProposedChanges \/ handleGetPendingFiles \/ fetchPendingFiles
  BY <1>6 DEF MessagesLost, stageProposedChanges, handleGetPendingFiles, fetchPendingFiles
<1>7. CASE ClearExpired /\ UNCHANGED viewVars
  BY <1>7 DEF Next
<1> QED
  BY <1>1, <1>2, <1>3, <1>4, <1>5, <1>6, <1>7 DEF ViewNext

LEMMA StagedKeeps == VFSInv /\ ViewInv /\ [ViewNext]_<<vars, viewVars>> => VFSInv'
BY ViewStages, NextInv

\* The answer of one request changes, or it is sent with what is on view.
LEMMA PostsStay ==
  ASSUME ViewInv, ShownInv, NEW r \in Requests, shown \subseteq shown',
         \/ \E a \in {"sent", "handling", "ok", "error"} : Answer(r, a) /\ post[r] # NoPost
         \/ post' = [post EXCEPT ![r] = NoPost]
         \/ UNCHANGED post
  PROVE  \A q \in Requests : post'[q] \in {NoPost} \cup Posts'
<1>0. DOMAIN post = Requests /\ Posts \subseteq Posts'
  BY DEF ViewInv, Posts
<1>1. ASSUME NEW a \in {"sent", "handling", "ok", "error"}, Answer(r, a), post[r] # NoPost
      PROVE  \A q \in Requests : post'[q] \in {NoPost} \cup Posts'
  <2>1. PICK w : w = [post[r] EXCEPT !.at = a]
    OBVIOUS
  <2>2. post' = [post EXCEPT ![r] = w]
    BY <1>1, <2>1 DEF Answer
  <2>3. post[r] \in Posts
    BY <1>1 DEF ShownInv
  <2>4. w \in Posts
    BY <2>1, <2>3 DEF Posts
  <2> QED
    BY <1>0, <2>2, <2>4 DEF ShownInv
<1>2. CASE post' = [post EXCEPT ![r] = NoPost]
  BY <1>0, <1>2 DEF ShownInv
<1>3. CASE UNCHANGED post
  BY <1>0, <1>3 DEF ShownInv
<1> QED
  BY <1>1, <1>2, <1>3

LEMMA ShownKeeps == VFSInv /\ ViewInv /\ ShownInv /\ [ViewNext]_<<vars, viewVars>> => ShownInv'
<1> SUFFICES ASSUME VFSInv, ViewInv, ShownInv, [ViewNext]_<<vars, viewVars>>  PROVE ShownInv'
  OBVIOUS
<1>0. ASSUME UNCHANGED <<active, pending, fetched, post, shown>>  PROVE ShownInv'
  BY <1>0 DEF ShownInv, Posts
<1>1. CASE UNCHANGED <<vars, viewVars>> \/ MessagesLost \/ (ClearExpired /\ UNCHANGED viewVars)
  BY <1>0, <1>1 DEF viewVars, MessagesLost
<1>8. ASSUME NEW u \in Users, NEW p \in Paths, NEW s \in Sizes, StageAndSend(u, p, s)
      PROVE  ShownInv'
  BY <1>0, <1>8 DEF StageAndSend
<1>2. CASE stageProposedChanges
  <2>1. /\ Head(inbox) \in Version /\ active' = Head(inbox)
        /\ pending' = pending \cup {Head(inbox)} /\ shown' = shown \cup {Head(inbox)}
        /\ UNCHANGED <<fetched, post>>
    BY <1>2 DEF stageProposedChanges, ViewInv
  <2>2. \A r \in Requests : post'[r] \in {NoPost} \cup Posts'
    BY <2>1 DEF ShownInv, Posts
  <2> QED
    BY <2>1, <2>2, Zenon DEF ShownInv
<1>3. CASE handleGetPendingFiles
  <2>1. /\ fetched' = <<{staging[p].ver : p \in {q \in StagedPaths :
                          staging[q].status = "pending_review" /\ OwnedBy(q, Viewer)}}>>
        /\ UNCHANGED <<active, pending, post, shown>>
    BY <1>3 DEF handleGetPendingFiles
  <2>2. \A p \in StagedPaths : staging[p].ver \in Version
    BY DEF StagedPaths, ViewInv, Entry
  <2>3. {staging[p].ver : p \in {q \in StagedPaths :
                          staging[q].status = "pending_review" /\ OwnedBy(q, Viewer)}}
          \in SUBSET Version
    BY <2>2
  <2>4. fetched' \in Seq(SUBSET Version)
    BY <2>1, <2>3
  <2> QED
    BY <2>1, <2>4 DEF ShownInv, Posts
<1>4. CASE fetchPendingFiles
  <2>1. /\ fetched # <<>> /\ pending' = Head(fetched) /\ fetched' = <<>>
        /\ UNCHANGED <<active, post, shown>>
    BY <1>4 DEF fetchPendingFiles
  <2>2. Head(fetched) \in SUBSET Version
    BY <2>1 DEF ShownInv
  <2> QED
    BY <2>1, <2>2 DEF ShownInv, Posts
<1>5. ASSUME NEW r \in Requests, NEW approved \in BOOLEAN, Respond(r, approved)
      PROVE  ShownInv'
  <2>1. PICK w : w = [at |-> "sent", ver |-> active, approved |-> approved]
    OBVIOUS
  <2>2. /\ active # NoDiff /\ post' = [post EXCEPT ![r] = w]
        /\ UNCHANGED <<active, pending, fetched, shown>>
    BY <1>5, <2>1 DEF Respond
  <2>3. w \in Posts
    BY <2>1, <2>2 DEF ShownInv, Posts
  <2>4. DOMAIN post = Requests
    BY DEF ViewInv
  <2>5. \A q \in Requests : post'[q] \in {NoPost} \cup Posts
    BY <2>2, <2>3, <2>4 DEF ShownInv
  <2> QED
    BY <2>2, <2>5 DEF ShownInv, Posts
<1>6. ASSUME NEW r \in Requests,
             HandleApproval(r) \/ HandleRejection(r) \/ HandlerGoesOn(r)
      PROVE  ShownInv'
  <2>1. UNCHANGED <<active, pending, fetched, shown>>
    BY <1>6 DEF HandleApproval, HandleRejection, HandlerGoesOn
  <2>2. \/ \E a \in {"sent", "handling", "ok", "error"} : Answer(r, a) /\ post[r] # NoPost
        \/ UNCHANGED post
    <3>1. CASE HandleApproval(r) \/ HandleRejection(r)
      <4>1. post[r] # NoPost
        BY <3>1 DEF HandleApproval, HandleRejection, NoPost
      <4> QED
        BY <3>1, <4>1, Zenon DEF HandleApproval, HandleRejection
    <3>2. CASE HandlerGoesOn(r)
      <4>1. UNCHANGED post \/ req[r] # Idle
        BY <3>2 DEF HandlerGoesOn, FinishCommit, RefuseCommit, CommitFails, Idle
      <4>2. UNCHANGED post \/ post[r] # NoPost
        BY <4>1 DEF ViewInv, NoPost
      <4> QED
        BY <3>2, <4>2, Zenon DEF HandlerGoesOn
    <3> QED
      BY <1>6, <3>1, <3>2
  <2> QED
    BY <2>1, <2>2, PostsStay DEF ShownInv
<1>7. ASSUME NEW r \in Requests, Responded(r) \/ RespondFails(r)  PROVE ShownInv'
  <2>1. post' = [post EXCEPT ![r] = NoPost] /\ UNCHANGED <<fetched, shown>>
    BY <1>7 DEF Responded, RespondFails
  <2>2. \A q \in Requests : post'[q] \in {NoPost} \cup Posts'
    BY <2>1, PostsStay
  <2>3. active' \in shown \cup {NoDiff} /\ pending' \subseteq Version
    BY <1>7 DEF Responded, RespondFails, ShownInv
  <2> QED
    BY <2>1, <2>2, <2>3 DEF ShownInv
<1> QED
  BY <1>1, <1>2, <1>3, <1>4, <1>5, <1>6, <1>7, <1>8 DEF ViewNext
-----------------------------------------------------------------------------
(* What follows for each component. *)

\* However connections open, are refused and close, no address has more sockets
\* open than its limit.
THEOREM AddressesAreLimited == LimiterSpec => []AddressLimit
BY LimiterBegins, LimiterStep, AddressIsLimited, PTL DEF LimiterSpec

\* However calls overlap, a tool that failed too often starts nothing more; and
\* one whose policy requires approval runs for an HTTP client only under a grant
\* for just this call, and for an agent only when the user approved this call or,
\* within LeaseTtl, another of the same tool in the same run.
THEOREM GatedToolsOnly == GateInit /\ [][GateNext]_gateVars => []ToolsAreGated
<1>1. GateInv => ToolsAreGated
  BY DEF GateInv, ToolsAreGated, ExecutesWithConsent, Agreed
<1> QED
  BY <1>1, GateBegins, GateStep, PTL

-----------------------------------------------------------------------------
(* MCPlatform: what follows for its parts. *)

LEMMA PartsBegin ==
  PlatformInit => /\ BrowserInit /\ AuthInit /\ OAuthInit /\ LimiterInit /\ GateInit /\ KeysInit
                  /\ ProviderInit /\ HttpInit /\ ReadyInit /\ SandboxInit /\ TurnsInit
                  /\ ViewInit /\ SessionPageInit /\ ChatInit
BY DEF PlatformInit, BrowserInit

LEMMA WritersBegin ==
  PlatformInit => /\ PrefInit /\ ContextInit /\ EditInit /\ RecordsInit /\ BrainInit /\ IndexInit
                  /\ RepoInit /\ ToolServersInit /\ SchemaInit /\ WriteInit /\ ModelInit
                  /\ RecallInit /\ GraphInit /\ PromptInit
BY DEF PlatformInit

\* A step of the platform is one of its part, and of no other.
LEMMA PartsStep ==
  ASSUME [PlatformNext]_platformVars
  PROVE  /\ UNCHANGED part
         /\ [OAuthNext]_oauthVars /\ [LimiterNext]_limiterVars /\ [GateNext]_gateVars
         /\ [KeysNext]_keyVars /\ [ProviderNext]_providerVars /\ [HttpNext]_httpVars
         /\ [ReadyNext]_readyVars /\ [SandboxNext]_sandboxVars /\ [TurnsNext]_turnsVars
         /\ [ViewNext]_<<vars, viewVars>> /\ [SessionPageNext]_sessionPageVars
         /\ [ChatNext]_chatVars
         /\ part = "browser" => [BrowserNext]_browserVars
         /\ part # "browser" => [AuthNext]_authVars
<1>1. CASE UNCHANGED platformVars
  BY <1>1 DEF platformVars, partVars, browserVars
<1>2. CASE PlatformNext
  BY <1>2 DEF PlatformNext, Only, browserVars
<1> QED
  BY <1>1, <1>2

LEMMA WritersStep ==
  ASSUME [PlatformNext]_platformVars
  PROVE  /\ [PrefNext]_prefVars /\ [ContextNext]_contextVars /\ [EditNext]_editVars
         /\ [RecordsNext]_recordVars /\ [BrainStep]_brainVars /\ [IndexNext]_indexVars
         /\ [RepoNext]_repoVars /\ [ToolServersNext]_toolServerVars /\ [SchemaNext]_schemaVars
         /\ [WriteNext]_writeVars /\ [ModelNext]_modelVars
         /\ [RecallNext \/ JournalNext]_recallVars
         /\ [GraphNext]_calls /\ [BuildPrompt]_promptVars
<1>1. CASE UNCHANGED platformVars
  BY <1>1 DEF platformVars, partVars
<1>2. CASE PlatformNext
  BY <1>2 DEF PlatformNext, Only
<1> QED
  BY <1>1, <1>2

WritersInv ==
  /\ PrefInv /\ ContextTypeOK /\ TurnsAreShared /\ EditInv /\ RecordsInv /\ BrainInv
  /\ IndexInv /\ RepoInv /\ ServersInv /\ SchemaInv /\ WriteInv /\ ModelInv /\ RecallInv
  /\ PacketsInv /\ GraphTypes /\ PromptInv

PlatformInv ==
  /\ SandboxInv /\ AddressInv /\ GateInv /\ KeysInv /\ RefreshInv /\ CsrfInv /\ ReadyInv
  /\ HandoffInv /\ IInv /\ AuthInv /\ ViewInv /\ PageInv /\ ChatInv
  /\ part = "browser" => BrowserInv
  /\ WritersInv

LEMMA WritersAreIn == PlatformInit => WritersInv
BY WritersBegin, PrefBegins, ContextBegins, EditsBegin, RecordsBegin, BrainBegins, IndexerBegins,
   RepoBegins, ServersBegin, SchemaBegins, WritesBegin, ModelBegins, RecallBegins, PacketsBegin,
   CallsBegin, PromptBegins
DEF WritersInv

LEMMA WritersGoOn == WritersInv /\ [PlatformNext]_platformVars => WritersInv'
<1> SUFFICES ASSUME WritersInv, [PlatformNext]_platformVars  PROVE WritersInv'
  OBVIOUS
<1>1. /\ PrefInv' /\ ContextTypeOK' /\ TurnsAreShared' /\ EditInv' /\ RecordsInv' /\ BrainInv'
      /\ IndexInv' /\ RepoInv' /\ ServersInv' /\ SchemaInv' /\ WriteInv' /\ ModelInv'
      /\ RecallInv'
  BY WritersStep, PrefStep, ContextStep, EditStep, RecordsStep, BrainKeeps, IndexStep, RepoStep,
     ServersStep, SchemaStep, WriteStep, ModelStep, RecallStep
  DEF WritersInv
<1>2. PacketsInv'
  BY WritersStep, PacketsStep DEF WritersInv, RecallInv
<1>3. GraphTypes'
  BY WritersStep, CallsAreSymbols DEF WritersInv, GraphTypes
<1>4. PromptInv'
  BY WritersStep, PromptBuilds, PromptStays DEF WritersInv
<1> QED
  BY <1>1, <1>2, <1>3, <1>4 DEF WritersInv

LEMMA PlatformBegins == PlatformInit => PlatformInv
BY PartsBegin, SandboxBegins, LimiterBegins, GateBegins, KeysBegin, RefreshBegins, CsrfBegins,
   ReadyBegins, HandoffInit, Initial, AuthInit1, BrowserBegins,
   ViewBegins, PageBegins, ChatBegins, WritersAreIn
DEF PlatformInv

LEMMA PlatformStep ==
  PlatformInv /\ [PlatformNext]_platformVars
    => /\ PlatformInv'
       /\ [RefreshTokens!OneTimeNext]_(RefreshTokens!oneTimeVars)
       /\ [Handoffs!OneTimeNext]_(Handoffs!oneTimeVars)
<1> SUFFICES ASSUME PlatformInv, [PlatformNext]_platformVars
             PROVE  /\ PlatformInv'
                    /\ [RefreshTokens!OneTimeNext]_(RefreshTokens!oneTimeVars)
                    /\ [Handoffs!OneTimeNext]_(Handoffs!oneTimeVars)
  OBVIOUS
<1>1. /\ SandboxInv' /\ AddressInv' /\ GateInv' /\ KeysInv' /\ RefreshInv' /\ CsrfInv'
      /\ ReadyInv' /\ IInv' /\ ViewInv' /\ PageInv' /\ ChatInv' /\ WritersInv'
  BY PartsStep, SandboxStep, LimiterStep, GateStep, KeysStep, RefreshStep, CsrfStep, ReadyStep,
     Inductive, ViewStep, PageStep, ChatStep, WritersGoOn
  DEF PlatformInv
<1>2. HandoffInv' /\ [Handoffs!OneTimeNext]_(Handoffs!oneTimeVars)
  BY PartsStep, HandoffStep DEF PlatformInv
<1>3. CASE part = "browser"
  <2>1. BrowserInv' /\ [RefreshTokens!OneTimeNext]_(RefreshTokens!oneTimeVars)
    BY <1>3, PartsStep, BrowserStep, BrowserRotates DEF PlatformInv
  <2> QED
    BY <1>1, <1>2, <2>1 DEF PlatformInv, BrowserInv
<1>4. CASE part # "browser"
  <2>1. AuthInv' /\ [RefreshTokens!OneTimeNext]_(RefreshTokens!oneTimeVars)
    BY <1>4, PartsStep, AuthStep, RotationRefines DEF PlatformInv
  <2>2. part' # "browser"
    BY <1>4, PartsStep
  <2> QED
    BY <1>1, <1>2, <2>1, <2>2 DEF PlatformInv
<1> QED
  BY <1>3, <1>4

LEMMA PlatformInvariant == PlatformSpec => []PlatformInv
BY PlatformBegins, PlatformStep, PTL DEF PlatformSpec

\* Gates let pass what they should, and nothing goes ahead of what it waits for,
\* whatever overlaps.
THEOREM GatesAlwaysHold == PlatformSpec => []GatesHold
<1>1. PlatformInv => /\ AddressLimit /\ ToolsAreGated /\ RetiredKeysExpire /\ TenantsAreApart
                     /\ NoVainRefusal /\ ReadyIfNeededAnswer /\ StoppedIsStopped
  BY AddressIsLimited, ReadyAsAsked
  DEF PlatformInv, GateInv, ToolsAreGated, ExecutesWithConsent, Agreed, KeysInv, CsrfInv, NoVainRefusal, IInv
<1>2. PlatformInv => /\ FallbackExhausted /\ BrainInOrder
                     /\ StatementsFitSchema /\ TenantsComeFirst
  BY FailsExhausted, BrainIsInOrder, SchemaFits DEF PlatformInv, WritersInv
<1>3. PlatformInv => GatesHold
  BY <1>1, <1>2 DEF GatesHold
<1> QED
  BY <1>3, PlatformInvariant, PTL

\* What is written stays, though writers of different components stop, fail and
\* repeat, unless writers of one thing overlap where the code lets them.
THEOREM NothingIsEverLost == PlatformSpec => []NothingIsLost
<1>1. PlatformInv => NothingIsLost
  BY EditsAreKept, ListedAreRegistered, ChatIsCurrent, PrefsAreKept, EndIsTold, RowsAreOnce,
     RecordsAreRows, JournalIsWhole, IndexIsOfMirror
  DEF PlatformInv, WritersInv, NothingIsLost
<1> QED
  BY <1>1, PlatformInvariant, PTL

\* A reused token ends its session and only a reused one does: nobody takes an
\* honest browser for a thief.
THEOREM ReuseIsDetected == PlatformSpec => []ReuseDetection
<1>1. PlatformInv => ReuseDetection
  BY HonestIsTrusted, CaughtIsEnded DEF PlatformInv, ReuseDetection, RefreshInv
<1> QED
  BY <1>1, PlatformInvariant, PTL

\* Every refresh token and every copy of a handoff is a one-time token.
THEOREM UsedOnce == PlatformSpec => OneTimeUse
<1>1. PlatformInit => RefreshTokens!OneTimeInit /\ Handoffs!OneTimeInit
  BY PartsBegin, TokensBegin, CopiesBegin
<1> QED
  BY <1>1, PlatformInvariant, PlatformStep, PTL
  DEF PlatformSpec, OneTimeUse, RotationIsOneTime, HandoffIsOneTime,
      RefreshTokens!OneTimeSpec, Handoffs!OneTimeSpec

\* What the browser shows is what the server has: the version on view, the wait of
\* a plan, the rows of a conversation.
THEOREM ScreenAlwaysCurrent == PlatformSpec => []ScreenIsCurrent
<1>1. PlatformInv => ScreenIsCurrent
  BY ViewIsCurrent, PageIsCurrent, ChatIsCurrent DEF PlatformInv, ScreenIsCurrent
<1> QED
  BY <1>1, PlatformInvariant, PTL

\* Runs in containers and turns of an expert, as the platform checks them.
THEOREM RunsAndTurns == PlatformSpec => [](NothingLeft /\ EveryCallIsAnswered /\ ReportIsWhatRan)
<1>1. PlatformInv => NothingLeft
  BY DEF PlatformInv, SandboxInv, NothingLeft, Tidy, SandboxTypeOK
<1>2. PlatformInv => EveryCallIsAnswered /\ ReportIsWhatRan
  BY DEF PlatformInv, IInv, Types, RepliesInv, EveryCallIsAnswered, ReportInv, ReportIsWhatRan
<1> QED
  BY <1>1, <1>2, PlatformInvariant, PTL

\* What a model is shown is what was chosen for it: symbols as deep as the walk
\* promises, sources before what was learned, the constraints of the highest
\* priority, and every line in one chunk.
THEOREM EvidenceIsAlwaysExact == PlatformSpec => []EvidenceIsExact
<1>1. PlatformInv => EvidenceIsExact
  BY PacketsFair, WalksFindTheirDepth, PromptsAreExact DEF PlatformInv, WritersInv, EvidenceIsExact
<1> QED
  BY <1>1, PlatformInvariant, PTL
-----------------------------------------------------------------------------
(* MCPlatform: the types of its parts. *)

\* What the components add to the invariants above so that their states have
\* their types whatever they do.
TypedInv ==
  /\ part \in Parts
  /\ IdemInv /\ CountersInv /\ FixInv /\ DagInv /\ SearchTypeOK /\ StateInv /\ WindowsInv
  /\ WaitersInv /\ TallyInv /\ GotInv /\ ScreenInv /\ VFSInv /\ ShownInv
  /\ part = "browser" => TabsInv
  /\ RegistryInv /\ ScriptInv /\ LeftInv /\ QuotaInv /\ TriesInv /\ HashesInv
  /\ MemoryBounds /\ MirrorInv

LEMMA GraphsBegin == PlatformInit => IdemInit /\ DagInit /\ SearchInit /\ FixInit
BY DEF PlatformInit

LEMMA GraphsStep ==
  ASSUME [PlatformNext]_platformVars
  PROVE  [IdemNext]_idemVars /\ [DagStep]_dagVars /\ [SearchNext]_searchVars /\ [FixNext]_fixVars
<1>1. CASE UNCHANGED platformVars
  BY <1>1 DEF platformVars, partVars
<1>2. ASSUME PlatformNext  PROVE [IdemNext]_idemVars /\ [DagStep]_dagVars
  BY <1>2 DEF PlatformNext, Only
<1>3. ASSUME PlatformNext  PROVE [SearchNext]_searchVars /\ [FixNext]_fixVars
  BY <1>3 DEF PlatformNext, Only
<1> QED
  BY <1>1, <1>2, <1>3

LEMMA TypesBegin == PlatformInit => TypedInv
<1> SUFFICES ASSUME PlatformInit  PROVE TypedInv
  OBVIOUS
<1>1. part \in Parts
  BY DEF PlatformInit
<1>2. /\ IdemInv /\ CountersInv /\ FixInv /\ DagInv /\ SearchTypeOK /\ StateInv /\ WindowsInv
      /\ WaitersInv /\ TallyInv /\ GotInv /\ ScreenInv /\ ShownInv /\ TabsInv
  BY GraphsBegin, PartsBegin, IdemBegins, CountersBegin, FixBegins, DagBegins, SearchBegins,
     StateBegins, WindowsBegin, WaitersBegin, TallyBegins, GotBegins, ScreenBegins, ShownBegins,
     TabsBegin
<1>3. VFSInv
  BY PartsBegin, InitInv DEF ViewInit
<1>4. /\ RegistryInv /\ ScriptInv /\ LeftInv /\ QuotaInv /\ TriesInv /\ HashesInv
      /\ MemoryBounds /\ MirrorInv
  BY WritersBegin, RegistryBegins, StartupBegins, AttemptsBegin, QuotasBegin, HashesBegin,
     BoundsBegin, MirrorBegins
<1> QED
  BY <1>1, <1>2, <1>3, <1>4 DEF TypedInv

LEMMA TypesStep ==
  PlatformInv /\ PlatformInv' /\ TypedInv /\ [PlatformNext]_platformVars => TypedInv'
<1> SUFFICES ASSUME PlatformInv, PlatformInv', TypedInv, [PlatformNext]_platformVars
             PROVE  TypedInv'
  OBVIOUS
<1>1. part' = part /\ part' \in Parts
  BY PartsStep DEF TypedInv
<1>2. IdemInv' /\ FixInv' /\ DagInv' /\ SearchTypeOK'
  BY GraphsStep, IdemKeeps, FixKeeps, DagKeeps, SearchKeeps DEF TypedInv
<1>3. /\ CountersInv' /\ StateInv' /\ WindowsInv' /\ WaitersInv' /\ TallyInv' /\ GotInv'
      /\ ScreenInv' /\ VFSInv' /\ ShownInv'
  BY PartsStep, CountersKeep, StateKeeps, WindowsKeep, WaitersKeep, TallyKeeps, GotKeeps,
     ScreenKeeps, StagedKeeps, ShownKeeps
  DEF TypedInv, PlatformInv
<1>4. part' = "browser" => TabsInv'
  BY <1>1, PartsStep, TabsKeep DEF TypedInv, PlatformInv
<1>5. /\ RegistryInv' /\ ScriptInv' /\ LeftInv' /\ QuotaInv' /\ TriesInv' /\ HashesInv'
      /\ MemoryBounds' /\ MirrorInv'
  BY WritersStep, RegistryGoesOn, StartupKeeps, AttemptsKeep, QuotasKeep, HashesKeep, BoundsKeep,
     MirrorKeeps
  DEF TypedInv, PlatformInv, WritersInv
<1> QED
  BY <1>1, <1>2, <1>3, <1>4, <1>5 DEF TypedInv

LEMMA StatesAreTyped == PlatformInv /\ TypedInv => PlatformTypesOK
<1> SUFFICES ASSUME PlatformInv, TypedInv  PROVE PlatformTypesOK
  OBVIOUS
<1>1. AuthInv /\ AuthTypeOK /\ (part = "browser" => BrowserTypeOK)
  BY AuthTyped, BrowserTyped DEF PlatformInv, TypedInv, BrowserInv
<1>2. /\ OAuthTypeOK /\ LimiterTypeOK /\ IdemTypeOK /\ DagTypeOK /\ FixTypeOK /\ SearchTypeOK
      /\ SandboxTypeOK /\ GateTypeOK /\ KeysTypeOK /\ ProviderTypeOK /\ HttpTypeOK /\ ReadyTypeOK
      /\ SessionPageTypeOK /\ ViewTypeOK
  BY OAuthTyped, DagTyped, FixTyped, WindowsTyped, KeysTyped, ProviderTyped, HttpTyped, ReadyTyped,
     ScreenTyped, ViewTyped
  DEF PlatformInv, TypedInv, CountersInv, IdemInv, SandboxInv
<1>3. ModelTypeOK /\ ContextTypeOK /\ EditTypeOK /\ ToolServersTypeOK /\ BrainTypeOK /\ ChatTypeOK
  BY QuotasTyped, EditsTyped, RegistryTyped, BrainTyped, ChatTyped
  DEF PlatformInv, WritersInv, TypedInv
<1>4. PrefTypeOK /\ RecordsTypeOK /\ SchemaTypeOK /\ WriteTypeOK /\ IndexTypeOK
  BY PrefTyped, RunsTyped, StartupTyped, AttemptsTyped, IndexTyped
  DEF PlatformInv, WritersInv, TypedInv
<1>5. GraphTypeOK /\ RecallTypeOK /\ RepoTypeOK /\ PromptTypeOK /\ TurnsTypeOK
  BY GraphTyped, RecallTyped, RepoTyped, PromptTyped, TurnsTyped
  DEF PlatformInv, WritersInv, TypedInv
<1> QED
  BY <1>1, <1>2, <1>3, <1>4, <1>5 DEF PlatformTypesOK, TypedInv

\* Whatever a component does, and whichever of its steps fail, its state has its
\* types, of which some bind: no counter falls below zero or passes its limit, no
\* attempt or rollback is one too many, no place is taken twice.
THEOREM TypesAlwaysHold == PlatformSpec => []PlatformTypesOK
<1>1. PlatformSpec => [](PlatformInv /\ TypedInv)
  BY PlatformInvariant, PlatformBegins, PlatformStep, TypesBegin, TypesStep, PTL DEF PlatformSpec
<1> QED
  BY <1>1, StatesAreTyped, PTL
=============================================================================
