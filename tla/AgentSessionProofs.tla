------------------------- MODULE AgentSessionProofs -------------------------
(***************************************************************************)
(* Proofs of the safety properties of AgentSession, for every number of    *)
(* runs, prompts, slots and interactions.                                  *)
(*                                                                         *)
(* IInv is inductive.  SlotsBound needs active to be finite, since its     *)
(* bound is a cardinality.  Untangled is not inductive by itself: the end  *)
(* of a run or of a delegation restores the identity that was saved when   *)
(* it began, so Identity adds what is saved, while prompts come one at a   *)
(* time: null for the run, the run's own id for its first delegation, the  *)
(* id of the delegation around it for any other.                           *)
(*                                                                         *)
(* The steps fall in three groups: the interactions of the runs, which     *)
(* keep the set of executing runs and move what they await; the steps of   *)
(* the prompt handlers, which change that set and touch no promise; and    *)
(* the rest, which changes neither.                                        *)
(***************************************************************************)
EXTENDS AgentSession, TLAPS, FiniteSetTheorems

Identity ==
  /\ \A r \in Runs : r \in InProgress <=> saved[r] # <<>>
  /\ ~tangled =>
       \A r \in InProgress :
         /\ saved[r][1] = None
         /\ \A i \in 2 .. Len(saved[r]) :
              /\ saved[r][i] # None /\ saved[r][i].run = r
              /\ saved[r][i] = Root(r) <=> i = 2

IInv ==
  /\ TypeOK
  /\ SlotsBound
  /\ NoStrandedRun
  /\ Untangled
  /\ Identity
  /\ IsFiniteSet(active)

LEMMA InitInv == Init => IInv
<1> SUFFICES ASSUME Init PROVE IInv
  OBVIOUS
<1> USE DEF Init, GovernorInit
<1>1. TypeOK
  <2>1. saved \in [Runs -> Seq(RunId \cup {None})]
    OBVIOUS
  <2>2. key \in [Runs -> [id : RunId \cup {None}, tool : WriteTools]]
    BY SessionAssumption
  <2>3. phase \in [Runs -> Phases] /\ steps \in [Runs -> Nat]
    BY DEF Phases
  <2>4. QED
    BY <2>1, <2>2, <2>3 DEF TypeOK
<1>2. IsFiniteSet(active) /\ Cardinality(active) = 0
  BY FS_EmptySet
<1>3. SlotsBound
  BY <1>2, GovernorAssumption DEF SlotsBound
<1>4. NoStrandedRun
  BY DEF NoStrandedRun, Waits
<1>5. InProgress = {} /\ \A r \in Runs : saved[r] = <<>>
  BY DEF InProgress, Executing, ExecutingPhases, Waits
<1>6. Untangled /\ Identity
  BY <1>5 DEF Untangled, Identity
<1>7. QED
  BY <1>1, <1>2, <1>3, <1>4, <1>6 DEF IInv
-----------------------------------------------------------------------------
(* Interactions. *)

\* What a step has to show when it keeps the runs that execute
LEMMA SameRunsInv ==
  ASSUME IInv, UNCHANGED <<active, current, saved, tangled>>,
         Executing' = Executing, InProgress' = InProgress,
         TypeOK', NoStrandedRun'
  PROVE  IInv'
<1>1. SlotsBound'
  BY DEF IInv, SlotsBound
<1>2. Untangled' /\ Identity'
  BY DEF IInv, Untangled, Identity
<1>3. QED
  BY <1>1, <1>2 DEF IInv

\* One run moves between two phases of its execution.
LEMMA PhaseMoves ==
  ASSUME TypeOK, NEW r \in Runs, NEW ph,
         phase[r] \in ExecutingPhases, ph \in ExecutingPhases,
         phase' = [phase EXCEPT ![r] = ph]
  PROVE  Executing' = Executing /\ InProgress' = InProgress
<1>1. Executing' = Executing
  BY DEF TypeOK, Executing
<1>2. {q \in Runs : phase'[q] = "checking"} = {q \in Runs : phase[q] = "checking"}
  BY DEF TypeOK, ExecutingPhases, Waits
<1>3. QED
  BY <1>1, <1>2 DEF InProgress

\* A run that registers a promise is found by it, and nobody else loses theirs.
LEMMA SuspendInv ==
  ASSUME IInv, NEW r \in Runs, NEW ph \in Waits,
         phase[r] = "running", Suspend(r, ph),
         UNCHANGED <<active, current, saved, tangled, socket, aborted, leases>>,
         key' \in [Runs -> [id : RunId \cup {None}, tool : WriteTools]]
  PROVE  IInv'
<1>1. TypeOK'
  <2> DEFINE i == [run |-> r, step |-> steps[r] + 1, kind |-> KindOf(ph)]
  <2>1. i \in Interaction
    <3>1. KindOf(ph) \in {"call", "ask", "plan"}
      BY DEF KindOf
    <3>2. steps[r] + 1 \in Nat
      BY DEF IInv, TypeOK
    <3>3. QED
      BY <3>1, <3>2 DEF Interaction
  <2>2. pending' \subseteq Interaction
    BY <2>1 DEF Suspend, IInv, TypeOK
  <2>3. phase' \in [Runs -> Phases] /\ steps' \in [Runs -> Nat]
    BY DEF Suspend, IInv, TypeOK, Phases, ExecutingPhases
  <2>4. QED
    BY <2>2, <2>3 DEF IInv, TypeOK
<1>2. NoStrandedRun'
  <2> SUFFICES ASSUME NEW q \in Runs, phase'[q] \in Waits
               PROVE  Awaited(q)' \in pending'
    BY DEF NoStrandedRun
  <2>1. CASE q = r
    BY <2>1 DEF IInv, TypeOK, Suspend, Awaited
  <2>2. CASE q # r
    BY <2>2 DEF IInv, TypeOK, Suspend, Awaited, NoStrandedRun
  <2>3. QED
    BY <2>1, <2>2
<1>3. Executing' = Executing /\ InProgress' = InProgress
  <2>1. phase' = [phase EXCEPT ![r] = ph]
    BY DEF Suspend
  <2>2. phase[r] \in ExecutingPhases /\ ph \in ExecutingPhases
    BY DEF ExecutingPhases
  <2>3. QED
    BY <2>1, <2>2, PhaseMoves DEF IInv
<1>4. QED
  BY <1>1, <1>2, <1>3, SameRunsInv

LEMMA InteractInv == ASSUME IInv, NEW r \in Runs, Interact(r) PROVE IInv'
<1>1. PICK ph \in {"calling", "asking", "planning"} : Suspend(r, ph)
  BY DEF Interact
<1>2. ph \in Waits
  BY DEF Waits
<1>3. QED
  BY <1>1, <1>2, SuspendInv DEF Interact, MayInteract, IInv, TypeOK

LEMMA AskApprovalInv ==
  ASSUME IInv, NEW r \in Runs, NEW t \in WriteTools, AskApproval(r, t)
  PROVE  IInv'
<1>1. "approving" \in Waits
  BY DEF Waits
<1>2. key' \in [Runs -> [id : RunId \cup {None}, tool : WriteTools]]
  BY DEF AskApproval, IInv, TypeOK
<1>3. QED
  BY <1>1, <1>2, SuspendInv DEF AskApproval, MayInteract

LEMMA UseLeaseInv ==
  ASSUME IInv, NEW r \in Runs, NEW t \in WriteTools, UseLease(r, t)
  PROVE  IInv'
<1> USE DEF UseLease, MayInteract
<1>1. TypeOK'
  BY DEF IInv, TypeOK, Phases, ExecutingPhases
<1>2. NoStrandedRun'
  BY DEF IInv, TypeOK, NoStrandedRun, Waits, Awaited
<1>3. Executing' = Executing /\ InProgress' = InProgress
  BY PhaseMoves DEF IInv, ExecutingPhases
<1>4. QED
  BY <1>1, <1>2, <1>3, SameRunsInv

LEMMA GrantedInv == ASSUME IInv, NEW r \in Runs, Granted(r) PROVE IInv'
<1>1. CASE phase' = [phase EXCEPT ![r] = "running"] /\ UNCHANGED pending
  <2> USE <1>1 DEF Granted
  <2>1. TypeOK'
    BY DEF IInv, TypeOK, Phases, ExecutingPhases
  <2>2. NoStrandedRun'
    BY DEF IInv, TypeOK, NoStrandedRun, Waits, Awaited
  <2>3. Executing' = Executing /\ InProgress' = InProgress
    BY PhaseMoves DEF IInv, ExecutingPhases
  <2>4. QED
    BY <2>1, <2>2, <2>3, SameRunsInv
<1>2. CASE /\ phase' = [phase EXCEPT ![r] = "calling"]
           /\ pending' = pending \cup {[run |-> r, step |-> steps[r], kind |-> "call"]}
  <2> USE <1>2 DEF Granted
  <2>1. TypeOK'
    BY DEF IInv, TypeOK, Phases, ExecutingPhases, Waits, Interaction
  <2>2. NoStrandedRun'
    <3> SUFFICES ASSUME NEW q \in Runs, phase'[q] \in Waits
                 PROVE  Awaited(q)' \in pending'
      BY DEF NoStrandedRun
    <3>1. CASE q = r
      BY <3>1 DEF IInv, TypeOK, Awaited, KindOf
    <3>2. CASE q # r
      BY <3>2 DEF IInv, TypeOK, Awaited, NoStrandedRun
    <3>3. QED
      BY <3>1, <3>2
  <2>3. Executing' = Executing /\ InProgress' = InProgress
    BY PhaseMoves DEF IInv, ExecutingPhases, Waits
  <2>4. QED
    BY <2>1, <2>2, <2>3, SameRunsInv
<1>3. QED
  BY <1>1, <1>2 DEF Granted

\* Runs that wait keep their promises when the others change phase.
LEMMA WaitersStay ==
  ASSUME IInv, NEW r \in Runs, NEW ph, ph \notin Waits,
         phase' = [phase EXCEPT ![r] = ph],
         UNCHANGED <<pending, steps>>
  PROVE  NoStrandedRun'
<1> SUFFICES ASSUME NEW q \in Runs, phase'[q] \in Waits
             PROVE  Awaited(q)' \in pending'
  BY DEF NoStrandedRun
<1>1. q # r
  BY DEF IInv, TypeOK
<1>2. phase'[q] = phase[q]
  BY <1>1 DEF IInv, TypeOK
<1>3. QED
  BY <1>2 DEF Awaited, IInv, NoStrandedRun

\* The identity a delegation begins with is saved, and put back when it ends.
LEMMA DelegateInv == ASSUME IInv, NEW r \in Runs, Delegate(r) PROVE IInv'
<1> USE DEF Delegate
<1>1. Executing' = Executing /\ InProgress' = InProgress
  BY PhaseMoves DEF IInv, ExecutingPhases
<1>2. r \in InProgress
  BY DEF InProgress, Executing, ExecutingPhases
<1>3. saved[r] \in Seq(RunId \cup {None}) /\ saved[r] # <<>> /\ steps[r] \in Nat
  BY <1>2 DEF IInv, TypeOK, Identity
<1>4. current' \in RunId /\ current'.run = r /\ current' # Root(r) /\ current' # None
  BY <1>3, SessionAssumption DEF RunId, Child, Root
<1> DEFINE s == Append(saved[r], current)
<1>5. /\ s \in Seq(RunId \cup {None}) /\ Len(s) = Len(saved[r]) + 1
      /\ Len(saved[r]) \in Nat /\ Len(saved[r]) > 0 /\ s # <<>>
      /\ s[Len(s)] = current /\ \A i \in 1 .. Len(saved[r]) : s[i] = saved[r][i]
  BY <1>3 DEF IInv, TypeOK
<1>6. saved'[r] = s /\ \A q \in Runs : q # r => saved'[q] = saved[q]
  BY DEF IInv, TypeOK
<1>7. TypeOK'
  <2>1. saved' \in [Runs -> Seq(RunId \cup {None})]
    BY <1>5 DEF IInv, TypeOK
  <2>2. QED
    BY <1>4, <2>1 DEF IInv, TypeOK, Phases, ExecutingPhases
<1>8. NoStrandedRun'
  BY WaitersStay DEF Waits
<1>9. SlotsBound'
  BY <1>1 DEF IInv, SlotsBound
<1> HIDE DEF s
<1>10. Untangled' /\ Identity'
  <2>1. \A q \in Runs : q \in InProgress' <=> saved'[q] # <<>>
    BY <1>1, <1>2, <1>5, <1>6 DEF IInv, Identity
  <2>2. CASE tangled
    BY <2>1, <2>2 DEF Untangled, Identity
  <2>3. CASE ~tangled
    <3>1. InProgress = {r}
      BY <1>2, <2>3 DEF IInv, Untangled
    <3>2. Untangled'
      BY <1>1, <1>4, <1>5, <1>6, <3>1 DEF Untangled
    <3>3. /\ saved[r][1] = None /\ current # None /\ current.run = r
          /\ current = Root(r) <=> Len(saved[r]) = 1
          /\ \A i \in 2 .. Len(saved[r]) :
               /\ saved[r][i] # None /\ saved[r][i].run = r
               /\ saved[r][i] = Root(r) <=> i = 2
      BY <1>2, <2>3 DEF IInv, Untangled, Identity
    <3>4. s[1] = None
      BY <3>3, <1>5
    <3>5. ASSUME NEW i \in 2 .. Len(s)
          PROVE  s[i] # None /\ s[i].run = r /\ (s[i] = Root(r) <=> i = 2)
      <4>1. CASE i = Len(s)
        <5>1. s[i] = current
          BY <4>1, <1>5
        <5>2. Len(saved[r]) = i - 1 /\ i \in Nat
          BY <4>1, <1>5
        <5>3. QED
          BY <5>1, <5>2, <3>3
      <4>2. CASE i # Len(s)
        <5>1. i \in 2 .. Len(saved[r]) /\ i \in 1 .. Len(saved[r])
          BY <4>2, <1>5
        <5>2. QED
          BY <5>1, <3>3, <1>5
      <4>3. QED
        BY <4>1, <4>2
    <3>6. QED
      BY <2>1, <3>1, <3>2, <3>4, <3>5, <1>1, <1>6 DEF Identity
  <2>4. QED
    BY <2>2, <2>3
<1>11. QED
  BY <1>7, <1>8, <1>9, <1>10 DEF IInv

LEMMA DelegateEndsInv == ASSUME IInv, NEW r \in Runs, DelegateEnds(r) PROVE IInv'
<1> USE DEF DelegateEnds
<1>1. Executing' = Executing /\ InProgress' = InProgress
  BY DEF Executing, InProgress
<1>2. r \in InProgress
  BY DEF InProgress, Executing, ExecutingPhases
<1>3. saved[r] \in Seq(RunId \cup {None}) /\ Len(saved[r]) \in Nat /\ Len(saved[r]) > 1
  BY DEF IInv, TypeOK
<1> DEFINE n == Len(saved[r])
           s == Front(saved[r])
<1>4. current' = saved[r][n] /\ current' \in RunId \cup {None}
  BY <1>3 DEF Last
<1>5. s \in Seq(RunId \cup {None}) /\ Len(s) = n - 1 /\ \A i \in 1 .. n - 1 : s[i] = saved[r][i]
  BY <1>3 DEF Front
<1>6. saved'[r] = s /\ \A q \in Runs : q # r => saved'[q] = saved[q]
  BY DEF IInv, TypeOK
<1>7. TypeOK'
  <2>1. saved' \in [Runs -> Seq(RunId \cup {None})]
    BY <1>5 DEF IInv, TypeOK
  <2>2. QED
    BY <1>4, <2>1 DEF IInv, TypeOK
<1>8. NoStrandedRun' /\ SlotsBound'
  BY <1>1 DEF IInv, NoStrandedRun, SlotsBound, Awaited
<1> HIDE DEF s
<1>9. s # <<>>
  BY <1>3, <1>5
<1>10. Untangled' /\ Identity'
  <2>1. \A q \in Runs : q \in InProgress' <=> saved'[q] # <<>>
    BY <1>1, <1>2, <1>6, <1>9 DEF IInv, Identity
  <2>2. CASE tangled
    BY <2>1, <2>2 DEF Untangled, Identity
  <2>3. CASE ~tangled
    <3>1. InProgress = {r}
      BY <1>2, <2>3 DEF IInv, Untangled
    <3>2. /\ saved[r][1] = None
          /\ \A i \in 2 .. n :
               /\ saved[r][i] # None /\ saved[r][i].run = r
               /\ saved[r][i] = Root(r) <=> i = 2
      BY <1>2, <2>3 DEF IInv, Identity
    <3>3. current' # None /\ current'.run = r /\ (current' = Root(r) <=> Len(s) = 1)
      <4>1. n \in 2 .. n /\ (n = 2 <=> Len(s) = 1)
        BY <1>3, <1>5
      <4>2. QED
        BY <1>4, <3>2, <4>1
    <3>4. Untangled'
      BY <1>1, <1>6, <3>1, <3>3 DEF Untangled
    <3>5. /\ s[1] = None
          /\ \A i \in 2 .. Len(s) :
               /\ s[i] # None /\ s[i].run = r
               /\ s[i] = Root(r) <=> i = 2
      <4>1. s[1] = saved[r][1]
        BY <1>3, <1>5
      <4>2. ASSUME NEW i \in 2 .. Len(s) PROVE i \in 2 .. n /\ s[i] = saved[r][i]
        BY <1>3, <1>5
      <4>3. QED
        BY <3>2, <4>1, <4>2
    <3>6. QED
      BY <2>1, <3>1, <3>4, <3>5, <1>1, <1>6 DEF Identity
  <2>4. QED
    BY <2>2, <2>3
<1>11. QED
  BY <1>7, <1>8, <1>10 DEF IInv

\* The promise of at most one run leaves the maps, and that run goes on.
LEMMA SettleInv ==
  ASSUME IInv, NEW i \in pending, NEW ph \in {"running", "granting"},
         pending' = pending \ {i},
         phase' = IF IsAwaited(i) THEN [phase EXCEPT ![i.run] = ph] ELSE phase,
         UNCHANGED <<active, socket, aborted, current, saved, steps, key, tangled>>,
         leases' \subseteq LeaseKey
  PROVE  IInv'
<1>1. i.run \in Runs
  BY DEF IInv, TypeOK, Interaction
<1>2. TypeOK'
  BY <1>1 DEF IInv, TypeOK, Phases, ExecutingPhases
<1>3. NoStrandedRun'
  <2> SUFFICES ASSUME NEW q \in Runs, phase'[q] \in Waits
               PROVE  Awaited(q)' \in pending'
    BY DEF NoStrandedRun
  <2>1. q # i.run \/ ~IsAwaited(i)
    BY <1>1 DEF IInv, TypeOK, Waits
  <2>2. phase'[q] = phase[q]
    BY <2>1, <1>1 DEF IInv, TypeOK
  <2>3. Awaited(q)' = Awaited(q) /\ Awaited(q) \in pending
    BY <2>2 DEF Awaited, IInv, NoStrandedRun
  <2>4. Awaited(q) # i
    <3>1. CASE Awaited(q) = i
      BY <3>1, <2>1, <2>2 DEF IsAwaited, Awaited
    <3>2. QED
      BY <3>1
  <2>5. QED
    BY <2>3, <2>4
<1>4. Executing' = Executing /\ InProgress' = InProgress
  <2>1. CASE IsAwaited(i)
    BY <2>1, <1>1, PhaseMoves DEF IsAwaited, IInv, ExecutingPhases
  <2>2. CASE ~IsAwaited(i)
    BY <2>2 DEF Executing, InProgress
  <2>3. QED
    BY <2>1, <2>2
<1>5. QED
  BY <1>2, <1>3, <1>4, SameRunsInv

LEMMA RespondInv == ASSUME IInv, NEW i \in pending, Respond(i) PROVE IInv'
BY SettleInv DEF Respond, IInv, TypeOK

LEMMA TimerFiresInv == ASSUME IInv, NEW i \in pending, TimerFires(i) PROVE IInv'
BY SettleInv DEF TimerFires, IInv, TypeOK

LEMMA ApproveInv == ASSUME IInv, NEW i \in pending, Approve(i) PROVE IInv'
<1>1. phase' = IF IsAwaited(i) THEN [phase EXCEPT ![i.run] = "granting"] ELSE phase
  BY DEF Approve
<1>2. leases' \subseteq LeaseKey
  BY DEF Approve, IInv, TypeOK
<1>3. QED
  BY <1>1, <1>2, SettleInv DEF Approve

LEMMA EngineTimeoutInv == ASSUME IInv, NEW r \in Runs, EngineTimeout(r) PROVE IInv'
<1> USE DEF EngineTimeout
<1>1. TypeOK'
  BY DEF IInv, TypeOK, Phases, ExecutingPhases
<1>2. NoStrandedRun'
  BY DEF IInv, TypeOK, NoStrandedRun, Waits, Awaited
<1>3. Executing' = Executing /\ InProgress' = InProgress
  BY PhaseMoves DEF IInv, ExecutingPhases, Waits
<1>4. QED
  BY <1>1, <1>2, <1>3, SameRunsInv

\* When all promises are rejected, nobody is left waiting.
LEMMA RejectAllInv ==
  ASSUME IInv, RejectAll,
         UNCHANGED <<active, current, saved, steps, key, leases, tangled>>,
         socket' \in {"open", "closing", "closed"}, aborted' \in BOOLEAN
  PROVE  IInv'
<1> USE DEF RejectAll
<1>1. TypeOK'
  BY DEF IInv, TypeOK, Phases, ExecutingPhases
<1>2. \A r \in Runs : phase'[r] = IF phase[r] \in Waits THEN "running" ELSE phase[r]
  BY DEF IInv, TypeOK, NoStrandedRun
<1>3. NoStrandedRun'
  BY <1>2 DEF NoStrandedRun, Waits
<1>4. Executing' = Executing
  BY <1>2 DEF Executing, ExecutingPhases
<1>5. InProgress' = InProgress
  <2>1. {q \in Runs : phase'[q] = "checking"} = {q \in Runs : phase[q] = "checking"}
    BY <1>2 DEF Waits
  <2>2. QED
    BY <2>1, <1>4 DEF InProgress
<1>6. QED
  BY <1>1, <1>3, <1>4, <1>5, SameRunsInv

LEMMA PauseIdleInv == ASSUME IInv, PauseIdle PROVE IInv'
BY RejectAllInv DEF PauseIdle, IInv, TypeOK

LEMMA CloseInv == ASSUME IInv, Close PROVE IInv'
BY RejectAllInv DEF Close, IInv, TypeOK
-----------------------------------------------------------------------------
(* Prompt handlers. *)

LEMMA PromptInv == ASSUME IInv, NEW r \in Runs, Prompt(r) PROVE IInv'
<1> USE DEF Prompt
<1>1. TypeOK'
  <2>1. <<current>> \in Seq(RunId \cup {None})
    BY DEF IInv, TypeOK
  <2>2. saved' \in [Runs -> Seq(RunId \cup {None})]
    BY <2>1 DEF IInv, TypeOK
  <2>3. current' \in RunId
    BY DEF Root, RunId
  <2>4. QED
    BY <2>2, <2>3 DEF IInv, TypeOK, Phases
<1>2. NoStrandedRun'
  BY WaitersStay DEF Waits
<1>3. Executing' = Executing
  BY DEF Executing, ExecutingPhases, Waits, IInv, TypeOK
<1>4. InProgress' = InProgress \cup {r}
  <2>1. {q \in Runs : phase'[q] = "checking"} = {q \in Runs : phase[q] = "checking"} \cup {r}
    BY DEF IInv, TypeOK
  <2>2. QED
    BY <1>3, <2>1 DEF InProgress
<1>5. SlotsBound'
  BY <1>3 DEF IInv, SlotsBound
<1>6. Untangled' /\ Identity'
  <2>1. saved'[r] = <<current>> /\ Len(<<current>>) = 1 /\ <<current>> # <<>>
    BY DEF IInv, TypeOK
  <2>2. \A q \in Runs : q \in InProgress' <=> saved'[q] # <<>>
    BY <2>1, <1>4 DEF IInv, TypeOK, Identity
  <2>3. CASE tangled'
    BY <2>2, <2>3 DEF Untangled, Identity
  <2>4. CASE ~tangled'
    <3>1. InProgress' = {r} /\ current = None
      BY <2>4, <1>4 DEF IInv, Untangled
    <3>2. current' = Root(r) /\ current'.run = r /\ current' # None
      BY SessionAssumption DEF Root, RunId
    <3>3. QED
      BY <2>1, <2>2, <3>1, <3>2 DEF Untangled, Identity
  <2>5. QED
    BY <2>3, <2>4
<1>7. QED
  BY <1>1, <1>2, <1>5, <1>6 DEF IInv

\* A run in progress ends, and what it saved is the identity of the session.
LEMMA RestoreInv ==
  ASSUME IInv, NEW r \in Runs, r \in InProgress,
         phase' = [phase EXCEPT ![r] = "done"],
         current' = saved[r][1], saved' = [saved EXCEPT ![r] = <<>>], active' = active \ {r},
         UNCHANGED <<socket, aborted, pending, steps, key, leases, tangled>>
  PROVE  IInv'
<1>1. TypeOK'
  <2>1. saved[r] \in Seq(RunId \cup {None}) /\ saved[r] # <<>>
    BY DEF IInv, TypeOK, Identity
  <2>2. saved[r][1] \in RunId \cup {None}
    BY <2>1
  <2>3. saved' \in [Runs -> Seq(RunId \cup {None})]
    BY DEF IInv, TypeOK
  <2>4. QED
    BY <2>2, <2>3 DEF IInv, TypeOK, Phases
<1>2. NoStrandedRun'
  BY WaitersStay DEF Waits
<1>3. Executing' = Executing \ {r}
  BY DEF Executing, ExecutingPhases, Waits, IInv, TypeOK
<1>4. InProgress' = InProgress \ {r}
  <2>1. {q \in Runs : phase'[q] = "checking"} = {q \in Runs : phase[q] = "checking"} \ {r}
    BY DEF IInv, TypeOK
  <2>2. QED
    BY <1>3, <2>1 DEF InProgress
<1>5. IsFiniteSet(active') /\ SlotsBound'
  <2>1. active' \subseteq active /\ IsFiniteSet(active)
    BY DEF IInv
  <2>2. IsFiniteSet(active') /\ Cardinality(active') <= Cardinality(active)
    BY <2>1, FS_Subset
  <2>3. Cardinality(active) \in Nat /\ Cardinality(active') \in Nat
    BY <2>1, <2>2, FS_CardinalityType
  <2>4. QED
    BY <2>2, <2>3, <1>3, GovernorAssumption DEF IInv, SlotsBound
<1>6. Untangled' /\ Identity'
  <2>1. \A q \in Runs : q \in InProgress' <=> saved'[q] # <<>>
    BY <1>4 DEF IInv, TypeOK, Identity
  <2>2. CASE tangled
    BY <2>1, <2>2 DEF Untangled, Identity
  <2>3. CASE ~tangled
    <3>1. \A q \in InProgress : current.run = q
      BY <2>3 DEF IInv, Untangled
    <3>2. InProgress' = {} /\ current' = None
      BY <2>3, <3>1, <1>4 DEF IInv, Identity
    <3>3. QED
      BY <2>1, <3>2 DEF Untangled, Identity
  <2>4. QED
    BY <2>2, <2>3
<1>7. QED
  BY <1>1, <1>2, <1>5, <1>6 DEF IInv

\* A run that is still being checked holds no slot.
LEMMA CheckingHasNoSlot ==
  ASSUME IInv, NEW r \in Runs, phase[r] = "checking"
  PROVE  r \in InProgress /\ active \ {r} = active
<1>1. r \notin Executing
  BY DEF Executing, ExecutingPhases, Waits
<1>2. QED
  BY <1>1 DEF InProgress, IInv, SlotsBound

LEMMA CheckFailsInv == ASSUME IInv, NEW r \in Runs, CheckFails(r) PROVE IInv'
BY CheckingHasNoSlot, RestoreInv DEF CheckFails, LeaveCheck

LEMMA SlotRefusedInv == ASSUME IInv, NEW r \in Runs, SlotRefused(r) PROVE IInv'
BY CheckingHasNoSlot, RestoreInv DEF SlotRefused, LeaveCheck, RefuseRun

LEMMA FinishInv == ASSUME IInv, NEW r \in Runs, Finish(r) PROVE IInv'
<1>1. r \in InProgress
  BY DEF Finish, InProgress, Executing, ExecutingPhases
<1>2. QED
  BY <1>1, RestoreInv DEF Finish, ReleaseRun

LEMMA CheckThrowsInv == ASSUME IInv, NEW r \in Runs, CheckThrows(r) PROVE IInv'
<1> USE DEF CheckThrows, LeaveCheck
<1>1. TypeOK'
  BY DEF IInv, TypeOK, Phases
<1>2. NoStrandedRun'
  BY WaitersStay DEF Waits
<1>3. Executing' = Executing
  BY DEF Executing, ExecutingPhases, Waits, IInv, TypeOK
<1>4. SlotsBound'
  BY <1>3 DEF IInv, SlotsBound
<1>5. InProgress' = InProgress \ {r}
  <2>1. {q \in Runs : phase'[q] = "checking"} = {q \in Runs : phase[q] = "checking"} \ {r}
    BY DEF IInv, TypeOK
  <2>2. r \notin Executing
    BY DEF Executing, ExecutingPhases, Waits
  <2>3. QED
    BY <1>3, <2>1, <2>2 DEF InProgress
<1>6. Untangled' /\ Identity'
  BY <1>5 DEF IInv, TypeOK, Untangled, Identity
<1>7. QED
  BY <1>1, <1>2, <1>4, <1>6 DEF IInv

LEMMA StartRunInv == ASSUME IInv, NEW r \in Runs, StartRun(r) PROVE IInv'
<1> USE DEF StartRun, AcquireRun
<1>1. TypeOK'
  BY DEF IInv, TypeOK, Phases, ExecutingPhases
<1>2. NoStrandedRun'
  BY WaitersStay DEF Waits
<1>3. Executing' = Executing \cup {r}
  BY DEF Executing, ExecutingPhases, Waits, IInv, TypeOK
<1>4. InProgress' = InProgress
  <2>1. {q \in Runs : phase'[q] = "checking"} = {q \in Runs : phase[q] = "checking"} \ {r}
    BY DEF IInv, TypeOK
  <2>2. QED
    BY <1>3, <2>1 DEF InProgress
<1>5. r \notin active
  BY CheckingHasNoSlot
<1>6. IsFiniteSet(active') /\ SlotsBound'
  <2>1. IsFiniteSet(active') /\ Cardinality(active') = Cardinality(active) + 1
    BY <1>5, FS_AddElement DEF IInv
  <2>2. Cardinality(active) \in Nat /\ Cardinality(active) < MaxConcurrentRuns
    BY <1>5, FS_CardinalityType DEF IInv, MayAcquire
  <2>3. QED
    BY <2>1, <2>2, <1>3, GovernorAssumption DEF IInv, SlotsBound
<1>7. Untangled' /\ Identity'
  BY <1>4 DEF IInv, Untangled, Identity
<1>8. QED
  BY <1>1, <1>2, <1>6, <1>7 DEF IInv
-----------------------------------------------------------------------------
(* The rest. *)

LEMMA SlotExpiresInv == ASSUME IInv, NEW r \in Runs, SlotExpires(r) PROVE IInv'
<1> USE DEF SlotExpires, LeaseExpires, ReleaseRun, session
<1>1. active' \subseteq active /\ IsFiniteSet(active)
  BY DEF IInv
<1>2. IsFiniteSet(active') /\ Cardinality(active') <= Cardinality(active)
  BY <1>1, FS_Subset
<1>3. Cardinality(active) \in Nat /\ Cardinality(active') \in Nat
  BY <1>1, <1>2, FS_CardinalityType
<1>4. Executing' = Executing /\ InProgress' = InProgress
  BY DEF Executing, InProgress
<1>5. SlotsBound'
  BY <1>1, <1>2, <1>3, <1>4, GovernorAssumption DEF IInv, SlotsBound
<1>6. TypeOK' /\ NoStrandedRun'
  BY DEF IInv, TypeOK, NoStrandedRun, Awaited
<1>7. Untangled' /\ Identity'
  BY <1>4 DEF IInv, Untangled, Identity
<1>8. QED
  BY <1>2, <1>5, <1>6, <1>7 DEF IInv

\* Steps that touch the flags and the leases only
LEMMA QuietInv ==
  ASSUME IInv, UNCHANGED <<active, current, pending, phase, saved, steps, key, tangled>>,
         socket' \in {"open", "closing", "closed"}, aborted' \in BOOLEAN,
         leases' \subseteq LeaseKey
  PROVE  IInv'
<1>1. TypeOK'
  BY DEF IInv, TypeOK
<1>2. NoStrandedRun'
  BY DEF IInv, NoStrandedRun, Awaited
<1>3. Executing' = Executing /\ InProgress' = InProgress
  BY DEF Executing, InProgress
<1>4. QED
  BY <1>1, <1>2, <1>3, SameRunsInv
-----------------------------------------------------------------------------
LEMMA NextInv == IInv /\ [Next]_vars => IInv'
<1> SUFFICES ASSUME IInv, [Next]_vars PROVE IInv'
  OBVIOUS
<1>1. ASSUME NEW r \in Runs, Prompt(r) PROVE IInv'
  BY <1>1, PromptInv
<1>2. ASSUME NEW r \in Runs, RunStep(r) PROVE IInv'
  BY <1>2, CheckFailsInv, CheckThrowsInv, SlotRefusedInv, StartRunInv, InteractInv,
     UseLeaseInv, AskApprovalInv, GrantedInv, DelegateInv, DelegateEndsInv,
     FinishInv DEF RunStep
<1>3. ASSUME NEW r \in Runs, EngineTimeout(r) PROVE IInv'
  BY <1>3, EngineTimeoutInv
<1>4. ASSUME NEW r \in Runs, SlotExpires(r) PROVE IInv'
  BY <1>4, SlotExpiresInv
<1>5. CASE PromptRefused
  BY <1>5, QuietInv DEF PromptRefused, IInv, TypeOK
<1>6. ASSUME NEW i \in pending, Respond(i) \/ Approve(i) \/ TimerFires(i) PROVE IInv'
  BY <1>6, RespondInv, ApproveInv, TimerFiresInv
<1>7. ASSUME NEW k \in leases, ApprovalExpires(k) PROVE IInv'
  BY <1>7, QuietInv DEF ApprovalExpires, IInv, TypeOK
<1>8. CASE PauseIdle
  BY <1>8, PauseIdleInv
<1>9. CASE Revoke
  BY <1>9, QuietInv DEF Revoke, IInv, TypeOK
<1>10. CASE Close
  BY <1>10, CloseInv
<1>11. CASE UNCHANGED vars
  BY <1>11, QuietInv DEF vars, session, IInv, TypeOK
<1>12. QED
  BY <1>1, <1>2, <1>3, <1>4, <1>5, <1>6, <1>7, <1>8, <1>9, <1>10, <1>11 DEF Next

LEMMA Invariant == Spec => []IInv
<1>1. IInv /\ [Next]_vars => IInv'
  BY NextInv
<1>2. QED
  BY InitInv, <1>1, PTL DEF Spec

\* Each variable of the session keeps its type, whatever messages, timers and
\* closes arrive.
THEOREM TypeCorrect == Spec => []TypeOK
<1>1. IInv => TypeOK
  BY DEF IInv
<1>2. QED
  BY Invariant, <1>1, PTL

\* A slot is held by an executing run only, and never more than the limit: the
\* finally block of the prompt handler gives back what acquireRun took.
THEOREM SlotsBounded == Spec => []SlotsBound
<1>1. IInv => SlotsBound
  BY DEF IInv
<1>2. QED
  BY Invariant, <1>1, PTL

\* No run waits for a promise that nobody can settle any more.
THEOREM NobodyStranded == Spec => []NoStrandedRun
<1>1. IInv => NoStrandedRun
  BY DEF IInv
<1>2. QED
  BY Invariant, <1>1, PTL

\* Prompts that come one at a time leave session.currentRunIdentity on the run
\* in progress, and on none when there is none.
THEOREM IdentityKept == Spec => []Untangled
<1>1. IInv => Untangled
  BY DEF IInv
<1>2. QED
  BY Invariant, <1>1, PTL
-----------------------------------------------------------------------------
(* Action properties. *)

NewLeaseAsked ==
  \A k \in leases' \ leases :
    \E r \in Runs : phase[r] = "approving" /\ phase'[r] = "granting" /\ key[r] = k

LEMMA ApproveAsked == ASSUME TypeOK, NEW i \in pending, Approve(i) PROVE NewLeaseAsked
<1> SUFFICES ASSUME NEW k \in leases' \ leases
             PROVE  \E r \in Runs : phase[r] = "approving" /\ phase'[r] = "granting" /\ key[r] = k
  BY DEF NewLeaseAsked
<1>1. i.run \in Runs
  BY DEF TypeOK, Interaction
<1>2. k = key[i.run]
  BY DEF Approve
<1>3. phase[i.run] = "approving" /\ phase'[i.run] = "granting"
  BY <1>1 DEF Approve, TypeOK
<1>4. QED
  BY <1>1, <1>2, <1>3

\* No answer that comes after the engine denied a tool call gives a lease to the
\* next one (ApprovalEngine.request sets the lease after the race only).
THEOREM LateApprovals == Spec => LateApprovalHarmless
<1>1. TypeOK /\ [Next]_vars => [NewLeaseAsked]_vars
  <2> SUFFICES ASSUME TypeOK, Next PROVE NewLeaseAsked
    BY DEF NewLeaseAsked
  <2>1. ASSUME NEW i \in pending, Approve(i) PROVE NewLeaseAsked
    BY <2>1, ApproveAsked
  <2>2. CASE leases' \subseteq leases
    BY <2>2 DEF NewLeaseAsked
  <2>3. QED
    BY <2>1, <2>2 DEF Next, RunStep, Prompt, PromptRefused, CheckFails, CheckThrows,
       SlotRefused, LeaveCheck, StartRun, Finish, Interact, UseLease, AskApproval,
       Granted, Delegate, DelegateEnds, Respond, TimerFires, EngineTimeout,
       ApprovalExpires, SlotExpires, session, PauseIdle, Revoke, Close
<1>2. QED
  BY TypeCorrect, <1>1, PTL DEF Spec, LateApprovalHarmless, NewLeaseAsked

BegunBeforeClose ==
  socket # "open" =>
    /\ \A i \in pending' \ pending : phase[i.run] = "granting"
    /\ \A r \in Runs : Len(saved'[r]) > 1 => Len(saved'[r]) <= Len(saved[r])

\* The stacks of saved identities shrink, but for delegations and new prompts.
LEMMA StacksShrink ==
  ASSUME IInv, [Next]_vars, NEW q \in Runs, Len(saved'[q]) > 1
  PROVE  Delegate(q) \/ Len(saved'[q]) <= Len(saved[q])
<1>1. \A r \in Runs : saved[r] \in Seq(RunId \cup {None}) /\ Len(saved[r]) \in Nat
  BY DEF IInv, TypeOK
<1>2. Len(<<current>>) = 1 /\ Len(<<>>) = 0
  OBVIOUS
<1>3. ASSUME NEW r \in Runs,
             Prompt(r) \/ CheckFails(r) \/ CheckThrows(r) \/ SlotRefused(r) \/ Finish(r)
      PROVE  Len(saved'[q]) <= Len(saved[q])
  <2>1. saved' = [saved EXCEPT ![r] = <<current>>] \/ saved' = [saved EXCEPT ![r] = <<>>]
    BY <1>3 DEF Prompt, CheckFails, CheckThrows, SlotRefused, LeaveCheck, Finish
  <2>2. saved'[q] \in {saved[q], <<current>>, <<>>}
    BY <2>1 DEF IInv, TypeOK
  <2>3. CASE saved'[q] = saved[q]
    BY <2>3, <1>1
  <2>4. CASE saved'[q] = <<current>>
    <3>1. Len(saved'[q]) = 1
      BY <2>4
    <3>2. QED
      BY <3>1
  <2>5. CASE saved'[q] = <<>>
    <3>1. Len(saved'[q]) = 0
      BY <2>5
    <3>2. QED
      BY <3>1
  <2>6. QED
    BY <2>2, <2>3, <2>4, <2>5
<1>4. ASSUME NEW r \in Runs, Delegate(r)
      PROVE  Delegate(q) \/ Len(saved'[q]) <= Len(saved[q])
  <2>1. CASE r = q
    BY <2>1, <1>4
  <2>2. CASE r # q
    BY <2>2, <1>1, <1>4 DEF Delegate, IInv, TypeOK
  <2>3. QED
    BY <2>1, <2>2
<1>5. ASSUME NEW r \in Runs, DelegateEnds(r)
      PROVE  Len(saved'[q]) <= Len(saved[q])
  <2>1. Len(saved[r]) > 1
    BY <1>5 DEF DelegateEnds
  <2>2. Len(Front(saved[r])) <= Len(saved[r])
    BY <2>1, <1>1 DEF Front
  <2>3. saved'[q] = saved[q] \/ (q = r /\ saved'[q] = Front(saved[r]))
    BY <1>5 DEF DelegateEnds, IInv, TypeOK
  <2>4. QED
    BY <2>2, <2>3, <1>1
<1>6. CASE UNCHANGED saved
  BY <1>6, <1>1
<1>7. QED
  BY <1>3, <1>4, <1>5, <1>6 DEF Next, RunStep, PromptRefused, StartRun, Interact, UseLease,
     AskApproval, Granted, Respond, Approve, TimerFires, EngineTimeout, ApprovalExpires,
     SlotExpires, session, vars, PauseIdle, Revoke, Close

\* A revoked or closed session begins no interaction and no delegation, except
\* for the client tool whose approval was being recorded when the session ended.
THEOREM NothingAfterClose == Spec => NothingStartsAfterClose
<1>1. IInv /\ [Next]_vars => [BegunBeforeClose]_vars
  <2> SUFFICES ASSUME IInv, Next, socket # "open" PROVE BegunBeforeClose
    BY DEF BegunBeforeClose
  <2> DEFINE Begun == \A i \in pending' \ pending : phase[i.run] = "granting"
  <2>1. ASSUME NEW r \in Runs, Granted(r) PROVE Begun
    BY <2>1 DEF Granted
  <2>2. ASSUME NEW r \in Runs, Interact(r) \/ \E t \in WriteTools : AskApproval(r, t) PROVE Begun
    BY <2>2 DEF Interact, AskApproval, MayInteract, Aborted
  <2>3. ASSUME pending' \subseteq pending PROVE Begun
    BY <2>3
  <2>4. Begun
    BY <2>1, <2>2, <2>3 DEF Next, RunStep, Prompt, PromptRefused, CheckFails, CheckThrows,
       SlotRefused, LeaveCheck, StartRun, Finish, UseLease, Delegate, DelegateEnds,
       Respond, Approve, TimerFires, EngineTimeout, ApprovalExpires, SlotExpires,
       session, PauseIdle, Revoke, Close, RejectAll
  <2>5. ASSUME NEW r \in Runs PROVE ~ Delegate(r)
    BY DEF Delegate, Aborted
  <2>6. QED
    BY <2>4, <2>5, StacksShrink DEF BegunBeforeClose
<1>2. QED
  BY Invariant, <1>1, PTL DEF Spec, NothingStartsAfterClose, BegunBeforeClose
=============================================================================
