-------------------------- MODULE AgentLoopProofs --------------------------
(***************************************************************************)
(* Proofs of the safety properties of AgentLoop, for every set of runs and *)
(* domains and every limit of iterations.                                  *)
(*                                                                         *)
(* Beside the types, the induction needs to know which loop an expert      *)
(* serves and why: as long as no loop found an expert taken, a frame holds *)
(* its expert until it leaves, and what it will put back is the empty      *)
(* context (Held); and a context is never without the frame, or the        *)
(* review, that set it (Owned).                                            *)
(***************************************************************************)
EXTENDS AgentLoop, SequenceTheorems, TLAPS

\* The loops of a run begin with it.
Fresh == \A l \in Loops : run[l[1]] = "new" => pc[l] = "new"

Held(l) ==
  /\ \A i \in 1 .. Len(frames[l]) :
       frames[l][i].found = NoLoop /\ context[frames[l][i].expert] = l
  /\ \A i, j \in 1 .. Len(frames[l]) : frames[l][i].expert = frames[l][j].expert => i = j
  /\ pc[l] = "reviewing" => context["reviewer"] = l /\ found[l] = NoLoop

Owned(e) ==
  context[e] # NoLoop =>
    IF e = "reviewer"
    THEN pc[context[e]] = "reviewing"
    ELSE \E i \in 1 .. Len(frames[context[e]]) : frames[context[e]][i].expert = e

Apart == ~overlap => (\A l \in Loops : Held(l)) /\ (\A e \in Experts : Owned(e))

IInv == TypeOK /\ Fresh /\ CompletedInFull /\ Apart
-----------------------------------------------------------------------------
(* Operators. *)

\* What follows from the types of a loop that is active.
LEMMA Innermost ==
  ASSUME TypeOK, NEW l \in Loops, Active(l)
  PROVE  /\ Len(frames[l]) \in Nat \ {0} /\ DOMAIN frames[l] = 1 .. Len(frames[l])
         /\ \A i \in 1 .. Len(frames[l]) :
              frames[l][i].expert \in Domains /\ frames[l][i].found \in Holder
         /\ Last(frames[l]) = frames[l][Len(frames[l])]
         /\ Expert(l) \in Domains /\ Last(frames[l]).found \in Holder
<1>1. frames[l] \in Seq([expert : Domains, found : Holder]) /\ frames[l] # <<>>
  BY DEF TypeOK
<1>2. Len(frames[l]) \in Nat \ {0} /\ DOMAIN frames[l] = 1 .. Len(frames[l])
  BY <1>1
<1>3. \A i \in 1 .. Len(frames[l]) : frames[l][i] \in [expert : Domains, found : Holder]
  <2> DEFINE F == [expert : Domains, found : Holder]
  <2> HIDE DEF F
  <2>1. frames[l] \in Seq(F)
    BY <1>1 DEF F
  <2>2. \A i \in 1 .. Len(frames[l]) : frames[l][i] \in F
    BY <2>1
  <2>3. QED
    BY <2>2 DEF F
<1>4. Last(frames[l]) = frames[l][Len(frames[l])]
  BY DEF Last
<1>5. QED
  BY <1>2, <1>3, <1>4 DEF Expert

\* All elements but the last.
LEMMA FrontOf ==
  ASSUME NEW F, NEW s \in Seq(F), s # <<>>
  PROVE  /\ Front(s) \in Seq(F)
         /\ Len(Front(s)) = Len(s) - 1
         /\ \A i \in 1 .. Len(s) - 1 : Front(s)[i] = s[i]
         /\ Front(s) = <<>> <=> Len(s) = 1
<1>1. Len(s) \in Nat \ {0} /\ \A i \in 1 .. Len(s) : s[i] \in F
  BY EmptySeq
<1>2. PICK n \in Nat : n = Len(s) - 1
  BY <1>1
<1>3. 1 \in Int /\ n \in Int /\ \A i \in 1 .. n : s[i] \in F
  BY <1>1, <1>2
<1>4. /\ SubSeq(s, 1, n) \in Seq(F)
      /\ Len(SubSeq(s, 1, n)) = IF 1 <= n THEN n - 1 + 1 ELSE 0
  BY <1>3, SubSeqProperties
<1>5. /\ Len(SubSeq(s, 1, n)) = n
      /\ \A i \in 1 .. n : SubSeq(s, 1, n)[i] = s[i]
  <2>1. \A i \in 1 .. n - 1 + 1 : SubSeq(s, 1, n)[i] = s[1 + i - 1]
    BY <1>3, SubSeqProperties
  <2>2. QED
    BY <1>4, <2>1
<1>6. SubSeq(s, 1, n) = <<>> <=> n = 0
  BY <1>4, <1>5, EmptySeq
<1>7. Front(s) = SubSeq(s, 1, n)
  BY <1>2 DEF Front
<1>8. QED
  BY <1>1, <1>2, <1>4, <1>5, <1>6, <1>7

\* Leaving drops the innermost frame and keeps the others.
LEMMA Dropped ==
  ASSUME TypeOK, NEW l \in Loops, Active(l)
  PROVE  /\ Front(frames[l]) \in Seq([expert : Domains, found : Holder])
         /\ Len(Front(frames[l])) = Len(frames[l]) - 1
         /\ \A i \in 1 .. Len(frames[l]) - 1 : Front(frames[l])[i] = frames[l][i]
         /\ Front(frames[l]) = <<>> <=> Len(frames[l]) = 1
BY FrontOf DEF TypeOK

\* A loop and an expert are told apart by their parts.
LEMMA LoopParts ==
  ASSUME NEW l \in Loops
  PROVE  l = <<l[1], l[2]>> /\ l[1] \in Runs /\ l[2] \in Domains /\ l # NoLoop
BY LoopAssumption DEF Loops

\* Where iterations begin, and where they are counted no more.
LEMMA Counts ==
  0 \in 0 .. MaxIters /\ 1 \in 0 .. MaxIters
BY LoopAssumption

\* Where an iteration may lead.
LEMMA Iterates ==
  ASSUME TypeOK, NEW l \in Loops, NextIteration(l)
  PROVE  /\ iter' \in [Loops -> 0 .. MaxIters]
         /\ \E ph \in {"executing", "completing"} : Go(l, ph)
<1>1. /\ iter[l] \in Nat /\ iter[l] <= MaxIters /\ MaxIters \in Nat
      /\ iter \in [Loops -> 0 .. MaxIters]
  BY LoopAssumption DEF TypeOK
<1>2. CASE iter[l] < MaxIters /\ iter' = [iter EXCEPT ![l] = iter[l] + 1] /\ Go(l, "executing")
  <2>1. iter[l] + 1 \in 0 .. MaxIters
    BY <1>1, <1>2
  <2>2. QED
    BY <1>1, <1>2, <2>1
<1>3. CASE UNCHANGED iter /\ Go(l, "completing")
  BY <1>1, <1>3
<1>4. QED
  BY <1>2, <1>3 DEF NextIteration
-----------------------------------------------------------------------------
(* Types. *)

\* The steps of a loop that leave its frames alone.
LEMMA TypesWithinFrame ==
  ASSUME TypeOK, NEW l \in Loops,
         ExecuteReturns(l) \/ Throws(l) \/ ReviewEnds(l) \/ VerifyEnds(l)
  PROVE  TypeOK'
<1>1. /\ UNCHANGED <<run, quick, swarm, frames>>
      /\ Active(l)
      /\ \E ph \in Working \cup Leaving : Go(l, ph)
  BY Iterates DEF ExecuteReturns, Throws, ReviewEnds, VerifyEnds, Complete, Review, Verify,
                  Active, Working, Leaving
<1>2. /\ iter' \in [Loops -> 0 .. MaxIters]
      /\ built' \in [Loops -> BOOLEAN]
      /\ overlap' \in BOOLEAN
  BY Iterates DEF ExecuteReturns, Throws, ReviewEnds, VerifyEnds, Complete, Review, Verify, TypeOK
<1>3. found' \in [Loops -> Holder] /\ context' \in [Experts -> Holder]
  BY DEF ExecuteReturns, Throws, ReviewEnds, VerifyEnds, Complete, Review, Verify, TypeOK,
         Holder, Experts
<1>4. PICK ph \in Working \cup Leaving : pc' = [pc EXCEPT ![l] = ph]
  BY <1>1 DEF Go
<1>5. pc' \in [Loops -> {"new"} \cup Working \cup Leaving \cup Over]
  BY <1>4 DEF TypeOK
<1>6. \A m \in Loops : Active(m)' <=> frames'[m] # <<>>
  BY <1>1, <1>4 DEF TypeOK, Active
<1>7. QED
  BY <1>1, <1>2, <1>3, <1>5, <1>6 DEF TypeOK
LEMMA TypesReroute ==
  ASSUME TypeOK, NEW l \in Loops, Reroute(l)
  PROVE  TypeOK'
<1>1. /\ UNCHANGED <<run, quick, swarm, found, built>>
      /\ pc' = [pc EXCEPT ![l] = "executing"]
      /\ Active(l)
  BY DEF Reroute, Go, Active, Working, Leaving
<1>2. "code" \in Domains /\ "code" \in Experts /\ context["code"] \in Holder
  BY LoopAssumption DEF TypeOK, Experts
<1>3. /\ frames' \in [Loops -> Seq([expert : Domains, found : Holder])]
      /\ frames'[l] # <<>> /\ \A m \in Loops : m # l => frames'[m] = frames[m]
  <2> DEFINE F == [expert : Domains, found : Holder]
             f == [expert |-> "code", found |-> context["code"]]
  <2>1. f \in F
    BY <1>2
  <2>2. frames \in [Loops -> Seq(F)] /\ frames' = [frames EXCEPT ![l] = Append(frames[l], f)]
    BY DEF TypeOK, Reroute
  <2> HIDE DEF F, f
  <2>3. Append(frames[l], f) \in Seq(F) /\ Append(frames[l], f) # <<>>
    BY <2>1, <2>2, AppendProperties
  <2>4. QED
    BY <2>2, <2>3 DEF F
<1>4. iter' \in [Loops -> 0 .. MaxIters] /\ context' \in [Experts -> Holder] /\ overlap' \in BOOLEAN
  BY Counts DEF TypeOK, Reroute, Holder
<1>5. pc' \in [Loops -> {"new"} \cup Working \cup Leaving \cup Over]
  BY <1>1 DEF TypeOK, Working
<1>6. \A m \in Loops : Active(m)' <=> frames'[m] # <<>>
  BY <1>1, <1>3 DEF TypeOK, Active, Working
<1>7. QED
  BY <1>1, <1>3, <1>4, <1>5, <1>6 DEF TypeOK

LEMMA TypesLeave ==
  ASSUME TypeOK, NEW l \in Loops, Leave(l)
  PROVE  TypeOK'
<1>1. /\ UNCHANGED <<run, quick, swarm, found, built, overlap>>
      /\ Active(l)
      /\ frames' = [frames EXCEPT ![l] = Front(frames[l])]
  BY DEF Leave, Active
<1>2. frames' \in [Loops -> Seq([expert : Domains, found : Holder])]
  BY <1>1, Dropped DEF TypeOK
<1>3. context' \in [Experts -> Holder]
  BY <1>1, Innermost DEF TypeOK, Leave, Experts
<1>4. iter' \in [Loops -> 0 .. MaxIters]
  BY Counts DEF TypeOK, Leave
<1>5. pc' \in [Loops -> {"new"} \cup Working \cup Leaving \cup Over]
  BY DEF TypeOK, Leave, Go, Over
<1>6. \A m \in Loops : Active(m)' <=> frames'[m] # <<>>
  <2>1. CASE Len(frames[l]) > 1 /\ UNCHANGED pc
    <3>1. frames'[l] # <<>> /\ \A m \in Loops : m # l => frames'[m] = frames[m]
      <4>1. Len(frames[l]) # 1
        BY <1>1, <2>1, Innermost
      <4>2. Front(frames[l]) # <<>>
        BY <1>1, <4>1, Dropped
      <4>3. QED
        BY <1>1, <4>2 DEF TypeOK
    <3>2. QED
      BY <1>1, <2>1, <3>1 DEF TypeOK, Active
  <2>2. CASE Len(frames[l]) = 1 /\ Go(l, IF pc[l] = "completing" THEN "returned" ELSE "threw")
    <3>1. pc'[l] \in Over /\ \A m \in Loops : m # l => pc'[m] = pc[m]
      BY <2>2 DEF TypeOK, Go, Over
    <3>2. ~Active(l)' /\ \A m \in Loops : m # l => (Active(m)' <=> Active(m))
      BY <3>1 DEF Active, Working, Leaving, Over
    <3>3. frames'[l] = <<>> /\ \A m \in Loops : m # l => frames'[m] = frames[m]
      BY <1>1, <2>2, Dropped DEF TypeOK
    <3>4. QED
      BY <3>2, <3>3 DEF TypeOK
  <2>3. QED
    BY <2>1, <2>2 DEF Leave
<1>7. QED
  BY <1>1, <1>2, <1>3, <1>4, <1>5, <1>6 DEF TypeOK

LEMMA TypesStartRun ==
  ASSUME TypeOK, NEW r \in Runs, NEW ds \in SUBSET Domains, StartRun(r, ds)
  PROVE  TypeOK'
<1>1. /\ quick' \in [Runs -> BOOLEAN] /\ swarm' \in [Runs -> SUBSET Domains]
      /\ run' \in [Runs -> {"new", "looping", "completed", "failed"}]
      /\ overlap' \in BOOLEAN /\ UNCHANGED <<found, built>>
  BY DEF StartRun, TypeOK
<1>2. /\ pc' \in [Loops -> {"new"} \cup Working \cup Leaving \cup Over]
      /\ iter' \in [Loops -> 0 .. MaxIters]
  BY Counts DEF StartRun, TypeOK, Working
<1>3. context' \in [Experts -> Holder]
  BY DEF StartRun, TypeOK, Holder, Loops
<1>4. ASSUME NEW l \in Loops
      PROVE  /\ frames'[l] \in Seq([expert : Domains, found : Holder])
             /\ Active(l)' <=> frames'[l] # <<>>
  <2>1. CASE l \in {r} \X ds
    <3> DEFINE F == [expert : Domains, found : Holder]
               f == [expert |-> l[2], found |-> context[l[2]]]
    <3>1. f \in F
      BY LoopParts DEF TypeOK, Experts
    <3>2. frames'[l] = <<f>> /\ pc'[l] = "executing"
      BY <2>1 DEF StartRun
    <3> HIDE DEF F, f
    <3>3. <<f>> \in Seq(F) /\ <<f>> # <<>>
      BY <3>1
    <3>4. QED
      BY <3>2, <3>3 DEF F, Active, Working
  <2>2. CASE l \notin {r} \X ds
    BY <2>2 DEF StartRun, TypeOK, Active
  <2>3. QED
    BY <2>1, <2>2
<1>5. frames' = [l \in Loops |-> frames'[l]]
  BY DEF StartRun
<1>6. QED
  BY <1>1, <1>2, <1>3, <1>4, <1>5 DEF TypeOK

LEMMA TypesNext ==
  ASSUME TypeOK, [Next]_vars
  PROVE  TypeOK'
<1>1. ASSUME NEW r \in Runs, RefuseRun(r) \/ RunEnds(r) PROVE TypeOK'
  BY <1>1 DEF RefuseRun, RunEnds, CompleteRun, FailRun, TypeOK, Active
<1>2. ASSUME NEW r \in Runs, NEW ds \in SUBSET Domains, StartRun(r, ds) PROVE TypeOK'
  BY <1>2, TypesStartRun
<1>3. ASSUME NEW l \in Loops, LoopStep(l) PROVE TypeOK'
  BY <1>3, TypesWithinFrame, TypesReroute, TypesLeave DEF LoopStep
<1>4. CASE UNCHANGED vars
  BY <1>4 DEF vars, TypeOK, Active
<1>5. QED
  BY <1>1, <1>2, <1>3, <1>4 DEF Next

\* The loops of a run begin with it, and the ones of a completed run have
\* returned for good.
LEMMA RunsNext ==
  ASSUME TypeOK, Fresh, CompletedInFull, [Next]_vars
  PROVE  Fresh' /\ CompletedInFull'
<1>1. ASSUME NEW r \in Runs, RefuseRun(r) \/ RunEnds(r) PROVE Fresh' /\ CompletedInFull'
  <2>1. Fresh'
    BY <1>1, LoopParts DEF RefuseRun, RunEnds, CompleteRun, FailRun, TypeOK, Fresh
  <2>2. CompletedInFull'
    BY <1>1 DEF RefuseRun, RunEnds, CompleteRun, FailRun, TypeOK, CompletedInFull, Members
  <2>3. QED
    BY <2>1, <2>2
<1>2. ASSUME NEW r \in Runs, NEW ds \in SUBSET Domains, StartRun(r, ds)
      PROVE  Fresh' /\ CompletedInFull'
  <2>1. \A l \in Loops : l[1] # r => pc'[l] = pc[l]
    BY <1>2 DEF StartRun
  <2>2. run'[r] = "looping" /\ \A q \in Runs : q # r => run'[q] = run[q] /\ swarm'[q] = swarm[q]
    BY <1>2 DEF StartRun, TypeOK
  <2>3. Fresh'
    BY <2>1, <2>2, LoopParts DEF Fresh
  <2>4. CompletedInFull'
    <3> SUFFICES ASSUME NEW q \in Runs, run'[q] = "completed", NEW d \in swarm'[q]
                 PROVE  pc'[<<q, d>>] = "returned"
      BY DEF CompletedInFull, Members
    <3>1. q # r /\ run[q] = "completed" /\ d \in swarm[q]
      BY <2>2
    <3>2. <<q, d>> \in Members(q) /\ <<q, d>> \in Loops
      BY <3>1 DEF Members, Loops, TypeOK
    <3>3. QED
      BY <2>1, <3>1, <3>2 DEF CompletedInFull
  <2>5. QED
    BY <2>3, <2>4
<1>3. ASSUME NEW l \in Loops, LoopStep(l) PROVE Fresh' /\ CompletedInFull'
  <2>1. UNCHANGED <<run, swarm>> /\ Active(l)
    BY <1>3 DEF LoopStep, ExecuteReturns, Throws, Reroute, ReviewEnds, VerifyEnds, Leave,
                Active, Working, Leaving
  <2>2. \A m \in Loops : m # l => pc'[m] = pc[m]
    BY <1>3 DEF LoopStep, ExecuteReturns, Throws, Reroute, ReviewEnds, VerifyEnds, Leave,
                Complete, Review, Verify, NextIteration, Go, TypeOK
  <2>3. pc[l] \notin {"new", "returned"}
    BY <2>1 DEF Active, Working, Leaving
  <2>4. Fresh'
    BY <2>1, <2>2, <2>3 DEF Fresh
  <2>5. CompletedInFull'
    BY <2>1, <2>2, <2>3 DEF CompletedInFull, Members, Loops, TypeOK
  <2>6. QED
    BY <2>4, <2>5
<1>4. CASE UNCHANGED vars
  BY <1>4 DEF vars, Fresh, CompletedInFull, Members
<1>5. QED
  BY <1>1, <1>2, <1>3, <1>4 DEF Next

-----------------------------------------------------------------------------
(* Contexts. *)

\* The reviewer has no frames.
LEMMA FrameExperts ==
  ASSUME TypeOK, NEW l \in Loops
  PROVE  /\ Len(frames[l]) \in Nat
         /\ \A i \in 1 .. Len(frames[l]) :
              /\ frames[l][i].expert \in Experts
              /\ frames[l][i].expert # "reviewer"
<1> DEFINE F == [expert : Domains, found : Holder]
<1>1. frames[l] \in Seq(F)
  BY DEF TypeOK
<1> HIDE DEF F
<1>2. Len(frames[l]) \in Nat /\ \A i \in 1 .. Len(frames[l]) : frames[l][i] \in F
  BY <1>1
<1>3. \A f \in F : f.expert \in Experts /\ f.expert # "reviewer"
  BY LoopAssumption DEF F, Experts
<1>4. QED
  BY <1>2, <1>3

\* Steps of a loop that touch no context, and neither begin nor end a review.
LEMMA ApartElsewhere ==
  ASSUME TypeOK, Apart, UNCHANGED <<frames, found, context, overlap>>,
         \A l \in Loops : pc'[l] = "reviewing" <=> pc[l] = "reviewing"
  PROVE  Apart'
<1>1. \A l \in Loops : Held(l) => Held(l)'
  BY DEF Held
<1>2. \A e \in Experts : context[e] # NoLoop => context[e] \in Loops
  BY DEF TypeOK, Holder
<1>3. \A e \in Experts : Owned(e) => Owned(e)'
  BY <1>2 DEF Owned
<1>4. QED
  BY <1>1, <1>3 DEF Apart

LEMMA ApartReview ==
  ASSUME TypeOK, Apart, NEW l \in Loops, pc[l] = "executing", Review(l), UNCHANGED frames
  PROVE  Apart'
<1> SUFFICES ASSUME ~overlap' PROVE (\A m \in Loops : Held(m)') /\ (\A e \in Experts : Owned(e)')
  BY DEF Apart
<1>1. ~overlap /\ context["reviewer"] = NoLoop
  BY DEF Review
<1>2. (\A m \in Loops : Held(m)) /\ (\A e \in Experts : Owned(e))
  BY <1>1 DEF Apart
<1>3. /\ context'["reviewer"] = l /\ \A e \in Experts : e # "reviewer" => context'[e] = context[e]
      /\ pc'[l] = "reviewing" /\ \A m \in Loops : m # l => pc'[m] = pc[m]
      /\ found'[l] = NoLoop /\ \A m \in Loops : m # l => found'[m] = found[m]
  BY <1>1 DEF Review, Go, TypeOK, Experts
<1>4. ASSUME NEW m \in Loops PROVE Held(m)'
  <2>1. \A i \in 1 .. Len(frames[m]) :
          frames[m][i].found = NoLoop /\ context'[frames[m][i].expert] = m
    BY <1>2, <1>3, FrameExperts DEF Held
  <2>2. pc'[m] = "reviewing" => context'["reviewer"] = m /\ found'[m] = NoLoop
    BY <1>1, <1>2, <1>3, LoopParts DEF Held
  <2>3. QED
    BY <1>2, <2>1, <2>2 DEF Held
<1>5. ASSUME NEW e \in Experts PROVE Owned(e)'
  BY <1>2, <1>3 DEF Owned
<1>6. QED
  BY <1>4, <1>5

LEMMA ApartReviewEnds ==
  ASSUME TypeOK, Apart, NEW l \in Loops, ReviewEnds(l)
  PROVE  Apart'
<1> SUFFICES ASSUME ~overlap' PROVE (\A m \in Loops : Held(m)') /\ (\A e \in Experts : Owned(e)')
  BY DEF Apart
<1>1. ~overlap /\ pc[l] = "reviewing" /\ frames' = frames
  BY DEF ReviewEnds
<1>2. (\A m \in Loops : Held(m)) /\ (\A e \in Experts : Owned(e))
  BY <1>1 DEF Apart
<1>3. context["reviewer"] = l /\ found[l] = NoLoop
  BY <1>1, <1>2 DEF Held
<1>4. /\ context'["reviewer"] = NoLoop
      /\ \A e \in Experts : e # "reviewer" => context'[e] = context[e]
      /\ \A m \in Loops : m # l => pc'[m] = pc[m] /\ found'[m] = found[m]
  BY <1>3 DEF ReviewEnds, NextIteration, Go, TypeOK, Experts
<1>5. pc'[l] # "reviewing"
  BY DEF ReviewEnds, NextIteration, Go, TypeOK
<1>6. ASSUME NEW m \in Loops PROVE Held(m)'
  <2>1. \A i \in 1 .. Len(frames[m]) :
          frames[m][i].found = NoLoop /\ context'[frames[m][i].expert] = m
    BY <1>2, <1>4, FrameExperts DEF Held
  <2>2. pc'[m] # "reviewing"
    BY <1>2, <1>3, <1>4, <1>5 DEF Held
  <2>3. QED
    BY <1>1, <1>2, <2>1, <2>2 DEF Held
<1>7. ASSUME NEW e \in Experts PROVE Owned(e)'
  BY <1>1, <1>2, <1>4 DEF Owned
<1>8. QED
  BY <1>6, <1>7
\* A frame more: the code expert was free, so no other frame has it.
LEMMA ApartReroute ==
  ASSUME TypeOK, Apart, NEW l \in Loops, Reroute(l)
  PROVE  Apart'
<1> DEFINE k == Len(frames[l])
           f == [expert |-> "code", found |-> context["code"]]
<1> SUFFICES ASSUME ~overlap' PROVE (\A m \in Loops : Held(m)') /\ (\A e \in Experts : Owned(e)')
  BY DEF Apart
<1>1. ~overlap /\ context["code"] = NoLoop /\ pc[l] = "rerouting" /\ found' = found
  BY DEF Reroute
<1>2. (\A m \in Loops : Held(m)) /\ (\A e \in Experts : Owned(e))
  BY <1>1 DEF Apart
<1>3. /\ context'["code"] = l /\ \A e \in Experts : e # "code" => context'[e] = context[e]
      /\ pc'[l] = "executing" /\ \A m \in Loops : m # l => pc'[m] = pc[m]
      /\ frames' = [frames EXCEPT ![l] = Append(frames[l], f)]
  BY LoopAssumption DEF Reroute, Go, TypeOK, Experts
<1>4. \A m \in Loops : m # l => frames'[m] = frames[m]
  BY <1>3 DEF TypeOK
<1>5. /\ k \in Nat /\ Len(frames'[l]) = k + 1 /\ frames'[l][k + 1] = f
      /\ \A i \in 1 .. k : frames'[l][i] = frames[l][i]
  <2> DEFINE F == [expert : Domains, found : Holder]
  <2>1. frames[l] \in Seq(F) /\ f \in F /\ frames'[l] = Append(frames[l], f)
    BY <1>3, LoopAssumption DEF TypeOK, Experts
  <2> HIDE DEF F, f
  <2>2. QED
    BY <2>1
<1>6. \A m \in Loops : \A i \in 1 .. Len(frames[m]) :
        /\ frames[m][i].found = NoLoop /\ frames[m][i].expert # "code"
        /\ context'[frames[m][i].expert] = m
  BY <1>1, <1>2, <1>3, FrameExperts, LoopParts DEF Held
<1>7. \A m \in Loops : pc'[m] = "reviewing" => context'["reviewer"] = m /\ found'[m] = NoLoop
  BY <1>1, <1>2, <1>3 DEF Held, Experts
<1>8. ASSUME NEW m \in Loops PROVE Held(m)'
  <2>1. CASE m # l
    BY <1>2, <1>4, <1>6, <1>7, <2>1 DEF Held
  <2>2. CASE m = l
    <3>1. f.expert = "code" /\ f.found = NoLoop
      BY <1>1
    <3> HIDE DEF f
    <3>2. \A i \in 1 .. k + 1 :
            frames'[l][i].found = NoLoop /\ context'[frames'[l][i].expert] = l
      BY <1>3, <1>5, <1>6, <3>1
    <3>3. \A i, j \in 1 .. k + 1 : frames'[l][i].expert = frames'[l][j].expert => i = j
      <4>1. \A i, j \in 1 .. k : frames[l][i].expert = frames[l][j].expert => i = j
        BY <1>2 DEF Held
      <4>2. \A i \in 1 .. k : frames[l][i].expert # "code"
        BY <1>6
      <4> SUFFICES ASSUME NEW i \in 1 .. k + 1, NEW j \in 1 .. k + 1,
                          frames'[l][i].expert = frames'[l][j].expert
                   PROVE  i = j
        OBVIOUS
      <4> HIDE DEF k
      <4>3. CASE i \in 1 .. k /\ j \in 1 .. k
        BY <1>5, <4>1, <4>3
      <4>4. ASSUME NEW h \in 1 .. k
            PROVE  frames'[l][h].expert # "code" /\ frames'[l][k + 1].expert = "code"
        BY <1>5, <3>1, <4>2
      <4>5. QED
        BY <1>5, <4>3, <4>4
    <3>4. QED
      BY <1>5, <1>7, <2>2, <3>2, <3>3 DEF Held
  <2>3. QED
    BY <2>1, <2>2
<1>9. ASSUME NEW e \in Experts PROVE Owned(e)'
  <2>1. CASE e = "code"
    <3>1. k + 1 \in 1 .. Len(frames'[l]) /\ frames'[l][k + 1].expert = "code"
      BY <1>5
    <3>2. "code" # "reviewer"
      OBVIOUS
    <3>3. QED
      BY <1>3, <2>1, <3>1, <3>2 DEF Owned
  <2>2. CASE e = "reviewer"
    BY <1>1, <1>2, <1>3, <2>2 DEF Owned, TypeOK, Holder, Experts
  <2>3. CASE e \notin {"code", "reviewer"} /\ context[e] # NoLoop
    <3>1. context'[e] = context[e] /\ context[e] \in Loops
      BY <1>3, <2>3 DEF TypeOK, Holder
    <3>2. PICK i \in 1 .. Len(frames[context[e]]) : frames[context[e]][i].expert = e
      BY <1>2, <2>3 DEF Owned
    <3>3. i \in 1 .. Len(frames'[context[e]]) /\ frames'[context[e]][i].expert = e
      BY <1>4, <1>5, <3>1, <3>2
    <3>4. QED
      BY <2>3, <3>1, <3>3 DEF Owned
  <2>4. QED
    BY <1>3, <2>1, <2>2, <2>3 DEF Owned
<1>10. QED
  BY <1>8, <1>9

\* A frame less: it puts the empty context back, so its expert is free again.
LEMMA ApartLeave ==
  ASSUME TypeOK, Apart, NEW l \in Loops, Leave(l)
  PROVE  Apart'
<1> DEFINE k == Len(frames[l])
           x == Expert(l)
<1> SUFFICES ASSUME ~overlap' PROVE (\A m \in Loops : Held(m)') /\ (\A e \in Experts : Owned(e)')
  BY DEF Apart
<1>1. ~overlap /\ pc[l] \in Leaving /\ found' = found /\ Active(l)
  BY DEF Leave, Active
<1>2. (\A m \in Loops : Held(m)) /\ (\A e \in Experts : Owned(e))
  BY <1>1 DEF Apart
<1>3. /\ k \in Nat \ {0} /\ x = frames[l][k].expert
      /\ Last(frames[l]).found = NoLoop /\ context[x] = l /\ x \in Experts /\ x # "reviewer"
  BY <1>1, <1>2, Innermost, FrameExperts DEF Held, Expert
<1>4. /\ context'[x] = NoLoop /\ \A e \in Experts : e # x => context'[e] = context[e]
      /\ frames' = [frames EXCEPT ![l] = Front(frames[l])]
  BY <1>3 DEF Leave, TypeOK
<1>5. /\ pc'[l] # "reviewing" /\ pc[l] # "reviewing"
      /\ \A m \in Loops : m # l => pc'[m] = pc[m]
  BY <1>1 DEF Leave, Go, TypeOK, Leaving
<1>6. /\ \A m \in Loops : m # l => frames'[m] = frames[m]
      /\ Len(frames'[l]) = k - 1 /\ \A i \in 1 .. k - 1 : frames'[l][i] = frames[l][i]
  <2>1. frames'[l] = Front(frames[l]) /\ \A m \in Loops : m # l => frames'[m] = frames[m]
    BY <1>4 DEF TypeOK
  <2>2. QED
    BY <1>1, <2>1, Dropped
<1> HIDE DEF x, k
<1>7. ASSUME NEW m \in Loops PROVE Held(m)'
  <2>1. CASE m # l
    <3>1. \A i \in 1 .. Len(frames[m]) :
            frames[m][i].found = NoLoop /\ context'[frames[m][i].expert] = m
      BY <1>2, <1>3, <1>4, <2>1, FrameExperts DEF Held
    <3>2. pc'[m] = "reviewing" => context'["reviewer"] = m /\ found'[m] = NoLoop
      BY <1>1, <1>2, <1>3, <1>4, <1>5, <2>1 DEF Held, Experts
    <3>3. QED
      BY <1>2, <1>6, <2>1, <3>1, <3>2 DEF Held
  <2>2. CASE m = l
    <3>1. \A i \in 1 .. k - 1 : frames[l][i].expert # x
      BY <1>2, <1>3 DEF Held, k
    <3>2. \A i \in 1 .. k - 1 :
            frames'[l][i].found = NoLoop /\ context'[frames'[l][i].expert] = l
      BY <1>2, <1>3, <1>4, <1>6, <3>1, FrameExperts DEF Held, k
    <3>3. \A i, j \in 1 .. k - 1 : frames'[l][i].expert = frames'[l][j].expert => i = j
      <4>1. \A i, j \in 1 .. k : frames[l][i].expert = frames[l][j].expert => i = j
        BY <1>2 DEF Held, k
      <4>2. \A i \in 1 .. k - 1 : i \in 1 .. k /\ frames'[l][i] = frames[l][i]
        BY <1>3, <1>6
      <4>3. QED
        BY <4>1, <4>2
    <3>4. QED
      BY <1>5, <1>6, <2>2, <3>2, <3>3 DEF Held
  <2>3. QED
    BY <2>1, <2>2
<1>8. ASSUME NEW e \in Experts PROVE Owned(e)'
  <2>1. CASE e = x
    BY <1>4, <2>1 DEF Owned
  <2>2. CASE e = "reviewer"
    BY <1>2, <1>3, <1>4, <1>5, <2>2 DEF Owned, TypeOK, Holder
  <2>3. CASE e \notin {x, "reviewer"} /\ context[e] # NoLoop
    <3>1. context'[e] = context[e] /\ context[e] \in Loops
      BY <1>4, <2>3 DEF TypeOK, Holder
    <3>2. PICK i \in 1 .. Len(frames[context[e]]) : frames[context[e]][i].expert = e
      BY <1>2, <2>3 DEF Owned
    <3>3. i \in 1 .. Len(frames'[context[e]]) /\ frames'[context[e]][i].expert = e
      BY <1>3, <1>6, <2>3, <3>1, <3>2 DEF k
    <3>4. QED
      BY <2>3, <3>1, <3>3 DEF Owned
  <2>4. QED
    BY <1>4, <2>1, <2>2, <2>3 DEF Owned
<1>9. QED
  BY <1>7, <1>8
\* The loops that begin have no frames yet, and their experts are free.
LEMMA ApartStartRun ==
  ASSUME TypeOK, Fresh, Apart, NEW r \in Runs, NEW ds \in SUBSET Domains, StartRun(r, ds)
  PROVE  Apart'
<1> DEFINE begun == {r} \X ds
<1> SUFFICES ASSUME ~overlap' PROVE (\A m \in Loops : Held(m)') /\ (\A e \in Experts : Owned(e)')
  BY DEF Apart
<1>1. ~overlap /\ \A e \in ds : context[e] = NoLoop
  BY DEF StartRun
<1>2. (\A m \in Loops : Held(m)) /\ (\A e \in Experts : Owned(e))
  BY <1>1 DEF Apart
<1>3. ASSUME NEW m \in begun
      PROVE  /\ m \in Loops /\ m[2] \in ds /\ m = <<r, m[2]>> /\ pc[m] = "new" /\ frames[m] = <<>>
             /\ pc'[m] = "executing"
             /\ frames'[m] = <<[expert |-> m[2], found |-> NoLoop]>>
             /\ context'[m[2]] = m
  <2>1. m \in Loops /\ m[1] = r /\ m[2] \in ds /\ m = <<r, m[2]>>
    BY DEF Loops
  <2>2. pc[m] = "new" /\ frames[m] = <<>>
    BY <2>1 DEF StartRun, Fresh, TypeOK, Active, Working, Leaving
  <2>3. pc'[m] = "executing" /\ frames'[m] = <<[expert |-> m[2], found |-> context[m[2]]]>>
    BY <2>1 DEF StartRun
  <2>4. context'[m[2]] = <<r, m[2]>>
    BY <2>1 DEF StartRun, Experts
  <2>5. context[m[2]] = NoLoop
    BY <1>1, <2>1
  <2>6. frames'[m] = <<[expert |-> m[2], found |-> NoLoop]>>
    BY <2>3, <2>5
  <2>7. QED
    BY <2>1, <2>2, <2>3, <2>4, <2>6
<1>4. /\ \A m \in Loops : m \notin begun => pc'[m] = pc[m] /\ frames'[m] = frames[m]
      /\ \A e \in Experts : e \notin ds => context'[e] = context[e]
      /\ found' = found /\ "reviewer" \in Experts /\ "reviewer" \notin ds
  BY LoopAssumption DEF StartRun, Experts
<1>5. \A e \in Experts : context[e] # NoLoop => context[e] \in Loops \ begun
  <2> SUFFICES ASSUME NEW e \in Experts, context[e] # NoLoop, context[e] \in begun PROVE FALSE
    BY DEF TypeOK, Holder
  <2>1. pc[context[e]] = "new" /\ frames[context[e]] = <<>>
    BY <1>3
  <2>2. pc[context[e]] # "reviewing" /\ Len(frames[context[e]]) = 0
    BY <2>1
  <2>3. QED
    BY <1>2, <2>2 DEF Owned
<1>6. ASSUME NEW m \in Loops PROVE Held(m)'
  <2>1. CASE m \in begun
    <3> DEFINE f == [expert |-> m[2], found |-> NoLoop]
    <3>1. f.expert = m[2] /\ f.found = NoLoop
      OBVIOUS
    <3> HIDE DEF f
    <3>2. frames'[m] = <<f>> /\ pc'[m] = "executing" /\ context'[m[2]] = m
      BY <1>3, <2>1 DEF f
    <3>3. Len(frames'[m]) = 1 /\ frames'[m][1] = f
      BY <3>2
    <3>4. QED
      BY <3>1, <3>2, <3>3 DEF Held
  <2>2. CASE m \notin begun
    <3>1. \A i \in 1 .. Len(frames[m]) :
            frames[m][i].found = NoLoop /\ context'[frames[m][i].expert] = m
      BY <1>1, <1>2, <1>4, FrameExperts, LoopParts DEF Held
    <3>2. pc'[m] = "reviewing" => context'["reviewer"] = m /\ found'[m] = NoLoop
      BY <1>2, <1>4, <2>2 DEF Held
    <3>3. QED
      BY <1>2, <1>4, <2>2, <3>1, <3>2 DEF Held
  <2>3. QED
    BY <2>1, <2>2
<1>7. ASSUME NEW e \in Experts PROVE Owned(e)'
  <2>1. CASE e \in ds
    <3>1. <<r, e>> \in begun /\ <<r, e>>[2] = e
      BY <2>1
    <3>2. context'[e] = <<r, e>> /\ frames'[<<r, e>>] = <<[expert |-> e, found |-> NoLoop]>>
      BY <1>3, <3>1
    <3>3. Len(frames'[<<r, e>>]) = 1 /\ frames'[<<r, e>>][1].expert = e
      BY <3>2
    <3>4. e # "reviewer"
      BY <1>4, <2>1
    <3>5. QED
      BY <3>2, <3>3, <3>4 DEF Owned
  <2>2. CASE e \notin ds
    BY <1>2, <1>4, <1>5, <2>2 DEF Owned
  <2>3. QED
    BY <2>1, <2>2
<1>8. QED
  BY <1>6, <1>7
-----------------------------------------------------------------------------
LEMMA Inductive ==
  ASSUME IInv, [Next]_vars
  PROVE  IInv'
<1> TypeOK /\ Fresh /\ CompletedInFull /\ Apart
  BY DEF IInv
<1>1. TypeOK'
  BY TypesNext
<1>2. Fresh' /\ CompletedInFull'
  BY RunsNext
<1>3. ASSUME NEW r \in Runs, RefuseRun(r) \/ RunEnds(r) PROVE Apart'
  BY <1>3, ApartElsewhere DEF RefuseRun, RunEnds, CompleteRun, FailRun
<1>4. ASSUME NEW r \in Runs, NEW ds \in SUBSET Domains, StartRun(r, ds) PROVE Apart'
  BY <1>4, ApartStartRun
<1>5. ASSUME NEW l \in Loops, LoopStep(l) PROVE Apart'
  <2>1. CASE Throws(l) \/ VerifyEnds(l)
    <3>1. \A m \in Loops : pc'[m] = "reviewing" <=> pc[m] = "reviewing"
      BY <2>1 DEF Throws, VerifyEnds, NextIteration, Go, TypeOK
    <3>2. UNCHANGED <<frames, found, context, overlap>>
      BY <2>1 DEF Throws, VerifyEnds
    <3>3. QED
      BY <3>1, <3>2, ApartElsewhere
  <2>2. CASE ExecuteReturns(l)
    <3>1. CASE Review(l)
      BY <2>2, <3>1, ApartReview DEF ExecuteReturns
    <3>2. CASE ~Review(l)
      <4>1. \A m \in Loops : pc'[m] = "reviewing" <=> pc[m] = "reviewing"
        BY <2>2, <3>2 DEF ExecuteReturns, Complete, Verify, Go, TypeOK
      <4>2. UNCHANGED <<frames, found, context, overlap>>
        BY <2>2, <3>2 DEF ExecuteReturns, Complete, Verify
      <4>3. QED
        BY <4>1, <4>2, ApartElsewhere
    <3>3. QED
      BY <3>1, <3>2
  <2>3. QED
    BY <1>5, <2>1, <2>2, ApartReroute, ApartReviewEnds, ApartLeave DEF LoopStep
<1>6. ASSUME UNCHANGED vars PROVE Apart'
  BY <1>6, ApartElsewhere DEF vars
<1>7. Apart'
  BY <1>3, <1>4, <1>5, <1>6 DEF Next
<1>8. QED
  BY <1>1, <1>2, <1>7 DEF IInv

LEMMA Invariant == Spec => []IInv
<1>1. Init => IInv
  <2> SUFFICES ASSUME Init PROVE IInv
    OBVIOUS
  <2>1. TypeOK
    <3>1. <<>> \in Seq([expert : Domains, found : Holder])
      BY EmptySeq
    <3>2. \A l \in Loops : ~Active(l) /\ frames[l] = <<>>
      BY DEF Init, Active, Working, Leaving
    <3>3. QED
      BY <3>1, <3>2, Counts DEF Init, TypeOK, Holder
  <2>2. Fresh /\ CompletedInFull
    BY LoopParts DEF Init, Fresh, CompletedInFull
  <2>3. Apart
    <3>1. \A l \in Loops : Len(frames[l]) = 0 /\ pc[l] = "new"
      BY DEF Init
    <3>2. \A l \in Loops : Held(l)
      BY <3>1 DEF Held
    <3>3. \A e \in Experts : Owned(e)
      BY DEF Init, Owned
    <3>4. QED
      BY <3>2, <3>3 DEF Apart
  <2>4. QED
    BY <2>1, <2>2, <2>3 DEF IInv
<1>2. QED
  BY <1>1, Inductive, PTL DEF Spec

\* The types: in particular a loop has frames exactly while it is active, so
\* every finally block finds the frame it belongs to.
THEOREM TypeCorrect == Spec => []TypeOK
BY Invariant, PTL DEF IInv

\* A run is reported completed only when every expert of its swarm returned,
\* and none of them runs on.
THEOREM NothingRunsOn == Spec => []CompletedInFull
BY Invariant, PTL DEF IInv

\* As long as no loop finds an expert taken, every loop finds its own context on
\* its expert and on the reviewer, through reviews, reroutes and failures, and
\* no context outlives its loop.
THEOREM ContextsKept == Spec => []OwnContext
<1>1. IInv => OwnContext
  <2> SUFFICES ASSUME IInv, ~overlap
               PROVE  /\ \A l \in Loops :
                           /\ Active(l) => context[Expert(l)] = l
                           /\ pc[l] = "reviewing" => context["reviewer"] = l
                      /\ \A e \in Experts : context[e] # NoLoop => Active(context[e])
    BY DEF OwnContext
  <2>1. TypeOK /\ (\A l \in Loops : Held(l)) /\ (\A e \in Experts : Owned(e))
    BY DEF IInv, Apart
  <2>2. ASSUME NEW l \in Loops, Active(l) PROVE context[Expert(l)] = l
    <3>1. Len(frames[l]) \in Nat \ {0} /\ Expert(l) = frames[l][Len(frames[l])].expert
      BY <2>1, <2>2, Innermost DEF Expert
    <3>2. QED
      BY <2>1, <3>1 DEF Held
  <2>3. ASSUME NEW e \in Experts, context[e] # NoLoop PROVE Active(context[e])
    <3>1. context[e] \in Loops
      BY <2>1, <2>3 DEF TypeOK, Holder
    <3>2. pc[context[e]] = "reviewing" \/ frames[context[e]] # <<>>
      BY <2>1, <2>3 DEF Owned
    <3>3. QED
      BY <2>1, <3>1, <3>2 DEF TypeOK, Active, Working
  <2>4. QED
    BY <2>1, <2>2, <2>3 DEF Held
<1>2. QED
  BY <1>1, Invariant, PTL
=============================================================================
