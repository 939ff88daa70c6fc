------------------------- MODULE VFSContainerProofs -------------------------
(***************************************************************************)
(* Proofs about VFSContainer for every set of paths, users and requests    *)
(* and every limit.  Each safety theorem follows from VFSInv, which adds to  *)
(* the type invariant what the approval of an entry in the map and of a    *)
(* version in the hands of a suspended commit have in common.              *)
(* The account of the staged bytes rests on facts about sums over finite   *)
(* sets, which come before it.                                             *)
(***************************************************************************)
EXTENDS VFSContainer, FiniteSetTheorems, TLAPS

\* An entry carries the version staged for its own path, and status "approved"
\* only after its owner approved that version.
StagingInv ==
  \A p \in Paths : staging[p] # NotStaged =>
    /\ staging[p].ver.path = p
    /\ staging[p].status = "approved" => Approval(staging[p].ver) \in approvals

\* A commit past its check holds an approved version of the path it writes.
CommitInv ==
  \A r \in Requests : req[r] # Idle =>
    /\ req[r].ver.path = req[r].path
    /\ Approval(req[r].ver) \in approvals

VFSInv ==
  /\ TypeOK
  /\ StagingInv
  /\ CommitInv
  /\ OnlyApprovedOnDisk
  /\ ApprovedByOwner

USE DEF NotStaged, Idle

LEMMA StageInv ==
  ASSUME VFSInv, NEW u \in Users, NEW p \in Paths, NEW s \in Sizes, Stage(u, p, s)
  PROVE  VFSInv'
<1> USE VFSAssumption
<1>1. FreshEntry(u, p, s) \in Entry /\ nextId + 1 \in Nat
  BY DEF VFSInv, TypeOK, FreshEntry, Entry, Version
<1>2. TypeOK'
  BY <1>1 DEF VFSInv, TypeOK, Stage
<1>3. StagingInv'
  BY DEF VFSInv, TypeOK, StagingInv, Stage, FreshEntry
<1>4. CommitInv' /\ OnlyApprovedOnDisk' /\ ApprovedByOwner'
  BY DEF VFSInv, CommitInv, OnlyApprovedOnDisk, ApprovedByOwner, Stage
<1> QED  BY <1>2, <1>3, <1>4 DEF VFSInv

LEMMA RejectInv ==
  ASSUME VFSInv, NEW u \in Users, NEW p \in Paths, RejectFile(u, p)
  PROVE  VFSInv'
<1>1. TypeOK'
  BY DEF VFSInv, TypeOK, RejectFile
<1>2. StagingInv'
  BY DEF VFSInv, TypeOK, StagingInv, RejectFile
<1>3. CommitInv' /\ OnlyApprovedOnDisk' /\ ApprovedByOwner'
  BY DEF VFSInv, CommitInv, OnlyApprovedOnDisk, ApprovedByOwner, RejectFile
<1> QED  BY <1>1, <1>2, <1>3 DEF VFSInv

LEMMA ApproveInv ==
  ASSUME VFSInv, NEW r \in Requests, NEW u \in Users, NEW p \in Paths,
         ApproveFile(r, u, p)
  PROVE  VFSInv'
<1> DEFINE v == staging[p].ver
<1>1. /\ staging[p] \in Entry
      /\ v \in Version
      /\ v.owner = u
      /\ v.path = p
  BY DEF VFSInv, TypeOK, StagingInv, ApproveFile, OwnedBy, Entry
<1>2. approvals' = approvals \cup {Approval(v)}
  BY <1>1 DEF ApproveFile, Approval
<1>3. staging' \in [Paths -> {NotStaged} \cup Entry]
  BY <1>1 DEF VFSInv, TypeOK, ApproveFile, Entry
<1>4. req' \in [Requests -> {Idle} \cup Handler]
  BY <1>1 DEF VFSInv, TypeOK, ApproveFile, Handler
<1>5. TypeOK'
  BY <1>1, <1>2, <1>3, <1>4 DEF VFSInv, TypeOK, ApproveFile, Approval
<1>6. StagingInv'
  BY <1>1, <1>2 DEF VFSInv, TypeOK, StagingInv, ApproveFile, Entry
<1>7. CommitInv'
  BY <1>1, <1>2 DEF VFSInv, TypeOK, CommitInv, ApproveFile
<1>8. OnlyApprovedOnDisk' /\ ApprovedByOwner'
  BY <1>1, <1>2 DEF VFSInv, OnlyApprovedOnDisk, ApprovedByOwner, ApproveFile, Approval
<1> QED  BY <1>5, <1>6, <1>7, <1>8 DEF VFSInv

LEMMA StartCommitInv ==
  ASSUME VFSInv, NEW r \in Requests, StartCommit(r)
  PROVE  VFSInv'
<1> DEFINE p == req[r].path
<1>1. /\ req[r] \in Handler
      /\ p \in Paths
  BY DEF VFSInv, TypeOK, StartCommit, Handler
<1>2. /\ staging[p] \in Entry
      /\ staging[p].ver \in Version
      /\ staging[p].ver.path = p
      /\ Approval(staging[p].ver) \in approvals
  BY <1>1 DEF VFSInv, TypeOK, StagingInv, StartCommit, MayCommit, OwnedBy, Entry
<1>3. req' \in [Requests -> {Idle} \cup Handler]
  BY <1>1, <1>2 DEF VFSInv, TypeOK, StartCommit, Handler
<1>4. CommitInv'
  BY <1>1, <1>2 DEF VFSInv, TypeOK, CommitInv, StartCommit, Handler
<1>5. TypeOK' /\ StagingInv' /\ OnlyApprovedOnDisk' /\ ApprovedByOwner'
  BY <1>3 DEF VFSInv, TypeOK, StagingInv, OnlyApprovedOnDisk, ApprovedByOwner, StartCommit
<1> QED  BY <1>4, <1>5 DEF VFSInv

LEMMA RefuseCommitInv ==
  ASSUME VFSInv, NEW r \in Requests, RefuseCommit(r)
  PROVE  VFSInv'
BY DEF VFSInv, TypeOK, StagingInv, CommitInv, OnlyApprovedOnDisk, ApprovedByOwner,
       RefuseCommit

LEMMA OpenFileInv ==
  ASSUME VFSInv, NEW r \in Requests, OpenFile(r)
  PROVE  VFSInv'
<1>1. req[r] \in Handler /\ req[r].path \in Paths
  BY DEF VFSInv, TypeOK, OpenFile, Handler
<1>2. TypeOK'
  BY <1>1 DEF VFSInv, TypeOK, OpenFile, Handler
<1>3. CommitInv'
  BY <1>1 DEF VFSInv, TypeOK, CommitInv, OpenFile, Handler
<1>4. OnlyApprovedOnDisk'
  BY <1>1 DEF VFSInv, TypeOK, OnlyApprovedOnDisk, OpenFile
<1>5. StagingInv' /\ ApprovedByOwner'
  BY DEF VFSInv, StagingInv, ApprovedByOwner, OpenFile
<1> QED  BY <1>2, <1>3, <1>4, <1>5 DEF VFSInv

LEMMA WriteFileInv ==
  ASSUME VFSInv, NEW r \in Requests, WriteFile(r)
  PROVE  VFSInv'
<1> DEFINE p == req[r].path
           v == req[r].ver
<1>1. /\ req[r] \in Handler
      /\ p \in Paths
      /\ v \in Version
      /\ v.path = p
      /\ Approval(v) \in approvals
  BY DEF VFSInv, TypeOK, CommitInv, WriteFile, Handler
<1>2. PICK bytes \in {{}, disk[p]} : disk' = [disk EXCEPT ![p] = bytes \cup {v}]
  BY DEF WriteFile
<1>3. TypeOK'
  BY <1>1, <1>2 DEF VFSInv, TypeOK, WriteFile, Handler
<1>4. CommitInv'
  BY <1>1 DEF VFSInv, TypeOK, CommitInv, WriteFile, Handler
<1>5. OnlyApprovedOnDisk'
  BY <1>1, <1>2 DEF VFSInv, TypeOK, OnlyApprovedOnDisk, WriteFile
<1>6. StagingInv' /\ ApprovedByOwner'
  BY DEF VFSInv, StagingInv, ApprovedByOwner, WriteFile
<1> QED  BY <1>3, <1>4, <1>5, <1>6 DEF VFSInv

LEMMA CommitFailsInv ==
  ASSUME VFSInv, NEW r \in Requests, CommitFails(r)
  PROVE  VFSInv'
<1> DEFINE p == req[r].path
           v == req[r].ver
<1>1. /\ req[r] \in Handler
      /\ p \in Paths
      /\ v \in Version
      /\ v.path = p
      /\ Approval(v) \in approvals
  BY DEF VFSInv, TypeOK, CommitInv, CommitFails, Handler
<1>2. PICK bytes \in {{}, {v}} :
        disk' = disk \/ disk' = [disk EXCEPT ![p] = @ \cup bytes]
  BY DEF CommitFails
<1>3. TypeOK'
  BY <1>1, <1>2 DEF VFSInv, TypeOK, CommitFails
<1>4. CommitInv'
  BY DEF VFSInv, TypeOK, CommitInv, CommitFails
<1>5. OnlyApprovedOnDisk'
  BY <1>1, <1>2 DEF VFSInv, TypeOK, OnlyApprovedOnDisk, CommitFails
<1>6. StagingInv' /\ ApprovedByOwner'
  BY DEF VFSInv, StagingInv, ApprovedByOwner, CommitFails
<1> QED  BY <1>3, <1>4, <1>5, <1>6 DEF VFSInv

LEMMA FinishCommitInv ==
  ASSUME VFSInv, NEW r \in Requests, FinishCommit(r)
  PROVE  VFSInv'
<1>1. TypeOK'
  BY DEF VFSInv, TypeOK, FinishCommit
<1>2. StagingInv'
  BY DEF VFSInv, TypeOK, StagingInv, FinishCommit
<1>3. CommitInv' /\ OnlyApprovedOnDisk' /\ ApprovedByOwner'
  BY DEF VFSInv, TypeOK, CommitInv, OnlyApprovedOnDisk, ApprovedByOwner, FinishCommit
<1> QED  BY <1>1, <1>2, <1>3 DEF VFSInv

LEMMA ClearExpiredInv ==
  ASSUME VFSInv, ClearExpired
  PROVE  VFSInv'
<1>1. PICK expired \in SUBSET Paths :
        staging' = [p \in Paths |-> IF p \in expired THEN NotStaged ELSE staging[p]]
  BY DEF ClearExpired, StagedPaths
<1>2. UNCHANGED <<disk, req, nextId, approvals>>
  BY DEF ClearExpired
<1>3. TypeOK'
  BY <1>1, <1>2 DEF VFSInv, TypeOK
<1>4. StagingInv'
  BY <1>1, <1>2 DEF VFSInv, TypeOK, StagingInv
<1>5. CommitInv' /\ OnlyApprovedOnDisk' /\ ApprovedByOwner'
  BY <1>2 DEF VFSInv, CommitInv, OnlyApprovedOnDisk, ApprovedByOwner
<1> QED  BY <1>3, <1>4, <1>5 DEF VFSInv

LEMMA InitInv == Init => VFSInv
BY DEF Init, VFSInv, TypeOK, StagingInv, CommitInv, OnlyApprovedOnDisk, ApprovedByOwner

LEMMA NextInv == VFSInv /\ [Next]_vars => VFSInv'
<1> SUFFICES ASSUME VFSInv, [Next]_vars  PROVE VFSInv'
  OBVIOUS
<1>1. CASE \E u \in Users, p \in Paths, s \in Sizes : Stage(u, p, s)
  BY <1>1, StageInv
<1>2. CASE \E u \in Users, p \in Paths : RejectFile(u, p)
  BY <1>2, RejectInv
<1>3. CASE \E r \in Requests, u \in Users, p \in Paths : ApproveFile(r, u, p)
  BY <1>3, ApproveInv
<1>4. CASE \E r \in Requests : HandlerStep(r)
  BY <1>4, StartCommitInv, RefuseCommitInv, OpenFileInv, WriteFileInv,
     CommitFailsInv, FinishCommitInv DEF HandlerStep
<1>5. CASE ClearExpired
  BY <1>5, ClearExpiredInv
<1>6. CASE UNCHANGED vars
  BY <1>6 DEF vars, VFSInv, TypeOK, StagingInv, CommitInv, OnlyApprovedOnDisk,
     ApprovedByOwner, Approval
<1> QED  BY <1>1, <1>2, <1>3, <1>4, <1>5, <1>6 DEF Next

LEMMA VFSInvariant == Spec => []VFSInv
BY InitInv, NextInv, PTL DEF Spec
-----------------------------------------------------------------------------
\* The state has its type in every behaviour.
THEOREM TypeCorrect == Spec => []TypeOK
BY VFSInvariant, PTL DEF VFSInv

\* Whatever requests and agents interleave, files hold only bytes that the
\* owner of their version approved for that file.
THEOREM ApprovalGated == Spec => []OnlyApprovedOnDisk
BY VFSInvariant, PTL DEF VFSInv

\* Approvals are given by owners only.
THEOREM OwnersApprove == Spec => []ApprovedByOwner
BY VFSInvariant, PTL DEF VFSInv
-----------------------------------------------------------------------------
(* The limit of staged files. *)

\* Removing entries keeps the limit.
LEMMA FewerFiles ==
  ASSUME FileLimit, StagedPaths' \subseteq StagedPaths
  PROVE  FileLimit'
<1>1. IsFiniteSet(StagedPaths)
  BY VFSAssumption, FS_Subset DEF StagedPaths
<1>2. /\ Cardinality(StagedPaths') <= Cardinality(StagedPaths)
      /\ Cardinality(StagedPaths) \in Nat
      /\ Cardinality(StagedPaths') \in Nat
  BY <1>1, FS_Subset, FS_CardinalityType
<1> QED  BY <1>2, VFSAssumption DEF FileLimit

LEMMA StageLimit ==
  ASSUME TypeOK, FileLimit,
         NEW u \in Users, NEW p \in Paths, NEW s \in Sizes, Stage(u, p, s)
  PROVE  FileLimit'
<1>1. IsFiniteSet(StagedPaths)
  BY VFSAssumption, FS_Subset DEF StagedPaths
<1>2. StagedPaths' = StagedPaths \cup {p}
  BY DEF TypeOK, Stage, FreshEntry, StagedPaths
<1>3. CASE staging[p] # NotStaged
  <2>1. StagedPaths' = StagedPaths
    BY <1>2, <1>3 DEF StagedPaths
  <2> QED  BY <2>1 DEF FileLimit
<1>4. CASE staging[p] = NotStaged
  <2>1. p \notin StagedPaths /\ Cardinality(StagedPaths) < MaxFiles
    BY <1>4 DEF StagedPaths, Stage, HasRoom
  <2>2. Cardinality(StagedPaths') = Cardinality(StagedPaths) + 1
    BY <1>1, <1>2, <2>1, FS_AddElement
  <2> QED  BY <1>1, <2>1, <2>2, FS_CardinalityType, VFSAssumption DEF FileLimit
<1> QED  BY <1>3, <1>4

LEMMA NextLimit == TypeOK /\ FileLimit /\ [Next]_vars => FileLimit'
<1> SUFFICES ASSUME TypeOK, FileLimit, [Next]_vars  PROVE FileLimit'
  OBVIOUS
<1>1. CASE \E u \in Users, p \in Paths, s \in Sizes : Stage(u, p, s)
  BY <1>1, StageLimit
<1>2. CASE \E u \in Users, p \in Paths : RejectFile(u, p)
  <2>1. StagedPaths' \subseteq StagedPaths
    BY <1>2 DEF TypeOK, RejectFile, StagedPaths
  <2> QED  BY <2>1, FewerFiles
<1>3. CASE \E r \in Requests, u \in Users, p \in Paths : ApproveFile(r, u, p)
  <2>1. StagedPaths' \subseteq StagedPaths
    BY <1>3 DEF TypeOK, ApproveFile, OwnedBy, StagedPaths
  <2> QED  BY <2>1, FewerFiles
<1>4. CASE \E r \in Requests : HandlerStep(r)
  <2>1. PICK r \in Requests : HandlerStep(r)
    BY <1>4
  <2>2. StagedPaths' \subseteq StagedPaths
    BY <2>1 DEF TypeOK, HandlerStep, StartCommit, RefuseCommit, OpenFile, WriteFile,
       CommitFails, FinishCommit, StagedPaths
  <2> QED  BY <2>2, FewerFiles
<1>5. CASE ClearExpired
  <2>1. StagedPaths' \subseteq StagedPaths
    BY <1>5 DEF TypeOK, ClearExpired, StagedPaths
  <2> QED  BY <2>1, FewerFiles
<1>6. CASE UNCHANGED vars
  BY <1>6, FewerFiles DEF vars, StagedPaths
<1> QED  BY <1>1, <1>2, <1>3, <1>4, <1>5, <1>6 DEF Next

\* The staging area never holds more than maxFiles files, however entries are
\* replaced, committed and expired meanwhile.
THEOREM FilesLimited == Spec => []FileLimit
<1>1. Init => FileLimit
  <2> SUFFICES ASSUME Init  PROVE FileLimit
    OBVIOUS
  <2>1. StagedPaths = {}
    BY DEF Init, StagedPaths
  <2> QED  BY <2>1, FS_EmptySet, VFSAssumption DEF FileLimit
<1> QED  BY <1>1, NextLimit, TypeCorrect, PTL DEF Spec
-----------------------------------------------------------------------------
(* Refinement of ApprovalGate. *)

\* Every step of the container is one of the gate, or changes neither the files
\* nor the approvals.
LEMMA StepRefines == VFSInv /\ [Next]_vars => [Gate!Next]_<<disk, approvals>>
<1> SUFFICES ASSUME VFSInv, [Next]_vars  PROVE [Gate!Next]_<<disk, approvals>>
  OBVIOUS
<1>1. CASE \E u \in Users, p \in Paths, s \in Sizes : Stage(u, p, s)
  BY <1>1 DEF Stage
<1>2. CASE \E u \in Users, p \in Paths : RejectFile(u, p)
  BY <1>2 DEF RejectFile
<1>3. CASE \E r \in Requests, u \in Users, p \in Paths : ApproveFile(r, u, p)
  <2>1. PICK r \in Requests, u \in Users, p \in Paths : ApproveFile(r, u, p)
    BY <1>3
  <2> DEFINE a == [ver |-> staging[p].ver, by |-> u]
  <2>2. /\ approvals' = approvals \cup {a}
        /\ UNCHANGED disk
        /\ a.by \in Users /\ a.ver.owner = a.by
    BY <2>1 DEF ApproveFile, OwnedBy
  <2> QED  BY <2>2 DEF Gate!Next, Gate!Approve
<1>4. CASE \E r \in Requests : OpenFile(r)
  <2>1. PICK r \in Requests : OpenFile(r)
    BY <1>4
  <2>2. req[r].path \in Paths
    BY <2>1 DEF VFSInv, TypeOK, OpenFile, Handler
  <2>3. Gate!Write(req[r].path)
    BY <2>1, <2>2 DEF VFSInv, TypeOK, OpenFile, Gate!Write
  <2> QED  BY <2>2, <2>3 DEF Gate!Next
<1>5. CASE \E r \in Requests : WriteFile(r) \/ CommitFails(r)
  <2>1. PICK r \in Requests : WriteFile(r) \/ CommitFails(r)
    BY <1>5
  <2> DEFINE p == req[r].path
             v == req[r].ver
  <2>2. p \in Paths /\ Gate!Approved(p, v)
    BY <2>1 DEF VFSInv, TypeOK, CommitInv, WriteFile, CommitFails, Handler, Approval,
       Gate!Approved
  <2>3. UNCHANGED approvals
    BY <2>1 DEF WriteFile, CommitFails
  <2>4. \/ UNCHANGED disk
        \/ \E bytes : /\ bytes \subseteq disk[p] \cup {v}
                      /\ disk' = [disk EXCEPT ![p] = bytes]
    BY <2>1 DEF WriteFile, CommitFails
  <2>5. UNCHANGED disk \/ Gate!Write(p)
    BY <2>2, <2>3, <2>4 DEF VFSInv, TypeOK, Gate!Write
  <2> QED  BY <2>2, <2>3, <2>5 DEF Gate!Next
<1>6. CASE \E r \in Requests : StartCommit(r) \/ RefuseCommit(r) \/ FinishCommit(r)
  BY <1>6 DEF StartCommit, RefuseCommit, FinishCommit
<1>7. CASE ClearExpired
  BY <1>7 DEF ClearExpired
<1>8. CASE UNCHANGED vars
  BY <1>8 DEF vars
<1> QED  BY <1>1, <1>2, <1>3, <1>4, <1>5, <1>6, <1>7, <1>8 DEF Next, HandlerStep

\* The container, with its handlers, implements the gate.
THEOREM Refinement == Spec => GateSpec
<1>1. Init => Gate!Init
  BY DEF Init, Gate!Init
<1> QED  BY <1>1, StepRefines, VFSInvariant, PTL DEF Spec, GateSpec, Gate!Spec
-----------------------------------------------------------------------------
(***************************************************************************)
(* Sums over finite sets.  A set C that holds a subset of D whenever it    *)
(* holds the smaller ones holds all of them: strict inclusion is           *)
(* well-founded on the subsets of a finite set.                            *)
(***************************************************************************)
LEMMA SubsetInduction ==
  ASSUME NEW D, IsFiniteSet(D), NEW C,
         \A T \in SUBSET D : (\A U \in SUBSET T : U # T => U \in C) => T \in C
  PROVE  SUBSET D \subseteq C
<1> DEFINE R == StrictSubsetOrdering(D)
           Bad == (SUBSET D) \ C
<1>1. IsWellFoundedOn(R, SUBSET D)
  BY FS_FiniteSubsetsOfFinite, FS_StrictSubsetOrderingWellFounded
<1>2. CASE Bad # {}
  <2>1. PICK T \in Bad : \A U \in Bad : ~(<<U, T>> \in R)
    <3> HIDE DEF R, Bad
    <3>1. Bad \subseteq SUBSET D
      BY DEF Bad
    <3> QED
      BY <1>1, <1>2, <3>1, WFMin
  <2>2. ASSUME NEW U \in SUBSET T, U # T  PROVE U \in C
    BY <2>1, <2>2 DEF StrictSubsetOrdering
  <2> QED
    BY <2>1, <2>2
<1> QED
  BY <1>2

SomeOf(s) == CHOOSE x \in s : TRUE

\* g sums w over the subsets of T, as MapThenSumSet does: a summand that CHOOSE
\* takes, then the others.
SumsUp(g, w, T) ==
  g = [s \in SUBSET T |-> IF s = {} THEN 0 ELSE w[SomeOf(s)] + g[s \ {SomeOf(s)}]]

Total(w, T) == (CHOOSE g : SumsUp(g, w, T))[T]

LEMMA AnyIsIn == ASSUME NEW s, s # {}  PROVE SomeOf(s) \in s
BY DEF SomeOf

\* Two such functions agree on the sets both have, when the summands do.
LEMMA SumsAgree ==
  ASSUME NEW S, NEW T, NEW g, NEW h, NEW w, NEW v, SumsUp(g, w, S), SumsUp(h, v, T),
         NEW D \in SUBSET (S \cap T), IsFiniteSet(D), \A x \in D : w[x] = v[x]
  PROVE  g[D] = h[D]
<1> DEFINE C == {U \in SUBSET D : g[U] = h[U]}
<1>1. ASSUME NEW U \in SUBSET D, \A V \in SUBSET U : V # U => V \in C  PROVE U \in C
  <2>1. U \in SUBSET S /\ U \in SUBSET T
    OBVIOUS
  <2>2. CASE U = {}
    BY <2>1, <2>2 DEF SumsUp
  <2>3. CASE U # {}
    <3>1. SomeOf(U) \in U
      BY <2>3, AnyIsIn
    <3>2. g[U \ {SomeOf(U)}] = h[U \ {SomeOf(U)}]
      BY <1>1, <3>1
    <3>3. g[U] = w[SomeOf(U)] + g[U \ {SomeOf(U)}]
      BY <2>1, <2>3 DEF SumsUp
    <3>4. h[U] = v[SomeOf(U)] + h[U \ {SomeOf(U)}]
      BY <2>1, <2>3 DEF SumsUp
    <3> QED
      BY <3>1, <3>2, <3>3, <3>4
  <2> QED
    BY <2>2, <2>3
<1>2. SUBSET D \subseteq C
  <2> HIDE DEF C
  <2> QED
    BY <1>1, SubsetInduction
<1> QED
  BY <1>2

\* There is one: each value is the total of the smaller set.
LEMMA SumsExist == ASSUME NEW D, IsFiniteSet(D), NEW w  PROVE \E g : SumsUp(g, w, D)
<1> DEFINE C == {T \in SUBSET D : \E g : SumsUp(g, w, T)}
<1>1. ASSUME NEW T \in SUBSET D, \A U \in SUBSET T : U # T => U \in C  PROVE T \in C
  <2> DEFINE V(s) == Total(w, s)
             G == [s \in SUBSET T |-> IF s = {} THEN 0
                                      ELSE IF s = T THEN w[SomeOf(s)] + V(s \ {SomeOf(s)}) ELSE V(s)]
  <2>1. ASSUME NEW U \in SUBSET T, U # T  PROVE SumsUp(CHOOSE g : SumsUp(g, w, U), w, U)
    BY <1>1, <2>1
  <2>2. ASSUME NEW U \in SUBSET T, U # T, NEW s \in SUBSET U
        PROVE  (CHOOSE g : SumsUp(g, w, U))[s] = V(s)
    <3>1. s # T /\ s \in SUBSET T /\ IsFiniteSet(s)
      BY <2>2, FS_Subset
    <3>2. SumsUp(CHOOSE g : SumsUp(g, w, s), w, s)
      BY <2>1, <3>1
    <3> QED
      BY <2>1, <2>2, <3>1, <3>2, SumsAgree DEF Total
  <2>3. ASSUME NEW s \in SUBSET T, s # {}  PROVE G[s] = w[SomeOf(s)] + G[s \ {SomeOf(s)}]
    <3>1. SomeOf(s) \in s
      BY <2>3, AnyIsIn
    <3>2. PICK r : r = s \ {SomeOf(s)}
      OBVIOUS
    <3>3. r \in SUBSET s /\ r # s /\ r # T /\ r \in SUBSET T
      BY <3>1, <3>2
    <3>4. CASE r = {}
      <4>1. G[r] = 0
        BY <3>3, <3>4
      <4>2. V(r) = 0
        <5>1. SumsUp(CHOOSE g : SumsUp(g, w, r), w, r)
          BY <2>1, <3>3
        <5> QED
          BY <5>1, <3>4 DEF SumsUp, Total
      <4>3. s # T => V(s) = w[SomeOf(s)] + V(r)
        <5> SUFFICES ASSUME s # T  PROVE V(s) = w[SomeOf(s)] + V(r)
          OBVIOUS
        <5>1. PICK h : h = CHOOSE g : SumsUp(g, w, s)
          OBVIOUS
        <5>2. SumsUp(h, w, s)
          BY <2>1, <5>1
        <5>3. h[s] = w[SomeOf(s)] + h[r]
          BY <2>3, <3>2, <5>2 DEF SumsUp
        <5>4. h[r] = V(r) /\ h[s] = V(s)
          BY <2>2, <3>3, <5>1
        <5> QED
          BY <5>3, <5>4
      <4> QED
        BY <2>3, <3>2, <4>1, <4>2, <4>3
    <3>5. CASE r # {}
      <4>1. G[r] = V(r)
        BY <3>3, <3>5
      <4>3. s # T => V(s) = w[SomeOf(s)] + V(r)
        <5> SUFFICES ASSUME s # T  PROVE V(s) = w[SomeOf(s)] + V(r)
          OBVIOUS
        <5>1. PICK h : h = CHOOSE g : SumsUp(g, w, s)
          OBVIOUS
        <5>2. SumsUp(h, w, s)
          BY <2>1, <5>1
        <5>3. h[s] = w[SomeOf(s)] + h[r]
          BY <2>3, <3>2, <5>2 DEF SumsUp
        <5>4. h[r] = V(r) /\ h[s] = V(s)
          BY <2>2, <3>3, <5>1
        <5> QED
          BY <5>3, <5>4
      <4> QED
        BY <2>3, <3>2, <4>1, <4>3
    <3> QED
      BY <3>4, <3>5
  <2>4. G[{}] = 0
    OBVIOUS
  <2>5. SumsUp(G, w, T)
    <3>1. \A s \in SUBSET T : G[s] = IF s = {} THEN 0 ELSE w[SomeOf(s)] + G[s \ {SomeOf(s)}]
      BY <2>3, <2>4
    <3>2. G = [s \in SUBSET T |-> G[s]]
      OBVIOUS
    <3> HIDE DEF G
    <3> QED
      BY <3>1, <3>2 DEF SumsUp
  <2> QED
    BY <2>5
<1>2. SUBSET D \subseteq C
  <2> HIDE DEF C
  <2> QED
    BY <1>1, SubsetInduction
<1> QED
  BY <1>2

\* Its values are totals, whichever set it was made for.
LEMMA TotalSums ==
  ASSUME NEW D, IsFiniteSet(D), NEW w, NEW g, SumsUp(g, w, D), NEW T \in SUBSET D
  PROVE  g[T] = Total(w, T)
<1>1. IsFiniteSet(T)
  BY FS_Subset
<1>2. SumsUp(CHOOSE h : SumsUp(h, w, T), w, T)
  BY <1>1, SumsExist
<1> QED
  BY <1>1, <1>2, SumsAgree DEF Total

\* SizeOf, which goes through MapThenSumSet, is such a total.
LEMMA SizeIsTotal ==
  ASSUME NEW T \in SUBSET Paths
  PROVE  SizeOf(T) = Total([p \in Paths |-> StagedSize(p)], T)
<1> PICK w : w = [p \in Paths |-> StagedSize(p)]
  OBVIOUS
<1>1. IsFiniteSet(T)
  BY VFSAssumption, FS_Subset
<1>2. PICK g : SumsUp(g, w, T)
  BY <1>1, SumsExist
<1> DEFINE Def(h) == [s \in SUBSET T |->
                       IF s = {} THEN 0 ELSE StagedSize(SomeOf(s)) + h[s \ {SomeOf(s)}]]
<1>4. ASSUME NEW h  PROVE h = Def(h) <=> SumsUp(h, w, T)
  <2>1. \A s \in SUBSET T : s # {} => w[SomeOf(s)] = StagedSize(SomeOf(s))
    BY AnyIsIn
  <2>2. Def(h) = [s \in SUBSET T |-> IF s = {} THEN 0 ELSE w[SomeOf(s)] + h[s \ {SomeOf(s)}]]
    BY <2>1
  <2> QED
    BY <2>2 DEF SumsUp
<1>3. SizeOf(T) = (CHOOSE h : h = Def(h))[T]
  BY DEF SizeOf, MapThenSumSet, MapThenFoldSet, SomeOf
<1>5. SumsUp(CHOOSE h : h = Def(h), w, T)
  <2> HIDE DEF Def
  <2>1. g = Def(g)
    BY <1>2, <1>4
  <2>2. (CHOOSE h : h = Def(h)) = Def(CHOOSE h : h = Def(h))
    BY <2>1
  <2> QED
    BY <1>4, <2>2
<1> QED
  BY <1>1, <1>3, <1>5, TotalSums

\* A total is one summand and the total of the others.
LEMMA TotalStep ==
  ASSUME NEW T, IsFiniteSet(T), NEW w
  PROVE  Total(w, T) = IF T = {} THEN 0 ELSE w[SomeOf(T)] + Total(w, T \ {SomeOf(T)})
<1>1. PICK g : SumsUp(g, w, T)
  BY SumsExist
<1>2. g[T] = Total(w, T) /\ g[T \ {SomeOf(T)}] = Total(w, T \ {SomeOf(T)})
  BY <1>1, TotalSums
<1> QED
  BY <1>1, <1>2 DEF SumsUp

\* Integers add up to an integer.
LEMMA TotalIsInt ==
  ASSUME NEW T, IsFiniteSet(T), NEW w, \A x \in T : w[x] \in Int
  PROVE  Total(w, T) \in Int
<1> DEFINE C == {U \in SUBSET T : Total(w, U) \in Int}
<1>1. ASSUME NEW U \in SUBSET T, \A V \in SUBSET U : V # U => V \in C  PROVE U \in C
  <2>1. IsFiniteSet(U)
    BY FS_Subset
  <2>2. CASE U # {}
    <3>1. SomeOf(U) \in U /\ w[SomeOf(U)] \in Int
      BY <2>2, AnyIsIn
    <3>2. Total(w, U \ {SomeOf(U)}) \in Int
      BY <1>1, <3>1
    <3>3. Total(w, U) = w[SomeOf(U)] + Total(w, U \ {SomeOf(U)})
      BY <2>1, <2>2, TotalStep
    <3> QED
      BY <3>1, <3>2, <3>3
  <2>3. CASE U = {}
    <3>1. Total(w, U) = 0
      BY <2>1, <2>3, TotalStep
    <3> QED
      BY <3>1
  <2> QED
    BY <2>2, <2>3
<1>2. SUBSET T \subseteq C
  <2> HIDE DEF C
  <2> QED
    BY <1>1, SubsetInduction
<1> QED
  BY <1>2

\* The order of the summands does not matter: any of them can be taken first.
LEMMA TotalWithout ==
  ASSUME NEW T, IsFiniteSet(T), NEW w, \A x \in T : w[x] \in Int, NEW y \in T
  PROVE  Total(w, T) = w[y] + Total(w, T \ {y})
<1> DEFINE C == {U \in SUBSET T : \A z \in U : Total(w, U) = w[z] + Total(w, U \ {z})}
<1>1. ASSUME NEW U \in SUBSET T, \A V \in SUBSET U : V # U => V \in C  PROVE U \in C
  <2> SUFFICES ASSUME NEW z \in U  PROVE Total(w, U) = w[z] + Total(w, U \ {z})
    OBVIOUS
  <2>1. IsFiniteSet(U) /\ SomeOf(U) \in U
    BY FS_Subset, AnyIsIn
  <2> PICK x : x = SomeOf(U)
    OBVIOUS
  <2>2. Total(w, U) = w[x] + Total(w, U \ {x})
    BY <2>1, TotalStep
  <2>3. CASE x = z
    BY <2>2, <2>3
  <2>4. CASE x # z
    <3>1. Total(w, U \ {x}) = w[z] + Total(w, (U \ {x}) \ {z})
      BY <1>1, <2>1, <2>4
    <3>2. Total(w, U \ {z}) = w[x] + Total(w, (U \ {z}) \ {x})
      BY <1>1, <2>1, <2>4
    <3>3. (U \ {x}) \ {z} = (U \ {z}) \ {x}
      OBVIOUS
    <3>4. w[x] \in Int /\ w[z] \in Int /\ Total(w, (U \ {z}) \ {x}) \in Int
      <4>1. PICK V : V = (U \ {z}) \ {x}
        OBVIOUS
      <4>2. V \in SUBSET T /\ IsFiniteSet(V)
        BY <4>1, FS_Subset
      <4>3. Total(w, V) \in Int
        BY <4>2, TotalIsInt
      <4> QED
        BY <2>1, <4>1, <4>3
    <3>5. Total(w, U \ {x}) = w[z] + Total(w, (U \ {z}) \ {x})
      BY <3>1, <3>3
    <3> QED
      BY <2>2, <3>2, <3>4, <3>5
  <2> QED
    BY <2>3, <2>4
<1>2. SUBSET T \subseteq C
  <2> HIDE DEF C
  <2> QED
    BY <1>1, SubsetInduction
<1> QED
  BY <1>2

\* The sum depends on the summands only.
LEMMA TotalOfSame ==
  ASSUME NEW T, IsFiniteSet(T), NEW w, NEW v, \A x \in T : w[x] = v[x]
  PROVE  Total(w, T) = Total(v, T)
<1>1. PICK g, h : SumsUp(g, w, T) /\ SumsUp(h, v, T)
  BY SumsExist
<1>2. g[T] = h[T]
  BY <1>1, SumsAgree
<1>3. g[T] = Total(w, T) /\ h[T] = Total(v, T)
  BY <1>1, TotalSums
<1> QED
  BY <1>2, <1>3

\* One summand changes.
LEMMA TotalChanges ==
  ASSUME NEW T, IsFiniteSet(T), NEW w, NEW v, \A x \in T : w[x] \in Int /\ v[x] \in Int,
         NEW y \in T, \A x \in T : x # y => w[x] = v[x]
  PROVE  Total(v, T) - Total(w, T) = v[y] - w[y]
<1>1. Total(w, T \ {y}) = Total(v, T \ {y}) /\ Total(w, T \ {y}) \in Int
  BY TotalOfSame, TotalIsInt, FS_Subset
<1>2. Total(w, T) = w[y] + Total(w, T \ {y}) /\ Total(v, T) = v[y] + Total(v, T \ {y})
  BY TotalWithout
<1> QED
  BY <1>1, <1>2

\* Some of the summands are dropped.
LEMMA TotalDrops ==
  ASSUME NEW T, IsFiniteSet(T), NEW w, NEW v, \A x \in T : w[x] \in Int,
         NEW E \in SUBSET T, \A x \in T : v[x] = IF x \in E THEN 0 ELSE w[x]
  PROVE  Total(v, T) - Total(w, T) = 0 - Total(w, E)
<1> DEFINE without(U) == [x \in T |-> IF x \in U THEN 0 ELSE w[x]]
           C == {U \in SUBSET E : Total(without(U), T) - Total(w, T) = 0 - Total(w, U)}
<1>0. ASSUME NEW U \in SUBSET T
      PROVE  \A x \in T : without(U)[x] \in Int /\ without(U)[x] = IF x \in U THEN 0 ELSE w[x]
  OBVIOUS
<1>1. ASSUME NEW U \in SUBSET E, \A V \in SUBSET U : V # U => V \in C  PROVE U \in C
  <2>1. IsFiniteSet(U) /\ U \in SUBSET T
    BY FS_Subset
  <2>2. CASE U = {}
    <3>1. Total(without(U), T) = Total(w, T)
      <4>1. \A x \in T : without(U)[x] = w[x]
        BY <2>2
      <4> HIDE DEF without
      <4> QED
        BY <4>1, TotalOfSame
    <3>2. Total(w, U) = 0 /\ Total(w, T) \in Int
      BY <2>1, <2>2, TotalStep, TotalIsInt
    <3> QED
      BY <3>1, <3>2
  <2>3. CASE U # {}
    <3>1. PICK y : y \in U
      BY <2>3
    <3>2. PICK V : V = U \ {y}
      OBVIOUS
    <3>3. Total(without(V), T) - Total(w, T) = 0 - Total(w, V)
      BY <1>1, <3>1, <3>2
    <3>4. Total(without(U), T) - Total(without(V), T) = 0 - w[y]
      <4>1. /\ \A x \in T : without(V)[x] \in Int /\ without(U)[x] \in Int
            /\ \A x \in T : x # y => without(V)[x] = without(U)[x]
            /\ without(V)[y] = w[y] /\ without(U)[y] = 0 /\ y \in T
        BY <1>0, <2>1, <3>1, <3>2
      <4> HIDE DEF without
      <4>2. Total(without(U), T) - Total(without(V), T) = without(U)[y] - without(V)[y]
        BY <4>1, TotalChanges
      <4> QED
        BY <4>1, <4>2
    <3>5. Total(w, U) = w[y] + Total(w, V)
      BY <2>1, <3>1, <3>2, TotalWithout
    <3>6. /\ Total(without(U), T) \in Int /\ Total(without(V), T) \in Int
          /\ Total(w, T) \in Int /\ Total(w, V) \in Int /\ w[y] \in Int
      <4>1. \A x \in T : without(V)[x] \in Int /\ without(U)[x] \in Int
        BY <1>0, <2>1, <3>2
      <4> HIDE DEF without
      <4> QED
        BY <2>1, <3>1, <3>2, <4>1, TotalIsInt, FS_Subset
    <3>7. Total(without(U), T) - Total(w, T) = 0 - Total(w, U)
      <4> HIDE DEF without
      <4> QED
        BY <3>3, <3>4, <3>5, <3>6
    <3> QED
      BY <3>7
  <2> QED
    BY <2>2, <2>3
<1>2. SUBSET E \subseteq C
  <2>1. IsFiniteSet(E)
    BY FS_Subset
  <2> HIDE DEF C
  <2> QED
    BY <1>1, <2>1, SubsetInduction
<1>3. Total(without(E), T) = Total(v, T)
  <2>1. \A x \in T : without(E)[x] = v[x]
    OBVIOUS
  <2> HIDE DEF without
  <2> QED
    BY <2>1, TotalOfSame
<1> QED
  BY <1>2, <1>3
-----------------------------------------------------------------------------
\* The size of what is staged for each path: 0 where nothing is.
Weights == [p \in Paths |-> StagedSize(p)]

LEMMA WeightsAreInt == TypeOK => \A p \in Paths : StagedSize(p) \in Int /\ Weights[p] = StagedSize(p)
BY DEF TypeOK, StagedSize, Weights, Entry, Version

\* Before a step and after it, the size of the area is the sum of these.
SizeIsTheTotal == SizeOf(Paths) = Total(Weights, Paths)

LEMMA SizesAreTotals == SizeIsTheTotal
BY SizeIsTotal DEF Weights, SizeIsTheTotal

LEMMA SizesStayTotals == SizeIsTheTotal'
BY SizesAreTotals, PTL

\* The account of a step that changes what is staged for one path.
LEMMA OnePathChanges ==
  ASSUME TypeOK, TypeOK', NEW p \in Paths,
         \A q \in Paths : q # p => StagedSize(q)' = StagedSize(q)
  PROVE  SizeOf(Paths)' - SizeOf(Paths) = StagedSize(p)' - StagedSize(p)
<1>1. \A q \in Paths : StagedSize(q) \in Int /\ Weights[q] = StagedSize(q)
  BY WeightsAreInt
<1>2. \A q \in Paths : StagedSize(q)' \in Int /\ Weights'[q] = StagedSize(q)'
  BY DEF TypeOK, StagedSize, Weights, Entry, Version
<1>3. SizeOf(Paths)' = Total(Weights', Paths)
  BY SizesStayTotals DEF SizeIsTheTotal
<1> PICK w, v : w = Weights /\ v = Weights'
  OBVIOUS
<1>4. Total(v, Paths) - Total(w, Paths) = v[p] - w[p]
  BY <1>1, <1>2, VFSAssumption, TotalChanges
<1> QED
  BY <1>1, <1>2, <1>3, <1>4, SizesAreTotals DEF SizeIsTheTotal

\* The account of a step that keeps every size.
LEMMA NoPathChanges ==
  ASSUME \A q \in Paths : StagedSize(q)' = StagedSize(q)
  PROVE  SizeOf(Paths)' = SizeOf(Paths)
<1>1. Weights' = Weights
  BY DEF Weights
<1>2. SizeOf(Paths)' = Total(Weights', Paths)
  BY SizesStayTotals DEF SizeIsTheTotal
<1> QED
  BY <1>1, <1>2, SizesAreTotals DEF SizeIsTheTotal

\* What the account of a step needs to know of the state it starts in.
AccountInv == VFSInv /\ totalStagedSize \in Int

\* The total moves by what the size of the area moves.
Accounted == totalStagedSize' - totalStagedSize = SizeOf(Paths)' - SizeOf(Paths)

\* The size of a replaced entry is given back before the new one is charged.
LEMMA StageAccount ==
  ASSUME AccountInv, VFSInv', NEW u \in Users, NEW p \in Paths, NEW s \in Sizes, Stage(u, p, s)
  PROVE  totalStagedSize' \in Int /\ Accounted
<1>1. TypeOK /\ TypeOK' /\ s \in Int /\ StagedSize(p) \in Int
  BY WeightsAreInt, VFSAssumption DEF AccountInv, VFSInv
<1>2. StagedSize(p)' = s /\ \A q \in Paths : q # p => StagedSize(q)' = StagedSize(q)
  <2> PICK e : e = FreshEntry(u, p, s)
    OBVIOUS
  <2>1. \A q \in Paths : staging'[q] = IF q = p THEN e ELSE staging[q]
    BY <1>1 DEF Stage, TypeOK
  <2>2. e.status = "pending_review" /\ e.ver.size = s
    BY DEF FreshEntry
  <2>3. e # NotStaged
    BY <2>2
  <2> QED
    BY <2>1, <2>2, <2>3 DEF StagedSize
<1>3. totalStagedSize' = totalStagedSize - StagedSize(p) + s
  BY DEF Stage, TotalWith
<1>4. SizeOf(Paths)' - SizeOf(Paths) = s - StagedSize(p)
  BY <1>1, <1>2, OnePathChanges
<1> QED
  BY <1>1, <1>3, <1>4 DEF AccountInv, Accounted

\* The path's entry is dropped and charged at its own size.
LEMMA DropAccount ==
  ASSUME AccountInv, VFSInv', NEW p \in Paths, staging[p] # NotStaged,
         totalStagedSize' = totalStagedSize - staging[p].ver.size,
         staging' = [staging EXCEPT ![p] = NotStaged]
  PROVE  totalStagedSize' \in Int /\ Accounted
<1>1. TypeOK /\ TypeOK' /\ StagedSize(p) \in Int /\ StagedSize(p) = staging[p].ver.size
  BY WeightsAreInt DEF AccountInv, VFSInv, StagedSize
<1>2. StagedSize(p)' = 0 /\ \A q \in Paths : q # p => StagedSize(q)' = StagedSize(q)
  BY <1>1 DEF StagedSize, TypeOK
<1>3. SizeOf(Paths)' - SizeOf(Paths) = 0 - StagedSize(p)
  BY <1>1, <1>2, OnePathChanges
<1> QED
  BY <1>1, <1>3 DEF AccountInv, Accounted

\* The sizes stay, and so does the total.
LEMMA SameAccount ==
  ASSUME AccountInv, UNCHANGED totalStagedSize, \A q \in Paths : StagedSize(q)' = StagedSize(q)
  PROVE  totalStagedSize' \in Int /\ Accounted
<1>1. SizeOf(Paths)' = SizeOf(Paths) /\ SizeOf(Paths) \in Int
  <2>1. \A q \in Paths : Weights[q] \in Int
    BY WeightsAreInt DEF AccountInv, VFSInv
  <2> QED
    BY <2>1, NoPathChanges, SizesAreTotals, TotalIsInt, VFSAssumption DEF SizeIsTheTotal
<1> QED
  BY <1>1 DEF AccountInv, Accounted

\* An approval leaves the entry at the path, and its version.
LEMMA ApproveAccount ==
  ASSUME AccountInv, NEW r \in Requests, NEW u \in Users, NEW p \in Paths, ApproveFile(r, u, p)
  PROVE  totalStagedSize' \in Int /\ Accounted
<1>1. /\ UNCHANGED totalStagedSize /\ staging \in [Paths -> {NotStaged} \cup Entry]
      /\ staging' = [staging EXCEPT ![p].status = "approved"] /\ staging[p] # NotStaged
  BY DEF ApproveFile, OwnedBy, AccountInv, VFSInv, TypeOK
<1>2. PICK e : e = [staging[p] EXCEPT !.status = "approved"]
  OBVIOUS
<1>3. staging[p] \in Entry
  BY <1>1
<1>4. e.ver = staging[p].ver /\ e # NotStaged
  <2>1. PICK x : x = staging[p]
    OBVIOUS
  <2>2. x \in [status : {"pending_review", "approved"}, ver : Version] /\ e = [x EXCEPT !.status = "approved"]
    BY <1>2, <1>3, <2>1 DEF Entry
  <2>3. e.status = "approved" /\ e.ver = x.ver
    BY <2>2
  <2>4. e # NotStaged
    BY <2>3
  <2> QED
    BY <2>1, <2>3, <2>4
<1>5. \A q \in Paths : staging'[q] = IF q = p THEN e ELSE staging[q]
  BY <1>1, <1>2
<1>6. \A q \in Paths : StagedSize(q)' = StagedSize(q)
  BY <1>1, <1>4, <1>5 DEF StagedSize
<1> QED
  BY <1>1, <1>6, SameAccount

\* The end of a commit gives back the version it wrote: that is the size of the
\* entry it drops, unless the entry was superseded.
LEMMA FinishAccount ==
  ASSUME AccountInv, VFSInv', NEW r \in Requests, FinishCommit(r)
  PROVE  totalStagedSize' \in Int /\ (~Superseded(r) => Accounted)
<1>1. req[r] \in Handler /\ req[r].path \in Paths /\ req[r].ver \in Version
  <2>1. req[r] \in {Idle} \cup Handler /\ req[r].pc = "written"
    BY DEF FinishCommit, AccountInv, VFSInv, TypeOK
  <2>2. req[r] \in Handler
    BY <2>1
  <2> QED
    BY <2>2 DEF Handler
<1>2. totalStagedSize' \in Int
  BY <1>1 DEF FinishCommit, AccountInv, Version
<1>3. ~Superseded(r) => Accounted
  BY <1>1, DropAccount DEF FinishCommit, Superseded
<1> QED
  BY <1>2, <1>3

\* The cleanup gives back the sum of the sizes of what it drops.
LEMMA ExpiryAccount ==
  ASSUME AccountInv, VFSInv', ClearExpired
  PROVE  totalStagedSize' \in Int /\ Accounted
<1>1. PICK E \in SUBSET Paths :
        /\ totalStagedSize' = totalStagedSize - SizeOf(E)
        /\ staging' = [p \in Paths |-> IF p \in E THEN NotStaged ELSE staging[p]]
  BY DEF ClearExpired, StagedPaths
<1>2. \A p \in Paths : StagedSize(p) \in Int /\ Weights[p] = StagedSize(p)
  BY WeightsAreInt DEF AccountInv, VFSInv
<1>3. \A p \in Paths : Weights'[p] = IF p \in E THEN 0 ELSE Weights[p]
  BY <1>1, <1>2 DEF Weights, StagedSize
<1>4. SizeOf(Paths)' = Total(Weights', Paths)
  BY SizesStayTotals DEF SizeIsTheTotal
<1>5. SizeOf(E) = Total(Weights, E) /\ SizeOf(Paths) = Total(Weights, Paths)
  BY SizeIsTotal, SizesAreTotals DEF Weights, SizeIsTheTotal
<1> PICK w, v : w = Weights /\ v = Weights'
  OBVIOUS
<1>6. Total(v, Paths) - Total(w, Paths) = 0 - Total(w, E)
  BY <1>2, <1>3, VFSAssumption, TotalDrops
<1>7. IsFiniteSet(E) /\ \A p \in E : w[p] \in Int
  BY <1>2, VFSAssumption, FS_Subset
<1>8. Total(w, E) \in Int
  BY <1>7, TotalIsInt
<1> QED
  BY <1>1, <1>4, <1>5, <1>6, <1>8 DEF AccountInv, Accounted

\* Every step keeps the account, but the end of a commit on a superseded entry.
LEMMA AccountStep ==
  ASSUME AccountInv, [Next]_vars
  PROVE  /\ AccountInv'
         /\ (\A r \in Requests : Superseded(r) => req'[r] = req[r]) => Accounted
<1>1. VFSInv'
  BY NextInv DEF AccountInv
<1>2. CASE \E u \in Users, p \in Paths, s \in Sizes : Stage(u, p, s)
  BY <1>1, <1>2, StageAccount DEF AccountInv
<1>3. ASSUME NEW u \in Users, NEW p \in Paths, RejectFile(u, p)
      PROVE  totalStagedSize' \in Int /\ Accounted
  BY <1>1, <1>3, DropAccount DEF RejectFile, OwnedBy
<1>4. CASE \E r \in Requests, u \in Users, p \in Paths : ApproveFile(r, u, p)
  BY <1>1, <1>4, ApproveAccount DEF AccountInv
<1>5. ASSUME UNCHANGED <<staging, totalStagedSize>>  PROVE totalStagedSize' \in Int /\ Accounted
  <2>1. \A q \in Paths : StagedSize(q)' = StagedSize(q)
    BY <1>5 DEF StagedSize
  <2> QED
    BY <1>5, <2>1, SameAccount
<1>6. ASSUME NEW r \in Requests, FinishCommit(r)
      PROVE  /\ totalStagedSize' \in Int
             /\ (\A x \in Requests : Superseded(x) => req'[x] = req[x]) => Accounted
  <2>1. req'[r] # req[r]
    <3>1. req'[r] = Idle /\ req[r].pc = "written"
      BY <1>6 DEF FinishCommit, AccountInv, VFSInv, TypeOK
    <3> QED
      BY <3>1
  <2> QED
    BY <1>1, <1>6, <2>1, FinishAccount
<1>7. CASE \E r \in Requests : HandlerStep(r)
  <2>1. PICK r \in Requests : HandlerStep(r)
    BY <1>7
  <2>2. CASE FinishCommit(r)
    BY <1>1, <1>6, <2>2 DEF AccountInv
  <2>3. CASE ~FinishCommit(r)
    <3>1. UNCHANGED <<staging, totalStagedSize>>
      BY <2>1, <2>3 DEF HandlerStep, StartCommit, RefuseCommit, OpenFile, WriteFile, CommitFails
    <3> QED
      BY <1>1, <1>5, <3>1 DEF AccountInv
  <2> QED
    BY <2>2, <2>3
<1>8. CASE ClearExpired
  BY <1>1, <1>8, ExpiryAccount DEF AccountInv
<1>9. CASE UNCHANGED vars
  BY <1>1, <1>5, <1>9 DEF AccountInv, vars
<1> QED
  BY <1>1, <1>2, <1>3, <1>4, <1>7, <1>8, <1>9 DEF Next, AccountInv

\* The total of the staging area follows the sizes of what is staged, through every
\* step but the one that finishes a commit on an entry it did not write.
THEOREM AccountIsExact == Spec => AccountingExact
<1>1. Init => AccountInv
  BY InitInv DEF Init, AccountInv
<1>2. AccountInv /\ [Next]_vars => AccountInv'
  BY AccountStep
<1>3. AccountInv /\ [Next]_vars
        => [(\A r \in Requests : Superseded(r) => req'[r] = req[r])
              => totalStagedSize' - totalStagedSize = SizeOf(Paths)' - SizeOf(Paths)]_vars
  BY AccountStep DEF Accounted
<1> QED
  BY <1>1, <1>2, <1>3, PTL DEF Spec, AccountingExact
=============================================================================
