---------------------------- MODULE VFSContainer ----------------------------
(***************************************************************************)
(* The approval-gated staging area of the backend (vfs/container.js) and   *)
(* the HTTP handler that drives it (handleCommitRequest of                 *)
(* orchestrator/router.js).                                                *)
(*                                                                         *)
(* Agents stage versions of files; the owner of a staged version rejects   *)
(* it, or approves it and has it written.  Every method of the container   *)
(* is synchronous except commitToDisk, which awaits mkdir and writeFile    *)
(* between the check of the entry and the removal of it: requests overlap  *)
(* there, and agents stage meanwhile.  A version stands for the object     *)
(* that stage() puts in the map: its content is never changed, so its id   *)
(* is its content.                                                         *)
(***************************************************************************)
EXTENDS Integers, FiniteSets, FiniteSetsExt

CONSTANTS
  Paths,         \* paths that pass isPathIgnored and _validatePath
  Users,         \* identities that own staged files
  Requests,      \* POST /api/fs/commit requests that can be in progress at once
  Sizes,         \* byte lengths of the contents agents propose
  MaxFileSize,   \* options.maxFileSize
  MaxTotalSize,  \* options.maxTotalSize
  MaxFiles,      \* options.maxFiles
  MaxVersions    \* bound of the model: versions staged in one behaviour

ASSUME VFSAssumption ==
  /\ Sizes \subseteq Nat
  /\ MaxFileSize \in Nat
  /\ MaxTotalSize \in Nat
  /\ MaxFiles \in Nat
  /\ MaxVersions \in Nat
  /\ IsFiniteSet(Paths)

VARIABLES
  staging,          \* this.staging: path -> entry, or NotStaged
  totalStagedSize,  \* this.totalStagedSize
  disk,             \* path -> versions whose bytes the file holds (none: the original file)
  req,              \* request -> where its handler is suspended
  nextId,           \* history: id of the next version staged
  approvals         \* history: which user approved which version

vars == <<staging, totalStagedSize, disk, req, nextId, approvals>>

Version == [id : Nat, path : Paths, owner : Users, size : Nat]
NotStaged == [status |-> "not_staged"]
Entry == [status : {"pending_review", "approved"}, ver : Version]
Idle == [pc |-> "idle"]
Handler == [pc : {"approved", "mkdir", "opened", "written"},
            user : Users, path : Paths, ver : Version]

StagedPaths == {p \in Paths : staging[p] # NotStaged}
StagedSize(p) == IF staging[p] = NotStaged THEN 0 ELSE staging[p].ver.size
SizeOf(ps) == MapThenSumSet(StagedSize, ps)
Approval(v) == [ver |-> v, by |-> v.owner]

\* authorizeVfsEntry, then _requireStagedEntry and _assertEntryOwner
OwnedBy(p, u) == staging[p] # NotStaged /\ staging[p].ver.owner = u

\* totalStagedSize is left to AccountingExact: it follows a sum of integers.
TypeOK ==
  /\ staging \in [Paths -> {NotStaged} \cup Entry]
  /\ disk \in [Paths -> SUBSET Version]
  /\ req \in [Requests -> {Idle} \cup Handler]
  /\ nextId \in Nat
  /\ approvals \subseteq [ver : Version, by : Users]

Init ==
  /\ staging = [p \in Paths |-> NotStaged]
  /\ totalStagedSize = 0
  /\ disk = [p \in Paths |-> {}]
  /\ req = [r \in Requests |-> Idle]
  /\ nextId = 1
  /\ approvals = {}

\* Mutants: the entry object is reused and keeps its status; the size of the
\* replaced entry is not given back
FreshEntry_KeepsStatus(u, p, s) ==
  [status |-> IF staging[p] = NotStaged THEN "pending_review" ELSE staging[p].status,
   ver |-> [id |-> nextId, path |-> p, owner |-> u, size |-> s]]
TotalWith_ChargesTwice(p, s) == totalStagedSize + s

FreshEntry(u, p, s) ==
  [status |-> "pending_review",
   ver |-> [id |-> nextId, path |-> p, owner |-> u, size |-> s]]
TotalWith(p, s) == totalStagedSize - StagedSize(p) + s
HasRoom(p) == staging[p] = NotStaged => Cardinality(StagedPaths) < MaxFiles

\* stage() past its three limits: a fresh entry replaces the one at the path
Stage(u, p, s) ==
  /\ nextId <= MaxVersions
  /\ s <= MaxFileSize
  /\ TotalWith(p, s) <= MaxTotalSize
  /\ HasRoom(p)
  /\ staging' = [staging EXCEPT ![p] = FreshEntry(u, p, s)]
  /\ totalStagedSize' = TotalWith(p, s)
  /\ nextId' = nextId + 1
  /\ UNCHANGED <<disk, req, approvals>>

\* Mutant: the rejected entry stays in the map
RejectFile_Keeps(u, p) ==
  /\ OwnedBy(p, u)
  /\ totalStagedSize' = totalStagedSize - staging[p].ver.size
  /\ staging' = [staging EXCEPT ![p].status = "rejected"]
  /\ UNCHANGED <<disk, req, nextId, approvals>>

\* A commit request with approved = false
RejectFile(u, p) ==
  /\ OwnedBy(p, u)
  /\ totalStagedSize' = totalStagedSize - staging[p].ver.size
  /\ staging' = [staging EXCEPT ![p] = NotStaged]
  /\ UNCHANGED <<disk, req, nextId, approvals>>

\* A commit request with approved = true, up to the await of approveFile
ApproveFile(r, u, p) ==
  /\ req[r] = Idle
  /\ OwnedBy(p, u)
  /\ staging' = [staging EXCEPT ![p].status = "approved"]
  /\ approvals' = approvals \cup {[ver |-> staging[p].ver, by |-> u]}
  /\ req' = [req EXCEPT ![r] = [pc |-> "approved", user |-> u, path |-> p,
                                ver |-> staging[p].ver]]
  /\ UNCHANGED <<totalStagedSize, disk, nextId>>

\* Mutant: commitToDisk does not look at the status
MayCommit_AnyStatus(r) == OwnedBy(req[r].path, req[r].user)

\* commitToDisk up to the await of mkdir: it looks the entry up again
MayCommit(r) ==
  /\ OwnedBy(req[r].path, req[r].user)
  /\ staging[req[r].path].status = "approved"

StartCommit(r) ==
  /\ req[r].pc = "approved"
  /\ MayCommit(r)
  /\ req' = [req EXCEPT ![r].pc = "mkdir", ![r].ver = staging[req[r].path].ver]
  /\ UNCHANGED <<staging, totalStagedSize, disk, nextId, approvals>>

\* ... which throws when the entry is gone, another's, or staged anew
RefuseCommit(r) ==
  /\ req[r].pc = "approved"
  /\ ~MayCommit(r)
  /\ req' = [req EXCEPT ![r] = Idle]
  /\ UNCHANGED <<staging, totalStagedSize, disk, nextId, approvals>>

\* writeFile truncates the file as it opens it
OpenFile(r) ==
  /\ req[r].pc = "mkdir"
  /\ disk' = [disk EXCEPT ![req[r].path] = {}]
  /\ req' = [req EXCEPT ![r].pc = "opened"]
  /\ UNCHANGED <<staging, totalStagedSize, nextId, approvals>>

\* The bytes land.  Those of a writer that opened the file meanwhile are
\* overwritten or, when they are longer, survive beyond the end of these.
WriteFile(r) ==
  /\ req[r].pc = "opened"
  /\ \E bytes \in {{}, disk[req[r].path]} :
       disk' = [disk EXCEPT ![req[r].path] = bytes \cup {req[r].ver}]
  /\ req' = [req EXCEPT ![r].pc = "written"]
  /\ UNCHANGED <<staging, totalStagedSize, nextId, approvals>>

\* mkdir or writeFile rejects, possibly after some of the bytes were written:
\* the entry keeps its place
CommitFails(r) ==
  /\ \/ req[r].pc = "mkdir" /\ UNCHANGED disk
     \/ /\ req[r].pc = "opened"
        /\ \E bytes \in {{}, {req[r].ver}} :
             disk' = [disk EXCEPT ![req[r].path] = @ \cup bytes]
  /\ req' = [req EXCEPT ![r] = Idle]
  /\ UNCHANGED <<staging, totalStagedSize, nextId, approvals>>

\* commitToDisk after the await: it charges the version it wrote, and drops
\* whatever entry the path has by now
FinishCommit(r) ==
  /\ req[r].pc = "written"
  /\ totalStagedSize' = totalStagedSize - req[r].ver.size
  /\ staging' = [staging EXCEPT ![req[r].path] = NotStaged]
  /\ req' = [req EXCEPT ![r] = Idle]
  /\ UNCHANGED <<disk, nextId, approvals>>

\* The cleanup interval drops every entry staged before some moment.
ClearExpired ==
  \E last \in 1 .. MaxVersions :
    LET expired == {p \in StagedPaths : staging[p].ver.id <= last} IN
      /\ expired # {}
      /\ totalStagedSize' = totalStagedSize - SizeOf(expired)
      /\ staging' = [p \in Paths |-> IF p \in expired THEN NotStaged ELSE staging[p]]
      /\ UNCHANGED <<disk, req, nextId, approvals>>

HandlerStep(r) ==
  \/ StartCommit(r)
  \/ RefuseCommit(r)
  \/ OpenFile(r)
  \/ WriteFile(r)
  \/ CommitFails(r)
  \/ FinishCommit(r)

Next ==
  \/ \E u \in Users, p \in Paths, s \in Sizes : Stage(u, p, s)
  \/ \E u \in Users, p \in Paths : RejectFile(u, p)
  \/ \E r \in Requests, u \in Users, p \in Paths : ApproveFile(r, u, p)
  \/ \E r \in Requests : HandlerStep(r)
  \/ ClearExpired

Spec == Init /\ [][Next]_vars
-----------------------------------------------------------------------------
(* Safety. *)

\* Whatever overlaps, a file never holds bytes that the owner of their version
\* did not approve for that very path (commitToDisk requires status "approved",
\* and stage() puts a replaced path back under review).
OnlyApprovedOnDisk ==
  \A p \in Paths : \A v \in disk[p] : v.path = p /\ Approval(v) \in approvals

\* Nobody approves a version staged for another user, although any user's agent
\* may replace the entry between two requests (_assertEntryOwner).
ApprovedByOwner == \A a \in approvals : a.by = a.ver.owner

\* The staging area never holds more files than maxFiles.
FileLimit == Cardinality(StagedPaths) <= MaxFiles

\* commitToDisk is about to remove an entry other than the one it wrote: the
\* path was rejected, expired, committed by another request or staged anew.
Superseded(r) ==
  /\ req[r].pc = "written"
  /\ staging[req[r].path] = NotStaged \/ staging[req[r].path].ver # req[r].ver

\* totalStagedSize follows the sizes of the staged entries through every step
\* but one: a commit that finishes on a superseded entry.  That overlap is the
\* only way the total can drift from what is staged.
AccountingExact ==
  [][ (\A r \in Requests : Superseded(r) => req'[r] = req[r])
      => totalStagedSize' - totalStagedSize
           = SizeOf(Paths)' - SizeOf(Paths) ]_vars

\* docs/04_AGENT_AND_DEVELOPER_RULEBOOK.md: the staging area is "designed to
\* hold changes until the human approves them".  So the end of one version's
\* commit does not remove another version that still waits for its review.
HeldUntilReviewed ==
  [][ \A r \in Requests :
        (Superseded(r) /\ req'[r] = Idle
         /\ staging[req[r].path].status = "pending_review")
        => staging'[req[r].path] # NotStaged ]_vars

\* vfs.test.js, "should enforce total staging size limit": what is staged never
\* outgrows maxTotalSize.
TotalSizeLimit == SizeOf(Paths) <= MaxTotalSize
-----------------------------------------------------------------------------
(* The abstract specification the container implements. *)
Gate == INSTANCE ApprovalGate WITH
          Paths <- Paths, Users <- Users, disk <- disk, approvals <- approvals
GateSpec == Gate!Spec
=============================================================================
