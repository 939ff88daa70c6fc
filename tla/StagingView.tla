----------------------------- MODULE StagingView -----------------------------
(***************************************************************************)
(* The review of staged files in one browser (store/useVfsStore.js of the  *)
(* frontend) over the staging area of the backend (VFSContainer).          *)
(*                                                                         *)
(* A coding run sends what is staged while it runs, whoever staged it, to  *)
(* the socket its request named (orchestrator/router.js): the browser has  *)
(* the message of no run, of one, or of two that run at once.  The socket  *)
(* keeps the order.  The user answers what the view shows with a POST that *)
(* names the path; other browsers of the user are left out.                *)
(***************************************************************************)
EXTENDS VFSContainer, Sequences

CONSTANT Viewer   \* the user of the browser

ASSUME ViewerAssumption == Viewer \in Users

VARIABLES
  inbox,    \* file_staged messages on their way to the browser
  active,   \* activeDiff: the version on view, or NoDiff
  pending,  \* the versions of pendingFiles
  fetched,  \* the answers of GET /api/fs/pending on their way: at most one
  post,     \* request -> the version on view when it was sent, and its answer
  shown     \* history: the versions that were ever on view

viewVars == <<inbox, active, pending, fetched, post, shown>>

NoDiff == [id |-> 0]
NoPost == [at |-> "none"]

ViewInit ==
  /\ Init
  /\ inbox = <<>>
  /\ active = NoDiff
  /\ pending = {}
  /\ fetched = <<>>
  /\ post = [r \in Requests |-> NoPost]
  /\ shown = {}

Answer(r, a) == post' = [post EXCEPT ![r].at = a]

-----------------------------------------------------------------------------
Staged(u, p, s) == [id |-> nextId, path |-> p, owner |-> u, size |-> s]

\* Mutant: stage() emits file_staged before it looks at its limits
StageAndSend_Early(u, p, s) ==
  /\ \/ Stage(u, p, s)
     \/ /\ nextId <= MaxVersions /\ s > MaxFileSize
        /\ nextId' = nextId + 1
        /\ UNCHANGED <<staging, totalStagedSize, disk, req, approvals>>
  /\ \E copies \in 0..2 : inbox' = inbox \o [i \in 1..copies |-> Staged(u, p, s)]
  /\ UNCHANGED <<active, pending, fetched, post, shown>>

\* An agent stages a version, and the runs that name this socket send it.
StageAndSend(u, p, s) ==
  /\ Stage(u, p, s)
  /\ \E copies \in 0..2 : inbox' = inbox \o [i \in 1..copies |-> Staged(u, p, s)]
  /\ UNCHANGED <<active, pending, fetched, post, shown>>

\* The socket is down, or its five attempts to reconnect are spent.
MessagesLost ==
  /\ inbox # <<>>
  /\ inbox' = <<>>
  /\ UNCHANGED <<vars, active, pending, fetched, post, shown>>

\* The message that arrives takes the place of whatever is on view.
stageProposedChanges ==
  /\ inbox # <<>>
  /\ inbox' = Tail(inbox)
  /\ active' = Head(inbox)
  /\ pending' = pending \cup {Head(inbox)}
  /\ shown' = shown \cup {Head(inbox)}
  /\ UNCHANGED <<vars, fetched, post>>

\* commitToPhysicalDisk and discardChanges, as far as their await.
Respond(r, approved) ==
  /\ active # NoDiff
  /\ post[r] = NoPost
  /\ post' = [post EXCEPT ![r] = [at |-> "sent", ver |-> active, approved |-> approved]]
  /\ UNCHANGED <<vars, inbox, active, pending, fetched, shown>>

\* handleCommitRequest of the backend, which is told the path alone.
HandleApproval(r) ==
  /\ post[r].at = "sent" /\ post[r].approved
  /\ \/ ApproveFile(r, Viewer, post[r].ver.path) /\ Answer(r, "handling")
     \/ ~OwnedBy(post[r].ver.path, Viewer) /\ Answer(r, "error") /\ UNCHANGED vars
  /\ UNCHANGED <<inbox, active, pending, fetched, shown>>

HandleRejection(r) ==
  /\ post[r].at = "sent" /\ ~post[r].approved
  /\ \/ RejectFile(Viewer, post[r].ver.path) /\ Answer(r, "ok")
     \/ ~OwnedBy(post[r].ver.path, Viewer) /\ Answer(r, "error") /\ UNCHANGED vars
  /\ UNCHANGED <<inbox, active, pending, fetched, shown>>

HandlerGoesOn(r) ==
  /\ \/ (StartCommit(r) \/ OpenFile(r) \/ WriteFile(r)) /\ UNCHANGED post
     \/ FinishCommit(r) /\ Answer(r, "ok")
     \/ (RefuseCommit(r) \/ CommitFails(r)) /\ Answer(r, "error")
  /\ UNCHANGED <<inbox, active, pending, fetched, shown>>

\* The view is cleared, whatever it shows by now, and every entry of the path
\* goes, the newer ones too.
Responded(r) ==
  /\ post[r].at = "ok"
  /\ active' = NoDiff
  /\ pending' = {v \in pending : v.path # post[r].ver.path}
  /\ post' = [post EXCEPT ![r] = NoPost]
  /\ UNCHANGED <<vars, inbox, fetched, shown>>

\* The backend refused, or its answer was lost: the view stays as it is.
RespondFails(r) ==
  /\ post[r].at \in {"ok", "error"}
  /\ post' = [post EXCEPT ![r] = NoPost]
  /\ UNCHANGED <<vars, inbox, active, pending, fetched, shown>>

\* handleGetPendingFiles, and fetchPendingFiles after its await.
handleGetPendingFiles ==
  /\ fetched = <<>>
  /\ fetched' = <<{staging[p].ver : p \in {q \in StagedPaths :
                    staging[q].status = "pending_review" /\ OwnedBy(q, Viewer)}}>>
  /\ UNCHANGED <<vars, inbox, active, pending, post, shown>>

fetchPendingFiles ==
  /\ fetched # <<>>
  /\ pending' = Head(fetched)
  /\ fetched' = <<>>
  /\ UNCHANGED <<vars, inbox, active, post, shown>>

ViewNext ==
  \/ \E u \in Users, p \in Paths, s \in Sizes : StageAndSend(u, p, s)
  \/ MessagesLost
  \/ stageProposedChanges
  \/ \E r \in Requests :
       \/ \E approved \in BOOLEAN : Respond(r, approved)
       \/ HandleApproval(r)
       \/ HandleRejection(r)
       \/ HandlerGoesOn(r)
       \/ Responded(r)
       \/ RespondFails(r)
  \/ ClearExpired /\ UNCHANGED viewVars
  \/ handleGetPendingFiles
  \/ fetchPendingFiles

ViewSpec == ViewInit /\ [][ViewNext]_<<vars, viewVars>>

-----------------------------------------------------------------------------
ViewTypeOK ==
  /\ TypeOK
  /\ inbox \in Seq(Version)
  /\ active \in Version \cup {NoDiff}
  /\ pending \subseteq Version
  /\ fetched \in Seq(SUBSET Version)
  /\ shown \subseteq Version
  /\ \A r \in Requests : \/ post[r] = NoPost
                         \/ /\ post[r].at \in {"sent", "handling", "ok", "error"}
                            /\ post[r].ver \in shown

\* useVfsStore.js: the "User must approve changes via DiffViewer before
\* physical commit".  So what the user approved has been on view.
ApprovedIsShown == \A a \in approvals : a.by = Viewer => a.ver \in shown

\* What an approval of this browser writes is never older than the version the
\* user had on view: a version that was replaced before the click is not
\* brought back by requests, messages and expirations that overlap.
NeverOlderThanShown ==
  \A r \in Requests : req[r] # Idle => req[r].ver.id >= post[r].ver.id
=============================================================================
