---------------------------- MODULE ApprovalGate ----------------------------
(***************************************************************************)
(* What the staging area promises, without how: files change only to bytes *)
(* of versions whose owners approved them for that file.  A file may hold  *)
(* bytes of several such versions when writers overlap, and none while it  *)
(* is truncated.                                                           *)
(***************************************************************************)
CONSTANTS Paths, Users
VARIABLES disk, approvals

Init ==
  /\ disk = [p \in Paths |-> {}]
  /\ approvals = {}

\* A version approved for path p by the user it was staged for
Approved(p, v) == v.path = p /\ [ver |-> v, by |-> v.owner] \in approvals

\* Some user approves a version of his own.
Approve ==
  /\ \E a \in approvals' :
       /\ a.by \in Users /\ a.ver.owner = a.by
       /\ approvals' = approvals \cup {a}
  /\ UNCHANGED disk

\* A file's bytes are truncated, overwritten or completed.
Write(p) ==
  /\ \A v \in disk'[p] : v \in disk[p] \/ Approved(p, v)
  /\ disk' = [disk EXCEPT ![p] = disk'[p]]
  /\ UNCHANGED approvals

Next == Approve \/ \E p \in Paths : Write(p)

Spec == Init /\ [][Next]_<<disk, approvals>>
=============================================================================
