---------------------------- MODULE WorkspaceEdits ----------------------------
(***************************************************************************)
(* One file of the browser's workspace under the tools that read and       *)
(* change it (vfs/container.js of the frontend).  Tool requests are        *)
(* handled as they arrive: two of them overlap at every await of the file  *)
(* system and of the hash.  The snapshots of what was read belong to the   *)
(* workspace, not to an agent.                                             *)
(*                                                                         *)
(* A content is the set of the calls whose change it holds; equal contents *)
(* have equal hashes.                                                      *)
(***************************************************************************)
EXTENDS Naturals

CONSTANTS Edits   \* tool calls and commands that name the file

ASSUME EditsAssumption == "absent" \notin Edits

VARIABLES
  file,     \* what the file holds, or Absent
  known,    \* readSnapshots of the path: the content whose hash it has, or Absent
  edit,     \* call -> its tool, where it is, what it read and what the snapshot was
  landed,   \* history: the calls whose change was written
  raced     \* history: a change landed between the read and the write of a call

editVars == <<file, known, edit, landed, raced>>

Absent == {"absent"}
Tool == {"read_file", "edit_file", "create_file", "run_command"}

EditInit ==
  /\ file \in {Absent, {}}
  /\ known = Absent
  /\ \E tool \in [Edits -> Tool] :
       edit = [e \in Edits |-> [tool |-> tool[e], at |-> "new", base |-> Absent, seen |-> Absent]]
  /\ landed = {}
  /\ raced = FALSE

EditAt(e, tool, at) == edit[e].tool = tool /\ edit[e].at = at
EditGoes(e, at) == edit' = [edit EXCEPT ![e].at = at]
FailsEdit(e) == EditGoes(e, "failed") /\ UNCHANGED <<file, known, landed, raced>>

\* A change reaches the file while the calls of others are between their read
\* and their write.
Lands(e, content) ==
  /\ file' = content
  /\ landed' = landed \cup {e}
  /\ raced' = (raced \/ \E d \in Edits \ {e} : edit[d].at \in {"read", "fresh"})

-----------------------------------------------------------------------------
(* readFileWithLines: the snapshot is set after the hash was awaited. *)

readFileWithLines(e) ==
  /\ EditAt(e, "read_file", "new")
  /\ edit' = [edit EXCEPT ![e].at = IF file = Absent THEN "failed" ELSE "hashing",
                          ![e].base = file]
  /\ UNCHANGED <<file, known, landed, raced>>

setSnapshot(e) ==
  /\ edit[e].tool \in {"read_file", "edit_file"} /\ edit[e].at = "hashing"
  /\ known' = edit[e].base
  /\ EditGoes(e, "done")
  /\ UNCHANGED <<file, landed, raced>>

-----------------------------------------------------------------------------
(* assertFreshRead, and the edit: editFile, patchFile and                  *)
(* multiReplaceFileContent differ in how they find the text they replace.  *)

TakeSnapshot(e) ==
  /\ EditAt(e, "edit_file", "new")
  /\ IF known = Absent THEN EditGoes(e, "failed")
     ELSE edit' = [edit EXCEPT ![e].at = "asserting", ![e].seen = known]
  /\ UNCHANGED <<file, known, landed, raced>>

ReadCurrent(e) ==
  /\ EditAt(e, "edit_file", "asserting")
  /\ edit' = [edit EXCEPT ![e].at = IF file = Absent THEN "failed" ELSE "read", ![e].base = file]
  /\ UNCHANGED <<file, known, landed, raced>>

assertFreshRead(e) ==
  /\ EditAt(e, "edit_file", "read")
  /\ EditGoes(e, IF edit[e].base = edit[e].seen THEN "fresh" ELSE "failed")
  /\ UNCHANGED <<file, known, landed, raced>>

\* The text is not found, not unique, or its change is over the cap.
RejectEdit(e) ==
  /\ EditAt(e, "edit_file", "fresh")
  /\ FailsEdit(e)

\* Mutant: the edit is applied to what the snapshot was taken of
editFile_OfSnapshot(e) ==
  /\ EditAt(e, "edit_file", "asserting")
  /\ Lands(e, edit[e].seen \cup {e})
  /\ edit' = [edit EXCEPT ![e].at = "hashing", ![e].base = edit[e].seen \cup {e}]
  /\ UNCHANGED known

editFile(e) ==
  /\ EditAt(e, "edit_file", "fresh")
  /\ Lands(e, edit[e].base \cup {e})
  /\ edit' = [edit EXCEPT ![e].at = "hashing", ![e].base = @ \cup {e}]
  /\ UNCHANGED known

-----------------------------------------------------------------------------
\* createFile refuses a file that is there when it looks; the directory is made
\* before it writes.
createFile(e) ==
  /\ \/ /\ EditAt(e, "create_file", "new")
        /\ EditGoes(e, IF file = Absent THEN "read" ELSE "failed")
        /\ UNCHANGED <<file, landed, raced>>
     \/ /\ EditAt(e, "create_file", "read")
        /\ Lands(e, {e})
        /\ EditGoes(e, "done")
  /\ UNCHANGED known

\* A command, a dev server or a clone changes the file.
run_command(e) ==
  /\ EditAt(e, "run_command", "new")
  /\ file /= Absent
  /\ Lands(e, file \cup {e})
  /\ EditGoes(e, "done")
  /\ UNCHANGED known

EditNext ==
  \E e \in Edits :
    \/ readFileWithLines(e) \/ setSnapshot(e)
    \/ TakeSnapshot(e) \/ ReadCurrent(e) \/ assertFreshRead(e) \/ RejectEdit(e) \/ editFile(e)
    \/ createFile(e) \/ run_command(e)

EditSpec == EditInit /\ [][EditNext]_editVars

-----------------------------------------------------------------------------
EditTypeOK ==
  LET Content == (SUBSET Edits) \cup {Absent} IN
  /\ file \in Content /\ known \in Content
  /\ edit \in [Edits -> [tool : Tool, base : Content, seen : Content,
       at : {"new", "asserting", "read", "fresh", "hashing", "done", "failed"}]]
  /\ landed \subseteq Edits
  /\ raced \in BOOLEAN

\* No change is lost, whoever made it, unless another landed between the read
\* and the write of the call that overwrote it: a stale snapshot, a creation
\* of a file that is there and a command that changed the file in between are
\* all caught.  (Between those two moments nothing protects a change.)
LostOnlyInRaces == raced \/ landed = {} \/ landed = file
=============================================================================
