--------------------------- MODULE WorkspaceSearch ---------------------------
(***************************************************************************)
(* grepSearch of the browser's workspace (vfs/container.js of the          *)
(* frontend): a walk of the directories that puts every entry through one  *)
(* queue with a bounded number of places (pLimit).  A directory keeps its  *)
(* place until all its entries are done, and they need places of their     *)
(* own.                                                                    *)
(***************************************************************************)
EXTENDS Naturals, Sequences, FiniteSets, SequencesExt

CONSTANTS
  Trees,       \* entry -> the directory it is in, for the workspaces searched
  Top,         \* the directory the search begins in
  Concurrency  \* the argument of pLimit

ASSUME SearchAssumption ==
  Concurrency \in Nat \ {0} /\ \A t \in Trees : IsFiniteSet(DOMAIN t)

VARIABLES
  tree,    \* the workspace
  queue,   \* entries that wait for a place
  entry    \* entry -> where it is

searchVars == <<tree, queue, entry>>

Found == DOMAIN tree
EntriesIn(d) == {e \in Found : tree[e] = d}
NonEmptyDirs == {d \in Found : EntriesIn(d) /= {}}
Places == {e \in Found : entry[e] \in {"active", "walked"}}
Over(d) == \A e \in EntriesIn(d) : entry[e] = "done"

SearchInit ==
  /\ tree \in Trees
  /\ queue = SetToSeq(EntriesIn(Top))
  /\ entry = [e \in Found |-> "none"]

\* next(): the first of the queue gets a place when one is free.
next ==
  /\ queue /= <<>>
  /\ Cardinality(Places) < Concurrency
  /\ entry' = [entry EXCEPT ![Head(queue)] = "active"]
  /\ queue' = Tail(queue)
  /\ UNCHANGED tree

\* A file is read, an entry is ignored, or a directory cannot be read.
EntryDone(e) ==
  /\ entry[e] = "active"
  /\ entry' = [entry EXCEPT ![e] = "done"]
  /\ UNCHANGED <<tree, queue>>

\* walk of a directory in a place: its entries join the queue.
walk(e) ==
  /\ entry[e] = "active" /\ EntriesIn(e) /= {}
  /\ entry' = [entry EXCEPT ![e] = "walked"]
  /\ queue' = queue \o SetToSeq(EntriesIn(e))
  /\ UNCHANGED tree

WalkDone(e) ==
  /\ entry[e] = "walked" /\ Over(e)
  /\ entry' = [entry EXCEPT ![e] = "done"]
  /\ UNCHANGED <<tree, queue>>

SearchNext == next \/ \E e \in Found : EntryDone(e) \/ walk(e) \/ WalkDone(e)

SearchSpec == SearchInit /\ [][SearchNext]_searchVars /\ WF_searchVars(SearchNext)

-----------------------------------------------------------------------------
SearchTypeOK ==
  /\ tree \in Trees
  /\ queue \in Seq(Found)
  /\ entry \in [Found -> {"none", "active", "walked", "done"}]
  /\ Cardinality(Places) <= Concurrency

\* A search ends when the workspace has fewer directories with entries than the
\* queue has places.  With as many, they may take every place and wait for
\* their entries, which wait for a place.
SearchIsOver == Cardinality(NonEmptyDirs) < Concurrency => Over(Top)
SearchEnds == <>SearchIsOver
=============================================================================
