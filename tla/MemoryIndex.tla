---------------------------- MODULE MemoryIndex ----------------------------
(***************************************************************************)
(* The semantic index of a code base (memory/index-repo.js with            *)
(* semantic-index-registry.js, embeddings.js and the retriever of          *)
(* ast-graph.js), and the walks through its call graph (ast-graph.js).     *)
(*                                                                         *)
(* The indexer skips files it has recorded as unchanged.  The record knows *)
(* the content of a file but not the index version it was indexed for: a   *)
(* run for a new version leaves out what an earlier version holds.         *)
(***************************************************************************)
EXTENDS Naturals, FiniteSets, SequencesExt

CONSTANTS
  IndexFiles,       \* files of the code base
  IndexVersions,    \* versions of the index, "live" among them
  MaxSourceEdits,   \* bound: edits of a file
  MaxIndexRuns      \* bound: runs of the indexer

ASSUME LiveIsAVersion == "live" \in IndexVersions

VARIABLES
  sources,      \* file -> its content now, from 1
  hashed,       \* file -> the content recorded in .index-cache.db, or 0
  hashedFor,    \* history: file -> the version whose run recorded it
  embedded,     \* rows: file, content and version
  unembedded,   \* history: rows that failed
  indexer,      \* the run of the script
  indexRuns,    \* runs begun, up to MaxIndexRuns
  activeIndex   \* the version in semantic_index_registry

indexVars == <<sources, hashed, hashedFor, embedded, unembedded, indexer, indexRuns,
               activeIndex>>

NoFile == "none"

\* No file is called as the indexer says that it is at none.
ASSUME IndexAssumption == NoFile \notin IndexFiles /\ MaxSourceEdits \in Nat

NoRun == [at |-> "idle", version |-> "live", todo |-> {}, file |-> NoFile, content |-> 0]
Row(f, c, v) == [file |-> f, content |-> c, version |-> v]

IndexInit ==
  /\ sources = [f \in IndexFiles |-> 1]
  /\ hashed = [f \in IndexFiles |-> 0]
  /\ hashedFor = [f \in IndexFiles |-> "live"]
  /\ embedded = {} /\ unembedded = {}
  /\ indexer = NoRun /\ indexRuns = 0
  /\ activeIndex = "live"

EditSource(f) ==
  /\ sources[f] <= MaxSourceEdits
  /\ sources' = [sources EXCEPT ![f] = @ + 1]
  /\ UNCHANGED <<hashed, hashedFor, embedded, unembedded, indexer, indexRuns, activeIndex>>

IndexBegins(v) ==
  /\ indexer.at = "idle" /\ indexRuns < MaxIndexRuns
  /\ indexer' = [NoRun EXCEPT !.at = "walking", !.version = v, !.todo = IndexFiles]
  /\ indexRuns' = indexRuns + 1
  /\ UNCHANGED <<sources, hashed, hashedFor, embedded, unembedded, activeIndex>>

\* Mutant: the content is recorded before it is embedded
WhenRead_Recorded(f) == [hashed EXCEPT ![f] = sources[f]]
WhenRead(f) == hashed

\* A file that is recorded as unchanged, or cannot be parsed, is left out.
Considers(f) ==
  /\ indexer.at = "walking" /\ f \in indexer.todo
  /\ \/ indexer' = [indexer EXCEPT !.todo = @ \ {f}] /\ UNCHANGED <<hashed, hashedFor>>
     \/ /\ hashed[f] /= sources[f]
        /\ indexer' = [indexer EXCEPT !.at = "embedding", !.todo = @ \ {f}, !.file = f,
                                      !.content = sources[f]]
        /\ hashed' = WhenRead(f)
        /\ hashedFor' = IF hashed' = hashed THEN hashedFor
                        ELSE [hashedFor EXCEPT ![f] = indexer.version]
  /\ UNCHANGED <<sources, embedded, unembedded, indexRuns, activeIndex>>

\* getEmbedding with its retries, and the insertion; a failure is logged.
Embeds ==
  LET row == Row(indexer.file, indexer.content, indexer.version) IN
  /\ indexer.at = "embedding"
  /\ indexer' = [indexer EXCEPT !.at = "recording"]
  /\ \/ embedded' = embedded \cup {row} /\ UNCHANGED unembedded
     \/ unembedded' = unembedded \cup {row} /\ UNCHANGED embedded
  /\ UNCHANGED <<sources, hashed, hashedFor, indexRuns, activeIndex>>

RecordsHash(f) ==
  /\ indexer.at = "recording" /\ indexer.file = f
  /\ hashed' = [hashed EXCEPT ![f] = indexer.content]
  /\ hashedFor' = [hashedFor EXCEPT ![f] = indexer.version]
  /\ indexer' = [indexer EXCEPT !.at = "walking", !.file = NoFile, !.content = 0]
  /\ UNCHANGED <<sources, embedded, unembedded, indexRuns, activeIndex>>

\* Unless SEMANTIC_INDEX_ACTIVATE_ON_COMPLETE is false.
IndexEnds ==
  /\ indexer.at = "walking" /\ indexer.todo = {}
  /\ activeIndex' \in {activeIndex, indexer.version}
  /\ indexer' = NoRun
  /\ UNCHANGED <<sources, hashed, hashedFor, embedded, unembedded, indexRuns>>

IndexStops ==
  /\ indexer.at /= "idle"
  /\ indexer' = NoRun
  /\ UNCHANGED <<sources, hashed, hashedFor, embedded, unembedded, indexRuns, activeIndex>>

\* getContext: what the rows of a version hold of a file.
Recalled(f, v) == {r \in embedded : r.file = f /\ r.version = v}

IndexNext ==
  \/ \E f \in IndexFiles : EditSource(f) \/ Considers(f) \/ RecordsHash(f)
  \/ \E v \in IndexVersions : IndexBegins(v)
  \/ Embeds \/ IndexEnds \/ IndexStops

-----------------------------------------------------------------------------
(* The call graph *)

CONSTANTS
  Symbols,      \* symbols of the code base, in the order they are met in
  ImportOf      \* import -> the exported symbol of another file it names

VARIABLE
  calls         \* symbol -> the symbols it uses

Symbol == ToSet(Symbols)

ASSUME SymbolsAssumption ==
  /\ Symbols \in Seq(Symbol)
  /\ \A i \in DOMAIN ImportOf : ImportOf[i] \in Symbol

GraphInit == calls = [s \in Symbol |-> {}]

\* addEdge for an identifier met in a function.
AddCall(s, t) ==
  /\ s /= t /\ t \notin calls[s]
  /\ calls' = [calls EXCEPT ![s] = @ \cup {t}]

\* resolveImportExportEdges: an import, and what uses it, use what it names.
ResolveImports ==
  calls' = [s \in Symbol |->
    calls[s] \cup {ImportOf[i] : i \in {j \in DOMAIN ImportOf : j = s \/ j \in calls[s]}}]

GraphNext == (\E s, t \in Symbol : AddCall(s, t)) \/ ResolveImports

\* Mutant: a symbol counts as visited although nothing below it was
StopsHere_Marks(depth, s, visited) ==
  IF s \in visited THEN "known" ELSE IF depth = 0 THEN "marked" ELSE "no"
StopsHere(depth, s, visited) == IF depth = 0 \/ s \in visited THEN "known" ELSE "no"

\* Goes through what s uses; below is how the walk goes on from there, and what it
\* has visited is shared.
Visit(next, s, visited, below) ==
  LET Step(sofar, t) ==
        IF t \notin next[s] THEN sofar
        ELSE LET from == below[<<t, sofar.visited>>] IN
             [found |-> sofar.found \cup {t} \cup from.found, visited |-> from.visited]
  IN FoldLeft(Step, [found |-> {}, visited |-> visited \cup {s}], Symbols)

\* getDependencies and getDependents: from a symbol, with what was visited before.
Walk(next, start, reach) ==
  LET walk[depth \in 0..reach] ==
        [p \in Symbol \X SUBSET Symbol |->
           CASE StopsHere(depth, p[1], p[2]) = "known" -> [found |-> {}, visited |-> p[2]]
             [] StopsHere(depth, p[1], p[2]) = "marked" ->
                  [found |-> {}, visited |-> p[2] \cup {p[1]}]
             [] OTHER -> Visit(next, p[1], p[2], walk[depth - 1])]
  IN walk[reach][<<start, {}>>].found

Callers == [s \in Symbol |-> {t \in Symbol : s \in calls[t]}]

getDependencies(s) == Walk(calls, s, 3)
getDependents(s) == Walk(Callers, s, 2)

Within(rel, s, depth) ==
  LET ring[d \in 1..depth] ==
        IF d = 1 THEN rel[s] ELSE ring[d - 1] \cup UNION {rel[t] : t \in ring[d - 1]}
  IN ring[depth]

-----------------------------------------------------------------------------
IndexTypeOK ==
  /\ \A f \in IndexFiles : hashed[f] \in 0..sources[f]
  /\ indexer.todo \subseteq IndexFiles /\ indexer.version \in IndexVersions
  /\ (indexer.at \in {"embedding", "recording"}) = (indexer.file \in IndexFiles)
  /\ embedded \cup unembedded \subseteq
       [file : IndexFiles, content : 1..(MaxSourceEdits + 1), version : IndexVersions]

GraphTypeOK == \A s \in Symbol : calls[s] \subseteq Symbol

\* What a run has recorded for a version is found in it, unless its embedding
\* failed: whatever the runs before it left and wherever one was stopped.  (The
\* file the run is at does not count: no other run reads its record yet.)
RecordedIsRecalled ==
  \A f \in IndexFiles : hashed[f] > 0 /\ indexer.file /= f =>
    Row(f, hashed[f], hashedFor[f]) \in Recalled(f, hashedFor[f]) \cup unembedded

\* A walk of depth three finds what is two calls away, and of depth two as well,
\* whatever it has visited on the way; it finds nothing farther than its depth.
WalksAreDeepEnough ==
  \A s \in Symbol :
    /\ Within(calls, s, 2) \subseteq getDependencies(s) /\ getDependencies(s) \subseteq Within(calls, s, 3)
    /\ getDependents(s) = Within(Callers, s, 2)
=============================================================================
