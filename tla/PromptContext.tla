---------------------------- MODULE PromptContext ----------------------------
(***************************************************************************)
(* The linked repositories (orchestrator/repository_manager.js) and the    *)
(* texts a prompt is put together from: the constraints of an organization *)
(* (orchestrator/context-builder.js), fitted to their budget, and uploads  *)
(* cut into chunks (memory/tokenizer.js).                                  *)
(*                                                                         *)
(* A mirror is found by the last part of its URL: two repositories of one  *)
(* name share it, and the second link answers with the first one's code.   *)
(***************************************************************************)
EXTENDS Integers, FiniteSets, SequencesExt

CONSTANTS
  Links,            \* calls of linkRepository by one user
  Urls,             \* repositories of one name
  MaxCommits        \* bound: commits to each of them

ASSUME LinksAssumption == MaxCommits \in Nat \ {0}

VARIABLES
  upstream,     \* url -> its version, from 1
  mirror,       \* the directory: absent, half cloned, or of a repository
  link,         \* the calls
  repoIndex,    \* indexes of the RepositoryManager
  tangled    \* history: links have tangled since the server started

repoVars == <<upstream, mirror, link, repoIndex, tangled>>

NoMirror == [state |-> "absent", url |-> "none", version |-> 0]
HalfClone == [state |-> "half", url |-> "none", version |-> 0]
MirrorOf(u) == [state |-> "whole", url |-> u, version |-> upstream[u]]
NoIndex == NoMirror
NewLink == [at |-> "new", url |-> "none", graph |-> NoIndex]

LinkUnderWay(x) == link[x].at \in {"cloning", "fetching", "pulling", "indexing", "setting"}

RepoInit ==
  /\ upstream = [u \in Urls |-> 1]
  /\ mirror = NoMirror
  /\ link = [x \in Links |-> NewLink]
  /\ repoIndex = NoIndex
  /\ tangled = FALSE

Commit(u) ==
  /\ upstream[u] < MaxCommits
  /\ upstream' = [upstream EXCEPT ![u] = @ + 1]
  /\ UNCHANGED <<mirror, link, repoIndex, tangled>>

\* What was found of the directory decides, whatever it is by then.  (The calls
\* differ in name only.)
LinkRepository(x, u) ==
  /\ link[x].at = "new" /\ x = CHOOSE y \in Links : link[y].at = "new"
  /\ link' = [link EXCEPT ![x].url = u,
                          ![x].at = IF mirror = NoMirror THEN "cloning" ELSE "pulling"]
  /\ tangled' = (tangled \/ \E y \in Links : LinkUnderWay(y))
  /\ UNCHANGED <<upstream, mirror, repoIndex>>

\* git makes the directory before it has the files, and removes it if it fails.
CloneBegins(x) ==
  /\ link[x].at = "cloning"
  /\ IF mirror = NoMirror
     THEN mirror' = HalfClone /\ link' = [link EXCEPT ![x].at = "fetching"]
     ELSE link' = [link EXCEPT ![x].at = "failed"] /\ UNCHANGED mirror
  /\ UNCHANGED <<upstream, repoIndex, tangled>>

CloneEnds(x) ==
  /\ link[x].at = "fetching"
  /\ \/ mirror' = MirrorOf(link[x].url) /\ link' = [link EXCEPT ![x].at = "indexing"]
     \/ mirror' = NoMirror /\ link' = [link EXCEPT ![x].at = "failed"]
  /\ UNCHANGED <<upstream, repoIndex, tangled>>

\* Mutant: what was cloned before and pulled now is not indexed again
AfterPull_Known == "answered"
AfterPull == "indexing"

\* A pull of half a clone fails, and any other may.
Pull(x) ==
  /\ link[x].at = "pulling"
  /\ \/ /\ mirror.state = "whole"
        /\ mirror' = MirrorOf(mirror.url)
        /\ link' = [link EXCEPT ![x].at = AfterPull]
     \/ link' = [link EXCEPT ![x].at = "failed"] /\ UNCHANGED mirror
  /\ UNCHANGED <<upstream, repoIndex, tangled>>

IndexRepository(x) ==
  /\ link[x].at = "indexing"
  /\ link' = [link EXCEPT ![x].at = "setting", ![x].graph = mirror]
  /\ UNCHANGED <<upstream, mirror, repoIndex, tangled>>

SetIndex(x) ==
  /\ link[x].at = "setting"
  /\ repoIndex' = link[x].graph
  /\ link' = [link EXCEPT ![x].at = "answered", ![x].graph = NoIndex]
  /\ UNCHANGED <<upstream, mirror, tangled>>

\* The indexes are kept in memory, the mirrors on disk; a clone that was under
\* way leaves its half.
ServerStops ==
  /\ repoIndex' = NoIndex
  /\ link' = [x \in Links |-> IF link[x].at = "new" THEN link[x]
                             ELSE [link[x] EXCEPT !.at = "failed", !.graph = NoIndex]]
  /\ tangled' = FALSE
  /\ UNCHANGED <<upstream, mirror>>

RepoNext ==
  \/ \E u \in Urls : Commit(u) \/ \E x \in Links : LinkRepository(x, u)
  \/ \E x \in Links :
       CloneBegins(x) \/ CloneEnds(x) \/ Pull(x) \/ IndexRepository(x) \/ SetIndex(x)
  \/ ServerStops

-----------------------------------------------------------------------------
(* Texts are sequences of tokens: <<line or constraint, position>>. *)

CONSTANTS
  Constraints,      \* constraints of the organization
  Priorities,
  MaxLineTokens,    \* bound: tokens of a line or a constraint
  MaxLines,         \* bound: lines of an upload
  ConstraintBudget, \* 320 tokens
  ChunkBudget       \* CHUNK_TOKEN_BUDGET, 220 tokens

ASSUME PromptAssumption ==
  /\ IsFiniteSet(Constraints)
  /\ Priorities \subseteq Int
  /\ MaxLineTokens \in Nat /\ MaxLines \in Nat
  /\ ConstraintBudget \in Nat /\ ConstraintBudget >= 4
  /\ ChunkBudget \in Nat \ {0}

VARIABLES
  draft,        \* what the prompt is built from
  built         \* the texts that go into it

promptVars == <<draft, built>>

NotBuilt == <<>>
TokensOf(name, n) == [i \in 1..n |-> <<name, i>>]
Marker == << <<"...", 1>> >>
HeadingOf == << <<"MUST FOLLOW", 1>> >>
Closing == << <<"override", 1>> >>

\* The two have nothing to do with each other: one of them at a time.
Drafts ==
  [orgs : UNION {[C -> [priority : Priorities, size : 1..MaxLineTokens]] :
                   C \in SUBSET Constraints},
   lines : {<<>>}]
    \cup [orgs : {<<>>}, lines : BoundedSeq(0..MaxLineTokens, MaxLines)]

PromptInit == built = NotBuilt /\ draft \in Drafts

\* Mutant: the end of a text is kept, not its head as well
Halves_Tail(usable) == 0
Halves(usable) == (usable + 1) \div 2

\* fitTextToTokenBudget, head-tail: the halves around the marker, from the front.
fitText(text, budget) ==
  LET usable == IF budget > 1 THEN budget - 1 ELSE 1
      head == Halves(usable)
      fitted == SubSeq(text, 1, head) \o Marker
                  \o SubSeq(text, Len(text) - (usable - head) + 1, Len(text))
  IN IF Len(text) <= budget THEN text
     ELSE SubSeq(fitted, 1, IF Len(fitted) > budget THEN budget ELSE Len(fitted))

\* OrgConstraintsLoader: of equal priority in any order.
Loaded == {s \in SetToSeqs(DOMAIN draft.orgs) :
             \A i, j \in DOMAIN s : i < j => draft.orgs[s[i]].priority >= draft.orgs[s[j]].priority}

formatPrompt(s) ==
  IF s = <<>> THEN <<>>
  ELSE LET texts == [i \in DOMAIN s |-> TokensOf(s[i], draft.orgs[s[i]].size)] IN
       fitText(HeadingOf \o FlattenSeq(texts) \o Closing, ConstraintBudget)

\* Mutant: a long line goes ahead of the lines that wait before it
Flushed_Not(c) == c
Flushed(c) ==
  IF c.lines = <<>> THEN c ELSE [done |-> Append(c.done, c.lines), lines |-> <<>>, tokens |-> 0]

\* chunkTextByTokenBudget: a line counts one token more for its end, and one that
\* is too long on its own is cut into chunks of its own.
chunkText(lines, budget) ==
  LET Cut(tokens) == [k \in 1..((Len(tokens) + budget - 1) \div budget) |->
                        << SubSeq(tokens, (k - 1) * budget + 1,
                                  IF k * budget < Len(tokens) THEN k * budget ELSE Len(tokens)) >>]
      Add(c, i) ==
        LET line == TokensOf(i, lines[i])
            estimate == lines[i] + 1
            flushed == Flushed(c)
        IN IF estimate > budget THEN [flushed EXCEPT !.done = @ \o Cut(line)]
           ELSE IF c.lines /= <<>> /\ c.tokens + estimate > budget
           THEN [done |-> Append(c.done, c.lines), lines |-> <<line>>, tokens |-> estimate]
           ELSE [c EXCEPT !.lines = Append(@, line), !.tokens = @ + estimate]
  IN Flushed(FoldLeft(Add, [done |-> <<>>, lines |-> <<>>, tokens |-> 0], [i \in DOMAIN lines |-> i])).done

BuildPrompt ==
  /\ built = NotBuilt
  /\ \E s \in Loaded :
       built' = << [orgs |-> formatPrompt(s), chunks |-> chunkText(draft.lines, ChunkBudget)] >>
  /\ UNCHANGED draft

-----------------------------------------------------------------------------
RepoTypeOK ==
  /\ mirror \in {NoMirror, HalfClone} \cup [state : {"whole"}, url : Urls, version : 1..MaxCommits]
  /\ repoIndex.state /= "half"
  /\ \A x \in Links : link[x].at = "new" => link[x] = NewLink
PromptTypeOK == Len(built) <= 1

\* Unless links tangled, an index is of what its mirror holds as soon as no
\* link is under way, whichever of the links before failed.
IndexFollowsMirror ==
  (\A x \in Links : ~LinkUnderWay(x)) /\ ~tangled /\ repoIndex /= NoIndex => repoIndex = mirror

\* However much is cut, the prompt names a constraint of the highest priority and
\* stays within its budget; if all of them fit, it has them all.
HighestSurvives ==
  built /= NotBuilt =>
    LET text == Head(built).orgs
        All == UNION {ToSet(TokensOf(c, draft.orgs[c].size)) : c \in DOMAIN draft.orgs}
    IN /\ Len(text) <= ConstraintBudget
       /\ Cardinality(All) + 2 <= ConstraintBudget => All \subseteq ToSet(text)
       /\ DOMAIN draft.orgs /= {} =>
            \E c \in DOMAIN draft.orgs :
              /\ \A d \in DOMAIN draft.orgs : draft.orgs[c].priority >= draft.orgs[d].priority
              /\ <<c, 1>> \in ToSet(text)

\* The chunks of an upload are its tokens, all and in their order, and none of
\* the chunks is over its budget.
ChunksAddUp ==
  built /= NotBuilt =>
    LET chunks == Head(built).chunks IN
    /\ FlattenSeq([k \in DOMAIN chunks |-> FlattenSeq(chunks[k])]) =
         FlattenSeq([i \in DOMAIN draft.lines |-> TokensOf(i, draft.lines[i])])
    /\ \A k \in DOMAIN chunks : Len(FlattenSeq(chunks[k])) <= ChunkBudget
=============================================================================
