------------------------------- MODULE Recall -------------------------------
(***************************************************************************)
(* The memory of a project (memory/loader.js, rag-layers.js and            *)
(* content-harness.js): a journal and the user's memory in one row, items  *)
(* that are learned or uploaded, and the evidence chosen from them for a   *)
(* question.                                                               *)
(*                                                                         *)
(* Evidence is cached under the question and the number of candidates, not *)
(* under what they are: an asker may be told what another's memory held.   *)
(* The properties below speak of the items a packet was built from;        *)
(* passedOver is history: the sources among them it left out.              *)
(***************************************************************************)
EXTENDS Naturals, FiniteSets, SequencesExt

CONSTANTS
  Askers,           \* users, each with one project
  Appends, Uploads, \* calls of appendBrainJournal and of handleHarnessContent
  GainOf,           \* append -> what recall terms, kind and age add to its item
  CandidateLimit,   \* 18: candidates of a question, the newest
  PacketLimit,      \* maxItems: 4 or 5
  MaxSaved,         \* bound: values of the user's memory
  MaxLoads          \* bound: calls of loadMemory

ASSUME AppendsAssumption ==
  /\ IsFiniteSet(Appends)
  /\ GainOf \in [Appends -> Nat]
  /\ CandidateLimit \in Nat
  /\ PacketLimit \in Nat
  /\ MaxSaved \in Nat /\ MaxLoads \in Nat

VARIABLES
  memories,     \* agent_memory_items: asker -> items, the oldest first
  projectRow,   \* project_memory: asker -> the row
  append,       \* the calls of appendBrainJournal
  upload,       \* the uploads
  harness,      \* harnessCache: contents that were cut up before
  packets,      \* evidencePacketCache: key -> packet
  told,         \* the last answer: its candidates, and those it accounts for
  loads,        \* calls of loadMemory, up to MaxLoads
  kept          \* history: asker -> what was saved, and how much appended

recallVars == <<memories, projectRow, append, upload, harness, packets, told, loads, kept>>

NoRow == [exists |-> FALSE, saved |-> 0, entries |-> 0]
Entries == {"summary", "chunk"}
Risks == {"high", "medium"}

(* inferMemoryClass *)
Source == [class |-> "source", gain |-> 0]
Learned(gain) == [class |-> "learned", gain |-> gain]

RecallInit ==
  /\ memories = [u \in Askers |-> <<>>]
  /\ projectRow = [u \in Askers |-> NoRow]
  /\ append \in [Appends -> [at : {"new"}, by : Askers]]
  /\ upload \in [Uploads -> [at : {"new"}, by : Askers, left : {Entries}, stored : {{}}]]
  /\ harness = {} /\ packets = <<>> /\ told = [candidates |-> 0, accounted |-> 0] /\ loads = 0
  /\ kept = [u \in Askers |-> [saved |-> 0, entries |-> 0]]

\* saveUserMemory: an upsert of the memory alone.
SaveUserMemory(u) ==
  /\ projectRow[u].saved < MaxSaved
  /\ projectRow' = [projectRow EXCEPT ![u].exists = TRUE, ![u].saved = @ + 1]
  /\ kept' = [kept EXCEPT ![u].saved = projectRow[u].saved + 1]
  /\ UNCHANGED <<memories, append, upload, harness, packets, told, loads>>

\* Mutant: the row is written even if there is one
RowMade_Overwritten(row) == [NoRow EXCEPT !.exists = TRUE]
RowMade(row) == IF row.exists THEN row ELSE [NoRow EXCEPT !.exists = TRUE]

\* appendBrainJournal: a row if there is none, then the entry, then the item,
\* whose failure is swallowed; any other failure ends the call.
MakeRow(a) ==
  /\ append[a].at = "new"
  /\ projectRow' = [projectRow EXCEPT ![append[a].by] = RowMade(@)]
  /\ append' = [append EXCEPT ![a].at = "row"]
  /\ UNCHANGED <<memories, upload, harness, packets, told, loads, kept>>

AppendEntry(a) ==
  LET u == append[a].by IN
  /\ append[a].at = "row"
  /\ projectRow' = [projectRow EXCEPT ![u].entries = @ + 1]
  /\ kept' = [kept EXCEPT ![u].entries = @ + 1]
  /\ append' = [append EXCEPT ![a].at = "entry"]
  /\ UNCHANGED <<memories, upload, harness, packets, told, loads>>

InsertLearned(a) ==
  LET u == append[a].by IN
  /\ append[a].at = "entry"
  /\ memories' \in {memories, [memories EXCEPT ![u] = Append(@, Learned(GainOf[a]))]}
  /\ append' = [append EXCEPT ![a].at = "over"]
  /\ UNCHANGED <<projectRow, upload, harness, packets, told, loads, kept>>

AppendFails(a) ==
  /\ append[a].at \in {"new", "row"}
  /\ append' = [append EXCEPT ![a].at = "over"]
  /\ UNCHANGED <<memories, projectRow, upload, harness, packets, told, loads, kept>>

\* handleHarnessContent: contents that were uploaded before, by anyone, are
\* taken from the cache with the names they had then.
Harness(h) ==
  /\ upload[h].at = "new"
  /\ harness' = harness \cup {"content"}
  /\ upload' = [upload EXCEPT ![h].at = "storing"]
  /\ UNCHANGED <<memories, projectRow, append, packets, told, loads, kept>>

\* Mutant: the upload is answered with the first entry that was stored
WhenStored_First(r) == IF r.at = "storing" THEN "stored" ELSE r.at
WhenStored(r) == IF r.at = "storing" /\ r.left = {} THEN "stored" ELSE r.at

\* The entries are inserted at once; the first failure answers the upload.
StoreEntry(h, e) ==
  LET r == [upload[h] EXCEPT !.left = @ \ {e}, !.stored = @ \cup {e}] IN
  /\ upload[h].at \in {"storing", "refused"} /\ e \in upload[h].left
  /\ memories' = [memories EXCEPT ![r.by] = Append(@, Source)]
  /\ upload' = [upload EXCEPT ![h] = [r EXCEPT !.at = WhenStored(r)]]
  /\ UNCHANGED <<projectRow, append, harness, packets, told, loads, kept>>

EntryFails(h, e) ==
  /\ upload[h].at \in {"storing", "refused"} /\ e \in upload[h].left
  /\ upload' = [upload EXCEPT ![h].at = "refused", ![h].left = @ \ {e}]
  /\ UNCHANGED <<memories, projectRow, append, harness, packets, told, loads, kept>>

-----------------------------------------------------------------------------
(* loadMemory *)

\* fetchAgentMemoryCandidates: the newest items, of whichever class.
Candidates(u) ==
  LET count == Len(memories[u]) IN
  SubSeq(memories[u], IF count > CandidateLimit THEN count - CandidateLimit + 1 ELSE 1, count)

\* Mutant: what was learned keeps its score however high the risk
scoreMemoryItem_Uncapped(item, risk) ==
  CASE item.class = "source" -> 34 + 12 [] OTHER -> 24 + 8 + item.gain
scoreMemoryItem(item, risk) ==
  CASE item.class = "source" -> 34 + 12
    [] item.class = "learned" /\ risk = "high" /\ 24 + 8 + item.gain > 33 -> 33
    [] OTHER -> 24 + 8 + item.gain

\* rankMemoryItems: the place of each by score, and of equal ones the newest first.
rankMemoryItems(items, risk) ==
  LET score(i) == scoreMemoryItem(items[i], risk)
      Before(i, j) == score(i) > score(j) \/ (score(i) = score(j) /\ i > j)
  IN [i \in DOMAIN items |-> Cardinality({j \in DOMAIN items : Before(j, i)}) + 1]

buildEvidencePacket(items, risk) ==
  LET place == rankMemoryItems(items, risk)
      count == IF Len(items) < PacketLimit THEN Len(items) ELSE PacketLimit
      evidence == {i \in DOMAIN items : place[i] <= count}
      Of(class, s) == Cardinality({i \in s : items[i].class = class})
  IN [risk |-> risk, sourceCount |-> Of("source", evidence),
      learnedCount |-> Of("learned", evidence), rejectedCount |-> Len(items) - count,
      passedOver |-> Of("source", DOMAIN items \ evidence)]

\* Mutant: packets are cached by the question alone
PacketKey_NoCount(items, risk) == <<risk, 0>>
PacketKey(items, risk) == <<risk, Len(items)>>

LoadMemory(u, risk) ==
  LET items == Candidates(u)
      key == PacketKey(items, risk)
      packet == IF key \in DOMAIN packets THEN packets[key] ELSE buildEvidencePacket(items, risk)
  IN
  /\ loads < MaxLoads
  /\ loads' = loads + 1
  /\ packets' = [k \in DOMAIN packets \cup {key} |-> IF k = key THEN packet ELSE packets[k]]
  /\ told' = [candidates |-> Len(items),
              accounted |-> packet.sourceCount + packet.learnedCount + packet.rejectedCount]
  /\ UNCHANGED <<memories, projectRow, append, upload, harness, kept>>

AppendStep(a) == MakeRow(a) \/ AppendEntry(a) \/ InsertLearned(a) \/ AppendFails(a)
UploadStep(h) == Harness(h) \/ \E e \in Entries : StoreEntry(h, e) \/ EntryFails(h, e)

\* No answer depends on what is saved, so writers and readers are checked apart.
JournalNext ==
  \/ \E u \in Askers : SaveUserMemory(u)
  \/ \E a \in Appends : AppendStep(a)

RecallNext ==
  \/ \E a \in Appends : AppendStep(a)
  \/ \E h \in Uploads : UploadStep(h)
  \/ \E u \in Askers, risk \in Risks : LoadMemory(u, risk)

RecallTypeOK ==
  /\ \A u \in Askers : projectRow[u].saved \in 0..MaxSaved
  /\ \A u \in Askers : ~projectRow[u].exists => projectRow[u] = NoRow
  /\ \A a \in Appends : append[a].at \in {"new", "row", "entry", "over"}
  /\ \A h \in Uploads : upload[h].at \in {"new", "storing", "stored", "refused"}
                        /\ upload[h].left \cup upload[h].stored \subseteq Entries
  /\ harness \subseteq {"content"} /\ loads \in 0..MaxLoads

\* Neither the journal nor the user's memory is lost to the writes of the other;
\* what is learned has its entry in the journal, and an upload that was answered
\* has all its entries stored.
MemoryIsKept ==
  /\ \A u \in Askers :
       /\ projectRow[u].saved = kept[u].saved /\ projectRow[u].entries = kept[u].entries
       /\ Cardinality({i \in DOMAIN memories[u] : memories[u][i].class = "learned"})
            <= kept[u].entries
  /\ \A h \in Uploads : upload[h].at = "stored" => upload[h].stored = Entries

\* In an answer to a question of high risk nothing learned takes the place of a
\* source it was ranked with, and what is left out of an answer is counted.
SourceFirst ==
  /\ \A k \in DOMAIN packets :
       packets[k].risk = "high" /\ packets[k].learnedCount > 0 => packets[k].passedOver = 0
  /\ told.accounted = told.candidates
=============================================================================
