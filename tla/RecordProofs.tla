---------------------------- MODULE RecordProofs ----------------------------
(***************************************************************************)
(* Proofs about the turns of an expert (ExpertTurns) and what the          *)
(* components around them record: conversations, settings, shared turns,   *)
(* edits, the end of a run, the index, links, tools, the schema and the    *)
(* memory of a user; for any values of the constants.                      *)
(***************************************************************************)
EXTENDS ExpertTurns, UserRecords, SharedContext, WorkspaceEdits, RunRecords, BrainSystem,
        MemoryIndex, PromptContext, ToolServers, SchemaStartup, ModelAccess, Recall,
        SequenceTheorems, FiniteSetTheorems, TLAPS

-----------------------------------------------------------------------------
(* ExpertTurns: calls and their results.  The induction follows the last   *)
(* reply: while its calls are executed, its results are those of its first *)
(* calls (Partly), and what Gemini's loop has reported is what ran,        *)
(* followed by the calls it has not begun (Ahead); every reply before it   *)
(* is answered.                                                            *)

Reply == [calls : ModelReplies, results : Seq(CallKinds)]

Limit(i) == IF turnRing[i] = "gemini" THEN GeminiRounds ELSE OtherRounds

TurnRecord == [at : {"asking", "calling", "waiting", "answered", "failed"}, index : Nat, round : Nat]

Types ==
  /\ turnRing \in TurnRings
  /\ turn \in TurnRecord
  /\ turn.index \in 1 .. Len(turnRing) /\ turn.round <= Limit(turn.index)
  /\ conversation \in Seq(Reply)
  /\ reported \in Seq(CallKinds) /\ ran \in Seq(CallKinds)
  /\ stopped \in BOOLEAN /\ late \subseteq CallKinds

LastReply == conversation[Len(conversation)]

\* The results are those of the first calls.
Partly(r) ==
  /\ Len(r.results) <= Len(r.calls)
  /\ \A k \in 1 .. Len(r.results) : r.results[k] = r.calls[k]

\* s is t, followed by the last p of the calls c.
Ahead(s, t, c, p) ==
  /\ p \in 0 .. Len(c)
  /\ Len(s) = Len(t) + p
  /\ \A k \in 1 .. Len(t) : s[k] = t[k]
  /\ \A k \in 1 .. p : s[Len(t) + k] = c[Len(c) - p + k]

\* The calls of the last reply that no callback was begun for.
NotBegun ==
  Len(LastReply.calls) - Len(LastReply.results) - (IF turn.at = "waiting" THEN 1 ELSE 0)

Executes == turn.at \in {"calling", "waiting"}

RepliesInv ==
  /\ \A i \in 1 .. Len(conversation) - 1 : conversation[i].results = conversation[i].calls
  /\ turn.at = "asking" =>
       \A i \in 1 .. Len(conversation) : conversation[i].results = conversation[i].calls
  /\ Executes => /\ conversation # <<>>
                 /\ Partly(LastReply)
                 /\ Len(LastReply.results) < Len(LastReply.calls)

ReportInv ==
  /\ turn.at \in {"asking", "answered"} => reported = ran
  /\ Executes => IF Kind = "gemini" THEN Ahead(reported, ran, LastReply.calls, NotBegun)
                                    ELSE reported = ran

RoundsInv == turn.at = "asking" /\ Kind # "gemini" => turn.round < OtherRounds

IInv == Types /\ RepliesInv /\ ReportInv /\ RoundsInv /\ StoppedIsStopped
-----------------------------------------------------------------------------
(* Operators. *)

\* Nothing ahead is no difference.
LEMMA AheadByNone ==
  ASSUME NEW s \in Seq(CallKinds), NEW t \in Seq(CallKinds), NEW c, Ahead(s, t, c, 0)
  PROVE  s = t
<1>1. Len(s) = Len(t) /\ \A k \in 1 .. Len(s) : s[k] = t[k]
  BY DEF Ahead
<1>2. QED
  BY <1>1, SeqEqual

\* A reply is reported as it arrives.
LEMMA AheadByReply ==
  ASSUME NEW s \in Seq(CallKinds), NEW c \in Seq(CallKinds)
  PROVE  s \o c \in Seq(CallKinds) /\ Ahead(s \o c, s, c, Len(c))
<1>1. Len(s) \in Nat /\ Len(c) \in Nat
  OBVIOUS
<1>2. /\ s \o c \in Seq(CallKinds) /\ Len(s \o c) = Len(s) + Len(c)
      /\ \A i \in 1 .. Len(s) + Len(c) :
           (s \o c)[i] = IF i <= Len(s) THEN s[i] ELSE c[i - Len(s)]
  BY ConcatProperties
<1>3. \A k \in 1 .. Len(s) : (s \o c)[k] = s[k]
  BY <1>1, <1>2
<1>4. ASSUME NEW k \in 1 .. Len(c) PROVE (s \o c)[Len(s) + k] = c[Len(c) - Len(c) + k]
  <2>1. Len(s) + k \in 1 .. Len(s) + Len(c) /\ ~(Len(s) + k <= Len(s))
        /\ Len(s) + k - Len(s) = k /\ Len(c) - Len(c) + k = k
    BY <1>1
  <2>2. QED
    BY <1>2, <2>1
<1>5. QED
  BY <1>1, <1>2, <1>3, <1>4 DEF Ahead

\* The first of the calls ahead is begun.
LEMMA AheadBegins ==
  ASSUME NEW s \in Seq(CallKinds), NEW t \in Seq(CallKinds), NEW c \in Seq(CallKinds),
         NEW p \in Nat \ {0}, Ahead(s, t, c, p)
  PROVE  Ahead(s, Append(t, c[Len(c) - p + 1]), c, p - 1)
<1> DEFINE x == c[Len(c) - p + 1]
           u == Append(t, x)
<1>1. Len(s) \in Nat /\ Len(t) \in Nat /\ Len(c) \in Nat /\ p \in 1 .. Len(c)
  BY DEF Ahead
<1>2. Len(c) - p + 1 \in 1 .. Len(c)
  BY <1>1
<1>3. x \in CallKinds
  BY <1>2
<1> HIDE DEF x
<1>4. /\ Len(u) = Len(t) + 1
      /\ \A k \in 1 .. Len(t) : u[k] = t[k]
      /\ u[Len(t) + 1] = x
  BY <1>3, AppendProperties
<1> HIDE DEF u
<1>5. s[Len(t) + 1] = x
  BY <1>1 DEF Ahead, x
<1>6. \A k \in 1 .. Len(u) : s[k] = u[k]
  <2>1. ASSUME NEW k \in 1 .. Len(u) PROVE s[k] = u[k]
    <3>1. k \in 1 .. Len(t) \/ k = Len(t) + 1
      BY <1>1, <1>4
    <3>2. QED
      BY <1>4, <1>5, <3>1 DEF Ahead
  <2>2. QED
    BY <2>1
<1>7. ASSUME NEW k \in 1 .. p - 1 PROVE s[Len(u) + k] = c[Len(c) - (p - 1) + k]
  <2>1. k + 1 \in 1 .. p /\ Len(u) + k = Len(t) + (k + 1)
        /\ Len(c) - (p - 1) + k = Len(c) - p + (k + 1)
    BY <1>1, <1>4
  <2>2. s[Len(t) + (k + 1)] = c[Len(c) - p + (k + 1)]
    BY <2>1 DEF Ahead
  <2>3. QED
    BY <2>1, <2>2
<1>8. p - 1 \in 0 .. Len(c) /\ Len(s) = Len(u) + (p - 1)
  BY <1>1, <1>4 DEF Ahead
<1>9. QED
  BY <1>6, <1>7, <1>8 DEF Ahead, u, x

-----------------------------------------------------------------------------
(* Types. *)

LEMMA Constants ==
  ASSUME turnRing \in TurnRings
  PROVE  /\ Len(turnRing) \in Nat \ {0}
         /\ GeminiRounds \in Nat \ {0} /\ OtherRounds \in Nat \ {0}
         /\ \A i : Limit(i) \in Nat \ {0}
         /\ ModelReplies \subseteq Seq(CallKinds)
<1>1. turnRing \in Seq(ProviderKinds) /\ turnRing # <<>>
  BY TurnsAssumption
<1>2. QED
  BY <1>1, TurnsAssumption, EmptySeq DEF Limit

\* The last reply and its next call, while there is one.
LEMMA LastIsReply ==
  ASSUME Types, RepliesInv, Executes
  PROVE  /\ Len(conversation) \in Nat \ {0}
         /\ LastReply \in Reply
         /\ LastReply.calls \in Seq(CallKinds) /\ LastReply.results \in Seq(CallKinds)
         /\ Last(conversation) = LastReply
         /\ ThisCall = LastReply.calls[Len(LastReply.results) + 1]
         /\ ThisCall \in CallKinds
<1>1. conversation \in Seq(Reply) /\ conversation # <<>>
  BY DEF Types, RepliesInv
<1> HIDE DEF Reply
<1>2. Len(conversation) \in Nat \ {0} /\ LastReply \in Reply
  BY <1>1, EmptySeq DEF LastReply
<1>3. Last(conversation) = LastReply
  BY DEF Last, LastReply
<1>4. LastReply.calls \in Seq(CallKinds) /\ LastReply.results \in Seq(CallKinds)
  BY <1>2, Constants DEF Types, Reply
<1>5. Len(LastReply.results) + 1 \in 1 .. Len(LastReply.calls)
  BY <1>4 DEF RepliesInv
<1>6. QED
  BY <1>2, <1>3, <1>4, <1>5 DEF ThisCall
-----------------------------------------------------------------------------
(* The steps. *)

\* A failure begins anew at the next provider, or ends the turns.
LEMMA AfterFailure ==
  ASSUME IInv, NEW fallbackable \in BOOLEAN, TurnFails(fallbackable)
  PROVE  IInv'
<1>1. UNCHANGED <<turnRing, stopped, late>>
  BY DEF TurnFails
<1>2. CASE /\ turn.index < Len(turnRing)
           /\ turn' = Afresh(turn.index + 1)
           /\ conversation' = <<>> /\ reported' = <<>> /\ ran' = <<>>
  <2>1. turn'.at = "asking" /\ turn'.index = turn.index + 1 /\ turn'.round = 0
    BY <1>2 DEF Afresh
  <2>2. turn.index + 1 \in 1 .. Len(turnRing) /\ 0 <= Limit(turn.index + 1)
    BY <1>2, Constants DEF IInv, Types
  <2>3. Types'
    <3>1. turn' \in TurnRecord
      BY <1>2, <2>2 DEF TurnRecord, Afresh
    <3>2. QED
      BY <1>1, <1>2, <2>1, <2>2, <3>1, EmptySeq DEF IInv, Types, Limit
  <2>4. RoundsInv'
    BY <1>1, <2>1, Constants DEF IInv, Types, RoundsInv
  <2>5. RepliesInv' /\ ReportInv'
    BY <1>2, <2>1 DEF RepliesInv, ReportInv, Executes
  <2>6. QED
    BY <1>1, <2>3, <2>4, <2>5 DEF IInv, StoppedIsStopped
<1>3. CASE TurnGoes("failed") /\ UNCHANGED <<conversation, reported, ran>>
  <2>1. turn'.at = "failed" /\ turn'.index = turn.index /\ turn'.round = turn.round
        /\ turn' \in TurnRecord
    BY <1>3 DEF IInv, Types, TurnGoes, TurnRecord
  <2>2. Types'
    BY <1>1, <1>3, <2>1 DEF IInv, Types, Limit
  <2>3. QED
    BY <1>1, <1>3, <2>1, <2>2 DEF IInv, RepliesInv, ReportInv, RoundsInv, Executes, StoppedIsStopped
<1>4. QED
  BY <1>2, <1>3 DEF TurnFails

\* A turn goes somewhere under the same provider.
LEMMA Going ==
  ASSUME Types, UNCHANGED turnRing,
         NEW at \in {"asking", "calling", "waiting", "answered", "failed"}, TurnGoes(at)
  PROVE  /\ turn'.at = at /\ turn'.index = turn.index /\ turn'.round = turn.round
         /\ turn' \in TurnRecord /\ Kind' = Kind /\ Limit(turn.index)' = Limit(turn.index)
BY DEF Types, TurnGoes, TurnRecord, Kind, Limit

\* A provider answers, and nothing is left to do.
LEMMA AfterAnswer ==
  ASSUME IInv, turn.at = "asking", TurnAnswers,
         UNCHANGED <<turnRing, reported, ran, stopped, late>>
  PROVE  IInv'
<1>1. TurnGoes("answered") /\ UNCHANGED <<conversation, turnRing>> /\ Types
  BY DEF TurnAnswers, IInv
<1>2. /\ turn'.at = "answered" /\ turn'.index = turn.index /\ turn'.round = turn.round
      /\ turn' \in TurnRecord
  BY <1>1, Going
<1>3. Types'
  BY <1>1, <1>2 DEF Types, Limit
<1>4. RepliesInv' /\ ReportInv' /\ RoundsInv' /\ StoppedIsStopped'
  BY <1>1, <1>2 DEF IInv, RepliesInv, ReportInv, RoundsInv, Executes, StoppedIsStopped
<1>5. QED
  BY <1>3, <1>4 DEF IInv

\* A reply with calls is taken.
LEMMA AfterReply ==
  ASSUME IInv, turn.at = "asking", NEW asked \in ModelReplies, asked # <<>>, Takes(asked),
         turn.round < Limit(turn.index),
         IF Kind = "gemini" THEN reported' = reported \o asked ELSE UNCHANGED reported,
         UNCHANGED <<turnRing, ran, stopped, late>>
  PROVE  IInv'
<1> DEFINE r == [calls |-> asked, results |-> <<>>]
           n == Len(conversation)
<1>1. /\ asked \in Seq(CallKinds) /\ r \in Reply /\ conversation \in Seq(Reply)
      /\ reported \in Seq(CallKinds) /\ ran \in Seq(CallKinds) /\ reported = ran
      /\ Limit(turn.index) \in Nat /\ n \in Nat
  BY Constants DEF IInv, Types, Reply, ReportInv
<1>2. /\ turn' \in TurnRecord /\ turn'.at = "calling"
      /\ turn'.index = turn.index /\ turn'.round = turn.round + 1
  <2> DEFINE t == [turn EXCEPT !.at = "calling"]
  <2>1. t \in TurnRecord /\ t.at = "calling" /\ t.index = turn.index /\ t.round = turn.round
    BY DEF IInv, Types, TurnRecord
  <2>2. turn' = [t EXCEPT !.round = turn.round + 1] /\ turn.round \in Nat
    BY DEF IInv, Types, TurnRecord, Takes
  <2> HIDE DEF t
  <2>3. QED
    BY <2>1, <2>2 DEF TurnRecord
<1>3. /\ conversation' \in Seq(Reply) /\ conversation' # <<>>
      /\ Len(conversation') = n + 1
      /\ \A i \in 1 .. n : conversation'[i] = conversation[i]
      /\ conversation'[n + 1] = r
  <2>1. conversation' = Append(conversation, r)
    BY DEF Takes
  <2> HIDE DEF Reply, r
  <2>2. QED
    BY <1>1, <2>1, AppendProperties
<1>4. /\ reported' \in Seq(CallKinds)
      /\ IF Kind = "gemini" THEN Ahead(reported', ran, asked, Len(asked)) ELSE reported' = ran
  BY <1>1, AheadByReply
<1>5. Types'
  BY <1>1, <1>2, <1>3, <1>4 DEF IInv, Types, Limit, TurnRecord
<1>6. LastReply' = r /\ r.calls = asked /\ r.results = <<>> /\ Len(r.results) = 0 /\ Len(asked) > 0
  BY <1>1, <1>3, EmptySeq DEF LastReply
<1>7. RepliesInv'
  <2>1. \A i \in 1 .. n : conversation'[i].results = conversation'[i].calls
    BY <1>3 DEF IInv, RepliesInv
  <2>2. Partly(r)
    BY <1>6 DEF Partly
  <2> HIDE DEF r
  <2>3. Len(conversation') - 1 = n
    BY <1>1, <1>3
  <2>4. QED
    BY <1>2, <1>3, <1>6, <2>1, <2>2, <2>3 DEF RepliesInv, Executes
<1>8. ReportInv'
  <2>1. NotBegun' = Len(asked) /\ LastReply'.calls = asked
    BY <1>1, <1>2, <1>6 DEF NotBegun
  <2>2. Kind' = Kind
    BY <1>2 DEF Kind
  <2>3. QED
    BY <1>2, <1>4, <2>1, <2>2 DEF ReportInv, Executes
<1>9. QED
  BY <1>2, <1>5, <1>7, <1>8 DEF IInv, RoundsInv, StoppedIsStopped

LEMMA Replies ==
  ASSUME IInv,
         executeGemini \/ executeOpenAILoop \/ executeOpenAIResponsesLoop \/ executeAnthropicLoop
  PROVE  IInv'
<1>1. /\ turn.round \in Nat /\ GeminiRounds \in Nat
      /\ Limit(turn.index) = IF Kind = "gemini" THEN GeminiRounds ELSE OtherRounds
  BY Constants DEF IInv, Types, TurnRecord, Limit, Kind
<1>2. CASE executeGemini
  BY <1>1, <1>2, AfterAnswer, AfterReply DEF executeGemini
<1>3. ASSUME turn.at = "asking", Kind # "gemini", OtherReplies PROVE IInv'
  <2>1. turn.round < OtherRounds
    BY <1>3 DEF IInv, RoundsInv
  <2>2. QED
    BY <1>1, <1>3, <2>1, AfterAnswer, AfterReply DEF OtherReplies
<1>4. QED
  BY <1>2, <1>3 DEF executeOpenAILoop, executeOpenAIResponsesLoop, executeAnthropicLoop

\* A call is refused, or its callback begins.
LEMMA Begins ==
  ASSUME IInv, executeToolCall
  PROVE  IInv'
<1>1. Types /\ RepliesInv /\ Executes /\ turn.at = "calling"
  BY DEF IInv, executeToolCall, Executes
<1>2. CASE TurnFails(FALSE) \/ TurnFails(TRUE)
  BY <1>2, AfterFailure
<1>3. CASE /\ ~refused(ThisCall)
           /\ TurnGoes("waiting")
           /\ ran' = Append(ran, ThisCall)
           /\ reported' = IF Kind = "gemini" THEN reported ELSE Append(reported, ThisCall)
           /\ late' = IF stopped THEN late \cup {ThisCall} ELSE late
           /\ UNCHANGED <<turnRing, conversation, stopped>>
  <2> DEFINE asked == LastReply.calls
             results == LastReply.results
  <2>1. /\ turn'.at = "waiting" /\ turn'.index = turn.index /\ turn'.round = turn.round
        /\ turn' \in TurnRecord /\ Kind' = Kind /\ Limit(turn.index)' = Limit(turn.index)
    BY <1>1, <1>3, Going
  <2>2. /\ ThisCall = asked[Len(results) + 1] /\ ThisCall \in CallKinds
        /\ asked \in Seq(CallKinds) /\ results \in Seq(CallKinds) /\ Len(results) < Len(asked)
    BY <1>1, LastIsReply DEF RepliesInv
  <2>3. ran \in Seq(CallKinds) /\ reported \in Seq(CallKinds)
        /\ ran' \in Seq(CallKinds) /\ reported' \in Seq(CallKinds)
    BY <1>1, <1>3, <2>2, AppendProperties DEF Types
  <2>4. Types'
    BY <1>1, <1>3, <2>1, <2>2, <2>3 DEF Types
  <2>5. LastReply' = LastReply
    BY <1>3 DEF LastReply
  <2>6. RepliesInv'
    BY <1>1, <1>3, <2>1, <2>5 DEF RepliesInv, Executes
  <2>7. ReportInv'
    <3>1. CASE Kind = "gemini"
      <4>1. NotBegun = Len(asked) - Len(results) /\ NotBegun \in Nat \ {0}
            /\ Len(asked) - NotBegun + 1 = Len(results) + 1
        BY <1>1, <2>2 DEF NotBegun
      <4>2. NotBegun' = NotBegun - 1
        BY <1>1, <2>1, <2>2, <2>5 DEF NotBegun
      <4>3. Ahead(reported, ran, asked, NotBegun)
        BY <1>1, <3>1 DEF IInv, ReportInv
      <4> HIDE DEF asked, results
      <4>4. Ahead(reported, Append(ran, asked[Len(asked) - NotBegun + 1]), asked, NotBegun - 1)
        BY <2>2, <2>3, <4>1, <4>3, AheadBegins
      <4>5. Ahead(reported, ran', asked, NotBegun')
        BY <1>3, <2>2, <4>1, <4>2, <4>4
      <4>6. QED
        BY <1>3, <2>1, <2>5, <3>1, <4>5 DEF ReportInv, Executes, asked
    <3>2. CASE Kind # "gemini"
      BY <1>1, <1>3, <2>1, <3>2 DEF IInv, ReportInv, Executes
    <3>3. QED
      BY <3>1, <3>2
  <2>8. StoppedIsStopped'
    BY <1>3 DEF IInv, StoppedIsStopped, refused
  <2>9. QED
    BY <2>1, <2>4, <2>6, <2>7, <2>8 DEF IInv, RoundsInv
<1>4. QED
  BY <1>2, <1>3 DEF executeToolCall

\* A result is put to the last reply: it goes on, is asked about, or answers.
LEMMA Observes ==
  ASSUME IInv, Observation
  PROVE  IInv'
<1> DEFINE last == LastReply
           n == Len(conversation)
           r == [last EXCEPT !.results = Append(last.results, ThisCall)]
<1>1. /\ Types /\ RepliesInv /\ Executes /\ turn.at = "waiting"
      /\ UNCHANGED <<turnRing, reported, ran, stopped, late>>
  BY DEF IInv, Observation, Executes
<1>2. /\ n \in Nat \ {0} /\ last \in Reply /\ conversation \in Seq(Reply)
      /\ last.calls \in Seq(CallKinds) /\ last.results \in Seq(CallKinds)
      /\ ThisCall = last.calls[Len(last.results) + 1] /\ ThisCall \in CallKinds
      /\ Len(last.results) < Len(last.calls) /\ Partly(last)
  BY <1>1, LastIsReply DEF RepliesInv, Types
<1>3. /\ conversation' = [conversation EXCEPT ![n] = r]
      /\ TurnGoes(afterResult(r))
  BY <1>1, LastIsReply DEF Observation
<1>4. /\ r \in Reply /\ r.calls = last.calls
      /\ r.results = Append(last.results, ThisCall)
  <2>1. Append(last.results, ThisCall) \in Seq(CallKinds)
    BY <1>2, AppendProperties
  <2> HIDE DEF last
  <2>2. QED
    BY <1>2, <2>1 DEF Reply
<1>5. /\ r.results \in Seq(CallKinds)
      /\ Len(r.results) = Len(last.results) + 1
      /\ Partly(r)
  <2>1. /\ r.results \in Seq(CallKinds)
        /\ Len(r.results) = Len(last.results) + 1
        /\ \A k \in 1 .. Len(last.results) : r.results[k] = last.results[k]
        /\ r.results[Len(last.results) + 1] = ThisCall
    BY <1>2, <1>4, AppendProperties
  <2> HIDE DEF r
  <2>2. ASSUME NEW k \in 1 .. Len(r.results) PROVE r.results[k] = r.calls[k]
    <3>1. k \in 1 .. Len(last.results) \/ k = Len(last.results) + 1
      BY <1>2, <2>1
    <3>2. QED
      BY <1>2, <1>4, <2>1, <3>1 DEF Partly
  <2>3. Len(r.results) <= Len(r.calls)
    BY <1>2, <1>4, <2>1
  <2>4. QED
    BY <2>1, <2>2, <2>3 DEF Partly
<1>6. /\ conversation' \in Seq(Reply) /\ Len(conversation') = n
      /\ \A i \in 1 .. n : conversation'[i] = IF i = n THEN r ELSE conversation[i]
  <2> HIDE DEF Reply, r
  <2>1. n \in 1 .. Len(conversation)
    BY <1>2
  <2>2. QED
    BY <1>2, <1>3, <1>4, <2>1, ExceptSeq
<1>7. LastReply' = r /\ conversation' # <<>>
  <2> HIDE DEF r
  <2>1. n \in 1 .. n /\ Len(conversation') # 0
    BY <1>2, <1>6
  <2>2. LastReply' = conversation'[n] /\ conversation'[n] = r
    BY <1>6, <2>1 DEF LastReply
  <2>3. QED
    BY <1>6, <2>1, <2>2, EmptySeq
<1> HIDE DEF r
<1>8. /\ afterResult(r) \in {"calling", "asking", "answered"}
      /\ afterResult(r) = "calling" => Len(r.results) < Len(r.calls)
      /\ afterResult(r) # "calling" => ~(Len(r.results) < Len(r.calls))
      /\ afterResult(r) = "asking" /\ Kind # "gemini" => ~(turn.round >= OtherRounds)
  BY DEF afterResult
<1>9. /\ turn'.at = afterResult(r) /\ turn'.index = turn.index /\ turn'.round = turn.round
      /\ turn' \in TurnRecord /\ Kind' = Kind
  BY <1>1, <1>3, <1>8, Going
<1>10. Types'
  BY <1>1, <1>6, <1>9 DEF Types, Limit
<1>11. RepliesInv'
  <2>1. \A i \in 1 .. n - 1 : conversation'[i].results = conversation'[i].calls
    BY <1>1, <1>2, <1>6 DEF RepliesInv
  <2>2. ASSUME turn'.at = "asking" PROVE r.results = r.calls
    <3>1. Len(r.results) = Len(r.calls) /\ \A k \in 1 .. Len(r.results) : r.results[k] = r.calls[k]
      BY <1>2, <1>4, <1>5, <1>8, <1>9, <2>2 DEF Partly
    <3>2. QED
      BY <1>2, <1>4, <1>5, <3>1, SeqEqual
  <2>3. QED
    BY <1>2, <1>5, <1>6, <1>7, <1>8, <1>9, <2>1, <2>2 DEF RepliesInv, Executes
<1>12. ReportInv'
  <2>1. CASE Kind # "gemini"
    BY <1>1, <1>9, <2>1 DEF IInv, ReportInv, Executes
  <2>2. CASE Kind = "gemini"
    <3>1. Ahead(reported, ran, last.calls, NotBegun)
      BY <1>1, <2>2 DEF IInv, ReportInv
    <3>2. NotBegun = Len(last.calls) - Len(last.results) - 1
      BY <1>1 DEF NotBegun
    <3>3. NotBegun = Len(last.calls) - Len(r.results) /\ Len(last.results) \in Nat
          /\ Len(r.results) \in Nat /\ Len(last.calls) \in Nat
      <4> HIDE DEF last
      <4>1. QED
        BY <1>2, <1>5, <3>2
    <3>4. CASE turn'.at = "calling"
      <4>1. NotBegun' = NotBegun
        <5>1. NotBegun' = Len(r.calls) - Len(r.results) - 0
          BY <1>7, <3>4 DEF NotBegun
        <5>2. QED
          BY <1>4, <3>3, <5>1
      <4>2. QED
        BY <1>1, <1>4, <1>7, <1>9, <2>2, <3>1, <3>4, <4>1 DEF ReportInv, Executes
    <3>5. CASE turn'.at # "calling"
      <4>1. NotBegun = 0
        BY <1>2, <1>4, <1>5, <1>8, <1>9, <3>3, <3>5
      <4>2. reported = ran
        BY <1>1, <3>1, <4>1, AheadByNone DEF Types
      <4>3. QED
        BY <1>1, <1>8, <1>9, <3>5, <4>2 DEF ReportInv, Executes
    <3>6. QED
      BY <3>4, <3>5
  <2>3. QED
    BY <2>1, <2>2
<1>13. RoundsInv'
  BY <1>1, <1>8, <1>9, Constants DEF RoundsInv, Types, TurnRecord
<1>14. QED
  BY <1>1, <1>10, <1>11, <1>12, <1>13 DEF IInv, StoppedIsStopped
-----------------------------------------------------------------------------
(* Theorems. *)

LEMMA Initial == TurnsInit => IInv
<1> SUFFICES ASSUME TurnsInit PROVE IInv
  OBVIOUS
<1>1. turn.at = "asking" /\ turn.index = 1 /\ turn.round = 0 /\ turn \in TurnRecord
  BY DEF TurnsInit, Afresh, TurnRecord
<1>2. Types
  <2>1. turnRing \in TurnRings /\ <<>> \in Seq(Reply) /\ <<>> \in Seq(CallKinds)
    BY EmptySeq DEF TurnsInit
  <2>2. 1 \in 1 .. Len(turnRing) /\ 0 <= Limit(1)
    BY <2>1, Constants
  <2>3. QED
    BY <1>1, <2>1, <2>2 DEF TurnsInit, Types
<1>3. RepliesInv /\ ReportInv
  BY <1>1 DEF TurnsInit, RepliesInv, ReportInv, Executes
<1>4. RoundsInv /\ StoppedIsStopped
  BY <1>1, Constants DEF TurnsInit, RoundsInv, StoppedIsStopped
<1>5. QED
  BY <1>2, <1>3, <1>4 DEF IInv

LEMMA Inductive == IInv /\ [TurnsNext]_turnsVars => IInv'
<1> SUFFICES ASSUME IInv, [TurnsNext]_turnsVars PROVE IInv'
  OBVIOUS
<1>1. CASE executeGemini \/ executeOpenAILoop \/ executeOpenAIResponsesLoop \/ executeAnthropicLoop
  BY <1>1, Replies
<1>2. CASE ProviderFails \/ ToolThrows
  BY <1>2, AfterFailure DEF ProviderFails, ToolThrows
<1>3. CASE executeToolCall
  BY <1>3, Begins
<1>4. CASE Observation
  BY <1>4, Observes
<1>5. CASE SessionStops \/ UNCHANGED turnsVars
  BY <1>5 DEF SessionStops, turnsVars, IInv, Types, Limit, RepliesInv, ReportInv, RoundsInv,
              StoppedIsStopped, Executes, LastReply, NotBegun, Kind
<1>6. QED
  BY <1>1, <1>2, <1>3, <1>4, <1>5 DEF TurnsNext, TurnStep

LEMMA Invariant == TurnsSpec => []IInv
BY Initial, Inductive, PTL DEF TurnsSpec

\* The types: in particular no provider is asked in more rounds than its loop
\* has, and an execution never runs past the last of its fallbacks.
THEOREM TurnsTypes == TurnsSpec => []TurnsTypeOK
<1>1. IInv => TurnsTypeOK
  BY Constants DEF IInv, Types, TurnsTypeOK, TurnRecord, Limit, Kind, Reply
<1>2. QED
  BY <1>1, Invariant, PTL

\* Whenever a provider is asked, every call of its replies so far has its result,
\* in the order of the calls.
THEOREM CallsAreAnswered == TurnsSpec => []EveryCallIsAnswered
<1>1. IInv => EveryCallIsAnswered
  BY DEF IInv, Types, RepliesInv, EveryCallIsAnswered
<1>2. QED
  BY <1>1, Invariant, PTL

\* Gemini's loop reports the calls of a reply before it runs them, the others one
\* by one; the calls an answer comes with are those that ran all the same.
THEOREM ReportsWhatRan == TurnsSpec => []ReportIsWhatRan
<1>1. IInv => ReportIsWhatRan
  BY DEF IInv, ReportInv, ReportIsWhatRan
<1>2. QED
  BY <1>1, Invariant, PTL

\* After the session has stopped only an entry of the journal is still written.
THEOREM NothingBeginsLate == TurnsSpec => []StoppedIsStopped
<1>1. IInv => StoppedIsStopped
  BY DEF IInv
<1>2. QED
  BY <1>1, Invariant, PTL
-----------------------------------------------------------------------------
(* UserRecords: the conversation on the screen and the one that is stored. *)

ChatCall == [kind : {"list", "create", "load", "say"}, by : Signers, chat : Chats \cup {NoChat},
             item : 0..MaxSaid, list : SUBSET Chats, at : {"asked", "answered"},
             answer : SUBSET Nat]

ChatTypes ==
  /\ reader \in Signers \cup {NoReader}
  /\ chats \in [Chats -> [owner : Signers \cup {NoReader},
                          rows : SUBSET [n : 1..MaxSaid, by : Signers]]]
  /\ talk \in [active : Chats \cup {NoChat}, list : SUBSET Chats, shown : SUBSET (1..MaxSaid)]
  /\ chatCalls \subseteq ChatCall
  /\ awaiting \subseteq Chats \cup {NoChat}
  /\ counts \in [said : 0..MaxSaid, outs : 0..Len(Readers)]
  /\ reader # NoReader => counts.outs < Len(Readers)
  /\ disturbed \in BOOLEAN

OwnedChats == {c \in Chats : chats[c].owner # NoReader}
Transcript(c) == {r.n : r \in chats[c].rows}
SaidIn(c) == {k.item : k \in {j \in chatCalls : j.kind = "say" /\ j.chat = c}}
LoadCalls == {k \in chatCalls : k.kind = "load"}

\* A call and its answer speak of conversations somebody owns.
CallFits(k) ==
  /\ k.kind \in {"load", "say"} => k.chat \in OwnedChats
  /\ k.kind = "say" => k.item \in 1..MaxSaid
  /\ k.list \subseteq OwnedChats
  /\ k.at = "answered" =>
       /\ k.kind = "list" => k.answer \subseteq OwnedChats
       /\ k.kind = "create" => \E c \in OwnedChats : k.answer = {c}
       /\ k.kind = "load" => k.answer \subseteq 1..MaxSaid
       /\ k.kind # "say"

\* While nothing disturbs them: a conversation that loads is the active one and
\* nothing is said meanwhile; one that was created is empty and was not chosen
\* yet; and what is shown is stored or on its way.
Undisturbed ==
  /\ \A k \in LoadCalls :
       /\ k.chat = talk.active
       /\ k.at = "answered" => k.answer = Transcript(talk.active)
       /\ \A j \in chatCalls : j.kind # "say"
  /\ \A k \in chatCalls : k.kind = "create" /\ k.at = "answered" =>
       \A c \in k.answer : /\ chats[c].rows = {} /\ talk.active # c
                           /\ \A j \in chatCalls : j.kind \in {"load", "say"} => j.chat # c
  /\ LoadCalls = {} /\ talk.active # NoChat =>
       talk.shown = Transcript(talk.active) \cup SaidIn(talk.active)

ChatInv ==
  /\ ChatTypes
  /\ \A c \in Chats : chats[c].owner = NoReader => chats[c].rows = {}
  /\ OwnRowsOnly
  /\ talk.active \in OwnedChats \cup {NoChat} /\ talk.list \subseteq OwnedChats
  /\ \A k \in chatCalls : CallFits(k)
  /\ \A j, k \in chatCalls : j.kind = "create" /\ k.kind = "create" => j = k
  /\ disturbed \/ Undisturbed
LEMMA ChatLimits ==
  /\ Len(Readers) \in Nat /\ MaxSaid \in Nat /\ MaxChats \in Nat
  /\ \A i \in 1..Len(Readers) : Readers[i] \in Signers
  /\ NoReader \notin Signers /\ NoChat \notin Chats
BY ReadersAssumption DEF Signers, Chats

LEMMA SaidIsCounted ==
  ASSUME ChatTypes
  PROVE  /\ counts.said < MaxSaid => [counts EXCEPT !.said = counts.said + 1] \in
                [said : 0..MaxSaid, outs : 0..Len(Readers)]
         /\ reader # NoReader => [counts EXCEPT !.outs = @ + 1] \in
                [said : 0..MaxSaid, outs : 0..Len(Readers)]
<1>1. /\ counts \in [said : 0..MaxSaid, outs : 0..Len(Readers)]
      /\ counts.said \in 0..MaxSaid /\ counts.outs \in 0..Len(Readers)
  BY DEF ChatTypes
<1>2. counts.said < MaxSaid => counts.said + 1 \in 0..MaxSaid
  BY <1>1, ChatLimits
<1>3. reader # NoReader => counts.outs + 1 \in 0..Len(Readers)
  BY <1>1, ChatLimits DEF ChatTypes
<1> QED
  BY <1>1, <1>2, <1>3

LEMMA ChatBegins == ChatInit => ChatInv
<1> SUFFICES ASSUME ChatInit  PROVE ChatInv
  OBVIOUS
<1>1. \A c \in Chats : chats[c] = [owner |-> NoReader, rows |-> {}]
  BY DEF ChatInit
<1>2. ChatTypes
  <2>1. chats \in [Chats -> [owner : Signers \cup {NoReader},
                            rows : SUBSET [n : 1..MaxSaid, by : Signers]]]
    BY DEF ChatInit
  <2>2. counts \in [said : 0..MaxSaid, outs : 0..Len(Readers)]
    BY ChatLimits DEF ChatInit
  <2> QED
    BY <2>1, <2>2 DEF ChatInit, ChatTypes
<1>3. OwnRowsOnly
  BY <1>1 DEF OwnRowsOnly
<1>4. Undisturbed
  BY DEF ChatInit, Undisturbed, LoadCalls
<1> QED
  BY <1>1, <1>2, <1>3, <1>4 DEF ChatInit, ChatInv

LEMMA FitsStill ==
  ASSUME OwnedChats \subseteq OwnedChats', NEW k, CallFits(k)  PROVE CallFits(k)'
BY DEF CallFits

\* The list or a new conversation is asked for.
LEMMA AskKeeps ==
  ASSUME ChatInv, NEW k \in ChatCall, k.kind \in {"list", "create"}, k.at = "asked",
         k.list \subseteq OwnedChats,
         k.kind = "create" => \A j \in chatCalls : j.kind # "create",
         chatCalls' = chatCalls \cup {k}, reader' \in Signers \cup {NoReader},
         reader' # NoReader => counts.outs < Len(Readers),
         UNCHANGED <<chats, talk, awaiting, counts, disturbed>>
  PROVE  ChatInv'
<1>1. ChatTypes'
  BY DEF ChatInv, ChatTypes
<1>2. OwnedChats' = OwnedChats /\ OwnRowsOnly' /\ LoadCalls' = LoadCalls
      /\ \A c : SaidIn(c)' = SaidIn(c) /\ Transcript(c)' = Transcript(c)
  BY DEF ChatInv, OwnRowsOnly, OwnedChats, LoadCalls, SaidIn, Transcript
<1>3. \A j \in chatCalls' : CallFits(j)'
  BY <1>2, FitsStill DEF ChatInv, CallFits
<1>4. disturbed' \/ Undisturbed'
  BY <1>2 DEF ChatInv, Undisturbed
<1>5. \A i, j \in chatCalls' : i.kind = "create" /\ j.kind = "create" => i = j
  BY DEF ChatInv
<1> QED
  BY <1>1, <1>2, <1>3, <1>4, <1>5 DEF ChatInv

LEMMA ReaderComes == ASSUME ChatInv, setUser  PROVE ChatInv'
<1>1. reader' = Readers[counts.outs + 1] /\ counts.outs + 1 \in 1..Len(Readers)
  BY ReadersAssumption DEF setUser, ChatInv, ChatTypes
<1>2. reader' \in Signers
  BY <1>1 DEF Signers
<1>3. PICK k : k = [Asks("list", NoChat, 0) EXCEPT !.by = reader']
  OBVIOUS
<1>4. k \in ChatCall /\ k.kind = "list" /\ k.at = "asked" /\ k.list = {}
  BY <1>2, <1>3, ReadersAssumption DEF Asks, ChatCall
<1> QED
  BY <1>2, <1>3, <1>4, AskKeeps DEF setUser

LEMMA SessionAsked == ASSUME ChatInv, handleNewSession  PROVE ChatInv'
<1>1. PICK k : k = Asks("create", NoChat, 0)
  OBVIOUS
<1>2. k \in ChatCall /\ k.kind = "create" /\ k.at = "asked" /\ k.list \subseteq OwnedChats
  BY <1>1, ReadersAssumption DEF Asks, ChatCall, handleNewSession, ChatInv, ChatTypes
<1>3. reader' \in Signers \cup {NoReader} /\ (reader' # NoReader => counts.outs < Len(Readers))
  BY DEF handleNewSession, ChatInv, ChatTypes
<1> QED
  BY <1>1, <1>2, <1>3, AskKeeps DEF handleNewSession

LEMMA ReaderLeaves == ASSUME ChatInv, logout  PROVE ChatInv'
<1>1. /\ reader # NoReader /\ reader' = NoReader
      /\ talk' = [talk EXCEPT !.shown = {}] /\ awaiting' = {}
      /\ counts' = [counts EXCEPT !.outs = @ + 1]
      /\ disturbed' = (disturbed \/ chatCalls /= {} \/ awaiting /= {} \/ talk.active /= NoChat)
      /\ UNCHANGED <<chats, chatCalls>>
  BY DEF logout
<1>2. talk'.active = talk.active /\ talk'.list = talk.list /\ talk' \in
        [active : Chats \cup {NoChat}, list : SUBSET Chats, shown : SUBSET (1..MaxSaid)]
  BY <1>1 DEF ChatInv, ChatTypes
<1>3. counts' \in [said : 0..MaxSaid, outs : 0..Len(Readers)]
  BY <1>1, SaidIsCounted DEF ChatInv
<1>4. ChatTypes'
  BY <1>1, <1>2, <1>3 DEF ChatInv, ChatTypes
<1>5. OwnedChats' = OwnedChats /\ OwnRowsOnly'
  BY <1>1 DEF ChatInv, OwnedChats, OwnRowsOnly
<1>6. \A j \in chatCalls' : CallFits(j)'
  BY <1>1, <1>5, FitsStill DEF ChatInv
<1>7. disturbed' \/ Undisturbed'
  BY <1>1, <1>2 DEF Undisturbed, LoadCalls
<1> QED
  BY <1>1, <1>2, <1>4, <1>5, <1>6, <1>7 DEF ChatInv

LEMMA SessionChosen == ASSUME ChatInv, NEW c \in Chats, loadSession(c)  PROVE ChatInv'
<1>1. PICK k : k = Asks("load", c, 0)
  OBVIOUS
<1>2. /\ reader # NoReader /\ c \in talk.list /\ talk' = [talk EXCEPT !.active = c]
      /\ chatCalls' = chatCalls \cup {k}
      /\ disturbed' = (disturbed \/ chatCalls /= {})
      /\ UNCHANGED <<reader, chats, awaiting, counts>>
  BY <1>1 DEF loadSession
<1>3. k \in ChatCall /\ k.kind = "load" /\ k.at = "asked" /\ k.chat = c /\ k.list = {}
  BY <1>1, <1>2, ReadersAssumption DEF Asks, ChatCall, ChatInv, ChatTypes
<1>4. talk'.active = c /\ talk'.list = talk.list /\ talk' \in
        [active : Chats \cup {NoChat}, list : SUBSET Chats, shown : SUBSET (1..MaxSaid)]
  BY <1>2 DEF ChatInv, ChatTypes
<1>5. ChatTypes'
  BY <1>2, <1>3, <1>4 DEF ChatInv, ChatTypes
<1>6. OwnedChats' = OwnedChats /\ OwnRowsOnly' /\ c \in OwnedChats
  BY <1>2 DEF ChatInv, OwnedChats, OwnRowsOnly
<1>7. \A j \in chatCalls' : CallFits(j)'
  BY <1>2, <1>3, <1>6, FitsStill DEF ChatInv, CallFits
<1>8. disturbed' \/ Undisturbed'
  <2>1. ~disturbed' => chatCalls' = {k}
    BY <1>2
  <2> QED
    BY <1>3, <1>4, <2>1 DEF Undisturbed, LoadCalls
<1> QED
  BY <1>2, <1>3, <1>4, <1>5, <1>6, <1>7, <1>8 DEF ChatInv

\* Something is said in a conversation, and nothing else is under way but what
\* was said before.
LEMMA SaidKeeps ==
  ASSUME ChatInv, AddMessage, reader # NoReader, awaiting' \subseteq Chats \cup {NoChat},
         disturbed' \in BOOLEAN, ~disturbed' => ~disturbed /\ \A k \in chatCalls : k.kind = "say",
         UNCHANGED <<reader, chats>>
  PROVE  ChatInv'
<1> DEFINE n == counts.said + 1
<1>1. /\ n <= MaxSaid /\ counts' = [counts EXCEPT !.said = n]
      /\ talk' = [talk EXCEPT !.shown = @ \cup {n}]
      /\ chatCalls' = IF talk.active = NoChat THEN chatCalls
                      ELSE chatCalls \cup {Asks("say", talk.active, n)}
  BY DEF AddMessage
<1>2. n \in 1..MaxSaid /\ counts' \in [said : 0..MaxSaid, outs : 0..Len(Readers)]
      /\ counts'.outs = counts.outs
  <2>1. counts.said \in 0..MaxSaid /\ counts \in [said : 0..MaxSaid, outs : 0..Len(Readers)]
    BY DEF ChatInv, ChatTypes
  <2>2. n \in 1..MaxSaid /\ counts.said < MaxSaid
    BY <1>1, <2>1, ChatLimits
  <2> QED
    BY <1>1, <2>1, <2>2, SaidIsCounted DEF ChatInv
<1>3. talk'.active = talk.active /\ talk'.list = talk.list /\ talk'.shown = talk.shown \cup {n}
      /\ talk' \in
        [active : Chats \cup {NoChat}, list : SUBSET Chats, shown : SUBSET (1..MaxSaid)]
  BY <1>1, <1>2 DEF ChatInv, ChatTypes
<1>4. PICK k : k = Asks("say", talk.active, n)
  OBVIOUS
<1>5. k \in ChatCall /\ k.kind = "say" /\ k.at = "asked" /\ k.chat = talk.active
      /\ k.item = n /\ k.list = {}
  BY <1>2, <1>4, ReadersAssumption DEF Asks, ChatCall, ChatInv, ChatTypes
<1> HIDE DEF n
<1>6. OwnedChats' = OwnedChats /\ OwnRowsOnly' /\ Transcript(talk.active)' = Transcript(talk.active)
  BY <1>3 DEF ChatInv, OwnedChats, OwnRowsOnly, Transcript
<1>7. ChatTypes'
  BY <1>1, <1>2, <1>3, <1>4, <1>5 DEF ChatInv, ChatTypes
<1>8. \A j \in chatCalls' : CallFits(j)'
  BY <1>1, <1>2, <1>4, <1>5, <1>6, FitsStill DEF ChatInv, CallFits
<1>9. ASSUME ~disturbed'  PROVE Undisturbed'
  <2>1. \A j \in chatCalls' : j.kind = "say"
    BY <1>1, <1>4, <1>5, <1>9
  <2>2. LoadCalls = {} /\ Undisturbed
    BY <1>9 DEF ChatInv, LoadCalls
  <2>3. CASE talk.active = NoChat
    BY <1>3, <2>1, <2>3 DEF Undisturbed, LoadCalls
  <2>4. CASE talk.active # NoChat
    <3>1. SaidIn(talk.active)' = SaidIn(talk.active) \cup {n}
      BY <1>1, <1>3, <1>4, <1>5, <2>4 DEF SaidIn
    <3>2. talk'.shown = Transcript(talk.active)' \cup SaidIn(talk.active)'
      BY <1>3, <1>6, <2>2, <2>4, <3>1 DEF Undisturbed
    <3> QED
      BY <2>1, <3>2 DEF Undisturbed, LoadCalls
  <2> QED
    BY <2>3, <2>4
<1> QED
  BY <1>1, <1>3, <1>4, <1>5, <1>6, <1>7, <1>8, <1>9 DEF ChatInv

LEMMA Says ==
  ASSUME ChatInv, savePrompt \/ \E c \in Chats \cup {NoChat} : saveResult(c)  PROVE ChatInv'
<1>1. /\ AddMessage /\ reader # NoReader /\ UNCHANGED <<reader, chats>>
      /\ awaiting' \subseteq Chats \cup {NoChat}
  BY DEF savePrompt, saveResult, ChatInv, ChatTypes
<1>2. disturbed' \in BOOLEAN /\ (~disturbed' => ~disturbed /\ \A k \in chatCalls : k.kind = "say")
  <2>1. CASE savePrompt
    BY <2>1 DEF savePrompt, ChatInv, ChatTypes
  <2>2. ASSUME NEW c \in Chats \cup {NoChat}, saveResult(c)
        PROVE  /\ disturbed' \in BOOLEAN
               /\ ~disturbed' => ~disturbed /\ \A k \in chatCalls : k.kind = "say"
    BY <2>2 DEF saveResult, ChatInv, ChatTypes
  <2> QED
    BY <2>1, <2>2
<1> QED
  BY <1>1, <1>2, SaidKeeps

\* The server has an answer: what it read, or the conversation it made.
LEMMA AnswerKeeps ==
  ASSUME ChatInv, NEW k \in chatCalls, k.at = "asked", NEW ans \in SUBSET Nat,
         HasAnswer(k, ans), UNCHANGED <<reader, talk, awaiting, counts, disturbed>>,
         chats' \in [Chats -> [owner : Signers \cup {NoReader},
                               rows : SUBSET [n : 1..MaxSaid, by : Signers]]],
         OwnedChats \subseteq OwnedChats', OwnRowsOnly',
         \A c \in Chats : /\ chats'[c].rows = chats[c].rows
                          /\ chats'[c].owner = NoReader => chats[c].owner = NoReader,
         \/ k.kind = "list" /\ ans \subseteq OwnedChats
         \/ k.kind = "load" /\ ans = Transcript(k.chat)
         \/ k.kind = "create" /\ \E c \in OwnedChats' \ OwnedChats : ans = {c}
  PROVE  ChatInv'
<1>1. PICK a : a = [k EXCEPT !.at = "answered", !.answer = ans]
  OBVIOUS
<1>2. chatCalls' = (chatCalls \ {k}) \cup {a}
  BY <1>1 DEF HasAnswer
<1>3. k \in ChatCall /\ CallFits(k)
  BY DEF ChatInv, ChatTypes
<1>4. a \in ChatCall /\ a.kind = k.kind /\ a.at = "answered" /\ a.answer = ans
      /\ a.chat = k.chat /\ a.list = k.list /\ a.item = k.item
  BY <1>1, <1>3 DEF ChatCall
<1>5. ChatTypes'
  BY <1>2, <1>4 DEF ChatInv, ChatTypes
<1>6. \A c \in Chats : Transcript(c)' = Transcript(c) /\ Transcript(c) \subseteq 1..MaxSaid
  BY DEF Transcript, ChatInv, ChatTypes
<1>7. CallFits(a)'
  <2>1. k.kind = "load" => k.chat \in Chats
    BY <1>3 DEF CallFits, OwnedChats
  <2> QED
    BY <1>3, <1>4, <1>6, <2>1 DEF CallFits
<1>8. \A j \in chatCalls' : CallFits(j)'
  BY <1>2, <1>7, FitsStill DEF ChatInv
<1>9. \A i, j \in chatCalls' : i.kind = "create" /\ j.kind = "create" => i = j
  BY <1>2, <1>4 DEF ChatInv
<1>10. ASSUME ~disturbed  PROVE Undisturbed'
  <2>1. Undisturbed
    BY <1>10 DEF ChatInv
  <2>2. \A j \in chatCalls' : j.kind # "say" \/ j \in chatCalls
    BY <1>2, <1>4
  <2>3. (LoadCalls = {} <=> LoadCalls' = {}) /\ LoadCalls' \subseteq LoadCalls \cup {a}
        /\ (a \in LoadCalls' => k \in LoadCalls)
    BY <1>2, <1>4 DEF LoadCalls
  <2>4. \A c : SaidIn(c)' = SaidIn(c)
    BY <1>2, <1>4 DEF SaidIn
  <2>5. ASSUME NEW j \in LoadCalls'
        PROVE  /\ j.chat = talk'.active
               /\ j.at = "answered" => j.answer = Transcript(talk.active)'
               /\ \A i \in chatCalls' : i.kind # "say"
    <3>1. PICK l : l \in LoadCalls
      BY <2>3, <2>5
    <3>2. \A i \in chatCalls' : i.kind # "say"
      BY <2>1, <2>2, <3>1 DEF Undisturbed
    <3>3. CASE j \in LoadCalls
      <4>1. j.chat = talk.active /\ (j.at = "answered" => j.answer = Transcript(talk.active))
        BY <2>1, <3>3 DEF Undisturbed
      <4>2. j.chat \in Chats
        BY <3>3 DEF LoadCalls, ChatInv, CallFits, OwnedChats
      <4>3. Transcript(talk.active)' = Transcript(talk.active)
        BY <1>6, <4>1, <4>2 DEF Transcript
      <4> QED
        BY <3>2, <4>1, <4>3
    <3>4. CASE j = a
      <4>1. k \in LoadCalls /\ k.chat \in Chats /\ k.kind = "load"
        BY <1>3, <1>4, <2>3, <2>5, <3>4 DEF LoadCalls, CallFits, OwnedChats
      <4>2. k.chat = talk.active
        BY <2>1, <4>1 DEF Undisturbed
      <4> QED
        BY <1>4, <1>6, <3>2, <3>4, <4>1, <4>2
    <3> QED
      BY <2>3, <3>3, <3>4
  <2>6. ASSUME NEW j \in chatCalls', j.kind = "create", j.at = "answered", NEW c \in j.answer
        PROVE  /\ chats'[c].rows = {} /\ talk'.active # c
               /\ \A i \in chatCalls' : i.kind \in {"load", "say"} => i.chat # c
    <3>1. \A i \in chatCalls' : i.kind \in {"load", "say"} =>
            \E m \in chatCalls : m.kind = i.kind /\ m.chat = i.chat
      BY <1>2, <1>4
    <3>2. CASE j \in chatCalls
      <4>1. /\ chats[c].rows = {} /\ talk.active # c
            /\ \A i \in chatCalls : i.kind \in {"load", "say"} => i.chat # c
        BY <2>1, <2>6, <3>2 DEF Undisturbed
      <4>2. c \in Chats
        BY <2>6, <3>2 DEF ChatInv, CallFits, OwnedChats
      <4> QED
        BY <3>1, <4>1, <4>2
    <3>3. CASE j = a
      <4>1. c \in Chats /\ c \notin OwnedChats
        BY <1>4, <2>6, <3>3 DEF OwnedChats
      <4>2. chats[c].rows = {} /\ talk.active # c
        BY <4>1, ReadersAssumption DEF ChatInv, OwnedChats, Chats
      <4>3. \A i \in chatCalls : i.kind \in {"load", "say"} => i.chat # c
        BY <4>1 DEF ChatInv, CallFits
      <4> QED
        BY <3>1, <4>1, <4>2, <4>3
    <3> QED
      BY <1>2, <2>6, <3>2, <3>3
  <2>7. ASSUME LoadCalls' = {}, talk'.active # NoChat
        PROVE  talk'.shown = Transcript(talk.active)' \cup SaidIn(talk.active)'
    <3>1. talk.shown = Transcript(talk.active) \cup SaidIn(talk.active)
      BY <2>1, <2>3, <2>7 DEF Undisturbed
    <3>2. talk.active \in Chats
      BY <2>7 DEF ChatInv, OwnedChats
    <3>3. Transcript(talk.active)' = Transcript(talk.active)
      BY <1>6, <3>2
    <3>4. SaidIn(talk.active)' = SaidIn(talk.active)
      BY <1>2, <1>4 DEF SaidIn
    <3> QED
      BY <3>1, <3>3, <3>4
  <2> QED
    BY <2>5, <2>6, <2>7 DEF Undisturbed
<1>11. \A c \in Chats : chats'[c].owner = NoReader => chats'[c].rows = {}
  BY DEF ChatInv
<1> QED
  BY <1>5, <1>8, <1>9, <1>10, <1>11 DEF ChatInv

\* A call is over, and its answer is no matter.
LEMMA CallGone ==
  ASSUME ChatInv, NEW k \in chatCalls, chatCalls' = chatCalls \ {k}, disturbed',
         UNCHANGED <<reader, chats, talk, awaiting, counts>>
  PROVE  ChatInv'
<1>1. ChatTypes'
  BY DEF ChatInv, ChatTypes
<1>2. OwnedChats' = OwnedChats /\ OwnRowsOnly'
  BY DEF ChatInv, OwnedChats, OwnRowsOnly
<1>3. \A j \in chatCalls' : CallFits(j)'
  BY <1>2, FitsStill DEF ChatInv
<1> QED
  BY <1>1, <1>2, <1>3 DEF ChatInv
LEMMA MessageStored ==
  ASSUME ChatInv, NEW k \in chatCalls, k.at = "asked", addChatMessage(k),
         UNCHANGED <<reader, talk, awaiting, counts>>
  PROVE  ChatInv'
<1> DEFINE said == [n |-> k.item, by |-> k.by]
<1>1. /\ k.kind = "say" /\ chats[k.chat].owner = k.by
      /\ chats' = [chats EXCEPT ![k.chat].rows = @ \cup {said}]
      /\ chatCalls' = chatCalls \ {k} /\ disturbed' = disturbed
  BY DEF addChatMessage, getChatSession, Done, ChatInv, ChatTypes
<1>2. /\ k \in ChatCall /\ k.chat \in OwnedChats /\ k.chat \in Chats /\ k.item \in 1..MaxSaid
      /\ k.by \in Signers
  BY <1>1 DEF ChatInv, ChatTypes, CallFits, OwnedChats, ChatCall
<1>3. said \in [n : 1..MaxSaid, by : Signers] /\ said.n = k.item /\ said.by = k.by
  BY <1>2
<1> HIDE DEF said
<1>4. /\ chats' \in [Chats -> [owner : Signers \cup {NoReader},
                               rows : SUBSET [n : 1..MaxSaid, by : Signers]]]
      /\ chats'[k.chat].rows = chats[k.chat].rows \cup {said}
      /\ \A c \in Chats : /\ chats'[c].owner = chats[c].owner
                          /\ c # k.chat => chats'[c] = chats[c]
  BY <1>1, <1>2, <1>3 DEF ChatInv, ChatTypes
<1>5. ChatTypes'
  BY <1>1, <1>4 DEF ChatInv, ChatTypes
<1>6. OwnedChats' = OwnedChats
  BY <1>4 DEF OwnedChats
<1>7. OwnRowsOnly'
  <2> SUFFICES ASSUME NEW c \in Chats, NEW r \in chats'[c].rows  PROVE r.by = chats'[c].owner
    BY DEF OwnRowsOnly
  <2>1. r \in chats[c].rows => r.by = chats[c].owner
    BY DEF ChatInv, OwnRowsOnly
  <2> QED
    BY <1>1, <1>3, <1>4, <2>1
<1>8. \A c \in Chats : chats'[c].owner = NoReader => chats'[c].rows = {}
  BY <1>2, <1>4 DEF ChatInv, OwnedChats
<1>9. \A j \in chatCalls' : CallFits(j)'
  BY <1>1, <1>6, FitsStill DEF ChatInv
<1>10. ASSUME ~disturbed  PROVE Undisturbed'
  <2>1. Undisturbed
    BY <1>10 DEF ChatInv
  <2>2. LoadCalls = {}
    BY <1>1, <2>1 DEF Undisturbed
  <2>3. LoadCalls' = {}
    BY <1>1, <2>2 DEF LoadCalls
  <2>4. ASSUME NEW j \in chatCalls', j.kind = "create", j.at = "answered", NEW c \in j.answer
        PROVE  /\ chats'[c].rows = {} /\ talk'.active # c
               /\ \A i \in chatCalls' : i.kind \in {"load", "say"} => i.chat # c
    <3>1. /\ j \in chatCalls /\ chats[c].rows = {} /\ talk.active # c
          /\ \A i \in chatCalls : i.kind \in {"load", "say"} => i.chat # c
      BY <1>1, <2>1, <2>4 DEF Undisturbed
    <3>2. c \in Chats /\ c # k.chat
      BY <1>1, <2>4, <3>1 DEF ChatInv, CallFits, OwnedChats
    <3> QED
      BY <1>1, <1>4, <3>1, <3>2
  <2>5. ASSUME talk.active # NoChat
        PROVE  talk.shown = Transcript(talk.active)' \cup SaidIn(talk.active)'
    <3>1. talk.shown = Transcript(talk.active) \cup SaidIn(talk.active) /\ talk.active \in Chats
      BY <2>1, <2>2, <2>5 DEF Undisturbed, ChatInv, OwnedChats
    <3>2. CASE k.chat = talk.active
      <4>1. Transcript(talk.active)' = Transcript(talk.active) \cup {k.item}
        BY <1>3, <1>4, <3>2 DEF Transcript
      <4>2. SaidIn(talk.active) = SaidIn(talk.active)' \cup {k.item}
        BY <1>1, <3>2 DEF SaidIn
      <4> QED
        BY <3>1, <4>1, <4>2
    <3>3. CASE k.chat # talk.active
      <4>1. Transcript(talk.active)' = Transcript(talk.active)
        BY <1>4, <3>1, <3>3 DEF Transcript
      <4>2. SaidIn(talk.active)' = SaidIn(talk.active)
        BY <1>1, <3>3 DEF SaidIn
      <4> QED
        BY <3>1, <4>1, <4>2
    <3> QED
      BY <3>2, <3>3
  <2> QED
    BY <2>3, <2>4, <2>5 DEF Undisturbed
<1> QED
  BY <1>1, <1>5, <1>6, <1>7, <1>8, <1>9, <1>10 DEF ChatInv

LEMMA ChatServerKeeps == ASSUME ChatInv, NEW k \in chatCalls, ChatServerStep(k)  PROVE ChatInv'
<1>1. k.at = "asked" /\ UNCHANGED <<reader, talk, awaiting, counts>> /\ k \in ChatCall
      /\ CallFits(k)
  BY DEF ChatServerStep, ChatInv, ChatTypes
<1>2. CASE ReadsChats(k)
  <2>1. UNCHANGED <<chats, disturbed>>
    BY <1>2 DEF ReadsChats
  <2>2. OwnedChats' = OwnedChats /\ OwnRowsOnly'
    BY <2>1 DEF OwnedChats, ChatInv, OwnRowsOnly
  <2>3. chats' \in [Chats -> [owner : Signers \cup {NoReader},
                              rows : SUBSET [n : 1..MaxSaid, by : Signers]]]
    BY <2>1 DEF ChatInv, ChatTypes
  <2>4. CASE k.kind = "list" /\ HasAnswer(k, ChatsOf(k.by))
    <3>1. ChatsOf(k.by) \subseteq OwnedChats /\ ChatsOf(k.by) \in SUBSET Nat
      BY <1>1, ChatLimits DEF ChatsOf, OwnedChats, ChatCall, Chats
    <3> QED
      BY <1>1, <2>1, <2>2, <2>3, <2>4, <3>1, AnswerKeeps
  <2>5. CASE k.kind = "load" /\ HasAnswer(k, {r.n : r \in chats[k.chat].rows})
    <3>1. Transcript(k.chat) \in SUBSET Nat /\ Transcript(k.chat) = {r.n : r \in chats[k.chat].rows}
      BY <1>1, <2>5, ChatLimits DEF Transcript, CallFits, OwnedChats, ChatInv, ChatTypes
    <3> QED
      BY <1>1, <2>1, <2>2, <2>3, <2>5, <3>1, AnswerKeeps
  <2> QED
    BY <1>2, <2>4, <2>5 DEF ReadsChats
<1>3. CASE createChatSession(k)
  <2>1. PICK c \in Chats :
          /\ ChatsOf(NoReader) = c..MaxChats
          /\ chats' = [chats EXCEPT ![c].owner = k.by]
          /\ HasAnswer(k, {c})
    BY <1>3 DEF createChatSession
  <2>2. c \in c..MaxChats /\ c \in Nat
    BY ChatLimits DEF Chats
  <2>3. chats[c].owner = NoReader /\ k.by \in Signers /\ k.kind = "create" /\ UNCHANGED disturbed
    BY <1>1, <1>3, <2>1, <2>2 DEF ChatsOf, ChatCall, createChatSession
  <2>4. /\ chats' \in [Chats -> [owner : Signers \cup {NoReader},
                                 rows : SUBSET [n : 1..MaxSaid, by : Signers]]]
        /\ chats'[c].owner = k.by /\ chats'[c].rows = chats[c].rows
        /\ \A d \in Chats : d # c => chats'[d] = chats[d]
    BY <2>1, <2>3 DEF ChatInv, ChatTypes
  <2>5. OwnedChats \subseteq OwnedChats' /\ c \in OwnedChats' \ OwnedChats
    BY <2>3, <2>4, ChatLimits DEF OwnedChats
  <2>6. chats[c].rows = {}
    BY <2>3 DEF ChatInv
  <2>7. OwnRowsOnly'
    BY <2>4, <2>6 DEF ChatInv, OwnRowsOnly
  <2>8. \A d \in Chats : /\ chats'[d].rows = chats[d].rows
                         /\ chats'[d].owner = NoReader => chats[d].owner = NoReader
    BY <2>3, <2>4
  <2>9. {c} \in SUBSET Nat
    BY <2>2
  <2> QED
    BY <1>1, <2>1, <2>3, <2>4, <2>5, <2>7, <2>8, <2>9, AnswerKeeps
<1>4. CASE addChatMessage(k)
  BY <1>1, <1>4, MessageStored
<1>5. CASE ChatRefused(k) \/ ChatCallFails(k)
  BY <1>1, <1>5, CallGone DEF ChatRefused, ChatCallFails, Done
<1> QED
  BY <1>2, <1>3, <1>4, <1>5 DEF ChatServerStep

LEMMA AnswerShown == ASSUME ChatInv, NEW k \in chatCalls, ChatAnswerArrives(k)  PROVE ChatInv'
<1>1. /\ k.at = "answered" /\ chatCalls' = chatCalls \ {k} /\ talk' = Applied(k)
      /\ disturbed' = (disturbed \/ k.by /= reader
           \/ (k.kind = "create" /\ (awaiting /= {} \/ \E j \in chatCalls \ {k} : j.kind = "load"))
           \/ (k.kind = "load" /\ k.chat /= talk.active))
      /\ UNCHANGED <<reader, chats, awaiting, counts>>
  BY DEF ChatAnswerArrives
<1>2. k \in ChatCall /\ CallFits(k)
      /\ talk \in [active : Chats \cup {NoChat}, list : SUBSET Chats, shown : SUBSET (1..MaxSaid)]
  BY DEF ChatInv, ChatTypes
<1>3. OwnedChats' = OwnedChats /\ OwnRowsOnly' /\ OwnedChats \subseteq Chats
  BY <1>1 DEF ChatInv, OwnedChats, OwnRowsOnly
<1>4. disturbed' \in BOOLEAN /\ (~disturbed' => ~disturbed /\ Undisturbed)
  BY <1>1 DEF ChatInv, ChatTypes
<1>5. \A j \in chatCalls' : j \in chatCalls /\ CallFits(j)'
  BY <1>1, <1>3, FitsStill DEF ChatInv
<1>6. ASSUME talk' \in [active : Chats \cup {NoChat}, list : SUBSET Chats,
                        shown : SUBSET (1..MaxSaid)],
             talk'.active \in OwnedChats \cup {NoChat}, talk'.list \subseteq OwnedChats,
             ~disturbed' => Undisturbed'
      PROVE  ChatInv'
  <2>1. ChatTypes'
    BY <1>1, <1>4, <1>6 DEF ChatInv, ChatTypes
  <2> QED
    BY <1>1, <1>3, <1>5, <1>6, <2>1 DEF ChatInv
<1>7. /\ \A c : Transcript(c)' = Transcript(c)
      /\ k.kind # "say" => \A c : SaidIn(c)' = SaidIn(c)
      /\ k.kind # "load" => LoadCalls' = LoadCalls
      /\ LoadCalls' \subseteq LoadCalls
  BY <1>1 DEF Transcript, SaidIn, LoadCalls
<1>8. CASE k.kind = "list"
  <2>1. talk' = [talk EXCEPT !.list = k.answer] /\ k.answer \subseteq OwnedChats
    BY <1>1, <1>2, <1>8 DEF Applied, CallFits
  <2>2. talk'.active = talk.active /\ talk'.shown = talk.shown /\ talk'.list = k.answer
        /\ talk' \in [active : Chats \cup {NoChat}, list : SUBSET Chats, shown : SUBSET (1..MaxSaid)]
    BY <1>2, <1>3, <2>1
  <2>3. ~disturbed' => Undisturbed'
    BY <1>1, <1>4, <1>7, <1>8, <2>2 DEF Undisturbed
  <2> QED
    BY <1>6, <2>1, <2>2, <2>3 DEF ChatInv
<1>9. CASE k.kind = "create"
  <2>1. PICK c \in OwnedChats : k.answer = {c}
    BY <1>1, <1>2, <1>9 DEF CallFits
  <2>2. talk' = [list |-> k.list \cup {c}, active |-> c, shown |-> {}]
    BY <1>1, <1>9, <2>1 DEF Applied
  <2>3. talk'.active = c /\ talk'.shown = {} /\ talk'.list \subseteq OwnedChats
        /\ talk' \in [active : Chats \cup {NoChat}, list : SUBSET Chats, shown : SUBSET (1..MaxSaid)]
    BY <1>2, <1>3, <2>1, <2>2 DEF CallFits
  <2>4. ASSUME ~disturbed'  PROVE Undisturbed'
    <3>1. LoadCalls' = {}
      BY <1>1, <1>9, <2>4 DEF LoadCalls
    <3>2. \A j \in chatCalls' : j.kind # "create"
      BY <1>1, <1>9 DEF ChatInv
    <3>3. chats[c].rows = {} /\ \A j \in chatCalls : j.kind = "say" => j.chat # c
      BY <1>1, <1>4, <1>9, <2>1, <2>4 DEF Undisturbed
    <3>4. Transcript(c)' = {} /\ SaidIn(c)' = {}
      BY <1>1, <3>3 DEF Transcript, SaidIn
    <3> QED
      BY <2>3, <3>1, <3>2, <3>4 DEF Undisturbed
  <2> QED
    BY <1>6, <2>1, <2>3, <2>4
<1>10. CASE k.kind = "load"
  <2>1. talk' = [talk EXCEPT !.shown = k.answer] /\ k.answer \subseteq 1..MaxSaid
    BY <1>1, <1>2, <1>10 DEF Applied, CallFits
  <2>2. talk'.active = talk.active /\ talk'.shown = k.answer /\ talk'.list = talk.list
        /\ talk' \in [active : Chats \cup {NoChat}, list : SUBSET Chats, shown : SUBSET (1..MaxSaid)]
    BY <1>2, <2>1
  <2>3. ASSUME ~disturbed'  PROVE Undisturbed'
    <3>1. Undisturbed /\ k \in LoadCalls
      BY <1>4, <1>10, <2>3 DEF LoadCalls
    <3>2. k.answer = Transcript(talk.active) /\ \A j \in chatCalls : j.kind # "say"
      BY <1>1, <3>1 DEF Undisturbed
    <3>3. SaidIn(talk.active)' = {}
      BY <1>1, <3>2 DEF SaidIn
    <3> QED
      BY <1>1, <1>7, <2>2, <3>1, <3>2, <3>3 DEF Undisturbed
  <2> QED
    BY <1>6, <2>2, <2>3 DEF ChatInv
<1> QED
  BY <1>1, <1>2, <1>8, <1>9, <1>10 DEF CallFits, ChatCall

LEMMA ChatStep == ChatInv /\ [ChatNext]_chatVars => ChatInv'
<1> SUFFICES ASSUME ChatInv, [ChatNext]_chatVars  PROVE ChatInv'
  OBVIOUS
<1>1. CASE UNCHANGED chatVars
  <2>1. UNCHANGED <<reader, chats, talk, chatCalls, awaiting, counts, disturbed>>
    BY <1>1 DEF chatVars
  <2> QED
    BY <2>1 DEF ChatInv, ChatTypes, OwnRowsOnly, OwnedChats, CallFits, Undisturbed, LoadCalls,
                SaidIn, Transcript
<1> QED
  BY <1>1, ReaderComes, ReaderLeaves, SessionAsked, SessionChosen, Says, ChatServerKeeps, AnswerShown
  DEF ChatNext

LEMMA ChatIsCurrent == ChatInv => ChatTypeOK /\ OwnRowsOnly /\ TranscriptIsCurrent
<1> SUFFICES ASSUME ChatInv  PROVE ChatTypeOK /\ OwnRowsOnly /\ TranscriptIsCurrent
  OBVIOUS
<1>1. ChatTypeOK
  BY DEF ChatInv, ChatTypes, ChatTypeOK, ChatCall
<1>2. TranscriptIsCurrent
  <2> SUFFICES ASSUME chatCalls = {}, ~disturbed, talk.active # NoChat
               PROVE  talk.shown = {r.n : r \in chats[talk.active].rows}
    BY DEF TranscriptIsCurrent
  <2>1. LoadCalls = {} /\ SaidIn(talk.active) = {}
    BY DEF LoadCalls, SaidIn
  <2> QED
    BY <2>1 DEF ChatInv, Undisturbed, Transcript
<1> QED
  BY <1>1, <1>2 DEF ChatInv

\* The conversation on the screen is the one that is stored, but for the ways of
\* losing track that the module names, and holds messages of its owner only.
THEOREM TranscriptsAreCurrent ==
  ChatInit /\ [][ChatNext]_chatVars => [](ChatTypeOK /\ OwnRowsOnly /\ TranscriptIsCurrent)
BY ChatBegins, ChatStep, ChatIsCurrent, PTL
-----------------------------------------------------------------------------
(* UserRecords: the settings on the screen and the preferences that are stored. *)

Put == [group : Groups \cup {"read"}, version : 0..MaxSaves]

PrefTypes ==
  /\ settings \in [Groups -> 0..MaxSaves]
  /\ prefs \in [{"ui_theme", "workflow"} -> {NoPref} \cup [group : Groups, version : 0..MaxSaves]]
  /\ prefs["ui_theme"].group \in {"none", "appearance"}
  /\ prefs["workflow"].group \in {"none", "agent", "workflow"}
  /\ puts \in Seq(Put)
  /\ upset \in BOOLEAN

\* What a post of the group holds when it was the last to be sent.
Sent(g) == [group |-> g, version |-> settings[g]]
AllPosts == <<Sent("agent"), Sent("appearance"), Sent("workflow")>>
Read == [group |-> "read", version |-> 0]

\* The server has what is on the screen, or nothing was ever saved.
StoredPrefs ==
  \/ prefs["ui_theme"] = Sent("appearance") /\ prefs["workflow"] = Sent("workflow")
  \/ prefs["ui_theme"] = NoPref /\ prefs["workflow"] = NoPref /\ \A g \in Groups : settings[g] = 0

\* Posts that nothing upsets arrive in the order they are sent in, and with the
\* settings of the screen.
InOrder ==
  \/ puts = <<>> /\ StoredPrefs
  \/ puts = <<Read>> /\ StoredPrefs
  \/ puts = AllPosts
  \/ puts = <<Sent("appearance"), Sent("workflow")>>
  \/ puts = <<Sent("workflow")>> /\ prefs["ui_theme"] = Sent("appearance")
  \/ puts = <<Sent("workflow"), Read>> /\ prefs["ui_theme"] = Sent("appearance")

PrefInv == PrefTypes /\ (upset \/ InOrder)

LEMMA PrefBegins == PrefInit => PrefInv
<1> SUFFICES ASSUME PrefInit  PROVE PrefInv
  OBVIOUS
<1>1. MaxSaves \in Nat /\ 0 \in 0..MaxSaves
  BY ReadersAssumption
<1>2. PrefTypes
  <2>1. settings \in [Groups -> 0..MaxSaves]
    BY <1>1 DEF PrefInit
  <2>2. /\ prefs \in [{"ui_theme", "workflow"} -> {NoPref} \cup [group : Groups, version : 0..MaxSaves]]
        /\ prefs["ui_theme"] = NoPref /\ prefs["workflow"] = NoPref
    BY DEF PrefInit
  <2>3. puts \in Seq(Put)
    BY DEF PrefInit
  <2>4. upset \in BOOLEAN
    BY Zenon DEF PrefInit
  <2> QED
    BY <2>1, <2>2, <2>3, <2>4 DEF PrefTypes, NoPref
<1>3. InOrder
  BY DEF PrefInit, InOrder, StoredPrefs, Groups
<1> QED
  BY <1>2, <1>3 DEF PrefInv

\* A post that leaves the queue; the first one.
LEMMA PostLeaves ==
  ASSUME PrefTypes, NEW i \in 1..Len(puts)
  PROVE  /\ Without(i) \in Seq(Put) /\ Len(Without(i)) = Len(puts) - 1
         /\ i = 1 => \A j \in 1..(Len(puts) - 1) : Without(i)[j] = puts[j + 1]
<1> DEFINE a == SubSeq(puts, 1, i - 1)
           b == SubSeq(puts, i + 1, Len(puts))
<1>0. puts \in Seq(Put) /\ i \in Nat /\ Len(puts) \in Nat
  BY DEF PrefTypes
<1>1. a \in Seq(Put) /\ Len(a) = i - 1
  BY <1>0
<1>2. b \in Seq(Put) /\ Len(b) = Len(puts) - i /\ \A j \in 1..(Len(puts) - i) : b[j] = puts[i + j]
  BY <1>0
<1> HIDE DEF a, b
<1>3. a \o b \in Seq(Put) /\ Len(a \o b) = Len(puts) - 1
  BY <1>0, <1>1, <1>2
<1>4. ASSUME i = 1, NEW j \in 1..(Len(puts) - 1)  PROVE (a \o b)[j] = puts[j + 1]
  BY <1>0, <1>1, <1>2, <1>4
<1> QED
  BY <1>3, <1>4 DEF Without, a, b

\* Sequences of up to three posts.
LEMMA Short ==
  ASSUME NEW S, NEW s \in Seq(S)
  PROVE  /\ Len(s) = 0 => s = <<>>
         /\ Len(s) = 1 => s = <<s[1]>>
         /\ Len(s) = 2 => s = <<s[1], s[2]>>
         /\ Len(s) = 3 => s = <<s[1], s[2], s[3]>>
OBVIOUS

LEMMA PostSizes ==
  ASSUME NEW a, NEW b, NEW c
  PROVE  /\ Len(<<>>) = 0 /\ Len(<<a>>) = 1 /\ Len(<<a, b>>) = 2 /\ Len(<<a, b, c>>) = 3
         /\ <<a>>[1] = a /\ <<a, b>>[1] = a /\ <<a, b>>[2] = b
         /\ <<a, b, c>>[1] = a /\ <<a, b, c>>[2] = b /\ <<a, b, c>>[3] = c
OBVIOUS

\* The posts of a save come after those that were waiting.
LEMMA SettingsSet == ASSUME PrefInv, NEW changed \in SUBSET Groups, setSettings(changed)  PROVE PrefInv'
<1> DEFINE new == [i \in 1..3 |-> [group |-> Posted[i], version |-> settings'[Posted[i]]]]
<1>1. settings' \in [Groups -> 0..MaxSaves]
  <2>1. ASSUME NEW g \in Groups
        PROVE  settings[g] + (IF g \in changed THEN 1 ELSE 0) \in 0..MaxSaves
    <3>1. settings[g] \in 0..MaxSaves /\ MaxSaves \in Nat
      BY <2>1, ReadersAssumption DEF PrefInv, PrefTypes
    <3>2. g \in changed => settings[g] < MaxSaves
      BY DEF setSettings
    <3> QED
      BY <3>1, <3>2
  <2> QED
    BY <2>1 DEF setSettings
<1>2. \A i \in 1..3 : new[i] = (Sent(Posted[i]))' /\ new[i] \in Put
  BY <1>1 DEF Sent, Posted, Put, Groups
<1>3. new \in Seq(Put) /\ Len(new) = 3
  BY <1>2
<1>4. puts \in Seq(Put) /\ puts' = puts \o new
  BY DEF PrefInv, PrefTypes, setSettings
<1>5. Posted[1] = "agent" /\ Posted[2] = "appearance" /\ Posted[3] = "workflow"
  BY DEF Posted
<1>6. new[1] = (Sent("agent"))' /\ new[2] = (Sent("appearance"))' /\ new[3] = (Sent("workflow"))'
  BY <1>2, <1>5
<1> HIDE DEF new
<1>7. puts' \in Seq(Put)
  BY <1>3, <1>4
<1>8. PrefTypes'
  BY <1>1, <1>7 DEF PrefInv, PrefTypes, setSettings
<1>9. ASSUME ~upset'  PROVE puts' = AllPosts'
  <2>1. puts = <<>>
    BY <1>9 DEF setSettings
  <2>2. puts' = new
    BY <1>3, <1>4, <2>1
  <2>3. new = <<new[1], new[2], new[3]>>
    BY <1>3, Short
  <2> QED
    BY <1>6, <2>2, <2>3 DEF AllPosts
<1> QED
  BY <1>8, <1>9 DEF PrefInv, InOrder

\* What is in front is stored.
LEMMA PostArrives == ASSUME PrefInv, NEW i \in 1..Len(puts), upsertUserPreference(i)  PROVE PrefInv'
<1>1. puts' = Without(i) /\ puts' \in Seq(Put) /\ Len(puts') = Len(puts) - 1
  BY PostLeaves DEF PrefInv, upsertUserPreference
<1>2. puts[i] \in Put /\ puts[i].group \in Groups
  BY DEF PrefInv, PrefTypes, upsertUserPreference
<1> DEFINE t == TypeOf(puts[i].group)
<1>3. t \in {"ui_theme", "workflow"} /\ prefs' = [prefs EXCEPT ![t] = puts[i]]
      /\ settings' = settings /\ upset' \in BOOLEAN
  BY DEF TypeOf, upsertUserPreference, PrefInv, PrefTypes
<1>4. PrefTypes'
  <2>1. puts[i] \in [group : Groups, version : 0..MaxSaves]
    BY <1>2 DEF Put
  <2>2. t = "ui_theme" => puts[i].group = "appearance"
    BY <1>2 DEF TypeOf, Groups
  <2>3. t = "workflow" => puts[i].group \in {"agent", "workflow"}
    BY <1>2 DEF TypeOf, Groups
  <2> HIDE DEF t
  <2>4. prefs' \in [{"ui_theme", "workflow"} -> {NoPref} \cup [group : Groups, version : 0..MaxSaves]]
    BY <1>3, <2>1 DEF PrefInv, PrefTypes
  <2>5. prefs'["ui_theme"] = IF t = "ui_theme" THEN puts[i] ELSE prefs["ui_theme"]
    BY <1>3 DEF PrefInv, PrefTypes
  <2>6. prefs'["workflow"] = IF t = "workflow" THEN puts[i] ELSE prefs["workflow"]
    BY <1>3 DEF PrefInv, PrefTypes
  <2> QED
    BY <1>1, <1>3, <2>2, <2>3, <2>4, <2>5, <2>6 DEF PrefInv, PrefTypes
<1>5. ASSUME ~upset'  PROVE InOrder'
  <2>1. i = 1 /\ InOrder
    <3>1. ~upset /\ ~(i > 1)
      BY <1>5, Zenon DEF upsertUserPreference
    <3> QED
      BY <3>1 DEF PrefInv, PrefTypes
  <2>2. \A j \in 1..(Len(puts) - 1) : puts'[j] = puts[j + 1]
    BY <1>1, <2>1, PostLeaves DEF PrefInv
  <2>3. \A g \in Groups : (Sent(g))' = Sent(g)
    BY <1>3 DEF Sent
  <2>4. CASE puts = AllPosts
    <3>1. Len(puts) = 3 /\ puts[2] = Sent("appearance") /\ puts[3] = Sent("workflow")
      BY <2>4, PostSizes DEF AllPosts
    <3>2. puts' = <<puts'[1], puts'[2]>>
      BY <1>1, <3>1, Short
    <3> QED
      BY <2>2, <2>3, <3>1, <3>2 DEF InOrder, Groups
  <2>5. CASE puts = <<Sent("appearance"), Sent("workflow")>>
    <3>1. Len(puts) = 2 /\ puts[1] = Sent("appearance") /\ puts[2] = Sent("workflow")
      BY <2>5, PostSizes
    <3>2. puts' = <<puts'[1]>>
      BY <1>1, <3>1, Short
    <3>3. prefs'["ui_theme"] = Sent("appearance")
      BY <1>3, <2>1, <3>1 DEF Sent, TypeOf, PrefInv, PrefTypes
    <3> QED
      BY <2>2, <2>3, <3>1, <3>2, <3>3 DEF InOrder, Groups
  <2>6. CASE puts = <<Sent("workflow")>> /\ prefs["ui_theme"] = Sent("appearance")
    <3>1. Len(puts) = 1 /\ puts[1] = Sent("workflow")
      BY <2>6, PostSizes
    <3>2. puts' = <<>>
      BY <1>1, <3>1, Short
    <3>3. prefs'["workflow"] = Sent("workflow") /\ prefs'["ui_theme"] = Sent("appearance")
      BY <1>3, <2>1, <2>6, <3>1 DEF Sent, TypeOf, PrefInv, PrefTypes
    <3> QED
      BY <2>3, <3>2, <3>3 DEF InOrder, StoredPrefs, Groups
  <2>7. CASE puts = <<Sent("workflow"), Read>> /\ prefs["ui_theme"] = Sent("appearance")
    <3>1. Len(puts) = 2 /\ puts[1] = Sent("workflow") /\ puts[2] = Read
      BY <2>7, PostSizes
    <3>2. puts' = <<puts'[1]>>
      BY <1>1, <3>1, Short
    <3>3. prefs'["workflow"] = Sent("workflow") /\ prefs'["ui_theme"] = Sent("appearance")
      BY <1>3, <2>1, <2>7, <3>1 DEF Sent, TypeOf, PrefInv, PrefTypes
    <3>4. puts' = <<Read>>
      BY <2>2, <3>1, <3>2
    <3> QED
      BY <2>3, <3>3, <3>4 DEF InOrder, StoredPrefs, Groups, Read
  <2>8. puts # <<>>
    BY <1>1, PostSizes DEF PrefInv, PrefTypes
  <2>9. puts # <<Read>>
    BY <1>2, <2>1, PostSizes DEF Read, Groups
  <2> QED
    BY <2>1, <2>4, <2>5, <2>6, <2>7, <2>8, <2>9 DEF InOrder
<1> QED
  BY <1>4, <1>5 DEF PrefInv

\* Preferences are read: nothing that was stored is put back.
LEMMA SettingsRead == ASSUME PrefInv, NEW i \in 1..Len(puts), fetchSettings(i)  PROVE PrefInv'
<1>1. puts' = Without(i) /\ puts' \in Seq(Put) /\ Len(puts') = Len(puts) - 1
  BY PostLeaves DEF PrefInv, fetchSettings
<1>2. settings' \in [Groups -> 0..MaxSaves]
  <2>1. ASSUME NEW g \in Groups
        PROVE  (IF prefs[TypeOf(g)].group = g THEN prefs[TypeOf(g)].version ELSE settings[g])
                 \in 0..MaxSaves
    <3>1. TypeOf(g) \in {"ui_theme", "workflow"}
      BY DEF TypeOf
    <3>2. prefs[TypeOf(g)].group = g => prefs[TypeOf(g)] # NoPref
      BY <2>1 DEF NoPref, Groups
    <3> QED
      BY <2>1, <3>1, <3>2 DEF PrefInv, PrefTypes
  <2> QED
    BY <2>1 DEF fetchSettings
<1>3. PrefTypes'
  BY <1>1, <1>2 DEF fetchSettings, PrefInv, PrefTypes
<1>4. ASSUME ~upset'  PROVE InOrder'
  <2>1. InOrder /\ Len(puts) = 1 /\ i = 1 /\ puts[1].group = "read"
    <3>1. ~upset /\ ~(Len(puts) > 1) /\ puts[i].group = "read"
      BY <1>4, Zenon DEF fetchSettings
    <3>2. puts \in Seq(Put) /\ ~(Len(puts) > 1)
      BY <3>1 DEF PrefInv, PrefTypes
    <3>3. i = 1 /\ Len(puts) = 1
      BY <3>2
    <3> QED
      BY <3>1, <3>3 DEF PrefInv
  <2>2. StoredPrefs
    BY <2>1, PostSizes DEF InOrder, AllPosts, Sent
  <2>3. puts' = <<>>
    BY <1>1, <2>1, Short
  <2>4. settings' = settings
    <3>1. ASSUME NEW g \in Groups  PROVE settings'[g] = settings[g]
      BY <3>1, <2>2 DEF fetchSettings, TypeOf, StoredPrefs, Sent, NoPref, Groups
    <3> QED
      BY <1>2, <3>1 DEF PrefInv, PrefTypes
  <2> QED
    BY <2>2, <2>3, <2>4 DEF fetchSettings, InOrder, StoredPrefs, Sent
<1> QED
  BY <1>3, <1>4 DEF PrefInv

LEMMA FetchBegins == ASSUME PrefInv, BeginFetch  PROVE PrefInv'
<1>1. Read \in Put
  BY ReadersAssumption DEF Read, Put
<1>2. puts \in Seq(Put) /\ puts' = Append(puts, Read) /\ Len(puts) < 2 /\ Len(puts) \in Nat
  BY DEF PrefInv, PrefTypes, BeginFetch, Read
<1>3. puts' \in Seq(Put) /\ Len(puts') = Len(puts) + 1
  BY <1>1, <1>2
<1>4. PrefTypes'
  BY <1>3 DEF PrefInv, PrefTypes, BeginFetch
<1>5. ASSUME ~upset'  PROVE InOrder'
  <2>1. InOrder
    BY <1>5 DEF PrefInv, BeginFetch
  <2>2. \A i \in 1..Len(puts) : puts[i].group # "read"
    BY DEF BeginFetch
  <2>3. CASE puts = <<>>
    <3>1. puts' = <<Read>>
      BY <1>2, <2>3
    <3>2. StoredPrefs
      BY <2>1, <2>3, PostSizes DEF InOrder, AllPosts
    <3> QED
      BY <3>1, <3>2 DEF BeginFetch, InOrder, StoredPrefs, Sent, Read
  <2>4. CASE puts = <<Sent("workflow")>> /\ prefs["ui_theme"] = Sent("appearance")
    <3>1. Len(puts) = 1 /\ puts[1] = Sent("workflow")
      BY <2>4, PostSizes
    <3>2. Len(puts') = 2 /\ puts'[1] = Sent("workflow") /\ puts'[2] = Read
      BY <1>1, <1>2, <1>3, <3>1
    <3>3. puts' = <<Sent("workflow"), Read>>
      BY <1>3, <3>2, Short
    <3> QED
      BY <2>4, <3>3 DEF BeginFetch, InOrder, Sent, Read
  <2>5. puts # <<Read>>
    BY <2>2, PostSizes DEF Read
  <2> QED
    BY <1>2, <2>1, <2>3, <2>4, <2>5, PostSizes DEF InOrder, AllPosts
<1> QED
  BY <1>4, <1>5 DEF PrefInv

LEMMA PrefStep == PrefInv /\ [PrefNext]_prefVars => PrefInv'
<1> SUFFICES ASSUME PrefInv, [PrefNext]_prefVars  PROVE PrefInv'
  OBVIOUS
<1>1. CASE UNCHANGED prefVars
  BY <1>1 DEF prefVars, PrefInv, PrefTypes, InOrder, StoredPrefs, AllPosts, Sent, Read
<1>2. ASSUME NEW i \in 1..Len(puts), PutFails(i)  PROVE PrefInv'
  BY <1>2, PostLeaves DEF PutFails, PrefInv, PrefTypes
<1>3. CASE PrefNext
  BY <1>2, <1>3, FetchBegins, SettingsSet, PostArrives, SettingsRead DEF PrefNext
<1> QED
  BY <1>1, <1>3

LEMMA PrefsAreKept == PrefInv => SettingsAreKept
<1> SUFFICES ASSUME PrefInv, puts = <<>>, ~upset, NEW g \in Groups, settings[g] > 0
             PROVE  /\ prefs.ui_theme = [group |-> "appearance", version |-> settings.appearance]
                    /\ prefs.workflow = [group |-> "workflow", version |-> settings.workflow]
  BY DEF SettingsAreKept
<1>1. StoredPrefs
  BY PostSizes DEF PrefInv, InOrder, AllPosts
<1> QED
  BY <1>1 DEF StoredPrefs, Sent, PrefInv, PrefTypes, Groups

\* Unless a post fails or two of them cross, the server keeps the settings of the
\* screen, though two groups share a preference.
THEOREM SettingsStay == PrefInit /\ [][PrefNext]_prefVars => []SettingsAreKept
BY PrefBegins, PrefStep, PrefsAreKept, PTL
-----------------------------------------------------------------------------
(* SharedContext: turns of executions that overlap. *)

LEMMA ContextBegins == ContextInit => ContextTypeOK /\ TurnsAreShared
<1> SUFFICES ASSUME ContextInit  PROVE ContextTypeOK /\ TurnsAreShared
  OBVIOUS
<1>1. PICK by \in [Executions -> ContextExperts] :
        execution = [x \in Executions |-> [at |-> "new", expert |-> by[x], seen |-> <<>>]]
  BY DEF ContextInit
<1>2. <<>> \in Seq(ContextTurn) /\ <<>> \in Seq(Executions)
  OBVIOUS
<1>3. execution \in [Executions -> [at : {"new", "pruning", "asking", "done"},
                                    expert : ContextExperts, seen : Seq(ContextTurn)]]
  BY <1>1, <1>2
<1>4. private \in [ContextExperts -> [kind : {NoArray, "array"}, turns : Seq(ContextTurn)]]
  BY <1>2 DEF ContextInit
<1> QED
  BY <1>2, <1>3, <1>4 DEF ContextInit, ContextTypeOK, TurnsAreShared

LEMMA HistoryIsTurns ==
  ASSUME ContextTypeOK, NEW e \in ContextExperts  PROVE historyOf(e) \in Seq(ContextTurn)
BY DEF ContextTypeOK, historyOf

\* The pruner returns turns that it was given, and a summary.
LEMMA PruningKeepsTurns ==
  ASSUME NEW s \in Seq(ContextTurn), NEW t \in pruneSessionMemory(s)
  PROVE  t \in Seq(ContextTurn)
<1> DEFINE recent == SubSeq(s, Len(s) - RecentTurns + 1, Len(s))
<1>1. ASSUME ~(Len(s) <= RecentTurns)  PROVE recent \in Seq(ContextTurn)
  BY <1>1, ContextAssumption
<1>2. <<Summary>> \in Seq(ContextTurn)
  BY DEF ContextTurn
<1>3. t = s \/ (~(Len(s) <= RecentTurns) /\ (t = recent \/ t = <<Summary>> \o recent))
  BY DEF pruneSessionMemory
<1> HIDE DEF recent
<1>4. CASE t = s
  BY <1>4
<1>5. CASE ~(Len(s) <= RecentTurns) /\ t = recent
  BY <1>1, <1>5
<1>6. CASE ~(Len(s) <= RecentTurns) /\ t = <<Summary>> \o recent
  BY <1>1, <1>2, <1>6
<1> QED
  BY <1>3, <1>4, <1>5, <1>6

LEMMA ContextStep ==
  ContextTypeOK /\ TurnsAreShared /\ [ContextNext]_contextVars => (ContextTypeOK /\ TurnsAreShared)'
<1> SUFFICES ASSUME ContextTypeOK, TurnsAreShared, [ContextNext]_contextVars
             PROVE  ContextTypeOK' /\ TurnsAreShared'
  OBVIOUS
<1> DEFINE ExecutionT == [at : {"new", "pruning", "asking", "done"},
                          expert : ContextExperts, seen : Seq(ContextTurn)]
           PrivateT == [kind : {NoArray, "array"}, turns : Seq(ContextTurn)]
<1>0. /\ store \in Seq(ContextTurn) /\ private \in [ContextExperts -> PrivateT]
      /\ execution \in [Executions -> ExecutionT] /\ current \in BOOLEAN
      /\ committed \in Seq(Executions)
  BY DEF ContextTypeOK
<1>1. CASE UNCHANGED contextVars
  BY <1>1 DEF contextVars, ContextTypeOK, TurnsAreShared
<1>2. ASSUME NEW x \in Executions, NEW e \in ContextExperts, execute(x, e)
      PROVE  ContextTypeOK' /\ TurnsAreShared'
  <2>1. PICK at \in {"pruning", "asking"} :
          execution' = [execution EXCEPT ![x].at = at, ![x].seen = historyOf(e)]
    BY <1>2 DEF execute
  <2>2. PICK h : h = historyOf(e) /\ h \in Seq(ContextTurn)
    BY HistoryIsTurns
  <2>3. execution' = [execution EXCEPT ![x] = [execution[x] EXCEPT !.at = at, !.seen = h]]
    BY <2>1, <2>2
  <2>4. [execution[x] EXCEPT !.at = at, !.seen = h] \in ExecutionT
    BY <1>0, <2>2
  <2>5. execution' \in [Executions -> ExecutionT]
    BY <1>0, <2>3, <2>4
  <2> QED
    BY <1>0, <1>2, <2>5 DEF execute, ContextTypeOK, TurnsAreShared
<1>3. ASSUME NEW x \in Executions, NEW e \in ContextExperts, summarizeHistory(x, e)
      PROVE  ContextTypeOK' /\ TurnsAreShared'
  <2>1. PICK turns \in pruneSessionMemory(execution[x].seen) :
          /\ private' = [private EXCEPT ![e] = [kind |-> "array", turns |-> turns]]
          /\ store' = turns
          /\ execution' = [execution EXCEPT ![x].at = "asking", ![x].seen = turns]
    BY <1>3 DEF summarizeHistory, setHistory
  <2>2. execution[x].seen \in Seq(ContextTurn)
    BY <1>0
  <2>3. turns \in Seq(ContextTurn)
    BY <2>2, PruningKeepsTurns
  <2>4. [kind |-> "array", turns |-> turns] \in PrivateT
    BY <2>3
  <2>5. private' \in [ContextExperts -> PrivateT] /\ private'[e].kind = "array"
    BY <1>0, <2>1, <2>4
  <2>6. [execution[x] EXCEPT !.at = "asking", !.seen = turns] \in ExecutionT
    BY <1>0, <2>3
  <2>7. execution' = [execution EXCEPT ![x] = [execution[x] EXCEPT !.at = "asking", !.seen = turns]]
    BY <2>1
  <2>8. execution' \in [Executions -> ExecutionT]
    BY <1>0, <2>6, <2>7
  <2>9. TurnsAreShared'
    BY <2>5 DEF TurnsAreShared, NoArray
  <2> QED
    BY <1>0, <1>3, <2>1, <2>3, <2>5, <2>8, <2>9 DEF summarizeHistory, ContextTypeOK
<1>4. ASSUME NEW x \in Executions, NEW e \in ContextExperts, commitHistory(x, e)
      PROVE  ContextTypeOK' /\ TurnsAreShared'
  <2>1. PICK turns : turns = Append(historyOf(e), x)
    OBVIOUS
  <2>2. /\ private' = IF private[e].kind = NoArray THEN private
                      ELSE [private EXCEPT ![e].turns = turns]
        /\ store' = turns /\ committed' = Append(committed, x)
        /\ execution' = [execution EXCEPT ![x].at = "done"] /\ current' = current
    BY <1>4, <2>1 DEF commitHistory, setHistory, ExecutionGoes
  <2>3. turns \in Seq(ContextTurn)
    BY <2>1, HistoryIsTurns DEF ContextTurn
  <2>4. private' \in [ContextExperts -> PrivateT]
        /\ \A f \in ContextExperts : private'[f].kind = private[f].kind
    BY <1>0, <2>2, <2>3
  <2>5. execution' \in [Executions -> ExecutionT]
    BY <1>0, <2>2
  <2>7. committed' \in Seq(Executions)
    BY <1>0, <2>2
  <2>6. ASSUME \A f \in ContextExperts : private'[f].kind = NoArray  PROVE store' = committed'
    <3>1. historyOf(e) = store /\ store = committed
      BY <2>4, <2>6 DEF historyOf, TurnsAreShared
    <3> QED
      BY <2>1, <2>2, <3>1
  <2> QED
    BY <1>0, <2>2, <2>3, <2>4, <2>5, <2>7, <2>6 DEF ContextTypeOK, TurnsAreShared
<1>5. ASSUME NEW x \in Executions, NEW e \in ContextExperts, ExecuteFails(x, e)
      PROVE  ContextTypeOK' /\ TurnsAreShared'
  <2>1. execution' \in [Executions -> ExecutionT]
    BY <1>0, <1>5 DEF ExecuteFails, ExecutionGoes
  <2> QED
    BY <1>0, <1>5, <2>1 DEF ExecuteFails, ContextTypeOK, TurnsAreShared
<1>6. CASE flushContext
  BY <1>0, <1>6 DEF flushContext, ContextTypeOK, TurnsAreShared
<1>7. CASE purgeExpired
  <2>1. <<>> \in Seq(ContextTurn) /\ <<>> \in Seq(Executions)
    OBVIOUS
  <2> QED
    BY <1>0, <1>7, <2>1 DEF purgeExpired, ContextTypeOK, TurnsAreShared
<1> QED
  BY <1>1, <1>2, <1>3, <1>4, <1>5, <1>6, <1>7 DEF ContextNext

\* Executions that overlap lose none of each other's turns as long as no expert has
\* compressed its history.
THEOREM TurnsStayShared == ContextSpec => [](ContextTypeOK /\ TurnsAreShared)
BY ContextBegins, ContextStep, PTL DEF ContextSpec
-----------------------------------------------------------------------------
(* WorkspaceEdits: changes that nobody overwrites. *)

Content == (SUBSET Edits) \cup {Absent}
EditCall == [tool : Tool, base : Content, seen : Content,
             at : {"new", "asserting", "read", "fresh", "hashing", "done", "failed"}]

\* A call between its read and its write has read what the file holds, unless a
\* change landed in between; a creation found no file, an edit found one.
EditInv ==
  /\ file \in Content /\ known \in Content
  /\ edit \in [Edits -> EditCall]
  /\ landed \subseteq Edits /\ raced \in BOOLEAN
  /\ \A e \in Edits :
       /\ edit[e].tool = "create_file" => edit[e].base = Absent
       /\ edit[e].at = "fresh" => edit[e].tool = "edit_file"
       /\ edit[e].at \in {"read", "fresh"} =>
            /\ edit[e].tool \in {"create_file", "edit_file"}
            /\ edit[e].tool = "edit_file" => edit[e].base # Absent
            /\ raced \/ edit[e].base = file
  /\ raced \/ landed = file \/ (landed = {} /\ file \in {Absent, {}})

\* Who wrote nothing and changed its own state alone.
LEMMA OneCallMoves ==
  ASSUME EditInv, NEW e \in Edits, NEW c \in EditCall, edit' = [edit EXCEPT ![e] = c],
         UNCHANGED <<file, landed, raced>>, known' \in Content,
         c.tool = edit[e].tool,
         c.tool = "create_file" => c.base = Absent,
         c.at = "fresh" => c.tool = "edit_file",
         c.at \in {"read", "fresh"} =>
            /\ c.tool \in {"create_file", "edit_file"}
            /\ c.tool = "edit_file" => c.base # Absent
            /\ raced \/ c.base = file
  PROVE  EditInv'
<1>1. edit' \in [Edits -> EditCall] /\ edit'[e] = c
      /\ \A d \in Edits \ {e} : edit'[d] = edit[d]
  BY DEF EditInv
<1>2. ASSUME NEW d \in Edits
      PROVE  /\ edit'[d].tool = "create_file" => edit'[d].base = Absent
             /\ edit'[d].at = "fresh" => edit'[d].tool = "edit_file"
             /\ edit'[d].at \in {"read", "fresh"} =>
                  /\ edit'[d].tool \in {"create_file", "edit_file"}
                  /\ edit'[d].tool = "edit_file" => edit'[d].base # Absent
                  /\ raced' \/ edit'[d].base = file'
  BY <1>1 DEF EditInv
<1> QED
  BY <1>1, <1>2 DEF EditInv

\* A change that lands makes of the file what it was and the change, unless the
\* call is overtaken.
LEMMA ChangeLands ==
  ASSUME EditInv, NEW e \in Edits, NEW content \in SUBSET Edits, NEW c \in EditCall,
         Lands(e, content), edit' = [edit EXCEPT ![e] = c], UNCHANGED known,
         c.tool = edit[e].tool, c.at \in {"hashing", "done"},
         c.tool = "create_file" => c.base = Absent,
         raced \/ (content = {e} /\ file = Absent) \/ (content = file \cup {e} /\ file # Absent)
  PROVE  EditInv'
<1>1. /\ edit' \in [Edits -> EditCall] /\ edit'[e] = c
      /\ \A d \in Edits \ {e} : edit'[d] = edit[d]
  BY DEF EditInv
<1>2. /\ file' = content /\ landed' = landed \cup {e}
      /\ raced' = (raced \/ \E d \in Edits \ {e} : edit[d].at \in {"read", "fresh"})
  BY DEF Lands
<1>3. raced' \in BOOLEAN
  BY <1>2, Zenon
<1>4. ASSUME ~raced'
      PROVE  ~raced /\ \A d \in Edits \ {e} : edit[d].at \notin {"read", "fresh"}
  BY <1>2, <1>4, Zenon
<1>5. Absent \notin SUBSET Edits
  BY EditsAssumption DEF Absent
<1>6. ASSUME NEW d \in Edits
      PROVE  /\ edit'[d].tool = "create_file" => edit'[d].base = Absent
             /\ edit'[d].at = "fresh" => edit'[d].tool = "edit_file"
             /\ edit'[d].at \in {"read", "fresh"} =>
                  /\ edit'[d].tool \in {"create_file", "edit_file"}
                  /\ edit'[d].tool = "edit_file" => edit'[d].base # Absent
                  /\ raced' \/ edit'[d].base = file'
  BY <1>1, <1>4 DEF EditInv
<1>7. ASSUME ~raced'  PROVE landed' = file'
  <2>1. landed = file \/ (landed = {} /\ file \in {Absent, {}})
    BY <1>4, <1>7 DEF EditInv
  <2>2. landed # Absent
    BY <1>5 DEF EditInv
  <2> QED
    BY <1>2, <1>4, <1>7, <2>1, <2>2
<1>8. landed' \subseteq Edits /\ file' \in Content /\ known' \in Content
  BY <1>2 DEF EditInv, Content
<1> QED
  BY <1>1, <1>3, <1>6, <1>7, <1>8 DEF EditInv

LEMMA EditsBegin == EditInit => EditInv
<1> SUFFICES ASSUME EditInit  PROVE EditInv
  OBVIOUS
<1>1. PICK of \in [Edits -> Tool] :
        edit = [e \in Edits |-> [tool |-> of[e], at |-> "new", base |-> Absent, seen |-> Absent]]
  BY DEF EditInit
<1>2. Absent \in Content /\ {} \in Content
  BY DEF Content
<1>3. edit \in [Edits -> EditCall]
  BY <1>1, <1>2 DEF EditCall
<1> QED
  BY <1>1, <1>2, <1>3 DEF EditInit, EditInv

LEMMA EditStep == EditInv /\ [EditNext]_editVars => EditInv'
<1> SUFFICES ASSUME EditInv, [EditNext]_editVars  PROVE EditInv'
  OBVIOUS
<1>1. CASE UNCHANGED editVars
  BY <1>1 DEF editVars, EditInv
<1>2. ASSUME NEW e \in Edits,
             \/ readFileWithLines(e) \/ setSnapshot(e)
             \/ TakeSnapshot(e) \/ ReadCurrent(e) \/ assertFreshRead(e) \/ RejectEdit(e)
             \/ editFile(e) \/ createFile(e) \/ run_command(e)
      PROVE  EditInv'
  <2>0. edit[e] \in EditCall /\ edit[e].base \in Content
    BY DEF EditInv, EditCall
  <2>1. CASE readFileWithLines(e)
    <3>1. PICK at \in {"failed", "hashing"} :
            edit' = [edit EXCEPT ![e].at = at, ![e].base = file]
      BY <2>1 DEF readFileWithLines
    <3>2. PICK c : c = [edit[e] EXCEPT !.at = at, !.base = file]
      OBVIOUS
    <3>3. c \in EditCall /\ edit' = [edit EXCEPT ![e] = c] /\ c.at = at /\ c.tool = "read_file"
          /\ c.tool = edit[e].tool
      BY <2>0, <2>1, <3>1, <3>2 DEF EditInv, EditCall, readFileWithLines, EditAt
    <3> QED
      BY <2>1, <3>1, <3>3, OneCallMoves DEF readFileWithLines, EditInv
  <2>2. CASE setSnapshot(e)
    <3>1. PICK c : c = [edit[e] EXCEPT !.at = "done"]
      OBVIOUS
    <3>2. c \in EditCall /\ edit' = [edit EXCEPT ![e] = c] /\ c.at = "done" /\ c.tool = edit[e].tool
          /\ c.base = edit[e].base
      BY <2>0, <2>2, <3>1 DEF EditInv, EditCall, setSnapshot, EditGoes
    <3> QED
      BY <2>0, <2>2, <3>2, OneCallMoves DEF setSnapshot, EditInv
  <2>3. CASE TakeSnapshot(e)
    <3>1. CASE known = Absent
      <4>1. PICK c : c = [edit[e] EXCEPT !.at = "failed"]
        OBVIOUS
      <4>2. c \in EditCall /\ edit' = [edit EXCEPT ![e] = c] /\ c.at = "failed"
            /\ c.tool = edit[e].tool /\ c.base = edit[e].base
        BY <2>0, <2>3, <3>1, <4>1 DEF EditInv, EditCall, TakeSnapshot, EditGoes
      <4> QED
        BY <2>0, <2>3, <4>2, OneCallMoves DEF TakeSnapshot, EditInv
    <3>2. CASE known # Absent
      <4>1. PICK c : c = [edit[e] EXCEPT !.at = "asserting", !.seen = known]
        OBVIOUS
      <4>2. edit' = [edit EXCEPT ![e] = c]
        BY <2>3, <3>2, <4>1 DEF TakeSnapshot
      <4>3. c \in EditCall /\ c.at = "asserting" /\ c.tool = edit[e].tool /\ c.base = edit[e].base
        BY <2>0, <4>1 DEF EditInv, EditCall
      <4> QED
        BY <2>0, <2>3, <4>2, <4>3, OneCallMoves DEF TakeSnapshot, EditInv
    <3> QED
      BY <3>1, <3>2
  <2>4. CASE ReadCurrent(e)
    <3>1. PICK at : at = IF file = Absent THEN "failed" ELSE "read"
      OBVIOUS
    <3>2. PICK c : c = [edit[e] EXCEPT !.at = at, !.base = file]
      OBVIOUS
    <3>3. edit' = [edit EXCEPT ![e] = c]
      BY <2>4, <3>1, <3>2 DEF ReadCurrent
    <3>4. c \in EditCall /\ c.at = at /\ c.tool = edit[e].tool /\ c.base = file
      BY <2>0, <3>1, <3>2 DEF EditInv, EditCall
    <3> QED
      BY <2>4, <3>1, <3>3, <3>4, OneCallMoves DEF ReadCurrent, EditAt, EditInv
  <2>5. CASE assertFreshRead(e)
    <3>1. PICK at \in {"fresh", "failed"} : edit' = [edit EXCEPT ![e].at = at]
      BY <2>5 DEF assertFreshRead, EditGoes
    <3>2. PICK c : c = [edit[e] EXCEPT !.at = at]
      OBVIOUS
    <3>3. c \in EditCall /\ edit' = [edit EXCEPT ![e] = c] /\ c.at = at /\ c.tool = edit[e].tool
          /\ c.base = edit[e].base
      BY <2>0, <3>1, <3>2 DEF EditInv, EditCall
    <3> QED
      BY <2>5, <3>3, OneCallMoves DEF assertFreshRead, EditAt, EditInv
  <2>6. CASE RejectEdit(e)
    <3>1. PICK c : c = [edit[e] EXCEPT !.at = "failed"]
      OBVIOUS
    <3>2. c \in EditCall /\ edit' = [edit EXCEPT ![e] = c] /\ c.at = "failed" /\ c.tool = edit[e].tool
          /\ c.base = edit[e].base
      BY <2>0, <2>6, <3>1 DEF EditInv, EditCall, RejectEdit, FailsEdit, EditGoes
    <3> QED
      BY <2>6, <3>2, OneCallMoves DEF RejectEdit, FailsEdit, EditInv
  <2>7. CASE editFile(e)
    <3>1. PICK content : content = edit[e].base \cup {e}
      OBVIOUS
    <3>2. edit[e].base # Absent /\ edit[e].tool = "edit_file" /\ (raced \/ edit[e].base = file)
      BY <2>7 DEF editFile, EditAt, EditInv
    <3>3. edit[e].base \in SUBSET Edits /\ content \in SUBSET Edits
      BY <2>0, <3>1, <3>2 DEF Content
    <3>4. PICK c : c = [edit[e] EXCEPT !.at = "hashing", !.base = content]
      OBVIOUS
    <3>5. edit' = [edit EXCEPT ![e] = c] /\ Lands(e, content)
      BY <2>7, <3>1, <3>4 DEF editFile
    <3>6. c \in EditCall /\ c.at = "hashing" /\ c.tool = edit[e].tool
      BY <2>0, <3>3, <3>4 DEF EditCall, Content
    <3>7. raced \/ (content = {e} /\ file = Absent) \/ (content = file \cup {e} /\ file # Absent)
      BY <3>1, <3>2
    <3>8. known' = known /\ c.at \in {"hashing", "done"} /\ c.tool # "create_file"
      BY <2>7, <3>2, <3>6 DEF editFile
    <3> QED
      BY <3>3, <3>5, <3>6, <3>7, <3>8, ChangeLands
  <2>8. CASE createFile(e)
    <3>1. CASE EditAt(e, "create_file", "new") /\ EditGoes(e, IF file = Absent THEN "read" ELSE "failed")
               /\ UNCHANGED <<file, landed, raced>>
      <4>1. PICK at : at = IF file = Absent THEN "read" ELSE "failed"
        OBVIOUS
      <4>2. PICK c : c = [edit[e] EXCEPT !.at = at]
        OBVIOUS
      <4>3. edit' = [edit EXCEPT ![e] = c]
        BY <3>1, <4>1, <4>2 DEF EditGoes
      <4>4. c \in EditCall /\ c.at = at /\ c.tool = edit[e].tool /\ c.base = edit[e].base
        BY <2>0, <4>1, <4>2 DEF EditInv, EditCall
      <4> QED
        BY <2>8, <3>1, <4>1, <4>3, <4>4, OneCallMoves DEF createFile, EditAt, EditInv
    <3>2. CASE EditAt(e, "create_file", "read") /\ Lands(e, {e}) /\ EditGoes(e, "done")
      <4>1. PICK c : c = [edit[e] EXCEPT !.at = "done"]
        OBVIOUS
      <4>2. c \in EditCall /\ edit' = [edit EXCEPT ![e] = c] /\ c.at = "done" /\ c.tool = edit[e].tool
            /\ c.base = edit[e].base
        BY <2>0, <3>2, <4>1 DEF EditInv, EditCall, EditGoes
      <4>3. edit[e].base = Absent /\ (raced \/ file = Absent)
        BY <3>2 DEF EditAt, EditInv
      <4>4. raced \/ ({e} = {e} /\ file = Absent) \/ ({e} = file \cup {e} /\ file # Absent)
        BY <4>3
      <4>5. known' = known /\ c.at \in {"hashing", "done"} /\ {e} \in SUBSET Edits
        BY <2>8, <4>2 DEF createFile
      <4> QED
        BY <3>2, <4>2, <4>3, <4>4, <4>5, ChangeLands
    <3> QED
      BY <2>8, <3>1, <3>2 DEF createFile
  <2>9. CASE run_command(e)
    <3>1. PICK content : content = file \cup {e}
      OBVIOUS
    <3>2. content \in SUBSET Edits /\ file # Absent
      BY <2>9, <3>1 DEF run_command, EditInv, Content
    <3>3. PICK c : c = [edit[e] EXCEPT !.at = "done"]
      OBVIOUS
    <3>4. c \in EditCall /\ edit' = [edit EXCEPT ![e] = c] /\ c.at = "done" /\ c.tool = edit[e].tool
          /\ c.base = edit[e].base
      BY <2>0, <2>9, <3>3 DEF EditInv, EditCall, run_command, EditGoes
    <3> QED
      BY <2>9, <3>1, <3>2, <3>4, ChangeLands DEF run_command, EditInv
  <2> QED
    BY <1>2, <2>1, <2>2, <2>3, <2>4, <2>5, <2>6, <2>7, <2>8, <2>9
<1> QED
  BY <1>1, <1>2 DEF EditNext

LEMMA EditsAreKept == EditInv => EditTypeOK /\ LostOnlyInRaces
BY DEF EditInv, EditTypeOK, LostOnlyInRaces, Content, EditCall

\* A change of a file is lost only to a call that had read the file before it.
THEOREM EditsStay == EditSpec => [](EditTypeOK /\ LostOnlyInRaces)
BY EditsBegin, EditStep, EditsAreKept, PTL DEF EditSpec
-----------------------------------------------------------------------------
(* RunRecords: the last word about a run. *)

Statuses == {"none", "running", "completed", "failed"}

RecordTypes ==
  /\ run \in [at : {"guarding", "recording", "routing", "working", "merging", "failing",
                    "ending", "over", "stopped"},
              outcome : {"none", "refused", "completed", "failed"}]
  /\ Primary \in swarm /\ swarm \subseteq SwarmExperts
  /\ expert \in [SwarmExperts -> {"idle", "starting", "working", "completed", "failed"}]
  /\ \A e \in SwarmExperts \ swarm : expert[e] = "idle"
  /\ record \in [Records -> Statuses]
  /\ rollout \in {"none", "planning", "completed", "failed"}
  /\ unwritten \subseteq Records \cup {"rollout"}
  /\ outlived \in BOOLEAN

\* What is known of the end as the run comes to it.
RunTold == "run" \in unwritten \/ outlived \/ record["run"] = run.outcome
FileTold == "rollout" \in unwritten \/ rollout \in {"none", run.outcome}
AllCompleted == run.outcome = "completed" => \A e \in swarm : expert[e] = "completed"
PeersTold ==
  \A e \in swarm \ {Primary} :
    (expert[e] \in {"completed", "failed"} /\ e \notin unwritten) => record[e] = expert[e]

RecordsInv ==
  /\ RecordTypes
  /\ run.at # "stopped" => AllCompleted
  /\ run.at \in {"guarding", "recording", "routing", "working"} => run.outcome = "none"
  /\ run.at \in {"merging", "failing", "ending"} => run.outcome \in {"completed", "failed"}
  /\ run.at \in {"guarding", "recording", "routing"} => \A e \in SwarmExperts : expert[e] = "idle"
  /\ (run.at \in {"ending", "over"} /\ run.outcome # "refused") => FileTold
  /\ (run.at = "over" /\ run.outcome # "refused") => RunTold
  /\ PeersTold

LEMMA NamesOfRecords ==
  /\ "run" \in Records /\ "rollout" \notin Records
  /\ \A e \in SwarmExperts : RecordOf(e) \in Records
  /\ \A e \in SwarmExperts \ {Primary} : RecordOf(e) = e /\ e # "run"
BY PeersAssumption DEF Records, RecordOf, SwarmExperts

LEMMA RecordsBegin == RecordsInit => RecordsInv
<1> SUFFICES ASSUME RecordsInit  PROVE RecordsInv
  OBVIOUS
<1>1. PICK s \in {"running", "none"} : record = [r \in Records |-> IF r = "run" THEN s ELSE "none"]
  BY DEF RecordsInit
<1>2. record \in [Records -> Statuses]
  BY <1>1 DEF Statuses
<1>3. outlived \in BOOLEAN
  BY Zenon DEF RecordsInit
<1>4. unwritten \subseteq Records
  BY NamesOfRecords DEF RecordsInit
<1>5. Primary \in swarm /\ swarm \subseteq SwarmExperts
  BY DEF RecordsInit, SwarmExperts
<1>6. RecordTypes
  BY <1>2, <1>3, <1>4, <1>5 DEF RecordsInit, RecordTypes
<1> QED
  BY <1>5, <1>6 DEF RecordsInit, RecordsInv, AllCompleted, PeersTold

\* A write of a record, successful or not, is about this record.
LEMMA OneRecord ==
  ASSUME RecordsInv, NEW r \in Records, NEW s \in Statuses, Persist(r, s) \/ PersistStatus(r, s)
  PROVE  /\ record' \in [Records -> Statuses] /\ unwritten' \subseteq Records \cup {"rollout"}
         /\ r \in unwritten' \/ record'[r] = s
         /\ \A q \in Records \ {r} : record'[q] = record[q] /\ (q \in unwritten' <=> q \in unwritten)
         /\ "rollout" \in unwritten' <=> "rollout" \in unwritten
<1>1. r # "rollout"
  BY NamesOfRecords
<1>2. CASE record' = [record EXCEPT ![r] = s] /\ unwritten' = unwritten \ {r}
  BY <1>1, <1>2 DEF RecordsInv, RecordTypes
<1>3. CASE record' = record /\ unwritten' = unwritten \cup {r}
  BY <1>1, <1>3 DEF RecordsInv, RecordTypes
<1> QED
  BY <1>2, <1>3 DEF Persist, PersistStatus

\* Peers are not concerned by the record of the run.
LEMMA RunWritten ==
  ASSUME RecordsInv, NEW s \in Statuses, Persist("run", s) \/ PersistStatus("run", s),
         UNCHANGED <<swarm, expert>>
  PROVE  PeersTold'
<1>1. \A e \in swarm \ {Primary} : e \in Records \ {"run"}
  BY NamesOfRecords DEF RecordsInv, RecordTypes
<1> QED
  BY <1>1, OneRecord, NamesOfRecords DEF PeersTold, RecordsInv

LEMMA RunGuarded == ASSUME RecordsInv, Guarded  PROVE RecordsInv'
<1>1. CASE RunGoes("over", "refused") /\ UNCHANGED <<record, unwritten>>
  BY <1>1 DEF Guarded, RunGoes, RecordsInv, RecordTypes, AllCompleted, PeersTold
<1>2. CASE RunGoes("recording", "none") /\ Persist("run", "running")
  <2>1. PeersTold'
    BY <1>2, RunWritten DEF Guarded, Statuses
  <2>2. record' \in [Records -> Statuses] /\ unwritten' \subseteq Records \cup {"rollout"}
    BY <1>2, OneRecord, NamesOfRecords DEF Statuses
  <2> QED
    BY <1>2, <2>1, <2>2 DEF Guarded, RunGoes, RecordsInv, RecordTypes, AllCompleted
<1> QED
  BY <1>1, <1>2 DEF Guarded

LEMMA RolloutMade == ASSUME RecordsInv, CreateRollout  PROVE RecordsInv'
<1>1. PeersTold'
  BY RunWritten DEF CreateRollout, Statuses
<1>2. record' \in [Records -> Statuses] /\ unwritten' \subseteq Records \cup {"rollout"}
  BY OneRecord, NamesOfRecords DEF CreateRollout, Statuses
<1> QED
  BY <1>1, <1>2 DEF CreateRollout, RunGoes, RecordsInv, RecordTypes, AllCompleted

LEMMA RunRouted == ASSUME RecordsInv, Routed  PROVE RecordsInv'
<1>1. CASE RunGoes("failing", "failed") /\ UNCHANGED <<record, unwritten, expert>>
  BY <1>1 DEF Routed, RunGoes, RecordsInv, RecordTypes, AllCompleted, PeersTold
<1>2. CASE /\ RunGoes("working", "none")
           /\ Persist("run", "running")
           /\ expert' = [e \in SwarmExperts |-> IF e \in swarm THEN "starting" ELSE "idle"]
  <2>1. record' \in [Records -> Statuses] /\ unwritten' \subseteq Records \cup {"rollout"}
    BY <1>2, OneRecord, NamesOfRecords DEF Statuses
  <2>2. /\ expert' \in [SwarmExperts -> {"idle", "starting", "working", "completed", "failed"}]
        /\ \A e \in SwarmExperts : expert'[e] \in {"starting", "idle"}
        /\ \A e \in SwarmExperts \ swarm : expert'[e] = "idle"
    BY <1>2
  <2>3. PeersTold'
    BY <2>2 DEF Routed, PeersTold, RecordsInv, RecordTypes
  <2> QED
    BY <1>2, <2>1, <2>2, <2>3 DEF Routed, RunGoes, RecordsInv, RecordTypes, AllCompleted
<1> QED
  BY <1>1, <1>2 DEF Routed

\* An expert writes into its record: its own, or the run's.
LEMMA ExpertWrites ==
  ASSUME RecordsInv, NEW e \in SwarmExperts, expert[e] \in {"starting", "working"},
         NEW s \in {"working", "completed", "failed"}, NEW status \in Statuses,
         expert' = [expert EXCEPT ![e] = s],
         s # "working" => status = s,
         Persist(RecordOf(e), status) \/ PersistStatus(RecordOf(e), status),
         outlived' = (outlived \/ IsLate(e)), UNCHANGED <<swarm, rollout>>,
         run' \in [at : {"working", "merging", "failing", "ending", "over", "stopped"},
                   outcome : {"none", "refused", "completed", "failed"}],
         run.at # "working" => run' = run,
         run'.at # "stopped" => AllCompleted',
         run'.at = "working" => run'.outcome = "none",
         run'.at \in {"merging", "failing"} => run'.outcome \in {"completed", "failed"},
         run.at = "working" => run'.at \in {"working", "merging", "failing"}
  PROVE  RecordsInv'
<1>1. e \in swarm /\ RecordOf(e) \in Records
  BY NamesOfRecords DEF RecordsInv, RecordTypes
<1>2. /\ record' \in [Records -> Statuses] /\ unwritten' \subseteq Records \cup {"rollout"}
      /\ RecordOf(e) \in unwritten' \/ record'[RecordOf(e)] = status
      /\ \A q \in Records \ {RecordOf(e)} :
           record'[q] = record[q] /\ (q \in unwritten' <=> q \in unwritten)
      /\ "rollout" \in unwritten' <=> "rollout" \in unwritten
  BY <1>1, OneRecord
<1>3. /\ expert' \in [SwarmExperts -> {"idle", "starting", "working", "completed", "failed"}]
      /\ expert'[e] = s /\ \A x \in SwarmExperts \ {e} : expert'[x] = expert[x]
  BY DEF RecordsInv, RecordTypes
<1>4. outlived' \in BOOLEAN /\ (outlived => outlived') /\ (IsLate(e) => outlived')
  BY Zenon
<1>5. PeersTold'
  <2> SUFFICES ASSUME NEW x \in swarm \ {Primary}, expert'[x] \in {"completed", "failed"},
                      x \notin unwritten'
               PROVE  record'[x] = expert'[x]
    BY DEF PeersTold
  <2>1. x \in SwarmExperts \ {Primary} /\ RecordOf(x) = x /\ x \in Records /\ x # "run"
    BY NamesOfRecords DEF RecordsInv, RecordTypes
  <2>2. CASE x = e
    BY <1>2, <1>3, <2>1, <2>2
  <2>3. CASE x # e
    <3>1. x # RecordOf(e)
      BY <2>1, <2>3 DEF RecordOf
    <3> QED
      BY <1>2, <1>3, <2>1, <2>3, <3>1 DEF RecordsInv, PeersTold
  <2> QED
    BY <2>2, <2>3
<1>6. RecordTypes'
  BY <1>1, <1>2, <1>3, <1>4 DEF RecordsInv, RecordTypes
<1>7. (run'.at \in {"ending", "over"} /\ run'.outcome # "refused") => FileTold'
  BY <1>2 DEF RecordsInv, FileTold
<1>8. ASSUME run'.at = "over", run'.outcome # "refused"  PROVE RunTold'
  <2>1. run' = run /\ run.at = "over" /\ RunTold
    BY <1>8 DEF RecordsInv
  <2>2. CASE e = Primary
    BY <1>4, <2>1, <2>2 DEF IsLate, RunTold
  <2>3. CASE e # Primary
    <3>1. RecordOf(e) # "run" /\ "run" \in Records
      BY <2>3, NamesOfRecords
    <3> QED
      BY <1>2, <1>4, <2>1, <3>1 DEF RunTold
  <2> QED
    BY <2>2, <2>3
<1> QED
  BY <1>5, <1>6, <1>7, <1>8 DEF RecordsInv

LEMMA ExpertsWrite ==
  ASSUME RecordsInv, NEW e \in SwarmExperts, ExpertStarts(e) \/ ExpertEnds(e)  PROVE RecordsInv'
<1>0. /\ expert[e] \in {"starting", "working"} /\ e \in swarm
      /\ run.at \notin {"guarding", "recording", "routing"}
  BY DEF ExpertStarts, ExpertEnds, RecordsInv, RecordTypes
<1>1. /\ run \in [at : {"working", "merging", "failing", "ending", "over", "stopped"},
                  outcome : {"none", "refused", "completed", "failed"}]
      /\ run.at = "working" => run.outcome = "none"
      /\ run.at \in {"merging", "failing"} => run.outcome \in {"completed", "failed"}
  BY <1>0 DEF RecordsInv, RecordTypes
<1>2. CASE ExpertStarts(e)
  <2>1. ~(run.at # "stopped" /\ run.outcome = "completed")
    BY <1>0, <1>2 DEF ExpertStarts, RecordsInv, AllCompleted
  <2>2. run' = run /\ swarm' = swarm
    BY <1>2 DEF ExpertStarts
  <2>3. run'.at # "stopped" => AllCompleted'
    BY <2>1, <2>2 DEF AllCompleted
  <2> QED
    BY <1>0, <1>1, <1>2, <2>2, <2>3, ExpertWrites DEF ExpertStarts, Statuses
<1>3. CASE ExpertEnds(e)
  <2>1. PICK outcome \in {"completed", "failed"} :
          /\ expert' = [expert EXCEPT ![e] = outcome]
          /\ PersistStatus(RecordOf(e), outcome)
          /\ run' = IF run.at # "working" THEN run
                    ELSE IF outcome = "failed" THEN [at |-> "failing", outcome |-> "failed"]
                    ELSE IF \A x \in swarm : expert'[x] = "completed"
                         THEN [at |-> "merging", outcome |-> "completed"] ELSE run
    BY <1>3 DEF ExpertEnds
  <2>2. swarm' = swarm /\ rollout' = rollout /\ outlived' = (outlived \/ IsLate(e))
    BY <1>3 DEF ExpertEnds
  <2>3. ~(run.at # "stopped" /\ run.outcome = "completed")
    BY <1>0, <1>3 DEF ExpertEnds, RecordsInv, AllCompleted
  <2>4. run'.at # "stopped" => AllCompleted'
    BY <1>1, <2>1, <2>2, <2>3 DEF AllCompleted
  <2>5. /\ run' \in [at : {"working", "merging", "failing", "ending", "over", "stopped"},
                     outcome : {"none", "refused", "completed", "failed"}]
        /\ run.at # "working" => run' = run
        /\ run'.at = "working" => run'.outcome = "none"
        /\ run'.at \in {"merging", "failing"} => run'.outcome \in {"completed", "failed"}
        /\ run.at = "working" => run'.at \in {"working", "merging", "failing"}
    BY <1>1, <2>1
  <2> QED
    BY <1>0, <2>1, <2>2, <2>4, <2>5, ExpertWrites DEF Statuses
<1> QED
  BY <1>2, <1>3

LEMMA StatusUpdated == ASSUME RecordsInv, UpdateStatus  PROVE RecordsInv'
<1>1. run' = [at |-> "ending", outcome |-> run.outcome] /\ run.at \in {"merging", "failing"}
      /\ record' = record /\ swarm' = swarm /\ expert' = expert /\ outlived' = outlived
  BY DEF UpdateStatus, RunGoes
<1>2. \/ rollout' = (IF rollout = "none" THEN "none" ELSE run.outcome) /\ unwritten' = unwritten
      \/ rollout' = rollout /\ unwritten' = unwritten \cup {"rollout"}
  BY DEF UpdateStatus
<1>3. run.outcome \in {"none", "refused", "completed", "failed"}
  BY DEF RecordsInv, RecordTypes
<1> QED
  BY <1>1, <1>2, <1>3 DEF RecordsInv, RecordTypes, AllCompleted, FileTold, PeersTold

LEMMA PromptEnds == ASSUME RecordsInv, HandlePromptEnds  PROVE RecordsInv'
<1>1. /\ run' = [at |-> "over", outcome |-> run.outcome] /\ run.at = "ending"
      /\ run.outcome \in {"completed", "failed"}
      /\ PersistStatus("run", run.outcome)
      /\ UNCHANGED <<swarm, expert, rollout, outlived>>
  BY DEF HandlePromptEnds, RunGoes, RecordsInv
<1>2. PeersTold'
  BY <1>1, RunWritten DEF Statuses
<1>3. /\ record' \in [Records -> Statuses] /\ unwritten' \subseteq Records \cup {"rollout"}
      /\ "run" \in unwritten' \/ record'["run"] = run.outcome
      /\ "rollout" \in unwritten' <=> "rollout" \in unwritten
  BY <1>1, OneRecord, NamesOfRecords DEF Statuses
<1> QED
  BY <1>1, <1>2, <1>3 DEF RecordsInv, RecordTypes, AllCompleted, RunTold, FileTold

LEMMA RecordsStep == RecordsInv /\ [RecordsNext]_recordVars => RecordsInv'
<1> SUFFICES ASSUME RecordsInv, [RecordsNext]_recordVars  PROVE RecordsInv'
  OBVIOUS
<1>1. CASE UNCHANGED recordVars
  BY <1>1
  DEF recordVars, RecordsInv, RecordTypes, AllCompleted, RunTold, FileTold, PeersTold
<1>2. CASE ProcessStops
  <2>1. /\ run' \in [at : {"stopped"}, outcome : {"none", "refused", "completed", "failed"}]
        /\ expert' \in [SwarmExperts -> {"idle"}]
    BY <1>2 DEF ProcessStops, RunGoes, RecordsInv, RecordTypes
  <2> QED
    BY <1>2, <2>1 DEF ProcessStops, RecordsInv, RecordTypes, PeersTold
<1> QED
  BY <1>1, <1>2, RunGuarded, RolloutMade, RunRouted, ExpertsWrite, StatusUpdated, PromptEnds
  DEF RecordsNext, RunProgress

LEMMA EndIsTold == RecordsInv => RecordsTypeOK /\ RecordsTellTheEnd
BY DEF RecordsInv, RecordTypes, Statuses, RecordsTypeOK, RecordsTellTheEnd, RunTold, FileTold,
       AllCompleted, PeersTold

\* The records of a run that is over tell its end, unless a write failed or the
\* primary expert outlived it.
THEOREM RecordsTellEnds ==
  RecordsInit /\ [][RecordsNext]_recordVars => [](RecordsTypeOK /\ RecordsTellTheEnd)
BY RecordsBegin, RecordsStep, EndIsTold, PTL
-----------------------------------------------------------------------------
(* BrainSystem: candidates, their verdicts and the tasks behind them. *)

Stages == BrainOver \cup {"triage", "preFlight", "compress", "plan", "code", "architect",
                          "sync", "parallel", "sandbox", "validate", "refused"}

BrainTypes ==
  /\ brain \in [stage : Stages, route : {"none", "low", "high"}, fallback : BOOLEAN]
  /\ candidate \in 0..2 /\ ledger \in 0..2
  /\ validated \subseteq [of : 1..2, ok : BOOLEAN]
  /\ syncDone \in 0..SyncTasks
  /\ worker \in [ParallelTasks -> {"new", "asked", "done", "failed"}]
  /\ prompted \in [ParallelTasks -> 0..SyncTasks]

Refusals == {v \in validated : ~v.ok}

\* Where a run is says which route it is on, how many candidates there were, and
\* that the validator has not seen the one it is about to see.
BrainRoutes ==
  /\ brain.stage \in {"triage", "preFlight", "compress"} => brain.route = "none"
  /\ brain.stage \in {"plan", "code"} => brain.route = "low"
  /\ brain.stage \in {"architect", "sync", "parallel"} => brain.route = "high"
  /\ brain.stage \in {"sandbox", "validate", "refused"} => brain.route # "none"
  /\ brain.route # "high" => ~brain.fallback

BrainCounts ==
  /\ brain.stage \in {"triage", "preFlight", "compress", "plan", "code", "architect", "sync",
                      "parallel"} =>
       /\ candidate = (IF brain.fallback THEN 1 ELSE 0) /\ ledger <= candidate
  /\ \A v \in validated : v.of <= candidate
  /\ brain.stage \in {"sandbox", "validate", "refused"} =>
       /\ candidate = (IF brain.fallback THEN 2 ELSE 1) /\ ledger < candidate
       /\ brain.stage # "refused" => \A v \in validated : v.of < candidate

BrainVerdicts ==
  /\ IsFiniteSet(Refusals)
  /\ ledger = IF brain.stage = "refused" THEN Cardinality(Refusals) - 1 ELSE Cardinality(Refusals)
  /\ brain.stage = "completed" => [of |-> candidate, ok |-> TRUE] \in validated

BrainTasks ==
  /\ brain.route # "high" \/ brain.stage \in {"architect", "sync"} =>
       syncDone < SyncTasks /\ \A w \in ParallelTasks : worker[w] = "new"
  /\ brain.stage = "parallel" => syncDone = SyncTasks
  /\ \A w \in ParallelTasks : worker[w] # "new" => prompted[w] = SyncTasks

BrainInv == BrainTypes /\ BrainRoutes /\ BrainCounts /\ BrainVerdicts /\ BrainTasks

LEMMA BrainBegins == BrainInit => BrainInv
<1> SUFFICES ASSUME BrainInit  PROVE BrainInv
  OBVIOUS
<1>0. SyncTasks \in Nat /\ 0 < SyncTasks
  BY BrainAssumption
<1>1. BrainTypes
  BY <1>0 DEF BrainInit, BrainTypes, Stages
<1>2. Refusals = {}
  BY DEF BrainInit, Refusals
<1>3. BrainVerdicts
  BY <1>2, FS_EmptySet DEF BrainInit, BrainVerdicts
<1>4. BrainRoutes /\ BrainCounts
  BY DEF BrainInit, BrainRoutes, BrainCounts
<1>5. BrainTasks
  BY <1>0 DEF BrainInit, BrainTasks
<1> QED
  BY <1>1, <1>3, <1>4, <1>5 DEF BrainInv

\* The run goes on, and nothing else happens.
LEMMA StageGoesOn ==
  ASSUME BrainInv, NEW b \in [stage : Stages, route : {"none", "low", "high"}, fallback : BOOLEAN],
         brain' = b, UNCHANGED <<candidate, validated, ledger, syncDone, worker, prompted>>,
         brain.stage # "refused", b.stage # "refused", b.stage # "completed",
         b.fallback = brain.fallback,
         \/ <<brain.stage, b.stage>> \in {<<"triage", "preFlight">>, <<"preFlight", "compress">>,
                                          <<"plan", "code">>, <<"architect", "sync">>,
                                          <<"sandbox", "validate">>}
            /\ b.route = brain.route
         \/ b.stage \in {"thrown", "rejected"} /\ b.route = brain.route
         \/ brain.stage = "compress" /\ b.stage = "plan" /\ b.route = "low"
         \/ brain.stage = "compress" /\ b.stage = "architect" /\ b.route = "high"
  PROVE  BrainInv'
<1>1. BrainTypes'
  BY DEF BrainInv, BrainTypes
<1>2. BrainRoutes' /\ BrainCounts' /\ BrainTasks'
  BY DEF BrainInv, BrainTypes, BrainRoutes, BrainCounts, BrainTasks
<1>3. Refusals' = Refusals
  BY DEF Refusals
<1>4. BrainVerdicts'
  BY <1>3 DEF BrainInv, BrainVerdicts
<1> QED
  BY <1>1, <1>2, <1>4 DEF BrainInv

LEMMA BrainMoves ==
  ASSUME BrainInv,
         Triage \/ StaticAnalysis \/ ContextCompression \/ PlanSequentialFix
           \/ BuildParallelMatrix \/ RunSandbox \/ Throws
  PROVE  BrainInv'
<1>0. /\ brain \in [stage : Stages, route : {"none", "low", "high"}, fallback : BOOLEAN]
      /\ UNCHANGED <<candidate, validated, ledger, syncDone, worker, prompted>>
  BY DEF BrainInv, BrainTypes, Triage, StaticAnalysis, ContextCompression, PlanSequentialFix,
         BuildParallelMatrix, RunSandbox, Throws
<1>1. ASSUME NEW stage \in Stages, To(stage), brain.stage # "refused",
             stage # "refused", stage # "completed",
             \/ <<brain.stage, stage>> \in {<<"triage", "preFlight">>, <<"preFlight", "compress">>,
                                            <<"plan", "code">>, <<"architect", "sync">>,
                                            <<"sandbox", "validate">>}
             \/ stage \in {"thrown", "rejected"}
      PROVE  BrainInv'
  <2>1. PICK b : b = [brain EXCEPT !.stage = stage]
    OBVIOUS
  <2>2. /\ b \in [stage : Stages, route : {"none", "low", "high"}, fallback : BOOLEAN]
        /\ brain' = b /\ b.stage = stage /\ b.route = brain.route /\ b.fallback = brain.fallback
    BY <1>0, <1>1, <2>1 DEF To
  <2> QED
    BY <1>0, <1>1, <2>2, StageGoesOn
<1>2. ASSUME NEW stage \in {"plan", "architect"}, NEW route \in {"low", "high"},
             brain' = [brain EXCEPT !.stage = stage, !.route = route],
             brain.stage = "compress", stage = "plan" <=> route = "low"
      PROVE  BrainInv'
  <2>1. PICK b : b = [brain EXCEPT !.stage = stage, !.route = route]
    OBVIOUS
  <2>2. /\ b \in [stage : Stages, route : {"none", "low", "high"}, fallback : BOOLEAN]
        /\ b.stage = stage /\ b.route = route /\ b.fallback = brain.fallback
    BY <1>0, <1>2, <2>1 DEF Stages
  <2> QED
    BY <1>0, <1>2, <2>1, <2>2, StageGoesOn
<1>3. CASE Triage
  BY <1>1, <1>3 DEF Triage, Stages, BrainOver
<1>4. CASE StaticAnalysis
  BY <1>1, <1>4 DEF StaticAnalysis, Stages
<1>5. CASE ContextCompression
  BY <1>2, <1>5 DEF ContextCompression
<1>6. CASE PlanSequentialFix
  BY <1>1, <1>6 DEF PlanSequentialFix, Stages
<1>7. CASE BuildParallelMatrix
  BY <1>1, <1>7 DEF BuildParallelMatrix, Stages
<1>8. CASE RunSandbox
  BY <1>1, <1>8 DEF RunSandbox, Stages
<1>9. CASE Throws
  BY <1>1, <1>9 DEF Throws, Stages, BrainOver
<1> QED
  BY <1>3, <1>4, <1>5, <1>6, <1>7, <1>8, <1>9

\* A route makes its candidate.
LEMMA CandidateMade == ASSUME BrainInv, RunSequential \/ Merge  PROVE BrainInv'
<1>1. PICK b : b = [brain EXCEPT !.stage = "sandbox"]
  OBVIOUS
<1>2. /\ brain' = b /\ candidate' = candidate + 1
      /\ UNCHANGED <<validated, ledger, syncDone, worker, prompted>>
      /\ brain.stage \in {"code", "parallel"}
  BY <1>1 DEF RunSequential, Merge, To
<1>3. b \in [stage : Stages, route : {"none", "low", "high"}, fallback : BOOLEAN]
      /\ b.stage = "sandbox" /\ b.route = brain.route /\ b.fallback = brain.fallback
  BY <1>1 DEF BrainInv, BrainTypes, Stages
<1>4. candidate' \in 1..2 /\ BrainCounts'
  <2>1. candidate = (IF brain.fallback THEN 1 ELSE 0) /\ ledger <= candidate
        /\ \A v \in validated : v.of \in 1..2 /\ v.of <= candidate
    BY <1>2 DEF BrainInv, BrainTypes, BrainCounts
  <2>2. candidate' = (IF b.fallback THEN 2 ELSE 1) /\ ledger < candidate'
        /\ \A v \in validated : v.of < candidate'
    BY <1>2, <1>3, <2>1 DEF BrainInv, BrainTypes
  <2>3. \A v \in validated' : v.of <= candidate'
    BY <1>2, <2>1 DEF BrainInv, BrainTypes
  <2> QED
    BY <1>2, <1>3, <2>2, <2>3 DEF BrainCounts
<1>5. BrainTypes'
  BY <1>2, <1>3, <1>4 DEF BrainInv, BrainTypes
<1>6. BrainRoutes' /\ BrainTasks'
  BY <1>2, <1>3 DEF BrainInv, BrainTypes, BrainRoutes, BrainTasks
<1>7. Refusals' = Refusals
  BY <1>2 DEF Refusals
<1>8. BrainVerdicts'
  BY <1>2, <1>3, <1>7 DEF BrainInv, BrainVerdicts
<1> QED
  BY <1>4, <1>5, <1>6, <1>8 DEF BrainInv

LEMMA SyncTaskRuns == ASSUME BrainInv, RunSyncTask  PROVE BrainInv'
<1>1. PICK stage \in {"sync", "parallel"} :
        /\ brain' = [brain EXCEPT !.stage = stage]
        /\ stage = "parallel" <=> syncDone' = SyncTasks
  <2>1. CASE syncDone' = SyncTasks
    BY <2>1 DEF RunSyncTask, To
  <2>2. CASE syncDone' # SyncTasks
    BY <2>2 DEF RunSyncTask, BrainInv, BrainTypes
  <2> QED
    BY <2>1, <2>2
<1>2. PICK b : b = [brain EXCEPT !.stage = stage]
  OBVIOUS
<1>3. /\ brain' = b /\ b.stage = stage /\ b.route = brain.route /\ b.fallback = brain.fallback
      /\ b \in [stage : Stages, route : {"none", "low", "high"}, fallback : BOOLEAN]
  BY <1>1, <1>2 DEF BrainInv, BrainTypes, Stages
<1>4. /\ syncDone' = syncDone + 1 /\ syncDone' \in 0..SyncTasks
      /\ stage = "sync" => syncDone' < SyncTasks
      /\ brain.stage = "sync" /\ UNCHANGED <<candidate, validated, ledger, worker, prompted>>
  BY <1>1, BrainAssumption DEF RunSyncTask, BrainInv, BrainTypes, BrainTasks
<1>5. BrainTypes'
  BY <1>3, <1>4 DEF BrainInv, BrainTypes
<1>6. BrainRoutes' /\ BrainCounts'
  BY <1>3, <1>4 DEF BrainInv, BrainTypes, BrainRoutes, BrainCounts
<1>7. BrainTasks'
  BY <1>1, <1>3, <1>4 DEF BrainInv, BrainRoutes, BrainTasks
<1>8. Refusals' = Refusals
  BY <1>4 DEF Refusals
<1>9. BrainVerdicts'
  BY <1>3, <1>4, <1>8 DEF BrainInv, BrainVerdicts
<1> QED
  BY <1>5, <1>6, <1>7, <1>9 DEF BrainInv

LEMMA WorkersAsked == ASSUME BrainInv, AskWorkers  PROVE BrainInv'
<1>1. /\ brain.stage = "parallel" /\ syncDone = SyncTasks /\ brain.route = "high"
      /\ UNCHANGED <<brain, candidate, validated, ledger, syncDone>>
  BY DEF AskWorkers, BrainInv, BrainTasks, BrainRoutes
<1>2. /\ worker' \in [ParallelTasks -> {"new", "asked", "done", "failed"}]
      /\ prompted' \in [ParallelTasks -> 0..SyncTasks]
      /\ \A w \in ParallelTasks : prompted'[w] = SyncTasks
  BY <1>1 DEF AskWorkers, BrainInv, BrainTypes
<1>3. Refusals' = Refusals
  BY <1>1 DEF Refusals
<1> QED
  BY <1>1, <1>2, <1>3
  DEF BrainInv, BrainTypes, BrainRoutes, BrainCounts, BrainVerdicts, BrainTasks

LEMMA WorkerIsOver == ASSUME BrainInv, NEW w \in ParallelTasks, WorkerEnds(w)  PROVE BrainInv'
<1>1. PICK s \in {"done", "failed"} : worker' = [worker EXCEPT ![w] = s]
  BY DEF WorkerEnds
<1>2. /\ worker[w] = "asked" /\ UNCHANGED <<candidate, validated, ledger, syncDone, prompted>>
      /\ worker' \in [ParallelTasks -> {"new", "asked", "done", "failed"}]
      /\ \A x \in ParallelTasks : worker'[x] # "new" => worker[x] # "new"
  BY <1>1 DEF WorkerEnds, BrainInv, BrainTypes
<1>3. brain.route = "high" /\ brain.stage \notin {"architect", "sync"}
  BY <1>2 DEF BrainInv, BrainTasks
<1>4. Refusals' = Refusals
  BY <1>2 DEF Refusals
<1>5. CASE brain' = brain
  BY <1>2, <1>3, <1>4, <1>5
  DEF BrainInv, BrainTypes, BrainRoutes, BrainCounts, BrainVerdicts, BrainTasks
<1>6. CASE brain.stage = "parallel" /\ To("thrown")
  <2>1. PICK b : b = [brain EXCEPT !.stage = "thrown"]
    OBVIOUS
  <2>2. b \in [stage : Stages, route : {"none", "low", "high"}, fallback : BOOLEAN]
        /\ brain' = b /\ b.stage = "thrown" /\ b.route = brain.route /\ b.fallback = brain.fallback
    BY <1>6, <2>1 DEF To, BrainInv, BrainTypes, Stages, BrainOver
  <2> QED
    BY <1>2, <1>3, <1>4, <1>6, <2>2
    DEF BrainInv, BrainTypes, BrainRoutes, BrainCounts, BrainVerdicts, BrainTasks
<1> QED
  BY <1>5, <1>6 DEF WorkerEnds

\* A verdict is on a candidate without one.
LEMMA VerdictGiven == ASSUME BrainInv, ValidateCandidate  PROVE BrainInv'
<1>1. PICK satisfied \in BOOLEAN :
        /\ validated' = validated \cup {[of |-> candidate, ok |-> satisfied]}
        /\ brain' = [brain EXCEPT !.stage = IF satisfied THEN "completed" ELSE "refused"]
  BY DEF ValidateCandidate, To
<1>2. PICK b : b = [brain EXCEPT !.stage = IF satisfied THEN "completed" ELSE "refused"]
  OBVIOUS
<1>3. b \in [stage : Stages, route : {"none", "low", "high"}, fallback : BOOLEAN]
      /\ brain' = b /\ b.stage = (IF satisfied THEN "completed" ELSE "refused")
      /\ b.route = brain.route /\ b.fallback = brain.fallback
  BY <1>1, <1>2 DEF BrainInv, BrainTypes, Stages, BrainOver
<1>4. /\ brain.stage = "validate" /\ UNCHANGED <<candidate, ledger, syncDone, worker, prompted>>
      /\ candidate \in 1..2 /\ ledger < candidate
      /\ \A v \in validated : v.of < candidate
  BY DEF ValidateCandidate, BrainInv, BrainTypes, BrainCounts
<1>5. PICK v : v = [of |-> candidate, ok |-> satisfied]
  OBVIOUS
<1>6. v \in [of : 1..2, ok : BOOLEAN] /\ v.of = candidate /\ v.ok = satisfied
      /\ validated' = validated \cup {v} /\ v \notin validated
  BY <1>1, <1>4, <1>5
<1>7. validated' \subseteq [of : 1..2, ok : BOOLEAN]
  BY <1>6 DEF BrainInv, BrainTypes
<1>8. BrainTypes'
  BY <1>3, <1>4, <1>7 DEF BrainInv, BrainTypes
<1>9. BrainRoutes' /\ BrainTasks'
  BY <1>3, <1>4 DEF BrainInv, BrainTypes, BrainRoutes, BrainTasks
<1>10. BrainCounts'
  <2>1. \A w \in validated' : w.of <= candidate'
    BY <1>4, <1>6 DEF BrainInv, BrainTypes, BrainCounts
  <2>2. candidate = (IF brain.fallback THEN 2 ELSE 1)
    BY <1>4 DEF BrainInv, BrainCounts
  <2> QED
    BY <1>3, <1>4, <2>1, <2>2 DEF BrainCounts
<1>11. CASE satisfied
  <2>1. Refusals' = Refusals
    BY <1>6, <1>11, Zenon DEF Refusals
  <2>2. [of |-> candidate, ok |-> TRUE] \in validated'
    BY <1>1, <1>11
  <2> QED
    BY <1>3, <1>4, <1>8, <1>9, <1>10, <1>11, <2>1, <2>2 DEF BrainInv, BrainVerdicts
<1>12. CASE ~satisfied
  <2>1. Refusals' = Refusals \cup {v} /\ v \notin Refusals
    BY <1>6, <1>12, Zenon DEF Refusals
  <2>2. IsFiniteSet(Refusals') /\ Cardinality(Refusals') = Cardinality(Refusals) + 1
        /\ Cardinality(Refusals) \in Nat
    BY <2>1, FS_AddElement, FS_CardinalityType DEF BrainInv, BrainVerdicts
  <2> QED
    BY <1>3, <1>4, <1>8, <1>9, <1>10, <1>12, <2>2 DEF BrainInv, BrainVerdicts
<1> QED
  BY <1>11, <1>12

\* A refusal is counted, and the other route begins.
LEMMA RefusalRecorded == ASSUME BrainInv, RecordFailure  PROVE BrainInv'
<1>1. /\ brain.stage = "refused" /\ ledger' = ledger + 1
      /\ UNCHANGED <<candidate, validated, syncDone, worker, prompted>>
  BY DEF RecordFailure
<1>2. Refusals' = Refusals /\ Cardinality(Refusals) \in Nat
  BY <1>1, FS_CardinalityType DEF Refusals, BrainInv, BrainVerdicts
<1>3. ledger' = Cardinality(Refusals)
  BY <1>1, <1>2 DEF BrainInv, BrainTypes, BrainVerdicts
<1>4. /\ candidate = (IF brain.fallback THEN 2 ELSE 1) /\ ledger' <= candidate /\ ledger' \in 0..2
      /\ \A v \in validated : v.of \in 1..2
  BY <1>1 DEF BrainInv, BrainTypes, BrainCounts
<1>5. CASE brain.route = "low"
  <2>1. brain' = [stage |-> "architect", route |-> "high", fallback |-> TRUE]
    BY <1>1, <1>5 DEF RecordFailure
  <2>2. brain.route # "high"
    BY <1>5
  <2>3. ~brain.fallback
    BY <2>2, Zenon DEF BrainInv, BrainRoutes
  <2>4. /\ brain'.stage = "architect" /\ brain'.route = "high" /\ brain'.fallback
        /\ brain' \in [stage : Stages, route : {"none", "low", "high"}, fallback : BOOLEAN]
    BY <2>1 DEF Stages
  <2>5. brain.route # "high" /\ candidate = 1
    BY <1>4, <2>2, <2>3
  <2>6. BrainTypes'
    BY <1>1, <1>4, <2>4 DEF BrainInv, BrainTypes
  <2>7. BrainRoutes'
    BY <2>4 DEF BrainRoutes
  <2>8. \A v \in validated : v.of \in 1..2 /\ v.of <= candidate
    BY <1>1, <1>4 DEF BrainInv, BrainCounts
  <2>9. BrainCounts'
    BY <1>1, <1>4, <2>4, <2>5, <2>8 DEF BrainCounts
  <2>10. BrainVerdicts'
    BY <1>1, <1>2, <1>3, <2>4 DEF BrainInv, BrainVerdicts
  <2>11. BrainTasks'
    BY <1>1, <2>4, <2>5 DEF BrainInv, BrainTasks
  <2> QED
    BY <2>6, <2>7, <2>9, <2>10, <2>11 DEF BrainInv
<1>6. CASE brain.route # "low"
  <2>1. PICK b : b = [brain EXCEPT !.stage = "failed"]
    OBVIOUS
  <2>2. b \in [stage : Stages, route : {"none", "low", "high"}, fallback : BOOLEAN]
        /\ brain' = b /\ b.stage = "failed" /\ b.route = brain.route /\ b.fallback = brain.fallback
    BY <1>1, <1>6, <2>1 DEF RecordFailure, BrainInv, BrainTypes, Stages, BrainOver
  <2> QED
    BY <1>1, <1>2, <1>3, <1>4, <1>6, <2>2
    DEF BrainInv, BrainTypes, BrainRoutes, BrainCounts, BrainVerdicts, BrainTasks
<1> QED
  BY <1>5, <1>6

LEMMA BrainKeeps == BrainInv /\ [BrainStep]_brainVars => BrainInv'
<1> SUFFICES ASSUME BrainInv, [BrainStep]_brainVars  PROVE BrainInv'
  OBVIOUS
<1>1. CASE UNCHANGED brainVars
  <2>1. Refusals' = Refusals
    BY <1>1 DEF brainVars, Refusals
  <2> QED
    BY <1>1, <2>1
    DEF brainVars, BrainInv, BrainTypes, BrainRoutes, BrainCounts, BrainVerdicts, BrainTasks
<1>2. CASE BrainStep
  BY <1>2, BrainMoves, CandidateMade, SyncTaskRuns, WorkersAsked, WorkerIsOver, VerdictGiven,
     RefusalRecorded
  DEF BrainStep
<1> QED
  BY <1>1, <1>2

LEMMA BrainIsInOrder == BrainInv => BrainTypeOK /\ BrainInOrder
BY DEF BrainInv, BrainTypes, BrainVerdicts, BrainTasks, Refusals, Stages, BrainTypeOK, BrainInOrder

\* A run completes with the candidate that was accepted last, and every refusal is in
\* the ledger when the other route begins.
THEOREM BrainStaysInOrder == BrainSpec => [](BrainTypeOK /\ BrainInOrder)
BY BrainBegins, BrainKeeps, BrainIsInOrder, PTL DEF BrainSpec
-----------------------------------------------------------------------------
(* MemoryIndex: what was recorded is in the index. *)

IndexTypes ==
  /\ sources \in [IndexFiles -> Nat \ {0}]
  /\ hashed \in [IndexFiles -> Nat]
  /\ hashedFor \in [IndexFiles -> IndexVersions]
  /\ indexer \in [at : {"idle", "walking", "embedding", "recording"}, version : IndexVersions,
                  todo : SUBSET IndexFiles, file : IndexFiles \cup {NoFile}, content : Nat]

\* The file the indexer is at has its row as soon as its hash is next, and the
\* hashes there are have theirs.
IndexInv ==
  /\ IndexTypes
  /\ indexer.at = "recording" =>
       Row(indexer.file, indexer.content, indexer.version) \in embedded \cup unembedded
  /\ \A f \in IndexFiles : hashed[f] > 0 =>
       Row(f, hashed[f], hashedFor[f]) \in embedded \cup unembedded

LEMMA IndexerBegins == IndexInit => IndexInv
BY LiveIsAVersion DEF IndexInit, IndexInv, IndexTypes, NoRun

LEMMA IndexStep == IndexInv /\ [IndexNext]_indexVars => IndexInv'
<1> SUFFICES ASSUME IndexInv, [IndexNext]_indexVars  PROVE IndexInv'
  OBVIOUS
<1> USE DEF IndexInv, IndexTypes
<1>1. CASE UNCHANGED indexVars
  BY <1>1 DEF indexVars
<1>2. ASSUME NEW f \in IndexFiles, EditSource(f)  PROVE IndexInv'
  BY <1>2 DEF EditSource
<1>3. ASSUME NEW f \in IndexFiles, Considers(f)  PROVE IndexInv'
  <2>1. PICK ahead : ahead = [indexer EXCEPT !.todo = @ \ {f}]
    OBVIOUS
  <2>2. PICK reads : reads = [indexer EXCEPT !.at = "embedding", !.todo = @ \ {f}, !.file = f,
                                             !.content = sources[f]]
    OBVIOUS
  <2>3. (indexer' = ahead \/ indexer' = reads) /\ indexer.at = "walking"
        /\ UNCHANGED <<sources, hashed, hashedFor, embedded, unembedded>>
    BY <1>3, <2>1, <2>2 DEF Considers, WhenRead
  <2>4. indexer' \in [at : {"idle", "walking", "embedding", "recording"}, version : IndexVersions,
                      todo : SUBSET IndexFiles, file : IndexFiles \cup {NoFile}, content : Nat]
        /\ indexer'.at # "recording"
    BY <2>1, <2>2, <2>3
  <2> QED
    BY <2>3, <2>4
<1>4. ASSUME NEW f \in IndexFiles, RecordsHash(f)  PROVE IndexInv'
  <2>1. PICK ahead : ahead = [indexer EXCEPT !.at = "walking", !.file = NoFile, !.content = 0]
    OBVIOUS
  <2>2. /\ hashed' = [hashed EXCEPT ![f] = indexer.content]
        /\ hashedFor' = [hashedFor EXCEPT ![f] = indexer.version]
        /\ indexer.at = "recording" /\ indexer.file = f
        /\ indexer' = ahead /\ UNCHANGED <<sources, embedded, unembedded>>
    BY <1>4, <2>1 DEF RecordsHash
  <2>3. ahead \in [at : {"idle", "walking", "embedding", "recording"}, version : IndexVersions,
                 todo : SUBSET IndexFiles, file : IndexFiles \cup {NoFile}, content : Nat]
        /\ ahead.at # "recording"
    BY <2>1
  <2>4. ASSUME NEW g \in IndexFiles, hashed'[g] > 0
        PROVE  Row(g, hashed'[g], hashedFor'[g]) \in embedded \cup unembedded
    <3>1. CASE g = f
      BY <2>2, <3>1
    <3>2. CASE g # f
      BY <2>2, <2>4, <3>2
    <3> QED
      BY <3>1, <3>2
  <2>5. hashed' \in [IndexFiles -> Nat] /\ hashedFor' \in [IndexFiles -> IndexVersions]
    BY <2>2
  <2> QED
    BY <2>2, <2>3, <2>4, <2>5
<1>5. ASSUME NEW v \in IndexVersions, IndexBegins(v)  PROVE IndexInv'
  <2>1. PICK ahead : ahead = [NoRun EXCEPT !.at = "walking", !.version = v, !.todo = IndexFiles]
    OBVIOUS
  <2>2. indexer' = ahead /\ UNCHANGED <<sources, hashed, hashedFor, embedded, unembedded>>
    BY <1>5, <2>1 DEF IndexBegins
  <2>3. ahead \in [at : {"idle", "walking", "embedding", "recording"}, version : IndexVersions,
                 todo : SUBSET IndexFiles, file : IndexFiles \cup {NoFile}, content : Nat]
        /\ ahead.at # "recording"
    BY <2>1 DEF NoRun
  <2> QED
    BY <2>2, <2>3
<1>6. CASE Embeds
  <2>1. PICK ahead : ahead = [indexer EXCEPT !.at = "recording"]
    OBVIOUS
  <2>2. PICK made : made = Row(indexer.file, indexer.content, indexer.version)
    OBVIOUS
  <2>3. /\ indexer' = ahead /\ UNCHANGED <<sources, hashed, hashedFor>>
        /\ embedded' \cup unembedded' = embedded \cup unembedded \cup {made}
    BY <1>6, <2>1, <2>2 DEF Embeds
  <2>4. ahead \in [at : {"idle", "walking", "embedding", "recording"}, version : IndexVersions,
                 todo : SUBSET IndexFiles, file : IndexFiles \cup {NoFile}, content : Nat]
        /\ made = Row(ahead.file, ahead.content, ahead.version)
    BY <2>1, <2>2
  <2> QED
    BY <2>3, <2>4
<1>7. CASE IndexEnds \/ IndexStops
  BY <1>7, LiveIsAVersion DEF IndexEnds, IndexStops, NoRun
<1> QED
  BY <1>1, <1>2, <1>3, <1>4, <1>5, <1>6, <1>7 DEF IndexNext

LEMMA RecordsAreRows == IndexInv => RecordedIsRecalled
<1> SUFFICES ASSUME IndexInv, NEW f \in IndexFiles, hashed[f] > 0
             PROVE  Row(f, hashed[f], hashedFor[f]) \in Recalled(f, hashedFor[f]) \cup unembedded
  BY DEF RecordedIsRecalled
<1> QED
  BY DEF IndexInv, Recalled, Row

\* What a run of the indexer recorded is in the version it recorded it for, wherever
\* runs were stopped.
THEOREM RecordsStayRecalled == IndexInit /\ [][IndexNext]_indexVars => []RecordedIsRecalled
BY IndexerBegins, IndexStep, RecordsAreRows, PTL
-----------------------------------------------------------------------------
(* PromptContext: the index of a linked repository. *)

Directories ==
  {NoMirror, HalfClone} \cup [state : {"whole"}, url : Urls, version : Nat]

LinkPlaces ==
  {"new", "cloning", "fetching", "pulling", "indexing", "setting", "answered", "failed"}

RepoTypes ==
  /\ upstream \in [Urls -> Nat]
  /\ mirror \in Directories /\ repoIndex \in Directories
  /\ link \in [Links -> [at : LinkPlaces, url : Urls \cup {"none"}, graph : Directories]]

\* Where a link is that has the mirror to itself says what it has made of it.
MirrorUnder(x) ==
  /\ link[x].at = "cloning" => mirror = NoMirror /\ repoIndex = NoIndex
  /\ link[x].at = "fetching" => repoIndex = NoIndex
  /\ link[x].at = "pulling" => repoIndex \in {NoIndex, mirror}
  /\ link[x].at = "setting" => link[x].graph = mirror

RepoInv ==
  /\ RepoTypes
  /\ \A x \in Links : LinkUnderWay(x) => link[x].url \in Urls
  /\ ~tangled =>
       /\ \A x, y \in Links : LinkUnderWay(x) /\ LinkUnderWay(y) => x = y
       /\ \A x \in Links : MirrorUnder(x)
       /\ (\A x \in Links : ~LinkUnderWay(x)) => repoIndex \in {NoIndex, mirror}

LEMMA RepoBegins == RepoInit => RepoInv
BY DEF RepoInit, RepoInv, RepoTypes, LinkPlaces, Directories, NewLink, NoIndex, MirrorUnder,
       LinkUnderWay

LEMMA WholeMirror ==
  ASSUME RepoTypes, NEW u \in Urls  PROVE MirrorOf(u) \in Directories
BY DEF RepoTypes, MirrorOf, Directories

\* A link that is under way goes on.
LEMMA LinkMoves ==
  ASSUME RepoInv, NEW x \in Links, LinkUnderWay(x),
         NEW l \in [at : LinkPlaces, url : Urls \cup {"none"}, graph : Directories],
         l.url = link[x].url, link' = [link EXCEPT ![x] = l],
         mirror' \in Directories, repoIndex' \in Directories, UNCHANGED <<upstream, tangled>>,
         ~tangled => /\ l.at # "cloning"
                     /\ l.at = "fetching" => repoIndex' = NoIndex
                     /\ l.at = "pulling" => repoIndex' \in {NoIndex, mirror'}
                     /\ l.at = "setting" => l.graph = mirror'
                     /\ l.at \in {"answered", "failed"} => repoIndex' \in {NoIndex, mirror'},
         l.at # "new"
  PROVE  RepoInv'
<1>1. RepoTypes'
  BY DEF RepoInv, RepoTypes
<1>2. link'[x] = l /\ \A y \in Links : y # x => link'[y] = link[y]
  BY DEF RepoInv, RepoTypes
<1>3. \A y \in Links : LinkUnderWay(y)' => LinkUnderWay(y)
  BY <1>2 DEF LinkUnderWay
<1>4. \A y \in Links : LinkUnderWay(y)' => link'[y].url \in Urls
  BY <1>2, <1>3 DEF RepoInv
<1>5. CASE tangled
  BY <1>1, <1>4, <1>5 DEF RepoInv
<1>6. CASE ~tangled
  <2>1. \A y \in Links : LinkUnderWay(y) => y = x
    BY <1>6 DEF RepoInv
  <2>2. \A y, z \in Links : LinkUnderWay(y)' /\ LinkUnderWay(z)' => y = z
    BY <1>3, <2>1
  <2>3. ASSUME NEW y \in Links  PROVE MirrorUnder(y)'
    <3>1. CASE y = x
      BY <1>2, <1>6, <3>1 DEF MirrorUnder
    <3>2. CASE y # x
      BY <1>2, <2>1, <3>2 DEF MirrorUnder, LinkUnderWay
    <3> QED
      BY <3>1, <3>2
  <2>4. (\A y \in Links : ~LinkUnderWay(y)') => repoIndex' \in {NoIndex, mirror'}
    BY <1>2, <1>6 DEF LinkUnderWay, LinkPlaces
  <2> QED
    BY <1>1, <1>4, <2>2, <2>3, <2>4 DEF RepoInv
<1> QED
  BY <1>5, <1>6

LEMMA LinkBegins ==
  ASSUME RepoInv, NEW x \in Links, NEW u \in Urls, LinkRepository(x, u)  PROVE RepoInv'
<1>1. PICK l : l = [link[x] EXCEPT !.url = u,
                                   !.at = IF mirror = NoMirror THEN "cloning" ELSE "pulling"]
  OBVIOUS
<1>2. /\ l \in [at : LinkPlaces, url : Urls \cup {"none"}, graph : Directories]
      /\ l.url = u /\ l.at = (IF mirror = NoMirror THEN "cloning" ELSE "pulling")
  BY <1>1 DEF RepoInv, RepoTypes, LinkPlaces
<1>3. /\ link' = [link EXCEPT ![x] = l] /\ UNCHANGED <<upstream, mirror, repoIndex>>
      /\ link'[x] = l /\ \A y \in Links : y # x => link'[y] = link[y]
  BY <1>1 DEF LinkRepository, RepoInv, RepoTypes
<1>4. RepoTypes'
  BY <1>2, <1>3 DEF RepoInv, RepoTypes
<1>5. \A y \in Links : LinkUnderWay(y)' => link'[y].url \in Urls
  BY <1>2, <1>3 DEF RepoInv, LinkUnderWay
<1>6. CASE tangled'
  BY <1>4, <1>5, <1>6 DEF RepoInv
<1>7. CASE ~tangled'
  <2>1. ~tangled /\ \A y \in Links : ~LinkUnderWay(y)
    BY <1>7 DEF LinkRepository
  <2>2. repoIndex \in {NoIndex, mirror}
    BY <2>1 DEF RepoInv
  <2>3. \A y \in Links : LinkUnderWay(y)' => y = x
    BY <1>3, <2>1 DEF LinkUnderWay
  <2>4. MirrorUnder(x)'
    BY <1>2, <1>3, <2>2 DEF MirrorUnder, NoIndex
  <2>5. \A y \in Links : MirrorUnder(y)'
    BY <2>3, <2>4 DEF MirrorUnder, LinkUnderWay
  <2>6. LinkUnderWay(x)'
    BY <1>2, <1>3 DEF LinkUnderWay
  <2> QED
    BY <1>4, <1>5, <2>3, <2>5, <2>6 DEF RepoInv
<1> QED
  BY <1>6, <1>7

LEMMA RepoStep == RepoInv /\ [RepoNext]_repoVars => RepoInv'
<1> SUFFICES ASSUME RepoInv, [RepoNext]_repoVars  PROVE RepoInv'
  OBVIOUS
<1>1. CASE UNCHANGED repoVars
  BY <1>1 DEF repoVars, RepoInv, RepoTypes, MirrorUnder, LinkUnderWay
<1>2. ASSUME NEW u \in Urls, Commit(u)  PROVE RepoInv'
  BY <1>2 DEF Commit, RepoInv, RepoTypes, MirrorUnder, LinkUnderWay
<1>3. ASSUME NEW x \in Links, NEW at \in LinkPlaces, NEW l, l = [link[x] EXCEPT !.at = at]
      PROVE  /\ l \in [at : LinkPlaces, url : Urls \cup {"none"}, graph : Directories]
             /\ l.url = link[x].url /\ l.at = at /\ l.graph = link[x].graph
  BY <1>3 DEF RepoInv, RepoTypes
<1>4. mirror \in Directories /\ repoIndex \in Directories /\ NoMirror \in Directories
      /\ HalfClone \in Directories
  BY DEF RepoInv, RepoTypes, Directories
<1>5. ASSUME NEW x \in Links, CloneBegins(x)  PROVE RepoInv'
  <2>1. LinkUnderWay(x) /\ ~tangled => repoIndex = NoIndex
    BY <1>5 DEF CloneBegins, RepoInv, MirrorUnder, LinkUnderWay
  <2>2. LinkUnderWay(x) /\ UNCHANGED <<upstream, repoIndex, tangled>>
    BY <1>5 DEF CloneBegins, LinkUnderWay
  <2>3. PICK at \in {"fetching", "failed"} :
          link' = [link EXCEPT ![x].at = at] /\ mirror' \in Directories
    BY <1>4, <1>5 DEF CloneBegins
  <2>4. PICK l : l = [link[x] EXCEPT !.at = at]
    OBVIOUS
  <2>5. at \in LinkPlaces
    BY DEF LinkPlaces
  <2>6. /\ l \in [at : LinkPlaces, url : Urls \cup {"none"}, graph : Directories]
        /\ l.url = link[x].url /\ l.at = at
    BY <1>3, <2>4, <2>5
  <2>7. link' = [link EXCEPT ![x] = l]
    BY <2>3, <2>4 DEF RepoInv, RepoTypes
  <2> QED
    BY <1>4, <2>1, <2>2, <2>3, <2>6, <2>7, LinkMoves
<1>6. ASSUME NEW x \in Links, CloneEnds(x)  PROVE RepoInv'
  <2>1. LinkUnderWay(x) /\ ~tangled => repoIndex = NoIndex
    BY <1>6 DEF CloneEnds, RepoInv, MirrorUnder, LinkUnderWay
  <2>2. LinkUnderWay(x) /\ UNCHANGED <<upstream, repoIndex, tangled>> /\ link[x].url \in Urls
    BY <1>6 DEF CloneEnds, LinkUnderWay, RepoInv
  <2>3. PICK at \in {"indexing", "failed"} :
          link' = [link EXCEPT ![x].at = at] /\ mirror' \in Directories
    BY <1>4, <1>6, <2>2, WholeMirror DEF CloneEnds, RepoInv
  <2>4. PICK l : l = [link[x] EXCEPT !.at = at]
    OBVIOUS
  <2>5. at \in LinkPlaces
    BY DEF LinkPlaces
  <2>6. /\ l \in [at : LinkPlaces, url : Urls \cup {"none"}, graph : Directories]
        /\ l.url = link[x].url /\ l.at = at
    BY <1>3, <2>4, <2>5
  <2>7. link' = [link EXCEPT ![x] = l]
    BY <2>3, <2>4 DEF RepoInv, RepoTypes
  <2> QED
    BY <1>4, <2>1, <2>2, <2>3, <2>6, <2>7, LinkMoves
<1>7. ASSUME NEW x \in Links, Pull(x)  PROVE RepoInv'
  <2>1. LinkUnderWay(x) /\ ~tangled => repoIndex \in {NoIndex, mirror}
    BY <1>7 DEF Pull, RepoInv, MirrorUnder, LinkUnderWay
  <2>2. LinkUnderWay(x) /\ UNCHANGED <<upstream, repoIndex, tangled>>
    BY <1>7 DEF Pull, LinkUnderWay
  <2>3. mirror.state = "whole" => MirrorOf(mirror.url) \in Directories
    BY WholeMirror DEF RepoInv, RepoTypes, Directories, NoMirror, HalfClone
  <2>4. PICK at \in {"indexing", "failed"} :
          /\ link' = [link EXCEPT ![x].at = at] /\ mirror' \in Directories
          /\ at = "failed" => mirror' = mirror
    BY <1>4, <1>7, <2>3 DEF Pull, AfterPull
  <2>5. PICK l : l = [link[x] EXCEPT !.at = at]
    OBVIOUS
  <2>6. at \in LinkPlaces
    BY DEF LinkPlaces
  <2>7. /\ l \in [at : LinkPlaces, url : Urls \cup {"none"}, graph : Directories]
        /\ l.url = link[x].url /\ l.at = at
    BY <1>3, <2>5, <2>6
  <2>8. link' = [link EXCEPT ![x] = l]
    BY <2>4, <2>5 DEF RepoInv, RepoTypes
  <2> QED
    BY <1>4, <2>1, <2>2, <2>4, <2>7, <2>8, LinkMoves
<1>8. ASSUME NEW x \in Links, IndexRepository(x)  PROVE RepoInv'
  <2>1. PICK l : l = [link[x] EXCEPT !.at = "setting", !.graph = mirror]
    OBVIOUS
  <2>2. /\ l \in [at : LinkPlaces, url : Urls \cup {"none"}, graph : Directories]
        /\ l.url = link[x].url /\ l.at = "setting" /\ l.graph = mirror
    BY <1>4, <2>1 DEF RepoInv, RepoTypes, LinkPlaces
  <2>3. /\ LinkUnderWay(x) /\ UNCHANGED <<upstream, mirror, repoIndex, tangled>>
        /\ link' = [link EXCEPT ![x] = l]
    BY <1>8, <2>1 DEF IndexRepository, LinkUnderWay, RepoInv, RepoTypes
  <2> QED
    BY <1>4, <2>2, <2>3, LinkMoves
<1>9. ASSUME NEW x \in Links, SetIndex(x)  PROVE RepoInv'
  <2>1. PICK l : l = [link[x] EXCEPT !.at = "answered", !.graph = NoIndex]
    OBVIOUS
  <2>2. /\ l \in [at : LinkPlaces, url : Urls \cup {"none"}, graph : Directories]
        /\ l.url = link[x].url /\ l.at = "answered"
    BY <1>4, <2>1 DEF RepoInv, RepoTypes, LinkPlaces, NoIndex
  <2>3. /\ LinkUnderWay(x) /\ UNCHANGED <<upstream, mirror, tangled>>
        /\ link' = [link EXCEPT ![x] = l] /\ repoIndex' = link[x].graph
        /\ repoIndex' \in Directories
    BY <1>9, <2>1 DEF SetIndex, LinkUnderWay, RepoInv, RepoTypes
  <2>4. ~tangled => repoIndex' = mirror'
    BY <1>9, <2>3 DEF SetIndex, RepoInv, MirrorUnder
  <2> QED
    BY <1>4, <2>2, <2>3, <2>4, LinkMoves
<1>10. CASE ServerStops
  <2>1. /\ link' \in [Links -> [at : LinkPlaces, url : Urls \cup {"none"}, graph : Directories]]
        /\ \A x \in Links : link'[x].at \in {"new", "failed"}
    <3>1. ASSUME NEW x \in Links
          PROVE  [link[x] EXCEPT !.at = "failed", !.graph = NoIndex]
                   \in [at : LinkPlaces, url : Urls \cup {"none"}, graph : Directories]
      BY <1>4 DEF RepoInv, RepoTypes, LinkPlaces, NoIndex
    <3>2. ASSUME NEW x \in Links
          PROVE  [link[x] EXCEPT !.at = "failed", !.graph = NoIndex].at = "failed"
      BY DEF RepoInv, RepoTypes
    <3> QED
      BY <1>10, <3>1, <3>2 DEF ServerStops, RepoInv, RepoTypes
  <2>2. UNCHANGED <<upstream, mirror>> /\ repoIndex' = NoIndex
    BY <1>10 DEF ServerStops
  <2>3. \A x \in Links : ~LinkUnderWay(x)' /\ MirrorUnder(x)'
    BY <2>1 DEF LinkUnderWay, MirrorUnder
  <2>4. RepoTypes'
    BY <1>4, <2>1, <2>2 DEF RepoInv, RepoTypes, NoIndex
  <2> QED
    BY <2>2, <2>3, <2>4 DEF RepoInv
<1> QED
  BY <1>1, <1>2, <1>5, <1>6, <1>7, <1>8, <1>9, <1>10, LinkBegins DEF RepoNext

LEMMA IndexIsOfMirror == RepoInv => IndexFollowsMirror
BY DEF RepoInv, IndexFollowsMirror

\* As long as links do not overlap, what is known of a repository is the index of its
\* mirror when none is under way, whichever of them failed before.
THEOREM IndexStaysCurrent == RepoInit /\ [][RepoNext]_repoVars => []IndexFollowsMirror
BY RepoBegins, RepoStep, IndexIsOfMirror, PTL
-----------------------------------------------------------------------------
(* ToolServers: the list of tools and the servers that are registered. *)

FirstServers(k) == {servers[j] : j \in 1..k}
AllServers == FirstServers(Len(servers))

ServersTypes ==
  /\ servers \in Seq(Names)
  /\ registration \in [Registrations ->
       {"new", "connecting", "refreshing", "stuck", "ok", "failed"}]
  /\ client \in [Names -> Registrations \cup {NoClient}]
  /\ refreshing = [f \in Refreshers |-> refreshing[f]]
  /\ trouble \in BOOLEAN

\* A registration that is past its handshake has its server in the sequence.
Registered ==
  /\ \A n \in Names : client[n] # NoClient => n \in AllServers
  /\ \A g \in Registrations :
       /\ registration[g] \in {"refreshing", "ok"} => client[nameOf[g]] # NoClient
       /\ refreshing[g].at # "idle" => registration[g] \in {"refreshing", "ok"}

\* A refresh has collected the servers before the one it asks.
Collected(f) ==
  refreshing[f].at = "asked" =>
    /\ refreshing[f].i \in 1..Len(servers) /\ refreshing[f].name = servers[refreshing[f].i]
    /\ refreshing[f].listed = FirstServers(refreshing[f].i - 1)

ServersInv ==
  /\ ServersTypes /\ Registered
  /\ trouble \/ (RegisteredIsListed /\ \A f \in Refreshers : Collected(f))

LEMMA ServersBegin == ToolServersInit => ServersInv
<1> SUFFICES ASSUME ToolServersInit  PROVE ServersInv
  OBVIOUS
<1>1. refreshing = [f \in Refreshers |-> refreshing[f]] /\ \A f \in Refreshers : refreshing[f].at = "idle"
  BY DEF ToolServersInit, NoRefreshRun
<1>2. servers \in Seq(Names) /\ client \in [Names -> Registrations \cup {NoClient}]
  BY DEF ToolServersInit
<1>3. trouble \in BOOLEAN
  BY Zenon DEF ToolServersInit
<1>4. /\ \A g \in Registrations : registration[g] = "new" /\ g \in Refreshers
      /\ \A n \in Names : client[n] = NoClient
  BY DEF ToolServersInit, Refreshers
<1>5. ServersTypes
  BY <1>1, <1>2, <1>3 DEF ToolServersInit, ServersTypes
<1> QED
  BY <1>1, <1>4, <1>5 DEF ServersInv, Registered, Collected, RegisteredIsListed

\* A refresh asks the next of the servers, or lists what it has collected.
LEMMA RefreshGoes ==
  ASSUME ServersTypes, NEW f \in Refreshers, NEW i, NEW listed, NEW rest, NEW clients,
         ListGoes(f, i, listed, rest, clients)
  PROVE  /\ refreshing' = [r \in Refreshers |-> refreshing'[r]]
         /\ \A r \in Refreshers : r # f => refreshing'[r] = refreshing[r]
         /\ rest = <<>> => refreshing'[f].at = "over" /\ tools' = listed
         /\ rest # <<>> => /\ refreshing'[f].at = "asked" /\ refreshing'[f].i = i
                           /\ refreshing'[f].name = Head(rest)
                           /\ refreshing'[f].listed = listed /\ tools' = tools
BY DEF ServersTypes, ListGoes

\* What is left of the servers when the refresh has come to the i-th.
LEMMA RestOfServers ==
  ASSUME servers \in Seq(Names), NEW i \in 1..Len(servers)
  PROVE  LET rest == SubSeq(servers, i + 1, Len(servers)) IN
         /\ i = Len(servers) => rest = <<>>
         /\ i # Len(servers) => rest # <<>> /\ Head(rest) = servers[i + 1] /\ i + 1 \in 1..Len(servers)
         /\ FirstServers(i - 1) \cup {servers[i]} = FirstServers(i)
<1> DEFINE rest == SubSeq(servers, i + 1, Len(servers))
<1>1. /\ Len(servers) \in Nat /\ i \in Nat /\ rest \in Seq(Names)
      /\ Len(rest) = Len(servers) - i /\ \A j \in 1..Len(rest) : rest[j] = servers[i + j]
  OBVIOUS
<1>2. FirstServers(i - 1) \cup {servers[i]} = FirstServers(i)
  <2>1. \A j \in Nat : j \in 1..i <=> j \in 1..(i - 1) \/ j = i
    BY <1>1
  <2> QED
    BY <1>1, <2>1 DEF FirstServers
<1> HIDE DEF rest
<1>3. i = Len(servers) => rest = <<>>
  BY <1>1
<1>4. i # Len(servers) => rest # <<>> /\ Head(rest) = rest[1] /\ i + 1 \in 1..Len(servers)
  BY <1>1
<1> QED
  BY <1>1, <1>2, <1>3, <1>4 DEF rest

\* What a step that leaves the sequence of servers alone keeps.
LEMMA RegistryKeeps ==
  ASSUME ServersInv, ServersTypes', UNCHANGED <<nameOf, servers, client>>,
         \A g \in Registrations :
           /\ registration'[g] \in {"refreshing", "ok"} => registration[g] \in {"refreshing", "ok"}
           /\ refreshing'[g].at # "idle" => registration'[g] \in {"refreshing", "ok"}
  PROVE  Registered' /\ Names' = Names /\ AllServers' = AllServers
         /\ \A g \in Registrations :
              registration'[g] \in {"refreshing", "ok"} => nameOf[g] \in AllServers
<1>1. Names' = Names /\ AllServers' = AllServers
  BY DEF Names, AllServers, FirstServers
<1>2. \A g \in Registrations : nameOf[g] \in Names
  BY DEF Names
<1> QED
  BY <1>1, <1>2 DEF ServersInv, Registered

LEMMA ServerListed == ASSUME ServersInv, NEW f \in Refreshers, ListAnswered(f)  PROVE ServersInv'
<1> PICK was : was = refreshing[f]
  OBVIOUS
<1> PICK rest : rest = SubSeq(servers, was.i + 1, Len(servers))
  OBVIOUS
<1>1. PICK ok \in BOOLEAN :
        /\ trouble' = (trouble \/ ~ok)
        /\ ListGoes(f, was.i + 1, IF ok THEN was.listed \cup {was.name} ELSE was.listed, rest, client)
  BY DEF ListAnswered, Remaining
<1>2. /\ was.at = "asked" /\ Settles(f) /\ UNCHANGED <<nameOf, servers, client>>
  BY DEF ListAnswered
<1>3. ServersTypes
  BY DEF ServersInv
<1>4. /\ refreshing' = [r \in Refreshers |-> refreshing'[r]]
      /\ \A r \in Refreshers : r # f => refreshing'[r] = refreshing[r]
      /\ refreshing'[f].at \in {"over", "asked"}
  BY <1>1, <1>3, RefreshGoes
<1>5. f \in Registrations => registration[f] \in {"refreshing", "ok"}
  BY <1>2 DEF ServersInv, Registered
<1>6. /\ registration' \in [Registrations ->
           {"new", "connecting", "refreshing", "stuck", "ok", "failed"}]
      /\ \A g \in Registrations :
           /\ registration'[g] \in {"refreshing", "ok"} <=> registration[g] \in {"refreshing", "ok"}
           /\ registration'[g] = "ok" => registration[g] = "ok" \/ refreshing'[f].at = "over"
  BY <1>2, <1>3, <1>5 DEF Settles, ServersTypes
<1>7. trouble' \in BOOLEAN
  BY <1>1, <1>3, Zenon DEF ServersTypes
<1>8. ServersTypes'
  BY <1>2, <1>3, <1>4, <1>6, <1>7 DEF ServersTypes, Names
<1>9. \A g \in Registrations :
        refreshing'[g].at # "idle" => registration'[g] \in {"refreshing", "ok"}
  BY <1>4, <1>5, <1>6 DEF ServersInv, Registered, Refreshers
<1>10. /\ Registered'
       /\ \A g \in Registrations :
            registration'[g] \in {"refreshing", "ok"} => nameOf[g] \in AllServers
  BY <1>2, <1>6, <1>8, <1>9, RegistryKeeps
<1>11. CASE trouble'
  BY <1>8, <1>10, <1>11 DEF ServersInv
<1>12. CASE ~trouble'
  <2>1. ok /\ ~trouble
    BY <1>1, <1>12, Zenon
  <2>2. Collected(f) /\ RegisteredIsListed /\ \A r \in Refreshers : Collected(r)
    BY <2>1, Zenon DEF ServersInv
  <2>3. /\ was.i \in 1..Len(servers) /\ was.name = servers[was.i]
        /\ was.listed = FirstServers(was.i - 1)
    BY <1>2, <2>2 DEF Collected
  <2>4. /\ was.i = Len(servers) => rest = <<>>
        /\ was.i # Len(servers) =>
             rest # <<>> /\ Head(rest) = servers[was.i + 1] /\ was.i + 1 \in 1..Len(servers)
        /\ was.listed \cup {was.name} = FirstServers(was.i)
    BY <1>3, <2>3, RestOfServers DEF ServersTypes
  <2>5. ListGoes(f, was.i + 1, FirstServers(was.i), rest, client)
    BY <1>1, <2>1, <2>4
  <2>6. rest = <<>> => refreshing'[f].at = "over" /\ tools' = AllServers
    BY <1>3, <2>3, <2>4, <2>5, RefreshGoes DEF AllServers
  <2>7. rest # <<>> =>
          /\ refreshing'[f].at = "asked" /\ refreshing'[f].i = was.i + 1
          /\ refreshing'[f].name = servers[was.i + 1] /\ tools' = tools
          /\ refreshing'[f].listed = FirstServers(was.i) /\ was.i + 1 \in 1..Len(servers)
    <3>1. rest # <<>> => /\ refreshing'[f].at = "asked" /\ refreshing'[f].i = was.i + 1
                         /\ refreshing'[f].name = Head(rest) /\ tools' = tools
                         /\ refreshing'[f].listed = FirstServers(was.i)
      BY <1>3, <2>5, RefreshGoes
    <3>2. rest # <<>> => Head(rest) = servers[was.i + 1] /\ was.i + 1 \in 1..Len(servers)
      BY <2>4
    <3> QED
      BY <3>1, <3>2
  <2>8. Collected(f)'
    <3>1. was.i \in Nat /\ was.i + 1 - 1 = was.i
      BY <2>3
    <3>2. (FirstServers(was.i))' = FirstServers(was.i) /\ UNCHANGED servers
      BY <1>2 DEF FirstServers
    <3>3. CASE rest = <<>>
      BY <2>6, <3>3 DEF Collected
    <3>4. CASE rest # <<>>
      <4>1. FirstServers(refreshing'[f].i - 1) = FirstServers(was.i)
        BY <2>7, <3>1, <3>4
      <4>2. (FirstServers(refreshing[f].i - 1))' = FirstServers(refreshing'[f].i - 1)
        BY <3>2 DEF FirstServers
      <4> QED
        BY <2>7, <3>2, <3>4, <4>1, <4>2 DEF Collected
    <3> QED
      BY <3>3, <3>4
  <2>9. \A r \in Refreshers : Collected(r)'
    BY <1>2, <1>4, <2>2, <2>8 DEF Collected, FirstServers
  <2>10. ASSUME NEW g \in Registrations, registration'[g] = "ok"  PROVE nameOf[g] \in tools'
    <3>1. CASE rest = <<>>
      BY <1>10, <2>6, <2>10, <3>1
    <3>2. CASE rest # <<>>
      BY <1>6, <2>1, <2>2, <2>7, <2>10, <3>2 DEF RegisteredIsListed
    <3> QED
      BY <3>1, <3>2
  <2> QED
    BY <1>2, <1>8, <1>10, <2>9, <2>10 DEF ServersInv, RegisteredIsListed
<1> QED
  BY <1>11, <1>12

\* A request begins to refresh the list.
LEMMA ListingBegins == ASSUME ServersInv, NEW l \in Listings, refreshTools(l)  PROVE ServersInv'
<1>1. /\ ListGoes(l, 1, {}, servers, client) /\ refreshing[l] = NoRefreshRun
      /\ UNCHANGED <<nameOf, registration, servers, client, trouble>>
  BY DEF refreshTools
<1>2. ServersTypes /\ l \in Refreshers /\ l \notin Registrations
  BY ToolServersAssumption DEF ServersInv, Refreshers
<1>3. /\ refreshing' = [r \in Refreshers |-> refreshing'[r]]
      /\ \A r \in Refreshers : r # l => refreshing'[r] = refreshing[r]
  BY <1>1, <1>2, RefreshGoes
<1>4. /\ servers = <<>> => refreshing'[l].at = "over" /\ tools' = {}
      /\ servers # <<>> => /\ refreshing'[l].at = "asked" /\ refreshing'[l].i = 1
                           /\ refreshing'[l].name = Head(servers)
                           /\ refreshing'[l].listed = {} /\ tools' = tools
  BY <1>1, <1>2, RefreshGoes
<1>5. ServersTypes'
  BY <1>1, <1>2, <1>3 DEF ServersTypes, Names
<1>6. \A g \in Registrations :
        refreshing'[g].at # "idle" => registration'[g] \in {"refreshing", "ok"}
  BY <1>1, <1>2, <1>3 DEF ServersInv, Registered, Refreshers
<1>7. /\ Registered'
      /\ \A g \in Registrations :
           registration[g] \in {"refreshing", "ok"} => nameOf[g] \in AllServers
  BY <1>1, <1>5, <1>6, RegistryKeeps
<1>8. CASE trouble
  BY <1>1, <1>5, <1>7, <1>8 DEF ServersInv
<1>9. CASE ~trouble
  <2>1. RegisteredIsListed /\ \A r \in Refreshers : Collected(r)
    BY <1>9, Zenon DEF ServersInv
  <2>2. FirstServers(0) = {} /\ (servers = <<>> => AllServers = {})
    BY DEF FirstServers, AllServers
  <2>3. servers # <<>> => 1 \in 1..Len(servers) /\ Head(servers) = servers[1]
    BY <1>2 DEF ServersTypes
  <2>4. Collected(l)'
    <3>1. servers # <<>> => (FirstServers(refreshing[l].i - 1))' = {}
      BY <1>4 DEF FirstServers
    <3> QED
      BY <1>1, <1>4, <2>3, <3>1 DEF Collected
  <2>5. \A r \in Refreshers : Collected(r)'
    BY <1>1, <1>3, <2>1, <2>4 DEF Collected, FirstServers
  <2>6. ASSUME NEW g \in Registrations, registration[g] = "ok"  PROVE nameOf[g] \in tools'
    <3>1. nameOf[g] \in tools
      BY <1>9, <2>1, <2>6, Zenon DEF RegisteredIsListed
    <3> QED
      BY <1>4, <1>7, <2>2, <2>6, <3>1
  <2> QED
    BY <1>1, <1>5, <1>7, <2>5, <2>6 DEF ServersInv, RegisteredIsListed
<1> QED
  BY <1>8, <1>9

\* A handshake that ends registers the server under its name and refreshes the list.
LEMMA HandshakeEnds == ASSUME ServersInv, NEW g \in Registrations, Initialized(g)  PROVE ServersInv'
<1> PICK name : name = nameOf[g]
  OBVIOUS
<1>0. ServersTypes /\ name \in Names /\ g \in Refreshers /\ g # NoClient
  BY ToolServersAssumption DEF ServersInv, Names, Refreshers
<1> PICK now : now = IF client[name] = NoClient THEN Append(servers, name) ELSE servers
  OBVIOUS
<1> PICK clients : clients = [client EXCEPT ![name] = g]
  OBVIOUS
<1>1. /\ registration[g] = "connecting" /\ registration' = [registration EXCEPT ![g] = "refreshing"]
      /\ servers' = now /\ client' = clients /\ ListGoes(g, 1, {}, now, clients)
      /\ UNCHANGED <<nameOf, trouble>>
  BY DEF Initialized
<1>2. Names' = Names
  BY <1>1 DEF Names
<1>3. /\ now \in Seq(Names) /\ Len(now) >= Len(servers) /\ now # <<>>
      /\ \A j \in 1..Len(servers) : now[j] = servers[j]
      /\ name \in {now[j] : j \in 1..Len(now)}
  <2>1. CASE client[name] = NoClient
    <3>1. /\ now = Append(servers, name) /\ Len(now) = Len(servers) + 1
          /\ now[Len(now)] = name /\ Len(now) \in 1..Len(now)
      BY <1>0, <2>1 DEF ServersTypes
    <3> QED
      BY <1>0, <3>1 DEF ServersTypes
  <2>2. CASE client[name] # NoClient
    <3>1. name \in AllServers /\ now = servers
      BY <1>0, <2>2 DEF ServersInv, Registered
    <3> QED
      BY <1>0, <3>1 DEF ServersTypes, AllServers, FirstServers
  <2> QED
    BY <2>1, <2>2
<1>4. \A j \in 1..Len(servers) : j \in 1..Len(now)
  BY <1>0, <1>3 DEF ServersTypes
<1>5. AllServers' = {now[j] : j \in 1..Len(now)} /\ AllServers \subseteq AllServers'
  BY <1>1, <1>3, <1>4 DEF AllServers, FirstServers
<1>6. /\ refreshing' = [r \in Refreshers |-> refreshing'[r]]
      /\ \A r \in Refreshers : r # g => refreshing'[r] = refreshing[r]
      /\ refreshing'[g].at = "asked" /\ refreshing'[g].i = 1 /\ refreshing'[g].name = Head(now)
      /\ refreshing'[g].listed = {} /\ tools' = tools
  <2>1. now # <<>> /\ ListGoes(g, 1, {}, now, clients)
    BY <1>1, <1>3
  <2>2. /\ refreshing' = [r \in Refreshers |-> refreshing'[r]]
        /\ \A r \in Refreshers : r # g => refreshing'[r] = refreshing[r]
    BY <1>0, <2>1, RefreshGoes
  <2>3. now # <<>> => /\ refreshing'[g].at = "asked" /\ refreshing'[g].i = 1
                      /\ refreshing'[g].name = Head(now)
                      /\ refreshing'[g].listed = {} /\ tools' = tools
    <3> SUFFICES ASSUME now # <<>>
                 PROVE  /\ refreshing'[g].at = "asked" /\ refreshing'[g].i = 1
                        /\ refreshing'[g].name = Head(now)
                        /\ refreshing'[g].listed = {} /\ tools' = tools
      OBVIOUS
    <3>1. refreshing = [r \in Refreshers |-> refreshing[r]]
      BY <1>0 DEF ServersTypes
    <3>2. PICK was : was = [at |-> "asked", i |-> 1, name |-> Head(now),
                            of |-> clients[Head(now)], listed |-> {}]
      OBVIOUS
    <3>3. refreshing' = [refreshing EXCEPT ![g] = was] /\ tools' = tools
      BY <2>1, <3>2 DEF ListGoes
    <3>4. refreshing'[g] = was
      BY <1>0, <3>1, <3>3
    <3> QED
      BY <3>2, <3>3, <3>4
  <2> QED
    BY <2>1, <2>2, <2>3
<1>7. client' \in [Names -> Registrations \cup {NoClient}] /\ client'[name] = g
      /\ \A n \in Names : n # name => client'[n] = client[n]
  BY <1>0, <1>1 DEF ServersTypes
<1>8. registration'[g] = "refreshing" /\ \A h \in Registrations : h # g => registration'[h] = registration[h]
  BY <1>0, <1>1 DEF ServersTypes
<1>9. ServersTypes'
  <2>1. registration' \in [Registrations ->
          {"new", "connecting", "refreshing", "stuck", "ok", "failed"}]
    BY <1>0, <1>1 DEF ServersTypes
  <2>2. trouble' \in BOOLEAN
    BY <1>0, <1>1, Zenon DEF ServersTypes
  <2> QED
    BY <1>1, <1>2, <1>3, <1>6, <1>7, <2>1, <2>2 DEF ServersTypes
<1>10. Registered'
  <2>1. \A n \in Names : client'[n] # NoClient => n \in AllServers'
    BY <1>3, <1>5, <1>7 DEF ServersInv, Registered
  <2>2. ASSUME NEW h \in Registrations
        PROVE  /\ registration'[h] \in {"refreshing", "ok"} => client'[nameOf[h]] # NoClient
               /\ refreshing'[h].at # "idle" => registration'[h] \in {"refreshing", "ok"}
    <3>1. nameOf[h] \in Names /\ h \in Refreshers
      BY DEF Names, Refreshers
    <3>2. CASE h = g
      BY <1>0, <1>7, <1>8, <3>2
    <3>3. CASE h # g
      BY <1>0, <1>6, <1>7, <1>8, <3>1, <3>3 DEF ServersInv, Registered
    <3> QED
      BY <3>2, <3>3
  <2> QED
    BY <1>1, <1>2, <2>1, <2>2 DEF Registered
<1>11. CASE trouble
  BY <1>1, <1>9, <1>10, <1>11 DEF ServersInv
<1>12. CASE ~trouble
  <2>1. RegisteredIsListed /\ \A r \in Refreshers : Collected(r)
    BY <1>12, Zenon DEF ServersInv
  <2>2. RegisteredIsListed'
    BY <1>1, <1>6, <1>8, <2>1 DEF RegisteredIsListed
  <2>3. Collected(g)'
    <3>1. 1 \in 1..Len(now) /\ Head(now) = now[1]
      BY <1>3
    <3>2. (FirstServers(refreshing[g].i - 1))' = {}
      BY <1>6 DEF FirstServers
    <3> QED
      BY <1>1, <1>6, <3>1, <3>2 DEF Collected
  <2>4. ASSUME NEW r \in Refreshers, r # g  PROVE Collected(r)'
    <3>1. refreshing'[r] = refreshing[r]
      BY <1>6, <2>4
    <3>2. SUFFICES ASSUME refreshing[r].at = "asked"
                   PROVE  /\ refreshing[r].i \in 1..Len(now) /\ refreshing[r].name = now[refreshing[r].i]
                          /\ refreshing[r].listed = {now[j] : j \in 1..(refreshing[r].i - 1)}
      BY <1>1, <3>1 DEF Collected, FirstServers
    <3>3. /\ refreshing[r].i \in 1..Len(servers) /\ refreshing[r].name = servers[refreshing[r].i]
          /\ refreshing[r].listed = {servers[j] : j \in 1..(refreshing[r].i - 1)}
      BY <2>1, <3>2 DEF Collected, FirstServers
    <3>4. \A j \in 1..(refreshing[r].i - 1) : j \in 1..Len(servers)
      BY <1>0, <3>3 DEF ServersTypes
    <3> QED
      BY <1>3, <1>4, <3>3, <3>4
  <2> QED
    BY <1>9, <1>10, <2>2, <2>3, <2>4 DEF ServersInv
<1> QED
  BY <1>11, <1>12

\* A refresh that a step does not continue, and registrations that come no further.
LEMMA ListUntouched ==
  ASSUME ServersInv, UNCHANGED <<nameOf, servers, client, tools>>, trouble' \in BOOLEAN,
         trouble => trouble',
         registration' \in [Registrations ->
           {"new", "connecting", "refreshing", "stuck", "ok", "failed"}],
         \A g \in Registrations :
           registration[g] # "connecting" /\ registration[g] # "new" => registration'[g] = registration[g],
         \A g \in Registrations : registration'[g] \in {"refreshing", "ok"} => registration[g] = registration'[g],
         refreshing' = [r \in Refreshers |-> refreshing'[r]],
         \A r \in Refreshers : refreshing'[r] = refreshing[r]
           \/ (refreshing[r].at = "asked" /\ refreshing'[r].at = "forgotten")
  PROVE  ServersInv'
<1>1. ServersTypes'
  BY DEF ServersInv, ServersTypes, Names
<1>2. \A g \in Registrations :
           /\ registration'[g] \in {"refreshing", "ok"} => registration[g] \in {"refreshing", "ok"}
           /\ refreshing'[g].at # "idle" => registration'[g] \in {"refreshing", "ok"}
  BY DEF ServersInv, Registered, Refreshers
<1>3. Registered'
  BY <1>1, <1>2, RegistryKeeps
<1>4. CASE trouble'
  BY <1>1, <1>3, <1>4 DEF ServersInv
<1>5. CASE ~trouble'
  <2>1. ~trouble
    BY <1>5, Zenon
  <2>2. RegisteredIsListed /\ \A r \in Refreshers : Collected(r)
    BY <2>1, Zenon DEF ServersInv
  <2>3. RegisteredIsListed'
    BY <2>1, <2>2 DEF RegisteredIsListed
  <2>4. \A r \in Refreshers : Collected(r)'
    BY <2>2 DEF Collected, FirstServers
  <2> QED
    BY <1>1, <1>3, <2>3, <2>4 DEF ServersInv
<1> QED
  BY <1>4, <1>5

LEMMA ServersStep == ServersInv /\ [ToolServersNext]_toolServerVars => ServersInv'
<1> SUFFICES ASSUME ServersInv, [ToolServersNext]_toolServerVars  PROVE ServersInv'
  OBVIOUS
<1>1. ServersTypes
  BY DEF ServersInv
<1>2. trouble \in BOOLEAN
  BY <1>1 DEF ServersTypes
<1>3. ASSUME UNCHANGED <<nameOf, registration, servers, client, refreshing, tools, trouble>>
      PROVE  ServersInv'
  <2>1. trouble' \in BOOLEAN /\ (trouble => trouble')
    BY <1>2, <1>3, Zenon
  <2> QED
    BY <1>1, <1>3, <2>1, ListUntouched DEF ServersTypes
<1>4. CASE UNCHANGED toolServerVars
  BY <1>3, <1>4 DEF toolServerVars
<1>5. ASSUME NEW f \in Refreshers, AnswerLost(f)  PROVE ServersInv'
  <2>1. trouble' \in BOOLEAN /\ (trouble => trouble')
    BY <1>5, Zenon DEF AnswerLost
  <2>2. /\ refreshing' = [r \in Refreshers |-> refreshing'[r]]
        /\ \A r \in Refreshers : refreshing'[r] = refreshing[r]
             \/ (refreshing[r].at = "asked" /\ refreshing'[r].at = "forgotten")
    BY <1>1, <1>5 DEF AnswerLost, ServersTypes
  <2>3. UNCHANGED <<nameOf, registration, servers, client, tools>>
    BY <1>5 DEF AnswerLost
  <2> QED
    BY <1>1, <2>1, <2>2, <2>3, ListUntouched DEF ServersTypes
<1>6. ASSUME NEW g \in Registrations, registerServer(g) \/ InitializeErrs(g) \/ Dies(g)
      PROVE  ServersInv'
  <2>1. trouble' \in BOOLEAN /\ (trouble => trouble')
    <3>1. CASE registerServer(g)
      BY <1>2, <3>1, Zenon DEF registerServer
    <3>2. CASE InitializeErrs(g)
      BY <3>2, Zenon DEF InitializeErrs
    <3>3. CASE Dies(g)
      BY <1>2, <3>3, Zenon DEF Dies
    <3> QED
      BY <1>6, <3>1, <3>2, <3>3
  <2>2. /\ UNCHANGED <<nameOf, servers, client, tools, refreshing>>
        /\ registration' = registration
           \/ \E at \in {"connecting", "failed", "stuck"} :
                /\ registration[g] \in {"new", "connecting"}
                /\ registration' = [registration EXCEPT ![g] = at]
    BY <1>6 DEF registerServer, InitializeErrs, Dies, Fails, registryVars
  <2> QED
    BY <1>1, <2>1, <2>2, ListUntouched DEF ServersTypes
<1>7. ASSUME NEW c \in ToolCalls, callTool(c) \/ ToolAnswered(c)  PROVE ServersInv'
  BY <1>3, <1>7 DEF callTool, ToolAnswered, registryVars
<1> QED
  BY <1>4, <1>5, <1>6, <1>7, ServerListed, ListingBegins, HandshakeEnds
  DEF ToolServersNext, ServerAnswers

LEMMA ListedAreRegistered == ServersInv => RegisteredIsListed
BY DEF ServersInv, RegisteredIsListed

\* Whichever refreshes overlap, a server that was registered is listed, as long as all
\* servers work.
THEOREM RegisteredStayListed ==
  ToolServersInit /\ [][ToolServersNext]_toolServerVars => []RegisteredIsListed
BY ServersBegin, ServersStep, ListedAreRegistered, PTL
-----------------------------------------------------------------------------
(* SchemaStartup: the schema that two programs make, and repeated writes. *)

\* What the statements name, db.js creates.
LEMMA QueriesFitRuntime ==
  \A q \in Queries : q[1] \in DOMAIN RuntimeTables /\ q[2] \subseteq RuntimeTables[q[1]]
<1>1. \A q \in AccountQueries : q[1] \in DOMAIN AccountTables /\ q[2] \subseteq AccountTables[q[1]]
  BY DEF AccountQueries, AccountTables
<1>2. \A q \in WorkQueries :
        q[1] \in DOMAIN WorkTables \ (DOMAIN AccountTables \cup DOMAIN MemoryTables)
          /\ q[2] \subseteq WorkTables[q[1]]
  BY DEF WorkQueries, WorkTables, AccountTables, MemoryTables
<1>3. \A q \in RunQueries :
        q[1] \in DOMAIN RunTables \ (DOMAIN AccountTables \cup DOMAIN MemoryTables \cup DOMAIN WorkTables)
          /\ q[2] \subseteq RunTables[q[1]]
  BY DEF RunQueries, RunTables, WorkTables, AccountTables, MemoryTables
<1> QED
  BY <1>1, <1>2, <1>3 DEF Queries, RuntimeTables, CreateIfNotExists

LEMMA RuntimeNames ==
  /\ DOMAIN Indexed = {"semantic_embeddings", "agent_runs", "agent_action_grants"}
  /\ DOMAIN Indexed \subseteq DOMAIN RuntimeTables /\ "user_sessions" \in DOMAIN RuntimeTables
  /\ \A t \in DOMAIN Indexed : Indexed[t] = RuntimeTables[t]
  /\ RuntimeTables["user_sessions"] = {"provider"}
<1>1. /\ "user_sessions" \in DOMAIN AccountTables /\ "semantic_embeddings" \in DOMAIN MemoryTables
      /\ {"agent_runs", "agent_action_grants"} \subseteq DOMAIN RunTables
      /\ AccountTables["user_sessions"] = {"provider"}
  BY DEF AccountTables, MemoryTables, RunTables
<1>2. DOMAIN RuntimeTables = (DOMAIN AccountTables \cup DOMAIN MemoryTables)
                               \cup (DOMAIN WorkTables \cup DOMAIN RunTables)
  BY DEF RuntimeTables, CreateIfNotExists
<1>3. RuntimeTables["user_sessions"] = AccountTables["user_sessions"]
  BY <1>1 DEF RuntimeTables, CreateIfNotExists
<1> QED
  BY <1>1, <1>2, <1>3 DEF Indexed

\* Tables keep the columns they have, and new ones have those they are made with.
LEMMA TablesKeep ==
  ASSUME NEW there, NEW tables
  PROVE  LET made == CreateIfNotExists(there, tables) IN
         /\ DOMAIN made = DOMAIN there \cup DOMAIN tables
         /\ \A t \in DOMAIN there : made[t] = there[t]
         /\ \A t \in DOMAIN tables \ DOMAIN there : made[t] = tables[t]
         /\ made = [t \in DOMAIN made |-> made[t]]
BY DEF CreateIfNotExists

\* A table has the columns of db.js, or somebody else made it.
HasColumns(t) ==
  RuntimeTables[t] \subseteq database[t] \/ t \in byScript \/ t \in DOMAIN Indexed \cup {"user_sessions"}

Migrating == {"migration 1", "migration 2", "migration 3"}
Processes == [at : {"environment", "creating", "listening", "draining", "exited"} \cup Migrating,
              tries : 0..InitRetries, fits : BOOLEAN]

SchemaTypes ==
  /\ database = [t \in DOMAIN database |-> database[t]]
  /\ server \in [Servers -> Processes] /\ skipped \in BOOLEAN
  /\ byScript \subseteq DOMAIN database /\ (script # "done" => byScript = {})

\* The server has made its schema, and has been past the first migration.
Past(r) ==
  /\ r.at \in {"environment", "creating"} => ~r.fits
  /\ r.fits => /\ DOMAIN RuntimeTables \subseteq DOMAIN database
               /\ \A t \in DOMAIN Indexed : Indexed[t] \subseteq database[t]
  /\ r.fits /\ r.at \in {"migration 2", "migration 3", "listening", "draining"} /\ ~skipped
       => {"provider"} \subseteq database["user_sessions"]

SchemaInv ==
  /\ SchemaTypes
  /\ \A t \in DOMAIN RuntimeTables \cap DOMAIN database : HasColumns(t)
  /\ \A s \in Servers : Past(server[s])

LEMMA SchemaBegins == SchemaInit => SchemaInv
<1> SUFFICES ASSUME SchemaInit  PROVE SchemaInv
  OBVIOUS
<1>1. Starting \in Processes /\ Starting.at = "environment" /\ ~Starting.fits
  BY RetriesAssumption DEF Starting, Processes
<1>2. server \in [Servers -> Processes] /\ \A s \in Servers : server[s] = Starting
  BY <1>1 DEF SchemaInit
<1>3. skipped \in BOOLEAN
  BY Zenon DEF SchemaInit
<1>4. CASE database = [t \in {} |-> {}]
  BY <1>1, <1>2, <1>3, <1>4 DEF SchemaInit, SchemaInv, SchemaTypes, Past
<1>5. CASE database = CreateIfNotExists(Same({"user_sessions"}), RuntimeTables)
  <2>1. database = [t \in DOMAIN database |-> database[t]]
    BY <1>5 DEF CreateIfNotExists
  <2>2. \A t \in DOMAIN RuntimeTables : t # "user_sessions" => database[t] = RuntimeTables[t]
    BY <1>5 DEF Same, CreateIfNotExists
  <2> QED
    BY <1>1, <1>2, <1>3, <2>1, <2>2 DEF SchemaInit, SchemaInv, SchemaTypes, Past, HasColumns
<1>6. CASE database = [t \in DOMAIN RuntimeTables |-> IF t \in DOMAIN Indexed THEN {} ELSE RuntimeTables[t]]
  <2>1. \A t \in DOMAIN RuntimeTables : t \notin DOMAIN Indexed => database[t] = RuntimeTables[t]
    BY <1>6
  <2> QED
    BY <1>1, <1>2, <1>3, <1>6, <2>1 DEF SchemaInit, SchemaInv, SchemaTypes, Past, HasColumns
<1> QED
  BY <1>4, <1>5, <1>6 DEF SchemaInit, OldDatabases

\* Tables only gain columns, so that what a server has found stays true.
LEMMA TablesGrow ==
  ASSUME NEW r \in Processes, Past(r), skipped => skipped',
         DOMAIN database \subseteq DOMAIN database',
         \A t \in DOMAIN database : database[t] \subseteq database'[t]
  PROVE  Past(r)'
<1>1. r.fits => /\ DOMAIN RuntimeTables \subseteq DOMAIN database'
                /\ \A t \in DOMAIN Indexed : Indexed[t] \subseteq database'[t]
  BY RuntimeNames DEF Past
<1>2. r.fits => database["user_sessions"] \subseteq database'["user_sessions"]
  BY RuntimeNames DEF Past
<1> QED
  BY <1>1, <1>2, Zenon DEF Past

\* A server goes on, and the schema stays as it is.
LEMMA ServerMoves ==
  ASSUME SchemaInv, NEW s \in Servers, NEW r \in Processes, server' = [server EXCEPT ![s] = r],
         skipped' \in BOOLEAN, skipped => skipped', UNCHANGED <<database, byScript, script>>,
         Past(r)'
  PROVE  SchemaInv'
<1>1. server' \in [Servers -> Processes] /\ server'[s] = r
      /\ \A x \in Servers : x # s => server'[x] = server[x]
  BY DEF SchemaInv, SchemaTypes
<1>2. SchemaTypes'
  BY <1>1 DEF SchemaInv, SchemaTypes
<1>3. \A t \in DOMAIN RuntimeTables \cap DOMAIN database : HasColumns(t)'
  BY DEF SchemaInv, HasColumns
<1>4. ASSUME NEW x \in Servers  PROVE Past(server[x])'
  <2>1. CASE x = s
    BY <1>1, <2>1 DEF Past
  <2>2. CASE x # s
    <3>1. Past(server[x]) /\ server[x] \in Processes
      BY DEF SchemaInv, SchemaTypes
    <3>2. PICK p \in Processes : p = server[x]
      BY <3>1
    <3>3. Past(p)'
      BY <3>1, <3>2, TablesGrow
    <3> QED
      BY <1>1, <2>2, <3>2, <3>3 DEF Past
  <2> QED
    BY <2>1, <2>2
<1> QED
  BY <1>2, <1>3, <1>4 DEF SchemaInv

\* The schema of db.js is made, where its indexes fit.
LEMMA SchemaMade == ASSUME SchemaInv, NEW s \in Servers, Creates(s)  PROVE SchemaInv'
<1>1. /\ server[s].at = "creating" /\ Fits /\ database' = Made
      /\ server' = [server EXCEPT ![s].at = "migration 1", ![s].fits = TRUE]
      /\ UNCHANGED <<byScript, skipped, script>>
  BY DEF Creates
<1> PICK r : r = [server[s] EXCEPT !.at = "migration 1", !.fits = TRUE]
  OBVIOUS
<1>2. r \in Processes /\ r.at = "migration 1" /\ r.fits
  BY DEF SchemaInv, SchemaTypes, Processes, Migrating
<1>3. server' = [server EXCEPT ![s] = r] /\ server'[s] = r /\ server' \in [Servers -> Processes]
      /\ \A x \in Servers : x # s => server'[x] = server[x]
  BY <1>1, <1>2 DEF SchemaInv, SchemaTypes
<1>4. /\ DOMAIN database' = DOMAIN database \cup DOMAIN RuntimeTables
      /\ \A t \in DOMAIN database : database'[t] = database[t]
      /\ \A t \in DOMAIN RuntimeTables \ DOMAIN database : database'[t] = RuntimeTables[t]
      /\ database' = [t \in DOMAIN database' |-> database'[t]]
  BY <1>1 DEF Made, CreateIfNotExists
<1>5. \A t \in DOMAIN Indexed : Indexed[t] \subseteq database'[t]
  BY <1>1 DEF Fits
<1>6. SchemaTypes'
  <2>1. skipped' \in BOOLEAN
    BY <1>1, Zenon DEF SchemaInv, SchemaTypes
  <2> QED
    BY <1>1, <1>3, <1>4, <2>1 DEF SchemaInv, SchemaTypes
<1>7. \A t \in DOMAIN RuntimeTables \cap DOMAIN database' : HasColumns(t)'
  BY <1>1, <1>4 DEF SchemaInv, HasColumns
<1>8. ASSUME NEW x \in Servers  PROVE Past(server[x])'
  <2>1. CASE x = s
    <3>1. r.at \notin {"environment", "creating"}
          /\ r.at \notin {"migration 2", "migration 3", "listening", "draining"}
      BY <1>2
    <3> QED
      BY <1>3, <1>4, <1>5, <2>1, <3>1 DEF Past
  <2>2. CASE x # s
    <3>1. PICK p \in Processes : p = server[x]
      BY DEF SchemaInv, SchemaTypes
    <3>2. Past(p) /\ (skipped => skipped')
      BY <1>1, <3>1, Zenon DEF SchemaInv
    <3>3. Past(p)'
      BY <1>4, <3>2, TablesGrow
    <3> QED
      BY <1>3, <2>2, <3>1, <3>3 DEF Past
  <2> QED
    BY <2>1, <2>2
<1> QED
  BY <1>6, <1>7, <1>8 DEF SchemaInv

LEMMA MigrationNames ==
  /\ Len(Migrations) = 3 /\ Migrations[1][1] = "migration 1"
  /\ Migrations[2][1] = "migration 2" /\ Migrations[3][1] = "migration 3"
BY DEF Migrations

\* A migration adds its columns to the tables there are.
LEMMA SchemaMigrated == ASSUME SchemaInv, NEW s \in Servers, Migrates(s)  PROVE SchemaInv'
<1>1. PICK i \in 1..3 :
        /\ server[s].at = Migrations[i][1]
        /\ database' = [t \in DOMAIN database |->
             IF t \in DOMAIN Migrations[i][2] THEN database[t] \cup Migrations[i][2][t] ELSE database[t]]
        /\ Moves(s, IF i < Len(Migrations) THEN Migrations[i + 1][1] ELSE "listening")
        /\ UNCHANGED <<byScript, skipped, script>>
  BY DEF Migrates, Migrations
<1> PICK at : at = IF i < Len(Migrations) THEN Migrations[i + 1][1] ELSE "listening"
  OBVIOUS
<1>2. /\ at \in {"migration 2", "migration 3", "listening"}
      /\ Moves(s, at) /\ server[s].at \in Migrating
      /\ i # 1 => server[s].at \in {"migration 2", "migration 3"}
  <2>1. Moves(s, at)
    BY <1>1
  <2>2. /\ i = 1 \/ i = 2 \/ i = 3
        /\ i = 1 => i < 3 /\ i + 1 = 2
        /\ i = 2 => i < 3 /\ i + 1 = 3
        /\ i = 3 => ~(i < 3)
    OBVIOUS
  <2> QED
    BY <1>1, <2>1, <2>2, MigrationNames DEF Migrating
<1> PICK r : r = [server[s] EXCEPT !.at = at]
  OBVIOUS
<1>3. r \in Processes /\ r.at = at /\ r.fits = server[s].fits
  BY <1>2 DEF SchemaInv, SchemaTypes, Processes, Migrating
<1>4. server' = [server EXCEPT ![s] = r] /\ server'[s] = r /\ server' \in [Servers -> Processes]
      /\ \A x \in Servers : x # s => server'[x] = server[x]
  BY <1>2, <1>3 DEF Moves, SchemaInv, SchemaTypes
<1>5. /\ DOMAIN database' = DOMAIN database /\ \A t \in DOMAIN database : database[t] \subseteq database'[t]
      /\ database' = [t \in DOMAIN database' |-> database'[t]]
  BY <1>1
<1>6. i = 1 /\ "user_sessions" \in DOMAIN database => {"provider"} \subseteq database'["user_sessions"]
  <2> SUFFICES ASSUME i = 1, "user_sessions" \in DOMAIN database
               PROVE {"provider"} \subseteq database'["user_sessions"]
    OBVIOUS
  <2>1. Migrations[i][2] = [t \in {"user_sessions"} |-> {"provider"}]
    BY DEF Migrations
  <2> QED
    BY <1>1, <2>1
<1>7. SchemaTypes'
  <2>1. skipped' \in BOOLEAN
    BY <1>1, Zenon DEF SchemaInv, SchemaTypes
  <2> QED
    BY <1>1, <1>4, <1>5, <2>1 DEF SchemaInv, SchemaTypes
<1>8. \A t \in DOMAIN RuntimeTables \cap DOMAIN database' : HasColumns(t)'
  BY <1>1, <1>5 DEF SchemaInv, HasColumns
<1>9. ASSUME NEW x \in Servers  PROVE Past(server[x])'
  <2>1. PICK p \in Processes : p = server[x]
    BY DEF SchemaInv, SchemaTypes
  <2>2. Past(p) /\ (skipped => skipped')
    BY <1>1, <2>1, Zenon DEF SchemaInv
  <2>3. Past(p)'
    BY <1>5, <2>2, TablesGrow
  <2>4. CASE x = s
    <3>1. r.at \notin {"environment", "creating"}
      BY <1>2, <1>3
    <3>2. r.fits => p.fits
      BY <1>3, <2>1, <2>4
    <3>3. r.fits => /\ DOMAIN RuntimeTables \subseteq DOMAIN database'
                    /\ \A t \in DOMAIN Indexed : Indexed[t] \subseteq database'[t]
      BY <2>3, <3>2, Zenon DEF Past
    <3>4. CASE i = 1
      <4>1. r.fits => {"provider"} \subseteq database'["user_sessions"]
        BY <1>5, <1>6, <3>3, <3>4, RuntimeNames
      <4> QED
        BY <1>4, <2>4, <3>1, <3>3, <4>1, Zenon DEF Past
    <3>5. CASE i # 1
      <4>1. p.at \in {"migration 2", "migration 3", "listening", "draining"}
        BY <1>2, <2>1, <2>4, <3>5
      <4>2. r.fits /\ ~skipped' => {"provider"} \subseteq database'["user_sessions"]
        BY <2>3, <3>2, <4>1, Zenon DEF Past
      <4> QED
        BY <1>4, <2>4, <3>1, <3>3, <4>2, Zenon DEF Past
    <3> QED
      BY <3>4, <3>5
  <2>5. CASE x # s
    BY <1>4, <2>1, <2>3, <2>5 DEF Past
  <2> QED
    BY <2>4, <2>5
<1> QED
  BY <1>7, <1>8, <1>9 DEF SchemaInv

\* The script makes the tables there are none of yet.
LEMMA ScriptMade == ASSUME SchemaInv, ScriptCommits  PROVE SchemaInv'
<1>1. /\ script = "open" /\ script' = "done" /\ byScript' = DOMAIN ScriptTables \ DOMAIN database
      /\ database' = CreateIfNotExists(database, ScriptTables) /\ UNCHANGED <<server, skipped>>
  BY DEF ScriptCommits
<1>2. /\ DOMAIN database' = DOMAIN database \cup DOMAIN ScriptTables
      /\ \A t \in DOMAIN database : database'[t] = database[t]
      /\ database' = [t \in DOMAIN database' |-> database'[t]]
  BY <1>1 DEF CreateIfNotExists
<1>3. SchemaTypes'
  <2>1. skipped' \in BOOLEAN
    BY <1>1, Zenon DEF SchemaInv, SchemaTypes
  <2> QED
    BY <1>1, <1>2, <2>1 DEF SchemaInv, SchemaTypes
<1>4. byScript = {}
  BY <1>1 DEF SchemaInv, SchemaTypes
<1>5. \A t \in DOMAIN RuntimeTables \cap DOMAIN database' : HasColumns(t)'
  BY <1>1, <1>2, <1>4 DEF SchemaInv, HasColumns
<1>6. ASSUME NEW x \in Servers  PROVE Past(server[x])'
  <2>1. PICK p \in Processes : p = server[x]
    BY DEF SchemaInv, SchemaTypes
  <2>2. Past(p) /\ (skipped => skipped')
    BY <1>1, <2>1, Zenon DEF SchemaInv
  <2>3. Past(p)'
    BY <1>2, <2>2, TablesGrow
  <2> QED
    BY <1>1, <2>1, <2>3 DEF Past
<1> QED
  BY <1>3, <1>5, <1>6 DEF SchemaInv

LEMMA SchemaStep == SchemaInv /\ [SchemaNext]_schemaVars => SchemaInv'
<1> SUFFICES ASSUME SchemaInv, [SchemaNext]_schemaVars  PROVE SchemaInv'
  OBVIOUS
<1>1. skipped \in BOOLEAN
  BY DEF SchemaInv, SchemaTypes
<1>2. ASSUME UNCHANGED <<database, byScript, server, skipped>>, script' # "done" => script # "done"
      PROVE  SchemaInv'
  <2>1. SchemaTypes'
    BY <1>2 DEF SchemaInv, SchemaTypes
  <2>2. \A t \in DOMAIN RuntimeTables \cap DOMAIN database' : HasColumns(t)'
    BY <1>2 DEF SchemaInv, HasColumns
  <2>3. \A s \in Servers : Past(server[s])'
    BY <1>2, Zenon DEF SchemaInv, Past
  <2> QED
    BY <2>1, <2>2, <2>3 DEF SchemaInv
<1>3. ASSUME NEW s \in Servers, NEW at, Moves(s, at), UNCHANGED <<database, byScript, script>>,
             skipped' \in BOOLEAN, skipped => skipped',
             at \in {"creating", "exited", "draining", "listening"},
             at = "creating" => server[s].at = "environment",
             at = "draining" => server[s].at = "listening",
             at = "listening" => server[s].at \in Migrating /\ skipped'
      PROVE  SchemaInv'
  <2> PICK r : r = [server[s] EXCEPT !.at = at]
    OBVIOUS
  <2>1. /\ r \in Processes /\ r.at = at /\ r.fits = server[s].fits
    BY <1>3 DEF SchemaInv, SchemaTypes, Processes
  <2>2. server' = [server EXCEPT ![s] = r]
    BY <1>3 DEF Moves, SchemaInv, SchemaTypes
  <2>3. PICK p \in Processes : p = server[s]
    BY DEF SchemaInv, SchemaTypes
  <2>4. Past(p)'
    <3>1. Past(p)
      BY <2>3 DEF SchemaInv
    <3> QED
      BY <1>3, <3>1, TablesGrow
  <2>5. Past(r)'
    <3>1. r.fits => p.fits
      BY <2>1, <2>3
    <3>2. r.at \in {"environment", "creating"} => p.at = "environment"
      BY <1>3, <2>1, <2>3
    <3>3. r.at \in {"migration 2", "migration 3", "listening", "draining"} =>
            skipped' \/ p.at \in {"migration 2", "migration 3", "listening", "draining"}
      BY <1>3, <2>1, <2>3
    <3>4. p.at = "environment" => p.at \in {"environment", "creating"}
      OBVIOUS
    <3>5. r.at \in {"environment", "creating"} => ~r.fits
      BY <2>4, <3>1, <3>2, <3>4, Zenon DEF Past
    <3>6. r.fits => /\ DOMAIN RuntimeTables \subseteq DOMAIN database'
                    /\ \A t \in DOMAIN Indexed : Indexed[t] \subseteq database'[t]
      BY <2>4, <3>1, Zenon DEF Past
    <3>7. r.fits /\ r.at \in {"migration 2", "migration 3", "listening", "draining"} /\ ~skipped'
            => {"provider"} \subseteq database'["user_sessions"]
      BY <2>4, <3>1, <3>3, Zenon DEF Past
    <3> QED
      BY <3>5, <3>6, <3>7, Zenon DEF Past
  <2> QED
    BY <1>3, <2>1, <2>2, <2>5, ServerMoves
<1>4. ASSUME NEW s \in Servers, ValidateEnvironment(s) \/ Signalled(s) \/ ShutsDown(s)
      PROVE  SchemaInv'
  <2>1. (skipped => skipped') /\ skipped' \in BOOLEAN
    BY <1>1, <1>4, Zenon DEF ValidateEnvironment, Signalled, ShutsDown
  <2>2. UNCHANGED <<database, byScript, script>>
    BY <1>4 DEF ValidateEnvironment, Signalled, ShutsDown
  <2>3. \/ Moves(s, "creating") /\ server[s].at = "environment"
        \/ Moves(s, "exited")
        \/ Moves(s, "draining") /\ server[s].at = "listening"
    BY <1>4 DEF ValidateEnvironment, Signalled, ShutsDown
  <2> QED
    BY <1>3, <2>1, <2>2, <2>3
<1>5. ASSUME NEW s \in Servers, MigrationFails(s)  PROVE SchemaInv'
  <2>1. (skipped => skipped') /\ skipped' \in BOOLEAN /\ skipped'
    BY <1>5, Zenon DEF MigrationFails
  <2>2. UNCHANGED <<database, byScript, script>> /\ Moves(s, "listening")
    BY <1>5 DEF MigrationFails
  <2>3. server[s].at \in Migrating
    <3>1. \A i \in 1..Len(Migrations) : Migrations[i][1] \in Migrating
      <4>1. \A i \in 1..3 : i = 1 \/ i = 2 \/ i = 3
        OBVIOUS
      <4> QED
        BY <4>1, MigrationNames DEF Migrating
    <3> QED
      BY <1>5, <3>1 DEF MigrationFails
  <2> QED
    BY <1>3, <2>1, <2>2, <2>3
<1>6. ASSUME NEW s \in Servers, CreateFails(s)  PROVE SchemaInv'
  <2> PICK r : r = [server[s] EXCEPT
                      !.tries = IF @ > 0 THEN @ - 1 ELSE 0,
                      !.at = IF server[s].tries > 0 THEN "creating" ELSE "listening"]
    OBVIOUS
  <2>1. r \in Processes /\ r.fits = server[s].fits /\ r.at \in {"creating", "listening"}
    <3>1. server[s] \in Processes /\ server[s].tries \in 0..InitRetries /\ InitRetries \in Nat
      BY RetriesAssumption DEF SchemaInv, SchemaTypes, Processes
    <3>2. PICK n : n = IF server[s].tries > 0 THEN server[s].tries - 1 ELSE 0
      OBVIOUS
    <3>3. PICK at : at = IF server[s].tries > 0 THEN "creating" ELSE "listening"
      OBVIOUS
    <3>4. n \in 0..InitRetries /\ at \in {"creating", "listening"}
      BY <3>1, <3>2, <3>3
    <3>5. r = [server[s] EXCEPT !.tries = n, !.at = at]
      BY <3>1, <3>2, <3>3 DEF Processes
    <3> QED
      BY <3>1, <3>4, <3>5 DEF Processes
  <2>2. /\ server' = [server EXCEPT ![s] = r] /\ UNCHANGED <<database, byScript, script>>
        /\ server[s].at = "creating"
    BY <1>6 DEF CreateFails, SchemaInv, SchemaTypes
  <2>3. (skipped => skipped') /\ skipped' \in BOOLEAN
    BY <1>1, <1>6, Zenon DEF CreateFails
  <2>4. ~server[s].fits
    <3>1. Past(server[s]) /\ server[s].at \in {"environment", "creating"}
      BY <2>2 DEF SchemaInv
    <3> QED
      BY <3>1, Zenon DEF Past
  <2>5. ~r.fits
    BY <2>1, <2>4
  <2>6. Past(r)'
    BY <2>5, Zenon DEF Past
  <2> QED
    BY <2>1, <2>2, <2>3, <2>6, ServerMoves
<1>7. CASE UNCHANGED schemaVars
  BY <1>2, <1>7 DEF schemaVars
<1>8. CASE ScriptBegins \/ ScriptRollsBack
  BY <1>2, <1>8 DEF ScriptBegins, ScriptRollsBack
<1> QED
  BY <1>4, <1>5, <1>6, <1>7, <1>8, SchemaMade, SchemaMigrated, ScriptMade DEF SchemaNext, ServerStarts

\* What the statements name is there, where a server made its schema.
LEMMA SchemaFits == SchemaInv => StatementsFitSchema /\ TenantsComeFirst
<1> SUFFICES ASSUME SchemaInv, NEW s \in Servers, server[s].fits
             PROVE  /\ \A t \in DOMAIN Indexed : Indexed[t] \subseteq database[t]
                    /\ server[s].at \in {"listening", "draining"} =>
                         \A q \in Queries :
                           /\ q[1] \in DOMAIN database
                           /\ q[2] \subseteq database[q[1]]
                                \/ (q[1] \in byScript /\ q[1] /= "user_sessions")
                                \/ (q[1] = "user_sessions" /\ skipped)
  BY Zenon DEF StatementsFitSchema, TenantsComeFirst
<1>1. PICK p : p = server[s]
  OBVIOUS
<1>2. Past(p) /\ p.fits
  BY <1>1 DEF SchemaInv
<1>3. /\ DOMAIN RuntimeTables \subseteq DOMAIN database
      /\ \A t \in DOMAIN Indexed : Indexed[t] \subseteq database[t]
  BY <1>2, Zenon DEF Past
<1>4. ASSUME server[s].at \in {"listening", "draining"}, NEW q \in Queries
      PROVE  /\ q[1] \in DOMAIN database
             /\ q[2] \subseteq database[q[1]]
                  \/ (q[1] \in byScript /\ q[1] /= "user_sessions")
                  \/ (q[1] = "user_sessions" /\ skipped)
  <2>1. q[1] \in DOMAIN RuntimeTables /\ q[2] \subseteq RuntimeTables[q[1]]
    BY QueriesFitRuntime
  <2>2. CASE q[1] \in DOMAIN Indexed
    BY <1>3, <2>1, <2>2, RuntimeNames
  <2>3. CASE q[1] = "user_sessions"
    <3>1. p.at \in {"migration 2", "migration 3", "listening", "draining"}
      BY <1>1, <1>4
    <3>2. skipped \/ {"provider"} \subseteq database["user_sessions"]
      BY <1>2, <3>1, Zenon DEF Past
    <3>3. {"provider"} \subseteq database["user_sessions"] => q[2] \subseteq database[q[1]]
      BY <2>1, <2>3, RuntimeNames
    <3>4. q[1] \in DOMAIN database
      BY <1>3, <2>1
    <3> QED
      BY <2>3, <3>2, <3>3, <3>4, Zenon
  <2>4. CASE q[1] \notin DOMAIN Indexed \cup {"user_sessions"}
    <3>1. q[1] \in DOMAIN database /\ HasColumns(q[1])
      BY <1>3, <2>1 DEF SchemaInv
    <3> QED
      BY <2>1, <2>4, <3>1 DEF HasColumns
  <2> QED
    BY <2>2, <2>3, <2>4
<1> QED
  BY <1>3, <1>4

\* A server that made its schema finds in it what its statements name, whatever the
\* migration script does and where a migration fails.
THEOREM SchemaStaysFit ==
  SchemaInit /\ [][SchemaNext]_schemaVars => [](StatementsFitSchema /\ TenantsComeFirst)
BY SchemaBegins, SchemaStep, SchemaFits, PTL

-----------------------------------------------------------------------------
(* SchemaStartup: writes that are repeated. *)

WriteRows(w) ==
  /\ write[w].answer = "none" => write[w].left > 0
  /\ write[w].rows > 1 => write[w].kind = "log"
  /\ write[w].answer = "ok" => write[w].rows > 0

WriteInv ==
  /\ write \in [Writes -> [kind : Kinds, left : Nat, rows : Nat, answer : {"none", "ok", "error"}]]
  /\ \A w \in Writes : WriteRows(w)

LEMMA WritesBegin == WriteInit => WriteInv
BY RetriesAssumption DEF WriteInit, WriteInv, WriteRows

LEMMA WriteStep == WriteInv /\ [WriteNext]_writeVars => WriteInv'
<1> SUFFICES ASSUME WriteInv, [WriteNext]_writeVars  PROVE WriteInv'
  OBVIOUS
<1>1. CASE UNCHANGED writeVars
  BY <1>1 DEF writeVars, WriteInv, WriteRows
<1>2. CASE WriteNext
  <2>1. PICK w \in Writes : RepeatedWrite(w)
    BY <1>2 DEF WriteNext
  <2>2. PICK c : c = write[w]
    OBVIOUS
  <2>3. /\ c \in [kind : Kinds, left : Nat, rows : Nat, answer : {"none", "ok", "error"}]
        /\ c.answer = "none" /\ c.left > 0 /\ (c.rows > 1 => c.kind = "log")
    BY <2>1, <2>2 DEF WriteInv, WriteRows, RepeatedWrite, WriteAnswered, WriteRefused,
                      ConnectionLost, IsRepeated
  <2>4. /\ Stored(w) \in Nat \ {0}
        /\ ~Conflicts(w) => (Stored(w) > 1 => c.kind = "log")
    BY <2>2, <2>3 DEF Stored, Conflicts, Kinds
  <2>5. PICK n \in Nat, l \in Nat, a \in {"none", "ok", "error"} :
          /\ write' = [write EXCEPT ![w].rows = n, ![w].left = l, ![w].answer = a]
          /\ a = "none" => l > 0
          /\ n > 1 => c.kind = "log"
          /\ a = "ok" => n > 0
    <3>1. CASE WriteAnswered(w)
      <4>1. write' = [write EXCEPT ![w].rows = Stored(w), ![w].left = c.left, ![w].answer = "ok"]
        BY <2>2, <2>3, <3>1 DEF WriteAnswered, WriteInv
      <4>2. Stored(w) \in Nat /\ Stored(w) > 0 /\ (Stored(w) > 1 => c.kind = "log")
        BY <2>4, <3>1 DEF WriteAnswered
      <4>3. PICK n : n = Stored(w)
        OBVIOUS
      <4> QED
        BY <2>3, <4>1, <4>2, <4>3
    <3>2. CASE WriteRefused(w)
      <4>1. write' = [write EXCEPT ![w].rows = c.rows, ![w].left = c.left, ![w].answer = "error"]
        BY <2>2, <2>3, <3>2 DEF WriteRefused, WriteInv
      <4> QED
        BY <2>3, <4>1
    <3>3. CASE ConnectionLost(w)
      <4>1. PICK stored \in {b \in BOOLEAN : b => ~Conflicts(w)} :
              write' = [write EXCEPT ![w].rows = IF stored THEN Stored(w) ELSE @,
                                     ![w].left = @ - 1,
                                     ![w].answer = IF write[w].left = 1 THEN "error" ELSE "none"]
        BY <3>3 DEF ConnectionLost
      <4>2. PICK n : n = IF stored THEN Stored(w) ELSE c.rows
        OBVIOUS
      <4>3. PICK a : a = IF c.left = 1 THEN "error" ELSE "none"
        OBVIOUS
      <4>4. n \in Nat /\ (n > 1 => c.kind = "log")
        <5>1. CASE stored
          BY <2>4, <4>2, <5>1
        <5>2. CASE ~stored
          BY <2>3, <4>2, <5>2
        <5> QED
          BY <5>1, <5>2
      <4>5. c.left - 1 \in Nat /\ a \in {"none", "error"} /\ (a = "none" => c.left - 1 > 0)
        BY <2>3, <4>3
      <4>6. write' = [write EXCEPT ![w].rows = n, ![w].left = c.left - 1, ![w].answer = a]
        BY <2>2, <2>3, <4>1, <4>2, <4>3 DEF WriteInv
      <4> QED
        BY <4>4, <4>5, <4>6
    <3> QED
      BY <2>1, <3>1, <3>2, <3>3 DEF RepeatedWrite
  <2>6. PICK d : d = [c EXCEPT !.rows = n, !.left = l, !.answer = a]
    OBVIOUS
  <2>7. /\ d \in [kind : Kinds, left : Nat, rows : Nat, answer : {"none", "ok", "error"}]
        /\ d.kind = c.kind /\ d.rows = n /\ d.left = l /\ d.answer = a
    BY <2>3, <2>6
  <2>8. write' = [write EXCEPT ![w] = d]
    BY <2>2, <2>5, <2>6 DEF WriteInv
  <2>9. write'[w] = d /\ \A x \in Writes : x # w => write'[x] = write[x]
    BY <2>8 DEF WriteInv
  <2>10. \A x \in Writes : WriteRows(x)'
    BY <2>5, <2>7, <2>9 DEF WriteInv, WriteRows
  <2> QED
    BY <2>7, <2>8, <2>10 DEF WriteInv
<1> QED
  BY <1>1, <1>2

LEMMA RowsAreOnce == WriteInv => RepeatedOnce
BY DEF WriteInv, WriteRows, RepeatedOnce

\* A write that is repeated is stored once, where its table has a key.
THEOREM WritesHappenOnce == WriteInit /\ [][WriteNext]_writeVars => []RepeatedOnce
BY WritesBegin, WriteStep, RowsAreOnce, PTL
-----------------------------------------------------------------------------
(* ModelAccess: the providers a failing call has been put to. *)

LlmCalls ==
  [by : {"service", "routed", "free", "direct"},
   at : {"new", "asked", "preflight", "guard", "choose"} \cup Ended,
   index : Nat, attempt : Nat, error : Classes \cup {"none"}]

\* A call is at a provider of the ring, and one that failed has no other to go to.
Exhausted(l) ==
  /\ l.index \in 1..Len(ring)
  /\ l.by \in {"service", "direct"} /\ l.at = "failed"
       => l.index = Len(ring) \/ l.error \in {"lost", "unknown"}

ModelInv ==
  /\ Len(ring) \in Nat /\ llm \in [ModelCalls -> LlmCalls]
  /\ \A c \in ModelCalls : Exhausted(llm[c])

LEMMA ModelBegins == ModelInit => ModelInv
<1> SUFFICES ASSUME ModelInit  PROVE ModelInv
  OBVIOUS
<1>1. PICK s \in Setups :
        /\ ring = s.ring
        /\ llm = [c \in ModelCalls |-> [by |-> s.by[c], at |-> "new", index |-> 1,
                                        attempt |-> 0, error |-> "none"]]
  BY DEF ModelInit
<1>2. /\ s.ring \in Seq(Chat \cup {"gemini", "openai", "anthropic"}) /\ s.ring # <<>>
      /\ s.by \in [ModelCalls -> {"service", "routed", "free", "direct"}]
  BY ModelAssumption
<1>3. Len(ring) \in Nat /\ 1 \in 1..Len(ring)
  BY <1>1, <1>2
<1>4. ASSUME NEW c \in ModelCalls  PROVE llm[c] \in LlmCalls /\ Exhausted(llm[c])
  BY <1>1, <1>2, <1>3 DEF LlmCalls, Exhausted, Classes
<1> QED
  BY <1>1, <1>3, <1>4 DEF ModelInv

LEMMA LlmMoves ==
  ASSUME ModelInv, NEW c \in ModelCalls, NEW l \in LlmCalls, llm' = [llm EXCEPT ![c] = l],
         UNCHANGED ring, Exhausted(l)
  PROVE  ModelInv'
<1>1. llm' \in [ModelCalls -> LlmCalls] /\ llm'[c] = l
      /\ \A d \in ModelCalls : d # c => llm'[d] = llm[d]
  BY DEF ModelInv
<1> QED
  BY <1>1 DEF ModelInv, Exhausted

\* Places a call goes to without failing.
LEMMA LlmGoesOn ==
  ASSUME ModelInv, NEW c \in ModelCalls, UNCHANGED ring,
         NEW at \in {"asked", "preflight", "guard", "choose", "answered", "limited", "overQuota"},
         CallGoes(c, at)
  PROVE  ModelInv'
<1> PICK l : l = [llm[c] EXCEPT !.at = at]
  OBVIOUS
<1>1. /\ l \in LlmCalls /\ l.index = llm[c].index /\ l.at = at
      /\ llm' = [llm EXCEPT ![c] = l]
  BY DEF ModelInv, LlmCalls, CallGoes, Ended, Limited
<1>2. Exhausted(l)
  BY <1>1 DEF ModelInv, Exhausted
<1> QED
  BY <1>1, <1>2, LlmMoves

\* A call fails for good: on the last provider, for a reason no other shares, or
\* where there is none to go to.
LEMMA LlmEnds ==
  ASSUME ModelInv, NEW c \in ModelCalls, UNCHANGED ring, NEW e \in Classes, CallFails(c, e),
         \/ llm[c].index = Len(ring) \/ e \in {"lost", "unknown"}
         \/ llm[c].by \in {"routed", "free"}
  PROVE  ModelInv'
<1> PICK l : l = [llm[c] EXCEPT !.at = "failed", !.error = e]
  OBVIOUS
<1>1. /\ l \in LlmCalls /\ l.index = llm[c].index /\ l.error = e /\ l.by = llm[c].by
      /\ llm' = [llm EXCEPT ![c] = l]
  BY DEF ModelInv, LlmCalls, CallFails, Ended, Limited
<1>2. Exhausted(l)
  BY <1>1 DEF ModelInv, Exhausted
<1> QED
  BY <1>1, <1>2, LlmMoves

\* The next provider of the ring, if there is one.
LEMMA NextProvider ==
  ASSUME ModelInv, NEW c \in ModelCalls, UNCHANGED ring, llm[c].index < Len(ring),
         NEW at \in {"new", "choose"}, NEW n \in Nat,
         llm' = [llm EXCEPT ![c].at = at, ![c].index = @ + 1, ![c].attempt = n]
  PROVE  ModelInv'
<1> PICK l : l = [llm[c] EXCEPT !.at = at, !.index = @ + 1, !.attempt = n]
  OBVIOUS
<1>1. /\ l \in LlmCalls /\ l.index = llm[c].index + 1 /\ l.at = at
      /\ llm' = [llm EXCEPT ![c] = l]
  BY DEF ModelInv, LlmCalls, Ended, Limited
<1>2. Exhausted(l)
  BY <1>1 DEF ModelInv, Exhausted
<1> QED
  BY <1>1, <1>2, LlmMoves

LEMMA FallsBack ==
  ASSUME ModelInv, NEW c \in ModelCalls, UNCHANGED ring, NEW e \in Classes, ErrorOf(c, e)
  PROVE  ModelInv'
<1>1. llm[c].index \in 1..Len(ring) /\ Len(ring) \in Nat
  BY DEF ModelInv, Exhausted
<1>2. CASE e \in Fallbackable /\ llm[c].index < Len(ring)
  BY <1>2, NextProvider DEF ErrorOf
<1>3. CASE ~(e \in Fallbackable /\ llm[c].index < Len(ring))
  <2>1. llm[c].index = Len(ring) \/ e \in {"lost", "unknown"}
    BY <1>1, <1>3 DEF Fallbackable, Classes
  <2> QED
    BY <1>3, <2>1, LlmEnds DEF ErrorOf
<1> QED
  BY <1>2, <1>3

LEMMA AttemptEnds ==
  ASSUME ModelInv, NEW c \in ModelCalls, NEW classes \in SUBSET Classes, AttemptFails(c, classes)
  PROVE  ModelInv'
<1>1. PICK e \in Classes : withRetry(c, e)
  BY DEF AttemptFails
<1>2. UNCHANGED ring
  BY DEF AttemptFails, shared
<1>3. CASE e \in Retryable /\ llm[c].attempt < ModelRetries
  <2> PICK l : l = [llm[c] EXCEPT !.attempt = @ + 1]
    OBVIOUS
  <2>1. /\ l \in LlmCalls /\ l.index = llm[c].index /\ l.at = llm[c].at /\ l.by = llm[c].by
        /\ l.error = llm[c].error
    BY DEF ModelInv, LlmCalls
  <2>2. llm' = [llm EXCEPT ![c] = l]
    BY <1>1, <1>3 DEF withRetry, ModelInv, LlmCalls
  <2>3. Exhausted(l)
    BY <2>1 DEF ModelInv, Exhausted
  <2> QED
    BY <1>2, <2>1, <2>2, <2>3, LlmMoves
<1>4. CASE ~(e \in Retryable /\ llm[c].attempt < ModelRetries)
  BY <1>1, <1>2, <1>4, FallsBack DEF withRetry
<1> QED
  BY <1>3, <1>4

LEMMA UsageRecorded ==
  ASSUME ModelInv, NEW c \in ModelCalls, NEW outcomes \in SUBSET {"answered", "unknown"},
         recordUsage(c, outcomes)
  PROVE  ModelInv'
<1>1. UNCHANGED ring
  BY DEF recordUsage
<1>2. \/ CallGoes(c, "overQuota") \/ CallGoes(c, "answered") \/ ErrorOf(c, "unknown")
  BY DEF recordUsage
<1>3. "unknown" \in Classes
  BY DEF Classes
<1> QED
  BY <1>1, <1>2, <1>3, LlmGoesOn, FallsBack

LEMMA BreakerSkips ==
  ASSUME ModelInv, NEW c \in ModelCalls, UNCHANGED ring, Skipped(c)  PROVE ModelInv'
<1>1. CASE llm[c].index < Len(ring)
  <2>1. llm' = [llm EXCEPT ![c].at = "choose", ![c].index = @ + 1, ![c].attempt = llm[c].attempt]
    BY <1>1 DEF Skipped, ModelInv, LlmCalls
  <2>2. llm[c].attempt \in Nat
    BY DEF ModelInv, LlmCalls
  <2> QED
    BY <1>1, <2>1, <2>2, NextProvider
<1>2. CASE ~(llm[c].index < Len(ring))
  BY <1>2, LlmEnds DEF Skipped, Classes
<1> QED
  BY <1>1, <1>2

\* A call of a model takes its next step.
LEMMA CallStepKeeps == ASSUME ModelInv, NEW c \in ModelCalls, CallStep(c)  PROVE ModelInv'
<1>1. CASE completeText(c)
  <2>1. UNCHANGED ring /\ "auth" \in Classes
    BY <1>1 DEF completeText, Classes
  <2>2. ErrorOf(c, "auth") \/ CallGoes(c, "asked") \/ CallGoes(c, "limited")
    BY <1>1 DEF completeText, Counted, Limited
  <2> QED
    BY <2>1, <2>2, LlmGoesOn, FallsBack
<1>2. CASE openAICompatibleChat(c) \/ openAIResponses(c) \/ anthropicChat(c) \/ generateContent(c)
  <2>1. \/ \E classes \in SUBSET Classes : AttemptFails(c, classes)
        \/ \E outcomes \in SUBSET {"answered", "unknown"} : recordUsage(c, outcomes)
    <3>1. callWithAuthRetry \subseteq Classes /\ Classes \ {"lost"} \subseteq Classes
          /\ {"unknown"} \subseteq Classes
      BY DEF callWithAuthRetry, Classes
    <3> QED
      BY <1>2, <3>1 DEF openAICompatibleChat, openAIResponses, anthropicChat, generateContent
  <2> QED
    BY <2>1, AttemptEnds, UsageRecorded
<1>3. CASE callRoutedTextModel(c) \/ getBudgetUsage(c) \/ generateCode(c) \/ canCallMode(c)
  <2>1. UNCHANGED ring
    BY <1>3 DEF callRoutedTextModel, getBudgetUsage, generateCode, canCallMode, shared
  <2>2. \E at \in {"asked", "preflight", "guard", "choose", "answered", "limited", "overQuota"} :
          CallGoes(c, at)
    BY <1>3 DEF callRoutedTextModel, getBudgetUsage, generateCode, canCallMode, Counted, Limited
  <2> QED
    BY <2>1, <2>2, LlmGoesOn
<1>4. CASE callOmniRoute(c) \/ callSelinaLLM(c)
  <2>1. UNCHANGED ring /\ llm[c].by \in {"routed", "free"}
    BY <1>4 DEF callOmniRoute, callSelinaLLM, At
  <2>2. CallGoes(c, "answered") \/ \E e \in Classes : CallFails(c, e)
    BY <1>4 DEF callOmniRoute, callSelinaLLM, Classes
  <2> QED
    BY <2>1, <2>2, LlmGoesOn, LlmEnds
<1>5. CASE generateWithFallback(c) \/ fire(c)
  <2>1. UNCHANGED ring
    BY <1>5 DEF generateWithFallback, fire
  <2>2. Skipped(c) \/ CallGoes(c, "asked") \/ CallGoes(c, "answered")
    BY <1>5 DEF generateWithFallback, fire
  <2> QED
    BY <2>1, <2>2, LlmGoesOn, BreakerSkips
<1> QED
  BY <1>1, <1>2, <1>3, <1>4, <1>5 DEF CallStep

LEMMA ModelStep == ModelInv /\ [ModelNext]_modelVars => ModelInv'
<1> SUFFICES ASSUME ModelInv, [ModelNext]_modelVars  PROVE ModelInv'
  OBVIOUS
<1>1. ASSUME UNCHANGED <<ring, llm>>  PROVE ModelInv'
  BY <1>1 DEF ModelInv, Exhausted
<1> QED
  BY <1>1, CallStepKeeps DEF ModelNext, modelVars, resetTimeout, MinutePasses

LEMMA FailsExhausted == ModelInv => FallbackExhausted
BY DEF ModelInv, Exhausted, FallbackExhausted

\* No call of a model fails while a provider is left that might answer it.
THEOREM FallbackIsExhausted == ModelInit /\ [][ModelNext]_modelVars => []FallbackExhausted
BY ModelBegins, ModelStep, FailsExhausted, PTL
-----------------------------------------------------------------------------
(* Recall: the journal, the memory of a user, and what is learned. *)

MemoryItems == {Source} \cup {Learned(GainOf[a]) : a \in Appends}
ProjectRows == [exists : BOOLEAN, saved : Nat, entries : Nat]
AppendCalls == [at : {"new", "row", "entry", "over"}, by : Askers]
UploadCalls == [at : {"new", "storing", "stored", "refused"}, by : Askers,
                left : SUBSET Entries, stored : SUBSET Entries]

RecallTypes ==
  /\ memories \in [Askers -> Seq(MemoryItems)]
  /\ projectRow \in [Askers -> ProjectRows]
  /\ append \in [Appends -> AppendCalls]
  /\ upload \in [Uploads -> UploadCalls]
  /\ kept \in [Askers -> [saved : Nat, entries : Nat]]

RowKept(u) ==
  /\ projectRow[u].saved = kept[u].saved /\ projectRow[u].entries = kept[u].entries
  /\ projectRow[u].exists \/ (projectRow[u].saved = 0 /\ projectRow[u].entries = 0)

UploadWhole(h) ==
  /\ upload[h].at \in {"new", "storing"} => upload[h].left \cup upload[h].stored = Entries
  /\ upload[h].at = "stored" => upload[h].stored = Entries

\* The items that were learned, and the entries whose item is still to come.
LearnedAt(u) == {i \in DOMAIN memories[u] : memories[u][i].class = "learned"}
Unlearned(u) == {a \in Appends : append[a].by = u /\ append[a].at = "entry"}

LearnedCounted(u) == Cardinality(LearnedAt(u)) + Cardinality(Unlearned(u)) <= kept[u].entries

RecallInv ==
  /\ RecallTypes
  /\ \A u \in Askers : RowKept(u) /\ LearnedCounted(u)
  /\ \A a \in Appends : append[a].at = "row" => projectRow[append[a].by].exists
  /\ \A h \in Uploads : UploadWhole(h)

LEMMA RecallBegins == RecallInit => RecallInv
<1> SUFFICES ASSUME RecallInit  PROVE RecallInv
  OBVIOUS
<1>1. RecallTypes
  BY DEF RecallInit, RecallTypes, ProjectRows, AppendCalls, UploadCalls, NoRow
<1>2. ASSUME NEW u \in Askers  PROVE RowKept(u) /\ LearnedCounted(u)
  <2>1. LearnedAt(u) = {} /\ Unlearned(u) = {} /\ kept[u].entries = 0
    BY DEF RecallInit, LearnedAt, Unlearned
  <2>2. LearnedCounted(u)
    BY <2>1, FS_EmptySet DEF LearnedCounted
  <2> QED
    BY <2>2 DEF RecallInit, RowKept, NoRow
<1>3. /\ \A a \in Appends : append[a].at = "new"
      /\ \A h \in Uploads : upload[h].left = Entries /\ upload[h].stored = {} /\ upload[h].at = "new"
  BY DEF RecallInit
<1> QED
  BY <1>1, <1>2, <1>3 DEF RecallInv, UploadWhole

\* The two sets that are counted are finite.
LEMMA CountedSets ==
  ASSUME RecallTypes, NEW u \in Askers
  PROVE  /\ IsFiniteSet(LearnedAt(u)) /\ IsFiniteSet(Unlearned(u))
         /\ Cardinality(LearnedAt(u)) \in Nat /\ Cardinality(Unlearned(u)) \in Nat
<1>1. memories[u] \in Seq(MemoryItems)
  BY DEF RecallTypes
<1>2. IsFiniteSet(1..Len(memories[u])) /\ LearnedAt(u) \subseteq 1..Len(memories[u])
  BY <1>1, FS_Interval DEF LearnedAt
<1>3. IsFiniteSet(LearnedAt(u)) /\ IsFiniteSet(Unlearned(u))
  BY <1>2, AppendsAssumption, FS_Subset DEF Unlearned
<1> QED
  BY <1>3, FS_CardinalityType

\* A call of appendBrainJournal goes on.
LEMMA AppendGoes ==
  ASSUME RecallInv, NEW a \in Appends, NEW at \in {"row", "entry", "over"},
         append' = [append EXCEPT ![a].at = at]
  PROVE  /\ append' \in [Appends -> AppendCalls]
         /\ append'[a].at = at /\ \A b \in Appends : append'[b].by = append[b].by
         /\ \A b \in Appends : b # a => append'[b] = append[b]
BY DEF RecallInv, RecallTypes, AppendCalls

LEMMA MemorySaved == ASSUME RecallInv, NEW u \in Askers, SaveUserMemory(u)  PROVE RecallInv'
<1> PICK made : made = [projectRow[u] EXCEPT !.exists = TRUE, !.saved = @ + 1]
  OBVIOUS
<1> PICK k : k = [kept[u] EXCEPT !.saved = projectRow[u].saved + 1]
  OBVIOUS
<1>0. projectRow[u] \in ProjectRows /\ kept[u] \in [saved : Nat, entries : Nat]
  BY DEF RecallInv, RecallTypes
<1>1. /\ made \in ProjectRows /\ made.exists /\ made.saved = projectRow[u].saved + 1
      /\ made.entries = projectRow[u].entries
  <2>1. projectRow[u].saved + 1 \in Nat
    BY <1>0 DEF ProjectRows
  <2> QED
    BY <1>0, <2>1 DEF ProjectRows
<1>2. /\ k \in [saved : Nat, entries : Nat] /\ k.saved = projectRow[u].saved + 1
      /\ k.entries = kept[u].entries
  <2>1. projectRow[u].saved + 1 \in Nat
    BY <1>0 DEF ProjectRows
  <2> QED
    BY <1>0, <2>1
<1>3. /\ projectRow' = [projectRow EXCEPT ![u] = made] /\ kept' = [kept EXCEPT ![u] = k]
      /\ UNCHANGED <<memories, append, upload>>
  BY DEF SaveUserMemory, RecallInv, RecallTypes
<1>4. /\ projectRow' \in [Askers -> ProjectRows] /\ projectRow'[u] = made
      /\ \A v \in Askers : v # u => projectRow'[v] = projectRow[v]
      /\ kept' \in [Askers -> [saved : Nat, entries : Nat]] /\ kept'[u] = k
      /\ \A v \in Askers : v # u => kept'[v] = kept[v]
  BY <1>1, <1>2, <1>3 DEF RecallInv, RecallTypes
<1>5. RecallTypes'
  BY <1>3, <1>4 DEF RecallInv, RecallTypes
<1>6. ASSUME NEW v \in Askers  PROVE RowKept(v)'
  <2>1. CASE v = u
    BY <1>1, <1>2, <1>4, <2>1 DEF RecallInv, RowKept
  <2>2. CASE v # u
    BY <1>4, <2>2 DEF RecallInv, RowKept
  <2> QED
    BY <2>1, <2>2
<1>7. ASSUME NEW v \in Askers  PROVE LearnedCounted(v)'
  <2>1. LearnedAt(v)' = LearnedAt(v) /\ Unlearned(v)' = Unlearned(v)
    BY <1>3 DEF LearnedAt, Unlearned
  <2>2. kept'[v].entries = kept[v].entries
    BY <1>2, <1>4
  <2> QED
    BY <2>1, <2>2 DEF RecallInv, LearnedCounted
<1>8. \A a \in Appends : append'[a].at = "row" => projectRow'[append'[a].by].exists
  BY <1>1, <1>3, <1>4 DEF RecallInv, RecallTypes, AppendCalls
<1>9. \A h \in Uploads : UploadWhole(h)'
  BY <1>3 DEF RecallInv, UploadWhole
<1> QED
  BY <1>5, <1>6, <1>7, <1>8, <1>9 DEF RecallInv

LEMMA JournalRowMade == ASSUME RecallInv, NEW a \in Appends, MakeRow(a)  PROVE RecallInv'
<1> PICK u : u = append[a].by
  OBVIOUS
<1> PICK made : made = RowMade(projectRow[u])
  OBVIOUS
<1>0. u \in Askers /\ projectRow[u] \in ProjectRows /\ RowKept(u)
  BY DEF RecallInv, RecallTypes, AppendCalls
<1>1. /\ made \in ProjectRows /\ made.exists /\ made.saved = projectRow[u].saved
      /\ made.entries = projectRow[u].entries
  <2>1. CASE projectRow[u].exists
    BY <1>0, <2>1 DEF RowMade
  <2>2. CASE ~projectRow[u].exists
    <3>1. made = [exists |-> TRUE, saved |-> 0, entries |-> 0]
      BY <2>2 DEF RowMade, NoRow
    <3>2. projectRow[u].saved = 0 /\ projectRow[u].entries = 0
      BY <1>0, <2>2, Zenon DEF RowKept
    <3> QED
      BY <3>1, <3>2 DEF ProjectRows
  <2> QED
    BY <2>1, <2>2
<1>2. /\ projectRow' = [projectRow EXCEPT ![u] = made] /\ append[a].at = "new"
      /\ append' = [append EXCEPT ![a].at = "row"] /\ UNCHANGED <<memories, upload, kept>>
  BY DEF MakeRow, RecallInv, RecallTypes
<1>3. /\ projectRow' \in [Askers -> ProjectRows] /\ projectRow'[u] = made
      /\ \A v \in Askers : v # u => projectRow'[v] = projectRow[v]
  BY <1>0, <1>1, <1>2 DEF RecallInv, RecallTypes
<1>4. /\ append' \in [Appends -> AppendCalls]
      /\ append'[a].at = "row" /\ \A b \in Appends : append'[b].by = append[b].by
      /\ \A b \in Appends : b # a => append'[b] = append[b]
  BY <1>2, AppendGoes
<1>5. RecallTypes'
  BY <1>2, <1>3, <1>4 DEF RecallInv, RecallTypes
<1>6. ASSUME NEW v \in Askers  PROVE RowKept(v)'
  <2>1. CASE v = u
    BY <1>0, <1>1, <1>2, <1>3, <2>1 DEF RowKept
  <2>2. CASE v # u
    BY <1>2, <1>3, <2>2 DEF RecallInv, RowKept
  <2> QED
    BY <2>1, <2>2
<1>7. ASSUME NEW v \in Askers  PROVE LearnedCounted(v)'
  <2>1. LearnedAt(v)' = LearnedAt(v) /\ Unlearned(v)' = Unlearned(v)
    BY <1>2, <1>4 DEF LearnedAt, Unlearned
  <2> QED
    BY <1>2, <2>1 DEF RecallInv, LearnedCounted
<1>8. ASSUME NEW b \in Appends, append'[b].at = "row"  PROVE projectRow'[append'[b].by].exists
  <2>1. CASE append[b].by = u
    BY <1>1, <1>3, <1>4, <2>1
  <2>2. CASE append[b].by # u
    BY <1>3, <1>4, <1>8, <2>2 DEF RecallInv, RecallTypes, AppendCalls
  <2> QED
    BY <2>1, <2>2
<1>9. \A h \in Uploads : UploadWhole(h)'
  BY <1>2 DEF RecallInv, UploadWhole
<1> QED
  BY <1>5, <1>6, <1>7, <1>8, <1>9 DEF RecallInv

LEMMA EntryAppended == ASSUME RecallInv, NEW a \in Appends, AppendEntry(a)  PROVE RecallInv'
<1> PICK u : u = append[a].by
  OBVIOUS
<1> PICK made : made = [projectRow[u] EXCEPT !.entries = @ + 1]
  OBVIOUS
<1> PICK k : k = [kept[u] EXCEPT !.entries = @ + 1]
  OBVIOUS
<1>0. /\ u \in Askers /\ projectRow[u] \in ProjectRows /\ kept[u] \in [saved : Nat, entries : Nat]
      /\ RowKept(u) /\ append[a].at = "row" /\ projectRow[u].exists
  BY DEF RecallInv, RecallTypes, AppendCalls, AppendEntry
<1>1. /\ made \in ProjectRows /\ made.saved = projectRow[u].saved
      /\ made.entries = projectRow[u].entries + 1
      /\ k \in [saved : Nat, entries : Nat] /\ k.saved = kept[u].saved
      /\ k.entries = kept[u].entries + 1
  BY <1>0 DEF ProjectRows
<1>10. made.exists
  BY <1>0 DEF ProjectRows
<1>2. /\ projectRow' = [projectRow EXCEPT ![u] = made] /\ kept' = [kept EXCEPT ![u] = k]
      /\ append' = [append EXCEPT ![a].at = "entry"] /\ UNCHANGED <<memories, upload>>
  BY DEF AppendEntry, RecallInv, RecallTypes
<1>3. /\ projectRow' \in [Askers -> ProjectRows] /\ projectRow'[u] = made
      /\ \A v \in Askers : v # u => projectRow'[v] = projectRow[v]
      /\ kept' \in [Askers -> [saved : Nat, entries : Nat]] /\ kept'[u] = k
      /\ \A v \in Askers : v # u => kept'[v] = kept[v]
  BY <1>0, <1>1, <1>2 DEF RecallInv, RecallTypes
<1>4. /\ append' \in [Appends -> AppendCalls]
      /\ append'[a].at = "entry" /\ \A b \in Appends : append'[b].by = append[b].by
      /\ \A b \in Appends : b # a => append'[b] = append[b]
  BY <1>2, AppendGoes
<1>5. RecallTypes'
  BY <1>2, <1>3, <1>4 DEF RecallInv, RecallTypes
<1>6. ASSUME NEW v \in Askers  PROVE RowKept(v)'
  <2>1. CASE v = u
    <3>1. projectRow'[v].saved = kept'[v].saved /\ projectRow'[v].entries = kept'[v].entries
      <4>1. projectRow[u].saved = kept[u].saved /\ projectRow[u].entries = kept[u].entries
        BY <1>0, Zenon DEF RowKept
      <4> QED
        BY <1>1, <1>3, <2>1, <4>1
    <3>2. projectRow'[v].exists
      BY <1>3, <1>10, <2>1
    <3> QED
      BY <3>1, <3>2, Zenon DEF RowKept
  <2>2. CASE v # u
    BY <1>3, <2>2 DEF RecallInv, RowKept
  <2> QED
    BY <2>1, <2>2
<1>7. ASSUME NEW v \in Askers  PROVE LearnedCounted(v)'
  <2>1. LearnedAt(v)' = LearnedAt(v)
    BY <1>2 DEF LearnedAt
  <2>2. LearnedCounted(v) /\ kept[v].entries \in Nat
    BY DEF RecallInv, RecallTypes
  <2>3. /\ IsFiniteSet(Unlearned(v)) /\ Cardinality(LearnedAt(v)) \in Nat
        /\ Cardinality(Unlearned(v)) \in Nat
    BY CountedSets DEF RecallInv
  <2>4. CASE v = u
    <3>1. Unlearned(v)' = Unlearned(v) \cup {a} /\ a \notin Unlearned(v)
      BY <1>0, <1>4, <2>4 DEF Unlearned
    <3>2. Cardinality(Unlearned(v)') = Cardinality(Unlearned(v)) + 1
      BY <2>3, <3>1, FS_AddElement
    <3>3. kept'[v].entries = kept[v].entries + 1
      BY <1>1, <1>3, <2>4
    <3> QED
      BY <2>1, <2>2, <2>3, <3>2, <3>3 DEF LearnedCounted
  <2>5. CASE v # u
    <3>1. Unlearned(v)' = Unlearned(v)
      BY <1>4, <2>5 DEF Unlearned
    <3> QED
      BY <1>3, <2>1, <2>2, <2>5, <3>1 DEF LearnedCounted
  <2> QED
    BY <2>4, <2>5
<1>8. ASSUME NEW b \in Appends, append'[b].at = "row"  PROVE projectRow'[append'[b].by].exists
  <2>1. CASE append[b].by = u
    BY <1>3, <1>4, <1>10, <2>1
  <2>2. CASE append[b].by # u
    <3>1. append[b].at = "row" /\ append[b].by \in Askers
      BY <1>4, <1>8 DEF RecallInv, RecallTypes, AppendCalls
    <3>2. projectRow[append[b].by].exists
      BY <3>1, Zenon DEF RecallInv
    <3> QED
      BY <1>3, <1>4, <2>2, <3>1, <3>2
  <2> QED
    BY <2>1, <2>2
<1>9. \A h \in Uploads : UploadWhole(h)'
  BY <1>2 DEF RecallInv, UploadWhole
<1> QED
  BY <1>5, <1>6, <1>7, <1>8, <1>9 DEF RecallInv

\* What an append leaves alone when it is over, or has its item.
LEMMA AppendOver ==
  ASSUME RecallInv, NEW a \in Appends, append' = [append EXCEPT ![a].at = "over"],
         UNCHANGED <<projectRow, upload, kept>>, memories' \in [Askers -> Seq(MemoryItems)],
         \A v \in Askers : LearnedCounted(v)'
  PROVE  RecallInv'
<1>1. /\ append' \in [Appends -> AppendCalls]
      /\ append'[a].at = "over" /\ \A b \in Appends : append'[b].by = append[b].by
      /\ \A b \in Appends : b # a => append'[b] = append[b]
  BY AppendGoes
<1>2. RecallTypes'
  BY <1>1 DEF RecallInv, RecallTypes
<1>3. \A v \in Askers : RowKept(v)'
  BY DEF RecallInv, RowKept
<1>4. ASSUME NEW b \in Appends, append'[b].at = "row"  PROVE projectRow'[append'[b].by].exists
  <2>1. append[b].at = "row"
    BY <1>1, <1>4
  <2>2. projectRow[append[b].by].exists
    BY <2>1, Zenon DEF RecallInv
  <2> QED
    BY <1>1, <2>2
<1>5. \A h \in Uploads : UploadWhole(h)'
  BY DEF RecallInv, UploadWhole
<1> QED
  BY <1>2, <1>3, <1>4, <1>5 DEF RecallInv

LEMMA ItemInserted == ASSUME RecallInv, NEW a \in Appends, InsertLearned(a)  PROVE RecallInv'
<1> PICK u : u = append[a].by
  OBVIOUS
<1> PICK item : item = Learned(GainOf[a])
  OBVIOUS
<1>1. /\ u \in Askers /\ append[a].at = "entry" /\ item \in MemoryItems /\ item.class = "learned"
      /\ memories[u] \in Seq(MemoryItems)
  BY DEF RecallInv, RecallTypes, AppendCalls, InsertLearned, MemoryItems, Learned
<1>2. /\ memories' \in {memories, [memories EXCEPT ![u] = Append(@, item)]}
      /\ append' = [append EXCEPT ![a].at = "over"] /\ UNCHANGED <<projectRow, upload, kept>>
  BY DEF InsertLearned
<1>3. /\ append'[a].at = "over" /\ \A b \in Appends : append'[b].by = append[b].by
      /\ \A b \in Appends : b # a => append'[b] = append[b]
  BY <1>2, AppendGoes
<1>4. memories' \in [Askers -> Seq(MemoryItems)]
      /\ \A v \in Askers : v # u => memories'[v] = memories[v]
  <2>1. PICK longer : longer = Append(memories[u], item)
    OBVIOUS
  <2>2. longer \in Seq(MemoryItems)
    BY <1>1, <2>1
  <2>3. memories' = memories \/ memories' = [memories EXCEPT ![u] = longer]
    BY <1>2, <2>1
  <2> QED
    BY <1>1, <2>2, <2>3 DEF RecallInv, RecallTypes
<1>5. LearnedAt(u)' \subseteq LearnedAt(u) \cup {Len(memories[u]) + 1} /\ Len(memories[u]) \in Nat
  <2>1. CASE memories' = memories
    BY <1>1, <2>1 DEF LearnedAt
  <2>2. CASE memories' # memories
    <3>1. memories'[u] = Append(memories[u], item)
      BY <1>1, <1>2, <2>2 DEF RecallInv, RecallTypes
    <3>2. /\ DOMAIN memories'[u] = 1..(Len(memories[u]) + 1) /\ Len(memories[u]) \in Nat
          /\ DOMAIN memories[u] = 1..Len(memories[u])
          /\ \A i \in 1..Len(memories[u]) : memories'[u][i] = memories[u][i]
      BY <1>1, <3>1
    <3> QED
      BY <3>2 DEF LearnedAt
  <2> QED
    BY <2>1, <2>2
<1>6. ASSUME NEW v \in Askers  PROVE LearnedCounted(v)'
  <2>1. LearnedCounted(v) /\ kept[v].entries \in Nat
    BY DEF RecallInv, RecallTypes
  <2>2. /\ IsFiniteSet(Unlearned(v)) /\ Cardinality(LearnedAt(v)) \in Nat
        /\ IsFiniteSet(LearnedAt(v)) /\ Cardinality(Unlearned(v)) \in Nat
    BY CountedSets DEF RecallInv
  <2>3. CASE v = u
    <3>1. Unlearned(v)' = Unlearned(v) \ {a} /\ a \in Unlearned(v)
      BY <1>1, <1>3, <2>3 DEF Unlearned
    <3>2. Cardinality(Unlearned(v)') = Cardinality(Unlearned(v)) - 1
      BY <2>2, <3>1, FS_RemoveElement
    <3>3. /\ IsFiniteSet(LearnedAt(v) \cup {Len(memories[u]) + 1})
          /\ Cardinality(LearnedAt(v) \cup {Len(memories[u]) + 1}) \in
               {Cardinality(LearnedAt(v)), Cardinality(LearnedAt(v)) + 1}
      BY <2>2, FS_AddElement
    <3>4. Cardinality(LearnedAt(v)') <= Cardinality(LearnedAt(v) \cup {Len(memories[u]) + 1})
          /\ Cardinality(LearnedAt(v)') \in Nat
      BY <1>5, <2>3, <3>3, FS_Subset, FS_CardinalityType
    <3> QED
      BY <1>2, <2>1, <2>2, <3>2, <3>3, <3>4 DEF LearnedCounted
  <2>4. CASE v # u
    <3>1. Unlearned(v)' = Unlearned(v) /\ LearnedAt(v)' = LearnedAt(v)
      BY <1>1, <1>3, <1>4, <2>4 DEF Unlearned, LearnedAt
    <3> QED
      BY <1>2, <2>1, <3>1 DEF LearnedCounted
  <2> QED
    BY <2>3, <2>4
<1> QED
  BY <1>2, <1>4, <1>6, AppendOver

LEMMA AppendFailed == ASSUME RecallInv, NEW a \in Appends, AppendFails(a)  PROVE RecallInv'
<1>1. /\ append[a].at # "entry" /\ append' = [append EXCEPT ![a].at = "over"]
      /\ UNCHANGED <<projectRow, upload, kept, memories>>
  BY DEF AppendFails
<1>2. /\ append'[a].at = "over" /\ \A b \in Appends : append'[b].by = append[b].by
      /\ \A b \in Appends : b # a => append'[b] = append[b]
  BY <1>1, AppendGoes
<1>3. ASSUME NEW v \in Askers  PROVE LearnedCounted(v)'
  <2>1. Unlearned(v)' = Unlearned(v) /\ LearnedAt(v)' = LearnedAt(v)
    BY <1>1, <1>2 DEF Unlearned, LearnedAt
  <2> QED
    BY <1>1, <2>1 DEF RecallInv, LearnedCounted
<1>4. memories' \in [Askers -> Seq(MemoryItems)]
  BY <1>1 DEF RecallInv, RecallTypes
<1> QED
  BY <1>1, <1>3, <1>4, AppendOver

\* An upload goes on; entries that are stored are sources.
LEMMA UploadGoes ==
  ASSUME RecallInv, NEW h \in Uploads, NEW r \in UploadCalls, upload' = [upload EXCEPT ![h] = r],
         UNCHANGED <<projectRow, append, kept>>,
         \/ UNCHANGED memories
         \/ \E u \in Askers : memories' = [memories EXCEPT ![u] = Append(@, Source)],
         r.at \in {"new", "storing"} => r.left \cup r.stored = Entries,
         r.at = "stored" => r.stored = Entries
  PROVE  RecallInv'
<1>1. upload' \in [Uploads -> UploadCalls] /\ upload'[h] = r
      /\ \A x \in Uploads : x # h => upload'[x] = upload[x]
  BY DEF RecallInv, RecallTypes
<1>2. ASSUME NEW v \in Askers
      PROVE  memories'[v] \in Seq(MemoryItems) /\ LearnedAt(v)' = LearnedAt(v)
  <2>1. memories[v] \in Seq(MemoryItems) /\ Source \in MemoryItems /\ Source.class = "source"
    BY DEF RecallInv, RecallTypes, MemoryItems, Source
  <2>2. memories'[v] = memories[v] \/ memories'[v] = Append(memories[v], Source)
    BY DEF RecallInv, RecallTypes
  <2>3. CASE memories'[v] = memories[v]
    BY <2>1, <2>3 DEF LearnedAt
  <2>4. CASE memories'[v] = Append(memories[v], Source)
    <3>1. /\ DOMAIN memories'[v] = 1..(Len(memories[v]) + 1) /\ Len(memories[v]) \in Nat
          /\ DOMAIN memories[v] = 1..Len(memories[v])
          /\ \A i \in 1..Len(memories[v]) : memories'[v][i] = memories[v][i]
          /\ memories'[v][Len(memories[v]) + 1] = Source
          /\ memories'[v] \in Seq(MemoryItems)
      BY <2>1, <2>4
    <3> QED
      BY <2>1, <3>1 DEF LearnedAt
  <2> QED
    BY <2>2, <2>3, <2>4
<1>3. memories' \in [Askers -> Seq(MemoryItems)]
  <2>1. memories' = [v \in Askers |-> memories'[v]]
    BY DEF RecallInv, RecallTypes
  <2> QED
    BY <1>2, <2>1
<1>4. RecallTypes'
  BY <1>1, <1>3 DEF RecallInv, RecallTypes
<1>5. ASSUME NEW v \in Askers  PROVE LearnedCounted(v)' /\ RowKept(v)'
  <2>1. Unlearned(v)' = Unlearned(v)
    BY DEF Unlearned
  <2>2. LearnedCounted(v)'
    BY <1>2, <2>1 DEF RecallInv, LearnedCounted
  <2> QED
    BY <2>2 DEF RecallInv, RowKept
<1>6. \A b \in Appends : append'[b].at = "row" => projectRow'[append'[b].by].exists
  BY Zenon DEF RecallInv
<1>7. \A x \in Uploads : UploadWhole(x)'
  BY <1>1 DEF RecallInv, UploadWhole
<1> QED
  BY <1>4, <1>5, <1>6, <1>7 DEF RecallInv

LEMMA UploadSteps == ASSUME RecallInv, NEW h \in Uploads, UploadStep(h)  PROVE RecallInv'
<1>0. upload[h] \in UploadCalls /\ UploadWhole(h)
  BY DEF RecallInv, RecallTypes
<1>1. CASE Harness(h)
  <2> PICK r : r = [upload[h] EXCEPT !.at = "storing"]
    OBVIOUS
  <2>1. /\ r \in UploadCalls /\ r.at = "storing" /\ r.left \cup r.stored = Entries
    BY <1>0, <1>1 DEF UploadCalls, UploadWhole, Harness
  <2>2. upload' = [upload EXCEPT ![h] = r] /\ UNCHANGED <<projectRow, append, kept, memories>>
    BY <1>1 DEF Harness, RecallInv, RecallTypes
  <2> QED
    BY <2>1, <2>2, UploadGoes
<1>2. ASSUME NEW e \in Entries, StoreEntry(h, e)  PROVE RecallInv'
  <2> PICK s : s = [upload[h] EXCEPT !.left = @ \ {e}, !.stored = @ \cup {e}]
    OBVIOUS
  <2> PICK r : r = [s EXCEPT !.at = WhenStored(s)]
    OBVIOUS
  <2>1. /\ s \in UploadCalls /\ s.at = upload[h].at /\ s.by = upload[h].by
        /\ s.left = upload[h].left \ {e} /\ s.stored = upload[h].stored \cup {e}
    BY <1>0 DEF UploadCalls
  <2>2. /\ upload[h].at \in {"storing", "refused"}
        /\ s.at = "storing" => s.left \cup s.stored = Entries
    BY <1>0, <1>2, <2>1 DEF StoreEntry, UploadWhole
  <2>3. /\ WhenStored(s) \in {"storing", "stored", "refused"}
        /\ WhenStored(s) = "storing" => s.at = "storing"
        /\ WhenStored(s) = "stored" => s.at = "storing" /\ s.left = {}
    BY <2>1, <2>2 DEF WhenStored
  <2>4. r \in UploadCalls /\ r.at = WhenStored(s) /\ r.left = s.left /\ r.stored = s.stored
    BY <2>1, <2>3 DEF UploadCalls
  <2>5. /\ upload' = [upload EXCEPT ![h] = r] /\ UNCHANGED <<projectRow, append, kept>>
        /\ memories' = [memories EXCEPT ![s.by] = Append(@, Source)]
    BY <1>2 DEF StoreEntry
  <2>6. s.by \in Askers
    BY <2>1 DEF UploadCalls
  <2> QED
    BY <2>2, <2>3, <2>4, <2>5, <2>6, UploadGoes
<1>3. ASSUME NEW e \in Entries, EntryFails(h, e)  PROVE RecallInv'
  <2> PICK r : r = [upload[h] EXCEPT !.at = "refused", !.left = @ \ {e}]
    OBVIOUS
  <2>1. r \in UploadCalls /\ r.at = "refused"
    BY <1>0 DEF UploadCalls
  <2>2. upload' = [upload EXCEPT ![h] = r] /\ UNCHANGED <<projectRow, append, kept, memories>>
    BY <1>3 DEF EntryFails, RecallInv, RecallTypes
  <2> QED
    BY <2>1, <2>2, UploadGoes
<1> QED
  BY <1>1, <1>2, <1>3 DEF UploadStep

LEMMA RecallStep == RecallInv /\ [RecallNext \/ JournalNext]_recallVars => RecallInv'
<1> SUFFICES ASSUME RecallInv, [RecallNext \/ JournalNext]_recallVars  PROVE RecallInv'
  OBVIOUS
<1>1. ASSUME UNCHANGED <<memories, projectRow, append, upload, kept>>  PROVE RecallInv'
  BY <1>1 DEF RecallInv, RecallTypes, RowKept, LearnedCounted, LearnedAt, Unlearned, UploadWhole
<1>2. CASE UNCHANGED recallVars
  BY <1>1, <1>2 DEF recallVars
<1>3. ASSUME NEW u \in Askers, NEW risk \in Risks, LoadMemory(u, risk)  PROVE RecallInv'
  BY <1>1, <1>3 DEF LoadMemory
<1>4. ASSUME NEW a \in Appends, AppendStep(a)  PROVE RecallInv'
  BY <1>4, JournalRowMade, EntryAppended, ItemInserted, AppendFailed DEF AppendStep
<1> QED
  BY <1>2, <1>3, <1>4, MemorySaved, UploadSteps DEF RecallNext, JournalNext

LEMMA JournalIsWhole == RecallInv => MemoryIsKept
<1> SUFFICES ASSUME RecallInv  PROVE MemoryIsKept
  OBVIOUS
<1>1. ASSUME NEW u \in Askers
      PROVE  Cardinality({i \in DOMAIN memories[u] : memories[u][i].class = "learned"}) <= kept[u].entries
  <2>1. /\ Cardinality(LearnedAt(u)) \in Nat /\ Cardinality(Unlearned(u)) \in Nat
        /\ LearnedCounted(u) /\ kept[u].entries \in Nat
    BY CountedSets DEF RecallInv, RecallTypes
  <2> QED
    BY <2>1 DEF LearnedCounted, LearnedAt
<1> QED
  BY <1>1 DEF RecallInv, RowKept, UploadWhole, MemoryIsKept

\* Neither the journal nor the memory of a user is lost to the other, what is learned
\* has its entry, and an upload that was answered is stored.
THEOREM MemoryStays == RecallInit /\ [][RecallNext \/ JournalNext]_recallVars => []MemoryIsKept
BY RecallBegins, RecallStep, JournalIsWhole, PTL

-----------------------------------------------------------------------------
(* Recall: the packets of evidence. *)


\* Of different places as many are up to a number as the number says.
LEMMA PlacesCount ==
  ASSUME NEW n \in Nat, NEW place \in [1 .. n -> 1 .. n], NEW c \in 0 .. n,
         \A i, j \in 1 .. n : place[i] = place[j] => i = j
  PROVE  Cardinality({i \in 1 .. n : place[i] <= c}) = c
<1>1. IsFiniteSet(1 .. n) /\ IsFiniteSet(1 .. c) /\ Cardinality(1 .. c) = c
  BY FS_Interval
<1>2. place \in Injection(1 .. n, 1 .. n)
  BY DEF Injection, IsInjective
<1>3. place \in Surjection(1 .. n, 1 .. n)
  BY <1>1, <1>2, FS_Injection
<1>4. \A t \in 1 .. n : \E i \in 1 .. n : place[i] = t
  BY <1>3 DEF Surjection
<1>5. PICK E : E = {i \in 1 .. n : place[i] <= c}
  OBVIOUS
<1>6. PICK f : f = [i \in E |-> place[i]]
  OBVIOUS
<1>7. f \in [E -> 1 .. c]
  BY <1>5, <1>6
<1>8. \A i, j \in E : f[i] = f[j] => i = j
  BY <1>5, <1>6
<1>9. \A t \in 1 .. c : \E i \in E : f[i] = t
  <2> SUFFICES ASSUME NEW t \in 1 .. c  PROVE \E i \in E : f[i] = t
    OBVIOUS
  <2>1. PICK i \in 1 .. n : place[i] = t
    BY <1>4
  <2> QED
    BY <1>5, <1>6, <2>1
<1>10. f \in Bijection(E, 1 .. c)
  BY <1>7, <1>8, <1>9 DEF Bijection, Injection, IsInjective, Surjection
<1>11. IsFiniteSet(E)
  BY <1>1, <1>5, FS_Subset
<1>12. ExistsBijection(E, 1 .. c)
  BY <1>10 DEF ExistsBijection
<1> QED
  BY <1>1, <1>5, <1>11, <1>12, FS_Bijection

\* AheadOf in the ranking: a higher score, or the same and newer.
AheadOf(score, n, i) == {j \in 1 .. n : score[j] > score[i] \/ (score[j] = score[i] /\ j > i)}

PlacesBy(score, n) == [i \in 1 .. n |-> Cardinality(AheadOf(score, n, i)) + 1]

\* The places of a ranking are different, and those ahead have the lower ones.
LEMMA PlacesDiffer ==
  ASSUME NEW n \in Nat, NEW score \in [1 .. n -> Nat], NEW place,
         place = PlacesBy(score, n)
  PROVE  /\ place \in [1 .. n -> 1 .. n]
         /\ \A i, j \in 1 .. n : place[i] = place[j] => i = j
         /\ \A i, j \in 1 .. n : score[i] > score[j] => place[i] < place[j]
<1>1. IsFiniteSet(1 .. n) /\ Cardinality(1 .. n) = n
  BY FS_Interval
<1>0. place = [i \in 1 .. n |-> Cardinality(AheadOf(score, n, i)) + 1]
  BY DEF PlacesBy
<1>2. ASSUME NEW i \in 1 .. n
      PROVE  IsFiniteSet(AheadOf(score, n, i)) /\ Cardinality(AheadOf(score, n, i)) \in 0 .. n - 1
  <2>1. AheadOf(score, n, i) \subseteq (1 .. n) \ {i}
    BY DEF AheadOf
  <2>2. IsFiniteSet((1 .. n) \ {i}) /\ Cardinality((1 .. n) \ {i}) = n - 1
    BY <1>1, FS_RemoveElement
  <2>3. IsFiniteSet(AheadOf(score, n, i)) /\ Cardinality(AheadOf(score, n, i)) <= n - 1
    BY <2>1, <2>2, FS_Subset
  <2> QED
    BY <2>3, FS_CardinalityType
<1>3. ASSUME NEW i \in 1 .. n, NEW j \in 1 .. n, i \in AheadOf(score, n, j)
      PROVE  place[i] < place[j]
  <2>1. AheadOf(score, n, i) \subseteq AheadOf(score, n, j)
    BY <1>3 DEF AheadOf
  <2>2. i \notin AheadOf(score, n, i)
    BY DEF AheadOf
  <2>3. Cardinality(AheadOf(score, n, i)) <= Cardinality(AheadOf(score, n, j))
    BY <1>2, <2>1, FS_Subset
  <2>4. Cardinality(AheadOf(score, n, i)) # Cardinality(AheadOf(score, n, j))
    BY <1>2, <1>3, <2>1, <2>2, FS_Subset
  <2>5. Cardinality(AheadOf(score, n, i)) \in Nat /\ Cardinality(AheadOf(score, n, j)) \in Nat
    BY <1>2
  <2> QED
    BY <1>0, <2>3, <2>4, <2>5
<1>4. place \in [1 .. n -> 1 .. n]
  <2>1. ASSUME NEW i \in 1 .. n  PROVE place[i] \in 1 .. n
    <3>1. PICK c : c = Cardinality(AheadOf(score, n, i))
      OBVIOUS
    <3>2. c \in 0 .. n - 1
      BY <1>2, <3>1
    <3>3. place[i] = c + 1
      BY <1>0, <3>1
    <3> QED
      BY <3>2, <3>3
  <2> QED
    BY <1>0, <2>1
<1>5. ASSUME NEW i \in 1 .. n, NEW j \in 1 .. n, i # j
      PROVE  i \in AheadOf(score, n, j) \/ j \in AheadOf(score, n, i)
  BY <1>5 DEF AheadOf
<1>6. ASSUME NEW i \in 1 .. n, NEW j \in 1 .. n, score[i] > score[j]  PROVE i \in AheadOf(score, n, j)
  BY <1>6 DEF AheadOf
<1>7. ASSUME NEW i \in 1 .. n, NEW j \in 1 .. n, i # j  PROVE place[i] # place[j]
  <2>1. place[i] \in Nat /\ place[j] \in Nat
    BY <1>4
  <2>2. place[i] < place[j] \/ place[j] < place[i]
    BY <1>3, <1>5, <1>7
  <2> QED
    BY <2>1, <2>2
<1>8. \A i, j \in 1 .. n : score[i] > score[j] => place[i] < place[j]
  BY <1>3, <1>6
<1>9. \A i, j \in 1 .. n : place[i] = place[j] => i = j
  BY <1>7
<1> QED
  BY <1>4, <1>8, <1>9

LEMMA ScoresOfItems ==
  ASSUME NEW item \in MemoryItems, NEW risk \in Risks
  PROVE  /\ scoreMemoryItem(item, risk) \in Nat
         /\ item.class \in {"source", "learned"}
         /\ item.class = "source" => scoreMemoryItem(item, risk) = 46
         /\ item.class = "learned" /\ risk = "high" => scoreMemoryItem(item, risk) <= 33
<1>1. CASE item = Source
  BY <1>1 DEF Source, scoreMemoryItem
<1>2. CASE \E a \in Appends : item = Learned(GainOf[a])
  <2>1. PICK a \in Appends : item = Learned(GainOf[a])
    BY <1>2
  <2>2. GainOf[a] \in Nat
    BY AppendsAssumption
  <2>3. item.class = "learned" /\ item.gain \in Nat
    BY <2>1, <2>2 DEF Learned
  <2> QED
    BY <2>3 DEF scoreMemoryItem
<1> QED
  BY <1>1, <1>2 DEF MemoryItems

\* A packet accounts for the items it was built from, and of high risk it has
\* nothing learned ahead of a source.
LEMMA PacketsAreFair ==
  ASSUME NEW items \in Seq(MemoryItems), NEW risk \in Risks, NEW packet,
         packet = buildEvidencePacket(items, risk)
  PROVE  /\ packet.risk = risk
         /\ packet.sourceCount + packet.learnedCount + packet.rejectedCount = Len(items)
         /\ risk = "high" /\ packet.learnedCount > 0 => packet.passedOver = 0
<1>1. PICK n : n = Len(items)
  OBVIOUS
<1>2. n \in Nat /\ DOMAIN items = 1 .. n /\ \A i \in 1 .. n : items[i] \in MemoryItems
  BY <1>1, LenProperties, ElementOfSeq
<1>3. PICK score : score = [i \in 1 .. n |-> scoreMemoryItem(items[i], risk)]
  OBVIOUS
<1>4. score \in [1 .. n -> Nat]
  BY <1>2, <1>3, ScoresOfItems
<1>5. PICK place : place = rankMemoryItems(items, risk)
  OBVIOUS
<1>6. place = PlacesBy(score, n)
  <2>1. ASSUME NEW i \in 1 .. n
        PROVE  {j \in DOMAIN items :
                  \/ scoreMemoryItem(items[j], risk) > scoreMemoryItem(items[i], risk)
                  \/ (scoreMemoryItem(items[j], risk) = scoreMemoryItem(items[i], risk) /\ j > i)}
                 = AheadOf(score, n, i)
    BY <1>2, <1>3 DEF AheadOf
  <2> QED
    BY <1>2, <1>5, <2>1 DEF rankMemoryItems, PlacesBy
<1>7. PICK count : count = IF Len(items) < PacketLimit THEN Len(items) ELSE PacketLimit
  OBVIOUS
<1>8. count \in 0 .. n
  BY <1>1, <1>2, <1>7, AppendsAssumption
<1>9. PICK evidence : evidence = {i \in 1 .. n : place[i] <= count}
  OBVIOUS
<1>10. PICK firsts : firsts = {i \in evidence : items[i].class = "source"}
  OBVIOUS
<1>11. PICK learned : learned = {i \in evidence : items[i].class = "learned"}
  OBVIOUS
<1>12. packet = [risk |-> risk, sourceCount |-> Cardinality(firsts),
                 learnedCount |-> Cardinality(learned), rejectedCount |-> n - count,
                 passedOver |-> Cardinality({i \in (1 .. n) \ evidence : items[i].class = "source"})]
  BY <1>1, <1>2, <1>5, <1>7, <1>9, <1>10, <1>11 DEF buildEvidencePacket
<1>20. /\ place \in [1 .. n -> 1 .. n]
       /\ \A i, j \in 1 .. n : place[i] = place[j] => i = j
       /\ \A i, j \in 1 .. n : score[i] > score[j] => place[i] < place[j]
  BY <1>2, <1>4, <1>6, PlacesDiffer, Zenon
<1>13. Cardinality(evidence) = count
  BY <1>2, <1>8, <1>9, <1>20, PlacesCount
<1>14. IsFiniteSet(evidence)
  <2>1. IsFiniteSet(1 .. n) /\ evidence \subseteq 1 .. n
    BY <1>2, <1>9, FS_Interval
  <2> QED
    BY <2>1, FS_Subset
<1>15. Cardinality(firsts) \in Nat /\ Cardinality(learned) \in Nat
       /\ Cardinality(firsts) + Cardinality(learned) = count
  <2>1. IsFiniteSet(firsts) /\ IsFiniteSet(learned)
    BY <1>10, <1>11, <1>14, FS_Subset
  <2>2. firsts \cap learned = {}
    BY <1>10, <1>11
  <2>3. firsts \cup learned = evidence
    BY <1>2, <1>9, <1>10, <1>11, ScoresOfItems
  <2>4. Cardinality(firsts \cup learned)
          = Cardinality(firsts) + Cardinality(learned) - Cardinality(firsts \cap learned)
    BY <2>1, FS_Union
  <2>5. Cardinality(firsts \cap learned) = 0
    BY <2>2, FS_EmptySet
  <2>6. Cardinality(firsts) \in Nat /\ Cardinality(learned) \in Nat
    BY <2>1, FS_CardinalityType
  <2>7. Cardinality(firsts \cup learned) = count
    BY <1>13, <2>3, Zenon
  <2>8. count \in Nat
    BY <1>2, <1>8
  <2> QED
    BY <2>4, <2>5, <2>6, <2>7, <2>8
<1>16. ASSUME risk = "high", Cardinality(learned) > 0
       PROVE  {i \in (1 .. n) \ evidence : items[i].class = "source"} = {}
  <2>1. learned # {}
    <3>1. Cardinality({}) = 0
      BY FS_EmptySet
    <3>2. ASSUME learned = {}  PROVE Cardinality(learned) = 0
      BY <3>1, <3>2, Zenon
    <3> QED
      BY <1>16, <3>2
  <2>2. PICK i \in learned : TRUE
    BY <2>1
  <2>3. i \in 1 .. n /\ place[i] <= count /\ items[i].class = "learned"
    BY <1>9, <1>11, <2>2
  <2>4. ASSUME NEW j \in 1 .. n, items[j].class = "source"  PROVE j \in evidence
    <3>1. score[j] = 46 /\ score[i] <= 33
      BY <1>2, <1>3, <1>16, <2>3, <2>4, ScoresOfItems
    <3>2. place[j] < place[i]
      <4>1. score[j] > score[i]
        BY <1>4, <2>3, <3>1
      <4> QED
        BY <1>20, <2>3, <4>1
    <3>3. place[j] \in Nat /\ place[i] \in Nat
      BY <1>20, <2>3
    <3> QED
      BY <1>8, <1>9, <2>3, <3>2, <3>3
  <2> QED
    BY <2>4
<1>17. packet.risk = risk /\ packet.sourceCount = Cardinality(firsts)
       /\ packet.learnedCount = Cardinality(learned) /\ packet.rejectedCount = n - count
  BY <1>12
<1>18. packet.sourceCount + packet.learnedCount + packet.rejectedCount = Len(items)
  BY <1>1, <1>2, <1>8, <1>15, <1>17
<1>19. risk = "high" /\ packet.learnedCount > 0 => packet.passedOver = 0
  <2> SUFFICES ASSUME risk = "high", packet.learnedCount > 0  PROVE packet.passedOver = 0
    OBVIOUS
  <2>1. {i \in (1 .. n) \ evidence : items[i].class = "source"} = {}
    BY <1>16, <1>17
  <2>2. packet.passedOver = Cardinality({i \in (1 .. n) \ evidence : items[i].class = "source"})
    BY <1>12
  <2> QED
    BY <2>1, <2>2, FS_EmptySet, Zenon
<1> QED
  BY <1>17, <1>18, <1>19

\* The cached packets are of their keys.
PacketOf(packet, k) ==
  /\ packet.risk = k[1]
  /\ packet.sourceCount + packet.learnedCount + packet.rejectedCount = k[2]
  /\ packet.risk = "high" /\ packet.learnedCount > 0 => packet.passedOver = 0

PacketsInv ==
  /\ \A k \in DOMAIN packets : PacketOf(packets[k], k)
  /\ told.accounted = told.candidates

LEMMA PacketsBegin == RecallInit => PacketsInv
<1> SUFFICES ASSUME RecallInit  PROVE PacketsInv
  OBVIOUS
<1>1. DOMAIN packets = {}
  BY DEF RecallInit
<1>2. told.accounted = told.candidates
  BY DEF RecallInit
<1> QED
  BY <1>1, <1>2 DEF PacketsInv

LEMMA CandidatesAreItems ==
  ASSUME memories \in [Askers -> Seq(MemoryItems)], NEW u \in Askers
  PROVE  Candidates(u) \in Seq(MemoryItems)
<1>1. PICK s : s = memories[u]
  OBVIOUS
<1>2. s \in Seq(MemoryItems) /\ Len(s) \in Nat
  BY <1>1
<1>3. PICK m : m = IF Len(s) > CandidateLimit THEN Len(s) - CandidateLimit + 1 ELSE 1
  OBVIOUS
<1>4. m \in Int /\ m >= 1
  BY <1>2, <1>3, AppendsAssumption
<1>5. \A i \in m .. Len(s) : s[i] \in MemoryItems
  BY <1>2, <1>4, ElementOfSeq
<1>6. SubSeq(s, m, Len(s)) \in Seq(MemoryItems)
  BY <1>2, <1>4, <1>5, SubSeqProperties
<1> QED
  BY <1>1, <1>3, <1>6 DEF Candidates

LEMMA PacketGiven ==
  ASSUME RecallTypes, PacketsInv, NEW u \in Askers, NEW risk \in Risks, LoadMemory(u, risk)  PROVE PacketsInv'
<1>1. PICK items : items = Candidates(u)
  OBVIOUS
<1>2. PICK key : key = PacketKey(items, risk)
  OBVIOUS
<1>3. PICK packet : packet = IF key \in DOMAIN packets THEN packets[key]
                             ELSE buildEvidencePacket(items, risk)
  OBVIOUS
<1>4. items \in Seq(MemoryItems)
  BY <1>1, CandidatesAreItems DEF RecallTypes
<1>5. key[1] = risk /\ key[2] = Len(items)
  BY <1>2 DEF PacketKey
<1>6. PacketOf(packet, key)
  <2>1. CASE key \in DOMAIN packets
    BY <1>3, <2>1 DEF PacketsInv
  <2>2. CASE key \notin DOMAIN packets
    <3>1. packet = buildEvidencePacket(items, risk)
      BY <1>3, <2>2
    <3> QED
      BY <1>4, <1>5, <3>1, PacketsAreFair DEF PacketOf
  <2> QED
    BY <2>1, <2>2
<1>7. /\ packets' = [k \in DOMAIN packets \cup {key} |-> IF k = key THEN packet ELSE packets[k]]
      /\ told' = [candidates |-> Len(items),
                  accounted |-> packet.sourceCount + packet.learnedCount + packet.rejectedCount]
  BY <1>1, <1>2, <1>3 DEF LoadMemory
<1>8. \A k \in DOMAIN packets' : PacketOf(packets'[k], k)
  BY <1>6, <1>7 DEF PacketsInv
<1>9. told'.accounted = told'.candidates
  BY <1>5, <1>6, <1>7 DEF PacketOf
<1> QED
  BY <1>8, <1>9 DEF PacketsInv, PacketOf

LEMMA PacketsStep ==
  RecallTypes /\ PacketsInv /\ [RecallNext \/ JournalNext]_recallVars => PacketsInv'
<1> SUFFICES ASSUME RecallTypes, PacketsInv, [RecallNext \/ JournalNext]_recallVars  PROVE PacketsInv'
  OBVIOUS
<1>1. ASSUME UNCHANGED <<packets, told>>  PROVE PacketsInv'
  BY <1>1 DEF PacketsInv, PacketOf
<1>2. ASSUME NEW u \in Askers, NEW risk \in Risks, LoadMemory(u, risk)  PROVE PacketsInv'
  BY <1>2, PacketGiven
<1>3. ASSUME NEW a \in Appends, AppendStep(a)  PROVE UNCHANGED <<packets, told>>
  BY <1>3 DEF AppendStep, MakeRow, AppendEntry, InsertLearned, AppendFails
<1>4. ASSUME NEW u \in Askers, SaveUserMemory(u)  PROVE UNCHANGED <<packets, told>>
  BY <1>4 DEF SaveUserMemory
<1>5. ASSUME NEW h \in Uploads, UploadStep(h)  PROVE UNCHANGED <<packets, told>>
  BY <1>5 DEF UploadStep, Harness, StoreEntry, EntryFails
<1>6. CASE UNCHANGED recallVars
  BY <1>1, <1>6 DEF recallVars
<1> QED
  BY <1>1, <1>2, <1>3, <1>4, <1>5, <1>6 DEF RecallNext, JournalNext

LEMMA PacketsFair == PacketsInv => SourceFirst
BY DEF PacketsInv, PacketOf, SourceFirst

\* Whatever memory holds, a packet of high risk has what was learned only when it
\* passes over no source, and an answer accounts for every candidate.
THEOREM SourcesStayFirst == RecallInit /\ [][RecallNext \/ JournalNext]_recallVars => []SourceFirst
<1> DEFINE Both == RecallInv /\ PacketsInv
<1>1. RecallInit => Both
  BY RecallBegins, PacketsBegin
<1>2. Both /\ [RecallNext \/ JournalNext]_recallVars => Both'
  BY RecallStep, PacketsStep DEF RecallInv
<1>3. Both => SourceFirst
  BY PacketsFair
<1> QED
  BY <1>1, <1>2, <1>3, PTL

-----------------------------------------------------------------------------
(* What a fold over the numbers up to n, and one over a sequence, give. *)

\* A set that holds 0 and the successor of what it holds has all the numbers up to n.
LEMMA CountingUp ==
  ASSUME NEW n \in Nat, NEW C, 0 \in C, \A k \in 0 .. n - 1 : k \in C => k + 1 \in C
  PROVE  0 .. n \subseteq C
<1> DEFINE Bad == (0 .. n) \ C
<1>1. IsWellFoundedOn(OpToRel(<, Nat), Nat)
  BY NatLessThanWellFounded
<1>2. CASE Bad # {}
  <2>1. PICK R : R = OpToRel(<, Nat)
    OBVIOUS
  <2>2. \A x, y \in Nat : <<x, y>> \in R <=> x < y
    BY <2>1 DEF OpToRel
  <2>3. PICK m \in Bad : \A k \in Bad : ~(<<k, m>> \in R)
    <3>1. Bad \subseteq Nat
      OBVIOUS
    <3> HIDE DEF Bad
    <3> QED
      BY <1>1, <1>2, <2>1, <3>1, WFMin
  <2>4. m # 0 /\ m \in Nat /\ m - 1 \in 0 .. n - 1 /\ m - 1 \notin Bad
    <3>1. m # 0 /\ m \in 0 .. n
      OBVIOUS
    <3>2. m - 1 \in Nat /\ m - 1 < m /\ m - 1 \in 0 .. n - 1
      BY <3>1
    <3>3. <<m - 1, m>> \in R
      BY <2>2, <3>1, <3>2
    <3> QED
      BY <2>3, <3>1, <3>2, <3>3
  <2>5. m - 1 \in C
    BY <2>4
  <2>6. (m - 1) + 1 = m
    BY <2>4
  <2> QED
    BY <2>4, <2>5, <2>6
<1> QED
  BY <1>2

\* The fold over the numbers up to n, and that there is one.
Iterates(h, F, b, n) ==
  /\ h[0] = b
  /\ \A k \in 0 .. n - 1 : h[k + 1] = F[<<h[k], k + 1>>]

LEMMA IterationExists ==
  ASSUME NEW n \in Nat, NEW A, NEW b \in A, NEW F \in [A \X (1 .. n) -> A]
  PROVE  \E h \in [0 .. n -> A] : Iterates(h, F, b, n)
<1> DEFINE C == {k \in 0 .. n : \E h \in [0 .. k -> A] : Iterates(h, F, b, k)}
<1>1. 0 \in C
  <2>1. [i \in 0 .. 0 |-> b] \in [0 .. 0 -> A]
    OBVIOUS
  <2>2. Iterates([i \in 0 .. 0 |-> b], F, b, 0)
    BY DEF Iterates
  <2> QED
    BY <2>1, <2>2
<1>2. ASSUME NEW k \in 0 .. n - 1, k \in C  PROVE k + 1 \in C
  <2>1. PICK h \in [0 .. k -> A] : Iterates(h, F, b, k)
    BY <1>2
  <2>2. PICK x : x = F[<<h[k], k + 1>>]
    OBVIOUS
  <2>3. x \in A
    <3>1. h[k] \in A /\ k + 1 \in 1 .. n
      BY <2>1
    <3> QED
      BY <2>2, <3>1
  <2>4. PICK g : g = [i \in 0 .. k + 1 |-> IF i = k + 1 THEN x ELSE h[i]]
    OBVIOUS
  <2>5. g \in [0 .. k + 1 -> A]
    BY <2>1, <2>3, <2>4
  <2>6. Iterates(g, F, b, k + 1)
    <3>1. g[0] = b
      BY <2>1, <2>4 DEF Iterates
    <3>2. ASSUME NEW i \in 0 .. k  PROVE g[i + 1] = F[<<g[i], i + 1>>]
      <4>1. g[i] = h[i]
        BY <2>4
      <4>2. CASE i = k
        <5>1. g[i + 1] = x
          BY <2>4, <4>2
        <5> QED
          BY <2>2, <4>1, <4>2, <5>1
      <4>3. CASE i # k
        <5>1. i \in 0 .. k - 1 /\ g[i + 1] = h[i + 1]
          BY <2>4, <4>3
        <5>2. h[i + 1] = F[<<h[i], i + 1>>]
          BY <2>1, <5>1 DEF Iterates
        <5> QED
          BY <4>1, <5>1, <5>2
      <4> QED
        BY <4>2, <4>3
    <3>3. (k + 1) - 1 = k
      OBVIOUS
    <3> QED
      BY <3>1, <3>2, <3>3 DEF Iterates
  <2>7. k + 1 \in 0 .. n
    OBVIOUS
  <2> QED
    BY <2>5, <2>6, <2>7
<1>3. 0 .. n \subseteq C
  <2> HIDE DEF C
  <2> QED
    BY <1>1, <1>2, CountingUp
<1> QED
  BY <1>3

LEMMA MaxIsIn ==
  ASSUME NEW n \in Nat, NEW s \in SUBSET (1 .. n), s # {}
  PROVE  Max(s) \in s /\ \A y \in s : Max(s) >= y
<1> DEFINE C == {k \in 0 .. n : \A t \in SUBSET (1 .. k) : t # {} => \E x \in t : \A y \in t : x >= y}
<1>1. 0 \in C
  <2>1. \A t \in SUBSET (1 .. 0) : t = {}
    OBVIOUS
  <2>2. \A t \in SUBSET (1 .. 0) : t # {} => \E x \in t : \A y \in t : x >= y
    BY <2>1
  <2>3. 0 \in 0 .. n
    OBVIOUS
  <2> QED
    BY <2>2, <2>3
<1>2. ASSUME NEW k \in 0 .. n - 1, k \in C  PROVE k + 1 \in C
  <2>1. ASSUME NEW t \in SUBSET (1 .. k + 1), t # {}  PROVE \E x \in t : \A y \in t : x >= y
    <3>1. CASE k + 1 \in t
      <4>1. \A y \in t : k + 1 >= y
        OBVIOUS
      <4> QED
        BY <3>1, <4>1
    <3>2. CASE k + 1 \notin t
      <4>1. t \in SUBSET (1 .. k)
        <5>1. \A y \in t : y \in 1 .. k + 1 /\ y # k + 1
          BY <3>2
        <5>2. \A y \in 1 .. k + 1 : y # k + 1 => y \in 1 .. k
          OBVIOUS
        <5> QED
          BY <5>1, <5>2
      <4> QED
        BY <1>2, <2>1, <4>1
    <3> QED
      BY <3>1, <3>2
  <2> QED
    BY <2>1
<1>3. n \in C
  <2> HIDE DEF C
  <2>1. 0 .. n \subseteq C
    BY <1>1, <1>2, CountingUp
  <2> QED
    BY <2>1
<1>4. \E x \in s : \A y \in s : x >= y
  BY <1>3
<1> QED
  BY <1>4 DEF Max

\* g folds F over the subsets of the numbers up to n, as MapThenFoldSet does when it
\* takes the greatest first.
FoldsUp(g, F, b, n) ==
  g = [s \in SUBSET (1 .. n) |->
        IF s = {} THEN b ELSE F[<<g[s \ {Max(s)}], Max(s)>>]]

LEMMA FoldExists ==
  ASSUME NEW n \in Nat, NEW A, NEW b \in A, NEW F \in [A \X (1 .. n) -> A]
  PROVE  \E g \in [SUBSET (1 .. n) -> A] : FoldsUp(g, F, b, n)
<1> DEFINE C == {k \in 0 .. n : \E g \in [SUBSET (1 .. k) -> A] : FoldsUp(g, F, b, k)}
<1>1. 0 \in C
  <2>1. PICK g : g = [s \in SUBSET (1 .. 0) |-> b]
    OBVIOUS
  <2>2. \A s \in SUBSET (1 .. 0) : s = {}
    OBVIOUS
  <2>3. g \in [SUBSET (1 .. 0) -> A]
    BY <2>1
  <2>4. FoldsUp(g, F, b, 0)
    <3>1. [s \in SUBSET (1 .. 0) |-> IF s = {} THEN b ELSE F[<<g[s \ {Max(s)}], Max(s)>>]]
            = [s \in SUBSET (1 .. 0) |-> b]
      BY <2>2
    <3> QED
      BY <2>1, <3>1 DEF FoldsUp
  <2>5. 0 \in 0 .. n
    OBVIOUS
  <2> QED
    BY <2>3, <2>4, <2>5
<1>2. ASSUME NEW k \in 0 .. n - 1, k \in C  PROVE k + 1 \in C
  <2>1. PICK g \in [SUBSET (1 .. k) -> A] : FoldsUp(g, F, b, k)
    BY <1>2
  <2>2. PICK m : m = k + 1
    OBVIOUS
  <2>3. m \in 1 .. n /\ m \in Nat /\ k \in Nat
    BY <2>2
  <2>4. \A s \in SUBSET (1 .. m) : m \notin s => s \in SUBSET (1 .. k)
    BY <2>2
  <2>5. \A s \in SUBSET (1 .. m) : s \ {m} \in SUBSET (1 .. k)
    BY <2>2
  <2>6. PICK h : h = [s \in SUBSET (1 .. m) |-> IF m \in s THEN F[<<g[s \ {m}], m>>] ELSE g[s]]
    OBVIOUS
  <2>7. h \in [SUBSET (1 .. m) -> A]
    <3>1. ASSUME NEW s \in SUBSET (1 .. m)  PROVE h[s] \in A
      <4>1. CASE m \in s
        <5>1. g[s \ {m}] \in A
          BY <2>1, <2>5
        <5>2. <<g[s \ {m}], m>> \in A \X (1 .. n)
          BY <2>3, <5>1
        <5> QED
          BY <2>6, <4>1, <5>2
      <4>2. CASE m \notin s
        BY <2>1, <2>4, <2>6, <4>2
      <4> QED
        BY <4>1, <4>2
    <3> QED
      BY <2>6, <3>1
  <2>8. ASSUME NEW s \in SUBSET (1 .. m)
        PROVE  h[s] = IF s = {} THEN b ELSE F[<<h[s \ {Max(s)}], Max(s)>>]
    <3>1. CASE m \in s
      <4>1. Max(s) \in s /\ \A y \in s : Max(s) >= y
        <5>1. s # {} /\ m \in Nat
          BY <2>3, <3>1
        <5> QED
          BY <5>1, MaxIsIn
      <4>2. Max(s) = m
        <5>1. Max(s) \in 1 .. m /\ Max(s) >= m
          BY <3>1, <4>1
        <5> QED
          BY <2>3, <5>1
      <4>3. h[s \ {m}] = g[s \ {m}]
        BY <2>6
      <4> QED
        BY <2>6, <3>1, <4>2, <4>3
    <3>2. CASE m \notin s
      <4>1. s \in SUBSET (1 .. k)
        BY <2>4, <3>2
      <4>2. s \ {Max(s)} \in SUBSET (1 .. k) /\ h[s \ {Max(s)}] = g[s \ {Max(s)}]
        BY <2>6, <3>2, <4>1
      <4>3. g[s] = IF s = {} THEN b ELSE F[<<g[s \ {Max(s)}], Max(s)>>]
        BY <2>1, <4>1 DEF FoldsUp
      <4> QED
        BY <2>6, <3>2, <4>2, <4>3
    <3> QED
      BY <3>1, <3>2
  <2>9. FoldsUp(h, F, b, m)
    BY <2>6, <2>8 DEF FoldsUp
  <2> QED
    BY <2>2, <2>7, <2>9
<1>3. n \in C
  <2> HIDE DEF C
  <2>1. 0 .. n \subseteq C
    BY <1>1, <1>2, CountingUp
  <2> QED
    BY <2>1
<1> QED
  BY <1>3

\* Over an interval, what is taken is its end.
LEMMA Intervals ==
  ASSUME NEW n \in Nat, NEW k \in 0 .. n - 1
  PROVE  /\ 1 .. k + 1 \in SUBSET (1 .. n) /\ 1 .. k + 1 # {}
         /\ Max(1 .. k + 1) = k + 1 /\ (1 .. k + 1) \ {k + 1} = 1 .. k
<1>1. 1 .. k + 1 \in SUBSET (1 .. n) /\ 1 .. k + 1 # {} /\ k + 1 \in 1 .. k + 1
  OBVIOUS
<1>2. Max(1 .. k + 1) \in 1 .. k + 1 /\ Max(1 .. k + 1) >= k + 1
  BY <1>1, MaxIsIn
<1>3. Max(1 .. k + 1) = k + 1
  BY <1>2
<1>4. (1 .. k + 1) \ {k + 1} = 1 .. k
  OBVIOUS
<1> QED
  BY <1>1, <1>3, <1>4

-----------------------------------------------------------------------------
(* MemoryIndex: walks through the graph of calls. *)

WalkStates == Symbol \X SUBSET Symbol
WalkResults == [found : SUBSET Symbol, visited : SUBSET Symbol]

\* One symbol on the way through what a symbol uses.
VisitStep(nexts, below, sofar, t) ==
  IF t \notin nexts THEN sofar
  ELSE [found |-> sofar.found \cup {t} \cup below[<<t, sofar.visited>>].found,
        visited |-> below[<<t, sofar.visited>>].visited]

\* The results on the way through the symbols, from the first.
Visiting(h, nexts, s, visited, below) ==
  /\ h \in [0 .. Len(Symbols) -> WalkResults]
  /\ h[0] = [found |-> {}, visited |-> visited \cup {s}]
  /\ \A k \in 0 .. Len(Symbols) - 1 : h[k + 1] = VisitStep(nexts, below, h[k], Symbols[k + 1])

LEMMA SymbolsAreListed ==
  /\ Len(Symbols) \in Nat /\ DOMAIN Symbols = 1 .. Len(Symbols)
  /\ \A i \in 1 .. Len(Symbols) : Symbols[i] \in Symbol
  /\ \A t \in Symbol : \E i \in 1 .. Len(Symbols) : Symbols[i] = t
<1>1. Len(Symbols) \in Nat /\ DOMAIN Symbols = 1 .. Len(Symbols)
      /\ \A i \in 1 .. Len(Symbols) : Symbols[i] \in Symbol
  BY SymbolsAssumption, LenProperties, ElementOfSeq
<1> QED
  BY <1>1 DEF Symbol, ToSet

LEMMA StepIsResult ==
  ASSUME NEW below \in [WalkStates -> WalkResults], NEW sofar \in WalkResults, NEW t \in Symbol, NEW nexts
  PROVE  VisitStep(nexts, below, sofar, t) \in WalkResults
<1>1. <<t, sofar.visited>> \in WalkStates
  BY DEF WalkStates, WalkResults
<1>2. below[<<t, sofar.visited>>] \in WalkResults
  BY <1>1
<1> QED
  BY <1>2 DEF VisitStep, WalkResults

\* The walk goes through the symbols one after the other.
LEMMA VisitFolds ==
  ASSUME NEW next, NEW s \in Symbol, NEW visited \in SUBSET Symbol,
         NEW below \in [WalkStates -> WalkResults]
  PROVE  \E h : Visiting(h, next[s], s, visited, below)
                /\ Visit(next, s, visited, below) = h[Len(Symbols)]
<1> DEFINE n == Len(Symbols)
           base == [found |-> {}, visited |-> visited \cup {s}]
           Def(g) == [S \in SUBSET (DOMAIN Symbols) |->
                        IF S = {} THEN base
                        ELSE VisitStep(next[s], below, g[S \ {Max(S)}], Symbols[Max(S)])]
<1>1. n \in Nat /\ DOMAIN Symbols = 1 .. n /\ \A i \in 1 .. n : Symbols[i] \in Symbol
  BY SymbolsAreListed
<1>2. Visit(next, s, visited, below) = (CHOOSE x : x = Def(x))[DOMAIN Symbols]
  BY DEF Visit, FoldLeft, MapThenFoldSet, VisitStep
<1>3. PICK F : F = [x \in WalkResults \X (1 .. n) |-> VisitStep(next[s], below, x[1], Symbols[x[2]])]
  OBVIOUS
<1>4. F \in [WalkResults \X (1 .. n) -> WalkResults]
  BY <1>1, <1>3, StepIsResult
<1>5. base \in WalkResults
  BY DEF WalkResults
<1>6. PICK f \in [SUBSET (1 .. n) -> WalkResults] : FoldsUp(f, F, base, n)
  <2> HIDE DEF base, n
  <2> QED
    BY <1>1, <1>4, <1>5, FoldExists
<1>7. f = Def(f)
  <2>1. ASSUME NEW S \in SUBSET (1 .. n), S # {}
        PROVE  F[<<f[S \ {Max(S)}], Max(S)>>] = VisitStep(next[s], below, f[S \ {Max(S)}], Symbols[Max(S)])
    <3>1. Max(S) \in 1 .. n
      <4> HIDE DEF n
      <4> QED
        BY <1>1, <2>1, MaxIsIn
    <3>2. f[S \ {Max(S)}] \in WalkResults
      BY <1>6
    <3> QED
      BY <1>3, <3>1, <3>2
  <2>2. f = [S \in SUBSET (1 .. n) |-> IF S = {} THEN base ELSE F[<<f[S \ {Max(S)}], Max(S)>>]]
    BY <1>6 DEF FoldsUp
  <2> HIDE DEF base, n
  <2> QED
    BY <1>1, <2>1, <2>2
<1>8. PICK g : g = (CHOOSE x : x = Def(x))
  OBVIOUS
<1>9. g = Def(g)
  <2> HIDE DEF Def
  <2> QED
    BY <1>7, <1>8
<1>10. g[{}] = base
  BY <1>9
<1>11. ASSUME NEW k \in 0 .. n - 1
       PROVE  g[1 .. k + 1] = VisitStep(next[s], below, g[1 .. k], Symbols[k + 1])
  <2>1. /\ 1 .. k + 1 \in SUBSET (1 .. n) /\ 1 .. k + 1 # {}
        /\ Max(1 .. k + 1) = k + 1 /\ (1 .. k + 1) \ {k + 1} = 1 .. k
    <3> HIDE DEF n
    <3> QED
      BY <1>1, Intervals
  <2>2. g[1 .. k + 1] = VisitStep(next[s], below, g[(1 .. k + 1) \ {Max(1 .. k + 1)}], Symbols[Max(1 .. k + 1)])
    BY <1>1, <1>9, <2>1
  <2> QED
    BY <2>1, <2>2
<1>12. PICK h : h = [k \in 0 .. n |-> g[1 .. k]]
  OBVIOUS
<1>13. h[0] = base
  <2>1. 1 .. 0 = {} /\ 0 \in 0 .. n
    BY <1>1
  <2> QED
    BY <1>10, <1>12, <2>1
<1>14. \A k \in 0 .. n - 1 : h[k + 1] = VisitStep(next[s], below, h[k], Symbols[k + 1])
  <2> SUFFICES ASSUME NEW k \in 0 .. n - 1
               PROVE  h[k + 1] = VisitStep(next[s], below, h[k], Symbols[k + 1])
    OBVIOUS
  <2>1. k \in 0 .. n /\ k + 1 \in 0 .. n
    BY <1>1
  <2> QED
    BY <1>11, <1>12, <2>1
<1>15. h \in [0 .. n -> WalkResults]
  <2> DEFINE C == {k \in 0 .. n : h[k] \in WalkResults}
  <2>1. 0 \in C
    BY <1>1, <1>5, <1>13
  <2>2. \A k \in 0 .. n - 1 : k \in C => k + 1 \in C
    <3> SUFFICES ASSUME NEW k \in 0 .. n - 1, k \in C  PROVE k + 1 \in C
      OBVIOUS
    <3>1. h[k + 1] = VisitStep(next[s], below, h[k], Symbols[k + 1])
      BY <1>14
    <3>2. Symbols[k + 1] \in Symbol /\ k + 1 \in 0 .. n
      BY <1>1
    <3>3. h[k + 1] \in WalkResults
      BY <3>1, <3>2, StepIsResult
    <3> QED
      BY <3>2, <3>3
  <2>3. 0 .. n \subseteq C
    <3> HIDE DEF C, n
    <3> QED
      BY <1>1, <2>1, <2>2, CountingUp
  <2> QED
    BY <1>12, <2>3
<1>16. Visit(next, s, visited, below) = h[n]
  <2>1. n \in 0 .. n
    BY <1>1
  <2> QED
    BY <1>1, <1>2, <1>8, <1>12, <2>1
<1> QED
  BY <1>13, <1>14, <1>15, <1>16 DEF Visiting

\* What a walk of some depth gives: a part of reach, and where it went on from a
\* symbol it has all that this one uses.
WalkGives(result, nexts, visited, reach) ==
  /\ result \in WalkResults
  /\ visited \subseteq result.visited
  /\ result.found \subseteq reach
  /\ \A x \in result.visited \ visited : nexts[x] \subseteq result.found

\* Below depth zero, a symbol counts as visited.
WalksTo(w, nexts, reach, depth) ==
  /\ w \in [WalkStates -> WalkResults]
  /\ \A t \in Symbol, v \in SUBSET Symbol :
       /\ WalkGives(w[<<t, v>>], nexts, v, reach[t])
       /\ depth > 0 => t \in w[<<t, v>>].visited

Beyond(nexts, reach, s) == nexts[s] \cup UNION {reach[t] : t \in nexts[s]}

LEMMA VisitGives ==
  ASSUME NEW next \in [Symbol -> SUBSET Symbol], NEW s \in Symbol, NEW visited \in SUBSET Symbol,
         NEW below, NEW reach \in [Symbol -> SUBSET Symbol], NEW depth \in Nat,
         WalksTo(below, next, reach, depth), NEW result,
         result = Visit(next, s, visited, below)
  PROVE  /\ WalkGives(result, next, visited, Beyond(next, reach, s))
         /\ s \in result.visited /\ next[s] \subseteq result.found
         /\ depth > 0 => next[s] \subseteq result.visited
<1> DEFINE n == Len(Symbols)
<1>1. below \in [WalkStates -> WalkResults]
  BY DEF WalksTo
<1>2. PICK h : Visiting(h, next[s], s, visited, below) /\ result = h[n]
  BY <1>1, VisitFolds
<1>3. n \in Nat /\ (\A i \in 1 .. n : Symbols[i] \in Symbol)
      /\ \A t \in Symbol : \E i \in 1 .. n : Symbols[i] = t
  BY SymbolsAreListed
<1> DEFINE Good(k) ==
             /\ visited \cup {s} \subseteq h[k].visited
             /\ h[k].found \subseteq Beyond(next, reach, s)
             /\ \A x \in h[k].visited \ (visited \cup {s}) : next[x] \subseteq h[k].found
             /\ \A i \in 1 .. k : Symbols[i] \in next[s] =>
                  Symbols[i] \in h[k].found /\ (depth > 0 => Symbols[i] \in h[k].visited)
           C == {k \in 0 .. n : Good(k)}
<1>4. 0 \in C
  <2>1. h[0] = [found |-> {}, visited |-> visited \cup {s}]
    BY <1>2 DEF Visiting
  <2>2. 0 \in 0 .. n
    BY <1>3
  <2>3. 1 .. 0 = {}
    OBVIOUS
  <2>4. Good(0)
    BY <2>1, <2>3
  <2> HIDE DEF Good, n
  <2> QED
    BY <2>2, <2>4
<1>5. ASSUME NEW k \in 0 .. n - 1, k \in C  PROVE k + 1 \in C
  <2>1. Good(k)
    BY <1>5
  <2>2. PICK t : t = Symbols[k + 1]
    OBVIOUS
  <2>3. t \in Symbol /\ k + 1 \in 0 .. n /\ k \in 0 .. n
    BY <1>3, <2>2
  <2>4. h[k] \in WalkResults
    BY <1>2, <2>3 DEF Visiting
  <2>5. h[k + 1] = VisitStep(next[s], below, h[k], t)
    BY <1>2, <2>2 DEF Visiting
  <2>6. CASE t \notin next[s]
    <3>1. h[k + 1] = h[k]
      BY <2>5, <2>6 DEF VisitStep
    <3>2. \A i \in 1 .. k + 1 : Symbols[i] \in next[s] => i \in 1 .. k
      BY <2>2, <2>6
    <3>3. Good(k + 1)
      BY <2>1, <3>1, <3>2
    <3> HIDE DEF Good
    <3> QED
      BY <2>3, <3>3
  <2>7. CASE t \in next[s]
    <3>1. PICK from : from = below[<<t, h[k].visited>>]
      OBVIOUS
    <3>2. h[k].visited \in SUBSET Symbol
      BY <2>4 DEF WalkResults
    <3>3. WalkGives(from, next, h[k].visited, reach[t]) /\ (depth > 0 => t \in from.visited)
      BY <2>3, <3>1, <3>2 DEF WalksTo
    <3>4. h[k + 1] = [found |-> h[k].found \cup {t} \cup from.found, visited |-> from.visited]
      BY <2>5, <2>7, <3>1 DEF VisitStep
    <3>5. h[k + 1].found = h[k].found \cup {t} \cup from.found /\ h[k + 1].visited = from.visited
      BY <3>4
    <3>6. h[k].visited \subseteq from.visited /\ from.found \subseteq reach[t]
          /\ \A x \in from.visited \ h[k].visited : next[x] \subseteq from.found
      BY <3>3 DEF WalkGives
    <3>7. reach[t] \subseteq Beyond(next, reach, s) /\ t \in Beyond(next, reach, s)
      BY <2>7 DEF Beyond
    <3>8. visited \cup {s} \subseteq h[k + 1].visited
      BY <2>1, <3>5, <3>6
    <3>9. h[k + 1].found \subseteq Beyond(next, reach, s)
      BY <2>1, <3>5, <3>6, <3>7
    <3>10. ASSUME NEW x \in h[k + 1].visited \ (visited \cup {s})  PROVE next[x] \subseteq h[k + 1].found
      <4>1. CASE x \in h[k].visited
        <5>1. next[x] \subseteq h[k].found
          BY <2>1, <3>10, <4>1
        <5> QED
          BY <3>5, <5>1
      <4>2. CASE x \notin h[k].visited
        <5>1. next[x] \subseteq from.found
          BY <3>5, <3>6, <3>10, <4>2
        <5> QED
          BY <3>5, <5>1
      <4> QED
        BY <4>1, <4>2
    <3>11. ASSUME NEW i \in 1 .. k + 1, Symbols[i] \in next[s]
           PROVE  Symbols[i] \in h[k + 1].found /\ (depth > 0 => Symbols[i] \in h[k + 1].visited)
      <4>1. CASE i = k + 1
        BY <2>2, <3>3, <3>5, <4>1
      <4>2. CASE i # k + 1
        <5>1. i \in 1 .. k
          BY <4>2
        <5>2. Symbols[i] \in h[k].found /\ (depth > 0 => Symbols[i] \in h[k].visited)
          BY <2>1, <3>11, <5>1
        <5> QED
          BY <3>5, <3>6, <5>2
      <4> QED
        BY <4>1, <4>2
    <3>12. Good(k + 1)
      BY <3>8, <3>9, <3>10, <3>11
    <3> HIDE DEF Good
    <3> QED
      BY <2>3, <3>12
  <2> QED
    BY <2>6, <2>7
<1>6. n \in C
  <2> HIDE DEF C, n
  <2>1. 0 .. n \subseteq C
    BY <1>3, <1>4, <1>5, CountingUp
  <2> QED
    BY <1>3, <2>1
<1>7. Good(n)
  BY <1>6
<1>8. result \in WalkResults
  BY <1>2, <1>3 DEF Visiting
<1>9. next[s] \subseteq result.found /\ (depth > 0 => next[s] \subseteq result.visited)
  BY <1>2, <1>3, <1>7
<1>10. \A x \in result.visited \ visited : next[x] \subseteq result.found
  BY <1>2, <1>7, <1>9
<1> QED
  BY <1>2, <1>7, <1>8, <1>9, <1>10 DEF WalkGives

\* The walks of every depth up to reach.
Walks(w, next, reach) ==
  /\ w \in [0 .. reach -> [WalkStates -> WalkResults]]
  /\ \A t \in Symbol, v \in SUBSET Symbol : w[0][<<t, v>>] = [found |-> {}, visited |-> v]
  /\ \A k \in 0 .. reach - 1, t \in Symbol, v \in SUBSET Symbol :
       w[k + 1][<<t, v>>] = IF t \in v THEN [found |-> {}, visited |-> v]
                            ELSE Visit(next, t, v, w[k])

LEMMA WalkUnfolds ==
  ASSUME NEW next \in [Symbol -> SUBSET Symbol], NEW start \in Symbol, NEW reach \in Nat
  PROVE  \E w : Walks(w, next, reach) /\ Walk(next, start, reach) = w[reach][<<start, {}>>].found
<1> DEFINE A == [WalkStates -> WalkResults]
           Def(w) == [depth \in 0 .. reach |->
             [p \in Symbol \X SUBSET Symbol |->
               CASE StopsHere(depth, p[1], p[2]) = "known" -> [found |-> {}, visited |-> p[2]]
                 [] StopsHere(depth, p[1], p[2]) = "marked" ->
                      [found |-> {}, visited |-> p[2] \cup {p[1]}]
                 [] OTHER -> Visit(next, p[1], p[2], w[depth - 1])]]
           From(below) == [p \in WalkStates |->
             IF p[1] \in p[2] THEN [found |-> {}, visited |-> p[2]]
             ELSE Visit(next, p[1], p[2], below)]
           none == [p \in WalkStates |-> [found |-> {}, visited |-> p[2]]]
<1>1. Walk(next, start, reach) = (CHOOSE x : x = Def(x))[reach][<<start, {}>>].found
  BY DEF Walk
<1>2. \A p \in WalkStates : p[1] \in Symbol /\ p[2] \in SUBSET Symbol
  BY DEF WalkStates
<1>3. none \in A
  BY <1>2 DEF WalkResults
<1>4. ASSUME NEW below \in A  PROVE From(below) \in A
  <2>1. ASSUME NEW p \in WalkStates  PROVE From(below)[p] \in WalkResults
    <3>1. p[1] \in Symbol /\ p[2] \in SUBSET Symbol
      BY <1>2
    <3>2. CASE p[1] \in p[2]
      BY <3>1, <3>2 DEF WalkResults
    <3>3. CASE p[1] \notin p[2]
      <4>1. PICK h : Visiting(h, next[p[1]], p[1], p[2], below)
                     /\ Visit(next, p[1], p[2], below) = h[Len(Symbols)]
        BY <3>1, VisitFolds
      <4>2. Visit(next, p[1], p[2], below) \in WalkResults
        BY <4>1, SymbolsAreListed DEF Visiting
      <4> QED
        BY <3>3, <4>2
    <3> QED
      BY <3>2, <3>3
  <2> QED
    BY <2>1
<1>5. PICK F : F = [x \in A \X (1 .. reach) |-> From(x[1])]
  OBVIOUS
<1>6. F \in [A \X (1 .. reach) -> A]
  BY <1>4, <1>5
<1>7. PICK h \in [0 .. reach -> A] : Iterates(h, F, none, reach)
  <2> HIDE DEF none, A
  <2> QED
    BY <1>3, <1>6, IterationExists
<1>8. ASSUME NEW w, NEW depth \in 0 .. reach
      PROVE  Def(w)[depth] = IF depth = 0 THEN none ELSE From(w[depth - 1])
  <2>1. CASE depth = 0
    <3>1. \A p \in WalkStates : StopsHere(depth, p[1], p[2]) = "known"
      BY <2>1 DEF StopsHere
    <3> QED
      BY <2>1, <3>1 DEF WalkStates
  <2>2. CASE depth # 0
    <3>1. ASSUME NEW p \in WalkStates
          PROVE  /\ p[1] \in p[2] => StopsHere(depth, p[1], p[2]) = "known"
                 /\ p[1] \notin p[2] => StopsHere(depth, p[1], p[2]) = "no"
      BY <2>2 DEF StopsHere
    <3>2. ASSUME NEW p \in WalkStates  PROVE Def(w)[depth][p] = From(w[depth - 1])[p]
      <4>1. CASE p[1] \in p[2]
        BY <3>1, <4>1 DEF WalkStates
      <4>2. CASE p[1] \notin p[2]
        BY <3>1, <4>2 DEF WalkStates
      <4> QED
        BY <4>1, <4>2
    <3> QED
      BY <2>2, <3>2 DEF WalkStates
  <2> QED
    BY <2>1, <2>2
<1>9. h = Def(h)
  <2>1. ASSUME NEW depth \in 0 .. reach  PROVE h[depth] = Def(h)[depth]
    <3>1. CASE depth = 0
      <4>1. h[0] = none
        BY <1>7 DEF Iterates
      <4> HIDE DEF Def, none
      <4> QED
        BY <1>8, <3>1, <4>1
    <3>2. CASE depth # 0
      <4>1. depth - 1 \in 0 .. reach - 1 /\ depth - 1 \in 0 .. reach /\ (depth - 1) + 1 = depth
            /\ depth \in 1 .. reach
        BY <3>2
      <4>2. h[depth] = F[<<h[depth - 1], depth>>]
        BY <1>7, <4>1 DEF Iterates
      <4>3. h[depth - 1] \in A
        BY <1>7, <4>1
      <4>4. h[depth] = From(h[depth - 1])
        <5> HIDE DEF From, A
        <5> QED
          BY <1>5, <4>1, <4>2, <4>3
      <4> HIDE DEF Def, From
      <4> QED
        BY <1>8, <3>2, <4>4
    <3> QED
      BY <3>1, <3>2
  <2>2. DOMAIN h = 0 .. reach
    BY <1>7
  <2>3. h = [depth \in 0 .. reach |-> h[depth]]
    BY <1>7
  <2>4. [depth \in 0 .. reach |-> h[depth]] = [depth \in 0 .. reach |-> Def(h)[depth]]
    <3> HIDE DEF Def
    <3> QED
      BY <2>1
  <2>5. [depth \in 0 .. reach |-> Def(h)[depth]] = Def(h)
    OBVIOUS
  <2> HIDE DEF Def
  <2> QED
    BY <2>3, <2>4, <2>5
<1>10. PICK w : w = (CHOOSE x : x = Def(x))
  OBVIOUS
<1>11. w = Def(w)
  <2> HIDE DEF Def
  <2> QED
    BY <1>9, <1>10
<1>12. w[0] = none /\ \A k \in 0 .. reach - 1 : w[k + 1] = From(w[k])
  <2>1. w[0] = none
    <3>1. 0 \in 0 .. reach
      OBVIOUS
    <3> HIDE DEF Def, none
    <3> QED
      BY <1>8, <1>11, <3>1
  <2>2. ASSUME NEW k \in 0 .. reach - 1  PROVE w[k + 1] = From(w[k])
    <3>1. k + 1 \in 0 .. reach /\ k + 1 # 0 /\ (k + 1) - 1 = k
      OBVIOUS
    <3>2. w[k + 1] = Def(w)[k + 1]
      <4> HIDE DEF Def
      <4> QED
        BY <1>11
    <3> HIDE DEF Def, From, none
    <3> QED
      BY <1>8, <3>1, <3>2
  <2> QED
    BY <2>1, <2>2
<1>13. w \in [0 .. reach -> A]
  <2> DEFINE C == {k \in 0 .. reach : w[k] \in A}
  <2>1. 0 \in C
    <3>1. 0 \in 0 .. reach
      OBVIOUS
    <3> HIDE DEF none, A
    <3> QED
      BY <1>3, <1>12, <3>1
  <2>2. \A k \in 0 .. reach - 1 : k \in C => k + 1 \in C
    <3> SUFFICES ASSUME NEW k \in 0 .. reach - 1, k \in C  PROVE k + 1 \in C
      OBVIOUS
    <3>1. k + 1 \in 0 .. reach
      OBVIOUS
    <3> HIDE DEF From, A
    <3>2. w[k] \in A /\ w[k + 1] = From(w[k])
      BY <1>12
    <3> QED
      BY <1>4, <3>1, <3>2
  <2>3. 0 .. reach \subseteq C
    <3> HIDE DEF C
    <3> QED
      BY <2>1, <2>2, CountingUp
  <2>4. w = [depth \in 0 .. reach |-> w[depth]]
    BY <1>11
  <2> HIDE DEF Def, A
  <2> QED
    BY <2>3, <2>4
<1>14. \A t \in Symbol, v \in SUBSET Symbol : <<t, v>> \in WalkStates /\ <<t, v>>[1] = t /\ <<t, v>>[2] = v
  BY DEF WalkStates
<1>15. \A t \in Symbol, v \in SUBSET Symbol : w[0][<<t, v>>] = [found |-> {}, visited |-> v]
  BY <1>12, <1>14
<1>16. \A k \in 0 .. reach - 1, t \in Symbol, v \in SUBSET Symbol :
         w[k + 1][<<t, v>>] = IF t \in v THEN [found |-> {}, visited |-> v] ELSE Visit(next, t, v, w[k])
  <2> SUFFICES ASSUME NEW k \in 0 .. reach - 1, NEW t \in Symbol, NEW v \in SUBSET Symbol
               PROVE  w[k + 1][<<t, v>>] = IF t \in v THEN [found |-> {}, visited |-> v]
                                           ELSE Visit(next, t, v, w[k])
    OBVIOUS
  <2>1. w[k + 1] = From(w[k])
    <3> HIDE DEF From
    <3> QED
      BY <1>12
  <2>2. <<t, v>> \in WalkStates /\ <<t, v>>[1] = t /\ <<t, v>>[2] = v
    BY <1>14
  <2> QED
    BY <2>1, <2>2
<1>17. Walk(next, start, reach) = w[reach][<<start, {}>>].found
  BY <1>1, <1>10
<1> QED
  BY <1>13, <1>15, <1>16, <1>17 DEF Walks

Farther(next, reach) == [t \in Symbol |-> Beyond(next, reach, t)]

LEMMA WalkDeeper ==
  ASSUME NEW next \in [Symbol -> SUBSET Symbol], NEW reach \in Nat, NEW w, Walks(w, next, reach),
         NEW k \in 0 .. reach - 1, NEW part_ \in [Symbol -> SUBSET Symbol], NEW depth \in Nat,
         WalksTo(w[k], next, part_, depth)
  PROVE  /\ WalksTo(w[k + 1], next, Farther(next, part_), depth + 1)
         /\ Farther(next, part_) \in [Symbol -> SUBSET Symbol]
<1>1. w[k + 1] \in [WalkStates -> WalkResults]
  BY DEF Walks
<1>2. ASSUME NEW t \in Symbol, NEW v \in SUBSET Symbol
      PROVE  WalkGives(w[k + 1][<<t, v>>], next, v, Farther(next, part_)[t])
             /\ t \in w[k + 1][<<t, v>>].visited
  <2>1. Farther(next, part_)[t] = Beyond(next, part_, t)
    BY DEF Farther
  <2>2. PICK result : result = w[k + 1][<<t, v>>]
    OBVIOUS
  <2>3. result = IF t \in v THEN [found |-> {}, visited |-> v] ELSE Visit(next, t, v, w[k])
    BY <2>2 DEF Walks
  <2>4. CASE t \in v
    BY <2>1, <2>2, <2>3, <2>4 DEF WalkGives, WalkResults
  <2>5. CASE t \notin v
    <3>1. result = Visit(next, t, v, w[k])
      BY <2>3, <2>5
    <3>2. PICK below : below = w[k]
      OBVIOUS
    <3>3. WalksTo(below, next, part_, depth) /\ result = Visit(next, t, v, below)
      BY <3>1, <3>2
    <3>4. /\ WalkGives(result, next, v, Beyond(next, part_, t))
          /\ t \in result.visited /\ next[t] \subseteq result.found
          /\ depth > 0 => next[t] \subseteq result.visited
      BY <3>3, VisitGives
    <3> QED
      BY <2>1, <2>2, <3>4
  <2> QED
    BY <2>4, <2>5
<1>3. Farther(next, part_) \in [Symbol -> SUBSET Symbol]
  BY DEF Farther, Beyond
<1> QED
  BY <1>1, <1>2, <1>3 DEF WalksTo

Nowhere == [t \in Symbol |-> {}]

LEMMA WalkBegins ==
  ASSUME NEW next \in [Symbol -> SUBSET Symbol], NEW reach \in Nat, NEW w, Walks(w, next, reach)
  PROVE  WalksTo(w[0], next, Nowhere, 0) /\ Nowhere \in [Symbol -> SUBSET Symbol]
<1>1. w[0] \in [WalkStates -> WalkResults]
  BY DEF Walks
<1>2. ASSUME NEW t \in Symbol, NEW v \in SUBSET Symbol
      PROVE  WalkGives(w[0][<<t, v>>], next, v, Nowhere[t])
  <2>1. w[0][<<t, v>>] = [found |-> {}, visited |-> v]
    BY DEF Walks
  <2> QED
    BY <2>1 DEF WalkGives, WalkResults
<1> QED
  BY <1>1, <1>2 DEF WalksTo, Nowhere

\* What is within one call, and within each call more.
RimsOf(rel, s, depth, rim) ==
  /\ Within(rel, s, depth) = rim[depth]
  /\ rim[1] = rel[s]
  /\ rim[2] = rel[s] \cup UNION {rel[t] : t \in rel[s]}
  /\ depth = 3 => rim[3] = rim[2] \cup UNION {rel[t] : t \in rim[2]}

LEMMA WithinTwo ==
  ASSUME NEW rel, NEW s
  PROVE  /\ Within(rel, s, 2) = rel[s] \cup UNION {rel[t] : t \in rel[s]}
         /\ Within(rel, s, 3) = Within(rel, s, 2) \cup UNION {rel[t] : t \in Within(rel, s, 2)}
<1>1. ASSUME NEW depth \in {2, 3}  PROVE \E rim : RimsOf(rel, s, depth, rim)
  <2> DEFINE Def(rim) == [d \in 1 .. depth |->
               IF d = 1 THEN rel[s] ELSE rim[d - 1] \cup UNION {rel[t] : t \in rim[d - 1]}]
  <2>1. Within(rel, s, depth) = (CHOOSE rim : rim = Def(rim))[depth]
    BY DEF Within
  <2>2. PICK two : two = rel[s] \cup UNION {rel[t] : t \in rel[s]}
    OBVIOUS
  <2>3. PICK three : three = two \cup UNION {rel[t] : t \in two}
    OBVIOUS
  <2>4. PICK f : f = [d \in 1 .. depth |-> IF d = 1 THEN rel[s] ELSE IF d = 2 THEN two ELSE three]
    OBVIOUS
  <2>5. 1 \in 1 .. depth /\ 2 \in 1 .. depth /\ \A d \in 1 .. depth : d = 1 \/ d = 2 \/ d = 3
    OBVIOUS
  <2>6. f[1] = rel[s] /\ f[2] = two
    BY <2>4, <2>5
  <2>7. ASSUME NEW d \in 1 .. depth  PROVE f[d] = Def(f)[d]
    <3>1. CASE d = 1
      BY <2>6, <3>1
    <3>2. CASE d = 2
      BY <2>2, <2>6, <3>2
    <3>3. CASE d = 3
      <4>1. d - 1 = 2 /\ f[d] = three
        BY <2>4, <3>3
      <4> QED
        BY <2>3, <2>6, <3>3, <4>1
    <3> QED
      BY <2>5, <3>1, <3>2, <3>3
  <2>8. f = Def(f)
    <3>1. f = [d \in 1 .. depth |-> f[d]]
      BY <2>4
    <3>2. [d \in 1 .. depth |-> f[d]] = [d \in 1 .. depth |-> Def(f)[d]]
      <4> HIDE DEF Def
      <4> QED
        BY <2>7
    <3>3. [d \in 1 .. depth |-> Def(f)[d]] = Def(f)
      OBVIOUS
    <3> HIDE DEF Def
    <3> QED
      BY <3>1, <3>2, <3>3
  <2>9. PICK g : g = (CHOOSE rim : rim = Def(rim))
    OBVIOUS
  <2>10. g = Def(g)
    <3> HIDE DEF Def
    <3> QED
      BY <2>8, <2>9
  <2>11. g[1] = rel[s]
    BY <2>5, <2>10
  <2>12. g[2] = g[1] \cup UNION {rel[t] : t \in g[1]}
    <3>1. 2 - 1 = 1 /\ 2 # 1
      OBVIOUS
    <3> QED
      BY <2>5, <2>10, <3>1
  <2>13. depth = 3 => g[3] = g[2] \cup UNION {rel[t] : t \in g[2]}
    <3> SUFFICES ASSUME depth = 3  PROVE g[3] = g[2] \cup UNION {rel[t] : t \in g[2]}
      OBVIOUS
    <3>1. 3 - 1 = 2 /\ 3 # 1 /\ 3 \in 1 .. depth
      OBVIOUS
    <3> QED
      BY <2>10, <3>1
  <2>14. g[2] = rel[s] \cup UNION {rel[t] : t \in rel[s]}
    BY <2>11, <2>12
  <2> QED
    <3>1. RimsOf(rel, s, depth, g)
      BY <2>1, <2>9, <2>11, <2>13, <2>14 DEF RimsOf
    <3> QED
      BY <3>1
<1>2. PICK r : RimsOf(rel, s, 2, r)
  BY <1>1
<1>3. PICK q : RimsOf(rel, s, 3, q)
  BY <1>1
<1> QED
  BY <1>2, <1>3 DEF RimsOf

\* What a walk of depth two or more has at its start.
LEMMA WalkFinds ==
  ASSUME NEW next \in [Symbol -> SUBSET Symbol], NEW s \in Symbol
  PROVE  /\ Walk(next, s, 2) = Within(next, s, 2)
         /\ Within(next, s, 2) \subseteq Walk(next, s, 3)
         /\ Walk(next, s, 3) \subseteq Within(next, s, 3)
<1>1. ASSUME NEW reach \in Nat, NEW w, Walks(w, next, reach), NEW k \in Nat, k > 0, reach = k + 1,
             NEW bound \in [Symbol -> SUBSET Symbol], WalksTo(w[k], next, bound, k)
      PROVE  /\ Within(next, s, 2) \subseteq w[reach][<<s, {}>>].found
             /\ w[reach][<<s, {}>>].found \subseteq Beyond(next, bound, s)
  <2>1. PICK result : result = w[reach][<<s, {}>>]
    OBVIOUS
  <2>2. result = Visit(next, s, {}, w[k])
    <3>1. {} \in SUBSET Symbol /\ s \notin {} /\ k \in 0 .. reach - 1
      BY <1>1
    <3> QED
      BY <1>1, <2>1, <3>1 DEF Walks
  <2>3. /\ WalkGives(result, next, {}, Beyond(next, bound, s))
        /\ s \in result.visited /\ next[s] \subseteq result.found /\ next[s] \subseteq result.visited
    <3>0. k > 0
      BY <1>1
    <3>1. {} \in SUBSET Symbol
      OBVIOUS
    <3>2. PICK below : below = w[k]
      OBVIOUS
    <3>3. PICK v : v = {}
      OBVIOUS
    <3>4. v \in SUBSET Symbol /\ WalksTo(below, next, bound, k) /\ result = Visit(next, s, v, below)
      BY <1>1, <2>2, <3>2, <3>3
    <3>5. /\ WalkGives(result, next, v, Beyond(next, bound, s))
          /\ s \in result.visited /\ next[s] \subseteq result.found
          /\ k > 0 => next[s] \subseteq result.visited
      BY <3>1, <3>4, VisitGives
    <3> QED
      BY <3>0, <3>3, <3>5
  <2>4. \A t \in next[s] : next[t] \subseteq result.found
    BY <2>3 DEF WalkGives
  <2>5. next[s] \cup UNION {next[t] : t \in next[s]} \subseteq result.found
    BY <2>3, <2>4
  <2>6. Within(next, s, 2) = next[s] \cup UNION {next[t] : t \in next[s]}
    BY WithinTwo
  <2>7. result.found \subseteq Beyond(next, bound, s)
    BY <2>3 DEF WalkGives
  <2> QED
    BY <2>1, <2>5, <2>6, <2>7
<1>2. PICK one : one = Farther(next, Nowhere)
  OBVIOUS
<1>3. PICK two : two = Farther(next, one)
  OBVIOUS
<1>4. one = [t \in Symbol |-> next[t]]
  BY <1>2 DEF Farther, Beyond, Nowhere
<1>5. \A t \in Symbol : one[t] = next[t] /\ two[t] = next[t] \cup UNION {next[x] : x \in next[t]}
  BY <1>3, <1>4 DEF Farther, Beyond
<1>6. ASSUME NEW reach \in {2, 3}, NEW w, Walks(w, next, reach)
      PROVE  WalksTo(w[1], next, one, 1) /\ one \in [Symbol -> SUBSET Symbol]
  <2>1. reach \in Nat /\ 0 \in 0 .. reach - 1 /\ 0 + 1 = 1
    OBVIOUS
  <2>2. WalksTo(w[0], next, Nowhere, 0) /\ Nowhere \in [Symbol -> SUBSET Symbol]
    BY <1>6, <2>1, WalkBegins
  <2>3. WalksTo(w[0 + 1], next, one, 1) /\ one \in [Symbol -> SUBSET Symbol]
    BY <1>2, <1>6, <2>1, <2>2, WalkDeeper
  <2> QED
    BY <2>1, <2>3
<1>7. ASSUME NEW w, Walks(w, next, 3)
      PROVE  WalksTo(w[2], next, two, 2) /\ two \in [Symbol -> SUBSET Symbol]
  <2>1. 3 \in {2, 3} /\ 3 \in Nat /\ 1 \in 0 .. 3 - 1 /\ 1 + 1 = 2
    OBVIOUS
  <2>2. WalksTo(w[1], next, one, 1) /\ one \in [Symbol -> SUBSET Symbol]
    BY <1>6, <1>7, <2>1
  <2>3. WalksTo(w[1 + 1], next, two, 2) /\ two \in [Symbol -> SUBSET Symbol]
    BY <1>3, <1>7, <2>1, <2>2, WalkDeeper
  <2> QED
    BY <2>1, <2>3
<1>8. Walk(next, s, 2) = Within(next, s, 2)
  <2>1. PICK w : Walks(w, next, 2) /\ Walk(next, s, 2) = w[2][<<s, {}>>].found
    BY WalkUnfolds
  <2>2. 2 \in {2, 3} /\ 2 \in Nat /\ 1 \in Nat /\ 1 > 0 /\ 2 = 1 + 1
    OBVIOUS
  <2>3. WalksTo(w[1], next, one, 1) /\ one \in [Symbol -> SUBSET Symbol]
    BY <1>6, <2>1, <2>2
  <2>4. Within(next, s, 2) \subseteq w[2][<<s, {}>>].found
        /\ w[2][<<s, {}>>].found \subseteq Beyond(next, one, s)
    BY <1>1, <2>1, <2>2, <2>3
  <2>5. Beyond(next, one, s) = next[s] \cup UNION {next[t] : t \in next[s]}
    BY <1>5 DEF Beyond
  <2>6. Within(next, s, 2) = next[s] \cup UNION {next[t] : t \in next[s]}
    BY WithinTwo
  <2>7. Within(next, s, 2) \subseteq Walk(next, s, 2) /\ Walk(next, s, 2) \subseteq Beyond(next, one, s)
    BY <2>1, <2>4
  <2>8. Beyond(next, one, s) = Within(next, s, 2)
    BY <2>5, <2>6, Zenon
  <2> QED
    BY <2>7, <2>8, Zenon
<1>9. Within(next, s, 2) \subseteq Walk(next, s, 3) /\ Walk(next, s, 3) \subseteq Within(next, s, 3)
  <2>1. PICK w : Walks(w, next, 3) /\ Walk(next, s, 3) = w[3][<<s, {}>>].found
    BY WalkUnfolds
  <2>2. 3 \in {2, 3} /\ 3 \in Nat /\ 2 \in Nat /\ 2 > 0 /\ 3 = 2 + 1
    OBVIOUS
  <2>3. WalksTo(w[2], next, two, 2) /\ two \in [Symbol -> SUBSET Symbol]
    BY <1>7, <2>1
  <2>4. Within(next, s, 2) \subseteq w[3][<<s, {}>>].found
        /\ w[3][<<s, {}>>].found \subseteq Beyond(next, two, s)
    BY <1>1, <2>1, <2>2, <2>3
  <2>5. PICK rim : rim = next[s] \cup UNION {next[t] : t \in next[s]}
    OBVIOUS
  <2>6. Within(next, s, 3) = rim \cup UNION {next[t] : t \in rim}
    BY <2>5, WithinTwo
  <2>7. ASSUME NEW x \in Beyond(next, two, s)  PROVE x \in Within(next, s, 3)
    <3>1. CASE x \in next[s]
      BY <2>5, <2>6, <3>1
    <3>2. CASE x \notin next[s]
      <4>1. PICK t \in next[s] : x \in two[t]
        BY <2>7, <3>2 DEF Beyond
      <4>2. x \in next[t] \/ \E y \in next[t] : x \in next[y]
        BY <1>5, <4>1
      <4>3. t \in rim /\ \A y \in next[t] : y \in rim
        BY <2>5, <4>1
      <4> QED
        BY <2>6, <4>2, <4>3
    <3> QED
      BY <3>1, <3>2
  <2> QED
    BY <2>1, <2>4, <2>7
<1> QED
  BY <1>8, <1>9

GraphTypes == calls \in [Symbol -> SUBSET Symbol]

LEMMA CallsBegin == GraphInit => GraphTypes
BY DEF GraphInit, GraphTypes

LEMMA CallsAreSymbols == GraphTypes /\ GraphNext => GraphTypes'
<1> SUFFICES ASSUME GraphTypes, GraphNext  PROVE GraphTypes'
  OBVIOUS
<1>1. ASSUME NEW s \in Symbol, NEW t \in Symbol, AddCall(s, t)  PROVE GraphTypes'
  BY <1>1 DEF AddCall, GraphTypes
<1>2. CASE ResolveImports
  <2>1. ASSUME NEW s \in Symbol
        PROVE  calls[s] \cup {ImportOf[i] : i \in {j \in DOMAIN ImportOf : j = s \/ j \in calls[s]}} \in SUBSET Symbol
    BY SymbolsAssumption DEF GraphTypes
  <2> QED
    BY <1>2, <2>1 DEF ResolveImports, GraphTypes
<1> QED
  BY <1>1, <1>2 DEF GraphNext

LEMMA WalksFindTheirDepth == GraphTypes => WalksAreDeepEnough
<1> SUFFICES ASSUME GraphTypes, NEW s \in Symbol
             PROVE  /\ Within(calls, s, 2) \subseteq getDependencies(s)
                    /\ getDependencies(s) \subseteq Within(calls, s, 3)
                    /\ getDependents(s) = Within(Callers, s, 2)
  BY DEF WalksAreDeepEnough
<1>1. calls \in [Symbol -> SUBSET Symbol] /\ Callers \in [Symbol -> SUBSET Symbol]
  BY DEF GraphTypes, Callers
<1> QED
  BY <1>1, WalkFinds DEF getDependencies, getDependents

\* Whatever the graph of the calls has become, a walk of depth three has all that is
\* two calls away and nothing that is more than three, and the callers are found to
\* their depth of two: the set of what was visited, shared by all the branches of a
\* walk, costs it one call of its depth at most.
THEOREM WalksStayDeepEnough == GraphInit /\ [][GraphNext]_calls => []WalksAreDeepEnough
<1>1. GraphTypes /\ [GraphNext]_calls => GraphTypes'
  BY CallsAreSymbols DEF GraphTypes
<1> QED
  BY <1>1, CallsBegin, WalksFindTheirDepth, PTL

-----------------------------------------------------------------------------
(* PromptContext: what the chunks of an upload are. *)

\* h flattens the first of seqs, up to each of them.
Flattens(h, seqs) ==
  /\ h[0] = <<>>
  /\ \A k \in 0 .. Len(seqs) - 1 : h[k + 1] = h[k] \o seqs[k + 1]

LEMMA FlattenUnfolds ==
  ASSUME NEW T, NEW seqs \in Seq(Seq(T))
  PROVE  \E h \in [0 .. Len(seqs) -> Seq(T)] : Flattens(h, seqs) /\ FlattenSeq(seqs) = h[Len(seqs)]
<1> DEFINE n == Len(seqs)
           Def(f) == [i \in 1 .. n |-> IF i = 1 THEN seqs[i] ELSE f[i - 1] \o seqs[i]]
<1>1. n \in Nat /\ \A i \in 1 .. n : seqs[i] \in Seq(T)
  BY LenProperties, ElementOfSeq
<1>2. CASE n = 0
  <2>1. seqs = <<>>
    BY <1>2, EmptySeq
  <2>2. PICK h : h = [k \in 0 .. n |-> <<>>]
    OBVIOUS
  <2>3. h \in [0 .. n -> Seq(T)] /\ h[0] = <<>>
    BY <1>2, <2>2
  <2>4. FlattenSeq(seqs) = <<>>
    BY <1>2, <2>1 DEF FlattenSeq
  <2>5. Flattens(h, seqs)
    BY <1>2, <2>3 DEF Flattens
  <2> QED
    BY <1>2, <2>3, <2>4, <2>5
<1>3. CASE n # 0
  <2>1. FlattenSeq(seqs) = (CHOOSE f : f = Def(f))[n]
    BY <1>3 DEF FlattenSeq
  <2>2. PICK F : F = [x \in Seq(T) \X (1 .. n) |-> x[1] \o seqs[x[2]]]
    OBVIOUS
  <2>3. F \in [Seq(T) \X (1 .. n) -> Seq(T)]
    <3>1. ASSUME NEW x \in Seq(T) \X (1 .. n)  PROVE x[1] \o seqs[x[2]] \in Seq(T)
      <4>1. x[1] \in Seq(T) /\ seqs[x[2]] \in Seq(T)
        BY <1>1
      <4> QED
        BY <4>1, ConcatProperties
    <3> QED
      BY <2>2, <3>1
  <2>4. <<>> \in Seq(T)
    OBVIOUS
  <2>5. PICK e \in [0 .. n -> Seq(T)] : Iterates(e, F, <<>>, n)
    <3> HIDE DEF n
    <3> QED
      BY <1>1, <2>3, <2>4, IterationExists
  <2>6. ASSUME NEW k \in 0 .. n - 1  PROVE e[k + 1] = e[k] \o seqs[k + 1]
    <3>1. k + 1 \in 1 .. n /\ k \in 0 .. n
      BY <1>1
    <3>2. e[k + 1] = F[<<e[k], k + 1>>] /\ e[k] \in Seq(T)
      BY <2>5, <3>1 DEF Iterates
    <3> QED
      BY <2>2, <3>1, <3>2
  <2>7. PICK f : f = [i \in 1 .. n |-> e[i]]
    OBVIOUS
  <2>8. ASSUME NEW i \in 1 .. n  PROVE f[i] = Def(f)[i]
    <3>1. i - 1 \in 0 .. n - 1 /\ (i - 1) + 1 = i
      BY <1>1
    <3>2. e[i] = e[i - 1] \o seqs[i]
      BY <2>6, <3>1
    <3>3. CASE i = 1
      <4>1. e[0] = <<>>
        BY <2>5 DEF Iterates
      <4>2. e[i] = <<>> \o seqs[i]
        <5>1. i - 1 = 0
          BY <3>3
        <5>2. e[i - 1] = <<>>
          BY <4>1, <5>1
        <5> QED
          BY <3>2, <5>2
      <4>3. e[i] = seqs[i]
        BY <1>1, <4>2, ConcatEmptySeq
      <4> QED
        BY <2>7, <3>3, <4>3
    <3>4. CASE i # 1
      <4>1. f[i - 1] = e[i - 1]
        BY <2>7, <3>1, <3>4
      <4> QED
        BY <2>7, <3>2, <3>4, <4>1
    <3> QED
      BY <3>3, <3>4
  <2>9. f = Def(f)
    <3>1. f = [i \in 1 .. n |-> f[i]]
      BY <2>7
    <3>2. [i \in 1 .. n |-> f[i]] = [i \in 1 .. n |-> Def(f)[i]]
      <4> HIDE DEF Def, n
      <4> QED
        BY <2>8
    <3>3. [i \in 1 .. n |-> Def(f)[i]] = Def(f)
      OBVIOUS
    <3> HIDE DEF Def, n
    <3> QED
      BY <3>1, <3>2, <3>3
  <2>10. PICK g : g = (CHOOSE f_1 : f_1 = Def(f_1))
    OBVIOUS
  <2>11. g = Def(g)
    <3> HIDE DEF Def
    <3> QED
      BY <2>9, <2>10
  <2>12. PICK h : h = [k \in 0 .. n |-> IF k = 0 THEN <<>> ELSE g[k]]
    OBVIOUS
  <2>13. h[0] = <<>> /\ h[n] = g[n]
    BY <1>1, <1>3, <2>12
  <2>14. ASSUME NEW k \in 0 .. n - 1  PROVE h[k + 1] = h[k] \o seqs[k + 1]
    <3>1. k + 1 \in 1 .. n /\ (k + 1) - 1 = k /\ k \in 0 .. n /\ k + 1 # 0 /\ k + 1 \in 0 .. n
      BY <1>1
    <3>2. g[k + 1] = Def(g)[k + 1]
      <4> HIDE DEF Def
      <4> QED
        BY <2>11
    <3>3. CASE k = 0
      <4>1. g[k + 1] = seqs[k + 1]
        BY <3>1, <3>2, <3>3
      <4>2. <<>> \o seqs[k + 1] = seqs[k + 1]
        BY <1>1, <3>1, ConcatEmptySeq
      <4> QED
        BY <2>12, <3>1, <3>3, <4>1, <4>2
    <3>4. CASE k # 0
      <4>1. k + 1 # 1
        BY <3>4
      <4>2. g[k + 1] = g[k] \o seqs[k + 1]
        BY <3>1, <3>2, <4>1
      <4> QED
        BY <2>12, <3>1, <3>4, <4>2
    <3> QED
      BY <3>3, <3>4
  <2>15. h \in [0 .. n -> Seq(T)]
    <3> DEFINE C == {k \in 0 .. n : h[k] \in Seq(T)}
    <3>1. 0 \in C
      <4>1. 0 \in 0 .. n
        BY <1>1
      <4>2. h[0] \in Seq(T)
        BY <2>4, <2>13
      <4> QED
        BY <4>1, <4>2
    <3>2. \A k \in 0 .. n - 1 : k \in C => k + 1 \in C
      <4> SUFFICES ASSUME NEW k \in 0 .. n - 1, k \in C  PROVE k + 1 \in C
        OBVIOUS
      <4>1. k + 1 \in 0 .. n /\ seqs[k + 1] \in Seq(T) /\ h[k] \in Seq(T)
        BY <1>1
      <4>2. h[k] \o seqs[k + 1] \in Seq(T)
        BY <4>1, ConcatProperties
      <4> QED
        BY <2>14, <4>1, <4>2
    <3>3. 0 .. n \subseteq C
      <4> HIDE DEF C, n
      <4> QED
        BY <1>1, <3>1, <3>2, CountingUp
    <3> QED
      BY <2>12, <3>3
  <2>16. Flattens(h, seqs)
    BY <2>13, <2>14 DEF Flattens
  <2> QED
    BY <2>1, <2>10, <2>13, <2>15, <2>16
<1> QED
  BY <1>2, <1>3

AlikeUpTo(s, t, n) ==
  /\ n \in Nat /\ Len(s) \in Nat /\ Len(t) \in Nat
  /\ n <= Len(s) /\ n <= Len(t)
  /\ \A i \in 1 .. n : s[i] = t[i]

\* What flattens the same sequences is the same.
LEMMA FlattensAlike ==
  ASSUME NEW s, NEW t, NEW n, AlikeUpTo(s, t, n), NEW h, NEW g, Flattens(h, s), Flattens(g, t)
  PROVE  h[n] = g[n]
<1> USE DEF AlikeUpTo
<1> DEFINE C == {k \in 0 .. n : h[k] = g[k]}
<1>1. 0 \in C
  BY DEF Flattens
<1>2. \A k \in 0 .. n - 1 : k \in C => k + 1 \in C
  <2> SUFFICES ASSUME NEW k \in 0 .. n - 1, k \in C  PROVE k + 1 \in C
    OBVIOUS
  <2>1. k \in 0 .. Len(s) - 1 /\ k \in 0 .. Len(t) - 1 /\ k + 1 \in 1 .. n /\ k + 1 \in 0 .. n
    OBVIOUS
  <2>2. h[k + 1] = h[k] \o s[k + 1] /\ g[k + 1] = g[k] \o t[k + 1]
    BY <2>1 DEF Flattens
  <2> QED
    BY <2>1, <2>2
<1>3. 0 .. n \subseteq C
  <2> HIDE DEF C
  <2> QED
    BY <1>1, <1>2, CountingUp
<1> QED
  BY <1>3

LEMMA FlattenType ==
  ASSUME NEW T, NEW seqs \in Seq(Seq(T))
  PROVE  FlattenSeq(seqs) \in Seq(T)
<1>1. PICK h \in [0 .. Len(seqs) -> Seq(T)] : Flattens(h, seqs) /\ FlattenSeq(seqs) = h[Len(seqs)]
  BY FlattenUnfolds
<1>2. Len(seqs) \in 0 .. Len(seqs)
  BY LenProperties
<1> QED
  BY <1>1, <1>2

LEMMA FlattenIs ==
  ASSUME NEW T, NEW seqs \in Seq(Seq(T)), NEW h, Flattens(h, seqs)
  PROVE  FlattenSeq(seqs) = h[Len(seqs)] /\ FlattenSeq(seqs) \in Seq(T)
<1>1. PICK g \in [0 .. Len(seqs) -> Seq(T)] : Flattens(g, seqs) /\ FlattenSeq(seqs) = g[Len(seqs)]
  BY FlattenUnfolds
<1>2. Len(seqs) \in Nat
  BY LenProperties
<1>3. h[Len(seqs)] = g[Len(seqs)]
  <2>1. PICK n : n = Len(seqs)
    OBVIOUS
  <2>2. n \in Nat /\ n <= Len(seqs)
    BY <1>2, <2>1
  <2>3. AlikeUpTo(seqs, seqs, n)
    BY <1>2, <2>1, <2>2 DEF AlikeUpTo
  <2>4. h[n] = g[n]
    BY <1>1, <2>3, FlattensAlike
  <2> QED
    BY <2>1, <2>4
<1> QED
  BY <1>1, <1>2, <1>3

LEMMA FlattenEmpty == FlattenSeq(<<>>) = <<>>
BY DEF FlattenSeq

LEMMA FlattenAppend ==
  ASSUME NEW T, NEW seqs \in Seq(Seq(T)), NEW x \in Seq(T)
  PROVE  FlattenSeq(Append(seqs, x)) = FlattenSeq(seqs) \o x
<1>1. PICK n : n = Len(seqs)
  OBVIOUS
<1>2. PICK t : t = Append(seqs, x)
  OBVIOUS
<1>3. n \in Nat /\ t \in Seq(Seq(T)) /\ Len(t) = n + 1 /\ t[n + 1] = x /\ \A i \in 1 .. n : t[i] = seqs[i]
  BY <1>1, <1>2, AppendProperties, LenProperties
<1>4. PICK h \in [0 .. Len(seqs) -> Seq(T)] : Flattens(h, seqs) /\ FlattenSeq(seqs) = h[Len(seqs)]
  BY FlattenUnfolds
<1>5. PICK g \in [0 .. Len(t) -> Seq(T)] : Flattens(g, t) /\ FlattenSeq(t) = g[Len(t)]
  BY <1>3, FlattenUnfolds
<1>6. g[n] = h[n]
  <2>1. n <= Len(t) /\ n <= Len(seqs) /\ Len(t) \in Nat /\ Len(seqs) \in Nat
    BY <1>1, <1>3
  <2>2. AlikeUpTo(t, seqs, n)
    BY <1>3, <2>1 DEF AlikeUpTo
  <2> QED
    BY <1>4, <1>5, <2>2, FlattensAlike
<1>7. g[n + 1] = g[n] \o x
  <2>1. n \in 0 .. Len(t) - 1
    BY <1>3
  <2> QED
    BY <1>3, <1>5, <2>1 DEF Flattens
<1> QED
  BY <1>1, <1>2, <1>3, <1>4, <1>5, <1>6, <1>7

LEMMA ConcatAppend ==
  ASSUME NEW T, NEW s \in Seq(T), NEW u \in Seq(T), NEW x \in T
  PROVE  s \o Append(u, x) = Append(s \o u, x) /\ s \o u \in Seq(T)
<1>1. PICK y : y = <<x>>
  OBVIOUS
<1>2. y \in Seq(T)
  BY <1>1
<1>3. (s \o u) \o y = s \o (u \o y)
  BY <1>2, ConcatAssociative
<1>4. s \o u \in Seq(T)
  BY ConcatProperties
<1>5. Append(u, x) = u \o y
  BY <1>1, AppendIsConcat
<1>6. Append(s \o u, x) = (s \o u) \o y
  BY <1>1, <1>4, AppendIsConcat
<1> QED
  BY <1>3, <1>4, <1>5, <1>6

\* A part of a sequence is one element longer than the part before it.
LEMMA PartGrows ==
  ASSUME NEW T, NEW t \in Seq(T), NEW k \in 0 .. Len(t) - 1
  PROVE  SubSeq(t, 1, k + 1) = Append(SubSeq(t, 1, k), t[k + 1])
         /\ SubSeq(t, 1, k) \in Seq(T) /\ t[k + 1] \in T
<1>1. Len(t) \in Nat /\ k + 1 \in 1 .. Len(t) /\ 1 \in 1 .. Len(t) /\ (k + 1) - 1 = k
      /\ k + 1 \in 1 .. Len(t)
  BY LenProperties
<1>2. PICK u : u = SubSeq(t, 1, k)
  OBVIOUS
<1>3. PICK x : x = t[k + 1]
  OBVIOUS
<1>4. x \in T
  BY <1>1, <1>3, ElementOfSeq
<1>5. u \in Seq(T)
  <2>1. \A i \in 1 .. k : t[i] \in T
    BY <1>1, ElementOfSeq
  <2> QED
    BY <1>2, <2>1, SubSeqProperties
<1>6. SubSeq(t, 1, k + 1) = SubSeq(t, 1, (k + 1) - 1) \o <<t[k + 1]>>
  BY <1>1, SubSeqRecursiveSecond
<1>7. Append(u, x) = u \o <<x>>
  BY <1>4, <1>5, AppendIsConcat
<1> QED
  BY <1>1, <1>2, <1>3, <1>4, <1>5, <1>6, <1>7

LEMMA FlattenConcatStep ==
  ASSUME NEW T, NEW s \in Seq(Seq(T)), NEW u \in Seq(Seq(T)), NEW x \in Seq(T),
         FlattenSeq(s \o u) = FlattenSeq(s) \o FlattenSeq(u)
  PROVE  FlattenSeq(s \o Append(u, x)) = FlattenSeq(s) \o FlattenSeq(Append(u, x))
<1>1. PICK a : a = FlattenSeq(s)
  OBVIOUS
<1>2. PICK b : b = FlattenSeq(u)
  OBVIOUS
<1>3. a \in Seq(T) /\ b \in Seq(T)
  BY <1>1, <1>2, FlattenType
<1>4. s \o Append(u, x) = Append(s \o u, x) /\ s \o u \in Seq(Seq(T))
  BY ConcatAppend
<1>5. FlattenSeq(Append(s \o u, x)) = FlattenSeq(s \o u) \o x
  BY <1>4, FlattenAppend
<1>6. FlattenSeq(Append(u, x)) = b \o x
  BY <1>2, FlattenAppend
<1>7. FlattenSeq(s \o u) = a \o b
  BY <1>1, <1>2
<1>8. (a \o b) \o x = a \o (b \o x)
  BY <1>3, ConcatAssociative
<1> QED
  BY <1>1, <1>4, <1>5, <1>6, <1>7, <1>8

LEMMA FlattenConcat ==
  ASSUME NEW T, NEW s \in Seq(Seq(T)), NEW t \in Seq(Seq(T))
  PROVE  FlattenSeq(s \o t) = FlattenSeq(s) \o FlattenSeq(t)
<1> DEFINE n == Len(t)
           C == {k \in 0 .. n : FlattenSeq(s \o SubSeq(t, 1, k)) = FlattenSeq(s) \o FlattenSeq(SubSeq(t, 1, k))}
<1>1. n \in Nat
  BY LenProperties
<1>2. FlattenSeq(s) \in Seq(T)
  BY FlattenType
<1>3. 0 \in C
  <2>1. SubSeq(t, 1, 0) = <<>>
    BY SubSeqEmpty
  <2>2. s \o <<>> = s
    BY ConcatEmptySeq
  <2>3. FlattenSeq(s) \o <<>> = FlattenSeq(s)
    BY <1>2, ConcatEmptySeq
  <2>4. 0 \in 0 .. n
    BY <1>1
  <2> QED
    BY <2>1, <2>2, <2>3, <2>4, FlattenEmpty
<1>4. \A k \in 0 .. n - 1 : k \in C => k + 1 \in C
  <2> SUFFICES ASSUME NEW k \in 0 .. n - 1, k \in C  PROVE k + 1 \in C
    OBVIOUS
  <2>1. k + 1 \in 0 .. n
    BY <1>1
  <2>2. PICK u : u = SubSeq(t, 1, k)
    OBVIOUS
  <2>3. PICK x : x = t[k + 1]
    OBVIOUS
  <2>4. SubSeq(t, 1, k + 1) = Append(u, x) /\ u \in Seq(Seq(T)) /\ x \in Seq(T)
    BY <2>2, <2>3, PartGrows
  <2>5. FlattenSeq(s \o u) = FlattenSeq(s) \o FlattenSeq(u)
    BY <2>2
  <2>6. FlattenSeq(s \o Append(u, x)) = FlattenSeq(s) \o FlattenSeq(Append(u, x))
    <3> HIDE DEF C
    <3> QED
      BY <2>4, <2>5, FlattenConcatStep
  <2> QED
    BY <2>1, <2>4, <2>6
<1>5. n \in C
  <2> HIDE DEF C, n
  <2>1. 0 .. n \subseteq C
    BY <1>1, <1>3, <1>4, CountingUp
  <2> QED
    BY <1>1, <2>1
<1>6. SubSeq(t, 1, n) = t
  BY SubSeqFull
<1> QED
  BY <1>5, <1>6

LEMMA CutsCover ==
  ASSUME NEW L \in Nat, NEW b \in Nat \ {0}, NEW m, m = (L + b - 1) \div b
  PROVE  m \in Nat /\ m * b >= L /\ (m = 0 => L = 0) /\ (m > 0 => (m - 1) * b < L)
<1>1. L + b - 1 \in Nat
  OBVIOUS
<1>2. PICK d : d = L + b - 1
  OBVIOUS
<1>3. PICK r : r = d % b
  OBVIOUS
<1>4. d \in Nat /\ m \in Int /\ r \in 0 .. b - 1 /\ d = b * m + r
  BY <1>1, <1>2, <1>3
<1> QED
  BY <1>2, <1>4

LEMMA CutPlaces ==
  ASSUME NEW L \in Nat, NEW b \in Nat \ {0}, NEW m, m = (L + b - 1) \div b, NEW k \in 0 .. m - 1
  PROVE  k * b < L /\ k * b \in Nat /\ (k + 1) * b = k * b + b
<1>1. m \in Nat /\ (m > 0 => (m - 1) * b < L)
  BY CutsCover
<1>2. k \in Nat /\ k <= m - 1
  BY <1>1
<1>3. k * b <= (m - 1) * b
  BY <1>1, <1>2
<1>4. k * b \in Nat
  BY <1>2
<1> QED
  BY <1>1, <1>2, <1>3, <1>4

\* The pieces that a long line is cut into.
Pieces(tokens, b) ==
  [k \in 1 .. ((Len(tokens) + b - 1) \div b) |->
     SubSeq(tokens, (k - 1) * b + 1, IF k * b < Len(tokens) THEN k * b ELSE Len(tokens))]

PieceEnd(tokens, b, k) == IF k * b < Len(tokens) THEN k * b ELSE Len(tokens)
PieceCount(tokens, b) == (Len(tokens) + b - 1) \div b

GoesOn(tokens, T, b, p, last) ==
  /\ SubSeq(tokens, 1, last) = SubSeq(tokens, 1, p) \o SubSeq(tokens, p + 1, last)
  /\ SubSeq(tokens, p + 1, last) \in Seq(T)
  /\ Len(SubSeq(tokens, p + 1, last)) <= b
  /\ p < Len(tokens)

\* A piece goes on where the one before it ended.
LEMMA PieceFollows ==
  ASSUME NEW T, NEW tokens \in Seq(T), NEW b \in Nat \ {0},
         NEW m, m = PieceCount(tokens, b), NEW k \in 0 .. m - 1, NEW last,
         last = PieceEnd(tokens, b, k + 1)
  PROVE  GoesOn(tokens, T, b, k * b, last)
<1>1. PICK L : L = Len(tokens)
  OBVIOUS
<1>2. L \in Nat /\ \A i \in 1 .. L : tokens[i] \in T
  BY <1>1, LenProperties, ElementOfSeq
<1>3. PICK p : p = k * b
  OBVIOUS
<1>4. p < L /\ p \in Nat /\ (k + 1) * b = p + b
  BY <1>1, <1>2, <1>3, CutPlaces DEF PieceCount
<1>5. last \in p .. L /\ last - p <= b /\ last \in Int /\ p + 1 \in Int /\ last >= p + 1
  BY <1>1, <1>2, <1>4 DEF PieceEnd
<1>6. SubSeq(tokens, 1, p) \o SubSeq(tokens, p + 1, last) = SubSeq(tokens, 1, last)
  <2>1. 1 \in 1 .. L + 1 /\ p \in 1 - 1 .. L
    BY <1>2, <1>4
  <2> QED
    BY <1>1, <1>5, <2>1, ConcatAdjacentSubSeq
<1>7. \A i \in p + 1 .. last : tokens[i] \in T
  BY <1>2, <1>4, <1>5
<1>8. SubSeq(tokens, p + 1, last) \in Seq(T) /\ Len(SubSeq(tokens, p + 1, last)) = last - (p + 1) + 1
  BY <1>5, <1>7, SubSeqProperties
<1>9. Len(SubSeq(tokens, p + 1, last)) <= b
  BY <1>4, <1>5, <1>8
<1>10. /\ SubSeq(tokens, 1, last) = SubSeq(tokens, 1, p) \o SubSeq(tokens, p + 1, last)
       /\ SubSeq(tokens, p + 1, last) \in Seq(T)
       /\ p < Len(tokens)
  BY <1>1, <1>4, <1>6, <1>8
<1> QED
  BY <1>3, <1>9, <1>10 DEF GoesOn

LEMMA PiecesAddUp ==
  ASSUME NEW T, NEW tokens \in Seq(T), NEW b \in Nat \ {0}
  PROVE  /\ Pieces(tokens, b) \in Seq(Seq(T)) /\ FlattenSeq(Pieces(tokens, b)) = tokens
         /\ \A k \in DOMAIN Pieces(tokens, b) : Len(Pieces(tokens, b)[k]) <= b
<1>1. PICK L : L = Len(tokens)
  OBVIOUS
<1>2. PICK m : m = (L + b - 1) \div b
  OBVIOUS
<1>3. L \in Nat
  BY <1>1, LenProperties
<1>4. m \in Nat /\ m * b >= L
  BY <1>2, <1>3, CutsCover
<1>5. PICK p : p = Pieces(tokens, b)
  OBVIOUS
<1>6. PICK end : end = [k \in 0 .. m |-> IF k * b < L THEN k * b ELSE L]
  OBVIOUS
<1>7. \A k \in 0 .. m - 1 : k + 1 \in 1 .. m /\ k + 1 \in 0 .. m /\ k \in 0 .. m /\ (k + 1) - 1 = k
  BY <1>4
<1>8. DOMAIN p = 1 .. m
  BY <1>1, <1>2, <1>5 DEF Pieces
<1>9. ASSUME NEW k \in 0 .. m - 1
      PROVE  /\ p[k + 1] = SubSeq(tokens, k * b + 1, end[k + 1])
             /\ p[k + 1] \in Seq(T) /\ Len(p[k + 1]) <= b
             /\ end[k] = k * b
             /\ SubSeq(tokens, 1, end[k + 1]) = SubSeq(tokens, 1, end[k]) \o p[k + 1]
  <2>1. PICK last : last = PieceEnd(tokens, b, k + 1)
    OBVIOUS
  <2>2. /\ SubSeq(tokens, 1, last) = SubSeq(tokens, 1, k * b) \o SubSeq(tokens, k * b + 1, last)
        /\ SubSeq(tokens, k * b + 1, last) \in Seq(T)
        /\ Len(SubSeq(tokens, k * b + 1, last)) <= b
        /\ k * b < Len(tokens)
    <3>1. m = PieceCount(tokens, b)
      BY <1>1, <1>2 DEF PieceCount
    <3>2. GoesOn(tokens, T, b, k * b, last)
      BY <2>1, <3>1, PieceFollows
    <3> QED
      BY <3>2 DEF GoesOn
  <2>3. end[k + 1] = last /\ end[k] = k * b
    BY <1>1, <1>6, <1>7, <2>1, <2>2 DEF PieceEnd
  <2>4. p[k + 1] = SubSeq(tokens, k * b + 1, last)
    <3>1. p[k + 1] = SubSeq(tokens, ((k + 1) - 1) * b + 1,
                            IF (k + 1) * b < Len(tokens) THEN (k + 1) * b ELSE Len(tokens))
      BY <1>1, <1>2, <1>5, <1>7 DEF Pieces
    <3> QED
      BY <1>7, <2>1, <3>1 DEF PieceEnd
  <2> QED
    BY <2>2, <2>3, <2>4
<1>10. \A i \in 1 .. m : p[i] \in Seq(T) /\ Len(p[i]) <= b
  <2> SUFFICES ASSUME NEW i \in 1 .. m  PROVE p[i] \in Seq(T) /\ Len(p[i]) <= b
    OBVIOUS
  <2>1. i - 1 \in 0 .. m - 1 /\ (i - 1) + 1 = i
    BY <1>4
  <2>2. p[(i - 1) + 1] \in Seq(T) /\ Len(p[(i - 1) + 1]) <= b
    BY <1>9, <2>1
  <2> QED
    BY <2>1, <2>2
<1>11. p \in Seq(Seq(T)) /\ Len(p) = m
  <2>1. p = [i \in 1 .. m |-> p[i]]
    BY <1>1, <1>2, <1>5 DEF Pieces
  <2>2. p \in [1 .. m -> Seq(T)]
    BY <1>10, <2>1
  <2>3. p \in Seq(Seq(T))
    BY <1>4, <2>2
  <2> QED
    BY <1>4, <1>8, <2>3, LenProperties
<1>12. PICK h : h = [k \in 0 .. m |-> SubSeq(tokens, 1, end[k])]
  OBVIOUS
<1>13. end[0] = 0
  <2>1. 0 * b = 0 /\ 0 \in 0 .. m
    BY <1>4
  <2> QED
    BY <1>3, <1>6, <2>1
<1>14. h[0] = <<>>
  <2>1. SubSeq(tokens, 1, 0) = <<>>
    BY SubSeqEmpty
  <2>2. 0 \in 0 .. m
    BY <1>4
  <2> QED
    BY <1>12, <1>13, <2>1, <2>2
<1>15. \A k \in 0 .. Len(p) - 1 : h[k + 1] = h[k] \o p[k + 1]
  <2> SUFFICES ASSUME NEW k \in 0 .. m - 1  PROVE h[k + 1] = h[k] \o p[k + 1]
    BY <1>11
  <2>1. h[k + 1] = SubSeq(tokens, 1, end[k + 1]) /\ h[k] = SubSeq(tokens, 1, end[k])
    BY <1>7, <1>12
  <2> QED
    BY <1>9, <2>1
<1>16. Flattens(h, p)
  BY <1>14, <1>15 DEF Flattens
<1>17. FlattenSeq(p) = h[m]
  BY <1>11, <1>16, FlattenIs
<1>18. h[m] = tokens
  <2>1. m \in 0 .. m
    BY <1>4
  <2>2. end[m] = L
    BY <1>3, <1>4, <1>6, <2>1
  <2>3. SubSeq(tokens, 1, Len(tokens)) = tokens
    BY SubSeqFull
  <2> QED
    BY <1>1, <1>12, <2>1, <2>2, <2>3
<1> QED
  BY <1>5, <1>8, <1>10, <1>11, <1>17, <1>18

LEMMA FlattenOne ==
  ASSUME NEW T, NEW x \in Seq(T)
  PROVE  FlattenSeq(<<x>>) = x
<1>1. <<>> \in Seq(Seq(T)) /\ Append(<<>>, x) = <<x>>
  OBVIOUS
<1>2. PICK none : none = <<>>
  OBVIOUS
<1>3. none \in Seq(Seq(T)) /\ Append(none, x) = <<x>>
  BY <1>1, <1>2
<1>4. FlattenSeq(Append(none, x)) = FlattenSeq(none) \o x
  BY <1>3, FlattenAppend
<1>5. FlattenSeq(none) = <<>>
  BY <1>2, FlattenEmpty
<1>6. <<>> \o x = x
  BY ConcatEmptySeq
<1> QED
  BY <1>3, <1>4, <1>5, <1>6

\* What the lines of chunks are when put together.
Joined(chunks) == [k \in DOMAIN chunks |-> FlattenSeq(chunks[k])]
Whole(chunks) == FlattenSeq(Joined(chunks))

LEMMA JoinedType ==
  ASSUME NEW T, NEW chunks \in Seq(Seq(Seq(T)))
  PROVE  /\ Joined(chunks) \in Seq(Seq(T)) /\ Len(Joined(chunks)) = Len(chunks)
         /\ \A k \in 1 .. Len(chunks) : Joined(chunks)[k] = FlattenSeq(chunks[k])
         /\ Whole(chunks) \in Seq(T)
<1>1. Len(chunks) \in Nat /\ DOMAIN chunks = 1 .. Len(chunks)
      /\ \A k \in 1 .. Len(chunks) : chunks[k] \in Seq(Seq(T))
  BY LenProperties, ElementOfSeq
<1>2. PICK n : n = Len(chunks)
  OBVIOUS
<1>3. PICK j : j = Joined(chunks)
  OBVIOUS
<1>4. j = [k \in 1 .. n |-> FlattenSeq(chunks[k])]
  BY <1>1, <1>2, <1>3 DEF Joined
<1>5. \A k \in 1 .. n : FlattenSeq(chunks[k]) \in Seq(T)
  BY <1>1, <1>2, FlattenType
<1>6. j \in [1 .. n -> Seq(T)] /\ n \in Nat
  BY <1>1, <1>2, <1>4, <1>5
<1>7. j \in Seq(Seq(T))
  BY <1>6
<1>8. Len(j) = n
  BY <1>6, <1>7, LenProperties
<1>9. FlattenSeq(j) \in Seq(T)
  BY <1>7, FlattenType
<1> QED
  BY <1>2, <1>3, <1>4, <1>7, <1>8, <1>9 DEF Whole

LEMMA WholeConcat ==
  ASSUME NEW T, NEW s \in Seq(Seq(Seq(T))), NEW t \in Seq(Seq(Seq(T)))
  PROVE  Whole(s \o t) = Whole(s) \o Whole(t)
<1>1. PICK a : a = Joined(s)
  OBVIOUS
<1>2. PICK b : b = Joined(t)
  OBVIOUS
<1>3. PICK c : c = Joined(s \o t)
  OBVIOUS
<1>4. s \o t \in Seq(Seq(Seq(T))) /\ Len(s \o t) = Len(s) + Len(t) /\ Len(s) \in Nat /\ Len(t) \in Nat
      /\ \A i \in 1 .. Len(s) + Len(t) : (s \o t)[i] = IF i <= Len(s) THEN s[i] ELSE t[i - Len(s)]
  BY ConcatProperties, LenProperties
<1>5. a \in Seq(Seq(T)) /\ Len(a) = Len(s) /\ \A k \in 1 .. Len(s) : a[k] = FlattenSeq(s[k])
  BY <1>1, JoinedType
<1>6. b \in Seq(Seq(T)) /\ Len(b) = Len(t) /\ \A k \in 1 .. Len(t) : b[k] = FlattenSeq(t[k])
  BY <1>2, JoinedType
<1>7. c \in Seq(Seq(T)) /\ Len(c) = Len(s) + Len(t)
      /\ \A k \in 1 .. Len(s) + Len(t) : c[k] = FlattenSeq((s \o t)[k])
  <2>1. PICK u : u = s \o t
    OBVIOUS
  <2>2. c \in Seq(Seq(T)) /\ Len(c) = Len(u) /\ \A k \in 1 .. Len(u) : c[k] = FlattenSeq(u[k])
    BY <1>3, <1>4, <2>1, JoinedType
  <2> QED
    BY <1>4, <2>1, <2>2
<1>8. a \o b \in Seq(Seq(T)) /\ Len(a \o b) = Len(a) + Len(b)
      /\ \A i \in 1 .. Len(a) + Len(b) : (a \o b)[i] = IF i <= Len(a) THEN a[i] ELSE b[i - Len(a)]
  <2>1. a \in Seq(Seq(T)) /\ b \in Seq(Seq(T))
    BY <1>5, <1>6
  <2> QED
    BY <2>1, ConcatProperties
<1>9. \A i \in 1 .. Len(s) + Len(t) : c[i] = (a \o b)[i]
  <2> SUFFICES ASSUME NEW i \in 1 .. Len(s) + Len(t)  PROVE c[i] = (a \o b)[i]
    OBVIOUS
  <2>1. c[i] = FlattenSeq((s \o t)[i])
    BY <1>7
  <2>2. CASE i <= Len(s)
    <3>1. i \in 1 .. Len(s) /\ (s \o t)[i] = s[i] /\ (a \o b)[i] = a[i]
      BY <1>4, <1>5, <1>6, <1>8, <2>2
    <3> QED
      BY <1>5, <2>1, <3>1
  <2>3. CASE ~(i <= Len(s))
    <3>1. i - Len(s) \in 1 .. Len(t) /\ (s \o t)[i] = t[i - Len(s)] /\ (a \o b)[i] = b[i - Len(s)]
      BY <1>4, <1>5, <1>6, <1>8, <2>3
    <3> QED
      BY <1>6, <2>1, <3>1
  <2> QED
    BY <2>2, <2>3
<1>10. c = a \o b
  <2>1. PICK d : d = a \o b
    OBVIOUS
  <2>2. d \in Seq(Seq(T)) /\ Len(d) = Len(c) /\ \A i \in 1 .. Len(c) : c[i] = d[i]
    BY <1>5, <1>6, <1>7, <1>8, <1>9, <2>1
  <2>3. c = d
    BY <1>7, <2>2, SeqEqual
  <2> QED
    BY <2>1, <2>3
<1>11. FlattenSeq(a \o b) = FlattenSeq(a) \o FlattenSeq(b)
  BY <1>5, <1>6, FlattenConcat
<1> QED
  BY <1>1, <1>2, <1>3, <1>10, <1>11 DEF Whole

LineTokens == Nat \X Nat
ChunkStates == [done : Seq(Seq(Seq(LineTokens))), lines : Seq(Seq(LineTokens)), tokens : Nat]

\* The chunks and the lines that wait are the text so far, none of them too long.
Holds(c, text, b) ==
  /\ c \in ChunkStates
  /\ Whole(c.done) \o FlattenSeq(c.lines) = text
  /\ \A k \in 1 .. Len(c.done) : Len(FlattenSeq(c.done[k])) <= b
  /\ Len(FlattenSeq(c.lines)) <= c.tokens /\ c.tokens <= b
  /\ c.lines = <<>> => c.tokens = 0

LEMMA WholeOne ==
  ASSUME NEW T, NEW x \in Seq(Seq(T))
  PROVE  Whole(<<x>>) = FlattenSeq(x)
<1>1. Joined(<<x>>) = <<FlattenSeq(x)>>
  BY DEF Joined
<1>2. PICK f : f = FlattenSeq(x)
  OBVIOUS
<1>3. f \in Seq(T)
  BY <1>2, FlattenType
<1>4. FlattenSeq(<<f>>) = f
  BY <1>3, FlattenOne
<1> QED
  BY <1>1, <1>2, <1>4 DEF Whole

\* One chunk more is that much more text.
LEMMA WholeAppend ==
  ASSUME NEW T, NEW chunks \in Seq(Seq(Seq(T))), NEW x \in Seq(Seq(T))
  PROVE  Whole(Append(chunks, x)) = Whole(chunks) \o FlattenSeq(x)
<1>1. PICK one : one = <<x>>
  OBVIOUS
<1>2. one \in Seq(Seq(Seq(T)))
  BY <1>1
<1>3. Append(chunks, x) = chunks \o one
  BY <1>1, AppendIsConcat
<1>4. Whole(chunks \o one) = Whole(chunks) \o Whole(one)
  BY <1>2, WholeConcat
<1>5. Whole(one) = FlattenSeq(x)
  BY <1>1, WholeOne
<1> QED
  BY <1>3, <1>4, <1>5

LEMMA WholeEmpty == Whole(<<>>) = <<>>
<1>1. Joined(<<>>) = <<>>
  BY DEF Joined
<1> QED
  BY <1>1, FlattenEmpty DEF Whole

LEMMA FlushedHolds ==
  ASSUME NEW c, NEW text, NEW b \in Nat, Holds(c, text, b)
  PROVE  /\ Holds(Flushed(c), text, b) /\ Flushed(c).lines = <<>> /\ Flushed(c).tokens = 0
         /\ Whole(Flushed(c).done) = text
<1>1. /\ c \in ChunkStates /\ Whole(c.done) \o FlattenSeq(c.lines) = text
      /\ \A k \in 1 .. Len(c.done) : Len(FlattenSeq(c.done[k])) <= b
      /\ Len(FlattenSeq(c.lines)) <= c.tokens /\ c.tokens <= b
      /\ c.lines = <<>> => c.tokens = 0
  BY DEF Holds
<1>2. c.done \in Seq(Seq(Seq(LineTokens))) /\ c.lines \in Seq(Seq(LineTokens)) /\ c.tokens \in Nat
  BY <1>1 DEF ChunkStates
<1>3. Whole(c.done) \in Seq(LineTokens)
  BY <1>2, JoinedType
<1>4. CASE c.lines = <<>>
  <2>1. Flushed(c) = c
    BY <1>4 DEF Flushed
  <2>2. PICK w : w = Whole(c.done)
    OBVIOUS
  <2>3. w \o <<>> = w
    BY <1>3, <2>2, ConcatEmptySeq
  <2>4. FlattenSeq(c.lines) = <<>>
    BY <1>4, FlattenEmpty
  <2>5. Whole(c.done) = text
    BY <1>1, <2>2, <2>3, <2>4
  <2> QED
    BY <1>1, <1>4, <2>1, <2>5
<1>5. CASE c.lines # <<>>
  <2>1. PICK f : f = Flushed(c)
    OBVIOUS
  <2>2. f = [done |-> Append(c.done, c.lines), lines |-> <<>>, tokens |-> 0]
    BY <1>5, <2>1 DEF Flushed
  <2>3. f.done = Append(c.done, c.lines) /\ f.lines = <<>> /\ f.tokens = 0
    BY <2>2
  <2>4. Append(c.done, c.lines) \in Seq(Seq(Seq(LineTokens)))
        /\ Len(Append(c.done, c.lines)) = Len(c.done) + 1 /\ Len(c.done) \in Nat
        /\ Append(c.done, c.lines)[Len(c.done) + 1] = c.lines
        /\ \A k \in 1 .. Len(c.done) : Append(c.done, c.lines)[k] = c.done[k]
    BY <1>2, AppendProperties, LenProperties
  <2>5. Whole(f.done) = text
    BY <1>1, <1>2, <2>3, WholeAppend
  <2>6. f \in ChunkStates
    <3>1. <<>> \in Seq(Seq(LineTokens)) /\ 0 \in Nat
      OBVIOUS
    <3> QED
      BY <2>2, <2>4, <3>1 DEF ChunkStates
  <2>7. \A k \in 1 .. Len(f.done) : Len(FlattenSeq(f.done[k])) <= b
    <3> SUFFICES ASSUME NEW k \in 1 .. Len(c.done) + 1
                 PROVE  Len(FlattenSeq(Append(c.done, c.lines)[k])) <= b
      BY <2>3, <2>4
    <3>1. CASE k = Len(c.done) + 1
      <4>1. PICK n : n = Len(FlattenSeq(c.lines))
        OBVIOUS
      <4>2. n \in Nat
        <5>1. FlattenSeq(c.lines) \in Seq(LineTokens)
          BY <1>2, FlattenType
        <5> QED
          BY <4>1, <5>1, LenProperties
      <4>3. n <= b
        BY <1>1, <1>2, <4>1, <4>2
      <4> QED
        BY <2>4, <3>1, <4>1, <4>3
    <3>2. CASE k # Len(c.done) + 1
      <4>1. k \in 1 .. Len(c.done)
        BY <2>4, <3>2
      <4> QED
        BY <1>1, <2>4, <4>1
    <3> QED
      BY <3>1, <3>2
  <2>8. Whole(f.done) \o FlattenSeq(f.lines) = text
    <3>1. PICK w : w = Whole(f.done)
      OBVIOUS
    <3>2. w \in Seq(LineTokens)
      BY <2>3, <2>4, <3>1, JoinedType
    <3>3. w \o <<>> = w
      BY <3>2, ConcatEmptySeq
    <3> QED
      BY <2>3, <2>5, <3>1, <3>3, FlattenEmpty
  <2>9. Len(FlattenSeq(f.lines)) <= f.tokens /\ f.tokens <= b
    <3>1. FlattenSeq(f.lines) = <<>>
      BY <2>3, FlattenEmpty
    <3>2. Len(<<>>) = 0
      OBVIOUS
    <3> QED
      BY <2>3, <3>1, <3>2
  <2>10. Holds(f, text, b)
    BY <2>3, <2>6, <2>7, <2>8, <2>9 DEF Holds
  <2> QED
    BY <2>1, <2>3, <2>5, <2>10
<1> QED
  BY <1>4, <1>5

CutOf(tokens, b) == [k \in 1 .. ((Len(tokens) + b - 1) \div b) |->
  << SubSeq(tokens, (k - 1) * b + 1, IF k * b < Len(tokens) THEN k * b ELSE Len(tokens)) >>]

\* A long line is cut into chunks of its own.
LEMMA CutGives ==
  ASSUME NEW T, NEW tokens \in Seq(T), NEW b \in Nat \ {0}, NEW cut, cut = CutOf(tokens, b)
  PROVE  /\ cut \in Seq(Seq(Seq(T))) /\ Whole(cut) = tokens
         /\ \A k \in 1 .. Len(cut) : Len(FlattenSeq(cut[k])) <= b
<1>1. PICK p : p = Pieces(tokens, b)
  OBVIOUS
<1>2. p \in Seq(Seq(T)) /\ FlattenSeq(p) = tokens /\ \A k \in DOMAIN p : Len(p[k]) <= b
  BY <1>1, PiecesAddUp
<1>3. PICK m : m = PieceCount(tokens, b)
  OBVIOUS
<1>4. DOMAIN p = 1 .. m /\ cut = [k \in 1 .. m |-> <<p[k]>>]
  BY <1>1, <1>3 DEF Pieces, CutOf, PieceCount
<1>5. m \in Nat
  <2>1. Len(tokens) \in Nat
    BY LenProperties
  <2> QED
    BY <1>3, <2>1, CutsCover DEF PieceCount
<1>6. \A k \in 1 .. m : p[k] \in Seq(T)
  BY <1>2, <1>4, LenProperties, ElementOfSeq
<1>7. \A k \in 1 .. m : <<p[k]>> \in Seq(Seq(T))
  BY <1>6
<1>8. cut \in [1 .. m -> Seq(Seq(T))]
  BY <1>4, <1>7
<1>9. cut \in Seq(Seq(Seq(T)))
  BY <1>5, <1>8
<1>10. Len(cut) = m
  BY <1>5, <1>8, <1>9, LenProperties
<1>11. \A k \in 1 .. m : FlattenSeq(cut[k]) = p[k]
  <2> SUFFICES ASSUME NEW k \in 1 .. m  PROVE FlattenSeq(cut[k]) = p[k]
    OBVIOUS
  <2>1. PICK x : x = p[k]
    OBVIOUS
  <2>2. x \in Seq(T) /\ cut[k] = <<x>>
    BY <1>4, <1>6, <2>1
  <2>3. FlattenSeq(<<x>>) = x
    BY <2>2, FlattenOne
  <2> QED
    BY <2>1, <2>2, <2>3
<1>12. Joined(cut) = p
  <2>1. Joined(cut) = [k \in 1 .. m |-> p[k]]
    BY <1>4, <1>11 DEF Joined
  <2>2. p = [k \in 1 .. m |-> p[k]]
    BY <1>1, <1>3 DEF Pieces, PieceCount
  <2> QED
    BY <2>1, <2>2
<1>13. Whole(cut) = tokens
  BY <1>2, <1>12 DEF Whole
<1>14. \A k \in 1 .. m : Len(FlattenSeq(cut[k])) <= b
  BY <1>2, <1>4, <1>11
<1> QED
  BY <1>9, <1>10, <1>13, <1>14

AddLine(c, i, lines, b) ==
  LET line == TokensOf(i, lines[i])
      estimate == lines[i] + 1
      flushed == Flushed(c)
  IN IF estimate > b THEN [flushed EXCEPT !.done = @ \o CutOf(line, b)]
     ELSE IF c.lines /= <<>> /\ c.tokens + estimate > b
     THEN [done |-> Append(c.done, c.lines), lines |-> <<line>>, tokens |-> estimate]
     ELSE [c EXCEPT !.lines = Append(@, line), !.tokens = @ + estimate]

LEMMA LineType ==
  ASSUME NEW i \in Nat, NEW n \in Nat
  PROVE  TokensOf(i, n) \in Seq(LineTokens) /\ Len(TokensOf(i, n)) = n
<1>1. PICK t : t = TokensOf(i, n)
  OBVIOUS
<1>2. t \in [1 .. n -> LineTokens]
  BY <1>1 DEF TokensOf, LineTokens
<1>3. t \in Seq(LineTokens)
  BY <1>2
<1>4. Len(t) = n
  BY <1>2, <1>3, LenProperties
<1> QED
  BY <1>1, <1>3, <1>4

\* Appended to the lines that wait, a line ends the text.
LEMMA LineWaits ==
  ASSUME NEW done \in Seq(Seq(Seq(LineTokens))), NEW lines \in Seq(Seq(LineTokens)),
         NEW line \in Seq(LineTokens)
  PROVE  /\ Whole(done) \o FlattenSeq(Append(lines, line)) = (Whole(done) \o FlattenSeq(lines)) \o line
         /\ Len(FlattenSeq(Append(lines, line))) = Len(FlattenSeq(lines)) + Len(line)
<1>1. PICK w : w = Whole(done)
  OBVIOUS
<1>2. PICK f : f = FlattenSeq(lines)
  OBVIOUS
<1>3. w \in Seq(LineTokens) /\ f \in Seq(LineTokens)
  BY <1>1, <1>2, JoinedType, FlattenType
<1>4. FlattenSeq(Append(lines, line)) = f \o line
  BY <1>2, FlattenAppend
<1>5. (w \o f) \o line = w \o (f \o line)
  BY <1>3, ConcatAssociative
<1>6. Len(f \o line) = Len(f) + Len(line)
  BY <1>3, ConcatProperties
<1> QED
  BY <1>1, <1>2, <1>4, <1>5, <1>6

LEMMA LongLineAdded ==
  ASSUME NEW c, NEW text, NEW b \in Nat \ {0}, Holds(c, text, b),
         NEW line \in Seq(LineTokens), NEW d,
         d = [Flushed(c) EXCEPT !.done = @ \o CutOf(line, b)]
  PROVE  Holds(d, text \o line, b)
<1>1. PICK f : f = Flushed(c)
  OBVIOUS
<1>2. Holds(f, text, b) /\ f.lines = <<>> /\ f.tokens = 0 /\ Whole(f.done) = text
  BY <1>1, FlushedHolds
<1>3. PICK cut : cut = CutOf(line, b)
  OBVIOUS
<1>4. /\ cut \in Seq(Seq(Seq(LineTokens))) /\ Whole(cut) = line
      /\ \A k \in 1 .. Len(cut) : Len(FlattenSeq(cut[k])) <= b
  BY <1>3, CutGives
<1>5. f \in ChunkStates /\ \A k \in 1 .. Len(f.done) : Len(FlattenSeq(f.done[k])) <= b
  BY <1>2 DEF Holds
<1>6. PICK s : s = f.done
  OBVIOUS
<1>7. s \in Seq(Seq(Seq(LineTokens)))
  BY <1>5, <1>6 DEF ChunkStates
<1>8. /\ s \o cut \in Seq(Seq(Seq(LineTokens))) /\ Len(s \o cut) = Len(s) + Len(cut)
      /\ \A i \in 1 .. Len(s) + Len(cut) : (s \o cut)[i] = IF i <= Len(s) THEN s[i] ELSE cut[i - Len(s)]
      /\ Len(s) \in Nat /\ Len(cut) \in Nat
  <2>1. Len(s) \in Nat /\ Len(cut) \in Nat
    BY <1>4, <1>7, LenProperties
  <2>2. cut \in Seq(Seq(Seq(LineTokens)))
    BY <1>4
  <2> QED
    BY <1>7, <2>1, <2>2, ConcatProperties
<1>9. d = [f EXCEPT !.done = s \o cut]
  BY <1>1, <1>3, <1>6
<1>10. d \in ChunkStates /\ d.done = s \o cut /\ d.lines = <<>> /\ d.tokens = 0
  BY <1>2, <1>5, <1>8, <1>9 DEF ChunkStates
<1>11. Whole(d.done) = text \o line
  <2>1. Whole(s \o cut) = Whole(s) \o Whole(cut)
    BY <1>4, <1>7, WholeConcat
  <2> QED
    BY <1>2, <1>4, <1>6, <1>10, <2>1
<1>12. Whole(d.done) \o FlattenSeq(d.lines) = text \o line
  <2>1. PICK w : w = Whole(d.done)
    OBVIOUS
  <2>2. w \in Seq(LineTokens)
    BY <1>8, <1>10, <2>1, JoinedType
  <2>3. w \o <<>> = w
    BY <2>2, ConcatEmptySeq
  <2> QED
    BY <1>10, <1>11, <2>1, <2>3, FlattenEmpty
<1>13. \A k \in 1 .. Len(d.done) : Len(FlattenSeq(d.done[k])) <= b
  <2> SUFFICES ASSUME NEW k \in 1 .. Len(s) + Len(cut)  PROVE Len(FlattenSeq((s \o cut)[k])) <= b
    BY <1>8, <1>10
  <2>1. CASE k <= Len(s)
    BY <1>5, <1>6, <1>8, <2>1
  <2>2. CASE ~(k <= Len(s))
    <3>1. k - Len(s) \in 1 .. Len(cut)
      BY <1>8, <2>2
    <3> QED
      BY <1>4, <1>8, <2>2, <3>1
  <2> QED
    BY <2>1, <2>2
<1>14. Len(FlattenSeq(d.lines)) <= d.tokens
  <2>1. FlattenSeq(d.lines) = <<>>
    BY <1>10, FlattenEmpty
  <2>2. Len(<<>>) = 0
    OBVIOUS
  <2> QED
    BY <1>10, <2>1, <2>2
<1> QED
  BY <1>10, <1>12, <1>13, <1>14 DEF Holds

LEMMA LineAdded ==
  ASSUME NEW c, NEW text, NEW b \in Nat \ {0}, Holds(c, text, b),
         NEW lines, NEW i \in Nat, lines[i] \in Nat
  PROVE  Holds(AddLine(c, i, lines, b), text \o TokensOf(i, lines[i]), b)
<1>1. PICK line : line = TokensOf(i, lines[i])
  OBVIOUS
<1>2. PICK n : n = lines[i]
  OBVIOUS
<1>3. line \in Seq(LineTokens) /\ Len(line) = n /\ n \in Nat
  BY <1>1, <1>2, LineType
<1>4. PICK d : d = AddLine(c, i, lines, b)
  OBVIOUS
<1>5. /\ c \in ChunkStates /\ Whole(c.done) \o FlattenSeq(c.lines) = text
      /\ \A k \in 1 .. Len(c.done) : Len(FlattenSeq(c.done[k])) <= b
      /\ Len(FlattenSeq(c.lines)) <= c.tokens /\ c.tokens <= b
      /\ c.lines = <<>> => c.tokens = 0
  BY DEF Holds
<1>6. c.done \in Seq(Seq(Seq(LineTokens))) /\ c.lines \in Seq(Seq(LineTokens)) /\ c.tokens \in Nat
  BY <1>5 DEF ChunkStates
<1>7. CASE n + 1 > b
  <2>1. lines[i] + 1 > b
    BY <1>2, <1>7
  <2>2. AddLine(c, i, lines, b) = [Flushed(c) EXCEPT !.done = @ \o CutOf(TokensOf(i, lines[i]), b)]
    BY ONLY <2>1, Zenon DEF AddLine
  <2>3. d = [Flushed(c) EXCEPT !.done = @ \o CutOf(line, b)]
    BY <1>1, <1>4, <2>2, Zenon
  <2> QED
    BY <1>1, <1>3, <1>4, <2>3, LongLineAdded
<1>8. CASE ~(n + 1 > b) /\ c.lines # <<>> /\ c.tokens + (n + 1) > b
  <2>1. d = [done |-> Append(c.done, c.lines), lines |-> <<line>>, tokens |-> n + 1]
    BY <1>1, <1>2, <1>4, <1>8 DEF AddLine
  <2>2. PICK f : f = Flushed(c)
    OBVIOUS
  <2>3. f = [done |-> Append(c.done, c.lines), lines |-> <<>>, tokens |-> 0]
    BY <1>8, <2>2 DEF Flushed
  <2>4. Holds(f, text, b) /\ Whole(f.done) = text
    BY <2>2, FlushedHolds
  <2>5. f \in ChunkStates /\ \A k \in 1 .. Len(f.done) : Len(FlattenSeq(f.done[k])) <= b
    BY <2>4 DEF Holds
  <2>6. d.done = f.done /\ d.lines = <<line>> /\ d.tokens = n + 1
    BY <2>1, <2>3
  <2>7. d \in ChunkStates
    <3>1. f.done \in Seq(Seq(Seq(LineTokens)))
      BY <2>5 DEF ChunkStates
    <3>2. <<line>> \in Seq(Seq(LineTokens)) /\ n + 1 \in Nat
      BY <1>3
    <3>3. d = [done |-> f.done, lines |-> <<line>>, tokens |-> n + 1]
      BY <2>1, <2>3
    <3> QED
      BY <3>1, <3>2, <3>3 DEF ChunkStates
  <2>8. FlattenSeq(d.lines) = line
    BY <1>3, <2>6, FlattenOne
  <2>9. Holds(d, text \o line, b)
    <3>1. Whole(d.done) \o FlattenSeq(d.lines) = text \o line
      BY <2>4, <2>6, <2>8
    <3>2. Len(FlattenSeq(d.lines)) <= d.tokens /\ d.tokens <= b
      BY <1>3, <1>8, <2>6, <2>8
    <3>3. d.lines # <<>>
      BY <2>6
    <3> QED
      BY <2>5, <2>6, <2>7, <3>1, <3>2, <3>3 DEF Holds
  <2> QED
    BY <1>1, <1>4, <2>9
<1>9. CASE ~(n + 1 > b) /\ ~(c.lines # <<>> /\ c.tokens + (n + 1) > b)
  <2>1. d = [c EXCEPT !.lines = Append(@, line), !.tokens = @ + (n + 1)]
    BY <1>1, <1>2, <1>4, <1>9 DEF AddLine
  <2>2. PICK more : more = Append(c.lines, line)
    OBVIOUS
  <2>3. more \in Seq(Seq(LineTokens)) /\ more # <<>>
    <3>1. PICK s : s = c.lines
      OBVIOUS
    <3>2. s \in Seq(Seq(LineTokens)) /\ line \in Seq(LineTokens) /\ more = Append(s, line)
      BY <1>3, <1>6, <2>2, <3>1
    <3> QED
      BY ONLY <3>2, AppendProperties
  <2>4. d.done = c.done /\ d.lines = more /\ d.tokens = c.tokens + (n + 1) /\ d \in ChunkStates
    <3>1. c = [done |-> c.done, lines |-> c.lines, tokens |-> c.tokens]
      BY <1>5 DEF ChunkStates
    <3>2. d = [done |-> c.done, lines |-> Append(c.lines, line), tokens |-> c.tokens + (n + 1)]
      BY ONLY <2>1, <3>1
    <3>3. d = [done |-> c.done, lines |-> more, tokens |-> c.tokens + (n + 1)]
      BY <2>2, <3>2
    <3>4. c.tokens + (n + 1) \in Nat
      BY <1>3, <1>6
    <3> QED
      BY ONLY <1>6, <2>3, <3>3, <3>4 DEF ChunkStates
  <2>5. d.tokens <= b
    BY <1>3, <1>5, <1>6, <1>9, <2>4
  <2>6. Whole(d.done) \o FlattenSeq(d.lines) = text \o line
    <3>1. Whole(c.done) \o FlattenSeq(more) = (Whole(c.done) \o FlattenSeq(c.lines)) \o line
      BY <1>3, <1>6, <2>2, LineWaits
    <3> QED
      BY <1>5, <2>4, <3>1
  <2>7. Len(FlattenSeq(d.lines)) <= d.tokens
    <3>1. Len(FlattenSeq(more)) = Len(FlattenSeq(c.lines)) + Len(line)
      BY <1>3, <1>6, <2>2, LineWaits
    <3>2. PICK q : q = Len(FlattenSeq(c.lines))
      OBVIOUS
    <3>3. q \in Nat /\ q <= c.tokens
      <4>1. FlattenSeq(c.lines) \in Seq(LineTokens)
        BY <1>6, FlattenType
      <4> QED
        BY <1>5, <3>2, <4>1, LenProperties
    <3> QED
      BY <1>3, <1>6, <2>4, <3>1, <3>2, <3>3
  <2>8. Holds(d, text \o line, b)
    BY <1>5, <2>3, <2>4, <2>5, <2>6, <2>7 DEF Holds
  <2> QED
    BY <1>1, <1>4, <2>8
<1> QED
  BY <1>7, <1>8, <1>9
Sound(b) == {c \in ChunkStates : Holds(c, Whole(c.done) \o FlattenSeq(c.lines), b)}
NoChunks == [done |-> <<>>, lines |-> <<>>, tokens |-> 0]
Numbered(lines) == [i \in DOMAIN lines |-> i]
Texts(lines) == [i \in DOMAIN lines |-> TokensOf(i, lines[i])]

LEMMA NoChunksHold ==
  ASSUME NEW b \in Nat
  PROVE  Holds(NoChunks, <<>>, b) /\ NoChunks \in Sound(b)
<1>1. NoChunks \in ChunkStates
  <2>1. <<>> \in Seq(Seq(Seq(LineTokens))) /\ <<>> \in Seq(Seq(LineTokens)) /\ 0 \in Nat
    OBVIOUS
  <2> QED
    BY <2>1 DEF NoChunks, ChunkStates
<1>2. NoChunks.done = <<>> /\ NoChunks.lines = <<>> /\ NoChunks.tokens = 0
  BY DEF NoChunks
<1>3. Whole(NoChunks.done) \o FlattenSeq(NoChunks.lines) = <<>>
  <2>1. <<>> \o <<>> = <<>>
    OBVIOUS
  <2> QED
    BY <1>2, <2>1, WholeEmpty, FlattenEmpty
<1>4. Len(FlattenSeq(NoChunks.lines)) <= NoChunks.tokens /\ NoChunks.tokens <= b
  <2>1. FlattenSeq(NoChunks.lines) = <<>>
    BY <1>2, FlattenEmpty
  <2>2. Len(<<>>) = 0
    OBVIOUS
  <2> QED
    BY <1>2, <2>1, <2>2
<1>5. \A k \in 1 .. Len(NoChunks.done) : Len(FlattenSeq(NoChunks.done[k])) <= b
  <2>1. Len(NoChunks.done) = 0
    BY <1>2
  <2> QED
    BY <2>1
<1>6. Holds(NoChunks, <<>>, b)
  BY <1>1, <1>2, <1>3, <1>4, <1>5 DEF Holds
<1>7. NoChunks \in Sound(b)
  BY <1>1, <1>3, <1>6 DEF Sound
<1> QED
  BY <1>6, <1>7

LEMMA SoundStays ==
  ASSUME NEW b \in Nat \ {0}, NEW c \in Sound(b), NEW lines, NEW i \in Nat, lines[i] \in Nat
  PROVE  AddLine(c, i, lines, b) \in Sound(b)
<1>1. PICK text : text = Whole(c.done) \o FlattenSeq(c.lines)
  OBVIOUS
<1>2. Holds(c, text, b)
  BY <1>1 DEF Sound
<1>3. PICK d : d = AddLine(c, i, lines, b)
  OBVIOUS
<1>4. PICK more : more = text \o TokensOf(i, lines[i])
  OBVIOUS
<1>5. Holds(d, more, b)
  BY <1>2, <1>3, <1>4, LineAdded
<1>6. d \in ChunkStates /\ Whole(d.done) \o FlattenSeq(d.lines) = more
  BY <1>5 DEF Holds
<1>7. d \in Sound(b)
  BY <1>5, <1>6 DEF Sound
<1> QED
  BY <1>3, <1>7

\* Line after line, as chunkText goes.
LEMMA ChunkTextFolds ==
  ASSUME NEW lines \in Seq(Nat), NEW b \in Nat \ {0}
  PROVE  \E h : /\ h[0] = NoChunks
                /\ \A k \in 0 .. Len(lines) - 1 : h[k + 1] = AddLine(h[k], k + 1, lines, b)
                /\ chunkText(lines, b) = Flushed(h[Len(lines)]).done
<1> DEFINE n == Len(lines)
           Def(g) == [S \in SUBSET (DOMAIN Numbered(lines)) |->
                        IF S = {} THEN NoChunks
                        ELSE AddLine(g[S \ {Max(S)}], Numbered(lines)[Max(S)], lines, b)]
<1>1. n \in Nat /\ DOMAIN lines = 1 .. n /\ \A i \in 1 .. n : lines[i] \in Nat
  BY LenProperties, ElementOfSeq
<1>2. DOMAIN Numbered(lines) = 1 .. n /\ \A i \in 1 .. n : Numbered(lines)[i] = i
  BY <1>1 DEF Numbered
<1>3. chunkText(lines, b) = Flushed((CHOOSE x : x = Def(x))[DOMAIN Numbered(lines)]).done
  BY DEF chunkText, FoldLeft, MapThenFoldSet, AddLine, CutOf, NoChunks, Numbered
<1>4. PICK A : A = Sound(b)
  OBVIOUS
<1>5. PICK F : F = [x \in A \X (1 .. n) |-> AddLine(x[1], x[2], lines, b)]
  OBVIOUS
<1>6. F \in [A \X (1 .. n) -> A]
  <2>1. ASSUME NEW x \in A \X (1 .. n)  PROVE AddLine(x[1], x[2], lines, b) \in A
    <3>1. x[1] \in Sound(b) /\ x[2] \in 1 .. n
      BY <1>4
    <3>2. x[2] \in Nat /\ lines[x[2]] \in Nat
      BY <1>1, <3>1
    <3> HIDE DEF n
    <3> QED
      BY <1>4, <3>1, <3>2, SoundStays
  <2> QED
    BY <1>5, <2>1
<1>7. NoChunks \in A
  BY <1>4, NoChunksHold
<1>8. PICK f \in [SUBSET (1 .. n) -> A] : FoldsUp(f, F, NoChunks, n)
  <2> HIDE DEF n
  <2> QED
    BY <1>1, <1>6, <1>7, FoldExists
<1>9. f = Def(f)
  <2>1. ASSUME NEW S \in SUBSET (1 .. n), S # {}
        PROVE  F[<<f[S \ {Max(S)}], Max(S)>>] = AddLine(f[S \ {Max(S)}], Numbered(lines)[Max(S)], lines, b)
    <3>1. Max(S) \in 1 .. n
      <4> HIDE DEF n
      <4> QED
        BY <1>1, <2>1, MaxIsIn
    <3>2. f[S \ {Max(S)}] \in A
      BY <1>8
    <3>3. Numbered(lines)[Max(S)] = Max(S)
      BY <1>2, <3>1
    <3> QED
      BY <1>5, <3>1, <3>2, <3>3
  <2>2. f = [S \in SUBSET (1 .. n) |-> IF S = {} THEN NoChunks ELSE F[<<f[S \ {Max(S)}], Max(S)>>]]
    BY <1>8 DEF FoldsUp
  <2> HIDE DEF n
  <2> QED
    BY <1>2, <2>1, <2>2
<1>10. PICK g : g = (CHOOSE x : x = Def(x))
  OBVIOUS
<1>11. g = Def(g)
  <2> HIDE DEF Def
  <2> QED
    BY <1>9, <1>10
<1>12. g[{}] = NoChunks
  BY <1>11
<1>13. ASSUME NEW k \in 0 .. n - 1
       PROVE  g[1 .. k + 1] = AddLine(g[1 .. k], k + 1, lines, b)
  <2>1. /\ 1 .. k + 1 \in SUBSET (1 .. n) /\ 1 .. k + 1 # {}
        /\ Max(1 .. k + 1) = k + 1 /\ (1 .. k + 1) \ {k + 1} = 1 .. k
    <3> HIDE DEF n
    <3> QED
      BY <1>1, Intervals
  <2>2. g[1 .. k + 1] = AddLine(g[(1 .. k + 1) \ {Max(1 .. k + 1)}], Numbered(lines)[Max(1 .. k + 1)], lines, b)
    BY <1>2, <1>11, <2>1
  <2>3. k + 1 \in 1 .. n
    BY <1>1
  <2>4. Numbered(lines)[k + 1] = k + 1
    BY <1>2, <2>3
  <2> QED
    BY <2>1, <2>2, <2>4
<1>14. PICK h : h = [k \in 0 .. n |-> g[1 .. k]]
  OBVIOUS
<1>15. h[0] = NoChunks
  <2>1. 1 .. 0 = {} /\ 0 \in 0 .. n
    BY <1>1
  <2> QED
    BY <1>12, <1>14, <2>1
<1>16. \A k \in 0 .. n - 1 : h[k + 1] = AddLine(h[k], k + 1, lines, b)
  <2> SUFFICES ASSUME NEW k \in 0 .. n - 1
               PROVE  h[k + 1] = AddLine(h[k], k + 1, lines, b)
    OBVIOUS
  <2>1. k \in 0 .. n /\ k + 1 \in 0 .. n
    BY <1>1
  <2> QED
    BY <1>13, <1>14, <2>1
<1>17. chunkText(lines, b) = Flushed(h[n]).done
  <2>1. h[n] = g[DOMAIN Numbered(lines)]
    <3>1. n \in 0 .. n
      BY <1>1
    <3> QED
      BY <1>2, <1>14, <3>1
  <2> HIDE DEF Def
  <2> QED
    BY <1>3, <1>10, <2>1
<1> QED
  BY <1>15, <1>16, <1>17

\* The chunks are the lines, none of them over the budget.
LEMMA ChunksAre ==
  ASSUME NEW lines \in Seq(Nat), NEW b \in Nat \ {0}, NEW chunks, chunks = chunkText(lines, b)
  PROVE  /\ Whole(chunks) = FlattenSeq(Texts(lines))
         /\ \A k \in DOMAIN chunks : Len(FlattenSeq(chunks[k])) <= b
<1>1. PICK n : n = Len(lines)
  OBVIOUS
<1>2. n \in Nat /\ DOMAIN lines = 1 .. n /\ \A i \in 1 .. n : lines[i] \in Nat
  BY <1>1, LenProperties, ElementOfSeq
<1>3. PICK h : /\ h[0] = NoChunks
               /\ \A k \in 0 .. n - 1 : h[k + 1] = AddLine(h[k], k + 1, lines, b)
               /\ chunks = Flushed(h[n]).done
  BY <1>1, ChunkTextFolds
<1>4. PICK t : t = Texts(lines)
  OBVIOUS
<1>5. DOMAIN t = 1 .. n /\ \A i \in 1 .. n : t[i] = TokensOf(i, lines[i]) /\ t[i] \in Seq(LineTokens)
  <2>1. t = [i \in 1 .. n |-> TokensOf(i, lines[i])]
    BY <1>2, <1>4 DEF Texts
  <2>2. \A i \in 1 .. n : TokensOf(i, lines[i]) \in Seq(LineTokens)
    <3> SUFFICES ASSUME NEW i \in 1 .. n  PROVE TokensOf(i, lines[i]) \in Seq(LineTokens)
      OBVIOUS
    <3>1. i \in Nat /\ lines[i] \in Nat
      BY <1>2
    <3> QED
      BY <3>1, LineType
  <2> QED
    BY <2>1, <2>2
<1>6. t \in Seq(Seq(LineTokens)) /\ Len(t) = n
  <2>1. t = [i \in 1 .. n |-> t[i]]
    BY <1>2, <1>4 DEF Texts
  <2>2. t \in [1 .. n -> Seq(LineTokens)]
    BY <1>5, <2>1
  <2>3. t \in Seq(Seq(LineTokens))
    BY <1>2, <2>2
  <2> QED
    BY <1>2, <1>5, <2>3, LenProperties
<1>7. PICK j : Flattens(j, t) /\ FlattenSeq(t) = j[n]
  <2>1. \E j \in [0 .. Len(t) -> Seq(LineTokens)] : Flattens(j, t) /\ FlattenSeq(t) = j[Len(t)]
    BY <1>6, FlattenUnfolds
  <2> QED
    BY <1>6, <2>1
<1>8. j[0] = <<>> /\ \A k \in 0 .. n - 1 : j[k + 1] = j[k] \o t[k + 1]
  BY <1>6, <1>7 DEF Flattens
<1> DEFINE C == {k \in 0 .. n : Holds(h[k], j[k], b)}
<1>9. 0 \in C
  <2>1. Holds(h[0], j[0], b)
    BY <1>3, <1>8, NoChunksHold
  <2>2. 0 \in 0 .. n
    BY <1>2
  <2> QED
    BY <2>1, <2>2
<1>10. ASSUME NEW k \in 0 .. n - 1, k \in C  PROVE k + 1 \in C
  <2>1. PICK c : c = h[k]
    OBVIOUS
  <2>2. PICK text : text = j[k]
    OBVIOUS
  <2>3. Holds(c, text, b)
    BY <1>10, <2>1, <2>2
  <2>4. PICK i : i = k + 1
    OBVIOUS
  <2>5. i \in Nat /\ i \in 1 .. n /\ i \in 0 .. n /\ lines[i] \in Nat
    BY <1>2, <2>4
  <2>6. Holds(AddLine(c, i, lines, b), text \o TokensOf(i, lines[i]), b)
    BY <2>3, <2>5, LineAdded
  <2>7. h[i] = AddLine(c, i, lines, b)
    BY <1>3, <2>1, <2>4
  <2>8. j[i] = text \o TokensOf(i, lines[i])
    BY <1>5, <1>8, <2>2, <2>4, <2>5
  <2>9. Holds(h[i], j[i], b)
    BY <2>6, <2>7, <2>8
  <2> QED
    BY <2>4, <2>5, <2>9
<1>11. Holds(h[n], j[n], b)
  <2>1. 0 .. n \subseteq C
    <3> HIDE DEF C
    <3> QED
      BY <1>2, <1>9, <1>10, CountingUp
  <2>2. n \in 0 .. n
    BY <1>2
  <2> QED
    BY <2>1, <2>2
<1>12. PICK f : f = Flushed(h[n])
  OBVIOUS
<1>13. Holds(f, j[n], b) /\ Whole(f.done) = j[n]
  BY <1>11, <1>12, FlushedHolds
<1>14. f.done \in Seq(Seq(Seq(LineTokens))) /\ \A k \in 1 .. Len(f.done) : Len(FlattenSeq(f.done[k])) <= b
  BY <1>13 DEF Holds, ChunkStates
<1>15. DOMAIN f.done = 1 .. Len(f.done)
  BY <1>14, LenProperties
<1> QED
  BY <1>3, <1>4, <1>7, <1>12, <1>13, <1>14, <1>15

-----------------------------------------------------------------------------
(* PromptContext: what a prompt keeps of the constraints. *)

PromptTokens == (Constraints \cup {"MUST FOLLOW", "override", "..."}) \X Nat

\* Cut to its budget, a text still begins as it did.
LEMMA FitKeeps ==
  ASSUME NEW text \in Seq(PromptTokens), NEW b \in Nat, b >= 4, NEW fit, fit = fitText(text, b)
  PROVE  /\ Len(fit) <= b /\ fit \in Seq(PromptTokens)
         /\ Len(text) <= b => fit = text
         /\ Len(text) >= 2 => Len(fit) >= 2 /\ fit[2] = text[2]
<1>1. PICK L : L = Len(text)
  OBVIOUS
<1>2. L \in Nat /\ \A i \in 1 .. L : text[i] \in PromptTokens
  BY <1>1, LenProperties, ElementOfSeq
<1>3. CASE L <= b
  <2>1. fit = text
    BY <1>1, <1>3 DEF fitText
  <2> QED
    BY <1>1, <1>3, <2>1
<1>4. CASE L > b
  <2>1. PICK head : head = Halves(b - 1)
    OBVIOUS
  <2>2. head \in Nat /\ head >= 2 /\ head <= b - 1
    BY <2>1 DEF Halves
  <2>3. PICK front : front = SubSeq(text, 1, head)
    OBVIOUS
  <2>4. PICK back : back = SubSeq(text, L - ((b - 1) - head) + 1, L)
    OBVIOUS
  <2>5. PICK mark : mark = Marker
    OBVIOUS
  <2>6. front \in Seq(PromptTokens) /\ Len(front) = head /\ front[2] = text[2]
    <3>1. \A i \in 1 .. head : text[i] \in PromptTokens
      BY <1>2, <1>4, <2>2
    <3>2. 1 \in Int /\ head \in Int
      BY <2>2
    <3>3. /\ SubSeq(text, 1, head) \in Seq(PromptTokens)
          /\ Len(SubSeq(text, 1, head)) = IF 1 <= head THEN head - 1 + 1 ELSE 0
          /\ \A i \in 1 .. head - 1 + 1 : SubSeq(text, 1, head)[i] = text[1 + i - 1]
      BY ONLY <3>1, <3>2, SubSeqProperties
    <3>4. 2 \in 1 .. head - 1 + 1 /\ 1 + 2 - 1 = 2
      BY <2>2
    <3> QED
      BY <2>2, <2>3, <3>3, <3>4
  <2>7. back \in Seq(PromptTokens) /\ Len(back) = (b - 1) - head
    <3>1. PICK from : from = L - ((b - 1) - head) + 1
      OBVIOUS
    <3>2. from \in Int /\ L \in Int /\ from >= 1
      BY <1>2, <1>4, <2>2, <3>1
    <3>3. \A i \in from .. L : text[i] \in PromptTokens
      BY <1>2, <3>2
    <3>4. /\ SubSeq(text, from, L) \in Seq(PromptTokens)
          /\ Len(SubSeq(text, from, L)) = IF from <= L THEN L - from + 1 ELSE 0
      BY ONLY <3>2, <3>3, SubSeqProperties
    <3> QED
      BY <1>2, <1>4, <2>2, <2>4, <3>1, <3>4
  <2>8. mark \in Seq(PromptTokens) /\ Len(mark) = 1
    <3>1. <<"...", 1>> \in PromptTokens
      BY DEF PromptTokens
    <3> QED
      BY <2>5, <3>1 DEF Marker
  <2>9. PICK f : f = front \o mark
    OBVIOUS
  <2>10. f \in Seq(PromptTokens) /\ Len(f) = head + 1 /\ f[2] = text[2]
    <3>1. /\ front \o mark \in Seq(PromptTokens) /\ Len(front \o mark) = Len(front) + Len(mark)
          /\ \A i \in 1 .. Len(front) + Len(mark) :
               (front \o mark)[i] = IF i <= Len(front) THEN front[i] ELSE mark[i - Len(front)]
      BY ONLY <2>6, <2>8, ConcatProperties
    <3> QED
      BY <2>2, <2>6, <2>8, <2>9, <3>1
  <2>11. PICK whole : whole = f \o back
    OBVIOUS
  <2>12. whole \in Seq(PromptTokens) /\ Len(whole) = b /\ whole[2] = text[2]
    <3>1. /\ f \o back \in Seq(PromptTokens) /\ Len(f \o back) = Len(f) + Len(back)
          /\ \A i \in 1 .. Len(f) + Len(back) :
               (f \o back)[i] = IF i <= Len(f) THEN f[i] ELSE back[i - Len(f)]
      BY ONLY <2>7, <2>10, ConcatProperties
    <3> QED
      BY <2>2, <2>7, <2>10, <2>11, <3>1
  <2>13. fit = SubSeq(whole, 1, IF Len(whole) > b THEN b ELSE Len(whole))
    <3>1. b > 1
      OBVIOUS
    <3>2. ~(Len(text) <= b)
      BY <1>1, <1>2, <1>4
    <3> QED
      BY <1>1, <2>1, <2>3, <2>4, <2>5, <2>9, <2>11, <3>1, <3>2 DEF fitText
  <2>14. fit = whole
    <3>1. fit = SubSeq(whole, 1, Len(whole))
      BY <2>12, <2>13
    <3> QED
      BY <2>12, <3>1, SubSeqFull
  <2> QED
    BY <1>1, <1>4, <2>12, <2>14
<1> QED
  BY <1>2, <1>3, <1>4

\* An order of a set has all of it, each once.
LEMMA OrdersAre ==
  ASSUME NEW D, IsFiniteSet(D), NEW s \in SetToSeqs(D)
  PROVE  /\ s \in Seq(D) /\ Len(s) = Cardinality(D) /\ Len(s) \in Nat
         /\ \A c \in D : \E i \in 1 .. Len(s) : s[i] = c
         /\ \A i, j \in 1 .. Len(s) : s[i] = s[j] => i = j
<1>1. PICK n : n = Cardinality(D)
  OBVIOUS
<1>2. n \in Nat
  BY <1>1, FS_CardinalityType
<1>3. s \in [1 .. n -> D] /\ \A i, j \in 1 .. n : i # j => s[i] # s[j]
  BY <1>1 DEF SetToSeqs
<1>4. s \in Seq(D)
  BY <1>2, <1>3
<1>5. Len(s) = n
  BY <1>2, <1>3, <1>4, LenProperties
<1>6. s \in Injection(1 .. n, D)
  BY <1>3 DEF Injection, IsInjective
<1>7. Cardinality(1 .. n) = n
  BY <1>2, FS_Interval
<1>8. s \in Surjection(1 .. n, D)
  BY <1>1, <1>6, <1>7, FS_Injection
<1>9. \A c \in D : \E i \in 1 .. n : s[i] = c
  BY <1>8 DEF Surjection
<1> QED
  BY <1>1, <1>2, <1>3, <1>4, <1>5, <1>9

\* A constraint has as many tokens as its size says.
LEMMA TokensCount ==
  ASSUME NEW c, NEW n \in Nat, NEW t, t = TokensOf(c, n)
  PROVE  /\ IsFiniteSet(ToSet(t)) /\ Cardinality(ToSet(t)) = n
         /\ ToSet(t) = {<<c, i>> : i \in 1 .. n}
<1>1. t = [i \in 1 .. n |-> <<c, i>>]
  BY DEF TokensOf
<1>2. ToSet(t) = {<<c, i>> : i \in 1 .. n}
  BY <1>1 DEF ToSet
<1>3. PICK E : E = ToSet(t)
  OBVIOUS
<1>4. t \in [1 .. n -> E] /\ \A i, j \in 1 .. n : t[i] = t[j] => i = j
  BY <1>1, <1>2, <1>3
<1>5. \A e \in E : \E i \in 1 .. n : t[i] = e
  BY <1>1, <1>2, <1>3
<1>6. t \in Bijection(1 .. n, E)
  BY <1>4, <1>5 DEF Bijection, Injection, IsInjective, Surjection
<1>7. ExistsBijection(1 .. n, E)
  BY <1>6 DEF ExistsBijection
<1>8. IsFiniteSet(1 .. n) /\ Cardinality(1 .. n) = n
  BY FS_Interval
<1> QED
  BY <1>2, <1>3, <1>7, <1>8, FS_Bijection

OrderTexts(orgs, s) == [i \in DOMAIN s |-> TokensOf(s[i], orgs[s[i]].size)]
AllTokens(orgs) == UNION {ToSet(TokensOf(c, orgs[c].size)) : c \in DOMAIN orgs}
OrgTypes(orgs) ==
  /\ IsFiniteSet(DOMAIN orgs) /\ DOMAIN orgs \subseteq Constraints
  /\ \A c \in DOMAIN orgs : orgs[c].size \in Nat \ {0} /\ orgs[c].priority \in Int

EachOnce(t) == IsFiniteSet(ToSet(t)) /\ Cardinality(ToSet(t)) = Len(t)
AddsUp(u, t, v, T) == v \in Seq(T) /\ ToSet(v) = ToSet(u) \cup ToSet(t) /\ EachOnce(v)
Apart(t, u) == ToSet(t) \cap ToSet(u) = {}

\* What one text more adds to the set of tokens, when it is none of the others'.
LEMMA TokensAdd ==
  ASSUME NEW T, NEW u \in Seq(T), NEW t \in Seq(T), NEW v, v = u \o t,
         EachOnce(u), EachOnce(t), Apart(u, t)
  PROVE  AddsUp(u, t, v, T)
<1>1. /\ v \in Seq(T) /\ Len(v) = Len(u) + Len(t)
      /\ \A i \in 1 .. Len(u) + Len(t) : v[i] = IF i <= Len(u) THEN u[i] ELSE t[i - Len(u)]
  BY ConcatProperties
<1>2. Len(u) \in Nat /\ Len(t) \in Nat /\ DOMAIN u = 1 .. Len(u) /\ DOMAIN t = 1 .. Len(t)
  BY LenProperties
<1>3. DOMAIN v = 1 .. Len(u) + Len(t)
  BY <1>1, LenProperties
<1>4. ToSet(v) \subseteq ToSet(u) \cup ToSet(t)
  <2> SUFFICES ASSUME NEW i \in 1 .. Len(u) + Len(t)  PROVE v[i] \in ToSet(u) \cup ToSet(t)
    BY <1>3 DEF ToSet
  <2>1. CASE i <= Len(u)
    <3>1. i \in DOMAIN u /\ v[i] = u[i]
      BY <1>1, <1>2, <2>1
    <3> QED
      BY <3>1 DEF ToSet
  <2>2. CASE ~(i <= Len(u))
    <3>1. i - Len(u) \in DOMAIN t /\ v[i] = t[i - Len(u)]
      BY <1>1, <1>2, <2>2
    <3> QED
      BY <3>1 DEF ToSet
  <2> QED
    BY <2>1, <2>2
<1>5. ToSet(u) \subseteq ToSet(v)
  <2> SUFFICES ASSUME NEW i \in 1 .. Len(u)  PROVE u[i] \in ToSet(v)
    BY <1>2 DEF ToSet
  <2>1. i \in DOMAIN v /\ v[i] = u[i]
    BY <1>1, <1>2, <1>3
  <2> QED
    BY <2>1 DEF ToSet
<1>6. ToSet(t) \subseteq ToSet(v)
  <2> SUFFICES ASSUME NEW i \in 1 .. Len(t)  PROVE t[i] \in ToSet(v)
    BY <1>2 DEF ToSet
  <2>1. Len(u) + i \in 1 .. Len(u) + Len(t) /\ ~(Len(u) + i <= Len(u)) /\ (Len(u) + i) - Len(u) = i
    BY <1>2
  <2>2. Len(u) + i \in DOMAIN v /\ v[Len(u) + i] = t[i]
    BY <1>1, <1>3, <2>1
  <2> QED
    BY <2>2 DEF ToSet
<1>7. PICK A : A = ToSet(u)
  OBVIOUS
<1>8. PICK B : B = ToSet(t)
  OBVIOUS
<1>9. PICK E : E = ToSet(v)
  OBVIOUS
<1>10. E = A \cup B
  BY <1>4, <1>5, <1>6, <1>7, <1>8, <1>9
<1>11. IsFiniteSet(A) /\ IsFiniteSet(B) /\ Cardinality(A) = Len(u) /\ Cardinality(B) = Len(t) /\ A \cap B = {}
  BY <1>7, <1>8 DEF EachOnce, Apart
<1>12. /\ IsFiniteSet(A \cup B)
       /\ Cardinality(A \cup B) = Cardinality(A) + Cardinality(B) - Cardinality(A \cap B)
  BY <1>11, FS_Union
<1>13. Cardinality(A \cap B) = 0
  <2>1. Cardinality({}) = 0
    BY FS_EmptySet
  <2> QED
    BY <1>11, <2>1, Zenon
<1>14. IsFiniteSet(E) /\ Cardinality(E) = Cardinality(A \cup B)
  BY <1>10, <1>12, Zenon
<1>15. Cardinality(E) = Len(v)
  BY <1>1, <1>2, <1>11, <1>12, <1>13, <1>14
<1> QED
  BY <1>1, <1>7, <1>8, <1>9, <1>10, <1>14, <1>15 DEF EachOnce, AddsUp

\* All the tokens of the constraints, each once, and those of the first one first.
LEMMA TextsCount ==
  ASSUME NEW orgs, OrgTypes(orgs), NEW s \in SetToSeqs(DOMAIN orgs),
         NEW f, f = FlattenSeq(OrderTexts(orgs, s))
  PROVE  /\ f \in Seq(PromptTokens) /\ Len(f) = Cardinality(AllTokens(orgs))
         /\ ToSet(f) = AllTokens(orgs)
         /\ s # <<>> => Len(f) >= 1 /\ f[1] = <<s[1], 1>>
<1>1. PICK D : D = DOMAIN orgs
  OBVIOUS
<1>2. IsFiniteSet(D) /\ D \subseteq Constraints /\ \A c \in D : orgs[c].size \in Nat \ {0}
  BY <1>1 DEF OrgTypes
<1>3. PICK n : n = Len(s)
  OBVIOUS
<1>4. /\ s \in Seq(D) /\ n \in Nat
      /\ \A c \in D : \E i \in 1 .. n : s[i] = c
      /\ \A i, j \in 1 .. n : s[i] = s[j] => i = j
  BY <1>1, <1>2, <1>3, OrdersAre
<1>5. DOMAIN s = 1 .. n /\ \A i \in 1 .. n : s[i] \in D
  BY <1>3, <1>4, LenProperties, ElementOfSeq
<1>6. PICK t : t = OrderTexts(orgs, s)
  OBVIOUS
<1>7. t = [i \in 1 .. n |-> TokensOf(s[i], orgs[s[i]].size)]
  BY <1>5, <1>6 DEF OrderTexts
<1>8. ASSUME NEW i \in 1 .. n
      PROVE  /\ t[i] \in Seq(PromptTokens) /\ Len(t[i]) >= 1 /\ t[i][1] = <<s[i], 1>>
             /\ EachOnce(t[i])
             /\ \A e \in ToSet(t[i]) : e[1] = s[i]
             /\ ToSet(t[i]) = ToSet(TokensOf(s[i], orgs[s[i]].size))
  <2>1. PICK m : m = orgs[s[i]].size
    OBVIOUS
  <2>2. m \in Nat /\ m >= 1 /\ s[i] \in Constraints
    BY <1>2, <1>5, <2>1
  <2>3. PICK x : x = TokensOf(s[i], m)
    OBVIOUS
  <2>4. t[i] = x
    BY <1>7, <2>1, <2>3
  <2>5. x = [j \in 1 .. m |-> <<s[i], j>>]
    BY <2>3 DEF TokensOf
  <2>6. x \in [1 .. m -> PromptTokens]
    <3>1. \A j \in 1 .. m : j \in Nat
      BY <2>2
    <3>2. PICK c : c = s[i]
      OBVIOUS
    <3>3. \A j \in Nat : <<c, j>> \in PromptTokens
      BY <2>2, <3>2 DEF PromptTokens
    <3> QED
      BY <2>5, <3>1, <3>2, <3>3
  <2>7. x \in Seq(PromptTokens)
    BY <2>2, <2>6
  <2>8. Len(x) = m
    BY <2>2, <2>6, <2>7, LenProperties
  <2>9. x[1] = <<s[i], 1>>
    BY <2>2, <2>5
  <2>10. IsFiniteSet(ToSet(x)) /\ Cardinality(ToSet(x)) = m /\ ToSet(x) = {<<s[i], j>> : j \in 1 .. m}
    BY <2>2, <2>3, TokensCount
  <2>11. \A e \in ToSet(x) : e[1] = s[i]
    BY <2>10
  <2> QED
    BY <2>1, <2>2, <2>3, <2>4, <2>7, <2>8, <2>9, <2>10, <2>11 DEF EachOnce
<1>9. t \in Seq(Seq(PromptTokens)) /\ Len(t) = n
  <2>1. t \in [1 .. n -> Seq(PromptTokens)]
    BY <1>7, <1>8
  <2>2. t \in Seq(Seq(PromptTokens))
    BY <1>4, <2>1
  <2> QED
    BY <1>4, <2>1, <2>2, LenProperties
<1>10. PICK h \in [0 .. n -> Seq(PromptTokens)] : Flattens(h, t) /\ f = h[n]
  <2>1. \E h \in [0 .. Len(t) -> Seq(PromptTokens)] : Flattens(h, t) /\ FlattenSeq(t) = h[Len(t)]
    BY <1>9, FlattenUnfolds
  <2> QED
    BY <1>6, <1>9, <2>1
<1>11. h[0] = <<>> /\ \A k \in 0 .. n - 1 : h[k + 1] = h[k] \o t[k + 1]
  BY <1>9, <1>10 DEF Flattens
<1> DEFINE Good(k) ==
             /\ EachOnce(h[k])
             /\ ToSet(h[k]) = UNION {ToSet(t[i]) : i \in 1 .. k}
             /\ k # 0 => Len(h[k]) >= 1 /\ h[k][1] = <<s[1], 1>>
           C == {k \in 0 .. n : Good(k)}
<1>12. 0 \in C
  <2>1. ToSet(h[0]) = {}
    BY <1>11 DEF ToSet
  <2>2. Len(h[0]) = 0
    BY <1>11
  <2>3. IsFiniteSet({}) /\ Cardinality({}) = 0
    BY FS_EmptySet
  <2>4. Cardinality(ToSet(h[0])) = 0 /\ IsFiniteSet(ToSet(h[0]))
    BY <2>1, <2>3, Zenon
  <2>5. UNION {ToSet(t[i]) : i \in 1 .. 0} = {}
    OBVIOUS
  <2>6. 0 \in 0 .. n
    BY <1>4
  <2>7. Cardinality(ToSet(h[0])) = Len(h[0])
    BY <2>2, <2>4
  <2>8. ToSet(h[0]) = UNION {ToSet(t[i]) : i \in 1 .. 0}
    BY <2>1, <2>5
  <2>9. Good(0)
    BY <2>4, <2>7, <2>8, Zenon DEF EachOnce
  <2> HIDE DEF Good
  <2> QED
    BY <2>6, <2>9
<1>13. ASSUME NEW k \in 0 .. n - 1, k \in C  PROVE k + 1 \in C
  <2>1. /\ EachOnce(h[k]) /\ ToSet(h[k]) = UNION {ToSet(t[i]) : i \in 1 .. k}
        /\ k # 0 => Len(h[k]) >= 1 /\ h[k][1] = <<s[1], 1>>
    BY <1>13
  <2> HIDE DEF C
  <2>2. PICK u : u = h[k]
    OBVIOUS
  <2>3. PICK x : x = t[k + 1]
    OBVIOUS
  <2>4. PICK v : v = h[k + 1]
    OBVIOUS
  <2>5. k + 1 \in 1 .. n /\ k + 1 \in 0 .. n /\ k \in 0 .. n /\ k \in Nat
    BY <1>4
  <2>6. v = u \o x
    BY <1>11, <2>2, <2>3, <2>4
  <2>7. u \in Seq(PromptTokens) /\ x \in Seq(PromptTokens)
    BY <1>8, <1>10, <2>2, <2>3, <2>5
  <2>8. EachOnce(u)
    BY <2>1, <2>2
  <2>9. EachOnce(x)
    BY <1>8, <2>3, <2>5
  <2>10. Apart(u, x)
    <3> SUFFICES ASSUME NEW e \in ToSet(u), e \in ToSet(x)  PROVE FALSE
      BY DEF Apart
    <3>1. e[1] = s[k + 1]
      BY <1>8, <2>3, <2>5
    <3>2. PICK i \in 1 .. k : e \in ToSet(t[i])
      BY <2>1, <2>2
    <3>3. i \in 1 .. n /\ i # k + 1
      BY <1>4, <2>5
    <3>4. e[1] = s[i]
      BY <1>8, <3>2, <3>3
    <3> QED
      BY <1>4, <2>5, <3>1, <3>3, <3>4
  <2>11. v \in Seq(PromptTokens) /\ ToSet(v) = ToSet(u) \cup ToSet(x) /\ EachOnce(v)
    <3>1. AddsUp(u, x, v, PromptTokens)
      BY <2>6, <2>7, <2>8, <2>9, <2>10, TokensAdd
    <3> QED
      BY <3>1 DEF AddsUp
  <2>12. ToSet(v) = UNION {ToSet(t[i]) : i \in 1 .. k + 1}
    <3>1. 1 .. k + 1 = 1 .. k \cup {k + 1}
      BY <2>5
    <3>2. ToSet(u) = UNION {ToSet(t[i]) : i \in 1 .. k}
      BY <2>1, <2>2
    <3> QED
      BY <2>3, <2>11, <3>1, <3>2
  <2>13. Len(v) >= 1 /\ v[1] = <<s[1], 1>>
    <3>1. /\ Len(v) = Len(u) + Len(x)
          /\ \A i \in 1 .. Len(u) + Len(x) : v[i] = IF i <= Len(u) THEN u[i] ELSE x[i - Len(u)]
      BY <2>6, <2>7, ConcatProperties
    <3>2. Len(u) \in Nat /\ Len(x) \in Nat /\ Len(x) >= 1 /\ x[1] = <<s[k + 1], 1>>
      BY <1>8, <2>3, <2>5, <2>7, LenProperties
    <3>3. CASE k = 0
      <4>1. Len(u) = 0
        BY <1>11, <2>2, <3>3
      <4> QED
        BY <3>1, <3>2, <3>3, <4>1
    <3>4. CASE k # 0
      <4>1. Len(u) >= 1 /\ u[1] = <<s[1], 1>>
        BY <2>1, <2>2, <3>4
      <4> QED
        BY <3>1, <3>2, <4>1
    <3> QED
      BY <3>3, <3>4
  <2>14. Good(k + 1)
    BY <2>4, <2>11, <2>12, <2>13
  <2> QED
    BY <2>5, <2>14 DEF C
<1>14. Good(n)
  <2>1. 0 .. n \subseteq C
    <3> HIDE DEF C
    <3> QED
      BY <1>4, <1>12, <1>13, CountingUp
  <2>2. n \in 0 .. n
    BY <1>4
  <2> QED
    BY <2>1, <2>2
<1>15. UNION {ToSet(t[i]) : i \in 1 .. n} = AllTokens(orgs)
  <2>1. UNION {ToSet(t[i]) : i \in 1 .. n} \subseteq UNION {ToSet(TokensOf(c, orgs[c].size)) : c \in D}
    BY <1>5, <1>8
  <2>2. UNION {ToSet(TokensOf(c, orgs[c].size)) : c \in D} \subseteq UNION {ToSet(t[i]) : i \in 1 .. n}
    <3> SUFFICES ASSUME NEW c \in D, NEW e \in ToSet(TokensOf(c, orgs[c].size))
                 PROVE  \E i \in 1 .. n : e \in ToSet(t[i])
      OBVIOUS
    <3>1. PICK i \in 1 .. n : s[i] = c
      BY <1>4
    <3> QED
      BY <1>8, <3>1
  <2> QED
    BY <1>1, <2>1, <2>2 DEF AllTokens
<1>16. ToSet(f) = AllTokens(orgs)
  BY <1>10, <1>14, <1>15
<1>17. Len(f) = Cardinality(AllTokens(orgs))
  <2>1. Cardinality(ToSet(f)) = Cardinality(AllTokens(orgs))
    BY <1>16, Zenon
  <2>2. Cardinality(ToSet(f)) = Len(f)
    BY <1>10, <1>14 DEF EachOnce
  <2> QED
    BY <2>1, <2>2
<1>18. s # <<>> => n >= 1
  BY <1>3, <1>4, EmptySeq
<1>19. f \in Seq(PromptTokens)
  <2>1. n \in 0 .. n
    BY <1>4
  <2> QED
    BY <1>10, <2>1
<1> QED
  BY <1>10, <1>14, <1>16, <1>17, <1>18, <1>19

\* A prompt that is built is built of the draft.
BuiltOf(s) == << [orgs |-> formatPrompt(s), chunks |-> chunkText(draft.lines, ChunkBudget)] >>
PromptInv ==
  /\ OrgTypes(draft.orgs) /\ draft.lines \in Seq(Nat)
  /\ built = NotBuilt \/ \E s \in Loaded : built = BuiltOf(s)

LEMMA DraftsAre == draft \in Drafts => OrgTypes(draft.orgs) /\ draft.lines \in Seq(Nat)
<1> USE PromptAssumption
<1>1. CASE draft.lines = <<>> /\ \E C \in SUBSET Constraints :
                 draft.orgs \in [C -> [priority : Priorities, size : 1 .. MaxLineTokens]]
  <2>1. PICK C \in SUBSET Constraints :
               draft.orgs \in [C -> [priority : Priorities, size : 1 .. MaxLineTokens]]
    BY <1>1
  <2>2. DOMAIN draft.orgs = C /\ \A c \in C : draft.orgs[c].size \in 1 .. MaxLineTokens
    BY <2>1
  <2>3. IsFiniteSet(C)
    BY <2>1, FS_Subset
  <2>4. IsFiniteSet(DOMAIN draft.orgs)
    BY <2>2, <2>3, Zenon
  <2>5. \A c \in C : draft.orgs[c].size \in Nat \ {0} /\ draft.orgs[c].priority \in Int
    <3> SUFFICES ASSUME NEW c \in C
                 PROVE  draft.orgs[c].size \in Nat \ {0} /\ draft.orgs[c].priority \in Int
      OBVIOUS
    <3>1. draft.orgs[c] \in [priority : Priorities, size : 1 .. MaxLineTokens]
      BY <2>1
    <3>2. draft.orgs[c].priority \in Priorities /\ draft.orgs[c].size \in 1 .. MaxLineTokens
      BY <3>1
    <3>3. draft.orgs[c].size \in Nat \ {0}
      BY <3>2
    <3>4. Priorities \subseteq Int
      OBVIOUS
    <3>5. draft.orgs[c].priority \in Int
      BY ONLY <3>2, <3>4
    <3> QED
      BY <3>3, <3>5
  <2>6. OrgTypes(draft.orgs)
    BY <2>2, <2>4, <2>5 DEF OrgTypes
  <2>7. <<>> \in Seq(Nat)
    OBVIOUS
  <2> QED
    BY <1>1, <2>6, <2>7
<1>2. CASE draft.orgs = <<>> /\ draft.lines \in BoundedSeq(0 .. MaxLineTokens, MaxLines)
  <2>1. PICK m \in 0 .. MaxLines : draft.lines \in [1 .. m -> 0 .. MaxLineTokens]
    BY <1>2 DEF BoundedSeq, SeqOf
  <2>2. m \in Nat /\ draft.lines \in [1 .. m -> Nat]
    BY <2>1
  <2>3. draft.lines \in Seq(Nat)
    BY <2>2
  <2>4. DOMAIN draft.orgs = {}
    <3>1. DOMAIN <<>> = {}
      OBVIOUS
    <3> QED
      BY <1>2, <3>1
  <2>5. IsFiniteSet({})
    BY FS_EmptySet
  <2>6. IsFiniteSet(DOMAIN draft.orgs)
    BY <2>4, <2>5, Zenon
  <2>7. OrgTypes(draft.orgs)
    BY <2>4, <2>6 DEF OrgTypes
  <2> QED
    BY <2>3, <2>7
<1>3. draft \in Drafts => \/ draft.lines = <<>> /\ \E C \in SUBSET Constraints :
                             draft.orgs \in [C -> [priority : Priorities, size : 1 .. MaxLineTokens]]
                          \/ draft.orgs = <<>> /\ draft.lines \in BoundedSeq(0 .. MaxLineTokens, MaxLines)
  BY DEF Drafts
<1> QED
  BY <1>1, <1>2, <1>3

LEMMA PromptBegins == PromptInit => PromptInv
BY DraftsAre DEF PromptInit, PromptInv

LEMMA PromptBuilds == PromptInv /\ BuildPrompt => PromptInv'
<1> SUFFICES ASSUME PromptInv, BuildPrompt  PROVE PromptInv'
  OBVIOUS
<1>1. PICK s \in Loaded :
        built' = << [orgs |-> formatPrompt(s), chunks |-> chunkText(draft.lines, ChunkBudget)] >>
  BY DEF BuildPrompt
<1>2. draft' = draft
  BY DEF BuildPrompt
<1>3. Loaded' = Loaded
  BY <1>2, Zenon DEF Loaded
<1>4. formatPrompt(s)' = formatPrompt(s)
  BY <1>2, Zenon DEF formatPrompt
<1>5. chunkText(draft.lines, ChunkBudget)' = chunkText(draft.lines, ChunkBudget)
  BY <1>2, Zenon
<1>6. BuiltOf(s)' = BuiltOf(s)
  BY <1>4, <1>5, Zenon DEF BuiltOf
<1>7. built' = BuiltOf(s)' /\ s \in Loaded'
  BY <1>1, <1>3, <1>6, Zenon DEF BuiltOf
<1>8. OrgTypes(draft.orgs)' /\ (draft.lines \in Seq(Nat))'
  BY <1>2, Zenon DEF PromptInv
<1> QED
  BY <1>7, <1>8, Zenon DEF PromptInv

LEMMA PromptStays == PromptInv /\ UNCHANGED promptVars => PromptInv'
<1> SUFFICES ASSUME PromptInv, UNCHANGED promptVars  PROVE PromptInv'
  OBVIOUS
<1>1. draft' = draft /\ built' = built
  BY DEF promptVars
<1> QED
  BY <1>1, Zenon DEF PromptInv, Loaded, BuiltOf, formatPrompt

\* The prompt of an order of the constraints.
LEMMA PromptsKeep ==
  ASSUME OrgTypes(draft.orgs), NEW s \in Loaded, NEW text, text = formatPrompt(s)
  PROVE  /\ Len(text) <= ConstraintBudget
         /\ Cardinality(AllTokens(draft.orgs)) + 2 <= ConstraintBudget =>
              AllTokens(draft.orgs) \subseteq ToSet(text)
         /\ DOMAIN draft.orgs # {} => <<s[1], 1>> \in ToSet(text)
<1> USE PromptAssumption
<1>1. PICK orgs : orgs = draft.orgs
  OBVIOUS
<1>2. PICK D : D = DOMAIN orgs
  OBVIOUS
<1>3. s \in SetToSeqs(DOMAIN orgs)
  BY <1>1 DEF Loaded
<1>4. OrgTypes(orgs)
  BY <1>1
<1>5. IsFiniteSet(D)
  BY <1>2, <1>4 DEF OrgTypes
<1>6. /\ s \in Seq(D) /\ Len(s) = Cardinality(D) /\ Len(s) \in Nat
      /\ \A c \in D : \E i \in 1 .. Len(s) : s[i] = c
  BY <1>2, <1>3, <1>5, OrdersAre
<1>7. PICK f : f = FlattenSeq(OrderTexts(orgs, s))
  OBVIOUS
<1>8. PICK all : all = AllTokens(orgs)
  OBVIOUS
<1>9. /\ f \in Seq(PromptTokens) /\ Len(f) = Cardinality(all) /\ ToSet(f) = all
      /\ s # <<>> => Len(f) >= 1 /\ f[1] = <<s[1], 1>>
  BY <1>3, <1>4, <1>7, <1>8, TextsCount
<1>10. CASE s = <<>>
  <2>1. text = <<>>
    BY <1>10 DEF formatPrompt
  <2>2. Len(s) = 0
    BY <1>10
  <2>3. D = {}
    BY <1>6, <2>2
  <2>4. all = {}
    BY <1>2, <1>8, <2>3 DEF AllTokens
  <2>5. Len(text) <= ConstraintBudget
    <3>1. Len(<<>>) = 0
      OBVIOUS
    <3> QED
      BY <2>1, <3>1
  <2> QED
    BY <1>1, <1>2, <1>8, <2>3, <2>4, <2>5
<1>11. CASE s # <<>>
  <2>1. PICK head : head = HeadingOf
    OBVIOUS
  <2>2. PICK end : end = Closing
    OBVIOUS
  <2>3. head \in Seq(PromptTokens) /\ Len(head) = 1 /\ end \in Seq(PromptTokens) /\ Len(end) = 1
    <3>1. PICK a : a = <<"MUST FOLLOW", 1>>
      OBVIOUS
    <3>2. PICK z : z = <<"override", 1>>
      OBVIOUS
    <3>3. a \in PromptTokens /\ z \in PromptTokens
      BY <3>1, <3>2 DEF PromptTokens
    <3>4. head = <<a>> /\ end = <<z>>
      BY <2>1, <2>2, <3>1, <3>2 DEF HeadingOf, Closing
    <3> QED
      BY <3>3, <3>4
  <2>4. PICK m : m = head \o f
    OBVIOUS
  <2>5. m \in Seq(PromptTokens) /\ Len(m) = 1 + Len(f) /\ Len(f) \in Nat
        /\ \A i \in 1 .. Len(f) : m[i + 1] = f[i]
    <3>1. /\ head \o f \in Seq(PromptTokens) /\ Len(head \o f) = Len(head) + Len(f)
          /\ \A i \in 1 .. Len(head) + Len(f) :
               (head \o f)[i] = IF i <= Len(head) THEN head[i] ELSE f[i - Len(head)]
      BY <1>9, <2>3, ConcatProperties
    <3>2. Len(f) \in Nat
      BY <1>9, LenProperties
    <3>3. \A i \in 1 .. Len(f) : i + 1 \in 1 .. 1 + Len(f) /\ ~(i + 1 <= 1) /\ (i + 1) - 1 = i
      BY <3>2
    <3> QED
      BY <2>3, <2>4, <3>1, <3>2, <3>3
  <2>6. PICK full : full = m \o end
    OBVIOUS
  <2>7. full \in Seq(PromptTokens) /\ Len(full) = Len(f) + 2
        /\ \A i \in 1 .. Len(f) : full[i + 1] = f[i]
    <3>1. /\ m \o end \in Seq(PromptTokens) /\ Len(m \o end) = Len(m) + Len(end)
          /\ \A i \in 1 .. Len(m) + Len(end) :
               (m \o end)[i] = IF i <= Len(m) THEN m[i] ELSE end[i - Len(m)]
      BY <2>3, <2>5, ConcatProperties
    <3>2. \A i \in 1 .. Len(f) : i + 1 \in 1 .. Len(m) + Len(end) /\ i + 1 <= Len(m)
      BY <2>3, <2>5
    <3> QED
      BY <2>3, <2>5, <2>6, <3>1, <3>2
  <2>8. text = fitText(full, ConstraintBudget)
    <3>1. OrderTexts(draft.orgs, s) = [i \in DOMAIN s |-> TokensOf(s[i], draft.orgs[s[i]].size)]
      BY Zenon DEF OrderTexts
    <3>2. formatPrompt(s) = fitText(HeadingOf \o FlattenSeq(OrderTexts(draft.orgs, s)) \o Closing, ConstraintBudget)
      BY <1>11, <3>1, Zenon DEF formatPrompt
    <3> QED
      BY <1>1, <1>7, <2>1, <2>2, <2>4, <2>6, <3>2, Zenon
  <2>9. /\ Len(text) <= ConstraintBudget /\ text \in Seq(PromptTokens)
        /\ Len(full) <= ConstraintBudget => text = full
        /\ Len(full) >= 2 => Len(text) >= 2 /\ text[2] = full[2]
    BY <2>7, <2>8, FitKeeps
  <2>10. <<s[1], 1>> \in ToSet(text)
    <3>1. 1 \in 1 .. Len(f) /\ 1 + 1 = 2 /\ Len(full) >= 2
      BY <1>9, <1>11, <2>5, <2>7
    <3>2. full[2] = <<s[1], 1>>
      BY <1>9, <1>11, <2>7, <3>1
    <3>3. DOMAIN text = 1 .. Len(text) /\ Len(text) \in Nat
      BY <2>9, LenProperties
    <3>4. 2 \in DOMAIN text /\ text[2] = <<s[1], 1>>
      BY <2>9, <3>1, <3>2, <3>3
    <3> QED
      BY <3>4 DEF ToSet
  <2>11. ASSUME Cardinality(all) + 2 <= ConstraintBudget  PROVE all \subseteq ToSet(text)
    <3>1. Len(full) <= ConstraintBudget
      BY <1>9, <2>7, <2>11
    <3>2. text = full
      BY <2>9, <3>1
    <3> SUFFICES ASSUME NEW e \in ToSet(f)  PROVE e \in ToSet(full)
      BY <1>9, <3>2
    <3>3. DOMAIN f = 1 .. Len(f)
      BY <1>9, LenProperties
    <3>4. PICK i \in 1 .. Len(f) : e = f[i]
      BY <3>3 DEF ToSet
    <3>5. i + 1 \in 1 .. Len(f) + 2
      BY <2>5
    <3>6. DOMAIN full = 1 .. Len(f) + 2
      BY <2>7, LenProperties
    <3>7. i + 1 \in DOMAIN full /\ full[i + 1] = e
      BY <2>7, <3>4, <3>5, <3>6
    <3> QED
      BY <3>7 DEF ToSet
  <2> QED
    BY <1>1, <1>8, <2>9, <2>10, <2>11
<1> QED
  BY <1>10, <1>11

\* The first of an order by priority is of the highest.
LEMMA FirstIsHighest ==
  ASSUME OrgTypes(draft.orgs), NEW s \in Loaded, DOMAIN draft.orgs # {}
  PROVE  s[1] \in DOMAIN draft.orgs
         /\ \A d \in DOMAIN draft.orgs : draft.orgs[s[1]].priority >= draft.orgs[d].priority
<1>1. PICK D : D = DOMAIN draft.orgs
  OBVIOUS
<1>2. s \in SetToSeqs(D) /\ \A i, j \in DOMAIN s : i < j => draft.orgs[s[i]].priority >= draft.orgs[s[j]].priority
  BY <1>1 DEF Loaded
<1>3. IsFiniteSet(D)
  BY <1>1 DEF OrgTypes
<1>4. s \in Seq(D) /\ Len(s) \in Nat /\ \A c \in D : \E i \in 1 .. Len(s) : s[i] = c
  BY <1>2, <1>3, OrdersAre
<1>5. DOMAIN s = 1 .. Len(s) /\ \A i \in 1 .. Len(s) : s[i] \in D
  BY <1>4, LenProperties, ElementOfSeq
<1>6. 1 \in 1 .. Len(s)
  BY <1>1, <1>4
<1>7. ASSUME NEW d \in D  PROVE draft.orgs[s[1]].priority >= draft.orgs[d].priority
  <2>1. PICK i \in 1 .. Len(s) : s[i] = d
    BY <1>4
  <2>2. CASE i = 1
    <3>1. draft.orgs[d].priority \in Int
      BY <1>1 DEF OrgTypes
    <3> QED
      BY <2>1, <2>2, <3>1
  <2>3. CASE i # 1
    <3>1. 1 < i
      BY <2>3
    <3> QED
      BY <1>2, <1>5, <1>6, <2>1, <3>1
  <2> QED
    BY <2>2, <2>3
<1> QED
  BY <1>1, <1>5, <1>6, <1>7

\* Every prompt that is built keeps what it must, whatever the draft.
LEMMA PromptsAreExact == PromptInv => HighestSurvives /\ ChunksAddUp
<1> USE PromptAssumption
<1> SUFFICES ASSUME PromptInv, built # NotBuilt  PROVE HighestSurvives /\ ChunksAddUp
  BY Zenon DEF HighestSurvives, ChunksAddUp
<1>1. PICK s \in Loaded : built = BuiltOf(s)
  BY DEF PromptInv
<1>2. OrgTypes(draft.orgs) /\ draft.lines \in Seq(Nat)
  BY DEF PromptInv
<1>3. PICK text : text = formatPrompt(s)
  OBVIOUS
<1>4. PICK chunks : chunks = chunkText(draft.lines, ChunkBudget)
  OBVIOUS
<1>5. built = << [orgs |-> text, chunks |-> chunks] >>
  BY <1>1, <1>3, <1>4, Zenon DEF BuiltOf
<1>6. Head(built).orgs = text /\ Head(built).chunks = chunks
  BY <1>5
<1>7. /\ Len(text) <= ConstraintBudget
      /\ Cardinality(AllTokens(draft.orgs)) + 2 <= ConstraintBudget =>
           AllTokens(draft.orgs) \subseteq ToSet(text)
      /\ DOMAIN draft.orgs # {} => <<s[1], 1>> \in ToSet(text)
  BY <1>2, <1>3, PromptsKeep
<1>8. DOMAIN draft.orgs # {} =>
        /\ s[1] \in DOMAIN draft.orgs
        /\ \A d \in DOMAIN draft.orgs : draft.orgs[s[1]].priority >= draft.orgs[d].priority
  BY <1>2, FirstIsHighest
<1>9. HighestSurvives
  BY <1>6, <1>7, <1>8, Zenon DEF HighestSurvives, AllTokens
<1>10. /\ Whole(chunks) = FlattenSeq(Texts(draft.lines))
       /\ \A k \in DOMAIN chunks : Len(FlattenSeq(chunks[k])) <= ChunkBudget
  BY <1>2, <1>4, ChunksAre
<1>11. ChunksAddUp
  BY <1>6, <1>10, Zenon DEF ChunksAddUp, Whole, Joined, Texts
<1> QED
  BY <1>9, <1>11

\* Whatever the constraints and the lines are, the prompt keeps one of the highest
\* priority within its budget, and the chunks are the lines, in order and complete.
THEOREM PromptsStayExact ==
  PromptInit /\ [][BuildPrompt]_promptVars => [](HighestSurvives /\ ChunksAddUp)
<1>1. PromptInv /\ [BuildPrompt]_promptVars => PromptInv'
  BY PromptBuilds, PromptStays
<1> QED
  BY <1>1, PromptBegins, PromptsAreExact, PTL

-----------------------------------------------------------------------------
(* The invariants above that say the types of their states. *)

LEMMA EditsTyped == EditInv => EditTypeOK
<1> SUFFICES ASSUME EditInv  PROVE EditTypeOK
  OBVIOUS
<1>1. /\ file \in Content /\ known \in Content /\ edit \in [Edits -> EditCall]
      /\ landed \subseteq Edits /\ raced \in BOOLEAN
  BY DEF EditInv
<1> QED
  BY <1>1, Zenon DEF EditTypeOK, Content, EditCall

LEMMA RunsTyped == RecordsInv => RecordsTypeOK
<1> SUFFICES ASSUME RecordsInv  PROVE RecordsTypeOK
  OBVIOUS
<1>1. RecordTypes
  BY DEF RecordsInv
<1> QED
  BY <1>1 DEF RecordTypes, RecordsTypeOK, Statuses

LEMMA BrainTyped == BrainInv => BrainTypeOK
<1> SUFFICES ASSUME BrainInv  PROVE BrainTypeOK
  OBVIOUS
<1>1. BrainTypes
  BY DEF BrainInv
<1>2. brain.stage \in Stages /\ brain.route \in {"none", "low", "high"} /\ brain.fallback \in BOOLEAN
  BY <1>1 DEF BrainTypes
<1> QED
  BY <1>1, <1>2 DEF BrainTypes, BrainTypeOK, Stages

LEMMA ChatTyped == ChatInv => ChatTypeOK
<1> SUFFICES ASSUME ChatInv  PROVE ChatTypeOK
  OBVIOUS
<1>1. ChatTypes
  BY DEF ChatInv
<1>2. \A c \in Chats : chats[c].owner \in Signers \cup {NoReader}
                       /\ chats[c].rows \subseteq [n : 1..MaxSaid, by : Signers]
  BY <1>1 DEF ChatTypes
<1>3. \A k \in chatCalls : k.at \in {"asked", "answered"} /\ k.by \in Signers
  BY <1>1 DEF ChatTypes, ChatCall
<1> QED
  BY <1>1, <1>2, <1>3, Zenon DEF ChatTypes, ChatTypeOK

LEMMA TurnsTyped == IInv => TurnsTypeOK
<1> SUFFICES ASSUME IInv  PROVE TurnsTypeOK
  OBVIOUS
<1>1. Types
  BY DEF IInv
<1>2. turn \in [at : {"asking", "calling", "waiting", "answered", "failed"},
                index : 1..Len(turnRing),
                round : 0..(IF Kind = "gemini" THEN GeminiRounds ELSE OtherRounds)]
  BY <1>1 DEF Types, TurnRecord, Limit, Kind
<1>3. conversation \in Seq([calls : ModelReplies, results : Seq(CallKinds)])
  BY <1>1 DEF Types, Reply
<1> QED
  BY <1>1, <1>2, <1>3, Zenon DEF Types, TurnsTypeOK

LEMMA GraphTyped == GraphTypes => GraphTypeOK
BY DEF GraphTypes, GraphTypeOK

LEMMA PromptTyped == PromptInv => PromptTypeOK
<1> SUFFICES ASSUME PromptInv  PROVE PromptTypeOK
  OBVIOUS
<1>1. Len(NotBuilt) = 0 /\ \A s : Len(BuiltOf(s)) = 1
  BY DEF NotBuilt, BuiltOf
<1>2. CASE built = NotBuilt
  BY <1>1, <1>2 DEF PromptTypeOK
<1>3. CASE built # NotBuilt
  <2>1. PICK s \in Loaded : built = BuiltOf(s)
    BY <1>3 DEF PromptInv
  <2>2. Len(built) = 1
    BY <1>1, <2>1, Zenon
  <2> QED
    BY <2>2 DEF PromptTypeOK
<1> QED
  BY <1>2, <1>3

LEMMA PrefTyped == PrefInv => PrefTypeOK
<1> SUFFICES ASSUME PrefInv  PROVE PrefTypeOK
  OBVIOUS
<1>1. PrefTypes
  BY DEF PrefInv
<1>2. prefs.ui_theme = prefs["ui_theme"] /\ prefs.workflow = prefs["workflow"]
  OBVIOUS
<1> QED
  BY <1>1, <1>2 DEF PrefTypes, PrefTypeOK
-----------------------------------------------------------------------------
(* ToolServers: the registry, its clients and who waits for them. *)

\* What a refresh holds while it waits for a server.
Asking(f) ==
  /\ refreshing[f].at \in {"idle", "asked", "forgotten", "over"}
  /\ refreshing[f].at = "asked" =>
       /\ refreshing[f].i \in Nat \ {0}
       /\ refreshing[f].name \in Names /\ refreshing[f].listed \subseteq Names

\* The servers are the names that have a client, each its own.
RegistryInv ==
  /\ nameOf \in Namings
  /\ process \in [Registrations -> {"none", "up", "dead"}]
  /\ \A i \in 1 .. Len(servers) : client[servers[i]] # NoClient
  /\ \A n \in Names : client[n] # NoClient => nameOf[client[n]] = n
  /\ serverStatus \in [Names -> {"none", "connected", "error"}]
  /\ \A f \in Refreshers : Asking(f)
  /\ tools \subseteq Names
  /\ DOMAIN toolCall = ToolCalls
  /\ \A c \in ToolCalls : toolCall[c].at \in {"new", "failed", "asked", "answered"}

LEMMA RegistryBegins == ToolServersInit => RegistryInv
<1> SUFFICES ASSUME ToolServersInit  PROVE RegistryInv
  OBVIOUS
<1>1. \A f \in Refreshers : Asking(f)
  BY DEF ToolServersInit, NoRefreshRun, Asking
<1>2. /\ \A i \in 1 .. Len(servers) : client[servers[i]] # NoClient
      /\ \A n \in Names : client[n] = NoClient
      /\ \A c \in ToolCalls : toolCall[c].at = "new"
  BY DEF ToolServersInit
<1>3. /\ process \in [Registrations -> {"none", "up", "dead"}]
      /\ serverStatus \in [Names -> {"none", "connected", "error"}]
      /\ DOMAIN toolCall = ToolCalls
  BY DEF ToolServersInit
<1> QED
  BY <1>1, <1>2, <1>3 DEF ToolServersInit, RegistryInv

LEMMA RegistryTyped == ServersInv /\ RegistryInv => ToolServersTypeOK
<1> SUFFICES ASSUME ServersInv, RegistryInv  PROVE ToolServersTypeOK
  OBVIOUS
<1>1. {servers[i] : i \in 1..Len(servers)} = {n \in Names : client[n] # NoClient}
  BY DEF ServersInv, ServersTypes, Registered, RegistryInv, AllServers, FirstServers
<1> QED
  BY <1>1 DEF ServersInv, ServersTypes, RegistryInv, ToolServersTypeOK, Asking

\* A refresh that goes on asks a server that is there, and lists what it collected.
LEMMA AskingGoes ==
  ASSUME ServersTypes, RegistryInv, NEW f \in Refreshers, NEW i \in Nat \ {0},
         NEW listed \in SUBSET Names, NEW rest \in Seq(Names), NEW clients,
         ListGoes(f, i, listed, rest, clients), UNCHANGED nameOf
  PROVE  (\A r \in Refreshers : Asking(r)') /\ tools' \subseteq Names'
<1>1. Names' = Names
  BY DEF Names
<1>2. \A r \in Refreshers : r # f => refreshing'[r] = refreshing[r]
  BY RefreshGoes
<1>3. CASE rest = <<>>
  <2>1. refreshing'[f].at = "over" /\ tools' = listed
    BY <1>3, RefreshGoes
  <2> QED
    BY <1>1, <1>2, <2>1 DEF RegistryInv, Asking
<1>4. CASE rest # <<>>
  <2>1. /\ refreshing'[f].at = "asked" /\ refreshing'[f].i = i
        /\ refreshing'[f].name = Head(rest)
        /\ refreshing'[f].listed = listed /\ tools' = tools
    BY <1>4, RefreshGoes
  <2>2. Head(rest) \in Names
    BY <1>4
  <2> QED
    BY <1>1, <1>2, <2>1, <2>2 DEF RegistryInv, Asking
<1> QED
  BY <1>3, <1>4

\* One registration, its process and its name, when no refresh moves.
LEMMA ProcessMoves ==
  ASSUME ServersInv, RegistryInv, NEW g \in Registrations,
         registerServer(g) \/ InitializeErrs(g) \/ Dies(g)
  PROVE  RegistryInv'
<1>1. UNCHANGED <<nameOf, servers, client, refreshing, tools, toolCall>> /\ Names' = Names
  BY DEF registerServer, InitializeErrs, Dies, registryVars, Names
<1>2. process' \in [Registrations -> {"none", "up", "dead"}]
  BY DEF registerServer, InitializeErrs, Dies, RegistryInv
<1>3. serverStatus' \in [Names -> {"none", "connected", "error"}]
  BY DEF registerServer, InitializeErrs, Dies, Fails, RegistryInv, registryVars
<1>4. \A f \in Refreshers : Asking(f)'
  BY <1>1 DEF RegistryInv, Asking
<1> QED
  BY <1>1, <1>2, <1>3, <1>4 DEF RegistryInv

LEMMA ServerConnects ==
  ASSUME ServersInv, RegistryInv, NEW g \in Registrations, Initialized(g)
  PROVE  RegistryInv'
<1> DEFINE name == nameOf[g]
           now == IF client[name] = NoClient THEN Append(servers, name) ELSE servers
           clients == [client EXCEPT ![name] = g]
<1>1. /\ UNCHANGED <<nameOf, process, toolCall>> /\ Names' = Names
      /\ servers' = now /\ client' = clients
      /\ serverStatus' = [serverStatus EXCEPT ![name] = "connected"]
      /\ ListGoes(g, 1, {}, now, clients)
  BY DEF Initialized, Names
<1>2. /\ name \in Names /\ servers \in Seq(Names) /\ g # NoClient
      /\ client \in [Names -> Registrations \cup {NoClient}]
  BY ToolServersAssumption DEF Names, ServersInv, ServersTypes
<1>3. /\ client'[name] = g /\ \A n \in Names : n # name => client'[n] = client[n]
  BY <1>1, <1>2
<1>4. /\ now \in Seq(Names)
      /\ \A i \in 1 .. Len(now) : now[i] = name \/ (i \in 1 .. Len(servers) /\ now[i] = servers[i])
  BY <1>2
<1>5. \A i \in 1 .. Len(servers') : client'[servers'[i]] # NoClient
  <2> SUFFICES ASSUME NEW i \in 1 .. Len(now)  PROVE client'[now[i]] # NoClient
    BY <1>1
  <2>1. CASE now[i] = name
    BY <1>2, <1>3, <2>1
  <2>2. CASE now[i] # name
    <3>1. i \in 1 .. Len(servers) /\ now[i] = servers[i] /\ now[i] \in Names
      BY <1>4, <2>2, <1>2
    <3>2. client[servers[i]] # NoClient
      BY <3>1 DEF RegistryInv
    <3> HIDE DEF now
    <3> QED
      BY <1>3, <2>2, <3>1, <3>2
  <2> QED
    BY <2>1, <2>2
<1>6. \A n \in Names : client'[n] # NoClient => nameOf[client'[n]] = n
  BY <1>3 DEF RegistryInv
<1>7. serverStatus' \in [Names -> {"none", "connected", "error"}]
  BY <1>1 DEF RegistryInv
<1>8. (\A r \in Refreshers : Asking(r)') /\ tools' \subseteq Names'
  <2>1. g \in Refreshers /\ ServersTypes /\ {} \in SUBSET Names
    BY DEF Refreshers, ServersInv
  <2> HIDE DEF now, clients
  <2> QED
    BY <1>1, <1>4, <2>1, AskingGoes
<1> QED
  BY <1>1, <1>5, <1>6, <1>7, <1>8 DEF RegistryInv

LEMMA RegistryGoesOn == ServersInv /\ RegistryInv /\ [ToolServersNext]_toolServerVars => RegistryInv'
<1> SUFFICES ASSUME ServersInv, RegistryInv, [ToolServersNext]_toolServerVars  PROVE RegistryInv'
  OBVIOUS
<1>0. ServersTypes /\ servers \in Seq(Names) /\ DOMAIN refreshing = Refreshers
  BY DEF ServersInv, ServersTypes
<1>1. CASE UNCHANGED toolServerVars
  BY <1>1 DEF toolServerVars, RegistryInv, Asking, Names
<1>2. ASSUME NEW f \in Refreshers, ListAnswered(f)  PROVE RegistryInv'
  <2>1. /\ refreshing[f].at = "asked"
        /\ UNCHANGED <<nameOf, process, servers, client, toolCall>> /\ Names' = Names
    BY <1>2 DEF ListAnswered, Names
  <2>2. PICK ok \in BOOLEAN :
          /\ serverStatus' = IF ok THEN [serverStatus EXCEPT ![refreshing[f].name] = "connected"]
                             ELSE serverStatus
          /\ ListGoes(f, refreshing[f].i + 1,
                      IF ok THEN refreshing[f].listed \cup {refreshing[f].name}
                            ELSE refreshing[f].listed,
                      Remaining(f, servers), client)
    BY <1>2 DEF ListAnswered
  <2>3. /\ refreshing[f].i \in Nat \ {0} /\ refreshing[f].name \in Names
        /\ refreshing[f].listed \subseteq Names
    BY <2>1 DEF RegistryInv, Asking
  <2>4. Remaining(f, servers) \in Seq(Names)
    BY <1>0, <2>3 DEF Remaining
  <2>5. PICK listed \in SUBSET Names : 
          listed = IF ok THEN refreshing[f].listed \cup {refreshing[f].name}
                         ELSE refreshing[f].listed
    BY <2>3
  <2>6. (\A r \in Refreshers : Asking(r)') /\ tools' \subseteq Names'
    <3>1. ListGoes(f, refreshing[f].i + 1, listed, Remaining(f, servers), client)
      BY <2>2, <2>5
    <3>2. refreshing[f].i + 1 \in Nat \ {0}
      BY <2>3
    <3> QED
      BY <1>0, <2>1, <2>4, <3>1, <3>2, AskingGoes
  <2>7. serverStatus' \in [Names -> {"none", "connected", "error"}]
    BY <2>2 DEF RegistryInv
  <2> QED
    BY <2>1, <2>6, <2>7 DEF RegistryInv
<1>3. ASSUME NEW l \in Listings, refreshTools(l)  PROVE RegistryInv'
  <2>1. /\ UNCHANGED <<nameOf, process, servers, client, serverStatus, toolCall>> /\ Names' = Names
        /\ ListGoes(l, 1, {}, servers, client)
    BY <1>3 DEF refreshTools, Names
  <2>2. l \in Refreshers /\ {} \in SUBSET Names /\ 1 \in Nat \ {0}
    BY DEF Refreshers
  <2>3. (\A r \in Refreshers : Asking(r)') /\ tools' \subseteq Names'
    BY <1>0, <2>1, <2>2, AskingGoes
  <2> QED
    BY <2>1, <2>3 DEF RegistryInv
<1>4. ASSUME NEW f \in Refreshers, AnswerLost(f)  PROVE RegistryInv'
  <2>1. /\ refreshing' = [refreshing EXCEPT ![f] = [at |-> "forgotten"]]
        /\ UNCHANGED <<nameOf, process, servers, client, serverStatus, tools, toolCall>>
        /\ Names' = Names
    BY <1>4 DEF AnswerLost, Names
  <2>2. \A r \in Refreshers : Asking(r)'
    BY <1>0, <2>1 DEF RegistryInv, Asking
  <2> QED
    BY <2>1, <2>2 DEF RegistryInv
<1>5. ASSUME NEW g \in Registrations, registerServer(g) \/ InitializeErrs(g) \/ Dies(g)
      PROVE  RegistryInv'
  BY <1>5, ProcessMoves
<1>6. ASSUME NEW g \in Registrations, Initialized(g)  PROVE RegistryInv'
  BY <1>6, ServerConnects
<1>7. ASSUME NEW c \in ToolCalls, callTool(c) \/ ToolAnswered(c)  PROVE RegistryInv'
  <2>1. UNCHANGED <<nameOf, process, servers, client, serverStatus, refreshing, tools>>
        /\ Names' = Names
    BY <1>7 DEF callTool, ToolAnswered, registryVars, Names
  <2>2. ASSUME NEW a, a.at \in {"failed", "asked", "answered"},
               toolCall' = [toolCall EXCEPT ![c] = a]
        PROVE  /\ DOMAIN toolCall' = ToolCalls
               /\ \A d \in ToolCalls : toolCall'[d].at \in {"new", "failed", "asked", "answered"}
    BY <2>2 DEF RegistryInv
  <2>3. /\ DOMAIN toolCall' = ToolCalls
        /\ \A d \in ToolCalls : toolCall'[d].at \in {"new", "failed", "asked", "answered"}
    <3>1. CASE callTool(c)
      <4>1. PICK n \in Names :
              toolCall' \in {[toolCall EXCEPT ![c] = [at |-> "failed"]]} \cup
                (IF client[n] # NoClient
                   THEN {[toolCall EXCEPT ![c] = [at |-> "asked", of |-> client[n]]]} ELSE {})
        BY <3>1 DEF callTool
      <4>2. PICK w, v : w = [at |-> "failed"] /\ v = [at |-> "asked", of |-> client[n]]
        OBVIOUS
      <4>3. toolCall' = [toolCall EXCEPT ![c] = w] \/ toolCall' = [toolCall EXCEPT ![c] = v]
        BY <4>1, <4>2, Zenon
      <4>4. w.at = "failed" /\ v.at = "asked"
        BY <4>2
      <4> QED
        BY <2>2, <4>3, <4>4
    <3>2. CASE ToolAnswered(c)
      <4>1. PICK w : w = [at |-> "answered"]
        OBVIOUS
      <4>2. toolCall' = [toolCall EXCEPT ![c] = w] /\ w.at = "answered"
        BY <3>2, <4>1 DEF ToolAnswered
      <4> QED
        BY <4>2 DEF RegistryInv
    <3> QED
      BY <1>7, <3>1, <3>2
  <2>4. \A f \in Refreshers : Asking(f)'
    BY <2>1 DEF RegistryInv, Asking
  <2> QED
    BY <2>1, <2>3, <2>4 DEF RegistryInv
<1>8. CASE ToolServersNext
  BY <1>2, <1>3, <1>4, <1>5, <1>6, <1>7, <1>8, Zenon DEF ToolServersNext, ServerAnswers
<1> QED
  BY <1>1, <1>8
-----------------------------------------------------------------------------
(* SchemaStartup: the script and the writes that are left. *)

\* The script runs once; a write is not repeated more often than it may be.
ScriptInv == script \in {"idle", "open", "done", "failed"}
LeftInv == \A w \in Writes : write[w].left <= WriteAttempts /\ (IsRepeated(w) => write[w].left > 0)

LEMMA StartupBegins == SchemaInit => ScriptInv
BY DEF SchemaInit, ScriptInv

LEMMA StartupKeeps == ScriptInv /\ [SchemaNext]_schemaVars => ScriptInv'
BY DEF ScriptInv, SchemaNext, schemaVars, ScriptBegins, ScriptCommits, ScriptRollsBack,
       ServerStarts, ValidateEnvironment, Creates, CreateFails, Migrates, MigrationFails,
       ShutsDown, Signalled

LEMMA StartupTyped == SchemaInv /\ ScriptInv => SchemaTypeOK
BY DEF SchemaInv, SchemaTypes, Processes, ScriptInv, SchemaTypeOK

LEMMA AttemptsBegin == WriteInit => LeftInv
BY RetriesAssumption DEF WriteInit, LeftInv

LEMMA AttemptsTyped == WriteInv /\ LeftInv => WriteTypeOK
BY RetriesAssumption DEF WriteInv, LeftInv, WriteTypeOK

LEMMA AttemptsKeep == WriteInv /\ LeftInv /\ [WriteNext]_writeVars => LeftInv'
<1> SUFFICES ASSUME WriteInv, LeftInv, [WriteNext]_writeVars  PROVE LeftInv'
  OBVIOUS
<1>1. CASE UNCHANGED writeVars
  BY <1>1 DEF writeVars, LeftInv, IsRepeated
<1>2. ASSUME NEW w \in Writes, RepeatedWrite(w)  PROVE LeftInv'
  <2>1. PICK c : c = write[w]
    OBVIOUS
  <2>2. /\ c \in [kind : Kinds, left : Nat, rows : Nat, answer : {"none", "ok", "error"}]
        /\ c.left <= WriteAttempts /\ c.left > 0
    BY <1>2, <2>1 DEF RepeatedWrite, WriteAnswered, WriteRefused, ConnectionLost, IsRepeated, 
       WriteInv, LeftInv
  <2>3. PICK d : /\ write' = [write EXCEPT ![w] = d]
                 /\ d.left <= WriteAttempts /\ (d.answer = "none" => d.left > 0)
    <3>1. CASE WriteAnswered(w)
      <4>1. PICK d : d = [c EXCEPT !.rows = Stored(w), !.answer = "ok"]
        OBVIOUS
      <4>2. d.left = c.left /\ d.answer = "ok"
        BY <2>2, <4>1
      <4>3. write' = [write EXCEPT ![w] = d]
        BY <2>1, <3>1, <4>1 DEF WriteAnswered
      <4> QED
        BY <2>2, <4>2, <4>3
    <3>2. CASE WriteRefused(w)
      <4>1. PICK d : d = [c EXCEPT !.answer = "error"]
        OBVIOUS
      <4>2. d.left = c.left /\ d.answer = "error"
        BY <2>2, <4>1
      <4>3. write' = [write EXCEPT ![w] = d]
        BY <2>1, <3>2, <4>1 DEF WriteRefused
      <4> QED
        BY <2>2, <4>2, <4>3
    <3>3. CASE ConnectionLost(w)
      <4>1. PICK stored \in BOOLEAN :
              write' = [write EXCEPT
                ![w].rows = IF stored THEN Stored(w) ELSE @,
                ![w].left = @ - 1,
                ![w].answer = IF write[w].left = 1 THEN "error" ELSE "none"]
        BY <3>3 DEF ConnectionLost
      <4>2. PICK d : d = [c EXCEPT !.rows = IF stored THEN Stored(w) ELSE @, !.left = @ - 1,
                                   !.answer = IF c.left = 1 THEN "error" ELSE "none"]
        OBVIOUS
      <4>3. d.left = c.left - 1 /\ d.answer = IF c.left = 1 THEN "error" ELSE "none"
        BY <2>2, <4>2
      <4>4. write' = [write EXCEPT ![w] = d]
        BY <2>1, <4>1, <4>2 DEF WriteInv
      <4>5. d.left <= WriteAttempts /\ (d.answer = "none" => d.left > 0)
        BY <2>2, <4>3, RetriesAssumption
      <4> QED
        BY <4>4, <4>5
    <3> QED
      BY <1>2, <3>1, <3>2, <3>3 DEF RepeatedWrite
  <2> QED
    BY <2>3 DEF WriteInv, LeftInv, IsRepeated
<1> QED
  BY <1>1, <1>2 DEF WriteNext
-----------------------------------------------------------------------------
(* ModelAccess: what the gateways count, within its limits. *)

BreakerStates == [state : {"closed", "open", "halfOpen", "trial"}, failures : 0..BreakerVolume]

\* What the gateways count, within its limits.
QuotaInv ==
  /\ ring \in {s.ring : s \in Setups}
  /\ llmLog \in 0..CallsPerMinute
  /\ dayTokens \in Nat /\ redisTokens \in Nat /\ modeCount \in Nat
  /\ modeCools \in BOOLEAN /\ codeCache \in BOOLEAN
  /\ breaker \in [Keyed -> BreakerStates]

\* No provider is tried again more often than it may be.
TriesInv == \A c \in ModelCalls : llm[c].attempt <= ModelRetries

LEMMA ModelLimits ==
  /\ ModelRetries \in Nat /\ CallsPerMinute \in Nat /\ BreakerVolume \in Nat
BY ModelAssumption

LEMMA QuotasBegin == ModelInit => QuotaInv /\ TriesInv
<1> SUFFICES ASSUME ModelInit  PROVE QuotaInv /\ TriesInv
  OBVIOUS
<1>1. ring \in {s.ring : s \in Setups} /\ \A c \in ModelCalls : llm[c].attempt = 0
  BY DEF ModelInit
<1>2. /\ llmLog \in 0..CallsPerMinute /\ dayTokens \in Nat /\ redisTokens \in Nat
      /\ modeCount \in Nat
  BY ModelLimits DEF ModelInit
<1>3. breaker \in [Keyed -> BreakerStates]
  BY ModelLimits DEF ModelInit, Closed, BreakerStates
<1>4. TriesInv
  BY <1>1, ModelLimits DEF TriesInv
<1> QED
  BY <1>1, <1>2, <1>3, <1>4, Zenon DEF ModelInit, QuotaInv

LEMMA QuotasTyped == ModelInv /\ QuotaInv /\ TriesInv => ModelTypeOK
<1> SUFFICES ASSUME ModelInv, QuotaInv, TriesInv  PROVE ModelTypeOK
  OBVIOUS
<1> DEFINE Calls == [by : {"service", "routed", "free", "direct"},
                     at : {"new", "asked", "preflight", "guard", "choose"} \cup Ended,
                     index : 1..Len(ring), attempt : 0..ModelRetries,
                     error : Classes \cup {"none"}]
<1>1. \A c \in ModelCalls : llm[c] \in Calls
  BY ModelLimits DEF ModelInv, TriesInv, LlmCalls, Exhausted
<1>2. llm \in [ModelCalls -> Calls]
  BY <1>1 DEF ModelInv
<1> QED
  BY <1>2, Zenon DEF QuotaInv, ModelTypeOK, BreakerStates

\* A call goes on, falls back, or fails, and asks one provider no more than it may.
LEMMA TriesStay ==
  ASSUME ModelInv, TriesInv, NEW c \in ModelCalls,
         \/ \E at : CallGoes(c, at)
         \/ \E e : CallFails(c, e) \/ ErrorOf(c, e) \/ withRetry(c, e)
         \/ Skipped(c) \/ UNCHANGED llm
  PROVE  TriesInv'
<1>1. llm \in [ModelCalls -> LlmCalls] /\ ModelRetries \in Nat
  BY ModelLimits DEF ModelInv
<1>2. ASSUME NEW l \in LlmCalls, llm' = [llm EXCEPT ![c] = l], l.attempt <= ModelRetries
      PROVE  TriesInv'
  BY <1>1, <1>2 DEF TriesInv
<1>3. PICK r \in LlmCalls : r = llm[c] /\ r.attempt <= ModelRetries
  BY <1>1 DEF TriesInv
<1>4. ASSUME NEW at, CallGoes(c, at)  PROVE TriesInv'
  BY <1>1, <1>4 DEF CallGoes, TriesInv, LlmCalls
<1>5. ASSUME NEW e, CallFails(c, e)  PROVE TriesInv'
  BY <1>1, <1>5 DEF CallFails, TriesInv, LlmCalls
<1>6. ASSUME NEW e, ErrorOf(c, e)  PROVE TriesInv'
  <2>1. CASE llm' = [llm EXCEPT ![c].at = "new", ![c].index = @ + 1, ![c].attempt = 0]
    <3>1. PICK l : l = [llm[c] EXCEPT !.at = "new", !.index = @ + 1, !.attempt = 0]
      OBVIOUS
    <3>2. /\ l \in LlmCalls /\ l.attempt = 0
          /\ llm' = [llm EXCEPT ![c] = l]
      BY <2>1, <3>1 DEF ModelInv, LlmCalls, Ended, Limited
    <3>3. l.attempt <= ModelRetries
      BY <1>1, <3>2
    <3> QED
      BY <1>2, <3>2, <3>3
  <2> QED
    BY <1>5, <1>6, <2>1 DEF ErrorOf
<1>7. ASSUME NEW e, withRetry(c, e)  PROVE TriesInv'
  <2>1. CASE llm[c].attempt < ModelRetries /\ llm' = [llm EXCEPT ![c].attempt = @ + 1]
    <3>1. PICK l : l = [r EXCEPT !.attempt = @ + 1]
      OBVIOUS
    <3>2. l \in LlmCalls /\ l.attempt = r.attempt + 1
      BY <3>1 DEF LlmCalls
    <3>3. llm' = [llm EXCEPT ![c] = l]
      BY <1>3, <2>1, <3>1
    <3>4. l.attempt <= ModelRetries
      BY <1>1, <1>3, <2>1, <3>2 DEF LlmCalls
    <3> QED
      BY <1>2, <3>2, <3>3, <3>4
  <2> QED
    BY <1>6, <1>7, <2>1 DEF withRetry
<1>8. CASE Skipped(c)
  <2>1. CASE llm' = [llm EXCEPT ![c].at = "choose", ![c].index = @ + 1]
    <3>1. PICK l : l = [llm[c] EXCEPT !.at = "choose", !.index = @ + 1]
      OBVIOUS
    <3>2. /\ l \in LlmCalls /\ l.attempt = llm[c].attempt
          /\ llm' = [llm EXCEPT ![c] = l]
      BY <2>1, <3>1 DEF ModelInv, LlmCalls, Ended, Limited
    <3> QED
      BY <1>2, <1>3, <3>2
  <2> QED
    BY <1>5, <1>8, <2>1 DEF Skipped
<1>9. CASE UNCHANGED llm
  BY <1>9 DEF TriesInv
<1> QED
  BY <1>4, <1>5, <1>6, <1>7, <1>8, <1>9

\* The quota a step counts.
LEMMA QuotasStay ==
  ASSUME QuotaInv, NEW c \in ModelCalls, CallStep(c)
  PROVE  QuotaInv'
<1>1. CASE completeText(c) \/ callRoutedTextModel(c)
  <2>1. /\ UNCHANGED <<ring, dayTokens, redisTokens, modeCount, modeCools, codeCache, breaker>>
        /\ llmLog' = llmLog \/ (llmLog < CallsPerMinute /\ llmLog' = llmLog + 1)
    BY <1>1 DEF completeText, callRoutedTextModel, Counted
  <2>2. llmLog' \in 0..CallsPerMinute
    BY <2>1, ModelLimits DEF QuotaInv
  <2> QED
    BY <2>1, <2>2, Zenon DEF QuotaInv
<1>2. CASE openAICompatibleChat(c) \/ openAIResponses(c) \/ anthropicChat(c) \/ generateContent(c)
  <2>1. /\ UNCHANGED <<ring, llmLog, redisTokens, modeCount, modeCools, codeCache, breaker>>
        /\ dayTokens' = dayTokens \/ \E n \in Tokens : dayTokens' = dayTokens + n
    BY <1>2, Zenon DEF openAICompatibleChat, openAIResponses, anthropicChat, generateContent,
                       AttemptFails, recordUsage, shared
  <2>2. dayTokens' \in Nat
    BY <2>1 DEF QuotaInv, Tokens
  <2> QED
    BY <2>1, <2>2, Zenon DEF QuotaInv
<1>3. CASE getBudgetUsage(c) \/ generateCode(c) \/ canCallMode(c)
  BY <1>3 DEF getBudgetUsage, generateCode, canCallMode, shared, QuotaInv
<1>4. CASE callOmniRoute(c)
  <2>1. redisTokens' \in Nat
    BY <1>4 DEF callOmniRoute, QuotaInv, Tokens
  <2> QED
    BY <1>4, <2>1, Zenon DEF callOmniRoute, QuotaInv
<1>5. CASE callSelinaLLM(c)
  <2>1. modeCount' \in Nat
    BY <1>5 DEF callSelinaLLM, QuotaInv
  <2>2. modeCools' \in BOOLEAN /\ codeCache' \in BOOLEAN
    BY <1>5, Zenon DEF callSelinaLLM, QuotaInv
  <2> QED
    BY <1>5, <2>1, <2>2, Zenon DEF callSelinaLLM, QuotaInv
<1>6. CASE generateWithFallback(c)
  <2>1. breaker' \in [Keyed -> BreakerStates]
    <3>1. CASE UNCHANGED breaker
      BY <3>1 DEF QuotaInv
    <3>2. PICK p : p = Provider(c)
      OBVIOUS
    <3>3. CASE /\ p \in Keyed
               /\ breaker' = [breaker EXCEPT ![p].state = IF @ = "halfOpen" THEN "trial" ELSE @]
      BY <3>3 DEF QuotaInv, BreakerStates
    <3> QED
      BY <1>6, <3>1, <3>2, <3>3 DEF generateWithFallback
  <2> QED
    BY <1>6, <2>1, Zenon DEF generateWithFallback, QuotaInv
<1>7. CASE fire(c)
  <2>1. PICK p : p = Provider(c)
    OBVIOUS
  <2>2. /\ UNCHANGED <<ring, llmLog, dayTokens, redisTokens, modeCount, modeCools>>
        /\ codeCache' \in {codeCache, TRUE}
        /\ \/ breaker' = [breaker EXCEPT ![p] = Closed]
           \/ breaker' = [breaker EXCEPT ![p] = FailureCounted(@)]
    BY <1>7, <2>1, Zenon DEF fire
  <2>3. breaker' \in [Keyed -> BreakerStates]
    <3>1. ASSUME p \in Keyed  PROVE breaker' \in [Keyed -> BreakerStates]
      <4>1. PICK b \in BreakerStates : b = breaker[p]
        BY <3>1 DEF QuotaInv
      <4>2. ASSUME NEW f \in BreakerStates, breaker' = [breaker EXCEPT ![p] = f]
            PROVE  breaker' \in [Keyed -> BreakerStates]
        BY <4>2 DEF QuotaInv
      <4>3. CASE breaker' = [breaker EXCEPT ![p] = Closed]
        <5>1. Closed \in BreakerStates
          BY ModelLimits DEF BreakerStates, Closed
        <5> QED
          BY <4>2, <4>3, <5>1
      <4>4. CASE breaker' = [breaker EXCEPT ![p] = FailureCounted(@)]
        <5>1. FailureCounted(b) \in BreakerStates
          <6>1. CASE b.state = "trial" \/ b.failures + 1 >= BreakerVolume
            BY <6>1, ModelLimits DEF FailureCounted, BreakerStates
          <6>2. CASE ~(b.state = "trial" \/ b.failures + 1 >= BreakerVolume)
            <7>1. b.failures + 1 \in 0..BreakerVolume
              BY <4>1, <6>2, ModelLimits DEF BreakerStates
            <7> QED
              BY <4>1, <6>2, <7>1 DEF FailureCounted, BreakerStates
          <6> QED
            BY <6>1, <6>2
        <5> QED
          BY <4>1, <4>2, <4>4, <5>1
      <4> QED
        BY <2>2, <4>3, <4>4
    <3>2. CASE p \notin Keyed
      <4>1. breaker' = breaker
        BY <2>2, <3>2 DEF QuotaInv
      <4> QED
        BY <4>1 DEF QuotaInv
    <3> QED
      BY <3>1, <3>2
  <2> QED
    BY <2>2, <2>3, Zenon DEF QuotaInv
<1> QED
  BY <1>1, <1>2, <1>3, <1>4, <1>5, <1>6, <1>7 DEF CallStep

LEMMA CallTriesAgain ==
  ASSUME NEW c \in ModelCalls, CallStep(c)
  PROVE  \/ \E at : CallGoes(c, at)
         \/ \E e : CallFails(c, e) \/ ErrorOf(c, e) \/ withRetry(c, e)
         \/ Skipped(c) \/ UNCHANGED llm
BY Zenon DEF CallStep, completeText, callRoutedTextModel, Counted, openAICompatibleChat,
   openAIResponses, anthropicChat, generateContent, AttemptFails, recordUsage, getBudgetUsage,
   generateCode, canCallMode, callOmniRoute, callSelinaLLM, generateWithFallback, fire

LEMMA QuotasKeep ==
  ModelInv /\ QuotaInv /\ TriesInv /\ [ModelNext]_modelVars => QuotaInv' /\ TriesInv'
<1> SUFFICES ASSUME ModelInv, QuotaInv, TriesInv, [ModelNext]_modelVars
             PROVE  QuotaInv' /\ TriesInv'
  OBVIOUS
<1>1. CASE UNCHANGED modelVars
  BY <1>1 DEF modelVars, QuotaInv, TriesInv
<1>2. ASSUME NEW c \in ModelCalls, CallStep(c)  PROVE QuotaInv' /\ TriesInv'
  BY <1>2, QuotasStay, CallTriesAgain, TriesStay
<1>3. ASSUME NEW p \in Keyed, resetTimeout(p)  PROVE QuotaInv' /\ TriesInv'
  <2>1. breaker' \in [Keyed -> BreakerStates]
    BY <1>3 DEF resetTimeout, QuotaInv, BreakerStates
  <2> QED
    BY <1>3, <2>1 DEF resetTimeout, QuotaInv, TriesInv
<1>4. CASE MinutePasses
  <2>1. llmLog' \in 0..CallsPerMinute /\ modeCount' \in Nat
    BY <1>4, ModelLimits DEF MinutePasses, QuotaInv
  <2>2. modeCools' \in BOOLEAN /\ codeCache' \in BOOLEAN
    BY <1>4, Zenon DEF MinutePasses, QuotaInv
  <2>3. UNCHANGED <<ring, llm, dayTokens, redisTokens, breaker>>
    BY <1>4, Zenon DEF MinutePasses
  <2> QED
    BY <2>1, <2>2, <2>3 DEF QuotaInv, TriesInv
<1> QED
  BY <1>1, <1>2, <1>3, <1>4 DEF ModelNext
-----------------------------------------------------------------------------
(* MemoryIndex: hashes and rows. *)

IndexRows == [file : IndexFiles, content : 1..(MaxSourceEdits + 1), version : IndexVersions]

\* No hash and no row is of a content that the file is still to have.
HashesInv ==
  /\ \A f \in IndexFiles : hashed[f] <= sources[f] /\ sources[f] <= MaxSourceEdits + 1
  /\ indexer.at \in {"embedding", "recording"} <=> indexer.file \in IndexFiles
  /\ indexer.file \in IndexFiles => indexer.content \in 1..sources[indexer.file]
  /\ embedded \subseteq IndexRows /\ unembedded \subseteq IndexRows

LEMMA HashesBegin == IndexInit => HashesInv
BY IndexAssumption DEF IndexInit, HashesInv, NoRun

LEMMA IndexTyped == IndexInv /\ HashesInv => IndexTypeOK
<1> SUFFICES ASSUME IndexInv, HashesInv  PROVE IndexTypeOK
  OBVIOUS
<1>1. \A f \in IndexFiles : hashed[f] \in 0..sources[f]
  BY DEF IndexInv, IndexTypes, HashesInv
<1>2. (indexer.at \in {"embedding", "recording"}) = (indexer.file \in IndexFiles)
  BY DEF HashesInv
<1>3. indexer.todo \subseteq IndexFiles /\ indexer.version \in IndexVersions
  BY DEF IndexInv, IndexTypes
<1>4. embedded \cup unembedded \subseteq
        [file : IndexFiles, content : 1..(MaxSourceEdits + 1), version : IndexVersions]
  BY DEF HashesInv, IndexRows
<1> QED
  BY <1>1, <1>2, <1>3, <1>4, Zenon DEF IndexTypeOK

LEMMA HashesKeep == IndexInv /\ HashesInv /\ [IndexNext]_indexVars => HashesInv'
<1> SUFFICES ASSUME IndexInv, HashesInv, [IndexNext]_indexVars  PROVE HashesInv'
  OBVIOUS
<1> USE IndexAssumption
<1>0. IndexTypes
  BY DEF IndexInv
<1>1. CASE UNCHANGED indexVars
  BY <1>1 DEF indexVars, HashesInv
<1>2. ASSUME NEW f \in IndexFiles, EditSource(f)  PROVE HashesInv'
  BY <1>0, <1>2 DEF EditSource, IndexTypes, HashesInv
<1>3. ASSUME NEW f \in IndexFiles, Considers(f)  PROVE HashesInv'
  <2>1. PICK ahead : ahead = [indexer EXCEPT !.todo = @ \ {f}]
    OBVIOUS
  <2>2. PICK reads : reads = [indexer EXCEPT !.at = "embedding", !.todo = @ \ {f}, !.file = f,
                                             !.content = sources[f]]
    OBVIOUS
  <2>3. (indexer' = ahead \/ indexer' = reads) /\ indexer.at = "walking"
        /\ UNCHANGED <<sources, hashed, embedded, unembedded>>
    BY <1>3, <2>1, <2>2 DEF Considers, WhenRead
  <2>4. /\ ahead.at = "walking" /\ ahead.file = indexer.file
        /\ reads.at = "embedding" /\ reads.file = f /\ reads.content = sources[f]
    BY <1>0, <2>1, <2>2, <2>3 DEF IndexTypes
  <2>5. indexer.file \notin IndexFiles /\ sources[f] \in 1..sources[f]
    BY <1>0, <2>3 DEF IndexTypes, HashesInv
  <2> QED
    BY <2>3, <2>4, <2>5 DEF HashesInv
<1>4. ASSUME NEW f \in IndexFiles, RecordsHash(f)  PROVE HashesInv'
  <2>1. PICK ahead : ahead = [indexer EXCEPT !.at = "walking", !.file = NoFile, !.content = 0]
    OBVIOUS
  <2>2. ahead.at = "walking" /\ ahead.file = NoFile
    BY <1>0, <2>1 DEF IndexTypes
  <2>3. /\ hashed' = [hashed EXCEPT ![f] = indexer.content] /\ indexer' = ahead
        /\ UNCHANGED <<sources, embedded, unembedded>>
    BY <1>4, <2>1 DEF RecordsHash
  <2>4. indexer.content <= sources[f]
    BY <1>0, <1>4 DEF RecordsHash, HashesInv, IndexTypes
  <2> QED
    BY <1>0, <2>2, <2>3, <2>4 DEF HashesInv, IndexTypes
<1>5. CASE Embeds
  <2>1. PICK row : row = Row(indexer.file, indexer.content, indexer.version)
    OBVIOUS
  <2>2. indexer.file \in IndexFiles /\ indexer.content \in 1..(MaxSourceEdits + 1)
    BY <1>0, <1>5 DEF Embeds, IndexTypes, HashesInv
  <2>3. row \in IndexRows
    BY <1>0, <2>1, <2>2 DEF Row, IndexRows, IndexTypes
  <2>4. /\ embedded' \in {embedded, embedded \cup {row}}
        /\ unembedded' \in {unembedded, unembedded \cup {row}}
        /\ indexer' = [indexer EXCEPT !.at = "recording"] /\ UNCHANGED <<sources, hashed>>
    BY <1>5, <2>1 DEF Embeds
  <2>5. indexer'.at = "recording" /\ indexer'.file = indexer.file /\ indexer'.content = indexer.content
    BY <1>0, <2>4 DEF IndexTypes
  <2>6. embedded' \subseteq IndexRows /\ unembedded' \subseteq IndexRows
    BY <2>3, <2>4 DEF HashesInv
  <2> QED
    BY <2>2, <2>4, <2>5, <2>6 DEF HashesInv
<1>6. CASE IndexEnds \/ IndexStops
  <2>1. indexer' = NoRun /\ UNCHANGED <<sources, hashed, embedded, unembedded>>
    BY <1>6 DEF IndexEnds, IndexStops
  <2> QED
    BY <2>1 DEF HashesInv, NoRun
<1>7. ASSUME NEW v \in IndexVersions, IndexBegins(v)  PROVE HashesInv'
  <2>1. /\ indexer'.at = "walking" /\ indexer'.file = NoFile
        /\ UNCHANGED <<sources, hashed, embedded, unembedded>>
    BY <1>7 DEF IndexBegins, NoRun
  <2> QED
    BY <2>1 DEF HashesInv
<1> QED
  BY <1>1, <1>2, <1>3, <1>4, <1>5, <1>6, <1>7 DEF IndexNext
-----------------------------------------------------------------------------
(* Recall: the bounds of what is saved and loaded. *)

MemoryBounds ==
  /\ \A u \in Askers : projectRow[u].saved \in 0..MaxSaved
  /\ harness \subseteq {"content"} /\ loads \in 0..MaxLoads

LEMMA BoundsBegin == RecallInit => MemoryBounds
BY AppendsAssumption DEF RecallInit, MemoryBounds, NoRow

LEMMA RecallTyped == RecallInv /\ MemoryBounds => RecallTypeOK
<1> SUFFICES ASSUME RecallInv, MemoryBounds  PROVE RecallTypeOK
  OBVIOUS
<1>1. ASSUME NEW u \in Askers, ~projectRow[u].exists  PROVE projectRow[u] = NoRow
  <2>1. /\ projectRow[u] \in ProjectRows /\ projectRow[u].exists = FALSE
        /\ projectRow[u].saved = 0 /\ projectRow[u].entries = 0
    BY <1>1 DEF RecallInv, RecallTypes, RowKept, ProjectRows
  <2> QED
    BY <2>1 DEF ProjectRows, NoRow
<1>2. \A a \in Appends : append[a].at \in {"new", "row", "entry", "over"}
  BY DEF RecallInv, RecallTypes, AppendCalls
<1>3. \A h \in Uploads : upload[h].at \in {"new", "storing", "stored", "refused"}
                         /\ upload[h].left \cup upload[h].stored \subseteq Entries
  BY DEF RecallInv, RecallTypes, UploadCalls
<1> QED
  BY <1>1, <1>2, <1>3 DEF MemoryBounds, RecallTypeOK

LEMMA BoundsKeep ==
  RecallInv /\ MemoryBounds /\ [RecallNext \/ JournalNext]_recallVars => MemoryBounds'
<1> SUFFICES ASSUME RecallInv, MemoryBounds, [RecallNext \/ JournalNext]_recallVars
             PROVE  MemoryBounds'
  OBVIOUS
<1>0. /\ \A u \in Askers : projectRow[u] \in ProjectRows /\ projectRow[u].saved \in 0..MaxSaved
      /\ DOMAIN projectRow = Askers /\ harness \subseteq {"content"} /\ loads \in 0..MaxLoads
      /\ MaxSaved \in Nat /\ MaxLoads \in Nat
  BY AppendsAssumption DEF MemoryBounds, RecallInv, RecallTypes
<1>1. CASE UNCHANGED <<projectRow, harness, loads>>
  BY <1>0, <1>1 DEF MemoryBounds
<1>2. ASSUME NEW u \in Askers, SaveUserMemory(u)  PROVE MemoryBounds'
  <2>1. PICK made : made = [projectRow[u] EXCEPT !.exists = TRUE, !.saved = @ + 1]
    OBVIOUS
  <2>2. made.saved = projectRow[u].saved + 1 /\ projectRow[u].saved < MaxSaved
    BY <1>0, <1>2, <2>1 DEF ProjectRows, SaveUserMemory
  <2>3. projectRow' = [projectRow EXCEPT ![u] = made] /\ UNCHANGED <<harness, loads>>
    BY <1>2, <2>1 DEF SaveUserMemory
  <2>4. made.saved \in 0..MaxSaved
    BY <1>0, <2>2
  <2>5. \A v \in Askers : projectRow'[v] = made \/ projectRow'[v] = projectRow[v]
    BY <1>0, <2>3
  <2> QED
    BY <1>0, <2>3, <2>4, <2>5 DEF MemoryBounds
<1>3. ASSUME NEW u \in Askers, NEW k, k.saved = projectRow[u].saved,
             projectRow' = [projectRow EXCEPT ![u] = k], UNCHANGED <<harness, loads>>
      PROVE  MemoryBounds'
  <2>1. \A v \in Askers : projectRow'[v].saved = projectRow[v].saved
    BY <1>0, <1>3
  <2> QED
    BY <1>0, <1>3, <2>1 DEF MemoryBounds
<1>4. ASSUME NEW a \in Appends, MakeRow(a)  PROVE MemoryBounds'
  <2>1. PICK u : u = append[a].by
    OBVIOUS
  <2>2. u \in Askers
    BY <2>1 DEF RecallInv, RecallTypes, AppendCalls
  <2>3. PICK k : k = RowMade(projectRow[u])
    OBVIOUS
  <2>4. k.saved = projectRow[u].saved
    <3>1. CASE projectRow[u].exists
      BY <2>3, <3>1 DEF RowMade
    <3>2. CASE ~projectRow[u].exists
      <4>1. projectRow[u].saved = 0
        BY <2>2, <3>2 DEF RecallInv, RowKept
      <4>2. k = [NoRow EXCEPT !.exists = TRUE]
        BY <2>3, <3>2 DEF RowMade
      <4> QED
        BY <4>1, <4>2 DEF NoRow
    <3> QED
      BY <3>1, <3>2
  <2>5. projectRow' = [projectRow EXCEPT ![u] = k] /\ UNCHANGED <<harness, loads>>
    BY <1>4, <2>1, <2>3 DEF MakeRow
  <2> QED
    BY <1>3, <2>2, <2>4, <2>5
<1>5. ASSUME NEW a \in Appends, AppendEntry(a)  PROVE MemoryBounds'
  <2>1. PICK u : u = append[a].by
    OBVIOUS
  <2>2. u \in Askers
    BY <2>1 DEF RecallInv, RecallTypes, AppendCalls
  <2>3. PICK k : k = [projectRow[u] EXCEPT !.entries = @ + 1]
    OBVIOUS
  <2>4. k.saved = projectRow[u].saved
    BY <1>0, <2>2, <2>3 DEF ProjectRows
  <2>5. projectRow' = [projectRow EXCEPT ![u] = k] /\ UNCHANGED <<harness, loads>>
    BY <1>5, <2>1, <2>3 DEF AppendEntry
  <2> QED
    BY <1>3, <2>2, <2>4, <2>5
<1>6. ASSUME NEW a \in Appends, InsertLearned(a) \/ AppendFails(a)  PROVE MemoryBounds'
  BY <1>1, <1>6 DEF InsertLearned, AppendFails
<1>7. ASSUME NEW h \in Uploads, Harness(h)  PROVE MemoryBounds'
  BY <1>0, <1>7 DEF Harness, MemoryBounds
<1>8. ASSUME NEW h \in Uploads, NEW e \in Entries, StoreEntry(h, e) \/ EntryFails(h, e)
      PROVE  MemoryBounds'
  BY <1>1, <1>8 DEF StoreEntry, EntryFails
<1>9. ASSUME NEW u \in Askers, NEW risk \in Risks, LoadMemory(u, risk)  PROVE MemoryBounds'
  <2>1. loads < MaxLoads /\ loads' = loads + 1 /\ UNCHANGED <<projectRow, harness>>
    BY <1>9 DEF LoadMemory
  <2> QED
    BY <1>0, <2>1 DEF MemoryBounds
<1>10. CASE UNCHANGED recallVars
  BY <1>1, <1>10 DEF recallVars
<1> QED
  BY <1>2, <1>4, <1>5, <1>6, <1>7, <1>8, <1>9, <1>10
  DEF RecallNext, JournalNext, AppendStep, UploadStep
-----------------------------------------------------------------------------
(* PromptContext: the mirror of a repository. *)

MirrorTypes ==
  {NoMirror, HalfClone} \cup [state : {"whole"}, url : Urls, version : 1..MaxCommits]

\* While a clone is under way the directory is half of one, and there is no other clone;
\* what is indexed is whole.
MirrorInv ==
  /\ upstream \in [Urls -> 1..MaxCommits]
  /\ mirror \in MirrorTypes
  /\ repoIndex.state # "half"
  /\ \A x \in Links :
       /\ link[x].at = "new" => link[x] = NewLink
       /\ link[x].at = "fetching" => mirror.state = "half"
       /\ link[x].at = "indexing" => mirror.state = "whole"
       /\ link[x].at = "setting" => link[x].graph.state = "whole"
  /\ \A x, y \in Links : link[x].at = "fetching" /\ link[y].at = "fetching" => x = y

LEMMA MirrorBegins == RepoInit => MirrorInv
BY LinksAssumption
DEF RepoInit, MirrorInv, MirrorTypes, NewLink, NoIndex, NoMirror

LEMMA RepoTyped == MirrorInv => RepoTypeOK
BY DEF MirrorInv, MirrorTypes, RepoTypeOK

\* A link that is under way goes on, and the directory is what it makes of it.
LEMMA LinkStays ==
  ASSUME RepoInv, MirrorInv, NEW x \in Links,
         NEW l \in [at : LinkPlaces, url : Urls \cup {"none"}, graph : Directories],
         link' = [link EXCEPT ![x] = l], l.at # "new",
         mirror' \in MirrorTypes, repoIndex'.state # "half", UNCHANGED upstream,
         \/ UNCHANGED mirror /\ (l.at = "fetching" => link[x].at = "fetching")
         \/ link[x].at = "fetching" /\ l.at # "fetching"
         \/ mirror.state = "whole" /\ mirror'.state = "whole"
         \/ mirror.state = "absent" /\ mirror'.state = "half",
         l.at = "fetching" => mirror'.state = "half",
         l.at = "indexing" => mirror'.state = "whole",
         l.at = "setting" => l.graph.state = "whole"
  PROVE  MirrorInv'
<1>1. link'[x] = l /\ \A y \in Links : y # x => link'[y] = link[y]
  BY DEF RepoInv, RepoTypes
<1>2. mirror.state \in {"absent", "half", "whole"}
  BY DEF MirrorInv, MirrorTypes, NoMirror, HalfClone
<1>3. ASSUME NEW y \in Links
      PROVE  /\ link'[y].at = "new" => link'[y] = NewLink
             /\ link'[y].at = "fetching" => mirror'.state = "half"
             /\ link'[y].at = "indexing" => mirror'.state = "whole"
             /\ link'[y].at = "setting" => link'[y].graph.state = "whole"
  <2>1. CASE y = x
    BY <1>1, <2>1
  <2>2. CASE y # x
    BY <1>1, <1>2, <2>2 DEF MirrorInv
  <2> QED
    BY <2>1, <2>2
<1>4. ASSUME NEW y \in Links, NEW z \in Links, link'[y].at = "fetching", link'[z].at = "fetching"
      PROVE  y = z
  BY <1>1, <1>2, <1>4 DEF MirrorInv
<1>5. upstream' \in [Urls -> 1..MaxCommits]
  BY DEF MirrorInv
<1> QED
  BY <1>3, <1>4, <1>5 DEF MirrorInv

LEMMA MirrorKeeps == RepoInv /\ MirrorInv /\ [RepoNext]_repoVars => MirrorInv'
<1> SUFFICES ASSUME RepoInv, MirrorInv, [RepoNext]_repoVars  PROVE MirrorInv'
  OBVIOUS
<1>0. /\ mirror \in MirrorTypes /\ mirror \in Directories /\ repoIndex.state # "half"
      /\ upstream \in [Urls -> 1..MaxCommits]
      /\ \A x \in Links : link[x] \in [at : LinkPlaces, url : Urls \cup {"none"},
                                       graph : Directories]
      /\ DOMAIN link = Links
  BY DEF MirrorInv, RepoInv, RepoTypes
<1>1. CASE UNCHANGED repoVars
  BY <1>1 DEF repoVars, MirrorInv
<1>2. ASSUME NEW u \in Urls, Commit(u)  PROVE MirrorInv'
  <2>1. upstream' \in [Urls -> 1..MaxCommits]
    BY <1>0, <1>2, LinksAssumption DEF Commit
  <2>2. UNCHANGED <<mirror, link, repoIndex>>
    BY <1>2 DEF Commit
  <2> QED
    BY <2>1, <2>2 DEF MirrorInv
<1>3. ASSUME NEW x \in Links, NEW at \in LinkPlaces, NEW l, l = [link[x] EXCEPT !.at = at]
      PROVE  /\ l \in [at : LinkPlaces, url : Urls \cup {"none"}, graph : Directories]
             /\ l.at = at /\ l.graph = link[x].graph
  BY <1>0, <1>3
<1>4. NoMirror \in MirrorTypes /\ NoMirror.state = "absent"
      /\ HalfClone \in MirrorTypes /\ HalfClone.state = "half"
  BY DEF MirrorTypes, NoMirror, HalfClone
<1>5. ASSUME NEW u \in Urls
      PROVE  MirrorOf(u) \in MirrorTypes /\ MirrorOf(u).state = "whole"
  BY <1>0 DEF MirrorOf, MirrorTypes
<1>6. ASSUME NEW x \in Links, NEW u \in Urls, LinkRepository(x, u)  PROVE MirrorInv'
  <2>1. PICK l : l = [link[x] EXCEPT !.url = u,
                                     !.at = IF mirror = NoMirror THEN "cloning" ELSE "pulling"]
    OBVIOUS
  <2>2. /\ l \in [at : LinkPlaces, url : Urls \cup {"none"}, graph : Directories]
        /\ l.at \in {"cloning", "pulling"}
    BY <1>0, <2>1 DEF LinkPlaces
  <2>3. link' = [link EXCEPT ![x] = l] /\ UNCHANGED <<upstream, mirror, repoIndex>>
    BY <1>6, <2>1 DEF LinkRepository
  <2> QED
    BY <1>0, <2>2, <2>3, LinkStays
<1>7. ASSUME NEW x \in Links, CloneBegins(x)  PROVE MirrorInv'
  <2>1. CASE mirror = NoMirror
    <3>1. PICK l : l = [link[x] EXCEPT !.at = "fetching"]
      OBVIOUS
    <3>2. /\ l \in [at : LinkPlaces, url : Urls \cup {"none"}, graph : Directories]
          /\ l.at = "fetching"
      BY <1>3, <3>1 DEF LinkPlaces
    <3>3. link' = [link EXCEPT ![x] = l] /\ UNCHANGED <<upstream, repoIndex>>
          /\ mirror' = HalfClone
      BY <1>7, <2>1, <3>1 DEF CloneBegins
    <3> QED
      BY <1>0, <1>4, <2>1, <3>2, <3>3, LinkStays
  <2>2. CASE mirror # NoMirror
    <3>1. PICK l : l = [link[x] EXCEPT !.at = "failed"]
      OBVIOUS
    <3>2. /\ l \in [at : LinkPlaces, url : Urls \cup {"none"}, graph : Directories]
          /\ l.at = "failed"
      BY <1>3, <3>1 DEF LinkPlaces
    <3>3. link' = [link EXCEPT ![x] = l] /\ UNCHANGED <<upstream, mirror, repoIndex>>
      BY <1>7, <2>2, <3>1 DEF CloneBegins
    <3> QED
      BY <1>0, <3>2, <3>3, LinkStays
  <2> QED
    BY <2>1, <2>2
<1>8. ASSUME NEW x \in Links, CloneEnds(x)  PROVE MirrorInv'
  <2>1. link[x].at = "fetching" /\ link[x].url \in Urls
    BY <1>8 DEF CloneEnds, RepoInv, LinkUnderWay
  <2>2. PICK at \in {"indexing", "failed"} :
          /\ link' = [link EXCEPT ![x].at = at] /\ UNCHANGED <<upstream, repoIndex>>
          /\ mirror' = IF at = "indexing" THEN MirrorOf(link[x].url) ELSE NoMirror
    BY <1>8 DEF CloneEnds
  <2>3. PICK l : l = [link[x] EXCEPT !.at = at]
    OBVIOUS
  <2>4. /\ l \in [at : LinkPlaces, url : Urls \cup {"none"}, graph : Directories]
        /\ l.at = at
    BY <1>3, <2>3 DEF LinkPlaces
  <2>5. link' = [link EXCEPT ![x] = l]
    BY <2>2, <2>3
  <2>6. mirror' \in MirrorTypes /\ (at = "indexing" => mirror'.state = "whole")
    BY <1>4, <1>5, <2>1, <2>2
  <2> QED
    BY <1>0, <2>1, <2>2, <2>4, <2>5, <2>6, LinkStays
<1>9. ASSUME NEW x \in Links, Pull(x)  PROVE MirrorInv'
  <2>1. CASE UNCHANGED mirror /\ link' = [link EXCEPT ![x].at = "failed"]
    <3>1. PICK l : l = [link[x] EXCEPT !.at = "failed"]
      OBVIOUS
    <3>2. /\ l \in [at : LinkPlaces, url : Urls \cup {"none"}, graph : Directories]
          /\ l.at = "failed"
      BY <1>3, <3>1 DEF LinkPlaces
    <3>3. link' = [link EXCEPT ![x] = l] /\ UNCHANGED <<upstream, mirror, repoIndex>>
      BY <1>9, <2>1, <3>1 DEF Pull
    <3> QED
      BY <1>0, <3>2, <3>3, LinkStays
  <2>2. CASE mirror.state = "whole" /\ mirror' = MirrorOf(mirror.url)
             /\ link' = [link EXCEPT ![x].at = AfterPull]
    <3>1. PICK l : l = [link[x] EXCEPT !.at = "indexing"]
      OBVIOUS
    <3>2. /\ l \in [at : LinkPlaces, url : Urls \cup {"none"}, graph : Directories]
          /\ l.at = "indexing"
      BY <1>3, <3>1 DEF LinkPlaces
    <3>3. link' = [link EXCEPT ![x] = l] /\ UNCHANGED <<upstream, repoIndex>>
      BY <1>9, <2>2, <3>1 DEF Pull, AfterPull
    <3>4. mirror.url \in Urls
      BY <1>0, <2>2 DEF MirrorTypes, NoMirror, HalfClone
    <3>5. mirror' \in MirrorTypes /\ mirror'.state = "whole"
      BY <1>5, <2>2, <3>4
    <3> QED
      BY <1>0, <2>2, <3>2, <3>3, <3>5, LinkStays
  <2> QED
    BY <1>9, <2>1, <2>2 DEF Pull
<1>10. ASSUME NEW x \in Links, IndexRepository(x)  PROVE MirrorInv'
  <2>1. PICK l : l = [link[x] EXCEPT !.at = "setting", !.graph = mirror]
    OBVIOUS
  <2>2. /\ l \in [at : LinkPlaces, url : Urls \cup {"none"}, graph : Directories]
        /\ l.at = "setting" /\ l.graph = mirror
    BY <1>0, <2>1 DEF LinkPlaces
  <2>3. link' = [link EXCEPT ![x] = l] /\ UNCHANGED <<upstream, mirror, repoIndex>>
    BY <1>10, <2>1 DEF IndexRepository
  <2>4. mirror.state = "whole"
    BY <1>10 DEF IndexRepository, MirrorInv
  <2> QED
    BY <1>0, <2>2, <2>3, <2>4, LinkStays
<1>11. ASSUME NEW x \in Links, SetIndex(x)  PROVE MirrorInv'
  <2>1. PICK l : l = [link[x] EXCEPT !.at = "answered", !.graph = NoIndex]
    OBVIOUS
  <2>2. /\ l \in [at : LinkPlaces, url : Urls \cup {"none"}, graph : Directories]
        /\ l.at = "answered"
    BY <1>0, <2>1 DEF LinkPlaces, Directories, NoIndex
  <2>3. link' = [link EXCEPT ![x] = l] /\ UNCHANGED <<upstream, mirror>>
        /\ repoIndex' = link[x].graph
    BY <1>11, <2>1 DEF SetIndex
  <2>4. link[x].graph.state = "whole"
    BY <1>11 DEF SetIndex, MirrorInv
  <2> QED
    BY <1>0, <2>2, <2>3, <2>4, LinkStays
<1>12. CASE ServerStops
  <2>1. UNCHANGED <<upstream, mirror>> /\ repoIndex'.state # "half"
    BY <1>12 DEF ServerStops, NoIndex, NoMirror
  <2>2. ASSUME NEW x \in Links
        PROVE  (link'[x] = link[x] /\ link[x].at = "new") \/ link'[x].at = "failed"
    <3>1. CASE link[x].at = "new"
      BY <1>12, <3>1 DEF ServerStops
    <3>2. CASE link[x].at # "new"
      <4>1. link'[x] = [link[x] EXCEPT !.at = "failed", !.graph = NoIndex]
        BY <1>12, <3>2 DEF ServerStops
      <4> QED
        BY <1>0, <4>1
    <3> QED
      BY <3>1, <3>2
  <2> QED
    BY <2>1, <2>2 DEF MirrorInv
<1> QED
  BY <1>1, <1>2, <1>6, <1>7, <1>8, <1>9, <1>10, <1>11, <1>12 DEF RepoNext
=============================================================================
