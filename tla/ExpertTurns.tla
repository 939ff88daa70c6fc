---------------------------- MODULE ExpertTurns ----------------------------
(***************************************************************************)
(* The turns of an expert with a provider inside one execute               *)
(* (orchestrator/expert-base.js): the provider replies with calls of       *)
(* tools, these are executed one after another, and their results are put  *)
(* to it until it replies with none.  Any failure, of the provider or of a *)
(* tool, is classified by its message alone; one that falls back begins    *)
(* anew with the prompt at the next provider, whatever the tools did.      *)
(*                                                                         *)
(* What the retries of one provider do is ModelAccess's: here a provider   *)
(* replies or fails.  What an answer adds to the history is                *)
(* SharedContext's.  Every call of a reply has a name.                     *)
(***************************************************************************)
EXTENDS Naturals, SequencesExt

CONSTANTS
  TurnRings,     \* the kinds of the providers of an execution, in their order
  ModelReplies,  \* the calls of a reply; none ends the turns
  GeminiRounds,  \* maxIterations of executeGemini
  OtherRounds    \* maxIterations of the loops of the other providers

\* "tool" stands for the calls that go to onToolCall.
CallKinds == {"tool", "ask_clarification", "create_plan", "update_memory", "invalid"}

ProviderKinds == {"gemini", "chat", "responses", "anthropic"}

ASSUME TurnsAssumption ==
  /\ TurnRings \subseteq Seq(ProviderKinds) \ {<<>>}
  /\ ModelReplies \subseteq Seq(CallKinds)
  /\ {GeminiRounds, OtherRounds} \subseteq Nat \ {0}

VARIABLES
  turnRing,      \* the profile and its fallbacks
  turn,          \* where the execution is, its provider, its iteration
  conversation,  \* replies with calls, and the results put to the provider
  reported,      \* allToolCalls
  ran,           \* history: the callbacks begun under this provider
  stopped,       \* session.aborted, or its socket is not open
  late           \* history: the callbacks that began after that

turnsVars == <<turnRing, turn, conversation, reported, ran, stopped, late>>

\* validateToolCallArguments: the tool is known and the arguments fit its schema.
validToolCall(call) == call /= "invalid"

Kind == turnRing[turn.index]
TurnsOver == turn.at \in {"answered", "failed"}
TurnGoes(at) == turn' = [turn EXCEPT !.at = at]
ThisCall == LET r == Last(conversation) IN r.calls[Len(r.results) + 1]

Afresh(index) == [at |-> "asking", index |-> index, round |-> 0]

TurnsInit ==
  /\ turnRing \in TurnRings
  /\ turn = Afresh(1)
  /\ conversation = <<>>
  /\ reported = <<>>
  /\ ran = <<>>
  /\ stopped = FALSE
  /\ late = {}

-----------------------------------------------------------------------------
\* Mutant: the next provider inherits the list of the calls
TurnFails_KeepsReport(fallbackable) ==
  /\ IF fallbackable /\ turn.index < Len(turnRing)
       THEN /\ turn' = Afresh(turn.index + 1)
            /\ conversation' = <<>>
            /\ ran' = <<>>
       ELSE TurnGoes("failed") /\ UNCHANGED <<conversation, ran>>
  /\ UNCHANGED <<turnRing, reported, stopped, late>>

\* The catch of execute.  Errors of quota, rate and budget are never fallbackable.
TurnFails(fallbackable) ==
  /\ IF fallbackable /\ turn.index < Len(turnRing)
       THEN /\ turn' = Afresh(turn.index + 1)
            /\ conversation' = <<>>
            /\ reported' = <<>>
            /\ ran' = <<>>
       ELSE TurnGoes("failed") /\ UNCHANGED <<conversation, reported, ran>>
  /\ UNCHANGED <<turnRing, stopped, late>>

\* sendMessage, or a request of the other kinds, throws.
ProviderFails ==
  /\ turn.at = "asking"
  /\ \E fallbackable \in BOOLEAN : TurnFails(fallbackable)

TurnAnswers == TurnGoes("answered") /\ UNCHANGED conversation

Takes(calls) ==
  /\ turn' = [turn EXCEPT !.at = "calling", !.round = @ + 1]
  /\ conversation' = Append(conversation, [calls |-> calls, results |-> <<>>])

\* The last reply is asked for one round more than calls are executed in, and
\* its calls stay unanswered.
executeGemini ==
  /\ turn.at = "asking" /\ Kind = "gemini"
  /\ \E calls \in ModelReplies :
       IF calls = <<>> \/ turn.round >= GeminiRounds
         THEN TurnAnswers /\ UNCHANGED reported
         ELSE Takes(calls) /\ reported' = reported \o calls
  /\ UNCHANGED <<turnRing, ran, stopped, late>>

\* The other loops count a call as they come to it.
OtherReplies ==
  /\ \E calls \in ModelReplies : IF calls = <<>> THEN TurnAnswers ELSE Takes(calls)
  /\ UNCHANGED <<turnRing, reported, ran, stopped, late>>

executeOpenAILoop == turn.at = "asking" /\ Kind = "chat" /\ OtherReplies
executeOpenAIResponsesLoop == turn.at = "asking" /\ Kind = "responses" /\ OtherReplies
executeAnthropicLoop == turn.at = "asking" /\ Kind = "anthropic" /\ OtherReplies

\* The check at the top of onToolCall, onClarification and onPlan.
refused(call) == stopped /\ call /= "update_memory"

\* A call that is refused has the message ORCHESTRATION_ABORTED, by which it
\* reads like a failure of the provider.
executeToolCall ==
  /\ turn.at = "calling"
  /\ IF ~validToolCall(ThisCall) THEN TurnFails(FALSE)
     ELSE IF refused(ThisCall) THEN TurnFails(TRUE)
     ELSE /\ TurnGoes("waiting")
          /\ ran' = Append(ran, ThisCall)
          /\ reported' = IF Kind = "gemini" THEN reported ELSE Append(reported, ThisCall)
          /\ late' = IF stopped THEN late \cup {ThisCall} ELSE late
          /\ UNCHANGED <<turnRing, conversation, stopped>>

\* Mutant: the provider is asked again as soon as one call has its result
afterResult_One(r) ==
  IF Kind /= "gemini" /\ turn.round >= OtherRounds THEN "answered" ELSE "asking"

\* What follows a result: the next call of the reply, the provider, or the end
\* of the last iteration, which answers with what was said before the calls.
afterResult(r) ==
  IF Len(r.results) < Len(r.calls) THEN "calling"
  ELSE IF Kind /= "gemini" /\ turn.round >= OtherRounds THEN "answered" ELSE "asking"

\* The user answers, or five minutes pass and an answer is made up: neither
\* once the session has stopped, which rejects what it waits for.
Observation ==
  /\ turn.at = "waiting"
  /\ ThisCall \in {"ask_clarification", "create_plan"} => ~stopped
  /\ LET last == Last(conversation)
         r == [last EXCEPT !.results = Append(@, ThisCall)]
     IN /\ conversation' = [conversation EXCEPT ![Len(conversation)] = r]
        /\ TurnGoes(afterResult(r))
  /\ UNCHANGED <<turnRing, reported, ran, stopped, late>>

\* The message of a tool is the tool's, or the client's, and may be of any class;
\* that of a pause for idleness is of none.
ToolThrows ==
  /\ turn.at = "waiting"
  /\ ThisCall \in {"ask_clarification", "create_plan"} => stopped
  /\ \E fallbackable \in BOOLEAN : TurnFails(fallbackable)

\* Disconnected, paused, or another user in the session.
SessionStops ==
  /\ ~stopped /\ ~TurnsOver
  /\ stopped' = TRUE
  /\ UNCHANGED <<turnRing, turn, conversation, reported, ran, late>>

TurnStep ==
  \/ executeGemini \/ executeOpenAILoop \/ executeOpenAIResponsesLoop \/ executeAnthropicLoop
  \/ ProviderFails
  \/ executeToolCall \/ Observation \/ ToolThrows

TurnsNext == TurnStep \/ SessionStops

\* Providers and tools have timeouts.
TurnsSpec == TurnsInit /\ [][TurnsNext]_turnsVars /\ WF_turnsVars(TurnStep)

-----------------------------------------------------------------------------
TurnsTypeOK ==
  /\ turnRing \in TurnRings
  /\ turn \in [at : {"asking", "calling", "waiting", "answered", "failed"},
               index : 1..Len(turnRing),
               round : 0..(IF Kind = "gemini" THEN GeminiRounds ELSE OtherRounds)]
  /\ conversation \in Seq([calls : ModelReplies, results : Seq(CallKinds)])
  /\ {reported, ran} \subseteq Seq(CallKinds)
  /\ stopped \in BOOLEAN /\ late \subseteq CallKinds

\* No provider is asked with a call of its own unanswered, or answered twice or
\* out of order: each of the four APIs refuses such a conversation.
EveryCallIsAnswered ==
  turn.at = "asking" =>
    \A i \in DOMAIN conversation : conversation[i].results = conversation[i].calls

\* The calls an answer comes with, by which its review is decided, are those that
\* ran under the provider that answered, whichever of its loops ended how.
ReportIsWhatRan == turn.at = "answered" => reported = ran

\* Whatever falls back after the session has stopped, no tool begins and nothing
\* is asked of the user; an entry of the journal may still be written.
StoppedIsStopped == late \subseteq {"update_memory"}

TurnsAreOver == TurnsOver
=============================================================================
