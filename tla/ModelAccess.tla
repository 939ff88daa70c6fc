---------------------------- MODULE ModelAccess ----------------------------
(***************************************************************************)
(* Calls to language models by the three gateways of the backend:          *)
(*  - "service": ModelService, which retries a provider and falls back to  *)
(*    the next one (orchestrator/models.js, cost-controls.js);             *)
(*  - "routed": OmniRoute, one endpoint behind a budget kept in Redis      *)
(*    (token-governor.js, omniroute-client.js);                            *)
(*  - "free": FreeLLMAPI behind a per-mode quota (routing/) and the cache  *)
(*    of LLMClient; "direct": LLMClient with a circuit breaker per         *)
(*    provider (llm_client.js).                                            *)
(* A provider is external: it answers, or fails in one of the classes that *)
(* classifyModelError tells apart.  Credentials are API keys, the only     *)
(* kind this code loads (auth/agent-auth.js).                              *)
(***************************************************************************)
EXTENDS Integers, Sequences

CONSTANTS
  ModelCalls,
  Setups,           \* the gateways of the calls and the ring; one is chosen
  Keyed,            \* the providers with a key; every fallback has one
  ModelRetries,     \* SELINA_MODEL_RETRIES
  CallsPerMinute,   \* SELINA_LLM_CALLS_PER_MINUTE
  DailyTokens,      \* SELINA_DAILY_SESSION_TOKEN_LIMIT, in units of Tokens
  SessionBudget,    \* SESSION_TOKEN_BUDGET, in the same units
  ModeLimit,        \* requests of a mode per minute
  BreakerVolume     \* failures that open a circuit breaker

\* The providers whose API is OpenAI's chat completions.
Chat == {"freellmapi", "qwen", "deepseek", "nim"}

ASSUME ModelAssumption ==
  /\ \A s \in Setups :
       /\ s.ring \in Seq(Chat \cup {"gemini", "openai", "anthropic"}) /\ s.ring /= <<>>
       /\ \A i \in 2..Len(s.ring) : s.ring[i] \in Keyed
       /\ s.by \in [ModelCalls -> {"service", "routed", "free", "direct"}]
  /\ {ModelRetries, CallsPerMinute, DailyTokens, SessionBudget, ModeLimit, BreakerVolume}
       \subseteq Nat

VARIABLES
  ring,        \* the primary provider and its fallbacks, in order
  llm,         \* call -> gateway, where it is, provider, attempt, error class
  llmLog,      \* requests of the user in the sliding minute
  dayTokens,   \* tokens of the session today, in this process
  redisTokens, \* tokens of the session in Redis
  modeCount,   \* requests of the mode in its window
  modeCools,   \* the mode cools down
  codeCache,   \* the prompt's answer is cached
  breaker      \* provider -> circuit breaker: its state and its failures

modelVars == <<ring, llm, llmLog, dayTokens, redisTokens, modeCount, modeCools, codeCache, breaker>>
shared == <<ring, llmLog, dayTokens, redisTokens, modeCount, modeCools, codeCache, breaker>>

Tokens == {1, 4}
Limited == "limited"     \* the answers that are errors of this code
Ended == {"answered", "failed", Limited, "overQuota"}

\* classifyModelError.  "auth" is a refusal that its message shows; "lost" is
\* the AuthError of callWithAuthRetry, whose message matches no class.
Fallbackable == {"quota", "auth", "rate", "transient"}
Retryable == {"rate", "transient"}
Classes == {"quota", "auth", "rate", "transient", "lost", "unknown"}

Closed == [state |-> "closed", failures |-> 0]

ModelInit ==
  /\ \E s \in Setups :
       /\ ring = s.ring
       /\ llm = [c \in ModelCalls |-> [by |-> s.by[c], at |-> "new", index |-> 1,
                                       attempt |-> 0, error |-> "none"]]
  /\ llmLog = 0
  /\ dayTokens = 0
  /\ redisTokens = 0
  /\ modeCount = 0
  /\ modeCools = FALSE
  /\ codeCache = FALSE
  /\ breaker = [p \in Keyed |-> Closed]

At(c, gateway, at) == llm[c].by = gateway /\ llm[c].at = at
CallGoes(c, at) == llm' = [llm EXCEPT ![c].at = at]
CallFails(c, e) == llm' = [llm EXCEPT ![c].at = "failed", ![c].error = e]
Provider(c) == ring[llm[c].index]

-----------------------------------------------------------------------------
(* ModelService. *)

\* Mutant: a transient error is final
ErrorOf_NoFallback(c, e) ==
  IF e \in (Fallbackable \ {"transient"}) /\ llm[c].index < Len(ring)
    THEN llm' = [llm EXCEPT ![c].at = "new", ![c].index = @ + 1, ![c].attempt = 0]
    ELSE CallFails(c, e)

\* The catch of completeText, and of an expert's execute.
ErrorOf(c, e) ==
  IF e \in Fallbackable /\ llm[c].index < Len(ring)
    THEN llm' = [llm EXCEPT ![c].at = "new", ![c].index = @ + 1, ![c].attempt = 0]
    ELSE CallFails(c, e)

\* enforceLlmRateLimit, called once for a provider and not for each attempt.
Counted(c, at) ==
  IF llmLog < CallsPerMinute
    THEN llmLog' = llmLog + 1 /\ CallGoes(c, at)
    ELSE CallGoes(c, Limited) /\ UNCHANGED llmLog

\* A chat provider without a key is refused before it is counted; the message
\* of the Gemini stub is of no class.
completeText(c) ==
  /\ At(c, "service", "new")
  /\ \/ /\ Provider(c) \notin Keyed /\ Provider(c) /= "gemini"
        /\ ErrorOf(c, "auth")
        /\ UNCHANGED llmLog
     \/ /\ Provider(c) \in Keyed \/ Provider(c) = "gemini"
        /\ Counted(c, "asked")
  /\ UNCHANGED <<ring, dayTokens, redisTokens, modeCount, modeCools, codeCache, breaker>>

\* The loop of withRetry after a failed attempt.
withRetry(c, e) ==
  IF e \in Retryable /\ llm[c].attempt < ModelRetries
    THEN llm' = [llm EXCEPT ![c].attempt = @ + 1]
    ELSE ErrorOf(c, e)

AttemptFails(c, classes) ==
  /\ \E e \in classes : withRetry(c, e)
  /\ UNCHANGED shared

\* recordSessionTokenUsage throws away the answer that reaches the quota.
recordUsage(c, outcomes) ==
  /\ \E n \in Tokens : dayTokens' = dayTokens + n
  /\ IF dayTokens' >= DailyTokens THEN CallGoes(c, "overQuota")
     ELSE \E o \in outcomes : IF o = "answered" THEN CallGoes(c, o) ELSE ErrorOf(c, o)
  /\ UNCHANGED <<ring, llmLog, redisTokens, modeCount, modeCools, codeCache, breaker>>

\* A 401 becomes "lost": an API key cannot be refreshed.
callWithAuthRetry == {"quota", "rate", "transient", "lost", "unknown"}

\* The arguments of the tool calls are parsed after the usage is recorded.
openAICompatibleChat(c) ==
  /\ At(c, "service", "asked") /\ Provider(c) \in Chat
  /\ AttemptFails(c, callWithAuthRetry) \/ recordUsage(c, {"answered", "unknown"})

openAIResponses(c) ==
  /\ At(c, "service", "asked") /\ Provider(c) = "openai"
  /\ AttemptFails(c, callWithAuthRetry) \/ recordUsage(c, {"answered"})

anthropicChat(c) ==
  /\ At(c, "service", "asked") /\ Provider(c) = "anthropic"
  /\ AttemptFails(c, callWithAuthRetry) \/ recordUsage(c, {"answered"})

generateContent(c) ==
  /\ At(c, "service", "asked") /\ Provider(c) = "gemini"
  /\ \/ AttemptFails(c, IF Provider(c) \in Keyed THEN Classes \ {"lost"} ELSE {"unknown"})
     \/ Provider(c) \in Keyed /\ recordUsage(c, {"answered"})

-----------------------------------------------------------------------------
(* OmniRoute. *)

callRoutedTextModel(c) ==
  /\ At(c, "routed", "new")
  /\ Counted(c, "preflight")
  /\ UNCHANGED <<ring, dayTokens, redisTokens, modeCount, modeCools, codeCache, breaker>>

\* The budget is read, or the read fails and counts as zero.
getBudgetUsage(c) ==
  /\ At(c, "routed", "preflight")
  /\ \E read \in {redisTokens, 0} :
       CallGoes(c, IF read > SessionBudget THEN "overQuota" ELSE "asked")
  /\ UNCHANGED shared

callOmniRoute(c) ==
  /\ At(c, "routed", "asked")
  /\ \/ \E e \in {"transient", "rate", "auth"} : CallFails(c, e) /\ UNCHANGED redisTokens
     \/ \E n \in Tokens \cup {0} : redisTokens' = redisTokens + n /\ CallGoes(c, "answered")
  /\ UNCHANGED <<ring, llmLog, dayTokens, modeCount, modeCools, codeCache, breaker>>

-----------------------------------------------------------------------------
(* LLMClient.generateCode: the cache, then FreeLLMAPI or the breakers. *)

generateCode(c) ==
  /\ \E g \in {"free", "direct"} : At(c, g, "new")
  /\ IF codeCache THEN CallGoes(c, "answered")
     ELSE CallGoes(c, IF llm[c].by = "free" THEN "guard" ELSE "choose")
  /\ UNCHANGED shared

\* assertCanCallMode: the window counts the requests that have been answered.
canCallMode(c) ==
  /\ At(c, "free", "guard")
  /\ CallGoes(c, IF ~modeCools /\ modeCount < ModeLimit THEN "asked" ELSE Limited)
  /\ UNCHANGED shared

\* A 429 that names the provider it was routed to cools that name down, which
\* canCallMode never asks for.
callSelinaLLM(c) ==
  /\ At(c, "free", "asked")
  /\ modeCount' = modeCount + 1
  /\ \/ /\ CallGoes(c, "answered")
        /\ codeCache' = TRUE
        /\ UNCHANGED modeCools
     \/ /\ \E e \in {"rate", "transient"} :
             /\ CallFails(c, e)
             /\ modeCools' \in IF e = "rate" THEN {modeCools, TRUE} ELSE {modeCools}
        /\ UNCHANGED codeCache
  /\ UNCHANGED <<ring, llmLog, dayTokens, redisTokens, breaker>>

Skipped(c) == IF llm[c].index < Len(ring)
                THEN llm' = [llm EXCEPT ![c].at = "choose", ![c].index = @ + 1]
                ELSE CallFails(c, "unknown")

\* generateWithFallback: fire the breaker of the next provider with a key.  An
\* open one refuses; a half-open one lets a single request through.
generateWithFallback(c) ==
  LET p == Provider(c) IN
  /\ At(c, "direct", "choose")
  /\ IF p \notin Keyed \/ breaker[p].state \in {"open", "trial"}
       THEN Skipped(c) /\ UNCHANGED breaker
       ELSE /\ CallGoes(c, "asked")
            /\ breaker' = [breaker EXCEPT ![p].state = IF @ = "halfOpen" THEN "trial" ELSE @]
  /\ UNCHANGED <<ring, llmLog, dayTokens, redisTokens, modeCount, modeCools, codeCache>>

\* A breaker opens at the volume of failures, and again at a failed trial.
FailureCounted(b) ==
  IF b.state = "trial" \/ b.failures + 1 >= BreakerVolume
    THEN [state |-> "open", failures |-> BreakerVolume]
    ELSE [b EXCEPT !.failures = @ + 1]

fire(c) ==
  LET p == Provider(c) IN
  /\ At(c, "direct", "asked")
  /\ \/ /\ CallGoes(c, "answered")
        /\ codeCache' = TRUE
        /\ breaker' = [breaker EXCEPT ![p] = Closed]
     \/ /\ Skipped(c)
        /\ breaker' = [breaker EXCEPT ![p] = FailureCounted(@)]
        /\ UNCHANGED codeCache
  /\ UNCHANGED <<ring, llmLog, dayTokens, redisTokens, modeCount, modeCools>>

resetTimeout(p) ==
  /\ breaker[p].state = "open"
  /\ breaker' = [breaker EXCEPT ![p].state = "halfOpen"]
  /\ UNCHANGED <<ring, llm, llmLog, dayTokens, redisTokens, modeCount, modeCools, codeCache>>

-----------------------------------------------------------------------------
\* Entries of the log leave the minute; the window and the cooldown of the mode
\* end; the cached answer expires.
MinutePasses ==
  /\ \/ llmLog > 0 /\ llmLog' = llmLog - 1 /\ UNCHANGED <<modeCount, modeCools, codeCache>>
     \/ modeCount > 0 /\ modeCount' = 0 /\ UNCHANGED <<llmLog, modeCools, codeCache>>
     \/ modeCools /\ modeCools' = FALSE /\ UNCHANGED <<llmLog, modeCount, codeCache>>
     \/ codeCache /\ codeCache' = FALSE /\ UNCHANGED <<llmLog, modeCount, modeCools>>
  /\ UNCHANGED <<ring, llm, dayTokens, redisTokens, breaker>>

CallStep(c) ==
  \/ completeText(c) \/ openAICompatibleChat(c) \/ openAIResponses(c)
  \/ anthropicChat(c) \/ generateContent(c)
  \/ callRoutedTextModel(c) \/ getBudgetUsage(c) \/ callOmniRoute(c)
  \/ generateCode(c) \/ canCallMode(c) \/ callSelinaLLM(c)
  \/ generateWithFallback(c) \/ fire(c)

ModelNext ==
  \/ \E c \in ModelCalls : CallStep(c)
  \/ \E p \in Keyed : resetTimeout(p)
  \/ MinutePasses

ModelFairness == \A c \in ModelCalls : WF_modelVars(CallStep(c))

ModelSpec == ModelInit /\ [][ModelNext]_modelVars /\ ModelFairness

-----------------------------------------------------------------------------
ModelTypeOK ==
  /\ ring \in {s.ring : s \in Setups}
  /\ llm \in [ModelCalls -> [by : {"service", "routed", "free", "direct"},
       at : {"new", "asked", "preflight", "guard", "choose"} \cup Ended,
       index : 1..Len(ring), attempt : 0..ModelRetries, error : Classes \cup {"none"}]]
  /\ llmLog \in 0..CallsPerMinute
  /\ dayTokens \in Nat /\ redisTokens \in Nat /\ modeCount \in Nat
  /\ modeCools \in BOOLEAN /\ codeCache \in BOOLEAN
  /\ breaker \in [Keyed -> [state : {"closed", "open", "halfOpen", "trial"},
                            failures : 0..BreakerVolume]]

\* A call that one provider failed for a reason another may not share has been
\* put to every provider of the ring before the caller sees the failure.
FallbackExhausted == \A c \in ModelCalls :
  llm[c].by \in {"service", "direct"} /\ llm[c].at = "failed"
    => llm[c].index = Len(ring) \/ llm[c].error \in {"lost", "unknown"}

\* Every call ends: with an answer, or with an error the caller can see.
CallIsSettled(c) == llm[c].at \in Ended
ModelCallsSettle == \A c \in ModelCalls : <>CallIsSettled(c)
=============================================================================
