----------------------------- MODULE MCPlatform -----------------------------
(***************************************************************************)
(* Model checking of the components around the core, which share no state: *)
(* each behaviour is one of component part, and the others stay as they    *)
(* began.                                                                  *)
(***************************************************************************)
EXTENDS AuthSessions, OAuthSignIn, ConnectionLimiter, Idempotency, ModelAccess,
        DagExecution, SharedContext, StagingView, WorkspaceEdits, WorkspaceSearch,
        FixLoop, BrowserAuth, BrowserSession, ToolServers, SandboxRuns,
        BrainSystem, ToolGate, UserRecords, Credentials, RunRecords,
        SchemaStartup, HttpPipeline, MemoryIndex, Recall, PromptContext,
        ExpertTurns, TLC

CONSTANTS c1, c2, c3, v1, v2, x1, x2, k1, k2, k3, k4, q1, q2, m1, m2, e1, e2, e3, n1, n2

VARIABLE part

partVars == <<authVars, oauthVars, limiterVars, idemVars, modelVars, dagVars,
              contextVars, vars, viewVars, editVars, searchVars, fixVars,
              jarVars, sessionPageVars, toolServerVars, sandboxVars, brainVars,
              gateVars, chatVars, prefVars, keyVars, providerVars, recordVars,
              schemaVars, writeVars, httpVars, readyVars, indexVars, calls,
              recallVars, repoVars, promptVars, turnsVars>>

platformVars == <<part, partVars>>

Parts == {"auth", "oauth", "limiter", "idem", "model", "dag", "context", "view",
          "edit", "search", "fix", "browser", "page", "servers", "sandbox", "brain",
          "gate", "chat", "prefs", "keys", "provider", "records", "schema",
          "writes", "http", "ready", "index", "graph", "journal", "recall",
          "repos", "prompt", "turns"}

(* The values of the constants. *)

Setup(one, other, r) == [by |-> (m1 :> one @@ m2 :> other), ring |-> r]

MCSetups ==
  {Setup("service", "service", <<"qwen", "openai", "anthropic">>),
   Setup("service", "service", <<"gemini", "nim">>),
   Setup("service", "routed", <<"nim", "gemini">>),
   Setup("routed", "routed", <<"nim">>),
   Setup("free", "free", <<"nim">>),
   Setup("direct", "direct", <<"gemini", "openai">>)}

MCTrees ==
  {"d" :> "." @@ "f" :> "." @@ "g" :> "d",
   "d" :> "." @@ "c" :> "." @@ "f" :> "d" @@ "g" :> "c",
   "d" :> "." @@ "c" :> "d" @@ "f" :> "c" @@ "g" :> "d"}

MCShellIds == <<"term_1", "term_2">>

MCToolPolicy ==
  "list" :> [type |-> "none", requireApproval |-> FALSE] @@
  "memory" :> [type |-> "write", requireApproval |-> FALSE] @@
  "write" :> [type |-> "write", requireApproval |-> TRUE]
MCToolParams == "list" :> {"p"} @@ "memory" :> {"p"} @@ "write" :> {"p", "q"}

MCReaders == <<"u1", "u2">>

MCTokens == {Credential("external", "j1", "t1", FALSE), Credential("external", "j2", "t1", TRUE)}

MCSymbols == <<"a", "i", "e", "b">>
MCImportOf == "i" :> "e"

MCNamings == {"g1" :> "s1" @@ "g2" :> "s2", "g1" :> "s1" @@ "g2" :> "s1"}
MCTurnRings == {<<"gemini", "chat", "anthropic">>, <<"responses", "gemini">>}
MCReplies == {<<>>, <<"tool">>, <<"create_plan", "tool">>, <<"update_memory">>,
              <<"ask_clarification", "invalid">>}

MCGainOf == "a1" :> 20 @@ "a2" :> 0

-----------------------------------------------------------------------------
\* The components that do not run begin in one of their initial states.
PlatformInit ==
  /\ part \in Parts
  /\ BrowserInit /\ SessionPageInit /\ OAuthInit /\ LimiterInit /\ IdemInit /\ ViewInit
  /\ ModelInit /\ (part /= "model" => \A c \in ModelCalls : llm[c].by = "free")
  /\ DagInit /\ (part /= "dag" => dag.deps = Phases /\ node = Root)
  /\ ContextInit /\ (part /= "context" => \A x \in Executions : execution[x].expert = "code")
  /\ EditInit /\ (part /= "edit" => file = Absent /\ \A e \in Edits : edit[e].tool = "read_file")
  /\ SearchInit /\ (part /= "search" => tree = CHOOSE t \in Trees : TRUE)
  /\ FixInit /\ (part /= "fix" => callbacks)
  /\ ToolServersInit /\ (part /= "servers" => Cardinality(Names) = 1)
  /\ KeysInit /\ (part /= "keys" => retired.j1 = NotRetired)
  /\ ProviderInit /\ (part /= "provider" => credential.kind = "oauth" /\ credential.handler)
  /\ SandboxInit /\ BrainInit /\ GraphInit /\ IndexInit /\ RepoInit
  /\ RecallInit /\ append["a1"].by = "u1" /\ upload["h1"].by = "u1"
  /\ (part \notin {"journal", "recall"} => append["a2"].by = "u1")
  /\ PromptInit /\ (part /= "prompt" => DOMAIN draft.orgs = {} /\ draft.lines = <<>>)
  /\ TurnsInit /\ (part /= "turns" => turnRing[1] = "gemini")
  /\ HttpInit
  /\ ReadyInit /\ (part /= "ready" => ~profile.redisUrl /\ ~profile.redisRequired
                                      /\ ~profile.docker /\ \A d \in DOMAIN alive : alive[d])
  /\ SchemaInit /\ (part /= "schema" => DOMAIN database = {})
  /\ WriteInit /\ (part /= "writes" => \A w \in Writes : write[w].kind = "log")
  /\ RecordsInit /\ (part /= "records" => swarm = {Primary} /\ unwritten = {})
  /\ ChatInit /\ PrefInit /\ GateInit

Only(p) ==
  /\ part = p
  /\ part' = part
  /\ p \notin {"auth", "browser"} => UNCHANGED authVars
  /\ p /= "browser" => UNCHANGED jarVars
  /\ p /= "page" => UNCHANGED sessionPageVars
  /\ p /= "oauth" => UNCHANGED oauthVars
  /\ p /= "limiter" => UNCHANGED limiterVars
  /\ p /= "idem" => UNCHANGED idemVars
  /\ p /= "model" => UNCHANGED modelVars
  /\ p /= "dag" => UNCHANGED dagVars
  /\ p /= "context" => UNCHANGED contextVars
  /\ p /= "view" => UNCHANGED <<vars, viewVars>>
  /\ p /= "edit" => UNCHANGED editVars
  /\ p /= "search" => UNCHANGED searchVars
  /\ p /= "fix" => UNCHANGED fixVars
  /\ p /= "servers" => UNCHANGED toolServerVars
  /\ p /= "sandbox" => UNCHANGED sandboxVars
  /\ p /= "brain" => UNCHANGED brainVars
  /\ p /= "gate" => UNCHANGED gateVars
  /\ p /= "chat" => UNCHANGED chatVars
  /\ p /= "prefs" => UNCHANGED prefVars
  /\ p /= "keys" => UNCHANGED keyVars
  /\ p /= "provider" => UNCHANGED providerVars
  /\ p /= "records" => UNCHANGED recordVars
  /\ p /= "schema" => UNCHANGED schemaVars
  /\ p /= "writes" => UNCHANGED writeVars
  /\ p /= "http" => UNCHANGED httpVars
  /\ p /= "ready" => UNCHANGED readyVars
  /\ p /= "index" => UNCHANGED indexVars
  /\ p /= "graph" => UNCHANGED calls
  /\ p \notin {"journal", "recall"} => UNCHANGED recallVars
  /\ p /= "repos" => UNCHANGED repoVars
  /\ p /= "prompt" => UNCHANGED promptVars
  /\ p /= "turns" => UNCHANGED turnsVars

PlatformNext ==
  \/ Only("auth") /\ AuthNext
  \/ Only("browser") /\ BrowserNext
  \/ Only("page") /\ SessionPageNext
  \/ Only("oauth") /\ OAuthNext
  \/ Only("limiter") /\ LimiterNext
  \/ Only("idem") /\ IdemNext
  \/ Only("model") /\ ModelNext
  \/ Only("dag") /\ DagStep
  \/ Only("context") /\ ContextNext
  \/ Only("view") /\ ViewNext
  \/ Only("edit") /\ EditNext
  \/ Only("search") /\ SearchNext
  \/ Only("fix") /\ FixNext
  \/ Only("servers") /\ ToolServersNext
  \/ Only("sandbox") /\ SandboxNext
  \/ Only("brain") /\ BrainStep
  \/ Only("gate") /\ GateNext
  \/ Only("chat") /\ ChatNext
  \/ Only("prefs") /\ PrefNext
  \/ Only("keys") /\ KeysNext
  \/ Only("provider") /\ ProviderNext
  \/ Only("records") /\ RecordsNext
  \/ Only("schema") /\ SchemaNext
  \/ Only("writes") /\ WriteNext
  \/ Only("http") /\ HttpNext
  \/ Only("ready") /\ ReadyNext
  \/ Only("index") /\ IndexNext
  \/ Only("graph") /\ GraphNext
  \/ Only("journal") /\ JournalNext
  \/ Only("recall") /\ RecallNext
  \/ Only("repos") /\ RepoNext
  \/ Only("prompt") /\ BuildPrompt
  \/ Only("turns") /\ TurnsNext

\* What each module assumes of its own steps.  As a behaviour is one of one part,
\* fairness of a disjunction of steps of different parts is fairness of each.
Seats == {<<q1, m1, n1>>, <<q2, m2, n2>>}

SeatProgress(s) ==
  \/ part = "idem" /\ KeyedProgress(s[1]) /\ Only("idem")
  \/ part = "model" /\ CallStep(s[2]) /\ Only("model")
  \/ part = "fix" /\ StartStep(s[3]) /\ Only("fix")
  \/ part = "dag" /\ DagStep /\ Only("dag")
  \/ part = "search" /\ SearchNext /\ Only("search")
  \/ part = "servers" /\ ServerAnswers /\ Only("servers")
  \/ part = "sandbox" /\ (\E x \in SandboxCalls : RunStep(x)) /\ Only("sandbox")
  \/ part = "brain" /\ BrainStep /\ Only("brain")
  \/ part = "provider" /\ OutwardProgress /\ Only("provider")
  \/ part = "records" /\ RunProgress /\ Only("records")
  \/ part = "schema" /\ (\E x \in Servers : ServerStarts(x)) /\ Only("schema")
  \/ part = "writes" /\ WriteNext /\ Only("writes")
  \/ part = "turns" /\ TurnStep /\ Only("turns")

PlatformFairness == \A s \in Seats : WF_platformVars(SeatProgress(s))

PlatformSpec == PlatformInit /\ [][PlatformNext]_platformVars /\ PlatformFairness

-----------------------------------------------------------------------------
\* The state of the component that runs has its types, of which some bind: no
\* counter below zero, one entry per name, attempts and rollbacks within limits.
PlatformTypesOK ==
  /\ part \in Parts
  /\ part = "auth" => AuthTypeOK
  /\ part = "browser" => BrowserTypeOK
  /\ part = "page" => SessionPageTypeOK
  /\ part = "oauth" => OAuthTypeOK
  /\ part = "limiter" => LimiterTypeOK
  /\ part = "idem" => IdemTypeOK
  /\ part = "model" => ModelTypeOK
  /\ part = "dag" => DagTypeOK
  /\ part = "context" => ContextTypeOK
  /\ part = "view" => ViewTypeOK
  /\ part = "edit" => EditTypeOK
  /\ part = "search" => SearchTypeOK
  /\ part = "fix" => FixTypeOK
  /\ part = "servers" => ToolServersTypeOK
  /\ part = "sandbox" => SandboxTypeOK
  /\ part = "brain" => BrainTypeOK
  /\ part = "gate" => GateTypeOK
  /\ part = "chat" => ChatTypeOK
  /\ part = "prefs" => PrefTypeOK
  /\ part = "keys" => KeysTypeOK
  /\ part = "provider" => ProviderTypeOK
  /\ part = "records" => RecordsTypeOK
  /\ part = "schema" => SchemaTypeOK
  /\ part = "writes" => WriteTypeOK
  /\ part = "http" => HttpTypeOK
  /\ part = "ready" => ReadyTypeOK
  /\ part = "index" => IndexTypeOK
  /\ part = "graph" => GraphTypeOK
  /\ part \in {"journal", "recall"} => RecallTypeOK
  /\ part = "repos" => RepoTypeOK
  /\ part = "prompt" => PromptTypeOK
  /\ part = "turns" => TurnsTypeOK

\* A token, a code or a link signs in at most once, whoever shows it again.
OneTimeUse == RotationIsOneTime /\ HandoffIsOneTime

\* A refresh token shown again ends the session it was stolen from, and a
\* refresh of an honest browser is never taken for the use of a stolen one; the
\* server itself shows the refresh token of a provider once.
ReuseDetection ==
  CaughtReuseEnds /\ RefreshIsShared /\ (part = "browser" => HonestNeverSuspected)

\* Gates let pass what they should, whatever overlaps: connections within the
\* limit of their address, calls of tools that work and have their consent,
\* requests with keys and tenants of theirs, pages with the token they fetched, and
\* prompts as soon as what the server needs has answered, and nothing of a session
\* that has stopped.  Nothing goes ahead of what it waits for: a call of a model
\* fails when its ways out have been tried, no worker of the brain builds before the
\* sync tasks are done, and statements find the columns and tenants that they name.
GatesHold ==
  /\ AddressLimit /\ ToolsAreGated /\ RetiredKeysExpire /\ TenantsAreApart
  /\ NoVainRefusal /\ ReadyIfNeededAnswer /\ StoppedIsStopped
  /\ FallbackExhausted /\ BrainInOrder /\ StatementsFitSchema /\ TenantsComeFirst

\* The browser shows neither an older version than it has shown before nor the
\* events of a page that was left, a wait of the server is on the screen, and a
\* conversation is shown as it is stored.
ScreenIsCurrent == NeverOlderThanShown /\ PageFollowsServer /\ TranscriptIsCurrent

\* What was written stays written, unless its writers overlap: turns of a
\* conversation, edits of a file, the tools of registered servers, the messages and
\* settings of a user, the end of a run, entries of the journal and of the memory of
\* a user; a write that is repeated, once.  What the indexer has recorded is found
\* in the index, what is known of a repository is the index of its mirror, and an
\* upload that was answered is stored in full.
NothingIsLost ==
  /\ TurnsAreShared /\ LostOnlyInRaces /\ RegisteredIsListed
  /\ OwnRowsOnly /\ SettingsAreKept /\ RecordsTellTheEnd /\ RepeatedOnce
  /\ RecordedIsRecalled /\ MemoryIsKept /\ IndexFollowsMirror

\* What is gathered for an answer is what was asked for: a walk through the call
\* graph finds what it promises, sources come before what was learned, the
\* constraint of highest priority survives the cutting of a prompt, and the chunks
\* of an upload are its tokens, all of them and in order.
EvidenceIsExact ==
  /\ part = "graph" => WalksAreDeepEnough
  /\ SourceFirst /\ HighestSurvives /\ ChunksAddUp

SeatSettled(s) ==
  /\ part = "idem" => KeyedIsAnswered(s[1])
  /\ part = "model" => CallIsSettled(s[2])
  /\ part = "fix" => StartIsSettled(s[3])
  /\ part = "dag" => DagIsOver
  /\ part = "search" => SearchIsOver
  /\ part = "servers" => RegistrationsAreSettled
  /\ part = "sandbox" => SandboxesHaveAnswered
  /\ part = "brain" => BrainIsOver
  /\ part = "provider" => OutwardSettled
  /\ part = "records" => RunIsOver
  /\ part = "schema" => \A x \in Servers : ServerIsSettled(x)
  /\ part = "writes" => \A w \in Writes : ~IsRepeated(w)
  /\ part = "turns" => TurnsAreOver

\* Whoever waits is answered: requests with an idempotency key, calls of a
\* model, runs of the fix loop; the execution of a task graph, a search of the
\* workspace with fewer directories than places, registrations of tool servers
\* that work, runs in containers, runs of the brain system and turns of an expert.
RequestsSettle == \A s \in Seats : []<>SeatSettled(s)
=============================================================================
