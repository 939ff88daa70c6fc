# A TLA+ development for Vibe-Hub

Vibe-Hub (backend name: Selina) is a web IDE whose agents plan, edit and run
code for a user. A browser talks to a Node server over a WebSocket; the server
runs agent loops that call language models, and calls back into the browser for
tools, questions and approvals. Edits an agent proposes are *staged* and reach
the disk only through an HTTP request that approves them.

Everything on the server happens in one event loop. There are no data races,
but every `await` lets other handlers run, timers fire and sockets close. What
is hard about this code is what it reads before an `await` and uses after it,
and who settles which promise. That is what the modules here are about.

## 1. Inventory

Paths are relative to `src/backend` unless they begin with `frontend`.

| Component | State | Operations | Interacts with | Hard part |
|---|---|---|---|---|
| Staging area, `vfs/container.js` | `staging` map, `totalStagedSize` | stage, approve, reject, commit, expire | commit handler of `orchestrator/router.js`, coding state machine, cleanup interval | commits await the disk while entries change |
| WebSocket session, `index.js` 948-1926 | three maps of pending promises, `aborted`, `currentRunIdentity`, idle timer | prompt, responses, tool calls, delegation, pause, revoke, close | governor, approval engine, orchestrator, browser | answers, timers and the end of the socket race |
| Run slots, `auth/concurrency-governor.js` | set of run ids and lease timers per user | acquire, release, lease timeout | sessions, HTTP handler, job queue | slots and runs may part |
| Approval engine, `auth/approval-engine.js` | leases, rules | request, prune | tool calls of all sessions | race of the user and the timeout |
| Task queue, `orchestrator/task-manager.js` | tasks, order, `_running`, `_aborted` | add, cancel, prioritize, run, abort | session messages, orchestrator | messages change the array a run iterates over |
| Orchestrator, `orchestrator/index.js` | experts with their execution contexts, shared context | handlePrompt, expert loop, swarm, flush | experts, session callbacks, run store | loops of a swarm and of other prompts share the experts |
| Coding state machine, `orchestrator/state_machine.js` | xstate actor, retries | draft, sandbox, evaluate, stage, abort | staging area, Socket.io | abort against completion |
| Job queue, `orchestrator/job-queue.js` | lanes in Redis, pressure counters | enqueue, process, retry, dead-letter | HTTP handler, governor, coding state machine | slots held over retries, best-effort dead letters |
| Auth sessions, `auth/session.js` | sessions and refresh tokens in the database | create, rotate, revoke, cleanup callbacks | every handler | reads and writes that are not one transaction |
| WebSocket counters, `index.js` 289-347 | counts per address and user | register, release | connection handlers | counts must match connections |
| Idempotency, `utils/idempotency.js` | markers in a cache | first, duplicate, replay | HTTP routes | the marker is not set atomically |
| OAuth, `auth/google.js`, `auth/github.js`, `auth/oauth-store.js` | state tokens and handoff codes, as rows or in memory | begin, callback, exchange | browser, provider, auth sessions | rows whose insert failed, or only seemed to |
| Credentials, `auth/external-jwt.js`, `auth/tenant.js`, `auth/agent-auth.js` | cached keys, provider tokens | authenticate, refresh | identity provider | keys that arrive late and stay |
| Tool gate, `orchestrator/tool-execution-policy.js`, `auth/action-grants.js` | circuit per tool, grants | authorize, consent, record | session, HTTP clients, approval engine | the circuit is read before a wait; leases and grants outlive their call |
| Model access, `orchestrator/models.js`, `llm_client.js`, `routing/` | quotas, breakers, caches | call, retry, fall back | providers | which failure permits what |
| Turns of an expert, `orchestrator/expert-base.js` | the conversation with a provider | ask, execute calls, fall back | providers, tools | a tool's failure reads like a provider's |
| Shared history, `orchestrator/context.js` | the turns of a conversation | read, commit, compress, flush | experts | an expert replaces what others share |
| DAG machine, `orchestrator/state-machine.js` | node, attempts, checkpoints | phases, rollback | Git, callbacks | which checkpoint a rollback finds |
| Brain system, `orchestrator/brain-system.js` | ledger of solutions, tasks | two routes | models, sandbox | the fallback between the routes |
| Memory, `memory/` | index, journal, evidence cache, uploads | index, recall, append | database, embeddings | a crash between two records; a cache keyed by too little |
| Repositories and prompts, `orchestrator/repository_manager.js`, `context-builder.js` | mirrors, constraints | link, pull, build | Git | one directory for one name |
| Tool servers, `mcp/` | processes, registry | register, list, call | child processes | answers that never come |
| Sandboxes, `sandbox/` | containers, directories | run | docker | the timer kills the client, not the container |
| Run records, `orchestrator/run_store.js`, `rollout_recorder.js` | rows, status files | begin, end | orchestrator | every write may fail in silence |
| Database and start, `db.js`, `index.js` | schema | create, migrate, retry | all | servers that start together; old schemas |
| HTTP gates, `index.js`, `utils/` | CSRF tokens, readiness | admit | browser | windows that share a cookie |
| Browser, `frontend/src` | staged files on view, workspace files, terminal, tabs, socket, conversations, settings | see section 3 | all of the above | answers that arrive after the page moved on |

What makes each correct:

* **Staging area**: only approved bytes reach a file; only the owner approves;
  nothing leaves the area unreviewed; the limits hold and the accounting is exact.
* **Session**: every prompt ends; nobody waits for a promise that is in no map;
  nothing starts after the end; the session names the run it is working for.
* **Slots**: never more runs than the limit; no slot outlives its run.
* **Approvals**: a lease comes only from an answer the call still waited for, and
  lets through calls of its run and tool only, for its time; a grant is for one call.
* **Task queue**: one task at a time, in order; an abort holds; nothing is left
  behind; a failing task stops no other.
* **Coding runs and jobs**: drafts stay within the budget of their effort; a run
  that is over listens to nothing and stages nothing; counters and slots return;
  every job ends, in a dead letter if it must.
* **Tokens**: each signs in once; one shown again is noticed; no honest tab is
  suspected.
* **Turns**: a provider is asked when its calls are answered, and an answer
  reports the calls made for it.
* **Stores**: what was written stays unless the code's own races lose it; a
  screen never goes back to what it showed before.
* **Orchestrator**: a completed run has nothing running; an expert works in the
  name of the loop that uses it; every run ends; completed means verified.

The hazards, each at its line, are listed in `PROJECT.json` with the properties
that watch them; a note says what a property leaves out because the code does.

## 2. Plan

The order was that of importance: the gate that keeps agents off the disk
(`VFSContainer`), the session (`AgentSession`), the queue (`TaskManager`) and the
loops (`AgentLoop`), which are also proved about; then coding runs and their jobs
(`CodingAgent`, `CodeJobs`), tokens (`AuthSessions`, `OAuthSignIn`, refining
`OneTimeTokens`), the browser's side of what exists (`StagingView` on
`VFSContainer`, `BrowserAuth` on `AuthSessions`), and the components around them.

What is left: `AgentSession` composed with `AgentLoop`, so that members of a swarm
interact with the session at once, and with `BrowserSession` at the other end.
Every safety property that a run checks is also proved (section 5); of what is
checked, the proofs leave out liveness alone.

## 3. Modules

| Module | Models | Rests on |
|---|---|---|
| `ApprovalGate` | what the staging area promises: files change only to bytes approved for them by their owner | |
| `VFSContainer` | `vfs/container.js` and `handleCommitRequest` | refines `ApprovalGate` |
| `VFSContainerProofs` | theorems about it | `VFSContainer` |
| `ConcurrencyGovernor` | `auth/concurrency-governor.js`, one user | |
| `AgentSession` | the connection handler of `index.js` and `auth/approval-engine.js` | extends `ConcurrencyGovernor` |
| `AgentSessionProofs` | theorems about it | `AgentSession` |
| `TaskManager` | `orchestrator/task-manager.js` and its messages | |
| `TaskManagerProofs` | theorems about it | `TaskManager` |
| `AgentLoop` | `handlePrompt` and `runExpertLoop` of `orchestrator/index.js` | |
| `AgentLoopProofs` | theorems about it | `AgentLoop` |
| `CodingAgent` | `executeWithStateMachine` driving `orchestrator/state_machine.js` | |
| `CodeJobs` | coding requests from handler to end: slots, lane, worker, session, run | extends `ConcurrencyGovernor`, `CodingAgent` |
| `CodeJobsProofs` | theorems about it | `CodeJobs` |
| `OneTimeTokens` | what the server promises of tokens it accepts once | |
| `AuthSessions` | `auth/session.js`, one user | refines `OneTimeTokens` |
| `OAuthSignIn` | `auth/google.js`, `auth/github.js`, `auth/oauth-store.js`, the exchange | refines `OneTimeTokens` |
| `BrowserAuth` | tabs of one browser, `services/api.js` | extends `AuthSessions` |
| `OneTimeTokenProofs` | theorems about tokens, handoffs and the tabs, keys and tenants (`Credentials`), and the gates of a route (`HttpPipeline`) | `BrowserAuth`, `OAuthSignIn`, `Credentials`, `HttpPipeline` |
| `StagingView` | the review of staged files, `store/useVfsStore.js` | extends `VFSContainer` |
| `BrowserSession` | the page at the other end of the agent's socket, `hooks/useAgent.js` | |
| `UserRecords` | conversations and settings, browser and server | |
| `WorkspaceEdits`, `WorkspaceSearch` | the tools of the browser's workspace, `vfs/container.js` | |
| `FixLoop` | `services/AgentLoop.js` and its terminal | |
| `ConnectionLimiter` | admission of sockets, `index.js` | |
| `Idempotency` | `utils/idempotency.js` and its cache | |
| `HttpPipeline` | gates of HTTP routes, CSRF tokens, readiness | |
| `Credentials` | keys of the identity provider, tenants, provider tokens | |
| `ToolGate` | circuit, permission, consent, leases and grants of tools | |
| `ModelAccess` | retries, fallbacks, quotas, breakers of model calls | |
| `ExpertTurns` | the ReAct loops of `orchestrator/expert-base.js` | |
| `SharedContext` | the history experts share | |
| `DagExecution` | `orchestrator/state-machine.js`, checkpoints, rollbacks | |
| `BrainSystem` | `orchestrator/brain-system.js` and its workers | |
| `RunRecords` | run records and rollout directories | |
| `MemoryIndex`, `Recall`, `PromptContext` | indexing and call graph; journal, evidence and uploads; mirrors and prompts | |
| `ToolServers` | `mcp/` | |
| `SandboxRuns` | `sandbox/docker_executor.js` | |
| `SchemaStartup` | `initDB`, `db-migrate.js`, `withRetry` of `db.js`, start and end of the server | |
| `MCVFSContainer`, `MCCodeJobs`, `MCPlatform` | instances for TLC; `MCPlatform` runs the components around the core | |
| `RecordProofs` | theorems about `ExpertTurns`, `UserRecords`, `SharedContext`, `WorkspaceEdits`, `RunRecords`, `BrainSystem`, `MemoryIndex`, `PromptContext`, `ToolServers`, `SchemaStartup`, `ModelAccess`, `Recall` | those |
| `PlatformProofs` | theorems about `SandboxRuns`, `ConnectionLimiter`, `Idempotency`, `ToolGate`, `DagExecution`, `FixLoop`, `WorkspaceSearch`, `StagingView`, `BrowserSession`, and about the platform | `MCPlatform`, `OneTimeTokenProofs`, `RecordProofs`, `VFSContainerProofs` |

Definitions named `X_Something` in a module are faulty variants of `X`, each
with a comment that says which bug it stands for. No action uses them; they are
there to show that the property they break depends on `X`.

### Staging area

A *version* is the entry object `stage()` creates; its id stands for its content,
which never changes. `staging` maps a path to a status and a version,
`disk` maps a path to the set of versions whose bytes the file holds: the empty
set is the untouched or truncated file, two versions are a file torn between
writers. `approvals` is history. A commit request is a small process:

| Action | Code |
|---|---|
| `Stage` | `stage`, `stageFile` with the three limits |
| `RejectFile`, `ApproveFile` | the two ways `handleCommitRequest` begins; the second ends at the `await` of `approveFile` |
| `StartCommit`, `RefuseCommit` | `commitToDisk` looks the entry up again, up to `mkdir` |
| `OpenFile`, `WriteFile`, `CommitFails` | `fs.writeFile` truncates, writes, or fails midway |
| `FinishCommit` | the code after the `await`: subtracts the size of the entry it *wrote*, deletes the entry the path *has* |
| `ClearExpired` | the cleanup interval; ages are modelled by the order of staging |

Ignored and escaping paths never enter. `commit`, `commitAll`, `reject` and
`clearOldEntries` have no caller in the server and are left out, so the component
is listed as partly modelled.

### Session, slots and approvals

A run's prompt handler is a thread with a `phase`: `checking` (the await of
`assertSessionStillValid`), `running`, one of four waits (`calling` a browser
tool, `asking` a question, `planning`, `approving` a write tool), `granting`
(the await of `insertAgentActionGrant`), `done`. `pending` is the union of the
three maps; an interaction is named by its run, its number and the map it is in.
`saved` holds the identities the handler and its delegations will put back;
`leases` the approvals that still count, keyed by run id and tool as in
`leaseKey`. `tangled` is history: prompts overlapped, or a session check threw.

The orchestrator inside a run is abstracted to interactions in any order and
number, ending at any time between two of them; that covers a loop that swallows
a failed tool call as well as one that passes the error on. A run is one thread:
members of a swarm that interact at once are `AgentLoop`'s subject. A message of
a suspended user, malformed messages and the GitHub credentials change nothing
that is modelled. The governor's `userId` is fixed: users share no slots. The
socket may close by itself, after a revocation, or through the error event,
which the code handles alike.

### Task queue

`array` is the JavaScript array that the `for ... of` of `runQueue` iterates over
and `at` the position of the iteration; `shared` says that it still is
`this.order`. `addTask` pushes in place and so feeds a run under way as long as
`shared`; `prioritizeTask` builds another array and ends the sharing. Between the
end of a task and the start of the next there is no `await`, so `Advance` is one
step with the end of the task. A task's own execution is one step from `running`
to its result, then the journal entry, during which messages arrive. The
iteration skips tasks that are not pending, as the code's `continue` does.

### Expert loops

Each run starts one loop per domain of its swarm. A loop is named by its run and
its domain, and has a stack of `frames`: the security gate rejects every answer
that has content, whereupon `runExpertLoop('code')` runs inside the first loop.
A frame remembers the expert it took and the context it found there. `pc` says
what the loop awaits: the expert, the reroute, the reviewer, the build, or the
record of its outcome. `overlap` is history: some loop found its expert taken.

### Coding runs and jobs

A request, its BullMQ job and its execution share one name. `req` is where the
HTTP handler is, `job` where the lane has it (`waiting`, `delayed`, in a step of
the worker's processor, or over), `agent` the state of its XState machine. Redis
and BullMQ are external: delivery to a free place, retries after a throw, a job
given back uncounted when the lane is rate limited, stalled jobs of a dead worker
delivered again. `Crash` ends a process with all that is in its memory: slots,
counters, listeners and machines. `Logout` and `CleanupTriggered` are the two
ways a session's end aborts a run. Without a queue the handler executes the run.
Each await of the worker is a step of its own: a job reads the counter (`checking`)
and raises it later (`passed`), so two may read it together and both pass; an
exhausted job is moved to failed by BullMQ, and the failed handler files it later
(`unfiled`), unless its write fails or the process dies first.

### Tools and consent

A call of a tool names its run, tool and parameters (`of`). `approvalLeases` is the
map of the approval engine, from run and tool to the time the lease expires: under
a lease the call executes unasked, with whatever parameters, and what was asked
before a lease came still waits for its own answer. `granted` are the grants of
HTTP clients, for which leases do not count. `gateClock` lets both expire while
calls are under way. `consent` is history: which calls the user approved, and when.

### One-time tokens

`OneTimeTokens` says what is kept although the code looks a row up, marks it and
honours it in separate queries: whoever is served saw the token open, the token
is closed by then, and nothing closed opens again. It does *not* say that one
caller is served, which is false for calls that look at once. The modules
`AuthSessions` and `OAuthSignIn` each define the mapping next to the property.

### The review of staged files

`StagingView` adds to the staging area the messages of the runs on their way to a
browser and the view that shows them. The user answers what the view shows with a
request that names the path only; `vfs_unseen` shows what that means.

### Turns of an expert

A provider is one of four kinds, each with its loop. `conversation` holds the
replies that had calls and the results put to the provider since; a failure of
any kind either ends the execution or begins it anew at the next provider
(`TurnFails`), decided from the text of the error alone. `stopped` is the end of
the session, noticed by the next call of a tool.

### The platform

`MCPlatform` holds components that share no state. A variable `part` chooses one
of them in the initial state, and the others stay as they began, so that one run
checks the sum of their state spaces and not the product. Each component's module says in its header what it
leaves to the environment.

## 4. Runs

| Run | Expected | States | Shows |
|---|---|---|---|
| `vfs` | pass | 1.2 million (with symmetry) | approvals, accounting, refinement of `ApprovalGate` |
| `vfs_held` | violation | | a version staged during a commit is dropped unreviewed |
| `vfs_limit` | violation | | the total limit fails after two overlapping commits |
| `vfs_unseen` | violation | | an approval counts for a version that was never shown |
| `session` | pass | 112 thousand | slots, no stranded run, identities, leases, nothing after the end, every prompt ends |
| `session_limit` | violation | | more runs execute than the limit says, after a lease timer |
| `tasks` | pass | 10 thousand | one task, aborts, order, nothing left behind, every task settles |
| `tasks_order` | violation | | a task moved to the front during a run is not next |
| `loop` | pass | 560 thousand | completion, contexts, every run ends |
| `loop_verified` | violation | | a run is completed without a build that passed |
| `jobs` | pass | 252 thousand | draft budgets, listeners, backpressure, dead letters, slots, every job ends |
| `platform` | pass | 403 thousand | the components around the core, each alone |

The properties are stated, each with the code or the text it is about, at the
end of each module. A few words on those that say less than one may expect:

* `AccountingExact` excludes exactly one step: a commit that ends on an entry it
  did not write. `vfs_limit` shows what that step does.
* `Untangled` speaks of prompts that do not overlap. When they do, each puts back
  what it found, in whatever order they end, and the session may name a finished
  run; that is recorded as a hazard.
* `SlotsBound` bounds the slots; that executing runs are bounded is false, and
  `session_limit` shows it.
* `OwnContext` speaks of loops that do not meet on an expert, for the same reason.
* `RunDrains` and `OrderFollowed` make the exception `reordered`, and
  `tasks_order` shows that it is needed.
* The properties of `platform` collect those of several components under one
  theme, each conjunct defined and explained in its component's module:
  `OneTimeUse` (both refinements of `OneTimeTokens`), `ReuseDetection`,
  `GatesHold`, `NothingIsLost`, `EvidenceIsExact`, `ScreenIsCurrent`,
  `RequestsSettle`. A property that excepts a race of the code keeps a history
  variable for it (`tangled`, `passedOver`) and names the race.
* `ReportIsWhatRan` is about the provider that answered. What tools did under one
  that failed is neither undone nor reported.

That a file on disk belongs to its owner's approval and that the number of staged
files is bounded (`ApprovedByOwner`, `FileLimit`) hold for every instance by the
theorems of section 5, and are not run again.

### Bounds

* `vfs`: three paths, two users, two overlapping requests, three versions, sizes
  1 to 3 with a file limit of 2, a total limit of 3 and 2 files. Three versions
  let a path be replaced while a commit of it runs and another path fill the
  area; sizes straddle both limits; three paths exceed the limit of files.
* `session`: two prompts, one slot, two interactions of all runs together, two
  write tools. Two prompts overlap, follow each other, and compete for the slot;
  two interactions are a tool call inside a delegation, or a lease taken by one
  call and used by the next. `MaxPrompts` equals the number of runs, so that the
  rate limit refuses a third.
* `tasks`: three tasks: one running, and two that can be swapped.
* `loop`: two runs, two domains (one of them `security`, which reroutes to the
  other), two iterations per loop (the code's 3 and 5 differ from it in number
  only), at most two loops when a run starts. A quick run ends in its first
  iteration.
* `jobs`: two requests of different effort, one of them with a session, one slot,
  two attempts and two starts per job, two places in the lane and a backpressure
  limit of one, one crash. Two jobs compete for the slot and the limit, and one
  may be given up while the other runs; both may read a counter of zero, and then
  it reaches two. A second crash repeats the first.
* `platform`: two or three actors of each kind on one or two shared objects, and
  limits of one or two; `platform.cfg` gives each. Three authentication calls let
  a thief's refresh overlap an honest one and a later sign-in prune the session;
  four sockets exceed a limit of two while one is on its way out; two calls of
  tools, two runs and two moments let a lease meet a call of another run, of
  other parameters and after its time, and likewise a grant; three edits let
  one read before and write after another; two kinds of providers with two
  rounds let a failure come before, between and after the calls of a reply.
  Constants that list cases (`MCSetups`, `MCTrees`, `MCReplies`) hold one of each
  case the code tells apart.

Symmetry is used for paths, users and requests of the staging area, whose
properties are all safety; not where liveness is checked. `CHECK_DEADLOCK` is
off everywhere: a server with nothing to do stands still.

### Fairness

The user, the browser and the network owe nothing. In `AgentSession`, what a run
does once its promise is settled is fair, for the event loop runs ready
continuations; so are the timers of interactions and of the approval engine,
which `setTimeout` guarantees, and which a pause or close replaces by a rejection.
In `TaskManager` and `AgentLoop`, prompts, journal writes, models, tools and
records answer or fail in the end: each has a timeout in the code that issues
it, or is a database call. No fairness is assumed about the outcome: `TaskDone \/
TaskFails` is fair, neither of them is. `VFSContainer` has no liveness property
and no fairness. In `CodeJobs`, the chain of awaits of each request (handler,
worker, run) goes on and its lease timer fires; users, the end of the session
and crashes owe nothing.

In `platform`, `SeatProgress` is weakly fair: steps of requests, calls and starts
that the code itself takes or that a timeout of its own ends. A seat is a request,
a call and a start at once, which as a behaviour is one of one part says the same
as fairness of each. Tool servers are an exception, for their requests have no
timeout: only servers that work are fair (`ServerAnswers`), and the property
speaks of their registrations alone. A search that fills every place of its queue
with directories waits for ever; its property speaks of trees that do not.

## 5. Proofs

The theorems hold for every value of the constants that satisfies the named
assumptions of the modules (`VFSAssumption`, `GovernorAssumption`, `AgentAssumption`,
`SessionAssumption`, `LoopAssumption`, `JobsAssumption`, `TurnsAssumption`,
`AuthAssumption`, `LimiterAssumption`, `GateAssumption`, `CredentialsAssumption`,
`HttpAssumption`, `SandboxAssumption`, `ViewerAssumption`, `ReadersAssumption`,
`ContextAssumption`, `EditsAssumption`, `PeersAssumption`, `BrainAssumption`,
`LiveIsAVersion`, `ToolServersAssumption`, `RetriesAssumption`, `ModelAssumption`,
`AppendsAssumption`, `SymbolsAssumption`, `LinksAssumption`, `PromptAssumption`,
`IndexAssumption`, `SearchAssumption`, `FixAssumption`, `DagAssumption`,
`PollAssumption`, `PageAssumption`): any number of paths, users, requests, runs,
tasks, sessions, tokens, sockets, windows, conversations, servers, links and
iterations. They say what a constant is: a limit is a number, the pipelines of the
routes are known, a ring of models holds kinds of providers there are. Where
something is counted, what is counted is finite (`Paths`, `Execs`, `Appends`,
`Constraints`, the trees of a workspace). Three keep names of different things
apart, which the code does by their types: an edit is not the absence of a file, an
expert is neither "run" nor "rollout", a registration is no listing;
`IndexAssumption` adds that "no file" is none. `BrainAssumption` says that there is
a sync task, as the code sees to (`normalizePhasedPlan` puts one into a plan without
any, `lead-architect.js:57`), and `RetriesAssumption` that a write is tried at least
once. `TaskManager` needs no assumption.

* `VFSContainerProofs`: `TypeCorrect`, `ApprovalGated`, `OwnersApprove`,
  `FilesLimited`, `Refinement`, `AccountIsExact`. The invariant adds to the types and to the two
  properties that an approved entry lies at its own path and its approval is
  recorded, and that whatever a request past its check is about to write was
  approved for that path. The latter is needed because the request keeps its
  version over the `await` while the entry changes. `FilesLimited` counts with
  the library's theorems on cardinalities; that is why `Paths` is finite.
  `AccountIsExact` is about sums: a step that changes one entry, or drops some, must
  move the sum over all paths by just that. The library adds up in the order `CHOOSE`
  takes, so the proof shows first that the sum exists, is an integer and does not
  depend on the order (`SumsExist`, `TotalIsInt`, `TotalWithout`). These are inductions
  over the subsets of a finite set, for which an explicit set of subsets and the
  well-foundedness of strict inclusion stand in for the library's induction
  theorems (`SubsetInduction`).
  `Refinement` goes through every action: approvals and writes map to the steps
  of the gate, all else to stutters.
* `AgentSessionProofs`: `TypeCorrect`, `SlotsBounded`, `NobodyStranded`,
  `IdentityKept`, `LateApprovals`, `NothingAfterClose`. The invariant adds that
  the set of slots is finite and, for sessions that are not tangled, that at most
  one run is in progress and what it saved is a stack: `null`, its own id, then
  the ids of its delegations. Without the stack one could not show that the
  identity a delegation puts back is the right one.
* `TaskManagerProofs`: `TypeCorrect`, `OneTask`, `AbortsHold`, `OrderIsFollowed`,
  `RunsDrain`. The invariant adds how the array of the run relates to the order
  (equal while shared, and shared as long as nobody reorders), that the task at
  the position of the iteration runs or is done, and that no task up to it is
  pending.
* `AgentLoopProofs`: `TypeCorrect`, `NothingRunsOn`, `ContextsKept`. A context is
  put back from what a frame saved, so the invariant says, as long as no loop
  found an expert taken: every frame of a loop found the empty context, holds an
  expert of its own and finds itself on it (`Held`), and every context that is set
  has the frame or the review that set it (`Owned`). Without the second half the
  last frame of a loop could leave a context behind; without the first, a nested
  reroute could put back another loop's.

* `CodeJobsProofs`: `JobsTypes`, `DraftsPaid`, `ListenersKept`, `PressureKept`,
  `DeadLettersKept`, `WithinLimits`, `LiveRunsStage`. The invariant ties the three
  records of one execution to each other: where the request and its job are says
  what its machine may be doing, whether it holds a slot, a place in the lane and a
  count of the pressure. `PressureKept` does not say that the counter respects its
  limit, which it does not: a job that passed the check raises it whatever it has
  become; it says that the counter is the number of jobs between the raise and the
  finally block, after every way out of them and after a crash. `WithinLimits` counts
  slots and places and needs `Execs` finite. `LiveRunsStage` is a property of steps
  and follows from the same invariant.
* `RecordProofs`, of turns: `TurnsTypes`, `CallsAreAnswered`, `ReportsWhatRan`,
  `NothingBeginsLate`. What was reported and what ran are two sequences, which one
  loop fills at once and the others call by call; the invariant says that the former
  is ahead of the latter by exactly the calls of the last reply that have no result
  (`Ahead`). It is shown for replies of any length, by facts on concatenation.
* `OneTimeTokenProofs`, on the server: `SessionTypes`, `ReuseEndsSession`,
  `RotationImplements`, `HandoffImplements`. Each query of a call maps to a step of
  `OneTimeTokens`. The invariant says that every call stands where the row and the
  token it remembers exist, and that a call that caught a reused token has ended its
  row (`Placed`). That rows are never created twice and a revoked one stays revoked
  (`RowsKept`) is a lemma about steps.
* `OneTimeTokenProofs`, behind a browser: `HonestBrowserTrusted`,
  `BrowserRotatesOnce`. The invariant (`BrowserInv`) says, as long as nothing has
  crossed: at most one refresh is on its way and it shows the token of the jar
  (`Renews`); unless that refresh has got past its look, nobody has touched the token
  (`Untouched`), so the look finds it good; if it has, the only successor of the
  token is untouched, so that the answer puts a good token into the jar; and a
  sign-in whose cookies are on their way made a row nobody else knows (`Arriving`).
  The answer picks the successor by the token it replaced, for which `Succession`
  says that there is one whether or not anything crossed.
* `OneTimeTokenProofs`, of other tokens. `KeysAndTenants`: keys that an arrival was
  verified with were in the set as late as the cache says. `ProviderTokenShownOnce`:
  whoever shows the token did so for a refresh nobody else has joined.
  `NoneRefusedInVain`: the last token a window fetched for the present user is at a
  place of the store that has not been cut, and its cookie fits. `ReadyWhenAnswered`:
  a probe that has answered keeps its answer.
* `PlatformProofs`, by component. `NothingIsLeft`: the place of a run says what its
  timer may still do, and with that what is left behind (`Tidy`).
  `AddressesAreLimited`: the counter is never below the number of open connections,
  because a place is given back once. `GatedToolsOnly`: what a tool has past its
  check is what it had when it was disabled; and every lease was left by a call of
  its run and tool that the user approved, LeaseTtl before it expires (`LeaseIsOf`),
  so that a call that begins under one has that call to show, and one that asks has
  its own.
* `PlatformProofs`, of what the browser shows. `NoneOlderWritten`: ids grow with every
  version that is staged, so the entry of a path outdoes every message, notice, list
  and request about it (`Outdone`), and a handler, which reads the entry again, has
  what is not older than what was on view when the user decided. `PageKeepsUp`: the
  effect boots once at a time, sockets of an effect that ended are never opened
  again, and a plan the server waits for is on the screen with no other plan behind
  it in the queue, or the last plan of the queue (`OnItsWay`).
* `RecordProofs`, of what a user, a run and the experts write.
  `TranscriptsAreCurrent`: what is shown is what is stored and what is still on its
  way (`SaidIn`), except while the conversation loads, when nothing is said.
  `SettingsStay`: as long as no post fails or is overtaken, the posts under way are
  one of six sequences, and each says what is stored already (`InOrder`); a read
  comes after all posts. `TurnsStayShared` is inductive as it stands, given what the
  pruner may return. `EditsStay`: a call between its read and its write has read what
  the file holds, unless a change has landed in between, which makes it a race
  (`EditInv`). `RecordsTellEnds`: the record of the run and its directory tell what
  is known of the end as soon as the run is past writing them (`RunTold`,
  `FileTold`), and a run that completed has no expert at work (`AllCompleted`), so
  that nothing writes behind its back.
* `RecordProofs`, of order. `BrainStaysInOrder`: where a run is says which of the two
  routes it is on and what the validator has seen, so that the ledger counts exactly
  the refusals it could know of, and no worker has been asked while sync tasks are
  left (`BrainTasks`). `FallbackIsExhausted`: a call is at a place of its ring, and one
  that failed has none to go to (`Exhausted`). `SchemaStaysFit`: tables only gain
  columns (`HasColumns`), and what a server found fitting it still finds
  (`Past`), whichever other server or script changes the schema meanwhile.
  `WritesHappenOnce`: a write without an answer has attempts left, and one that is
  answered has its row, or its rows if it is an entry of a log.
* `RecordProofs`, of what is kept. `RecordsStayRecalled`: the row of a file is stored
  before its hash is (`IndexInv`). `IndexStaysCurrent`: while links do not overlap one
  of them has the mirror to itself, and its place says what it made of it
  (`MirrorUnder`). `RegisteredStayListed`: a refresh has collected the
  servers before the one it asks (`Collected`), and the sequence of servers only grows
  and is walked to the end it has by then, so that of refreshes that overlap each lists
  every server that is registered when it ends. `MemoryStays`: the two
  writers of a row keep each other's column (`RowKept`), and the items learned and
  the entries whose item is still to come are together no more than the entries
  there are (`LearnedCounted`).
* `RecordProofs`, of what algorithms compute: `SourcesStayFirst`, `WalksStayDeepEnough`,
  `PromptsStayExact`. These are inductions over data. The library's theorems on
  recursion take operators and cannot be used, so each recursive function and each
  fold is unfolded by hand: `CountingUp` is induction over a set of numbers,
  `IterationExists` and `FoldExists` show that the function a fold chooses exists, and
  `VisitFolds`, `WalkUnfolds`, `FlattenUnfolds` and `ChunkTextFolds` that it is the one the
  code computes, step by step. On these rest: the places of a ranking are distinct and
  count up (`PlacesCount`, `PlacesDiffer`), so that a learned item among the chosen, whose
  score is capped, leaves every source before it (`PacketsAreFair`) - also in a packet
  from the cache, whose key says the risk it was built for (`PacketOf`); a walk of depth
  one finds what is called, and of depth two what that calls, though it remembers the
  symbols it has visited (`WalkDeeper`, `WalkFinds`); what has been cut and what waits to be
  cut are together the lines so far, and no chunk exceeds the budget, however long the
  lines are (`Holds`, `Sound`); and whichever order the constraints were loaded in, one of
  the highest priority comes first (`FirstIsHighest`) and a cut keeps the beginning
  (`FitKeeps`).
* `PlatformProofs`, of the platform: `GatesAlwaysHold`, `NothingIsEverLost`,
  `ReuseIsDetected`, `UsedOnce`, `ScreenAlwaysCurrent`, `RunsAndTurns`,
  `EvidenceIsAlwaysExact`. A step of the platform is a step of one part and a stutter of
  all others (`PartsStep`, `WritersStep`), so the invariants of the parts hold side by
  side; of the browser's part the invariant is kept while it is the one that runs.
* `PlatformProofs`, of types: `TypesAlwaysHold`. `TypedInv` adds to the invariants above what
  the types of each part need, of which some is not a type. A request that still polls has
  polled less than it may (`IdemInv`). The sockets that have connected are finitely many,
  and the window counts no more (`CountersInv`). No task is tried or rolled back once too
  often, because where the graph is says which task runs and what it has left
  (`DagInv`). A provider's refresh in flight was shown more often than in vain
  (`WaitersInv`). A breaker counts no failure past the one that opens it, and a call
  that waits has a try left (`QuotaInv`, `TriesInv`). No hash is of a content the file is
  still to have (`HashesInv`). Half a mirror is never indexed, because only one clone at a
  time finds no directory (`MirrorInv`). Of the review of staged files the types
  follow from the invariant of `VFSContainerProofs` (`VFSInv`), of which the view is
  another behaviour.

Each inductive invariant was model-checked on the instance of its run first.

Only model-checked: all liveness (`EveryRunEnds` twice, `EveryTaskSettles`,
`SlotsReturn`, `JobsSettle`, `RequestsSettle`), which is out of the provers' reach.

## 6. Disagreements found

1. **A staged version can vanish unreviewed** (`vfs_held`). A commit deletes
   whatever entry its path has when the write ends (`container.js:281`).
2. **The staging total can outgrow its limit** (`vfs_limit`). Two overlapping
   commits of one path subtract its size twice (`container.js:280`).
3. **More runs than slots** (`session_limit`). The lease timer releases the slot
   of a run that goes on (`concurrency-governor.js:46`), against line 4 of that file.
4. **"Moved to front" moves nothing in a run under way** (`tasks_order`,
   `task-manager.js:96`).
5. **Completed without verification** (`loop_verified`). The loop leaves its last
   iteration the same way whether or not the build passed
   (`orchestrator/index.js:491`), although the plan of each run promises it (line 351).
6. **Approved unseen** (`vfs_unseen`). A request names a path, and the server
   commits the version it holds by then (`router.js:579`).

Observations made while modelling, which no run states because no text of the
repository says otherwise, or because the path is not reachable today:

* *Sessions.* `normalizeUser` finds no tenant in a local session and throws
  (`middleware.js:162`), outside any handler of errors: such requests are never
  answered, and logout cannot be reached. Two tabs that share a cookie but not a
  page refresh apart, and the loser looks like a thief; so does a browser that
  lost an answer. A provider's token without a tenant acts for whichever it names
  (`tenant.js:49`).
* *Tools.* Both callers give the permission check a snapshot without permissions
  and roles (`index.js:1173`, `router.js:738`), so that the guard refuses every tool
  whose policy is not "none" (`tool_auth_guard.js:133`): the flow of
  `docs/01_RUNTIME_FLOW.md:37` reaches no file. The model keeps the permitted tools
  as a constant (`Permitted`), to check what the gate does for callers that have
  them. An approval answers for every later call of its tool in its run for five
  minutes, and the grant recorded for such a call says "Approved" all the same
  (`index.js:1207`); the engine's tests mean a lease to be one of run and tool. A
  tool whose circuit opened is never enabled again. A grant may be used until it
  expires.
* *Backpressure.* Jobs that read the counter before any of them raises it all pass
  (`job-queue.js:257`), so that as many may be with the brain as the lane has places.
* *Provider tokens.* A refresh without a handler deletes the credentials
  (`agent-auth.js:164`): the call that found its token refused fails, and so do all
  others.
* *Experts.* A tool's error whose text contains "aborted", "timeout" or
  "permission" is taken for the provider's (`expert-base.js:69`): a run whose
  session ended is begun anew at every fallback. The error that ends it is a new
  one (`expert-base.js:86`), which the handler's test for `ORCHESTRATION_ABORTED`
  (`index.js:1710`) never recognises. Executions that overlap lose turns to a
  compression. The calls of Gemini's twenty-sixth reply are neither executed nor
  answered.
* *Runs.* A guard that throws before the `try` leaves a record `running`; the
  expert a run was routed to writes into the run's own record.
* *Queues.* `state-machine.js` is given no `onMerge`, so that every such task
  fails after its review; with a single node it has no parent checkpoint to
  restore. A worker that died keeps a slot until its lease.
* *Memory.* A record of a file does not know the index version, so a new version
  is activated without what did not change; rows of older contents stay. Evidence
  is cached under the question, not the asker. Linked repositories of all users
  appear in every prompt (`orchestrator/index.js:425`), and those of one name
  share a mirror.
* *Database.* One from before tenants fails in the first query of `initDB` every
  time, and the server then listens without a schema. `db-migrate.js` makes
  another schema. `withRetry` repeats an insert whose answer was lost.
* *Browser.* Two windows invalidate each other's CSRF token. `SwarmSocket` never
  reconnects. The fix loop asks its terminal for a session under a name it does
  not have. `grepSearch` stops for ever once directories fill its queue.
* *Sandboxes and tool servers.* Nothing removes containers at the end of the
  server, against the comment at `index.js:1992`. Requests to a tool server have no
  timeout, and its errors are taken for results.
* *Sockets.* A user who is refused for the user's limit loses a place of the count
  to a connection that never had one (`index.js:980`).

## 7. Not modelled

Three components have no module: the GitHub bridge and the integration API (single
requests to an external service), observability (nothing reads it back), and
offline tooling. Of the others, `PROJECT.json` says per component what is left
out. The general reasons:

* *Text and numbers.* What a guard, a parser, a pruner or a router makes of a
  text is a choice between its outcomes; prices, distances and token counts are
  small numbers. Validators, formatters and prompt templates have no state.
* *Dead code.* Operations without a caller outside the tests (`commitAll`,
  `run-lifecycle.js`, `task-manager-v6.js`, `spot-manager.js`, the E2B provider) are
  left out. The brain system is modelled although only tests call it, for it is
  whole, and documented as a way the server works.
* *Rendering.* Pages, styles and the editor of the frontend.
* *External systems.* Databases, Redis, BullMQ, docker, Git, providers of models
  and identities are environments that answer, fail, or lose an answer.
* *Composition.* Components that meet only through the database or the network
  are checked alone in `platform`; those that share state are composed (section 3).
