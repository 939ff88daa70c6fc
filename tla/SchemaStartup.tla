--------------------------- MODULE SchemaStartup ----------------------------
(***************************************************************************)
(* How a server comes up and goes down (index.js), the schema it makes in  *)
(* the database on the way (initDB of db.js), the migration script that    *)
(* makes another one (db-migrate.js), and the writes that are repeated     *)
(* when their answer is lost (withRetry).                                  *)
(*                                                                         *)
(* A schema is a function from tables to the columns in which the schemas  *)
(* differ; every CREATE says IF NOT EXISTS, so whoever makes a table first *)
(* decides on its columns.                                                 *)
(***************************************************************************)
EXTENDS Naturals, Sequences, FiniteSets

CONSTANTS
  Servers,      \* server processes on one database
  InitRetries,      \* initDB: how often it is tried again (5 in the code)
  Writes,       \* requests that write with withRetry
  WriteAttempts \* withRetry: retries

ASSUME RetriesAssumption == InitRetries \in Nat /\ WriteAttempts \in Nat \ {0}

VARIABLES
  database,     \* table -> its columns, of those that some schema lacks
  byScript,     \* history: the tables the migration script made
  server,       \* process: where it is, tries left, is its schema known to fit
  skipped,      \* history: a server gave up its migrations half way
  script,       \* idle, open (in its transaction), done, failed
  write         \* a repeated write: kind, attempts, rows it left, its answer

schemaVars == <<database, byScript, server, skipped, script>>
writeVars == <<write>>

-----------------------------------------------------------------------------
(* The schema of db.js *)

\* CREATE TABLE IF NOT EXISTS: tables that are there stay as they are.
CreateIfNotExists(there, tables) ==
  [t \in DOMAIN there \cup DOMAIN tables |-> IF t \in DOMAIN there THEN there[t] ELSE tables[t]]

Same(tables) == [t \in tables |-> {}]

AccountTables ==
  [t \in {"users", "sessions", "user_sessions", "refresh_tokens", "login_audit_log"} |->
     IF t = "user_sessions" THEN {"provider"} ELSE {}]

EmbeddingScope == {"tenant_id", "namespace", "index_version"}

MemoryTables ==
  [t \in {"semantic_memory", "semantic_embeddings", "project_memory", "semantic_index_registry"} |->
     CASE t = "semantic_memory" -> {"content", "embedding", "metadata"}
       [] t = "semantic_embeddings" -> EmbeddingScope
       [] OTHER -> {}]

WorkTables ==
  [t \in {"chat_messages", "codespaces", "org_constraints", "chat_sessions",
          "github_installations", "user_preferences", "ast_graphs"} |->
     CASE t = "chat_messages" -> {"thoughts"}
       [] t = "codespaces" -> {"repo_owner", "repo_name", "ref", "machine_type"}
       [] t = "org_constraints" -> {"priority"}
       [] OTHER -> {}]

RunTables ==
  [t \in {"agent_runs", "agent_action_grants", "oauth_states", "oauth_handoffs", "audit_logs",
          "agent_run_events", "agent_memory_items", "task_failures", "mcp_server_registry",
          "semantic_cache"} |->
     IF t \in {"agent_runs", "agent_action_grants"} THEN {"tenant_id"} ELSE {}]

RuntimeTables ==
  CreateIfNotExists(CreateIfNotExists(AccountTables, MemoryTables),
                    CreateIfNotExists(WorkTables, RunTables))

\* Indexes and policies of the same query that name columns an older table lacks.
Indexed ==
  [t \in {"semantic_embeddings", "agent_runs", "agent_action_grants"} |-> RuntimeTables[t]]

(* The schema of db-migrate.js *)

ScriptAccounts == Same(DOMAIN AccountTables)

ScriptWork ==
  [t \in {"semantic_memory", "chat_sessions", "chat_messages", "codespaces", "project_memory",
          "github_installations", "org_constraints", "user_preferences", "ast_graphs"} |->
     CASE t = "semantic_memory" -> {"vector", "text", "source"}
       [] t = "chat_sessions" -> {"model"}
       [] t = "chat_messages" -> {"metadata"}
       [] t = "codespaces" -> {"repo_url"}
       [] OTHER -> {}]

ScriptRecords == Same({"audit_logs", "oauth_states", "oauth_handoffs"})

ScriptTables == CreateIfNotExists(ScriptAccounts, CreateIfNotExists(ScriptWork, ScriptRecords))

(* What the statements of db.js name *)

AccountQueries == {<<"users", {}>>, <<"user_sessions", {"provider"}>>,
                   <<"refresh_tokens", {}>>, <<"login_audit_log", {}>>}
WorkQueries == {<<"codespaces", {"repo_owner", "repo_name", "ref", "machine_type"}>>,
                <<"org_constraints", {"priority"}>>, <<"chat_messages", {"thoughts"}>>}
RunQueries == {<<"agent_runs", {"tenant_id"}>>, <<"agent_action_grants", {"tenant_id"}>>,
               <<"agent_memory_items", {}>>, <<"task_failures", {}>>}
Queries == AccountQueries \cup WorkQueries \cup RunQueries

-----------------------------------------------------------------------------
\* An empty database, or one from before sessions had providers, or one from
\* before tenants.
OldDatabases ==
  {[t \in {} |-> {}],
   CreateIfNotExists(Same({"user_sessions"}), RuntimeTables),
   [t \in DOMAIN RuntimeTables |-> IF t \in DOMAIN Indexed THEN {} ELSE RuntimeTables[t]]}

Starting == [at |-> "environment", tries |-> InitRetries, fits |-> FALSE]

SchemaInit ==
  /\ database \in OldDatabases
  /\ byScript = {}
  /\ server = [s \in Servers |-> Starting]
  /\ skipped = FALSE
  /\ script = "idle"

Moves(s, at) == server' = [server EXCEPT ![s].at = at]

\* validateEnvironment, assertEdgeConfiguration: the process ends if they throw.
ValidateEnvironment(s) ==
  /\ server[s].at = "environment"
  /\ Moves(s, "creating") \/ Moves(s, "exited")
  /\ UNCHANGED <<database, byScript, skipped, script>>

\* One transaction for all the statements.
Made == CreateIfNotExists(database, RuntimeTables)

Fits == \A t \in DOMAIN Indexed : Indexed[t] \subseteq Made[t]

Creates(s) ==
  /\ server[s].at = "creating"
  /\ Fits
  /\ database' = Made
  /\ server' = [server EXCEPT ![s].at = "migration 1", ![s].fits = TRUE]
  /\ UNCHANGED <<byScript, skipped, script>>

\* The statements name a column that is missing, another process makes the same
\* tables, or the database does not answer; after the last retry, start() listens
\* all the same.
CreateFails(s) ==
  /\ server[s].at = "creating"
  /\ server' = [server EXCEPT
       ![s].tries = IF @ > 0 THEN @ - 1 ELSE 0,
       ![s].at = IF server[s].tries > 0 THEN "creating" ELSE "listening"]
  /\ UNCHANGED <<database, byScript, skipped, script>>

\* Columns that are added to tables which were there before.
Migrations ==
  << <<"migration 1", [t \in {"user_sessions"} |-> {"provider"}]>>,
     <<"migration 2", [t \in {"semantic_embeddings"} |-> EmbeddingScope]>>,
     <<"migration 3", [t \in {"agent_runs", "agent_action_grants"} |-> {"tenant_id"}]>> >>

\* Mutant: the first migration is forgotten
Migrates_NotTheFirst(s) ==
  \E i \in 1..Len(Migrations) :
    LET added == Migrations[i][2] IN
    /\ server[s].at = Migrations[i][1]
    /\ database' = [t \in DOMAIN database |->
         IF i > 1 /\ t \in DOMAIN added THEN database[t] \cup added[t] ELSE database[t]]
    /\ Moves(s, IF i < Len(Migrations) THEN Migrations[i + 1][1] ELSE "listening")
    /\ UNCHANGED <<byScript, skipped, script>>

Migrates(s) ==
  \E i \in 1..Len(Migrations) :
    LET added == Migrations[i][2] IN
    /\ server[s].at = Migrations[i][1]
    /\ database' = [t \in DOMAIN database |->
         IF t \in DOMAIN added THEN database[t] \cup added[t] ELSE database[t]]
    /\ Moves(s, IF i < Len(Migrations) THEN Migrations[i + 1][1] ELSE "listening")
    /\ UNCHANGED <<byScript, skipped, script>>

\* A migration that fails is a warning: the others are not tried.
MigrationFails(s) ==
  /\ \E i \in 1..Len(Migrations) : server[s].at = Migrations[i][1]
  /\ Moves(s, "listening")
  /\ skipped' = TRUE
  /\ UNCHANGED <<database, byScript, script>>

\* SIGTERM or SIGINT: before start() is through, it ends the process.
Signalled(s) ==
  /\ server[s].at \notin {"draining", "exited"}
  /\ Moves(s, IF server[s].at = "listening" THEN "draining" ELSE "exited")
  /\ UNCHANGED <<database, byScript, skipped, script>>

\* server.close ends when every connection has; the timer does not wait for it.
ShutsDown(s) ==
  /\ server[s].at = "draining"
  /\ Moves(s, "exited")
  /\ UNCHANGED <<database, byScript, skipped, script>>

\* node db-migrate.js: BEGIN ... COMMIT, or ROLLBACK.
ScriptBegins ==
  /\ script = "idle"
  /\ script' = "open"
  /\ UNCHANGED <<database, byScript, server, skipped>>

ScriptCommits ==
  /\ script = "open"
  /\ script' = "done"
  /\ database' = CreateIfNotExists(database, ScriptTables)
  /\ byScript' = DOMAIN ScriptTables \ DOMAIN database
  /\ UNCHANGED <<server, skipped>>

ScriptRollsBack ==
  /\ script = "open"
  /\ script' = "failed"
  /\ UNCHANGED <<database, byScript, server, skipped>>

ServerStarts(s) ==
  ValidateEnvironment(s) \/ Creates(s) \/ CreateFails(s) \/ Migrates(s)
    \/ MigrationFails(s) \/ ShutsDown(s)

SchemaNext ==
  \/ ScriptBegins \/ ScriptCommits \/ ScriptRollsBack
  \/ \E s \in Servers : ServerStarts(s) \/ Signalled(s)

-----------------------------------------------------------------------------
(* Writes that are repeated *)

Kinds == {"unique", "upsert", "log"}

WriteInit == write \in [Writes -> {[kind |-> k, left |-> WriteAttempts, rows |-> 0,
                                    answer |-> "none"] : k \in Kinds}]

\* createUserSession, createRefreshToken: a unique token; upsertUser: ON CONFLICT
\* DO UPDATE; logAuthEvent: no key at all.
\* Mutant: the table of tokens has no unique key
Conflicts_Never(w) == FALSE
Conflicts(w) == write[w].kind = "unique" /\ write[w].rows > 0

Stored(w) == IF write[w].kind = "upsert" THEN 1 ELSE write[w].rows + 1

IsRepeated(w) == write[w].answer = "none"

\* The row is stored and the answer arrives.
WriteAnswered(w) ==
  /\ IsRepeated(w) /\ ~Conflicts(w)
  /\ write' = [write EXCEPT ![w].rows = Stored(w), ![w].answer = "ok"]

\* A unique violation is no connection error and is not tried again.
WriteRefused(w) ==
  /\ IsRepeated(w) /\ Conflicts(w)
  /\ write' = [write EXCEPT ![w].answer = "error"]

\* A timeout or a reset: before the row was stored, or after.
ConnectionLost(w) ==
  /\ IsRepeated(w)
  /\ \E stored \in {s \in BOOLEAN : s => ~Conflicts(w)} :
       write' = [write EXCEPT
         ![w].rows = IF stored THEN Stored(w) ELSE @,
         ![w].left = @ - 1,
         ![w].answer = IF write[w].left = 1 THEN "error" ELSE "none"]

RepeatedWrite(w) == WriteAnswered(w) \/ WriteRefused(w) \/ ConnectionLost(w)

WriteNext == \E w \in Writes : RepeatedWrite(w)

-----------------------------------------------------------------------------
SchemaTypeOK ==
  /\ \A s \in Servers : server[s].tries \in 0..InitRetries
  /\ byScript \subseteq DOMAIN database
  /\ script \in {"idle", "open", "done", "failed"}

WriteTypeOK == \A w \in Writes : write[w].left \in 0..WriteAttempts

\* A server that made its schema has every table its statements name, with the
\* columns they name, but for tables of the migration script and for a migration
\* that some server skipped; the columns of tenants are there in any case.
StatementsFitSchema ==
  \A s \in Servers : server[s].fits /\ server[s].at \in {"listening", "draining"} =>
    \A q \in Queries :
      /\ q[1] \in DOMAIN database
      /\ q[2] \subseteq database[q[1]]
           \/ (q[1] \in byScript /\ q[1] /= "user_sessions")
           \/ (q[1] = "user_sessions" /\ skipped)

\* The migrations complete a table that lacks the provider of its sessions, and
\* never come to one that lacks its tenants: the indexes fail before.
TenantsComeFirst ==
  \A s \in Servers : server[s].fits => \A t \in DOMAIN Indexed : Indexed[t] \subseteq database[t]

\* A token is stored once however often the write is repeated, an answer says
\* that something was stored, and only the log of sign-ins has doubles.
RepeatedOnce ==
  \A w \in Writes :
    /\ write[w].rows > 1 => write[w].kind = "log"
    /\ write[w].answer = "ok" => write[w].rows > 0

ServerIsSettled(s) == server[s].at \in {"listening", "exited"}
=============================================================================
