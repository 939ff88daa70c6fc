---------------------------- MODULE OAuthSignIn ----------------------------
(***************************************************************************)
(* Signing in through Google or GitHub: the state token of the redirect,   *)
(* the callback that creates the session, and the handoff code the browser *)
(* exchanges for its cookies (auth/google.js, auth/github.js,              *)
(* auth/oauth-return.js, auth/oauth-store.js and the handoff route).  A    *)
(* token is a row of the database, or an entry in memory when its insert   *)
(* failed, or both when the insert was written and only its answer was     *)
(* lost.  The provider is external: it honours a code once.  A row that    *)
(* expires answers like one that is gone.                                  *)
(***************************************************************************)
EXTENDS Naturals, FiniteSets

CONSTANTS
  Visits,      \* requests of the callback; a browser may repeat one
  Exchanges    \* requests of POST /handoff

VARIABLES
  stateToken,  \* the state of this sign-in: its row and its memory entry
  stateCookie, \* the browser still has the state cookie
  codeSpent,   \* the provider honoured the code
  visit,       \* callback request -> where it is; its handoff has its name
  handoff,     \* handoff -> its row and its memory entry
  exchange     \* exchange request -> where it is, and its handoff

oauthVars == <<stateToken, stateCookie, codeSpent, visit, handoff, exchange>>

NoVisit == "none"
NoCopy == [db |-> "none", mem |-> FALSE]

OAuthInit ==
  /\ stateToken = NoCopy
  /\ stateCookie = FALSE
  /\ codeSpent = FALSE
  /\ visit = [v \in Visits |-> "new"]
  /\ handoff = [v \in Visits |-> NoCopy]
  /\ exchange = [x \in Exchanges |-> [at |-> "new", of |-> NoVisit]]

\* What an INSERT with its retries leaves behind.
Inserted == {[db |-> "open", mem |-> FALSE], [db |-> "open", mem |-> TRUE],
             [db |-> "none", mem |-> TRUE]}

VisitGoes(v, at) == visit' = [visit EXCEPT ![v] = at]

-----------------------------------------------------------------------------
\* GET /google or /github: createOAuthState, the cookies, the redirect.
StartSignIn ==
  /\ stateToken = NoCopy
  /\ stateToken' \in Inserted
  /\ stateCookie' = TRUE
  /\ UNCHANGED <<codeSpent, visit, handoff, exchange>>

\* consumeOAuthState.  A row that is there is deleted in a second query; one
\* that is not, and a query that fails, fall back to memory.
LookUpState(v) ==
  /\ visit[v] = "new"
  /\ stateCookie \/ stateToken /= NoCopy
  /\ \/ /\ stateToken.db = "open"
        /\ VisitGoes(v, "stateFound")
        /\ UNCHANGED stateToken
     \/ /\ VisitGoes(v, IF stateToken.mem THEN "stateHeld" ELSE "noState")
        /\ stateToken' = [stateToken EXCEPT !.mem = FALSE]
  /\ UNCHANGED <<stateCookie, codeSpent, handoff, exchange>>

DeleteState(v) ==
  /\ visit[v] = "stateFound"
  /\ \/ /\ stateToken' = [stateToken EXCEPT !.db = "gone"]
        /\ VisitGoes(v, "stateHeld")
     \/ /\ stateToken' = [stateToken EXCEPT !.mem = FALSE]
        /\ VisitGoes(v, IF stateToken.mem THEN "stateHeld" ELSE "noState")
  /\ UNCHANGED <<stateCookie, codeSpent, handoff, exchange>>

\* The state record, or failing that the cookie of the request, which may have
\* been sent before the answer to another one cleared it.
CheckState(v) ==
  /\ visit[v] \in {"stateHeld", "noState"}
  /\ \E sentCookie \in {stateCookie, TRUE} :
       IF visit[v] = "stateHeld" \/ sentCookie
         THEN VisitGoes(v, "asking") /\ stateCookie' = FALSE
         ELSE VisitGoes(v, "invalid_state") /\ UNCHANGED stateCookie
  /\ UNCHANGED <<stateToken, codeSpent, handoff, exchange>>

\* The code is exchanged with the provider, the user is upserted and the
\* session created; any of it may fail.
AskProvider(v) ==
  /\ visit[v] = "asking"
  /\ \/ /\ ~codeSpent
        /\ codeSpent' = TRUE
        /\ VisitGoes(v, "signedIn")
     \/ /\ codeSpent' \in {codeSpent, TRUE}
        /\ VisitGoes(v, "provider_failed")
  /\ UNCHANGED <<stateToken, stateCookie, handoff, exchange>>

\* createOAuthHandoff and the redirect that carries the code.
CreateHandoff(v) ==
  /\ visit[v] = "signedIn"
  /\ \E h \in Inserted : handoff' = [handoff EXCEPT ![v] = h]
  /\ VisitGoes(v, "redirected")
  /\ UNCHANGED <<stateToken, stateCookie, codeSpent, exchange>>

-----------------------------------------------------------------------------
(* POST /handoff: consumeOAuthHandoff. *)

\* The fallback: taken from memory and removed at once.
FromMemory(x, h) ==
  /\ exchange' = [exchange EXCEPT ![x] =
                    [at |-> IF handoff[h].mem THEN "cookiesFromMemory" ELSE "401", of |-> h]]
  /\ handoff' = [handoff EXCEPT ![h].mem = FALSE]

\* Mutant: a consumed row is not told from a fresh one
LookUpHandoff_IgnoresConsumed(x, h) ==
  /\ exchange[x].at = "new"
  /\ visit[h] = "redirected"
  /\ \/ /\ handoff[h].db \in {"open", "consumed"}
        /\ exchange' = [exchange EXCEPT ![x] = [at |-> "found", of |-> h]]
        /\ UNCHANGED handoff
     \/ /\ handoff[h].db \in {"none", "open", "consumed"}
        /\ FromMemory(x, h)
  /\ UNCHANGED <<stateToken, stateCookie, codeSpent, visit>>

\* The row is read: it is open, or consumed or expired, or there is none; or
\* the query fails.
LookUpHandoff(x, h) ==
  /\ exchange[x].at = "new"
  /\ visit[h] = "redirected"
  /\ \/ /\ handoff[h].db = "open"
        /\ exchange' = [exchange EXCEPT ![x] = [at |-> "found", of |-> h]]
        /\ UNCHANGED handoff
     \/ /\ handoff[h].db \in {"consumed", "expired"}
        /\ exchange' = [exchange EXCEPT ![x] = [at |-> "401", of |-> h]]
        /\ UNCHANGED handoff
     \/ FromMemory(x, h)
  /\ UNCHANGED <<stateToken, stateCookie, codeSpent, visit>>

\* The row is marked and its session becomes the browser's cookies; if the
\* mark fails, it may have been written or not, and memory is asked.
MarkHandoff(x) ==
  LET h == exchange[x].of IN
  /\ exchange[x].at = "found"
  /\ \/ /\ handoff' = [handoff EXCEPT ![h].db = "consumed"]
        /\ exchange' = [exchange EXCEPT ![x].at = "cookies"]
     \/ FromMemory(x, h)
     \/ /\ ~handoff[h].mem
        /\ handoff' = [handoff EXCEPT ![h].db = "consumed"]
        /\ exchange' = [exchange EXCEPT ![x].at = "401"]
  /\ UNCHANGED <<stateToken, stateCookie, codeSpent, visit>>

\* HANDOFF_TTL_MS.
HandoffExpires(h) ==
  /\ handoff[h].db = "open" \/ handoff[h].mem
  /\ handoff' = [handoff EXCEPT ![h] =
       [db |-> IF @.db = "open" THEN "expired" ELSE @.db, mem |-> FALSE]]
  /\ UNCHANGED <<stateToken, stateCookie, codeSpent, visit, exchange>>

OAuthNext ==
  \/ StartSignIn
  \/ \E v \in Visits :
       \/ LookUpState(v)
       \/ DeleteState(v)
       \/ CheckState(v)
       \/ AskProvider(v)
       \/ CreateHandoff(v)
       \/ HandoffExpires(v)
  \/ \E x \in Exchanges :
       \/ \E h \in Visits : LookUpHandoff(x, h)
       \/ MarkHandoff(x)

OAuthSpec == OAuthInit /\ [][OAuthNext]_oauthVars

-----------------------------------------------------------------------------
OAuthTypeOK ==
  LET Copy == [db : {"none", "open", "gone", "consumed", "expired"}, mem : BOOLEAN] IN
  /\ stateToken \in Copy
  /\ stateCookie \in BOOLEAN /\ codeSpent \in BOOLEAN
  /\ visit \in [Visits -> {"new", "stateFound", "stateHeld", "noState", "asking",
       "invalid_state", "signedIn", "provider_failed", "redirected"}]
  /\ handoff \in [Visits -> Copy]
  /\ exchange \in [Exchanges ->
       [at : {"new", "found", "401", "cookies", "cookiesFromMemory"}, of : Visits \cup {NoVisit}]]

\* A handoff is two one-time tokens: its row and its entry in memory.
ExchangesAt(at, store) ==
  {<<x, <<exchange[x].of, store>>>> : x \in {y \in Exchanges : exchange[y].at = at}}

Handoffs == INSTANCE OneTimeTokens WITH
  Callers <- Exchanges,
  Codes <- Visits \X {"db", "mem"},
  issued <- {v \in Visits : visit[v] = "redirected"} \X {"db", "mem"},
  open <- {<<h, "db">> : h \in {v \in Visits : handoff[v].db = "open"}}
            \cup {<<h, "mem">> : h \in {v \in Visits : handoff[v].mem}},
  seen <- ExchangesAt("found", "db"),
  granted <- ExchangesAt("cookies", "db") \cup ExchangesAt("cookiesFromMemory", "mem")

\* Cookies are set only for an exchange that found the handoff open, and the
\* copy it was found in is closed by then: who comes later gets nothing of
\* that copy, whatever queries fail.
HandoffIsOneTime == Handoffs!OneTimeSpec
=============================================================================
