---------------------------- MODULE AuthSessions ----------------------------
(***************************************************************************)
(* The sessions and refresh tokens of one user (auth/session.js with the   *)
(* queries of db.js and the handlers of auth/middleware.js and             *)
(* auth/routes.js).  Every query is an await: calls interleave between     *)
(* them, and each may fail there.  A call is one request of a client: a    *)
(* sign-in, a refresh with some token it was ever given, or any request    *)
(* that must be authenticated.                                             *)
(*                                                                         *)
(* logout, logout-all and revoke are not here: they run behind             *)
(* requireAuth or optionalAuth, and normalizeUser throws there for every   *)
(* local session (call "threw").                                           *)
(***************************************************************************)
EXTENDS Naturals, FiniteSets

CONSTANTS
  AuthCalls,        \* requests
  MAX_CONCURRENT_SESSIONS,
  MaxRows,          \* bound: session rows
  MaxTokens         \* bound: refresh token rows

ASSUME AuthAssumption ==
  MAX_CONCURRENT_SESSIONS \in Nat \ {0} /\ MaxRows \in Nat /\ MaxTokens \in Nat

VARIABLES
  row,    \* user_sessions, in the order of created_at
  token,  \* refresh_tokens: session, token it replaced, used_at, is_revoked
  call    \* request -> where it is

authVars == <<row, token, call>>

Rows == 1..MaxRows
TokenRows == 1..MaxTokens

IsActive == {"active", "lapsed"}  \* is_active; a lapsed row is past expires_at
NoToken == [of |-> 0, from |-> 0, used |-> FALSE, revoked |-> FALSE]
NoCall == [at |-> "new", s |-> 0, t |-> 0, left |-> 0]

AuthInit ==
  /\ row = [s \in Rows |-> "none"]
  /\ token = [t \in TokenRows |-> NoToken]
  /\ call = [c \in AuthCalls |-> NoCall]

Goes(c, at) == call' = [call EXCEPT ![c].at = at]

FreeRow(s) == row[s] = "none" /\ \A r \in 1..(s - 1) : row[r] /= "none"
FreeToken(t) == token[t].of = 0 /\ \A u \in 1..(t - 1) : token[u].of /= 0

-----------------------------------------------------------------------------
(* The queries of db.js. *)

countActiveUserSessions == Cardinality({s \in Rows : row[s] = "active"})

\* The oldest row that is_active, whether or not it has lapsed.
revokeOldestUserSession ==
  row' = [s \in Rows |->
            IF row[s] \in IsActive /\ \A r \in 1..(s - 1) : row[r] \notin IsActive
              THEN "revoked" ELSE row[s]]

createUserSession(s) == FreeRow(s) /\ row' = [row EXCEPT ![s] = "active"]

\* Mutant: ending a session leaves its row active
revokeUserSession_LeavesRow(s) == row' = row

revokeUserSession(s) == row' = [row EXCEPT ![s] = "revoked"]

createRefreshToken(t, s, from) ==
  /\ FreeToken(t)
  /\ token' = [token EXCEPT ![t] = [NoToken EXCEPT !.of = s, !.from = from]]

markRefreshTokenUsed(t) == token' = [token EXCEPT ![t].used = TRUE]

revokeRefreshToken(t) == token' = [token EXCEPT ![t].revoked = TRUE]

revokeRefreshTokenFamily(s) ==
  token' = [t \in TokenRows |->
              IF token[t].of = s THEN [token[t] EXCEPT !.revoked = TRUE] ELSE token[t]]

\* What rotateRefreshToken demands of the rows it reads.
Usable(t) ==
  /\ token[t].of /= 0
  /\ row[token[t].of] = "active"
  /\ ~token[t].used /\ ~token[t].revoked

-----------------------------------------------------------------------------
(* createSession, called by every sign-in. *)

CountSessions(c) ==
  /\ call[c].at = "new"
  /\ call' = [call EXCEPT ![c] =
       [@ EXCEPT !.at = "pruning",
                 !.left = IF countActiveUserSessions >= MAX_CONCURRENT_SESSIONS
                            THEN countActiveUserSessions - MAX_CONCURRENT_SESSIONS + 1 ELSE 0]]
  /\ UNCHANGED <<row, token>>

\* The loop revokes as many sessions as the count was over the limit,
\* whatever the rows have become since.
PruneSession(c) ==
  /\ call[c].at = "pruning"
  /\ call[c].left > 0
  /\ revokeOldestUserSession
  /\ call' = [call EXCEPT ![c].left = @ - 1]
  /\ UNCHANGED token

InsertSession(c) ==
  /\ call[c].at = "pruning"
  /\ call[c].left = 0
  /\ \E s \in Rows :
       /\ createUserSession(s)
       /\ call' = [call EXCEPT ![c].at = "inserted", ![c].s = s]
  /\ UNCHANGED token

FirstToken(c) ==
  /\ call[c].at = "inserted"
  /\ \E t \in TokenRows : createRefreshToken(t, call[c].s, 0)
  /\ Goes(c, "signedIn")
  /\ UNCHANGED row

-----------------------------------------------------------------------------
(* rotateRefreshToken, called by handleRefreshToken. *)

\* Mutant: a token that was used is rotated again
FindToken_IgnoresUse(c, t) ==
  /\ call[c].at = "new"
  /\ token[t].of /= 0
  /\ call' = [call EXCEPT ![c] =
       [@ EXCEPT !.t = t, !.s = token[t].of,
                 !.at = IF row[token[t].of] /= "active" THEN "invalid"
                        ELSE IF token[t].revoked THEN "reused" ELSE "found"]]
  /\ UNCHANGED <<row, token>>

FindToken(c, t) ==
  /\ call[c].at = "new"
  /\ token[t].of /= 0
  /\ call' = [call EXCEPT ![c] =
       [@ EXCEPT !.t = t, !.s = token[t].of,
                 !.at = IF row[token[t].of] /= "active" THEN "invalid"
                        ELSE IF Usable(t) THEN "found" ELSE "reused"]]
  /\ UNCHANGED <<row, token>>

ReuseRevokesFamily(c) ==
  /\ call[c].at = "reused"
  /\ revokeRefreshTokenFamily(call[c].s)
  /\ Goes(c, "familyRevoked")
  /\ UNCHANGED row

ReuseRevokesSession(c) ==
  /\ call[c].at = "familyRevoked"
  /\ revokeUserSession(call[c].s)
  /\ Goes(c, "suspicious")
  /\ UNCHANGED token

MarkUsed(c) ==
  /\ call[c].at = "found"
  /\ markRefreshTokenUsed(call[c].t)
  /\ Goes(c, "marked")
  /\ UNCHANGED row

InsertSuccessor(c) ==
  /\ call[c].at = "marked"
  /\ \E t \in TokenRows : createRefreshToken(t, call[c].s, call[c].t)
  /\ Goes(c, "replaced")
  /\ UNCHANGED row

RevokeOld(c) ==
  /\ call[c].at = "replaced"
  /\ revokeRefreshToken(call[c].t)
  /\ Goes(c, "rotated")
  /\ UNCHANGED row

-----------------------------------------------------------------------------
(* authenticateFromHeaders, called by requireAuth, optionalAuth and the    *)
(* socket handshake.                                                       *)

\* No field of the row names a tenant.
normalizeSession(s) == [userId |-> "user", sessionId |-> s]

\* normalizeUser throws without a tenant, and its callers do not catch it.
normalizeUser(session) == IF "tenantId" \in DOMAIN session THEN "admitted" ELSE "threw"

\* The request carries the access token or the session cookie of s, from the
\* device of the session or from another one.
Authenticate(c, s) ==
  /\ call[c].at = "new"
  /\ row[s] /= "none"
  /\ \E sameDevice \in BOOLEAN :
       call' = [call EXCEPT ![c] =
         [@ EXCEPT !.s = s,
                   !.at = IF row[s] /= "active" THEN "401"
                          ELSE IF sameDevice THEN normalizeUser(normalizeSession(s))
                          ELSE "mismatch"]]
  /\ UNCHANGED <<row, token>>

MismatchRevokesSession(c) ==
  /\ call[c].at = "mismatch"
  /\ revokeUserSession(call[c].s)
  /\ Goes(c, "mismatchRevoked")
  /\ UNCHANGED token

MismatchRevokesFamily(c) ==
  /\ call[c].at = "mismatchRevoked"
  /\ revokeRefreshTokenFamily(call[c].s)
  /\ Goes(c, "401")
  /\ UNCHANGED row

-----------------------------------------------------------------------------
\* A query fails, or its insert was written and the retry after the timeout
\* meets the unique key: the call ends where it is.
UnderWay == {"pruning", "inserted", "found", "marked", "replaced", "reused",
             "familyRevoked", "mismatch", "mismatchRevoked"}

QueryFails(c) ==
  /\ call[c].at \in UnderWay
  /\ Goes(c, "failed")
  /\ UNCHANGED <<row, token>>

SessionLapses(s) ==
  /\ row[s] = "active"
  /\ row' = [row EXCEPT ![s] = "lapsed"]
  /\ UNCHANGED <<token, call>>

\* The job that runs every six hours.
cleanupExpiredSessions ==
  /\ \E s \in Rows : row[s] = "lapsed"
  /\ row' = [s \in Rows |-> IF row[s] = "lapsed" THEN "revoked" ELSE row[s]]
  /\ UNCHANGED <<token, call>>

AuthNext ==
  \/ \E c \in AuthCalls :
       \/ CountSessions(c)
       \/ PruneSession(c)
       \/ InsertSession(c)
       \/ FirstToken(c)
       \/ \E t \in TokenRows : FindToken(c, t)
       \/ ReuseRevokesFamily(c)
       \/ ReuseRevokesSession(c)
       \/ MarkUsed(c)
       \/ InsertSuccessor(c)
       \/ RevokeOld(c)
       \/ \E s \in Rows : Authenticate(c, s)
       \/ MismatchRevokesSession(c)
       \/ MismatchRevokesFamily(c)
       \/ QueryFails(c)
  \/ \E s \in Rows : SessionLapses(s)
  \/ cleanupExpiredSessions

AuthSpec == AuthInit /\ [][AuthNext]_authVars

-----------------------------------------------------------------------------
AuthTypeOK ==
  /\ row \in [Rows -> {"none", "active", "lapsed", "revoked"}]
  /\ token \in [TokenRows -> [of : 0..MaxRows, from : 0..MaxTokens,
                              used : BOOLEAN, revoked : BOOLEAN]]
  /\ call \in [AuthCalls ->
       [at : UnderWay \cup {"new", "signedIn", "invalid", "suspicious", "rotated",
                            "admitted", "threw", "401", "failed"},
        s : 0..MaxRows, t : 0..MaxTokens, left : 0..MaxRows]]

\* Once a refresh answered that it caught a reused token, no token of that
\* session can ever be exchanged again, although a rotation that read its row
\* before may still insert a successor after the family was revoked.
CaughtReuseEnds ==
  \A c \in AuthCalls : call[c].at = "suspicious" =>
    \A t \in TokenRows : token[t].of = call[c].s => ~Usable(t)

\* Every refresh token is a one-time token.
RefreshTokens == INSTANCE OneTimeTokens WITH
  Callers <- AuthCalls,
  Codes <- TokenRows,
  issued <- {t \in TokenRows : token[t].of /= 0},
  open <- {t \in TokenRows : Usable(t)},
  seen <- {<<c, call[c].t>> : c \in {d \in AuthCalls : call[d].at \in {"found", "marked", "replaced"}}},
  granted <- {<<c, call[c].t>> : c \in {d \in AuthCalls : call[d].at = "rotated"}}

\* A refresh is granted only to a caller that read the token before it was
\* marked, and after the mark: a successful rotation closes its token for all
\* who come later, however the steps of the calls interleave and fail.
RotationIsOneTime == RefreshTokens!OneTimeSpec
=============================================================================
