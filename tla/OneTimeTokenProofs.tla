------------------------- MODULE OneTimeTokenProofs -------------------------
(***************************************************************************)
(* Proofs that refresh tokens (AuthSessions) and OAuth handoffs            *)
(* (OAuthSignIn) are one-time tokens: each of the two implements           *)
(* OneTimeTokens under the mapping stated beside its property, for any     *)
(* number of requests, rows and tokens, and that the tabs of an honest     *)
(* browser (BrowserAuth) are never taken for a thief. Then the other       *)
(* tokens: the keys of the identity provider and the refresh tokens of the *)
(* providers of models (Credentials), and those that the windows of a      *)
(* browser keep (HttpPipeline).                                            *)
(***************************************************************************)
EXTENDS BrowserAuth, OAuthSignIn, Credentials, HttpPipeline, FiniteSetTheorems,
        SequenceTheorems, TLAPS

-----------------------------------------------------------------------------
(* Refresh tokens: the invariant. *)

CallStates == UnderWay \cup {"new", "signedIn", "invalid", "suspicious", "rotated",
                             "admitted", "threw", "401", "failed"}
CallRecord == [at : CallStates, s : 0 .. MaxRows, t : 0 .. MaxTokens, left : 0 .. MaxRows]
RowStates == {"none", "active", "lapsed", "revoked"}
TokenRecord == [of : 0 .. MaxRows, from : 0 .. MaxTokens, used : BOOLEAN, revoked : BOOLEAN]

Rotating == {"found", "marked", "replaced"}
KnowsRow == Rotating \cup {"inserted", "reused", "familyRevoked", "suspicious"}

AuthTypes ==
  /\ row \in [Rows -> RowStates]
  /\ token \in [TokenRows -> TokenRecord]
  /\ call \in [AuthCalls -> CallRecord]

\* A token belongs to a row that exists, a call that rotates has a token, and a
\* call that said it caught a reused token has ended the session.
Placed(c) ==
  /\ call[c].at \in Rotating => call[c].t \in TokenRows
  /\ call[c].at \in KnowsRow => call[c].s \in Rows /\ row[call[c].s] # "none"
  /\ call[c].at = "suspicious" => row[call[c].s] = "revoked"

AuthInv ==
  /\ AuthTypes
  /\ \A t \in TokenRows : token[t].of # 0 => row[token[t].of] # "none"
  /\ \A c \in AuthCalls : Placed(c)

\* The bounds are those of tables.
LEMMA Bounds ==
  /\ MaxRows \in Nat /\ MaxTokens \in Nat /\ MAX_CONCURRENT_SESSIONS \in Nat \ {0}
  /\ \A s : s \in Rows <=> s \in 0 .. MaxRows /\ s # 0
  /\ \A t : t \in TokenRows <=> t \in 0 .. MaxTokens /\ t # 0
BY AuthAssumption DEF Rows, TokenRows

\* How many sessions a sign-in may find over the limit.
LEMMA SessionsOverLimit ==
  IF countActiveUserSessions >= MAX_CONCURRENT_SESSIONS
    THEN countActiveUserSessions - MAX_CONCURRENT_SESSIONS + 1 \in 0 .. MaxRows
    ELSE TRUE
<1> DEFINE S == {s \in Rows : row[s] = "active"}
<1>1. S \in SUBSET Rows /\ IsFiniteSet(Rows) /\ Cardinality(Rows) = MaxRows
  BY Bounds, FS_Interval DEF Rows
<1>2. Cardinality(S) \in Nat /\ Cardinality(S) <= MaxRows
  BY <1>1, FS_Subset, FS_CardinalityType
<1>3. countActiveUserSessions = Cardinality(S)
  BY DEF countActiveUserSessions
<1>4. QED
  BY <1>2, <1>3, Bounds

\* A call moves to k.
CallIs(c, k) == k \in CallRecord /\ call' = [call EXCEPT ![c] = k]

LEMMA CallMoves ==
  ASSUME AuthTypes, NEW c \in AuthCalls, NEW at \in CallStates, Goes(c, at)
  PROVE  \E k : CallIs(c, k) /\ k.at = at /\ k.s = call[c].s /\ k.t = call[c].t
<1> DEFINE k == [call[c] EXCEPT !.at = at]
<1>1. k \in CallRecord /\ k.at = at /\ k.s = call[c].s /\ k.t = call[c].t
  BY DEF AuthTypes, CallRecord
<1>2. call' = [call EXCEPT ![c] = k]
  BY DEF Goes, AuthTypes
<1>3. QED
  BY <1>1, <1>2 DEF CallIs

LEMMA CallFinds ==
  ASSUME AuthTypes, NEW c \in AuthCalls, NEW t \in TokenRows, FindToken(c, t)
  PROVE  \E k : /\ CallIs(c, k) /\ k.s = token[t].of /\ k.t = t
                /\ k.at \in {"invalid", "found", "reused"} /\ k.at # "suspicious"
                /\ k.at = "found" => Usable(t)
                /\ k.at = "reused" => row[token[t].of] = "active" /\ ~Usable(t)
                /\ token[t].of \in Rows
<1> DEFINE at == IF row[token[t].of] /= "active" THEN "invalid"
                 ELSE IF Usable(t) THEN "found" ELSE "reused"
           i == [call[c] EXCEPT !.t = t]
           j == [i EXCEPT !.s = token[t].of]
           k == [j EXCEPT !.at = at]
<1>1. token[t].of \in Rows /\ token[t].of \in 0 .. MaxRows /\ t \in 0 .. MaxTokens
  BY Bounds DEF FindToken, AuthTypes, TokenRecord
<1>2. /\ at \in CallStates /\ at \in {"invalid", "found", "reused"} /\ (at = "found" => Usable(t))
      /\ at = "reused" => row[token[t].of] = "active" /\ ~Usable(t)
  BY DEF CallStates, UnderWay
<1>3. call' = [call EXCEPT ![c] =
        [call[c] EXCEPT !.t = t, !.s = token[t].of, !.at = at]]
  BY DEF FindToken, AuthTypes
<1> HIDE DEF at
<1>4. i \in CallRecord /\ i.t = t
  BY <1>1 DEF AuthTypes, CallRecord
<1> HIDE DEF i
<1>5. j \in CallRecord /\ j.t = t /\ j.s = token[t].of
  BY <1>1, <1>4 DEF CallRecord
<1> HIDE DEF j
<1>6. k \in CallRecord /\ k.t = t /\ k.s = token[t].of /\ k.at = at
  BY <1>2, <1>5 DEF CallRecord
<1>7. call' = [call EXCEPT ![c] = k]
  BY <1>3 DEF i, j
<1> HIDE DEF k
<1>8. CallIs(c, k)
  BY <1>6, <1>7 DEF CallIs
<1>9. QED
  BY <1>1, <1>2, <1>6, <1>8

LEMMA CallCounts ==
  ASSUME AuthTypes, NEW c \in AuthCalls, NEW n \in 0 .. MaxRows,
         call' = [call EXCEPT ![c] = [call[c] EXCEPT !.at = "pruning", !.left = n]]
  PROVE  \E k : CallIs(c, k) /\ k.at = "pruning"
<1> DEFINE i == [call[c] EXCEPT !.at = "pruning"]
           k == [i EXCEPT !.left = n]
<1>1. i \in CallRecord /\ i.at = "pruning"
  BY DEF AuthTypes, CallRecord, CallStates, UnderWay
<1> HIDE DEF i
<1>2. k \in CallRecord /\ k.at = "pruning"
  BY <1>1 DEF CallRecord
<1>3. call' = [call EXCEPT ![c] = k]
  BY DEF i
<1>4. QED
  BY <1>2, <1>3 DEF CallIs

LEMMA CallPrunes ==
  ASSUME AuthTypes, NEW c \in AuthCalls, call[c].left > 0,
         call' = [call EXCEPT ![c].left = @ - 1]
  PROVE  \E k : CallIs(c, k) /\ k.at = call[c].at /\ k.s = call[c].s /\ k.t = call[c].t
<1> DEFINE n == call[c].left - 1
           k == [call[c] EXCEPT !.left = n]
<1>1. n \in 0 .. MaxRows
  BY Bounds DEF AuthTypes, CallRecord
<1> HIDE DEF n
<1>2. k \in CallRecord /\ k.at = call[c].at /\ k.s = call[c].s /\ k.t = call[c].t
  BY <1>1 DEF AuthTypes, CallRecord
<1>3. call' = [call EXCEPT ![c] = k]
  BY DEF n, AuthTypes
<1>4. QED
  BY <1>2, <1>3 DEF CallIs

LEMMA CallInserts ==
  ASSUME AuthTypes, NEW c \in AuthCalls, NEW s \in Rows,
         call' = [call EXCEPT ![c].at = "inserted", ![c].s = s]
  PROVE  \E k : CallIs(c, k) /\ k.at = "inserted" /\ k.s = s
<1> DEFINE i == [call[c] EXCEPT !.at = "inserted"]
           k == [i EXCEPT !.s = s]
<1>1. i \in CallRecord /\ i.at = "inserted"
  BY DEF AuthTypes, CallRecord, CallStates, UnderWay
<1> HIDE DEF i
<1>2. k \in CallRecord /\ k.at = "inserted" /\ k.s = s
  BY <1>1, Bounds DEF CallRecord
<1>3. call' = [call EXCEPT ![c] = k]
  BY DEF i, AuthTypes
<1>4. QED
  BY <1>2, <1>3 DEF CallIs

-----------------------------------------------------------------------------
(* What a step does to the rows and the tokens. *)

\* A row that was created stays, and one that was revoked stays revoked.
RowsKept ==
  \A s \in Rows : /\ row[s] # "none" => row'[s] # "none"
                  /\ row[s] = "revoked" => row'[s] = "revoked"

\* Nothing is issued and nothing opens.
OnlyCloses ==
  /\ \A s \in Rows : row'[s] = "active" => row[s] = "active"
  /\ \A t \in TokenRows : /\ token'[t].of = token[t].of /\ token'[t].from = token[t].from
                          /\ token[t].used => token'[t].used
                          /\ token[t].revoked => token'[t].revoked

\* Token t is issued for row s.
Issues(t, s) ==
  /\ token[t].of = 0
  /\ token'[t].of = s
  /\ \A u \in TokenRows \ {t} : token'[u] = token[u]
  /\ UNCHANGED row

\* A session ends.
LEMMA RowEnds ==
  ASSUME AuthTypes, NEW s \in Rows, revokeUserSession(s)
  PROVE  row' \in [Rows -> RowStates] /\ RowsKept /\ row'[s] = "revoked"
         /\ \A r \in Rows : row'[r] = "active" => row[r] = "active"
BY DEF AuthTypes, RowStates, revokeUserSession, RowsKept

\* The tokens of a session are revoked.
LEMMA FamilyEnds ==
  ASSUME AuthTypes, NEW s, revokeRefreshTokenFamily(s), UNCHANGED row
  PROVE  token' \in [TokenRows -> TokenRecord] /\ OnlyCloses
<1> DEFINE r(t) == [token[t] EXCEPT !.revoked = TRUE]
<1>1. ASSUME NEW t \in TokenRows
      PROVE  r(t) \in TokenRecord /\ r(t).of = token[t].of /\ r(t).used = token[t].used
             /\ r(t).from = token[t].from /\ r(t).revoked = TRUE
  BY DEF AuthTypes, TokenRecord
<1>2. token' = [t \in TokenRows |-> IF token[t].of = s THEN r(t) ELSE token[t]]
  BY DEF revokeRefreshTokenFamily
<1> HIDE DEF r
<1>3. \A t \in TokenRows : token'[t] = IF token[t].of = s THEN r(t) ELSE token[t]
  BY <1>2
<1>4. token' \in [TokenRows -> TokenRecord]
  BY <1>1, <1>2 DEF AuthTypes
<1>5. QED
  BY <1>1, <1>3, <1>4 DEF OnlyCloses

LEMMA TokenMarked ==
  ASSUME AuthTypes, NEW t \in TokenRows, UNCHANGED row,
         markRefreshTokenUsed(t) \/ revokeRefreshToken(t)
  PROVE  /\ token' \in [TokenRows -> TokenRecord] /\ OnlyCloses
         /\ token'[t].used \/ token'[t].revoked
         /\ markRefreshTokenUsed(t) => token'[t].used
         /\ \A u \in TokenRows \ {t} : token'[u] = token[u]
<1>1. CASE markRefreshTokenUsed(t)
  <2> DEFINE k == [token[t] EXCEPT !.used = TRUE]
  <2>1. /\ k \in TokenRecord /\ k.of = token[t].of /\ k.from = token[t].from
        /\ k.revoked = token[t].revoked /\ k.used
    BY DEF AuthTypes, TokenRecord
  <2>2. token' = [token EXCEPT ![t] = k]
    BY <1>1 DEF markRefreshTokenUsed
  <2> HIDE DEF k
  <2>3. token'[t] = k /\ \A u \in TokenRows \ {t} : token'[u] = token[u]
    BY <2>2 DEF AuthTypes
  <2> QED
    BY <2>1, <2>2, <2>3 DEF AuthTypes, OnlyCloses
<1>2. CASE ~markRefreshTokenUsed(t)
  <2> DEFINE k == [token[t] EXCEPT !.revoked = TRUE]
  <2>1. /\ k \in TokenRecord /\ k.of = token[t].of /\ k.from = token[t].from
        /\ k.used = token[t].used /\ k.revoked
    BY DEF AuthTypes, TokenRecord
  <2>2. token' = [token EXCEPT ![t] = k]
    BY <1>2 DEF revokeRefreshToken
  <2> HIDE DEF k
  <2>3. token'[t] = k /\ \A u \in TokenRows \ {t} : token'[u] = token[u]
    BY <2>2 DEF AuthTypes
  <2> QED
    BY <1>2, <2>1, <2>2, <2>3 DEF AuthTypes, OnlyCloses
<1> QED
  BY <1>1, <1>2

LEMMA TokenIssued ==
  ASSUME AuthTypes, NEW t \in TokenRows, NEW s \in 0 .. MaxRows, NEW from \in 0 .. MaxTokens,
         createRefreshToken(t, s, from), UNCHANGED row
  PROVE  /\ token' \in [TokenRows -> TokenRecord] /\ Issues(t, s)
         /\ token'[t].from = from /\ ~token'[t].used /\ ~token'[t].revoked
<1> DEFINE i == [NoToken EXCEPT !.of = s]
           k == [i EXCEPT !.from = from]
<1>0. NoToken \in TokenRecord /\ ~NoToken.used /\ ~NoToken.revoked
  BY Bounds DEF NoToken, TokenRecord
<1>1. i \in TokenRecord /\ i.of = s /\ ~i.used /\ ~i.revoked
  BY <1>0 DEF TokenRecord
<1> HIDE DEF i
<1>2. k \in TokenRecord /\ k.of = s /\ k.from = from /\ ~k.used /\ ~k.revoked
  BY <1>1 DEF TokenRecord
<1>3. token' = [token EXCEPT ![t] = k] /\ token[t].of = 0
  BY DEF createRefreshToken, FreeToken, i
<1> HIDE DEF k
<1>4. token'[t] = k
  BY <1>3 DEF AuthTypes
<1>5. QED
  BY <1>2, <1>3, <1>4 DEF AuthTypes, Issues

-----------------------------------------------------------------------------
(* The invariant is inductive. *)

TokensPlaced == \A t \in TokenRows : token[t].of # 0 => row[token[t].of] # "none"

\* A call moves and is placed again, while rows are kept: every call is placed.
LEMMA AllPlaced ==
  ASSUME AuthInv, NEW c \in AuthCalls, NEW k, CallIs(c, k), RowsKept,
         k.at \in Rotating => k.t \in TokenRows,
         k.at \in KnowsRow => k.s \in Rows /\ row'[k.s] # "none",
         k.at = "suspicious" => row'[k.s] = "revoked"
  PROVE  call' \in [AuthCalls -> CallRecord] /\ \A d \in AuthCalls : Placed(d)'
<1>1. call' \in [AuthCalls -> CallRecord] /\ call'[c] = k
  BY DEF CallIs, AuthInv, AuthTypes
<1>2. ASSUME NEW d \in AuthCalls, d # c  PROVE call'[d] = call[d]
  BY <1>2 DEF CallIs, AuthInv, AuthTypes
<1>3. Placed(c)'
  BY <1>1 DEF Placed
<1>4. ASSUME NEW d \in AuthCalls, d # c  PROVE Placed(d)'
  <2>1. Placed(d) /\ call'[d] = call[d]
    BY <1>2, <1>4 DEF AuthInv
  <2>2. call[d].at = "suspicious" => call[d].at \in KnowsRow
    BY DEF KnowsRow
  <2> QED
    BY <2>1, <2>2 DEF Placed, RowsKept
<1> QED
  BY <1>1, <1>3, <1>4

\* The tokens stay placed when none is issued, and when one is issued for a row
\* that exists.
LEMMA ClosedStayPlaced ==
  ASSUME AuthTypes, TokensPlaced, RowsKept,
         \A t \in TokenRows : token'[t].of = token[t].of
  PROVE  TokensPlaced'
<1> SUFFICES ASSUME NEW t \in TokenRows, token'[t].of # 0
             PROVE  row'[token'[t].of] # "none"
  BY DEF TokensPlaced
<1>1. token[t].of \in Rows
  BY Bounds DEF AuthTypes, TokenRecord
<1> QED
  BY <1>1 DEF TokensPlaced, RowsKept

LEMMA IssuedIsPlaced ==
  ASSUME TokensPlaced, NEW t \in TokenRows, NEW s, Issues(t, s), row[s] # "none"
  PROVE  TokensPlaced'
BY DEF TokensPlaced, Issues

LEMMA AuthInit1 == AuthInit => AuthInv
<1> SUFFICES ASSUME AuthInit  PROVE AuthInv
  OBVIOUS
<1>1. NoToken \in TokenRecord /\ NoCall \in CallRecord
  BY Bounds DEF NoToken, TokenRecord, NoCall, CallRecord, CallStates
<1>2. AuthTypes
  BY <1>1 DEF AuthInit, AuthTypes, RowStates
<1> QED
  BY <1>2 DEF AuthInit, AuthInv, Placed, NoToken, NoCall, Rotating, KnowsRow

LEMMA SignInKeeps ==
  ASSUME AuthInv, NEW c \in AuthCalls,
         CountSessions(c) \/ PruneSession(c) \/ InsertSession(c) \/ FirstToken(c)
  PROVE  AuthInv'
<1> USE DEF AuthInv
<1>0. TokensPlaced
  BY DEF TokensPlaced
<1>1. CASE CountSessions(c)
  <2> DEFINE n == IF countActiveUserSessions >= MAX_CONCURRENT_SESSIONS
                    THEN countActiveUserSessions - MAX_CONCURRENT_SESSIONS + 1 ELSE 0
  <2>1. n \in 0 .. MaxRows
    BY SessionsOverLimit, Bounds
  <2>2. /\ UNCHANGED <<row, token>>
        /\ call' = [call EXCEPT ![c] = [call[c] EXCEPT !.at = "pruning", !.left = n]]
    BY <1>1 DEF CountSessions, AuthTypes
  <2> HIDE DEF n
  <2>3. PICK k : CallIs(c, k) /\ k.at = "pruning"
    BY <2>1, <2>2, CallCounts
  <2>4. RowsKept
    BY <2>2 DEF RowsKept
  <2>5. call' \in [AuthCalls -> CallRecord] /\ \A d \in AuthCalls : Placed(d)'
    BY <2>3, <2>4, AllPlaced DEF Rotating, KnowsRow
  <2> QED
    BY <2>2, <2>5 DEF AuthTypes
<1>2. CASE PruneSession(c)
  <2>1. /\ row' \in [Rows -> RowStates] /\ RowsKept /\ UNCHANGED token
    BY <1>2 DEF PruneSession, revokeOldestUserSession, AuthTypes, RowStates, IsActive, RowsKept
  <2>2. PICK k : CallIs(c, k) /\ k.at = "pruning"
    BY <1>2, CallPrunes DEF PruneSession
  <2>3. call' \in [AuthCalls -> CallRecord] /\ \A d \in AuthCalls : Placed(d)'
    BY <2>1, <2>2, AllPlaced DEF Rotating, KnowsRow
  <2>4. TokensPlaced'
    BY <1>0, <2>1, ClosedStayPlaced
  <2> QED
    BY <2>1, <2>3, <2>4 DEF AuthTypes, TokensPlaced
<1>3. CASE InsertSession(c)
  <2>1. PICK s \in Rows : /\ createUserSession(s) /\ UNCHANGED token
                          /\ call' = [call EXCEPT ![c].at = "inserted", ![c].s = s]
    BY <1>3 DEF InsertSession
  <2>2. /\ row' \in [Rows -> RowStates] /\ RowsKept /\ row'[s] = "active"
    BY <2>1 DEF createUserSession, FreeRow, AuthTypes, RowStates, RowsKept
  <2>3. PICK k : CallIs(c, k) /\ k.at = "inserted" /\ k.s = s
    BY <2>1, CallInserts
  <2>4. call' \in [AuthCalls -> CallRecord] /\ \A d \in AuthCalls : Placed(d)'
    BY <2>2, <2>3, AllPlaced DEF Rotating, KnowsRow
  <2>5. TokensPlaced'
    BY <1>0, <2>1, <2>2, ClosedStayPlaced
  <2> QED
    BY <2>1, <2>2, <2>4, <2>5 DEF AuthTypes, TokensPlaced
<1>4. CASE FirstToken(c)
  <2>1. /\ call[c].s \in Rows /\ row[call[c].s] # "none"
        /\ UNCHANGED row /\ Goes(c, "signedIn")
    BY <1>4 DEF FirstToken, Placed, KnowsRow
  <2>2. PICK t \in TokenRows : createRefreshToken(t, call[c].s, 0)
    BY <1>4 DEF FirstToken
  <2>3. token' \in [TokenRows -> TokenRecord] /\ Issues(t, call[c].s)
    BY <2>1, <2>2, TokenIssued, Bounds
  <2>4. "signedIn" \in CallStates
    BY DEF CallStates
  <2>5. PICK k : CallIs(c, k) /\ k.at = "signedIn"
    BY <2>1, <2>4, CallMoves
  <2>6. RowsKept
    BY <2>1 DEF RowsKept
  <2>7. call' \in [AuthCalls -> CallRecord] /\ \A d \in AuthCalls : Placed(d)'
    BY <2>5, <2>6, AllPlaced DEF Rotating, KnowsRow
  <2>8. TokensPlaced'
    BY <1>0, <2>1, <2>3, IssuedIsPlaced
  <2> QED
    BY <2>1, <2>3, <2>7, <2>8 DEF AuthTypes, TokensPlaced
<1> QED
  BY <1>1, <1>2, <1>3, <1>4

\* The call moves on, and the rows and tokens only close.
LEMMA ClosingKeeps ==
  ASSUME AuthInv, NEW c \in AuthCalls, NEW at \in CallStates, Goes(c, at), RowsKept, OnlyCloses,
         row' \in [Rows -> RowStates], token' \in [TokenRows -> TokenRecord],
         at \in Rotating => call[c].at \in Rotating,
         at \in KnowsRow => call[c].at \in KnowsRow,
         at = "suspicious" => row'[call[c].s] = "revoked"
  PROVE  AuthInv'
<1>1. PICK k : CallIs(c, k) /\ k.at = at /\ k.s = call[c].s /\ k.t = call[c].t
  BY CallMoves DEF AuthInv
<1>2. Placed(c)
  BY DEF AuthInv
<1>3. /\ k.at \in Rotating => k.t \in TokenRows
      /\ k.at \in KnowsRow => k.s \in Rows /\ row'[k.s] # "none"
      /\ k.at = "suspicious" => row'[k.s] = "revoked"
  BY <1>1, <1>2 DEF Placed, RowsKept
<1>4. call' \in [AuthCalls -> CallRecord] /\ \A d \in AuthCalls : Placed(d)'
  BY <1>1, <1>3, AllPlaced
<1>5. TokensPlaced'
  BY ClosedStayPlaced DEF AuthInv, TokensPlaced, OnlyCloses
<1> QED
  BY <1>4, <1>5 DEF AuthInv, AuthTypes, TokensPlaced

LEMMA RotationKeeps ==
  ASSUME AuthInv, NEW c \in AuthCalls,
         \/ \E t \in TokenRows : FindToken(c, t)
         \/ ReuseRevokesFamily(c) \/ ReuseRevokesSession(c)
         \/ MarkUsed(c) \/ InsertSuccessor(c) \/ RevokeOld(c)
  PROVE  AuthInv'
<1>0. TokensPlaced /\ AuthTypes /\ Placed(c)
  BY DEF AuthInv, TokensPlaced
<1>n. /\ "familyRevoked" \in CallStates /\ "suspicious" \in CallStates
      /\ "marked" \in CallStates /\ "replaced" \in CallStates /\ "rotated" \in CallStates
  BY DEF CallStates, UnderWay
<1>1. CASE \E t \in TokenRows : FindToken(c, t)
  <2>1. PICK t \in TokenRows : FindToken(c, t)
    BY <1>1
  <2>3. UNCHANGED <<row, token>> /\ token[t].of # 0
    BY <2>1 DEF FindToken
  <2>4. PICK k : /\ CallIs(c, k) /\ k.s = token[t].of /\ k.t = t
                 /\ k.at # "suspicious" /\ token[t].of \in Rows
    BY <1>0, <2>1, CallFinds
  <2>6. RowsKept /\ row'[k.s] # "none"
    BY <1>0, <2>3, <2>4 DEF RowsKept, TokensPlaced
  <2>7. call' \in [AuthCalls -> CallRecord] /\ \A d \in AuthCalls : Placed(d)'
    BY <2>4, <2>6, AllPlaced
  <2> QED
    BY <2>3, <2>7 DEF AuthInv, AuthTypes
<1>2. CASE ReuseRevokesFamily(c)
  <2>1. /\ call[c].at = "reused" /\ Goes(c, "familyRevoked") /\ UNCHANGED row
        /\ revokeRefreshTokenFamily(call[c].s)
    BY <1>2 DEF ReuseRevokesFamily
  <2>2. token' \in [TokenRows -> TokenRecord] /\ OnlyCloses
    BY <1>0, <2>1, FamilyEnds
  <2>3. RowsKept /\ row' \in [Rows -> RowStates]
    BY <1>0, <2>1 DEF RowsKept, AuthTypes
  <2> QED
    BY <1>n, <2>1, <2>2, <2>3, ClosingKeeps DEF Rotating, KnowsRow
<1>3. CASE ReuseRevokesSession(c)
  <2>1. /\ call[c].at = "familyRevoked" /\ Goes(c, "suspicious") /\ UNCHANGED token
        /\ revokeUserSession(call[c].s) /\ call[c].s \in Rows
    BY <1>0, <1>3 DEF ReuseRevokesSession, Placed, KnowsRow
  <2>2. /\ row' \in [Rows -> RowStates] /\ RowsKept /\ row'[call[c].s] = "revoked"
        /\ \A r \in Rows : row'[r] = "active" => row[r] = "active"
    BY <1>0, <2>1, RowEnds
  <2>3. OnlyCloses /\ token' \in [TokenRows -> TokenRecord]
    BY <1>0, <2>1, <2>2 DEF OnlyCloses, AuthTypes
  <2> QED
    BY <1>n, <2>1, <2>2, <2>3, ClosingKeeps DEF Rotating, KnowsRow
<1>4. CASE MarkUsed(c) \/ RevokeOld(c)
  <2>1. /\ call[c].t \in TokenRows /\ UNCHANGED row
        /\ markRefreshTokenUsed(call[c].t) \/ revokeRefreshToken(call[c].t)
    BY <1>0, <1>4 DEF MarkUsed, RevokeOld, Placed, Rotating
  <2>2. token' \in [TokenRows -> TokenRecord] /\ OnlyCloses
    BY <1>0, <2>1, TokenMarked
  <2>3. RowsKept /\ row' \in [Rows -> RowStates]
    BY <1>0, <2>1 DEF RowsKept, AuthTypes
  <2>4. CASE MarkUsed(c)
    <3>1. call[c].at = "found" /\ Goes(c, "marked")
      BY <2>4 DEF MarkUsed
    <3> QED
      BY <1>n, <2>2, <2>3, <3>1, ClosingKeeps DEF Rotating, KnowsRow
  <2>5. CASE RevokeOld(c)
    <3>1. call[c].at = "replaced" /\ Goes(c, "rotated")
      BY <2>5 DEF RevokeOld
    <3> QED
      BY <1>n, <2>2, <2>3, <3>1, ClosingKeeps DEF Rotating, KnowsRow
  <2> QED
    BY <1>4, <2>4, <2>5
<1>5. CASE InsertSuccessor(c)
  <2>1. /\ call[c].at = "marked" /\ call[c].t \in TokenRows
        /\ call[c].s \in Rows /\ row[call[c].s] # "none"
        /\ UNCHANGED row /\ Goes(c, "replaced")
    BY <1>0, <1>5 DEF InsertSuccessor, Placed, Rotating, KnowsRow
  <2>2. PICK t \in TokenRows : createRefreshToken(t, call[c].s, call[c].t)
    BY <1>5 DEF InsertSuccessor
  <2>3. token' \in [TokenRows -> TokenRecord] /\ Issues(t, call[c].s)
    BY <1>0, <2>1, <2>2, TokenIssued, Bounds
  <2>4. PICK k : CallIs(c, k) /\ k.at = "replaced" /\ k.s = call[c].s /\ k.t = call[c].t
    BY <1>0, <1>n, <2>1, CallMoves
  <2>5. RowsKept
    BY <2>1 DEF RowsKept
  <2>6. call' \in [AuthCalls -> CallRecord] /\ \A d \in AuthCalls : Placed(d)'
    BY <2>1, <2>4, <2>5, AllPlaced
  <2>7. TokensPlaced'
    BY <1>0, <2>1, <2>3, IssuedIsPlaced
  <2> QED
    BY <1>0, <2>1, <2>3, <2>6, <2>7 DEF AuthInv, AuthTypes, TokensPlaced
<1> QED
  BY <1>1, <1>2, <1>3, <1>4, <1>5

LEMMA RequestKeeps ==
  ASSUME AuthInv, NEW c \in AuthCalls,
         \/ \E s \in Rows : Authenticate(c, s)
         \/ MismatchRevokesSession(c) \/ MismatchRevokesFamily(c) \/ QueryFails(c)
  PROVE  AuthInv'
<1>0. AuthTypes /\ Placed(c)
  BY DEF AuthInv
<1>n. "mismatchRevoked" \in CallStates /\ "401" \in CallStates /\ "failed" \in CallStates
  BY DEF CallStates, UnderWay
<1>1. CASE \E s \in Rows : Authenticate(c, s)
  <2>1. PICK s \in Rows : Authenticate(c, s)
    BY <1>1
  <2>2. UNCHANGED <<row, token>>
    BY <2>1 DEF Authenticate
  <2>3. PICK sameDevice \in BOOLEAN :
          call' = [call EXCEPT ![c] =
            [@ EXCEPT !.s = s,
                      !.at = IF row[s] /= "active" THEN "401"
                             ELSE IF sameDevice THEN normalizeUser(normalizeSession(s))
                             ELSE "mismatch"]]
    BY <2>1 DEF Authenticate
  <2> DEFINE at == IF row[s] /= "active" THEN "401"
                   ELSE IF sameDevice THEN normalizeUser(normalizeSession(s))
                   ELSE "mismatch"
  <2>4. at \in {"401", "admitted", "threw", "mismatch"}
    BY DEF normalizeUser
  <2>5. call' = [call EXCEPT ![c] = [call[c] EXCEPT !.s = s, !.at = at]]
    BY <1>0, <2>3 DEF AuthTypes
  <2> HIDE DEF at
  <2>6. PICK k : CallIs(c, k) /\ k.at = at
    <3> DEFINE i == [call[c] EXCEPT !.s = s]
               j == [i EXCEPT !.at = at]
    <3>1. i \in CallRecord
      BY <1>0, Bounds DEF AuthTypes, CallRecord
    <3>2. at \in CallStates
      BY <2>4 DEF CallStates, UnderWay
    <3> HIDE DEF i
    <3>3. j \in CallRecord /\ j.at = at
      BY <3>1, <3>2 DEF CallRecord
    <3>4. call' = [call EXCEPT ![c] = j]
      BY <2>5 DEF i
    <3> QED
      BY <3>3, <3>4 DEF CallIs
  <2>7. RowsKept
    BY <2>2 DEF RowsKept
  <2>8. call' \in [AuthCalls -> CallRecord] /\ \A d \in AuthCalls : Placed(d)'
    BY <2>4, <2>6, <2>7, AllPlaced DEF Rotating, KnowsRow
  <2> QED
    BY <2>2, <2>8 DEF AuthInv, AuthTypes
<1>2. CASE MismatchRevokesSession(c)
  <2>1. /\ Goes(c, "mismatchRevoked") /\ UNCHANGED token
        /\ row' = [row EXCEPT ![call[c].s] = "revoked"]
    BY <1>2 DEF MismatchRevokesSession, revokeUserSession
  <2>2. /\ row' \in [Rows -> RowStates] /\ RowsKept
        /\ \A r \in Rows : row'[r] = "active" => row[r] = "active"
    BY <1>0, <2>1 DEF AuthTypes, RowStates, RowsKept
  <2>3. OnlyCloses /\ token' \in [TokenRows -> TokenRecord]
    BY <1>0, <2>1, <2>2 DEF OnlyCloses, AuthTypes
  <2> QED
    BY <1>n, <2>1, <2>2, <2>3, ClosingKeeps DEF Rotating, KnowsRow
<1>3. CASE MismatchRevokesFamily(c)
  <2>1. /\ Goes(c, "401") /\ UNCHANGED row /\ revokeRefreshTokenFamily(call[c].s)
    BY <1>3 DEF MismatchRevokesFamily
  <2>2. token' \in [TokenRows -> TokenRecord] /\ OnlyCloses
    BY <1>0, <2>1, FamilyEnds
  <2>3. RowsKept /\ row' \in [Rows -> RowStates]
    BY <1>0, <2>1 DEF RowsKept, AuthTypes
  <2> QED
    BY <1>n, <2>1, <2>2, <2>3, ClosingKeeps DEF Rotating, KnowsRow
<1>4. CASE QueryFails(c)
  <2>1. Goes(c, "failed") /\ UNCHANGED <<row, token>>
    BY <1>4 DEF QueryFails
  <2>2. RowsKept /\ OnlyCloses /\ row' \in [Rows -> RowStates] /\ token' \in [TokenRows -> TokenRecord]
    BY <1>0, <2>1 DEF RowsKept, OnlyCloses, AuthTypes
  <2> QED
    BY <1>n, <2>1, <2>2, ClosingKeeps DEF Rotating, KnowsRow
<1> QED
  BY <1>1, <1>2, <1>3, <1>4

\* Rows lapse and lapsed rows are revoked, while no call moves.
LEMMA JobKeeps ==
  ASSUME AuthInv, (\E s \in Rows : SessionLapses(s)) \/ cleanupExpiredSessions
  PROVE  AuthInv' /\ OnlyCloses
<1>1. UNCHANGED <<token, call>> /\ row' \in [Rows -> RowStates] /\ RowsKept /\ OnlyCloses
  BY DEF SessionLapses, cleanupExpiredSessions, AuthInv, AuthTypes, RowStates, RowsKept, OnlyCloses
<1>2. TokensPlaced'
  BY <1>1, ClosedStayPlaced DEF AuthInv, TokensPlaced
<1>3. ASSUME NEW d \in AuthCalls  PROVE Placed(d)'
  <2>1. Placed(d) /\ call[d].at = "suspicious" => call[d].at \in KnowsRow
    BY DEF AuthInv, KnowsRow
  <2> QED
    BY <1>1, <2>1 DEF AuthInv, Placed, RowsKept, KnowsRow
<1> QED
  BY <1>1, <1>2, <1>3 DEF AuthInv, AuthTypes, TokensPlaced

LEMMA StillKeeps ==
  ASSUME AuthInv, UNCHANGED authVars
  PROVE  AuthInv'
BY DEF AuthInv, AuthTypes, Placed, authVars

LEMMA AuthStep == AuthInv /\ [AuthNext]_authVars => AuthInv'
<1> SUFFICES ASSUME AuthInv, [AuthNext]_authVars  PROVE AuthInv'
  OBVIOUS
<1>1. CASE \E s \in Rows : SessionLapses(s)
  BY <1>1, JobKeeps
<1>2. CASE cleanupExpiredSessions
  BY <1>2, JobKeeps
<1>3. CASE UNCHANGED authVars
  BY <1>3, StillKeeps
<1>4. ASSUME NEW c \in AuthCalls,
             \/ CountSessions(c) \/ PruneSession(c) \/ InsertSession(c) \/ FirstToken(c)
             \/ \E t \in TokenRows : FindToken(c, t)
             \/ ReuseRevokesFamily(c) \/ ReuseRevokesSession(c)
             \/ MarkUsed(c) \/ InsertSuccessor(c) \/ RevokeOld(c)
             \/ \E s \in Rows : Authenticate(c, s)
             \/ MismatchRevokesSession(c) \/ MismatchRevokesFamily(c) \/ QueryFails(c)
      PROVE  AuthInv'
  BY <1>4, SignInKeeps, RotationKeeps, RequestKeeps
<1> QED
  BY <1>1, <1>2, <1>3, <1>4 DEF AuthNext

LEMMA AuthInvariant == AuthSpec => []AuthInv
BY AuthInit1, AuthStep, PTL DEF AuthSpec

\* The rows, tokens and calls of the sessions have their types.
THEOREM SessionTypes == AuthSpec => []AuthTypeOK
<1>1. AuthInv => AuthTypeOK
  BY DEF AuthInv, AuthTypes, AuthTypeOK, RowStates, TokenRecord, CallRecord, CallStates
<1> QED
  BY <1>1, AuthInvariant, PTL

LEMMA CaughtIsEnded == AuthInv => CaughtReuseEnds
BY DEF AuthInv, Placed, CaughtReuseEnds, Usable

\* Once a refresh answered that it caught a reused token, no token of that
\* session is ever honoured again: the session it ended stays revoked, whoever
\* inserts a token for it later.
THEOREM ReuseEndsSession == AuthSpec => []CaughtReuseEnds
BY CaughtIsEnded, AuthInvariant, PTL

-----------------------------------------------------------------------------
(* A refresh token is a one-time token. *)

TokensIssued == {t \in TokenRows : token[t].of /= 0}
TokensOpen == {t \in TokenRows : Usable(t)}
TokensSeen == {<<c, call[c].t>> : c \in {d \in AuthCalls : call[d].at \in {"found", "marked", "replaced"}}}
TokensServed == {<<c, call[c].t>> : c \in {d \in AuthCalls : call[d].at = "rotated"}}

LEMMA ClosesSome ==
  ASSUME AuthTypes, OnlyCloses
  PROVE  UNCHANGED TokensIssued /\ \E T \in SUBSET TokenRows : TokensOpen' = TokensOpen \ T
<1>1. UNCHANGED TokensIssued
  BY DEF OnlyCloses, TokensIssued
<1>2. ASSUME NEW t \in TokenRows, Usable(t)'  PROVE Usable(t)
  <2>1. token'[t].of = token[t].of /\ token[t].of \in Rows
    BY <1>2, Bounds DEF Usable, OnlyCloses, AuthTypes, TokenRecord
  <2> QED
    BY <1>2, <2>1 DEF Usable, OnlyCloses
<1>3. TokensOpen' \subseteq TokensOpen
  BY <1>2 DEF TokensOpen
<1>4. TokensOpen' = TokensOpen \ (TokensOpen \ TokensOpen') /\ TokensOpen \ TokensOpen' \in SUBSET TokenRows
  BY <1>3 DEF TokensOpen
<1> QED
  BY <1>1, <1>4

LEMMA IssuesOne ==
  ASSUME AuthTypes, NEW t \in TokenRows, NEW s \in Rows, Issues(t, s)
  PROVE  /\ {t} \cap TokensIssued = {} /\ TokensIssued' = TokensIssued \cup {t}
         /\ TokensOpen \subseteq TokensOpen' /\ TokensOpen' \subseteq TokensOpen \cup {t}
<1>1. s # 0
  BY Bounds
<1>2. ASSUME NEW u \in TokenRows, u # t  PROVE Usable(u)' <=> Usable(u)
  BY <1>2 DEF Usable, Issues
<1>3. ~Usable(t)
  BY DEF Issues, Usable
<1> QED
  BY <1>1, <1>2, <1>3 DEF Issues, TokensIssued, TokensOpen

\* What the step of a call does to the pairs of those that saw or were served.
LEMMA CallStays ==
  ASSUME AuthTypes, NEW c \in AuthCalls, NEW k, CallIs(c, k),
         k.at # "rotated", call[c].at # "rotated",
         k.at \in Rotating <=> call[c].at \in Rotating,
         k.at \in Rotating => k.t = call[c].t
  PROVE  UNCHANGED <<TokensSeen, TokensServed>>
<1>1. call'[c] = k /\ \A d \in AuthCalls : d # c => call'[d] = call[d]
  BY DEF CallIs, AuthTypes
<1>2. ASSUME NEW d \in AuthCalls
      PROVE  /\ call'[d].at \in Rotating <=> call[d].at \in Rotating
             /\ call'[d].at = "rotated" <=> call[d].at = "rotated"
             /\ call[d].at \in Rotating \/ call[d].at = "rotated" => call'[d].t = call[d].t
  BY <1>1, <1>2
<1>3. UNCHANGED TokensSeen
  BY <1>2 DEF TokensSeen, Rotating
<1>4. UNCHANGED TokensServed
  BY <1>2 DEF TokensServed
<1> QED
  BY <1>3, <1>4

LEMMA CallLooks ==
  ASSUME AuthTypes, NEW c \in AuthCalls, NEW k, CallIs(c, k),
         k.at \in Rotating, call[c].at \notin Rotating, call[c].at # "rotated"
  PROVE  TokensSeen' = TokensSeen \cup {<<c, k.t>>} /\ UNCHANGED TokensServed
<1>1. call'[c] = k /\ \A d \in AuthCalls : d # c => call'[d] = call[d]
  BY DEF CallIs, AuthTypes
<1>2. TokensSeen' = TokensSeen \cup {<<c, k.t>>}
  BY <1>1 DEF TokensSeen, Rotating
<1>3. UNCHANGED TokensServed
  BY <1>1 DEF TokensServed, Rotating
<1> QED
  BY <1>2, <1>3

LEMMA CallLeaves ==
  ASSUME AuthTypes, NEW c \in AuthCalls, NEW k, CallIs(c, k),
         k.at \notin Rotating, call[c].at \in Rotating, k.t = call[c].t
  PROVE  /\ TokensSeen' = TokensSeen \ {<<c, k.t>>} /\ <<c, k.t>> \in TokensSeen
         /\ TokensServed' = IF k.at = "rotated" THEN TokensServed \cup {<<c, k.t>>} ELSE TokensServed
<1>1. call'[c] = k /\ \A d \in AuthCalls : d # c => call'[d] = call[d]
  BY DEF CallIs, AuthTypes
<1>2. TokensSeen' = TokensSeen \ {<<c, k.t>>} /\ <<c, k.t>> \in TokensSeen
  BY <1>1 DEF TokensSeen, Rotating
<1>3. TokensServed' = IF k.at = "rotated" THEN TokensServed \cup {<<c, k.t>>} ELSE TokensServed
  BY <1>1 DEF TokensServed, Rotating
<1> QED
  BY <1>2, <1>3

LEMMA MovesOn ==
  ASSUME AuthTypes, NEW c \in AuthCalls, NEW at \in CallStates, Goes(c, at),
         at # "rotated", call[c].at # "rotated", at \in Rotating <=> call[c].at \in Rotating
  PROVE  UNCHANGED <<TokensSeen, TokensServed>>
BY CallMoves, CallStays

LEMMA ClosingStep ==
  ASSUME AuthTypes, OnlyCloses, UNCHANGED <<TokensSeen, TokensServed>>
  PROVE  RefreshTokens!OneTimeNext
<1>1. UNCHANGED TokensIssued
  BY ClosesSome
<1>2. PICK T \in SUBSET TokenRows : TokensOpen' = TokensOpen \ T
  BY ClosesSome
<1>3. RefreshTokens!Close(T)
  BY <1>1, <1>2 DEF RefreshTokens!Close, TokensIssued, TokensOpen, TokensSeen, TokensServed
<1> QED
  BY <1>3 DEF RefreshTokens!OneTimeNext

\* The ends of a session, the marks of a token and the other calls close.
LEMMA SessionsClose ==
  ASSUME AuthInv, NEW c \in AuthCalls,
         \/ PruneSession(c) \/ ReuseRevokesSession(c) \/ MismatchRevokesSession(c)
         \/ ReuseRevokesFamily(c) \/ MismatchRevokesFamily(c) \/ MarkUsed(c)
  PROVE  OnlyCloses /\ UNCHANGED <<TokensSeen, TokensServed>>
<1>0. AuthTypes /\ Placed(c)
  BY DEF AuthInv
<1>n. /\ "familyRevoked" \in CallStates /\ "suspicious" \in CallStates /\ "marked" \in CallStates
      /\ "mismatchRevoked" \in CallStates /\ "401" \in CallStates
  BY DEF CallStates, UnderWay
<1>1. CASE PruneSession(c)
  <2>1. OnlyCloses
    BY <1>0, <1>1 DEF PruneSession, revokeOldestUserSession, OnlyCloses, AuthTypes
  <2>2. PICK k : CallIs(c, k) /\ k.at = "pruning" /\ call[c].at = "pruning"
    BY <1>0, <1>1, CallPrunes DEF PruneSession
  <2> QED
    BY <1>0, <2>1, <2>2, CallStays DEF Rotating
<1>2. CASE ReuseRevokesSession(c) \/ MismatchRevokesSession(c)
  <2>1. /\ row' = [row EXCEPT ![call[c].s] = "revoked"] /\ UNCHANGED token
    BY <1>2 DEF ReuseRevokesSession, MismatchRevokesSession, revokeUserSession
  <2>2. OnlyCloses
    BY <1>0, <2>1 DEF OnlyCloses, AuthTypes
  <2>3. \/ call[c].at = "familyRevoked" /\ Goes(c, "suspicious")
        \/ call[c].at = "mismatch" /\ Goes(c, "mismatchRevoked")
    BY <1>2 DEF ReuseRevokesSession, MismatchRevokesSession
  <2>4. UNCHANGED <<TokensSeen, TokensServed>>
    BY <1>0, <1>n, <2>3, MovesOn DEF Rotating
  <2> QED
    BY <2>2, <2>4
<1>3. CASE ReuseRevokesFamily(c) \/ MismatchRevokesFamily(c)
  <2>1. revokeRefreshTokenFamily(call[c].s) /\ UNCHANGED row
    BY <1>3 DEF ReuseRevokesFamily, MismatchRevokesFamily
  <2>2. OnlyCloses
    BY <1>0, <2>1, FamilyEnds
  <2>3. \/ call[c].at = "reused" /\ Goes(c, "familyRevoked")
        \/ call[c].at = "mismatchRevoked" /\ Goes(c, "401")
    BY <1>3 DEF ReuseRevokesFamily, MismatchRevokesFamily
  <2>4. UNCHANGED <<TokensSeen, TokensServed>>
    BY <1>0, <1>n, <2>3, MovesOn DEF Rotating
  <2> QED
    BY <2>2, <2>4
<1>4. CASE MarkUsed(c)
  <2>1. /\ call[c].at = "found" /\ Goes(c, "marked") /\ UNCHANGED row
        /\ markRefreshTokenUsed(call[c].t) /\ call[c].t \in TokenRows
    BY <1>0, <1>4 DEF MarkUsed, Placed, Rotating
  <2>2. OnlyCloses
    BY <1>0, <2>1, TokenMarked
  <2>3. UNCHANGED <<TokensSeen, TokensServed>>
    BY <1>0, <1>n, <2>1, MovesOn DEF Rotating
  <2> QED
    BY <2>2, <2>3
<1> QED
  BY <1>1, <1>2, <1>3, <1>4

\* The calls that only read.
LEMMA ReadersClose ==
  ASSUME AuthInv, NEW c \in AuthCalls,
         \/ CountSessions(c) \/ \E s \in Rows : Authenticate(c, s)
  PROVE  OnlyCloses /\ UNCHANGED <<TokensSeen, TokensServed>>
<1>0. AuthTypes
  BY DEF AuthInv
<1>1. UNCHANGED <<row, token>> /\ OnlyCloses /\ call[c].at = "new"
  BY DEF CountSessions, Authenticate, OnlyCloses
<1>2. \A d \in AuthCalls : d # c => call'[d] = call[d]
  BY <1>0 DEF CountSessions, Authenticate, AuthTypes
<1>3. call'[c].at \notin Rotating /\ call'[c].at # "rotated"
  <2>1. CASE CountSessions(c)
    <3> DEFINE n == IF countActiveUserSessions >= MAX_CONCURRENT_SESSIONS
                      THEN countActiveUserSessions - MAX_CONCURRENT_SESSIONS + 1 ELSE 0
    <3>1. n \in 0 .. MaxRows
      BY SessionsOverLimit, Bounds
    <3>2. call' = [call EXCEPT ![c] = [call[c] EXCEPT !.at = "pruning", !.left = n]]
      BY <1>0, <2>1 DEF CountSessions, AuthTypes
    <3> HIDE DEF n
    <3>3. PICK k : CallIs(c, k) /\ k.at = "pruning"
      BY <1>0, <3>1, <3>2, CallCounts
    <3> QED
      BY <1>0, <3>3 DEF CallIs, AuthTypes, Rotating
  <2>2. CASE \E s \in Rows : Authenticate(c, s)
    <3>1. PICK s \in Rows, sameDevice \in BOOLEAN :
            call' = [call EXCEPT ![c] =
              [@ EXCEPT !.s = s,
                        !.at = IF row[s] /= "active" THEN "401"
                               ELSE IF sameDevice THEN normalizeUser(normalizeSession(s))
                               ELSE "mismatch"]]
      BY <2>2 DEF Authenticate
    <3> DEFINE at == IF row[s] /= "active" THEN "401"
                     ELSE IF sameDevice THEN normalizeUser(normalizeSession(s))
                     ELSE "mismatch"
    <3>2. at \in {"401", "admitted", "threw", "mismatch"}
      BY DEF normalizeUser
    <3>3. call' = [call EXCEPT ![c] = [call[c] EXCEPT !.s = s, !.at = at]]
      BY <1>0, <3>1 DEF AuthTypes
    <3> HIDE DEF at
    <3>4. call'[c].at = at
      BY <1>0, <3>3 DEF AuthTypes, CallRecord
    <3> QED
      BY <3>2, <3>4 DEF Rotating
  <2> QED
    BY <2>1, <2>2
<1>4. UNCHANGED TokensSeen
  BY <1>1, <1>2, <1>3 DEF TokensSeen, Rotating
<1>5. UNCHANGED TokensServed
  BY <1>1, <1>2, <1>3 DEF TokensServed
<1> QED
  BY <1>1, <1>4, <1>5

\* A call that finds its token sees it; one that does not moves on.
LEMMA FindStep ==
  ASSUME AuthInv, NEW c \in AuthCalls, NEW t \in TokenRows, FindToken(c, t)
  PROVE  [RefreshTokens!OneTimeNext]_(RefreshTokens!oneTimeVars)
<1>0. AuthTypes
  BY DEF AuthInv
<1>1. PICK k : /\ CallIs(c, k) /\ k.t = t
               /\ k.at \in {"invalid", "found", "reused"}
               /\ k.at = "found" => Usable(t)
  BY <1>0, CallFinds
<1>2. UNCHANGED <<row, token>> /\ call[c].at = "new"
  BY DEF FindToken
<1>3. UNCHANGED <<TokensIssued, TokensOpen>>
  BY <1>2 DEF TokensIssued, TokensOpen, Usable
<1>4. CASE k.at = "found"
  <2>1. TokensSeen' = TokensSeen \cup {<<c, t>>} /\ UNCHANGED TokensServed
    BY <1>0, <1>1, <1>2, <1>4, CallLooks DEF Rotating
  <2>2. t \in TokensOpen
    BY <1>1, <1>4 DEF TokensOpen
  <2>3. RefreshTokens!Look(c, t)
    BY <1>3, <2>1, <2>2 DEF RefreshTokens!Look, TokensIssued, TokensOpen, TokensSeen, TokensServed
  <2> QED
    BY <2>3 DEF RefreshTokens!OneTimeNext
<1>5. CASE k.at # "found"
  <2>1. UNCHANGED <<TokensSeen, TokensServed>>
    BY <1>0, <1>1, <1>2, <1>5, CallStays DEF Rotating
  <2> QED
    BY <1>3, <2>1 DEF RefreshTokens!oneTimeVars, TokensIssued, TokensOpen, TokensSeen, TokensServed
<1> QED
  BY <1>4, <1>5

\* A sign-in and a rotation issue one token; a new session has none yet.
LEMMA IssueStep ==
  ASSUME AuthInv, NEW c \in AuthCalls, FirstToken(c) \/ InsertSuccessor(c)
  PROVE  RefreshTokens!OneTimeNext
<1>0. AuthTypes /\ Placed(c)
  BY DEF AuthInv
<1>1. /\ call[c].s \in Rows /\ UNCHANGED row
      /\ \E t \in TokenRows, from \in 0 .. MaxTokens : createRefreshToken(t, call[c].s, from)
  BY <1>0, Bounds DEF FirstToken, InsertSuccessor, Placed, Rotating, KnowsRow
<1>2. PICK t \in TokenRows : Issues(t, call[c].s)
  BY <1>0, <1>1, TokenIssued, Bounds
<1>3. /\ {t} \cap TokensIssued = {} /\ TokensIssued' = TokensIssued \cup {t}
      /\ TokensOpen \subseteq TokensOpen' /\ TokensOpen' \subseteq TokensOpen \cup {t}
  BY <1>0, <1>1, <1>2, IssuesOne
<1>4. "signedIn" \in CallStates /\ "replaced" \in CallStates
  BY DEF CallStates, UnderWay
<1>5. UNCHANGED <<TokensSeen, TokensServed>>
  BY <1>0, <1>4, MovesOn DEF FirstToken, InsertSuccessor, Rotating
<1>6. RefreshTokens!Issue({t})
  BY <1>3, <1>5 DEF RefreshTokens!Issue, TokensIssued, TokensOpen, TokensSeen, TokensServed
<1> QED
  BY <1>6 DEF RefreshTokens!OneTimeNext

LEMMA InsertStep ==
  ASSUME AuthInv, NEW c \in AuthCalls, InsertSession(c)
  PROVE  UNCHANGED <<TokensIssued, TokensOpen, TokensSeen, TokensServed>>
<1>0. AuthTypes
  BY DEF AuthInv
<1>1. PICK s \in Rows : /\ createUserSession(s) /\ UNCHANGED token /\ call[c].at = "pruning"
                        /\ call' = [call EXCEPT ![c].at = "inserted", ![c].s = s]
  BY DEF InsertSession
<1>2. \A t \in TokenRows : token[t].of # 0 => token[t].of # s
  BY <1>1 DEF AuthInv, createUserSession, FreeRow
<1>3. ASSUME NEW t \in TokenRows  PROVE Usable(t)' <=> Usable(t)
  <2>1. token[t].of # 0 => token[t].of \in Rows
    BY <1>0, Bounds DEF AuthTypes, TokenRecord
  <2> QED
    BY <1>0, <1>1, <1>2, <2>1 DEF Usable, createUserSession, AuthTypes
<1>4. UNCHANGED <<TokensIssued, TokensOpen>>
  BY <1>1, <1>3 DEF TokensIssued, TokensOpen
<1>5. PICK k : CallIs(c, k) /\ k.at = "inserted"
  BY <1>0, <1>1, CallInserts
<1>6. UNCHANGED <<TokensSeen, TokensServed>>
  BY <1>0, <1>1, <1>5, CallStays DEF Rotating
<1> QED
  BY <1>4, <1>6

\* The last query of a rotation serves the call.
LEMMA GrantStep ==
  ASSUME AuthInv, NEW c \in AuthCalls, RevokeOld(c)
  PROVE  RefreshTokens!OneTimeNext
<1>0. AuthTypes /\ Placed(c)
  BY DEF AuthInv
<1>t. PICK t \in TokenRows : t = call[c].t
  BY <1>0 DEF RevokeOld, Placed, Rotating
<1>1. /\ call[c].at = "replaced" /\ Goes(c, "rotated") /\ UNCHANGED row
      /\ revokeRefreshToken(t)
  BY <1>t DEF RevokeOld
<1>2. "rotated" \in CallStates
  BY DEF CallStates
<1>3. PICK k : CallIs(c, k) /\ k.at = "rotated" /\ k.t = t
  BY <1>0, <1>t, <1>1, <1>2, CallMoves
<1>4. /\ <<c, t>> \in TokensSeen /\ TokensSeen' = TokensSeen \ {<<c, t>>}
      /\ TokensServed' = TokensServed \cup {<<c, t>>}
  BY <1>0, <1>t, <1>1, <1>3, CallLeaves DEF Rotating
<1>5. /\ OnlyCloses
      /\ token'[t].used \/ token'[t].revoked
      /\ \A u \in TokenRows \ {t} : token'[u] = token[u]
  BY <1>0, <1>1, TokenMarked
<1>6. UNCHANGED TokensIssued
  BY <1>0, <1>5, ClosesSome
<1>7. TokensOpen' = TokensOpen \ {t}
  <2>1. ~Usable(t)'
    BY <1>5 DEF Usable
  <2>2. \A u \in TokenRows \ {t} : Usable(u)' <=> Usable(u)
    BY <1>1, <1>5 DEF Usable
  <2> QED
    BY <2>1, <2>2 DEF TokensOpen
<1>8. RefreshTokens!Grant(c, t)
  BY <1>4, <1>6, <1>7 DEF RefreshTokens!Grant, TokensIssued, TokensOpen, TokensSeen, TokensServed
<1> QED
  BY <1>8 DEF RefreshTokens!OneTimeNext

\* A rotation whose query failed gives up.
LEMMA FailStep ==
  ASSUME AuthInv, NEW c \in AuthCalls, QueryFails(c)
  PROVE  [RefreshTokens!OneTimeNext]_(RefreshTokens!oneTimeVars)
<1>0. AuthTypes /\ Placed(c)
  BY DEF AuthInv
<1>1. UNCHANGED <<row, token>> /\ call[c].at \in UnderWay /\ Goes(c, "failed")
  BY DEF QueryFails
<1>2. UNCHANGED <<TokensIssued, TokensOpen>>
  BY <1>1 DEF TokensIssued, TokensOpen, Usable
<1>3. "failed" \in CallStates
  BY DEF CallStates
<1>4. CASE call[c].at \in Rotating
  <2>1. PICK k : CallIs(c, k) /\ k.at = "failed" /\ k.t = call[c].t
    BY <1>0, <1>1, <1>3, CallMoves
  <2>2. TokensSeen' = TokensSeen \ {<<c, k.t>>} /\ UNCHANGED TokensServed /\ k.t \in TokenRows
    BY <1>0, <1>4, <2>1, CallLeaves DEF Rotating, Placed
  <2>3. RefreshTokens!GiveUp(c, k.t)
    BY <1>2, <2>2 DEF RefreshTokens!GiveUp, TokensIssued, TokensOpen, TokensSeen, TokensServed
  <2> QED
    BY <2>2, <2>3 DEF RefreshTokens!OneTimeNext
<1>5. CASE call[c].at \notin Rotating
  <2>1. UNCHANGED <<TokensSeen, TokensServed>>
    BY <1>0, <1>1, <1>3, <1>5, MovesOn DEF UnderWay, Rotating
  <2> QED
    BY <1>2, <2>1 DEF RefreshTokens!oneTimeVars, TokensIssued, TokensOpen, TokensSeen, TokensServed
<1> QED
  BY <1>4, <1>5

LEMMA RotationRefines ==
  AuthInv /\ [AuthNext]_authVars
    => [RefreshTokens!OneTimeNext]_(RefreshTokens!oneTimeVars)
<1> SUFFICES ASSUME AuthInv, [AuthNext]_authVars
             PROVE  [RefreshTokens!OneTimeNext]_(RefreshTokens!oneTimeVars)
  OBVIOUS
<1>0. AuthTypes
  BY DEF AuthInv
<1>1. CASE (\E s \in Rows : SessionLapses(s)) \/ cleanupExpiredSessions
  <2>1. UNCHANGED call /\ OnlyCloses
    BY <1>1, JobKeeps DEF SessionLapses, cleanupExpiredSessions
  <2>2. UNCHANGED <<TokensSeen, TokensServed>>
    BY <2>1 DEF TokensSeen, TokensServed
  <2> QED
    BY <1>0, <2>1, <2>2, ClosingStep
<1>2. CASE UNCHANGED authVars
  BY <1>2 DEF authVars, RefreshTokens!oneTimeVars, Usable
<1>3. ASSUME NEW c \in AuthCalls,
             \/ CountSessions(c) \/ PruneSession(c) \/ InsertSession(c) \/ FirstToken(c)
             \/ \E t \in TokenRows : FindToken(c, t)
             \/ ReuseRevokesFamily(c) \/ ReuseRevokesSession(c)
             \/ MarkUsed(c) \/ InsertSuccessor(c) \/ RevokeOld(c)
             \/ \E s \in Rows : Authenticate(c, s)
             \/ MismatchRevokesSession(c) \/ MismatchRevokesFamily(c) \/ QueryFails(c)
      PROVE  [RefreshTokens!OneTimeNext]_(RefreshTokens!oneTimeVars)
  <2>1. CASE InsertSession(c)
    BY <2>1, InsertStep DEF RefreshTokens!oneTimeVars, TokensIssued, TokensOpen, TokensSeen, TokensServed
  <2>2. CASE CountSessions(c) \/ \E s \in Rows : Authenticate(c, s)
    BY <1>0, <2>2, ReadersClose, ClosingStep
  <2>3. CASE \/ PruneSession(c) \/ ReuseRevokesSession(c) \/ MismatchRevokesSession(c)
             \/ ReuseRevokesFamily(c) \/ MismatchRevokesFamily(c) \/ MarkUsed(c)
    BY <1>0, <2>3, SessionsClose, ClosingStep
  <2> QED
    BY <1>3, <2>1, <2>2, <2>3, FindStep, IssueStep, GrantStep, FailStep
<1> QED
  BY <1>1, <1>2, <1>3 DEF AuthNext

LEMMA TokensBegin == AuthInit => RefreshTokens!OneTimeInit
BY DEF AuthInit, NoCall, NoToken, Usable, RefreshTokens!OneTimeInit

\* Refresh tokens are one-time tokens: a refresh is granted only to a call that
\* read the token before it was marked, and nobody who reads it after a grant is
\* served, however the calls interleave and whichever of their queries fail.
THEOREM RotationImplements == AuthSpec => RotationIsOneTime
BY TokensBegin, RotationRefines, AuthInvariant, PTL
DEF AuthSpec, RotationIsOneTime, RefreshTokens!OneTimeSpec

-----------------------------------------------------------------------------
(* Handoffs: the invariant. *)

Copy == [db : {"none", "open", "gone", "consumed", "expired"}, mem : BOOLEAN]
VisitStates == {"new", "stateFound", "stateHeld", "noState", "asking",
                "invalid_state", "signedIn", "provider_failed", "redirected"}
Exchange == [at : {"new", "found", "401", "cookies", "cookiesFromMemory"},
             of : Visits \cup {NoVisit}]

\* A handoff is created with the redirect, and an exchange that found one has it.
HandoffInv ==
  /\ handoff \in [Visits -> Copy]
  /\ exchange \in [Exchanges -> Exchange]
  /\ visit \in [Visits -> VisitStates]
  /\ \A v \in Visits : visit[v] # "redirected" => handoff[v].db # "open" /\ ~handoff[v].mem
  /\ \A x \in Exchanges : exchange[x].at = "found" => exchange[x].of \in Visits

CopiesIssued == {v \in Visits : visit[v] = "redirected"} \X {"db", "mem"}
CopiesOpen == {<<h, "db">> : h \in {v \in Visits : handoff[v].db = "open"}}
           \cup {<<h, "mem">> : h \in {v \in Visits : handoff[v].mem}}
CopiesSeen == ExchangesAt("found", "db")
CopiesServed == ExchangesAt("cookies", "db") \cup ExchangesAt("cookiesFromMemory", "mem")

\* Exchange x becomes e.
ExchangeIs(x, e) == e \in Exchange /\ exchange' = [exchange EXCEPT ![x] = e]

LEMMA CopyIs ==
  ASSUME NEW db \in {"none", "open", "gone", "consumed", "expired"}, NEW mem \in BOOLEAN
  PROVE  /\ [db |-> db, mem |-> mem] \in Copy
         /\ [db |-> db, mem |-> mem].db = db /\ [db |-> db, mem |-> mem].mem = mem
BY DEF Copy

LEMMA InsertedCopies == Inserted \subseteq Copy
BY CopyIs DEF Inserted

LEMMA HandoffInit == OAuthInit => HandoffInv
<1> SUFFICES ASSUME OAuthInit  PROVE HandoffInv
  OBVIOUS
<1> DEFINE e == [at |-> "new", of |-> NoVisit]
<1>1. NoCopy \in Copy /\ NoCopy.db # "open" /\ ~NoCopy.mem
  BY CopyIs DEF NoCopy
<1>2. e \in Exchange /\ e.at # "found"
  BY DEF Exchange
<1>3. /\ visit = [v \in Visits |-> "new"] /\ handoff = [v \in Visits |-> NoCopy]
      /\ exchange = [x \in Exchanges |-> e]
  BY DEF OAuthInit
<1> HIDE DEF e
<1> QED
  BY <1>1, <1>2, <1>3 DEF HandoffInv, VisitStates

\* Steps before the redirect move visits that have no handoff.
LEMMA VisitKeeps ==
  ASSUME HandoffInv, NEW v \in Visits, NEW at \in VisitStates, VisitGoes(v, at),
         at # "redirected", visit[v] # "redirected", UNCHANGED <<handoff, exchange>>
  PROVE  HandoffInv' /\ UNCHANGED <<CopiesIssued, CopiesOpen, CopiesSeen, CopiesServed>>
<1>1. visit' \in [Visits -> VisitStates]
      /\ \A u \in Visits : visit'[u] = "redirected" <=> visit[u] = "redirected"
  BY DEF HandoffInv, VisitGoes
<1>2. HandoffInv'
  BY <1>1 DEF HandoffInv
<1>3. UNCHANGED CopiesIssued
  BY <1>1 DEF CopiesIssued
<1>4. UNCHANGED <<CopiesOpen, CopiesSeen, CopiesServed>>
  BY DEF CopiesOpen, CopiesSeen, CopiesServed, ExchangesAt
<1> QED
  BY <1>2, <1>3, <1>4

LEMMA SignInVisits ==
  ASSUME HandoffInv, NEW v \in Visits,
         LookUpState(v) \/ DeleteState(v) \/ CheckState(v) \/ AskProvider(v)
  PROVE  HandoffInv' /\ UNCHANGED <<CopiesIssued, CopiesOpen, CopiesSeen, CopiesServed>>
<1>1. visit[v] # "redirected" /\ UNCHANGED <<handoff, exchange>>
  BY DEF LookUpState, DeleteState, CheckState, AskProvider
<1>2. \/ VisitGoes(v, "stateFound") \/ VisitGoes(v, "stateHeld") \/ VisitGoes(v, "noState")
      \/ VisitGoes(v, "asking") \/ VisitGoes(v, "invalid_state")
      \/ VisitGoes(v, "signedIn") \/ VisitGoes(v, "provider_failed")
  BY DEF LookUpState, DeleteState, CheckState, AskProvider
<1> QED
  BY <1>1, <1>2, VisitKeeps DEF VisitStates

\* The redirect issues the two copies of its handoff.
LEMMA CreateStep ==
  ASSUME HandoffInv, NEW v \in Visits, CreateHandoff(v)
  PROVE  HandoffInv' /\ Handoffs!OneTimeNext
<1> DEFINE T == {v} \X {"db", "mem"}
<1>1. PICK h \in Inserted : handoff' = [handoff EXCEPT ![v] = h]
  BY DEF CreateHandoff
<1>2. /\ visit[v] = "signedIn" /\ visit' = [visit EXCEPT ![v] = "redirected"]
      /\ UNCHANGED exchange
  BY DEF CreateHandoff, VisitGoes
<1>3. h \in Copy
  BY InsertedCopies
<1>4. /\ handoff' \in [Visits -> Copy] /\ visit' \in [Visits -> VisitStates]
      /\ visit'[v] = "redirected"
      /\ \A u \in Visits : u # v => handoff'[u] = handoff[u] /\ visit'[u] = visit[u]
  BY <1>1, <1>2, <1>3 DEF HandoffInv, VisitStates
<1>5. HandoffInv'
  BY <1>2, <1>4 DEF HandoffInv
<1>6. T \cap CopiesIssued = {} /\ CopiesIssued' = CopiesIssued \cup T
  BY <1>2, <1>4 DEF CopiesIssued
<1>7. CopiesOpen \subseteq CopiesOpen' /\ CopiesOpen' \subseteq CopiesOpen \cup T
  BY <1>2, <1>4 DEF CopiesOpen, HandoffInv
<1>8. UNCHANGED <<CopiesSeen, CopiesServed>>
  BY <1>2 DEF CopiesSeen, CopiesServed, ExchangesAt
<1>9. Handoffs!Issue(T)
  BY <1>6, <1>7, <1>8 DEF Handoffs!Issue, CopiesIssued, CopiesOpen, CopiesSeen, CopiesServed
<1>10. T \in SUBSET (Visits \X {"db", "mem"})
  OBVIOUS
<1> QED
  BY <1>5, <1>9, <1>10 DEF Handoffs!OneTimeNext

\* What an exchange's step does to the pairs of those at a state.
LEMMA PairsAt ==
  ASSUME HandoffInv, NEW x \in Exchanges, NEW e, ExchangeIs(x, e), NEW at, NEW store
  PROVE  ExchangesAt(at, store)' =
           {p \in ExchangesAt(at, store) : p[1] # x}
             \cup (IF e.at = at THEN {<<x, <<e.of, store>>>>} ELSE {})
<1>1. exchange'[x] = e /\ \A y \in Exchanges : y # x => exchange'[y] = exchange[y]
  BY DEF ExchangeIs, HandoffInv
<1> QED
  BY <1>1 DEF ExchangesAt

LEMMA ExchangeKeeps ==
  ASSUME HandoffInv, NEW x \in Exchanges, NEW e, ExchangeIs(x, e), UNCHANGED visit,
         handoff' \in [Visits -> Copy],
         \A v \in Visits : /\ handoff'[v].db = "open" => handoff[v].db = "open"
                           /\ handoff'[v].mem => handoff[v].mem,
         e.at = "found" => e.of \in Visits
  PROVE  HandoffInv' /\ UNCHANGED CopiesIssued
<1>1. /\ exchange' \in [Exchanges -> Exchange]
      /\ exchange'[x] = e /\ \A y \in Exchanges : y # x => exchange'[y] = exchange[y]
  BY DEF ExchangeIs, HandoffInv
<1>2. UNCHANGED CopiesIssued
  BY DEF CopiesIssued
<1> QED
  BY <1>1, <1>2 DEF HandoffInv

\* The memory entry of a handoff is taken, its row closed, or both.
LEMMA MemTaken ==
  ASSUME HandoffInv, NEW h \in Visits, handoff' = [handoff EXCEPT ![h].mem = FALSE]
  PROVE  /\ handoff' \in [Visits -> Copy]
         /\ \A v \in Visits : /\ handoff'[v].db = "open" => handoff[v].db = "open"
                              /\ handoff'[v].mem => handoff[v].mem
         /\ CopiesOpen' = CopiesOpen \ {<<h, "mem">>}
<1> DEFINE k == [handoff[h] EXCEPT !.mem = FALSE]
<1>1. k.db = handoff[h].db /\ k.mem = FALSE /\ k \in Copy
  BY DEF HandoffInv, Copy
<1>2. handoff' = [handoff EXCEPT ![h] = k]
  BY DEF HandoffInv
<1> HIDE DEF k
<1>3. handoff'[h] = k /\ \A v \in Visits : v # h => handoff'[v] = handoff[v]
  BY <1>2 DEF HandoffInv
<1>4. handoff' \in [Visits -> Copy]
  BY <1>1, <1>2 DEF HandoffInv
<1>5. CopiesOpen' = CopiesOpen \ {<<h, "mem">>}
  BY <1>1, <1>3 DEF CopiesOpen
<1> QED
  BY <1>1, <1>3, <1>4, <1>5

LEMMA RowConsumed ==
  ASSUME HandoffInv, NEW h \in Visits, handoff' = [handoff EXCEPT ![h].db = "consumed"]
  PROVE  /\ handoff' \in [Visits -> Copy]
         /\ \A v \in Visits : /\ handoff'[v].db = "open" => handoff[v].db = "open"
                              /\ handoff'[v].mem => handoff[v].mem
         /\ CopiesOpen' = CopiesOpen \ {<<h, "db">>}
<1> DEFINE k == [handoff[h] EXCEPT !.db = "consumed"]
<1>1. k.mem = handoff[h].mem /\ k.db = "consumed" /\ k \in Copy
  BY DEF HandoffInv, Copy
<1>2. handoff' = [handoff EXCEPT ![h] = k]
  BY DEF HandoffInv
<1> HIDE DEF k
<1>3. handoff'[h] = k /\ \A v \in Visits : v # h => handoff'[v] = handoff[v]
  BY <1>2 DEF HandoffInv
<1>4. handoff' \in [Visits -> Copy]
  BY <1>1, <1>2 DEF HandoffInv
<1>5. CopiesOpen' = CopiesOpen \ {<<h, "db">>}
  BY <1>1, <1>3 DEF CopiesOpen
<1> QED
  BY <1>1, <1>3, <1>4, <1>5

LEMMA BothClosed ==
  ASSUME HandoffInv, NEW h \in Visits, NEW k \in Copy, k.db # "open", ~k.mem,
         handoff' = [handoff EXCEPT ![h] = k]
  PROVE  /\ handoff' \in [Visits -> Copy]
         /\ \A v \in Visits : /\ handoff'[v].db = "open" => handoff[v].db = "open"
                              /\ handoff'[v].mem => handoff[v].mem
         /\ CopiesOpen' = CopiesOpen \ {<<h, "db">>, <<h, "mem">>}
<1>1. handoff'[h] = k /\ \A v \in Visits : v # h => handoff'[v] = handoff[v]
  BY DEF HandoffInv
<1>2. handoff' \in [Visits -> Copy]
  BY DEF HandoffInv
<1>3. CopiesOpen' = CopiesOpen \ {<<h, "db">>, <<h, "mem">>}
  BY <1>1 DEF CopiesOpen
<1> QED
  BY <1>1, <1>2, <1>3

\* The pairs of an exchange that leaves "new" or "found".
LEMMA PairsOf ==
  ASSUME HandoffInv, NEW x \in Exchanges, NEW e, ExchangeIs(x, e),
         exchange[x].at \in {"new", "found"}
  PROVE  /\ e.at = "found" =>
              CopiesSeen' = {p \in CopiesSeen : p[1] # x} \cup {<<x, <<e.of, "db">>>>}
                /\ UNCHANGED CopiesServed
         /\ e.at # "found" => CopiesSeen' = {p \in CopiesSeen : p[1] # x}
         /\ e.at = "401" => UNCHANGED CopiesServed
         /\ e.at = "cookies" => CopiesServed' = CopiesServed \cup {<<x, <<e.of, "db">>>>}
         /\ e.at = "cookiesFromMemory" =>
              CopiesServed' = CopiesServed \cup {<<x, <<e.of, "mem">>>>}
         /\ {p \in CopiesSeen : p[1] # x} = CopiesSeen \ {<<x, <<exchange[x].of, "db">>>>}
         /\ exchange[x].at = "found" => <<x, <<exchange[x].of, "db">>>> \in CopiesSeen
         /\ exchange[x].at = "new" => {p \in CopiesSeen : p[1] # x} = CopiesSeen
<1>1. \A at, store : ExchangesAt(at, store)' =
           {p \in ExchangesAt(at, store) : p[1] # x}
             \cup (IF e.at = at THEN {<<x, <<e.of, store>>>>} ELSE {})
  BY PairsAt
<1>2. /\ {p \in ExchangesAt("cookies", "db") : p[1] # x} = ExchangesAt("cookies", "db")
      /\ {p \in ExchangesAt("cookiesFromMemory", "mem") : p[1] # x}
           = ExchangesAt("cookiesFromMemory", "mem")
  BY DEF ExchangesAt
<1>3. /\ e.at = "found" => CopiesSeen' = {p \in CopiesSeen : p[1] # x} \cup {<<x, <<e.of, "db">>>>}
      /\ e.at # "found" => CopiesSeen' = {p \in CopiesSeen : p[1] # x}
  BY <1>1 DEF CopiesSeen
<1>4. /\ e.at \notin {"cookies", "cookiesFromMemory"} => UNCHANGED CopiesServed
      /\ e.at = "cookies" => CopiesServed' = CopiesServed \cup {<<x, <<e.of, "db">>>>}
      /\ e.at = "cookiesFromMemory" =>
           CopiesServed' = CopiesServed \cup {<<x, <<e.of, "mem">>>>}
  BY <1>1, <1>2 DEF CopiesServed
<1>5. /\ {p \in CopiesSeen : p[1] # x} = CopiesSeen \ {<<x, <<exchange[x].of, "db">>>>}
      /\ exchange[x].at = "found" => <<x, <<exchange[x].of, "db">>>> \in CopiesSeen
      /\ exchange[x].at = "new" => {p \in CopiesSeen : p[1] # x} = CopiesSeen
  BY DEF CopiesSeen, ExchangesAt
<1> QED
  BY <1>3, <1>4, <1>5

\* An answer without cookies is no grant.
LEMMA MemoryStep ==
  ASSUME HandoffInv, NEW x \in Exchanges, NEW h \in Visits, FromMemory(x, h), UNCHANGED visit,
         \/ exchange[x].at = "new"
         \/ exchange[x].at = "found" /\ exchange[x].of = h
  PROVE  HandoffInv' /\ [Handoffs!OneTimeNext]_(Handoffs!oneTimeVars)
<1> DEFINE e == [at |-> IF handoff[h].mem THEN "cookiesFromMemory" ELSE "401", of |-> h]
<1>1. e.of = h /\ e.at = IF handoff[h].mem THEN "cookiesFromMemory" ELSE "401"
  OBVIOUS
<1>2. e \in Exchange
  BY DEF Exchange
<1>3. exchange' = [exchange EXCEPT ![x] = e] /\ handoff' = [handoff EXCEPT ![h].mem = FALSE]
  BY DEF FromMemory
<1> HIDE DEF e
<1>4. ExchangeIs(x, e)
  BY <1>2, <1>3 DEF ExchangeIs
<1>5. /\ handoff' \in [Visits -> Copy]
      /\ \A v \in Visits : /\ handoff'[v].db = "open" => handoff[v].db = "open"
                           /\ handoff'[v].mem => handoff[v].mem
      /\ CopiesOpen' = CopiesOpen \ {<<h, "mem">>}
  BY <1>3, MemTaken
<1>6. HandoffInv' /\ UNCHANGED CopiesIssued
  BY <1>1, <1>4, <1>5, ExchangeKeeps
<1>7. CASE handoff[h].mem
  <2>1. /\ CopiesSeen' = {p \in CopiesSeen : p[1] # x}
        /\ CopiesServed' = CopiesServed \cup {<<x, <<h, "mem">>>>}
    BY <1>1, <1>4, <1>7, PairsOf
  <2>2. <<h, "mem">> \in CopiesOpen
    BY <1>7 DEF CopiesOpen
  <2>3. Handoffs!Take(x, <<h, "mem">>)
    BY <1>5, <1>6, <2>1, <2>2 DEF Handoffs!Take, CopiesIssued, CopiesOpen, CopiesSeen, CopiesServed
  <2>4. <<h, "mem">> \in Visits \X {"db", "mem"}
    OBVIOUS
  <2> QED
    BY <1>6, <2>3, <2>4 DEF Handoffs!OneTimeNext
<1>8. CASE ~handoff[h].mem
  <2>1. CopiesSeen' = {p \in CopiesSeen : p[1] # x} /\ UNCHANGED CopiesServed
    BY <1>1, <1>4, <1>8, PairsOf
  <2>2. CopiesOpen' = CopiesOpen
    BY <1>5, <1>8 DEF CopiesOpen
  <2>3. CASE exchange[x].at = "new"
    <3>1. UNCHANGED CopiesSeen
      BY <1>4, <2>1, <2>3, PairsOf
    <3> QED
      BY <1>6, <2>1, <2>2, <3>1 DEF Handoffs!oneTimeVars, CopiesIssued, CopiesOpen, CopiesSeen, CopiesServed
  <2>4. CASE exchange[x].at = "found" /\ exchange[x].of = h
    <3>1. CopiesSeen' = CopiesSeen \ {<<x, <<h, "db">>>>}
      BY <1>4, <2>1, <2>4, PairsOf
    <3>2. Handoffs!GiveUp(x, <<h, "db">>)
      BY <1>6, <2>1, <2>2, <3>1 DEF Handoffs!GiveUp, CopiesIssued, CopiesOpen, CopiesSeen, CopiesServed
    <3>3. <<h, "db">> \in Visits \X {"db", "mem"}
      OBVIOUS
    <3> QED
      BY <1>6, <3>2, <3>3 DEF Handoffs!OneTimeNext
  <2> QED
    BY <2>3, <2>4
<1> QED
  BY <1>7, <1>8

LEMMA LookUpStep ==
  ASSUME HandoffInv, NEW x \in Exchanges, NEW h \in Visits, LookUpHandoff(x, h)
  PROVE  HandoffInv' /\ [Handoffs!OneTimeNext]_(Handoffs!oneTimeVars)
<1>0. exchange[x].at = "new" /\ UNCHANGED visit
  BY DEF LookUpHandoff
<1>1. CASE FromMemory(x, h)
  BY <1>0, <1>1, MemoryStep
<1>2. ASSUME UNCHANGED handoff, NEW at \in {"found", "401"},
             exchange' = [exchange EXCEPT ![x] = [at |-> at, of |-> h]],
             at = "found" => handoff[h].db = "open"
      PROVE  HandoffInv' /\ [Handoffs!OneTimeNext]_(Handoffs!oneTimeVars)
  <2> DEFINE e == [at |-> at, of |-> h]
  <2>1. e.at = at /\ e.of = h /\ e \in Exchange /\ ExchangeIs(x, e)
    BY <1>2 DEF Exchange, ExchangeIs
  <2> HIDE DEF e
  <2>2. HandoffInv' /\ UNCHANGED CopiesIssued
    BY <1>0, <1>2, <2>1, ExchangeKeeps DEF HandoffInv
  <2>3. UNCHANGED CopiesOpen
    BY <1>2 DEF CopiesOpen
  <2>4. CASE at = "found"
    <3>1. CopiesSeen' = CopiesSeen \cup {<<x, <<h, "db">>>>} /\ UNCHANGED CopiesServed
      BY <1>0, <2>1, <2>4, PairsOf
    <3>2. <<h, "db">> \in CopiesOpen /\ <<h, "db">> \in Visits \X {"db", "mem"}
      BY <1>2, <2>4 DEF CopiesOpen
    <3>3. Handoffs!Look(x, <<h, "db">>)
      BY <2>2, <2>3, <3>1, <3>2 DEF Handoffs!Look, CopiesIssued, CopiesOpen, CopiesSeen, CopiesServed
    <3> QED
      BY <2>2, <3>2, <3>3 DEF Handoffs!OneTimeNext
  <2>5. CASE at = "401"
    <3>1. UNCHANGED <<CopiesSeen, CopiesServed>>
      BY <1>0, <2>1, <2>5, PairsOf
    <3> QED
      BY <2>2, <2>3, <3>1 DEF Handoffs!oneTimeVars, CopiesIssued, CopiesOpen, CopiesSeen, CopiesServed
  <2> QED
    BY <2>4, <2>5
<1> QED
  BY <1>1, <1>2 DEF LookUpHandoff

LEMMA MarkStep ==
  ASSUME HandoffInv, NEW x \in Exchanges, MarkHandoff(x)
  PROVE  HandoffInv' /\ [Handoffs!OneTimeNext]_(Handoffs!oneTimeVars)
<1>0. exchange[x].at = "found" /\ UNCHANGED visit /\ exchange[x].of \in Visits
  BY DEF MarkHandoff, HandoffInv
<1>h. PICK h \in Visits : h = exchange[x].of
  BY <1>0
<1>1. CASE FromMemory(x, h)
  BY <1>0, <1>h, <1>1, MemoryStep
<1>2. ASSUME handoff' = [handoff EXCEPT ![h].db = "consumed"],
             NEW at \in {"cookies", "401"}, exchange' = [exchange EXCEPT ![x].at = at]
      PROVE  HandoffInv' /\ [Handoffs!OneTimeNext]_(Handoffs!oneTimeVars)
  <2> DEFINE e == [exchange[x] EXCEPT !.at = at]
  <2>1. e.at = at /\ e.of = h /\ e \in Exchange
    BY <1>h DEF Exchange, HandoffInv
  <2>2. exchange' = [exchange EXCEPT ![x] = e]
    BY <1>2 DEF HandoffInv
  <2> HIDE DEF e
  <2>3. ExchangeIs(x, e)
    BY <2>1, <2>2 DEF ExchangeIs
  <2>4. /\ handoff' \in [Visits -> Copy]
        /\ \A v \in Visits : /\ handoff'[v].db = "open" => handoff[v].db = "open"
                             /\ handoff'[v].mem => handoff[v].mem
        /\ CopiesOpen' = CopiesOpen \ {<<h, "db">>}
    BY <1>2, RowConsumed
  <2>5. HandoffInv' /\ UNCHANGED CopiesIssued
    BY <1>0, <2>1, <2>3, <2>4, ExchangeKeeps
  <2>6. CopiesSeen' = CopiesSeen \ {<<x, <<h, "db">>>>} /\ <<x, <<h, "db">>>> \in CopiesSeen
    BY <1>0, <1>h, <2>1, <2>3, PairsOf
  <2>7. <<h, "db">> \in Visits \X {"db", "mem"}
    OBVIOUS
  <2>8. CASE at = "cookies"
    <3>0. e.at = "cookies" /\ e.of = h /\ exchange[x].at \in {"new", "found"}
      BY <1>0, <2>1, <2>8
    <3>1. CopiesServed' = CopiesServed \cup {<<x, <<h, "db">>>>}
      BY <2>3, <3>0, PairsOf
    <3>2. Handoffs!Grant(x, <<h, "db">>)
      BY <2>4, <2>5, <2>6, <3>1 DEF Handoffs!Grant, CopiesIssued, CopiesOpen, CopiesSeen, CopiesServed
    <3> QED
      BY <2>5, <2>7, <3>2 DEF Handoffs!OneTimeNext
  <2>9. CASE at = "401"
    <3>1. UNCHANGED CopiesServed
      BY <1>0, <2>1, <2>3, <2>9, PairsOf
    <3>2. Handoffs!GiveUp(x, <<h, "db">>)
      BY <2>4, <2>5, <2>6, <3>1 DEF Handoffs!GiveUp, CopiesIssued, CopiesOpen, CopiesSeen, CopiesServed
    <3> QED
      BY <2>5, <2>7, <3>2 DEF Handoffs!OneTimeNext
  <2> QED
    BY <2>8, <2>9
<1> QED
  BY <1>h, <1>1, <1>2 DEF MarkHandoff

LEMMA ExpiryStep ==
  ASSUME HandoffInv, NEW h \in Visits, HandoffExpires(h)
  PROVE  HandoffInv' /\ Handoffs!OneTimeNext
<1> DEFINE db == IF handoff[h].db = "open" THEN "expired" ELSE handoff[h].db
<1>1. db \in {"none", "open", "gone", "consumed", "expired"} /\ db # "open"
  BY DEF HandoffInv, Copy
<1>2. handoff' = [handoff EXCEPT ![h] = [db |-> db, mem |-> FALSE]]
  BY DEF HandoffExpires, HandoffInv
<1> DEFINE k == [db |-> db, mem |-> FALSE]
<1> HIDE DEF db
<1>3. k \in Copy /\ k.db # "open" /\ ~k.mem
  BY <1>1, CopyIs
<1> HIDE DEF k
<1>4. /\ handoff' \in [Visits -> Copy]
      /\ \A v \in Visits : /\ handoff'[v].db = "open" => handoff[v].db = "open"
                           /\ handoff'[v].mem => handoff[v].mem
      /\ CopiesOpen' = CopiesOpen \ {<<h, "db">>, <<h, "mem">>}
  BY <1>2, <1>3, BothClosed DEF k
<1>5. UNCHANGED <<visit, exchange>>
  BY DEF HandoffExpires
<1>6. HandoffInv'
  BY <1>4, <1>5 DEF HandoffInv
<1>7. UNCHANGED <<CopiesIssued, CopiesSeen, CopiesServed>>
  BY <1>5 DEF CopiesIssued, CopiesSeen, CopiesServed, ExchangesAt
<1> DEFINE T == {<<h, "db">>, <<h, "mem">>}
<1>8. Handoffs!Close(T)
  BY <1>4, <1>7 DEF Handoffs!Close, CopiesIssued, CopiesOpen, CopiesSeen, CopiesServed
<1>9. T \in SUBSET (Visits \X {"db", "mem"})
  OBVIOUS
<1> QED
  BY <1>6, <1>8, <1>9 DEF Handoffs!OneTimeNext

LEMMA HandoffStep ==
  HandoffInv /\ [OAuthNext]_oauthVars
    => HandoffInv' /\ [Handoffs!OneTimeNext]_(Handoffs!oneTimeVars)
<1> SUFFICES ASSUME HandoffInv, [OAuthNext]_oauthVars
             PROVE  HandoffInv' /\ [Handoffs!OneTimeNext]_(Handoffs!oneTimeVars)
  OBVIOUS
<1>1. CASE StartSignIn \/ UNCHANGED oauthVars
  <2>1. UNCHANGED <<visit, handoff, exchange>>
    BY <1>1 DEF StartSignIn, oauthVars
  <2>2. HandoffInv'
    BY <2>1 DEF HandoffInv
  <2> QED
    BY <2>1, <2>2 DEF Handoffs!oneTimeVars, ExchangesAt
<1>2. ASSUME NEW v \in Visits,
             LookUpState(v) \/ DeleteState(v) \/ CheckState(v) \/ AskProvider(v)
      PROVE  HandoffInv' /\ [Handoffs!OneTimeNext]_(Handoffs!oneTimeVars)
  BY <1>2, SignInVisits DEF Handoffs!oneTimeVars, CopiesIssued, CopiesOpen, CopiesSeen, CopiesServed
<1>3. ASSUME NEW v \in Visits, CreateHandoff(v) \/ HandoffExpires(v)
      PROVE  HandoffInv' /\ [Handoffs!OneTimeNext]_(Handoffs!oneTimeVars)
  BY <1>3, CreateStep, ExpiryStep
<1>4. ASSUME NEW x \in Exchanges, (\E h \in Visits : LookUpHandoff(x, h)) \/ MarkHandoff(x)
      PROVE  HandoffInv' /\ [Handoffs!OneTimeNext]_(Handoffs!oneTimeVars)
  BY <1>4, LookUpStep, MarkStep
<1> QED
  BY <1>1, <1>2, <1>3, <1>4 DEF OAuthNext

LEMMA CopiesBegin == OAuthInit => Handoffs!OneTimeInit
BY DEF OAuthInit, NoCopy, ExchangesAt, Handoffs!OneTimeInit

\* Each copy of a handoff is a one-time token: the cookies of a session are set
\* only for an exchange that found a copy of its handoff open, and that copy is
\* closed by then, whatever queries fail and whichever copies an insert left.
THEOREM HandoffImplements == OAuthSpec => HandoffIsOneTime
BY CopiesBegin, HandoffInit, HandoffStep, PTL
DEF OAuthSpec, HandoffIsOneTime, Handoffs!OneTimeSpec

-----------------------------------------------------------------------------
(* BrowserAuth: the refresh tokens of an honest browser. *)

Cookies == [access : 0 .. MaxRows, session : 0 .. MaxRows, refresh : 0 .. MaxTokens]
Carriage == [at : {"none", "sent", "ended", "lost"}, token : 0 .. MaxTokens]

\* A token that nobody has begun to exchange.
Untouched(u) ==
  /\ token[u].of # 0 /\ ~token[u].used /\ ~token[u].revoked
  /\ \A r \in TokenRows : token[r].from # u

JarSession == IF jar.refresh = 0 THEN 0 ELSE token[jar.refresh].of

\* What the tokens and calls are whatever the browser does: a token replaces one that
\* exists, a call that replaced its token has a successor of it.
Succession ==
  /\ \A r \in TokenRows : token[r].from # 0 => token[r].of # 0 /\ token[token[r].from].of # 0
  /\ \A c \in AuthCalls :
       /\ call[c].at \in {"replaced", "rotated"} => \E r \in TokenRows : token[r].from = call[c].t
       /\ call[c].at \in {"found", "marked", "replaced", "rotated"} =>
            call[c].t # 0 /\ token[call[c].t].of # 0
       /\ call[c].at \in {"inserted", "signedIn"} => call[c].s \in Rows /\ row[call[c].s] # "none"

\* A sign-in whose cookies have not reached the browser.
Arriving(c) == carried[c].at = "none" /\ call[c].at \in {"inserted", "signedIn"}

\* A refresh of the browser: the token it shows is that of the jar, and whoever
\* looks for its successor finds one that is good.
Renews(c) ==
  /\ call[c].at \in {"new", "found", "marked", "replaced", "rotated", "invalid", "failed"}
  /\ carried[c].token = jar.refresh
  /\ call[c].at \in {"found", "marked", "replaced", "rotated"} =>
       call[c].t = jar.refresh /\ call[c].s = JarSession
  /\ call[c].at \in {"marked", "replaced", "rotated"} => token[call[c].t].used
  /\ call[c].at = "marked" => \A r \in TokenRows : token[r].from # call[c].t
  /\ call[c].at \in {"replaced", "rotated"} =>
       \A r \in TokenRows : token[r].from = call[c].t => Untouched(r) /\ token[r].of = call[c].s

Role(c) ==
  /\ carried[c].at = "none" => call[c].at \in {"new", "pruning", "inserted", "signedIn"}
  /\ carried[c].at = "sent" => Renews(c)
  /\ carried[c].at = "ended" => call[c].at \in {"signedIn", "rotated", "invalid", "failed"}
  /\ carried[c].at # "lost"
  /\ Arriving(c) => JarSession # call[c].s
  /\ carried[c].at = "none" /\ call[c].at = "inserted" => \A u \in TokenRows : token[u].of # call[c].s
  /\ carried[c].at = "none" /\ call[c].at = "signedIn" =>
       \A u \in TokenRows : token[u].of = call[c].s => Untouched(u)

\* As long as nothing has crossed.
Honest ==
  /\ \A c \in AuthCalls : Role(c)
  /\ \A c, d \in AuthCalls : carried[c].at = "sent" /\ carried[d].at = "sent" => c = d
  /\ \A c, d \in AuthCalls : Arriving(c) /\ Arriving(d) /\ call[c].s = call[d].s => c = d
  /\ \A t \in Tabs : \A c \in refresh[t].call : carried[c].at = "sent"
  /\ \A t, o \in Tabs : refresh[t].call \cap refresh[o].call # {} => t = o
  /\ jar.refresh # 0 /\ (\A c \in AuthCalls : carried[c].at = "sent" => call[c].at \in {"new", "found"}) =>
       Untouched(jar.refresh)
  /\ jar.refresh # 0 => token[jar.refresh].of # 0
  /\ jar.access \in {0, JarSession} /\ jar.session \in {0, JarSession}

BrowserInv ==
  /\ AuthInv /\ Succession
  /\ jar \in Cookies
  /\ carried \in [AuthCalls -> Carriage]
  /\ DOMAIN refresh = Tabs /\ \A t \in Tabs : refresh[t].call \subseteq AuthCalls
  /\ ~crossed => Honest

LEMMA HonestIsTrusted == BrowserInv => HonestNeverSuspected
<1> SUFFICES ASSUME BrowserInv, ~crossed  PROVE HonestNeverSuspected
  BY DEF HonestNeverSuspected
<1>1. \A c \in AuthCalls : call[c].at \notin {"reused", "familyRevoked", "suspicious"}
  <2> SUFFICES ASSUME NEW c \in AuthCalls
               PROVE  call[c].at \notin {"reused", "familyRevoked", "suspicious"}
    OBVIOUS
  <2>1. Role(c) /\ carried[c].at \in {"none", "sent", "ended", "lost"}
    BY DEF BrowserInv, Honest, Carriage
  <2> QED
    BY <2>1 DEF Role, Renews
<1> DEFINE S == ({jar.access, jar.session} \cup
                  {token[r].of : r \in {jar.refresh} \ {0}}) \ {0}
<1>2. S \subseteq {JarSession}
  BY DEF BrowserInv, Honest, JarSession
<1>3. Cardinality(S) <= 1
  <2>1. IsFiniteSet({JarSession}) /\ Cardinality({JarSession}) = 1
    BY FS_Singleton
  <2> HIDE DEF S
  <2> QED
    BY <1>2, <2>1, FS_Subset
<1> QED
  BY <1>1, <1>3 DEF HonestNeverSuspected

LEMMA BrowserBegins == BrowserInit => BrowserInv
<1> SUFFICES ASSUME BrowserInit  PROVE BrowserInv
  OBVIOUS
<1>1. /\ token = [t \in TokenRows |-> NoToken] /\ call = [c \in AuthCalls |-> NoCall]
      /\ jar = NoCookies /\ refresh = [t \in Tabs |-> NoRefresh]
      /\ carried = [c \in AuthCalls |-> [at |-> "none", token |-> 0]]
  BY DEF BrowserInit, AuthInit
<1>2. \A t \in TokenRows : token[t].of = 0 /\ token[t].from = 0
  BY <1>1 DEF NoToken
<1>3. \A c \in AuthCalls : call[c].at = "new" /\ carried[c].at = "none"
  BY <1>1 DEF NoCall
<1>4. jar \in Cookies /\ jar.refresh = 0 /\ jar.access = 0 /\ jar.session = 0
  BY <1>1, Bounds DEF Cookies, NoCookies
<1>5. carried \in [AuthCalls -> Carriage]
  BY <1>1, Bounds DEF Carriage
<1>6. DOMAIN refresh = Tabs /\ \A t \in Tabs : refresh[t].call = {}
  BY <1>1 DEF NoRefresh
<1>7. Succession
  BY <1>2, <1>3 DEF Succession
<1>8. Honest
  BY <1>2, <1>3, <1>4, <1>6 DEF Honest, Role, Arriving, JarSession
<1> QED
  BY <1>4, <1>5, <1>6, <1>7, <1>8, AuthInit1 DEF BrowserInit, BrowserInv

\* A step of the server for call c, seen from the browser.
AtServer(c, k) == CallIs(c, k) /\ RowsKept /\ UNCHANGED <<jar, carried, refresh, crossed>>

LEMMA OthersStay ==
  ASSUME AuthTypes, NEW c \in AuthCalls, NEW k, CallIs(c, k)
  PROVE  /\ call'[c] = k /\ k \in CallRecord
         /\ \A d \in AuthCalls : d # c => call'[d] = call[d]
BY DEF CallIs, AuthTypes

\* Where a call may get to while the tokens stay or only close.
LEMMA SuccessionKept ==
  ASSUME BrowserInv, NEW c \in AuthCalls, NEW k, AtServer(c, k),
         \A u \in TokenRows : token'[u].of = token[u].of /\ token'[u].from = token[u].from,
         k.at \in {"replaced", "rotated"} => \E r \in TokenRows : token[r].from = k.t,
         k.at \in {"found", "marked", "replaced", "rotated"} => k.t \in TokenRows /\ token[k.t].of # 0,
         k.at \in {"inserted", "signedIn"} => k.s \in Rows /\ row'[k.s] # "none"
  PROVE  Succession'
<1>1. call'[c] = k /\ \A d \in AuthCalls : d # c => call'[d] = call[d]
  BY OthersStay DEF AtServer, BrowserInv, AuthInv
<1>2. \A d \in AuthCalls : call[d].t # 0 => call[d].t \in TokenRows
  BY Bounds DEF BrowserInv, AuthInv, AuthTypes, CallRecord
<1>3. \A r \in TokenRows : token[r].from # 0 => token[r].from \in TokenRows
  BY Bounds DEF BrowserInv, AuthInv, AuthTypes, TokenRecord
<1>4. \A r \in TokenRows :
        token'[r].from # 0 => token'[r].of # 0 /\ token'[token'[r].from].of # 0
  BY <1>3 DEF BrowserInv, Succession
<1>5. ASSUME NEW d \in AuthCalls
      PROVE  /\ call'[d].at \in {"replaced", "rotated"} =>
                  \E r \in TokenRows : token'[r].from = call'[d].t
             /\ call'[d].at \in {"found", "marked", "replaced", "rotated"} =>
                  call'[d].t # 0 /\ token'[call'[d].t].of # 0
             /\ call'[d].at \in {"inserted", "signedIn"} =>
                  call'[d].s \in Rows /\ row'[call'[d].s] # "none"
  <2>1. CASE d = c
    BY <1>1, <2>1, Bounds
  <2>2. CASE d # c
    BY <1>1, <1>2, <2>2 DEF BrowserInv, Succession, AtServer, RowsKept
  <2> QED
    BY <2>1, <2>2
<1> QED
  BY <1>4, <1>5 DEF Succession

\* The same while nothing has crossed and the tokens stay.
LEMMA HonestCallMoves ==
  ASSUME BrowserInv, Honest, NEW c \in AuthCalls, NEW k, AtServer(c, k), UNCHANGED token, Role(c)',
         carried[c].at = "none" /\ k.at \in {"inserted", "signedIn"} =>
           \A d \in AuthCalls \ {c} : Arriving(d) => k.s # call[d].s,
         carried[c].at = "sent" /\ k.at \in {"new", "found"} => call[c].at \in {"new", "found"}
  PROVE  Honest'
<1>1. call'[c] = k /\ \A d \in AuthCalls : d # c => call'[d] = call[d]
  BY OthersStay DEF AtServer, BrowserInv, AuthInv
<1>2. UNCHANGED <<token, jar, carried, refresh>>
  BY DEF AtServer
<1>3. UNCHANGED JarSession /\ \A u : Untouched(u)' <=> Untouched(u)
  BY <1>2 DEF JarSession, Untouched
<1>4. ASSUME NEW d \in AuthCalls, d # c  PROVE Role(d)' /\ (Arriving(d)' <=> Arriving(d))
  BY <1>1, <1>2, <1>3, <1>4 DEF Role, Renews, Arriving, Honest
<1>5. \A d, e \in AuthCalls : Arriving(d)' /\ Arriving(e)' /\ call'[d].s = call'[e].s => d = e
  BY <1>1, <1>2, <1>4 DEF Arriving, Honest
<1>6. (\A d \in AuthCalls : carried'[d].at = "sent" => call'[d].at \in {"new", "found"})
      => \A d \in AuthCalls : carried[d].at = "sent" => call[d].at \in {"new", "found"}
  BY <1>1, <1>2
<1> QED
  BY <1>2, <1>3, <1>4, <1>5, <1>6 DEF Honest

\* The token of an honest refresh is marked or revoked: nobody else has it.
LEMMA HonestTokenCloses ==
  ASSUME BrowserInv, Honest, NEW c \in AuthCalls, NEW k, AtServer(c, k),
         carried[c].at = "sent", call[c].at \in {"found", "replaced"},
         k.at = IF call[c].at = "found" THEN "marked" ELSE "rotated",
         k.s = call[c].s, k.t = call[c].t,
         \A u \in TokenRows : token'[u].of = token[u].of /\ token'[u].from = token[u].from,
         token'[call[c].t].used, \A u \in TokenRows \ {call[c].t} : token'[u] = token[u]
  PROVE  Honest'
<1> DEFINE t == call[c].t
<1>0. /\ call'[c] = k /\ \A d \in AuthCalls : d # c => call'[d] = call[d]
      /\ UNCHANGED <<jar, carried, refresh>>
  BY OthersStay DEF AtServer, BrowserInv, AuthInv
<1>1. /\ t = jar.refresh /\ call[c].s = JarSession /\ t # 0 /\ t \in TokenRows
      /\ token[t].of # 0 /\ Role(c) /\ Renews(c)
  <2>1. Role(c) /\ Renews(c) /\ t # 0 /\ token[t].of # 0 /\ t \in 0 .. MaxTokens
    BY DEF Honest, Role, BrowserInv, Succession, AuthInv, AuthTypes, CallRecord
  <2> QED
    BY <2>1, Bounds DEF Renews
<1>2. JarSession' = JarSession
  BY <1>0, <1>1 DEF JarSession
<1>3. \A u \in TokenRows : u # t => (Untouched(u)' <=> Untouched(u))
  BY DEF Untouched
<1>4. ASSUME NEW d \in AuthCalls, d # c  PROVE Role(d)' /\ (Arriving(d)' <=> Arriving(d))
  <2>1. call'[d] = call[d] /\ carried'[d] = carried[d] /\ carried[d].at # "sent" /\ Role(d)
    BY <1>0, <1>4 DEF Honest
  <2>2. Arriving(d)' <=> Arriving(d)
    BY <2>1 DEF Arriving
  <2>3. Arriving(d) => token[t].of # call[d].s
    BY <1>1, <2>1 DEF Role, JarSession
  <2>4. Arriving(d) /\ call[d].at = "signedIn" =>
          \A u \in TokenRows : token'[u].of = call[d].s => Untouched(u)'
    BY <1>3, <2>1, <2>3 DEF Role, Arriving
  <2> QED
    BY <1>2, <2>1, <2>2, <2>4 DEF Role, Arriving
<1>5. \A r \in TokenRows : token[r].from = t => r # t
  BY <1>1 DEF Renews, Untouched, Honest
<1>6. Role(c)'
  <2>1. CASE call[c].at = "found"
    <3>1. Untouched(t)
      BY <1>1, <2>1 DEF Honest
    <3> QED
      BY <1>0, <1>1, <1>2, <2>1, <3>1 DEF Role, Renews, Arriving, Untouched
  <2>2. CASE call[c].at = "replaced"
    <3>1. \A r \in TokenRows : token'[r].from = t =>
            Untouched(r)' /\ token'[r].of = call[c].s
      <4>1. \A r \in TokenRows : token[r].from = t => Untouched(r) /\ token[r].of = call[c].s
        BY <1>1, <2>2 DEF Renews
      <4>2. \A r \in TokenRows : token[r].from = t => r # t
        BY <1>1, <2>2, <4>1 DEF Renews, Untouched
      <4> QED
        BY <1>3, <4>1, <4>2
    <3> QED
      BY <1>0, <1>1, <1>2, <2>2, <3>1 DEF Role, Renews, Arriving
  <2> QED
    BY <2>1, <2>2
<1>7. \A d, e \in AuthCalls : Arriving(d)' /\ Arriving(e)' /\ call'[d].s = call'[e].s => d = e
  BY <1>0, <1>4 DEF Arriving, Honest
<1>8. k.at \notin {"new", "found"}
  OBVIOUS
<1>9. jar.refresh # 0 => token'[jar.refresh].of # 0
  BY <1>1
<1> QED
  BY <1>0, <1>2, <1>4, <1>6, <1>7, <1>8, <1>9 DEF Honest

\* A token is issued: the first of a session, or the successor of the token of
\* the jar.
LEMMA HonestTokenIssued ==
  ASSUME BrowserInv, Honest, NEW c \in AuthCalls, NEW k, AtServer(c, k), NEW r \in TokenRows,
         k.s = call[c].s, k.t = call[c].t,
         token[r].of = 0, token'[r].of = call[c].s, ~token'[r].used, ~token'[r].revoked,
         \A u \in TokenRows \ {r} : token'[u] = token[u],
         \/ /\ carried[c].at = "none" /\ call[c].at = "inserted"
            /\ k.at = "signedIn" /\ token'[r].from = 0
         \/ /\ carried[c].at = "sent" /\ call[c].at = "marked"
            /\ k.at = "replaced" /\ token'[r].from = call[c].t
  PROVE  Honest'
<1>0. /\ call'[c] = k /\ \A d \in AuthCalls : d # c => call'[d] = call[d]
      /\ UNCHANGED <<jar, carried, refresh>>
  BY OthersStay DEF AtServer, BrowserInv, AuthInv
<1>1. /\ Role(c) /\ jar.refresh # r
      /\ jar.refresh # 0 => jar.refresh \in TokenRows /\ token[jar.refresh].of # 0
  BY Bounds DEF Honest, BrowserInv, Cookies
<1>2. JarSession' = JarSession
  BY <1>0, <1>1 DEF JarSession
<1>3. \A u \in TokenRows : token[u].from # r
  BY Bounds DEF BrowserInv, Succession
<1>4. \A u \in TokenRows : u # r /\ u # token'[r].from => (Untouched(u)' <=> Untouched(u))
  <2> SUFFICES ASSUME NEW u \in TokenRows, u # r, u # token'[r].from
               PROVE  Untouched(u)' <=> Untouched(u)
    OBVIOUS
  <2>1. token[r].from # u
    <3>1. token[r].from # 0 => token[r].of # 0
      BY DEF BrowserInv, Succession
    <3> QED
      BY <3>1, Bounds
  <2> QED
    BY <2>1 DEF Untouched
<1>5. call[c].s \in Rows /\ call[c].s # 0
  <2>1. call[c].at \in KnowsRow /\ Placed(c)
    BY DEF KnowsRow, Rotating, BrowserInv, AuthInv
  <2> QED
    BY <2>1, Bounds DEF Placed
<1>6. token'[r].from # r
  <2>1. CASE carried[c].at = "none"
    BY <2>1, Bounds
  <2>2. CASE carried[c].at = "sent"
    BY <1>1, <2>2 DEF Role, Renews
  <2> QED
    BY <2>1, <2>2
<1>7. Untouched(r)'
  BY <1>3, <1>5, <1>6 DEF Untouched
<1>8. ASSUME NEW d \in AuthCalls, d # c  PROVE Role(d)' /\ (Arriving(d)' <=> Arriving(d))
  <2>1. call'[d] = call[d] /\ carried'[d] = carried[d] /\ Role(d)
    BY <1>0, <1>8 DEF Honest
  <2>2. Arriving(d)' <=> Arriving(d)
    BY <2>1 DEF Arriving
  <2>3. Arriving(d) => call[d].s # call[c].s
    BY <1>1, <1>8, <2>1 DEF Arriving, Role, Renews, Honest
  <2>4. carried[d].at = "none" /\ call[d].at = "inserted" =>
          \A u \in TokenRows : token'[u].of # call[d].s
    BY <2>1, <2>3 DEF Role, Arriving
  <2>5. carried[d].at = "none" /\ call[d].at = "signedIn" =>
          \A u \in TokenRows : token'[u].of = call[d].s => Untouched(u)'
    <3> SUFFICES ASSUME carried[d].at = "none", call[d].at = "signedIn",
                        NEW u \in TokenRows, token'[u].of = call[d].s
                 PROVE  Untouched(u)'
      OBVIOUS
    <3>1. u # r /\ Untouched(u) /\ token[u].of = call[d].s
      BY <2>1, <2>3 DEF Arriving, Role
    <3>2. u # token'[r].from
      BY <1>1, <2>1, <3>1, Bounds DEF Role, Renews, Arriving, JarSession
    <3> QED
      BY <1>4, <3>1, <3>2
  <2>6. carried[d].at = "sent" => Renews(d)'
    <3> SUFFICES ASSUME carried[d].at = "sent"  PROVE Renews(d)'
      OBVIOUS
    <3>1. carried[c].at = "none" /\ token'[r].from = 0 /\ Renews(d)
      BY <1>8, <2>1 DEF Honest, Role
    <3>2. \A u \in TokenRows : u # r => (Untouched(u)' <=> Untouched(u))
      BY <1>4, <3>1, Bounds
    <3>3. call[d].at \in {"found", "marked", "replaced", "rotated"} =>
            call[d].t # r /\ call[d].t # 0 /\ call[d].t \in TokenRows
      BY <1>1, <3>1, Bounds DEF Renews, BrowserInv, Succession
    <3> QED
      BY <1>0, <1>2, <2>1, <3>1, <3>2, <3>3 DEF Renews
  <2> QED
    BY <1>2, <2>1, <2>2, <2>4, <2>5, <2>6 DEF Role, Arriving
<1>9. Role(c)'
  <2>1. CASE carried[c].at = "none"
    <3>1. \A u \in TokenRows : token'[u].of = call[c].s => u = r
      BY <1>1, <2>1 DEF Role
    <3>2. JarSession # call[c].s
      BY <1>1, <2>1 DEF Role, Arriving
    <3> QED
      BY <1>0, <1>2, <1>7, <2>1, <3>1, <3>2 DEF Role, Arriving
  <2>2. CASE carried[c].at = "sent"
    <3>1. /\ Renews(c) /\ call[c].t = jar.refresh /\ call[c].t # 0 /\ call[c].t \in TokenRows
      BY <1>1, <2>2, Bounds DEF Role, Renews, BrowserInv, Succession
    <3>2. \A u \in TokenRows : token'[u].from = call[c].t => u = r
      BY <2>2, <3>1 DEF Renews
    <3> QED
      BY <1>0, <1>1, <1>2, <1>7, <2>2, <3>1, <3>2 DEF Role, Renews, Arriving
  <2> QED
    BY <2>1, <2>2
<1>10. \A d, e \in AuthCalls : Arriving(d)' /\ Arriving(e)' /\ call'[d].s = call'[e].s => d = e
  <2>1. Arriving(c)' => Arriving(c) /\ call'[c].s = call[c].s
    BY <1>0 DEF Arriving
  <2> QED
    BY <1>0, <1>8, <2>1 DEF Honest
<1>11. jar.refresh # 0
         /\ (\A d \in AuthCalls : carried'[d].at = "sent" => call'[d].at \in {"new", "found"}) =>
       Untouched(jar.refresh)'
  <2> SUFFICES ASSUME jar.refresh # 0,
                      \A d \in AuthCalls : carried'[d].at = "sent" => call'[d].at \in {"new", "found"}
               PROVE  Untouched(jar.refresh)'
    OBVIOUS
  <2>1. carried[c].at = "none" /\ token'[r].from = 0
    BY <1>0
  <2>2. \A d \in AuthCalls : carried[d].at = "sent" => call[d].at \in {"new", "found"}
    BY <1>0, <2>1
  <2>3. PICK u \in TokenRows : u = jar.refresh
    BY <1>1
  <2>4. Untouched(u)
    BY <2>2, <2>3 DEF Honest
  <2>5. Untouched(u)'
    BY <1>1, <1>4, <2>1, <2>3, <2>4
  <2> QED
    BY <1>0, <2>3, <2>5 DEF Untouched
<1> QED
  BY <1>0, <1>1, <1>2, <1>8, <1>9, <1>10, <1>11 DEF Honest

LEMMA SuccessionIssued ==
  ASSUME BrowserInv, NEW c \in AuthCalls, NEW k, AtServer(c, k), NEW r \in TokenRows,
         k.s = call[c].s, k.t = call[c].t, call[c].s \in Rows,
         token[r].of = 0, token'[r].of = call[c].s,
         \A u \in TokenRows \ {r} : token'[u] = token[u],
         \/ call[c].at = "inserted" /\ k.at = "signedIn" /\ token'[r].from = 0
         \/ call[c].at = "marked" /\ k.at = "replaced" /\ token'[r].from = call[c].t
  PROVE  Succession'
<1>0. call'[c] = k /\ \A d \in AuthCalls : d # c => call'[d] = call[d]
  BY OthersStay DEF AtServer, BrowserInv, AuthInv
<1>1. \A d \in AuthCalls : call[d].t # 0 => call[d].t \in TokenRows
  BY Bounds DEF BrowserInv, AuthInv, AuthTypes, CallRecord
<1>2. \A u \in TokenRows : token[u].from # 0 => token[u].from \in TokenRows
  BY Bounds DEF BrowserInv, AuthInv, AuthTypes, TokenRecord
<1>3. token[r].from = 0
  BY DEF BrowserInv, Succession
<1>4. \A u \in TokenRows :
        token'[u].from # 0 => token'[u].of # 0 /\ token'[token'[u].from].of # 0
  <2> SUFFICES ASSUME NEW u \in TokenRows, token'[u].from # 0
               PROVE  token'[u].of # 0 /\ token'[token'[u].from].of # 0
    OBVIOUS
  <2>1. CASE u = r
    <3>1. call[c].t \in TokenRows /\ token[call[c].t].of # 0 /\ token'[u].from = call[c].t
      BY <1>1, <2>1 DEF BrowserInv, Succession
    <3> QED
      BY <2>1, <3>1, Bounds
  <2>2. CASE u # r
    <3>1. token'[u] = token[u] /\ token[u].from \in TokenRows
      BY <1>2, <2>2
    <3>2. token[u].of # 0 /\ token[token[u].from].of # 0
      BY <3>1, Bounds DEF BrowserInv, Succession
    <3> QED
      BY <3>1, <3>2
  <2> QED
    BY <2>1, <2>2
<1>5. ASSUME NEW d \in AuthCalls
      PROVE  /\ call'[d].at \in {"replaced", "rotated"} =>
                  \E q \in TokenRows : token'[q].from = call'[d].t
             /\ call'[d].at \in {"found", "marked", "replaced", "rotated"} =>
                  call'[d].t # 0 /\ token'[call'[d].t].of # 0
             /\ call'[d].at \in {"inserted", "signedIn"} =>
                  call'[d].s \in Rows /\ row'[call'[d].s] # "none"
  <2>1. CASE d = c
    BY <1>0, <1>1, <2>1 DEF BrowserInv, Succession, AtServer, RowsKept
  <2>2. CASE d # c
    BY <1>0, <1>1, <1>3, <2>2 DEF BrowserInv, Succession, AtServer, RowsKept
  <2> QED
    BY <2>1, <2>2
<1> QED
  BY <1>4, <1>5 DEF Succession

\* A refresh of the browser looks for its token, if it shows one.
LEMMA LookKeeps == ASSUME BrowserInv, NEW c \in AuthCalls, handleRefreshToken(c)  PROVE BrowserInv'
<1>0. /\ UNCHANGED <<jar, carried, refresh, crossed, row, token>>
      /\ carried[c].at \in {"sent", "lost"} /\ call[c].at = "new"
      /\ AuthInv /\ AuthTypes
  BY DEF handleRefreshToken, FindToken, BrowserInv, AuthInv
<1>1. RowsKept
  BY <1>0 DEF RowsKept
<1>2. \/ carried[c].token = 0 /\ Goes(c, "invalid")
      \/ \E t \in TokenRows : t = carried[c].token /\ FindToken(c, t)
  BY Bounds DEF handleRefreshToken, BrowserInv, Carriage
<1>3. AuthInv'
  <2>1. CASE Goes(c, "invalid")
    <3>1. OnlyCloses /\ "invalid" \in CallStates
      BY <1>0 DEF OnlyCloses, CallStates
    <3> QED
      BY <1>0, <1>1, <2>1, <3>1, ClosingKeeps DEF Rotating, KnowsRow, AuthTypes
  <2>2. CASE \E t \in TokenRows : t = carried[c].token /\ FindToken(c, t)
    BY <1>0, <2>2, RotationKeeps
  <2> QED
    BY <1>2, <2>1, <2>2
<1>4. PICK k : /\ CallIs(c, k) /\ k.at \in {"invalid", "found", "reused"}
               /\ k.at = "found" => k.t = carried[c].token /\ k.t \in TokenRows
                                    /\ token[k.t].of # 0 /\ k.s = token[k.t].of
               /\ k.at = "reused" => \E t \in TokenRows :
                    t = carried[c].token /\ row[token[t].of] = "active" /\ ~Usable(t)
                                         /\ token[t].of # 0
  <2>1. CASE Goes(c, "invalid")
    <3>1. "invalid" \in CallStates
      BY DEF CallStates
    <3>2. PICK k : CallIs(c, k) /\ k.at = "invalid"
      BY <1>0, <2>1, <3>1, CallMoves
    <3> QED
      BY <3>2
  <2>2. CASE \E t \in TokenRows : t = carried[c].token /\ FindToken(c, t)
    <3>1. PICK t \in TokenRows : t = carried[c].token /\ FindToken(c, t)
      BY <2>2
    <3>2. PICK k : /\ CallIs(c, k) /\ k.s = token[t].of /\ k.t = t
                   /\ k.at \in {"invalid", "found", "reused"}
                   /\ k.at = "reused" => row[token[t].of] = "active" /\ ~Usable(t)
      BY <1>0, <3>1, CallFinds
    <3>3. token[t].of # 0
      BY <3>1 DEF FindToken
    <3> QED
      BY <3>1, <3>2, <3>3
  <2> QED
    BY <1>2, <2>1, <2>2
<1>5. AtServer(c, k)
  BY <1>0, <1>1, <1>4 DEF AtServer
<1>6. Succession'
  BY <1>0, <1>4, <1>5, SuccessionKept
<1>7. ASSUME Honest  PROVE Honest'
  <2>1. /\ carried[c].at = "sent" /\ Renews(c) /\ carried[c].token = jar.refresh
        /\ call'[c] = k /\ UNCHANGED JarSession
    BY <1>0, <1>4, <1>7, OthersStay DEF Honest, Role, Renews, JarSession
  <2>2. \A d \in AuthCalls : carried[d].at = "sent" => call[d].at \in {"new", "found"}
    BY <1>0, <1>7, <2>1 DEF Honest
  <2>3. k.at # "reused"
    <3> SUFFICES ASSUME NEW t \in TokenRows, t = jar.refresh, row[token[t].of] = "active",
                        ~Usable(t), token[t].of # 0
                 PROVE  FALSE
      BY <1>4, <2>1
    <3>1. Untouched(t)
      BY <1>7, <2>2, Bounds DEF Honest
    <3> QED
      BY <3>1 DEF Untouched, Usable
  <2>4. k.at = "found" => k.t = jar.refresh /\ k.s = JarSession
    BY <1>4, <2>1, Bounds DEF JarSession
  <2>5. Renews(c)'
    BY <1>0, <1>4, <2>1, <2>3, <2>4 DEF Renews
  <2>6. Role(c)'
    BY <1>0, <2>1, <2>5 DEF Role, Arriving
  <2> QED
    BY <1>0, <1>4, <1>5, <1>7, <2>1, <2>6, HonestCallMoves
<1> QED
  BY <1>0, <1>3, <1>6, <1>7 DEF BrowserInv

\* A sign-in at the server.
LEMMA SignInServed ==
  ASSUME BrowserInv, NEW c \in AuthCalls, UNCHANGED <<jar, carried, refresh, crossed>>,
         (Fresh(c) /\ CountSessions(c)) \/ PruneSession(c) \/ InsertSession(c) \/ FirstToken(c)
  PROVE  BrowserInv'
<1>0. AuthInv /\ AuthTypes /\ TokensPlaced
  BY DEF BrowserInv, AuthInv, TokensPlaced
<1>1. AuthInv'
  BY <1>0, SignInKeeps
<1>2. CASE (Fresh(c) /\ CountSessions(c)) \/ PruneSession(c)
  <2>1. /\ RowsKept /\ UNCHANGED token
        /\ (Fresh(c) /\ call[c].at = "new") \/ call[c].at = "pruning"
    BY <1>2 DEF CountSessions, PruneSession, revokeOldestUserSession, RowsKept, IsActive
  <2>2. PICK k : CallIs(c, k) /\ k.at = "pruning"
    <3>1. CASE CountSessions(c)
      <4> DEFINE n == IF countActiveUserSessions >= MAX_CONCURRENT_SESSIONS
                        THEN countActiveUserSessions - MAX_CONCURRENT_SESSIONS + 1 ELSE 0
      <4>1. n \in 0 .. MaxRows
        BY SessionsOverLimit, Bounds
      <4>2. call' = [call EXCEPT ![c] = [call[c] EXCEPT !.at = "pruning", !.left = n]]
        BY <1>0, <3>1 DEF CountSessions, AuthTypes
      <4> HIDE DEF n
      <4> QED
        BY <1>0, <4>1, <4>2, CallCounts
    <3>2. CASE PruneSession(c)
      BY <1>0, <3>2, CallPrunes DEF PruneSession
    <3> QED
      BY <1>2, <3>1, <3>2
  <2>3. AtServer(c, k)
    BY <2>1, <2>2 DEF AtServer
  <2>4. Succession'
    BY <2>1, <2>2, <2>3, SuccessionKept
  <2>5. ASSUME Honest  PROVE Honest'
    <3>1. Role(c) /\ carried[c].at = "none"
      <4>1. Role(c) /\ carried[c].at \in {"none", "sent", "ended", "lost"}
        BY <2>5 DEF Honest, BrowserInv, Carriage
      <4>2. CASE Fresh(c)
        BY <4>1, <4>2 DEF Fresh
      <4>3. CASE call[c].at = "pruning"
        BY <4>1, <4>3 DEF Role, Renews
      <4> QED
        BY <2>1, <4>1, <4>2, <4>3
    <3>2. Role(c)'
      BY <1>0, <2>2, <3>1, OthersStay DEF Role, Arriving
    <3> QED
      BY <2>1, <2>2, <2>3, <2>5, <3>1, <3>2, HonestCallMoves
  <2> QED
    BY <1>1, <2>4, <2>5 DEF BrowserInv
<1>3. CASE InsertSession(c)
  <2>1. PICK s \in Rows : /\ createUserSession(s) /\ UNCHANGED token /\ call[c].at = "pruning"
                          /\ call' = [call EXCEPT ![c].at = "inserted", ![c].s = s]
    BY <1>3 DEF InsertSession
  <2>2. /\ row[s] = "none" /\ RowsKept /\ row'[s] = "active"
    BY <1>0, <2>1 DEF createUserSession, FreeRow, AuthTypes, RowStates, RowsKept
  <2>3. PICK k : CallIs(c, k) /\ k.at = "inserted" /\ k.s = s
    BY <1>0, <2>1, CallInserts
  <2>4. AtServer(c, k)
    BY <2>2, <2>3 DEF AtServer
  <2>5. Succession'
    BY <2>1, <2>2, <2>3, <2>4, SuccessionKept
  <2>6. ASSUME Honest  PROVE Honest'
    <3>1. carried[c].at = "none"
      <4>1. Role(c) /\ carried[c].at \in {"none", "sent", "ended", "lost"}
        BY <2>6 DEF Honest, BrowserInv, Carriage
      <4> QED
        BY <2>1, <4>1 DEF Role, Renews
    <3>2. \A u \in TokenRows : token[u].of # s
      BY <2>1, <2>2, <1>0, Bounds DEF TokensPlaced
    <3>3. JarSession # s
      BY <2>1, <3>2, Bounds DEF JarSession, BrowserInv, Cookies
    <3>4. call'[c] = k /\ UNCHANGED JarSession
      BY <1>0, <2>1, <2>3, OthersStay DEF JarSession
    <3>5. Role(c)'
      BY <2>1, <2>3, <3>1, <3>2, <3>3, <3>4 DEF Role, Arriving
    <3>6. \A d \in AuthCalls : Arriving(d) => call[d].s # s
      BY <2>2 DEF BrowserInv, Succession, Arriving
    <3> QED
      BY <2>1, <2>3, <2>4, <2>6, <3>1, <3>5, <3>6, HonestCallMoves
  <2> QED
    BY <1>1, <2>5, <2>6 DEF BrowserInv
<1>4. CASE FirstToken(c)
  <2>1. /\ call[c].s \in Rows /\ call[c].at = "inserted"
        /\ UNCHANGED row /\ Goes(c, "signedIn")
    BY <1>4 DEF FirstToken, BrowserInv, Succession
  <2>2. PICK t \in TokenRows : createRefreshToken(t, call[c].s, 0)
    BY <1>4 DEF FirstToken
  <2>3. Issues(t, call[c].s) /\ token'[t].from = 0 /\ ~token'[t].used /\ ~token'[t].revoked
    BY <1>0, <2>1, <2>2, TokenIssued, Bounds
  <2>4. "signedIn" \in CallStates
    BY DEF CallStates
  <2>5. PICK k : CallIs(c, k) /\ k.at = "signedIn" /\ k.s = call[c].s /\ k.t = call[c].t
    BY <1>0, <2>1, <2>4, CallMoves
  <2>6. AtServer(c, k)
    BY <2>1, <2>5 DEF AtServer, RowsKept
  <2>7. /\ token[t].of = 0 /\ token'[t].of = call[c].s
        /\ \A u \in TokenRows \ {t} : token'[u] = token[u]
    BY <2>3 DEF Issues
  <2>8. Succession'
    BY <2>1, <2>3, <2>5, <2>6, <2>7, SuccessionIssued
  <2>9. ASSUME Honest  PROVE Honest'
    <3>1. carried[c].at = "none"
      <4>1. Role(c) /\ carried[c].at \in {"none", "sent", "ended", "lost"}
        BY <2>9 DEF Honest, BrowserInv, Carriage
      <4> QED
        BY <2>1, <4>1 DEF Role, Renews
    <3> QED
      BY <2>1, <2>3, <2>5, <2>6, <2>7, <2>9, <3>1, HonestTokenIssued
  <2> QED
    BY <1>1, <2>8, <2>9 DEF BrowserInv
<1> QED
  BY <1>2, <1>3, <1>4

\* A rotation at the server, or a query of a refresh that fails.
LEMMA RotationServed ==
  ASSUME BrowserInv, NEW c \in AuthCalls, UNCHANGED <<jar, carried, refresh, crossed>>,
         \/ ReuseRevokesFamily(c) \/ ReuseRevokesSession(c)
         \/ MarkUsed(c) \/ InsertSuccessor(c) \/ RevokeOld(c)
         \/ carried[c].at # "none" /\ QueryFails(c)
  PROVE  BrowserInv'
<1>0. AuthInv /\ AuthTypes /\ Placed(c)
  BY DEF BrowserInv, AuthInv
<1>1. AuthInv'
  BY <1>0, RotationKeeps, RequestKeeps
<1>n. /\ "familyRevoked" \in CallStates /\ "suspicious" \in CallStates /\ "failed" \in CallStates
      /\ "marked" \in CallStates /\ "replaced" \in CallStates /\ "rotated" \in CallStates
  BY DEF CallStates, UnderWay
<1>s. ASSUME Honest, call[c].at \in {"found", "marked", "replaced"}
      PROVE  carried[c].at = "sent"
  <2>1. Role(c) /\ carried[c].at \in {"none", "sent", "ended", "lost"}
    BY <1>s DEF Honest, BrowserInv, Carriage
  <2> QED
    BY <1>s, <2>1 DEF Role
<1>2. CASE ReuseRevokesFamily(c) \/ ReuseRevokesSession(c)
  <2>1. /\ RowsKept
        /\ \A u \in TokenRows : token'[u].of = token[u].of /\ token'[u].from = token[u].from
    <3>1. CASE ReuseRevokesFamily(c)
      <4>1. UNCHANGED row /\ revokeRefreshTokenFamily(call[c].s)
        BY <3>1 DEF ReuseRevokesFamily
      <4> QED
        BY <1>0, <4>1, FamilyEnds DEF OnlyCloses, RowsKept
    <3>2. CASE ReuseRevokesSession(c)
      <4>1. UNCHANGED token /\ revokeUserSession(call[c].s) /\ call[c].s \in Rows
        BY <1>0, <3>2 DEF ReuseRevokesSession, Placed, KnowsRow
      <4> QED
        BY <1>0, <4>1, RowEnds
    <3> QED
      BY <1>2, <3>1, <3>2
  <2>2. call[c].at \in {"reused", "familyRevoked"}
        /\ (Goes(c, "familyRevoked") \/ Goes(c, "suspicious"))
    BY <1>2 DEF ReuseRevokesFamily, ReuseRevokesSession
  <2>3. PICK k : CallIs(c, k) /\ k.at \in {"familyRevoked", "suspicious"}
    <3>1. CASE Goes(c, "familyRevoked")
      BY <1>0, <1>n, <3>1, CallMoves
    <3>2. CASE Goes(c, "suspicious")
      BY <1>0, <1>n, <3>2, CallMoves
    <3> QED
      BY <2>2, <3>1, <3>2
  <2>4. AtServer(c, k)
    BY <2>1, <2>3 DEF AtServer
  <2>5. Succession'
    BY <2>1, <2>3, <2>4, SuccessionKept
  <2>6. ~Honest
    <3>1. carried[c].at \in {"none", "sent", "ended", "lost"}
      BY DEF BrowserInv, Carriage
    <3> QED
      BY <2>2, <3>1 DEF Honest, Role, Renews
  <2> QED
    BY <1>1, <2>5, <2>6 DEF BrowserInv
<1>3. CASE MarkUsed(c) \/ RevokeOld(c)
  <2>1. /\ call[c].t \in TokenRows /\ UNCHANGED row /\ call[c].at \in {"found", "replaced"}
        /\ markRefreshTokenUsed(call[c].t) \/ revokeRefreshToken(call[c].t)
        /\ call[c].at = "found" => markRefreshTokenUsed(call[c].t)
        /\ Goes(c, IF call[c].at = "found" THEN "marked" ELSE "rotated")
    BY <1>0, <1>3 DEF MarkUsed, RevokeOld, Placed, Rotating
  <2>2. /\ OnlyCloses /\ \A u \in TokenRows \ {call[c].t} : token'[u] = token[u]
        /\ markRefreshTokenUsed(call[c].t) => token'[call[c].t].used
    BY <1>0, <2>1, TokenMarked
  <2>3. PICK k : /\ CallIs(c, k) /\ k.at = IF call[c].at = "found" THEN "marked" ELSE "rotated"
                 /\ k.s = call[c].s /\ k.t = call[c].t
    <3>1. (IF call[c].at = "found" THEN "marked" ELSE "rotated") \in CallStates
      BY <1>n
    <3> QED
      BY <1>0, <2>1, <3>1, CallMoves
  <2>4. AtServer(c, k)
    BY <2>1, <2>3 DEF AtServer, RowsKept
  <2>5. \A u \in TokenRows : token'[u].of = token[u].of /\ token'[u].from = token[u].from
    BY <2>2 DEF OnlyCloses
  <2>6. Succession'
    <3>1. token[k.t].of # 0 /\ k.t \in TokenRows
      BY <2>1, <2>3 DEF BrowserInv, Succession
    <3>2. k.at = "rotated" => \E r \in TokenRows : token[r].from = k.t
      BY <2>1, <2>3 DEF BrowserInv, Succession
    <3> QED
      BY <2>3, <2>4, <2>5, <3>1, <3>2, SuccessionKept
  <2>7. ASSUME Honest  PROVE Honest'
    <3>1. carried[c].at = "sent"
      BY <1>s, <2>1, <2>7
    <3>2. token'[call[c].t].used
      <4>1. CASE call[c].at = "found"
        BY <2>1, <2>2, <4>1
      <4>2. CASE call[c].at = "replaced"
        BY <2>1, <2>2, <2>7, <3>1, <4>2 DEF Honest, Role, Renews, OnlyCloses
      <4> QED
        BY <2>1, <4>1, <4>2
    <3> QED
      BY <2>1, <2>2, <2>3, <2>4, <2>5, <2>7, <3>1, <3>2, HonestTokenCloses
  <2> QED
    BY <1>1, <2>4, <2>6, <2>7 DEF BrowserInv
<1>4. CASE InsertSuccessor(c)
  <2>1. /\ call[c].s \in Rows /\ call[c].at = "marked" /\ call[c].t \in TokenRows
        /\ UNCHANGED row /\ Goes(c, "replaced")
    BY <1>0, <1>4 DEF InsertSuccessor, Placed, Rotating, KnowsRow
  <2>2. PICK t \in TokenRows : createRefreshToken(t, call[c].s, call[c].t)
    BY <1>4 DEF InsertSuccessor
  <2>3. /\ Issues(t, call[c].s) /\ token'[t].from = call[c].t
        /\ ~token'[t].used /\ ~token'[t].revoked
    BY <1>0, <2>1, <2>2, TokenIssued, Bounds
  <2>4. PICK k : CallIs(c, k) /\ k.at = "replaced" /\ k.s = call[c].s /\ k.t = call[c].t
    BY <1>0, <1>n, <2>1, CallMoves
  <2>5. AtServer(c, k)
    BY <2>1, <2>4 DEF AtServer, RowsKept
  <2>6. /\ token[t].of = 0 /\ token'[t].of = call[c].s
        /\ \A u \in TokenRows \ {t} : token'[u] = token[u]
    BY <2>3 DEF Issues
  <2>7. Succession'
    BY <2>1, <2>3, <2>4, <2>5, <2>6, SuccessionIssued
  <2>8. ASSUME Honest  PROVE Honest'
    <3>1. carried[c].at = "sent"
      BY <1>s, <2>1, <2>8
    <3> QED
      BY <2>1, <2>3, <2>4, <2>5, <2>6, <2>8, <3>1, HonestTokenIssued
  <2> QED
    BY <1>1, <2>7, <2>8 DEF BrowserInv
<1>5. CASE carried[c].at # "none" /\ QueryFails(c)
  <2>1. UNCHANGED <<row, token>> /\ Goes(c, "failed") /\ call[c].at \in UnderWay
    BY <1>5 DEF QueryFails
  <2>2. PICK k : CallIs(c, k) /\ k.at = "failed"
    BY <1>0, <1>n, <2>1, CallMoves
  <2>3. AtServer(c, k)
    BY <2>1, <2>2 DEF AtServer, RowsKept
  <2>4. Succession'
    BY <2>1, <2>2, <2>3, SuccessionKept
  <2>5. ASSUME Honest  PROVE Honest'
    <3>1. Role(c) /\ carried[c].at = "sent"
      <4>1. Role(c) /\ carried[c].at \in {"none", "sent", "ended", "lost"}
        BY <2>5 DEF Honest, BrowserInv, Carriage
      <4> QED
        BY <1>5, <2>1, <4>1 DEF Role, UnderWay
    <3>2. call'[c] = k /\ UNCHANGED JarSession
      BY <1>0, <2>1, <2>2, OthersStay DEF JarSession
    <3>3. Role(c)'
      BY <2>1, <2>2, <3>1, <3>2 DEF Role, Renews, Arriving
    <3> QED
      BY <2>1, <2>2, <2>3, <2>5, <3>1, <3>3, HonestCallMoves
  <2> QED
    BY <1>1, <2>4, <2>5 DEF BrowserInv
<1> QED
  BY <1>2, <1>3, <1>4, <1>5

\* A step of the browser leaves the server's tables alone.
LEMMA ServerStill ==
  ASSUME BrowserInv, UNCHANGED authVars
  PROVE  /\ AuthInv' /\ Succession' /\ UNCHANGED <<row, token, call>>
         /\ \A u : Untouched(u)' <=> Untouched(u)
<1>1. UNCHANGED <<row, token, call>>
  BY DEF authVars
<1>2. AuthInv'
  BY StillKeeps DEF BrowserInv
<1>3. Succession'
  BY <1>1 DEF BrowserInv, Succession
<1>4. \A u : Untouched(u)' <=> Untouched(u)
  BY <1>1 DEF Untouched
<1> QED
  BY <1>1, <1>2, <1>3, <1>4

LEMMA BrowserStill ==
  ASSUME BrowserInv, UNCHANGED <<authVars, jar, refresh, carried, crossed>>
  PROVE  BrowserInv'
<1>1. /\ AuthInv' /\ Succession' /\ UNCHANGED <<row, token, call, jar, refresh, carried, crossed>>
      /\ \A u : Untouched(u)' <=> Untouched(u)
  BY ServerStill
<1>2. UNCHANGED JarSession
  BY <1>1 DEF JarSession
<1>3. \A c \in AuthCalls : (Role(c)' <=> Role(c)) /\ (Arriving(c)' <=> Arriving(c))
  BY <1>1, <1>2 DEF Role, Renews, Arriving
<1>4. jar.refresh # 0 => (Untouched(jar.refresh)' <=> Untouched(jar.refresh))
  BY <1>1 DEF Untouched
<1>5. Honest => Honest'
  BY <1>1, <1>2, <1>3, <1>4 DEF Honest
<1> QED
  BY <1>1, <1>5 DEF BrowserInv

\* The cookies of a new session replace those of the jar.
LEMMA SignedInKeeps ==
  ASSUME BrowserInv, NEW t \in Tabs, NEW c \in AuthCalls, SignedIn(t, c)
  PROVE  BrowserInv'
<1>1. PICK r \in TokenRows :
        /\ token[r].of = call[c].s /\ token[r].from = 0
        /\ jar' = [access |-> call[c].s, session |-> call[c].s, refresh |-> r]
  BY DEF SignedIn
<1>2. /\ call[c].at = "signedIn" /\ carried[c].at = "none" /\ UNCHANGED <<authVars, refresh>>
      /\ carried' = [carried EXCEPT ![c] = [at |-> "ended", token |-> 0]]
      /\ ~crossed' => ~crossed /\ \A d \in AuthCalls : carried[d].at # "sent"
  BY DEF SignedIn, Unanswered
<1>3. /\ AuthInv' /\ Succession' /\ UNCHANGED <<row, token, call>>
      /\ \A u : Untouched(u)' <=> Untouched(u)
  BY <1>2, ServerStill
<1>4. call[c].s \in Rows
  BY <1>2 DEF BrowserInv, Succession
<1>5. /\ jar' \in Cookies /\ jar'.refresh = r /\ jar'.access = call[c].s
      /\ jar'.session = call[c].s /\ r # 0
  BY <1>1, <1>4, Bounds DEF Cookies
<1>6. /\ carried' \in [AuthCalls -> Carriage] /\ carried'[c].at = "ended"
      /\ \A d \in AuthCalls : d # c => carried'[d] = carried[d]
  BY <1>2, Bounds DEF BrowserInv, Carriage
<1>7. ASSUME ~crossed'  PROVE Honest'
  <2>0. Honest /\ \A d \in AuthCalls : carried[d].at # "sent"
    BY <1>2, <1>7 DEF BrowserInv
  <2>1. JarSession' = call[c].s
    BY <1>1, <1>3, <1>5 DEF JarSession
  <2>2. Untouched(r)
    BY <1>1, <1>2, <2>0 DEF Honest, Role
  <2>3. \A d \in AuthCalls : d # c /\ Arriving(d) => call[d].s # call[c].s
    BY <1>2, <2>0 DEF Honest, Arriving
  <2>4. ASSUME NEW d \in AuthCalls, d # c  PROVE Role(d)' /\ (Arriving(d)' <=> Arriving(d))
    <3>1. Role(d) /\ carried'[d] = carried[d] /\ call'[d] = call[d] /\ carried[d].at # "sent"
      BY <1>3, <1>6, <2>0, <2>4 DEF Honest
    <3> QED
      BY <1>3, <2>1, <2>3, <2>4, <3>1 DEF Role, Arriving
  <2>5. Role(c)' /\ ~Arriving(c)'
    BY <1>2, <1>3, <1>6 DEF Role, Arriving
  <2>6. \A d, e \in AuthCalls : Arriving(d)' /\ Arriving(e)' /\ call'[d].s = call'[e].s => d = e
    BY <1>3, <2>0, <2>4, <2>5 DEF Honest
  <2>7. \A d \in AuthCalls : carried'[d].at # "sent"
    BY <1>6, <2>0
  <2>8. \A o \in Tabs : refresh[o].call = {}
    BY <2>0 DEF Honest, BrowserInv
  <2>9. Untouched(jar.refresh)' /\ token'[jar'.refresh].of # 0
    BY <1>3, <1>5, <2>2 DEF Untouched
  <2> QED
    BY <1>2, <1>5, <2>1, <2>4, <2>5, <2>6, <2>7, <2>8, <2>9 DEF Honest
<1> QED
  BY <1>2, <1>3, <1>5, <1>6, <1>7 DEF BrowserInv

LEMMA ExpiryKeeps ==
  ASSUME BrowserInv, NEW cookie \in {"access", "session"}, CookieExpires(cookie)
  PROVE  BrowserInv'
<1>1. /\ UNCHANGED <<authVars, refresh, carried, crossed>>
      /\ jar' = [jar EXCEPT ![cookie] = 0]
  BY DEF CookieExpires
<1>2. /\ AuthInv' /\ Succession' /\ UNCHANGED <<row, token, call>>
      /\ \A u : Untouched(u)' <=> Untouched(u)
  BY <1>1, ServerStill
<1>3. /\ jar' \in Cookies /\ jar'.refresh = jar.refresh
      /\ jar'.access \in {0, jar.access} /\ jar'.session \in {0, jar.session}
  <2>1. CASE cookie = "access"
    BY <1>1, <2>1, Bounds DEF BrowserInv, Cookies
  <2>2. CASE cookie = "session"
    BY <1>1, <2>2, Bounds DEF BrowserInv, Cookies
  <2> QED
    BY <2>1, <2>2
<1>4. UNCHANGED JarSession
  BY <1>2, <1>3 DEF JarSession
<1>5. \A c \in AuthCalls : (Role(c)' <=> Role(c)) /\ (Arriving(c)' <=> Arriving(c))
  BY <1>1, <1>2, <1>3, <1>4 DEF Role, Renews, Arriving
<1>6. Untouched(jar.refresh)' <=> Untouched(jar.refresh)
  BY <1>2, <1>3 DEF Untouched
<1>7. Honest => Honest'
  BY <1>1, <1>2, <1>3, <1>4, <1>5, <1>6 DEF Honest
<1> QED
  BY <1>1, <1>2, <1>3, <1>7 DEF BrowserInv

\* A call that was refused joins the refresh of its tab or begins one.
LEMMA RefusedKeeps ==
  ASSUME BrowserInv, NEW p \in PageCalls, Unauthorized(p)
  PROVE  BrowserInv'
<1> DEFINE t == page[p].tab
<1>1. UNCHANGED <<authVars, jar>> /\ refreshAccessToken(t)
  BY DEF Unauthorized
<1> HIDE DEF t
<1>2. CASE UNCHANGED <<refresh, carried, crossed>>
  BY <1>1, <1>2, BrowserStill
<1>3. ASSUME NEW c \in AuthCalls, refresh[t] = NoRefresh, Fresh(c),
             refresh' = [refresh EXCEPT ![t] = [call |-> {c}, quiet |-> ~user[t]]],
             carried' = [carried EXCEPT ![c] = [at |-> "sent", token |-> jar.refresh]],
             crossed' = (crossed \/ Unanswered # {})
      PROVE  BrowserInv'
  <2>1. /\ AuthInv' /\ Succession' /\ UNCHANGED <<row, token, call, jar>>
        /\ \A u : Untouched(u)' <=> Untouched(u)
    BY <1>1, ServerStill
  <2>2. call[c].at = "new" /\ carried[c].at = "none"
    BY <1>3 DEF Fresh
  <2>3. jar.refresh \in 0 .. MaxTokens
    BY DEF BrowserInv, Cookies
  <2>4. /\ carried' \in [AuthCalls -> Carriage]
        /\ carried'[c].at = "sent" /\ carried'[c].token = jar.refresh
        /\ \A d \in AuthCalls : d # c => carried'[d] = carried[d]
    BY <1>3, <2>3 DEF BrowserInv, Carriage
  <2>5. /\ DOMAIN refresh' = Tabs
        /\ \A o \in Tabs : refresh'[o].call = IF o = t THEN {c} ELSE refresh[o].call
    <3> DEFINE v == [call |-> {c}, quiet |-> ~user[t]]
    <3>1. v.call = {c}
      OBVIOUS
    <3>2. refresh' = [refresh EXCEPT ![t] = v]
      BY <1>3
    <3> HIDE DEF v
    <3> QED
      BY <3>1, <3>2 DEF BrowserInv
  <2>6. ~crossed' => ~crossed /\ Unanswered = {}
    BY <1>3, Zenon
  <2>7. ASSUME ~crossed'  PROVE Honest'
    <3>0. Honest /\ \A d \in AuthCalls : carried[d].at # "sent"
      BY <2>6, <2>7 DEF BrowserInv, Unanswered
    <3>1. UNCHANGED JarSession
      BY <2>1 DEF JarSession
    <3>2. ASSUME NEW d \in AuthCalls, d # c  PROVE Role(d)' /\ (Arriving(d)' <=> Arriving(d))
      <4>1. Role(d) /\ carried'[d] = carried[d] /\ call'[d] = call[d] /\ carried[d].at # "sent"
        BY <2>1, <2>4, <3>0, <3>2 DEF Honest
      <4> QED
        BY <2>1, <3>1, <4>1 DEF Role, Arriving
    <3>3. Role(c)' /\ ~Arriving(c)'
      BY <2>1, <2>2, <2>4 DEF Role, Renews, Arriving
    <3>4. \A d, e \in AuthCalls : Arriving(d)' /\ Arriving(e)' /\ call'[d].s = call'[e].s => d = e
      BY <2>1, <3>0, <3>2, <3>3 DEF Honest
    <3>5. \A d \in AuthCalls : carried'[d].at = "sent" => d = c
      BY <2>4, <3>0
    <3>6. \A o \in Tabs : refresh[o].call = {}
      BY <3>0 DEF Honest, BrowserInv
    <3>7. \A o \in Tabs : refresh'[o].call \subseteq {c} /\ (o # t => refresh'[o].call = {})
      BY <2>5, <3>6
    <3>8. jar.refresh # 0 => Untouched(jar.refresh)' /\ token'[jar'.refresh].of # 0
      BY <2>1, <3>0 DEF Honest, Untouched
    <3>9. jar'.access \in {0, JarSession'} /\ jar'.session \in {0, JarSession'}
      BY <2>1, <3>0, <3>1 DEF Honest
    <3> QED
      BY <2>1, <2>4, <3>2, <3>3, <3>4, <3>5, <3>7, <3>8, <3>9 DEF Honest
  <2>8. \A o \in Tabs : refresh'[o].call \subseteq AuthCalls
    BY <2>5 DEF BrowserInv
  <2>9. jar' \in Cookies
    BY <2>1 DEF BrowserInv
  <2> QED
    BY <2>1, <2>4, <2>5, <2>7, <2>8, <2>9 DEF BrowserInv
<1> QED
  BY <1>1, <1>2, <1>3 DEF refreshAccessToken

\* The answer to a refresh: the cookies of a rotation, or none.
LEMMA AnswerSets ==
  ASSUME BrowserInv, NEW c \in AuthCalls, call[c].at = "rotated", jar' = CookiesOf(c)
  PROVE  /\ jar' \in Cookies /\ jar'.access = call[c].s /\ jar'.session = jar.session
         /\ jar'.refresh \in TokenRows /\ token[jar'.refresh].from = call[c].t
<1> DEFINE r == CHOOSE r \in TokenRows : token[r].from = call[c].t
           i == [jar EXCEPT !.access = call[c].s]
           k == [i EXCEPT !.refresh = r]
<1>1. r \in TokenRows /\ token[r].from = call[c].t
  BY DEF BrowserInv, Succession
<1>2. jar' = [jar EXCEPT !.access = call[c].s, !.refresh = r]
  BY DEF CookiesOf
<1> HIDE DEF r
<1>3. i \in Cookies /\ i.access = call[c].s /\ i.session = jar.session
  BY DEF BrowserInv, AuthInv, AuthTypes, CallRecord, Cookies
<1>4. jar' = k
  BY <1>2 DEF i
<1> HIDE DEF i
<1>5. k \in Cookies /\ k.access = call[c].s /\ k.session = jar.session /\ k.refresh = r
  BY <1>1, <1>3, Bounds DEF Cookies
<1> HIDE DEF k
<1> QED
  BY <1>1, <1>4, <1>5

\* The refresh is answered: no other was on its way.
LEMMA AnsweredKeeps ==
  ASSUME BrowserInv, NEW t \in Tabs, NEW c \in AuthCalls, RefreshAnswered(t, c)
  PROVE  BrowserInv'
<1>1. /\ c \in refresh[t].call
      /\ call[c].at \in {"rotated", "invalid", "suspicious", "failed"}
      /\ carried' = [carried EXCEPT ![c] = [at |-> "ended", token |-> 0]]
      /\ refresh' = [refresh EXCEPT ![t] = NoRefresh] /\ jar' = CookiesOf(c)
      /\ UNCHANGED <<authVars, crossed>>
  BY DEF RefreshAnswered
<1>2. /\ AuthInv' /\ Succession' /\ UNCHANGED <<row, token, call>>
      /\ \A u : Untouched(u)' <=> Untouched(u)
  BY <1>1, ServerStill
<1>3. /\ carried' \in [AuthCalls -> Carriage] /\ carried'[c].at = "ended"
      /\ \A d \in AuthCalls : d # c => carried'[d] = carried[d]
  BY <1>1, Bounds DEF BrowserInv, Carriage
<1>4. /\ DOMAIN refresh' = Tabs /\ refresh'[t].call = {}
      /\ \A o \in Tabs : o # t => refresh'[o] = refresh[o]
  BY <1>1 DEF BrowserInv, NoRefresh
<1>5. \A o \in Tabs : refresh'[o].call \subseteq AuthCalls
  BY <1>4 DEF BrowserInv
<1>6. call[c].at # "rotated" =>
        jar' \in Cookies /\ jar'.refresh = 0 /\ jar'.access = 0 /\ jar'.session = 0
  BY <1>1, Bounds DEF CookiesOf, NoCookies, Cookies
<1>7. jar' \in Cookies
  BY <1>1, <1>6, AnswerSets
<1>8. ASSUME Honest  PROVE Honest'
  <2>1. carried[c].at = "sent" /\ Renews(c)
    BY <1>1, <1>8 DEF Honest, Role
  <2>2. \A d \in AuthCalls : carried'[d].at # "sent"
    BY <1>3, <1>8, <2>1 DEF Honest
  <2>3. \A o \in Tabs : refresh'[o].call = {}
    <3> SUFFICES ASSUME NEW o \in Tabs, o # t, NEW d \in refresh[o].call  PROVE FALSE
      BY <1>4
    <3>1. d \in AuthCalls /\ carried[d].at = "sent"
      BY <1>8 DEF Honest, BrowserInv
    <3>2. d = c
      BY <1>8, <2>1, <3>1 DEF Honest
    <3> QED
      BY <1>1, <1>8, <3>2 DEF Honest
  <2>4. CASE call[c].at = "rotated"
    <3>1. /\ jar'.access = call[c].s /\ jar'.session = jar.session /\ jar'.refresh \in TokenRows
          /\ token[jar'.refresh].from = call[c].t
      BY <1>1, <2>4, AnswerSets
    <3>2. PICK r \in TokenRows : r = jar'.refresh
      BY <3>1
    <3>3. Untouched(r) /\ token[r].of = call[c].s /\ call[c].s = JarSession /\ r # 0
      BY <2>1, <2>4, <3>1, <3>2, Bounds DEF Renews
    <3>4. JarSession' = JarSession
      BY <1>2, <3>2, <3>3 DEF JarSession
    <3>5. \A d \in AuthCalls : Role(d)' /\ (Arriving(d)' => Arriving(d))
      <4> SUFFICES ASSUME NEW d \in AuthCalls  PROVE Role(d)' /\ (Arriving(d)' => Arriving(d))
        OBVIOUS
      <4>1. CASE d = c
        BY <1>2, <1>3, <2>4, <4>1 DEF Role, Arriving
      <4>2. CASE d # c
        <5>1. Role(d) /\ carried'[d] = carried[d] /\ call'[d] = call[d] /\ carried'[d].at # "sent"
          BY <1>2, <1>3, <1>8, <2>2, <4>2 DEF Honest
        <5> QED
          BY <1>2, <3>4, <5>1 DEF Role, Arriving
      <4> QED
        BY <4>1, <4>2
    <3>6. \A d, e \in AuthCalls : Arriving(d)' /\ Arriving(e)' /\ call'[d].s = call'[e].s => d = e
      BY <1>2, <1>8, <3>5 DEF Honest
    <3>7. Untouched(jar.refresh)' /\ token'[jar'.refresh].of # 0
      BY <1>2, <3>2, <3>3 DEF Untouched
    <3>8. jar'.access \in {0, JarSession'} /\ jar'.session \in {0, JarSession'}
      BY <1>8, <3>1, <3>3, <3>4 DEF Honest
    <3> QED
      BY <2>2, <2>3, <3>5, <3>6, <3>7, <3>8 DEF Honest
  <2>5. CASE call[c].at # "rotated"
    <3>1. call[c].at \in {"invalid", "failed"}
      BY <1>1, <2>1, <2>5 DEF Renews
    <3>2. JarSession' = 0 /\ jar'.refresh = 0 /\ jar'.access = 0 /\ jar'.session = 0
      BY <1>6, <2>5 DEF JarSession
    <3>3. \A d \in AuthCalls : Role(d)' /\ (Arriving(d)' => Arriving(d))
      <4> SUFFICES ASSUME NEW d \in AuthCalls  PROVE Role(d)' /\ (Arriving(d)' => Arriving(d))
        OBVIOUS
      <4>1. CASE d = c
        BY <1>2, <1>3, <3>1, <4>1 DEF Role, Arriving
      <4>2. CASE d # c
        <5>1. Role(d) /\ carried'[d] = carried[d] /\ call'[d] = call[d] /\ carried'[d].at # "sent"
          BY <1>2, <1>3, <1>8, <2>2, <4>2 DEF Honest
        <5>2. Arriving(d) => call[d].s # 0
          BY Bounds DEF BrowserInv, Succession, Arriving
        <5> QED
          BY <1>2, <3>2, <5>1, <5>2 DEF Role, Arriving
      <4> QED
        BY <4>1, <4>2
    <3>4. \A d, e \in AuthCalls : Arriving(d)' /\ Arriving(e)' /\ call'[d].s = call'[e].s => d = e
      BY <1>2, <1>8, <3>3 DEF Honest
    <3> QED
      BY <2>2, <2>3, <3>2, <3>3, <3>4 DEF Honest
  <2> QED
    BY <2>4, <2>5
<1> QED
  BY <1>1, <1>2, <1>3, <1>4, <1>5, <1>7, <1>8 DEF BrowserInv

\* An answer is lost: from here on a refresh may meet what it left.
LEMMA LostKeeps ==
  ASSUME BrowserInv, NEW t \in Tabs, NEW c \in AuthCalls, RefreshLost(t, c)
  PROVE  BrowserInv'
<1>1. /\ carried' = [carried EXCEPT ![c].at = "lost"]
      /\ refresh' = [refresh EXCEPT ![t] = NoRefresh] /\ crossed' = TRUE
      /\ UNCHANGED <<authVars, jar>>
  BY DEF RefreshLost
<1>2. AuthInv' /\ Succession'
  BY <1>1, ServerStill
<1>3. carried' \in [AuthCalls -> Carriage]
  <2> DEFINE k == [carried[c] EXCEPT !.at = "lost"]
  <2>1. k \in Carriage
    BY DEF BrowserInv, Carriage
  <2>2. carried' = [carried EXCEPT ![c] = k]
    BY <1>1 DEF BrowserInv
  <2> HIDE DEF k
  <2> QED
    BY <2>1, <2>2 DEF BrowserInv
<1>4. DOMAIN refresh' = Tabs /\ \A o \in Tabs : refresh'[o].call \subseteq AuthCalls
  BY <1>1 DEF BrowserInv, NoRefresh
<1> QED
  BY <1>1, <1>2, <1>3, <1>4 DEF BrowserInv

\* A session runs out: the tokens and the calls stay.
LEMMA LapseKeeps ==
  ASSUME BrowserInv, NEW s \in Rows, RowLapses(s)
  PROVE  BrowserInv'
<1>1. /\ SessionLapses(s) /\ UNCHANGED <<token, call, jar, refresh, carried, crossed>>
      /\ row' = [row EXCEPT ![s] = "lapsed"]
  BY DEF RowLapses, SessionLapses
<1>2. AuthInv'
  BY <1>1, JobKeeps DEF BrowserInv
<1>3. \A r \in Rows : row[r] # "none" => row'[r] # "none"
  BY <1>1 DEF BrowserInv, AuthInv, AuthTypes
<1>4. Succession'
  BY <1>1, <1>3 DEF BrowserInv, Succession
<1>5. (\A u : Untouched(u)' <=> Untouched(u)) /\ UNCHANGED JarSession
  BY <1>1 DEF Untouched, JarSession
<1>6. \A c \in AuthCalls : (Role(c)' <=> Role(c)) /\ (Arriving(c)' <=> Arriving(c))
  BY <1>1, <1>5 DEF Role, Renews, Arriving
<1>7. Untouched(jar.refresh)' <=> Untouched(jar.refresh)
  BY <1>1 DEF Untouched
<1>8. Honest => Honest'
  BY <1>1, <1>5, <1>6, <1>7 DEF Honest
<1> QED
  BY <1>1, <1>2, <1>4, <1>8 DEF BrowserInv

LEMMA BrowserStep == BrowserInv /\ [BrowserNext]_browserVars => BrowserInv'
<1> SUFFICES ASSUME BrowserInv, [BrowserNext]_browserVars  PROVE BrowserInv'
  OBVIOUS
<1>1. CASE UNCHANGED browserVars
  BY <1>1, BrowserStill DEF browserVars, jarVars
<1>2. ASSUME NEW c \in AuthCalls, handleRefreshToken(c) \/ ServerStep(c)  PROVE BrowserInv'
  BY <1>2, LookKeeps, SignInServed, RotationServed DEF ServerStep
<1>3. ASSUME NEW t \in Tabs, NEW c \in AuthCalls,
             SignedIn(t, c) \/ RefreshAnswered(t, c) \/ RefreshLost(t, c)
      PROVE  BrowserInv'
  BY <1>3, SignedInKeeps, AnsweredKeeps, LostKeeps
<1>4. ASSUME NEW p \in PageCalls,
             \/ \E t \in Tabs : Request(p, t)
             \/ Answered(p) \/ Unauthorized(p) \/ SessionExpired(p)
      PROVE  BrowserInv'
  BY <1>4, BrowserStill, RefusedKeeps DEF Request, Answered, SessionExpired
<1> QED
  BY <1>1, <1>2, <1>3, <1>4, ExpiryKeeps, LapseKeeps DEF BrowserNext

\* What a step of the browser does to the server's tables: a step of the server
\* that is there without it, or a refresh without a token that is refused.
LEMMA BrowserServes ==
  ASSUME BrowserInv, [BrowserNext]_browserVars
  PROVE  \/ [AuthNext]_authVars
         \/ \E c \in AuthCalls : call[c].at = "new" /\ Goes(c, "invalid") /\ UNCHANGED <<row, token>>
<1>1. ASSUME NEW c \in AuthCalls, handleRefreshToken(c)
      PROVE  \/ \E t \in TokenRows : FindToken(c, t)
             \/ call[c].at = "new" /\ Goes(c, "invalid") /\ UNCHANGED <<row, token>>
  BY <1>1, Bounds DEF handleRefreshToken, BrowserInv, Carriage
<1>2. ASSUME NEW c \in AuthCalls, ServerStep(c)  PROVE AuthNext
  BY <1>2 DEF ServerStep, AuthNext
<1>3. ASSUME NEW s \in Rows, RowLapses(s)  PROVE AuthNext
  BY <1>3 DEF RowLapses, AuthNext
<1>4. ASSUME NEW t \in Tabs, NEW c \in AuthCalls,
             SignedIn(t, c) \/ RefreshAnswered(t, c) \/ RefreshLost(t, c)
      PROVE  UNCHANGED authVars
  BY <1>4 DEF SignedIn, RefreshAnswered, RefreshLost
<1>5. ASSUME NEW p \in PageCalls,
             \/ \E t \in Tabs : Request(p, t)
             \/ Answered(p) \/ Unauthorized(p) \/ SessionExpired(p)
      PROVE  UNCHANGED authVars
  BY <1>5 DEF Request, Answered, Unauthorized, SessionExpired
<1>6. ASSUME NEW cookie \in {"access", "session"}, CookieExpires(cookie)
      PROVE  UNCHANGED authVars
  BY <1>6 DEF CookieExpires
<1>7. CASE UNCHANGED browserVars
  BY <1>7 DEF browserVars
<1>8. CASE \E c \in AuthCalls : handleRefreshToken(c)
  BY <1>1, <1>8 DEF AuthNext
<1> QED
  BY <1>2, <1>3, <1>4, <1>5, <1>6, <1>7, <1>8 DEF BrowserNext

\* So a token stays a one-time token behind the browser.
LEMMA BrowserRotates ==
  BrowserInv /\ [BrowserNext]_browserVars => [RefreshTokens!OneTimeNext]_(RefreshTokens!oneTimeVars)
<1> SUFFICES ASSUME BrowserInv, [BrowserNext]_browserVars
             PROVE  [RefreshTokens!OneTimeNext]_(RefreshTokens!oneTimeVars)
  OBVIOUS
<1>0. AuthInv /\ AuthTypes
  BY DEF BrowserInv, AuthInv
<1>1. CASE [AuthNext]_authVars
  BY <1>0, <1>1, RotationRefines
<1>2. CASE \E c \in AuthCalls : call[c].at = "new" /\ Goes(c, "invalid") /\ UNCHANGED <<row, token>>
  <2>1. PICK c \in AuthCalls : call[c].at = "new" /\ Goes(c, "invalid") /\ UNCHANGED <<row, token>>
    BY <1>2
  <2>2. OnlyCloses /\ "invalid" \in CallStates
    BY <2>1 DEF OnlyCloses, CallStates
  <2>3. UNCHANGED <<TokensSeen, TokensServed>>
    BY <1>0, <2>1, <2>2, MovesOn DEF Rotating
  <2> QED
    BY <1>0, <2>2, <2>3, ClosingStep
<1> QED
  BY <1>1, <1>2, BrowserServes

\* As long as no two refreshes of a browser overlap, nobody signs in meanwhile and
\* no answer is lost, none of its refreshes is taken for the use of a stolen token,
\* and its cookies name one session.
THEOREM HonestBrowserTrusted == BrowserSpec => []HonestNeverSuspected
BY BrowserBegins, BrowserStep, HonestIsTrusted, PTL DEF BrowserSpec

\* Behind the tabs of a browser a refresh token stays a one-time token, whatever
\* overlaps and is lost.
THEOREM BrowserRotatesOnce == BrowserSpec => RotationIsOneTime
<1>1. BrowserInit => RefreshTokens!OneTimeInit
  BY TokensBegin DEF BrowserInit
<1> QED
  BY <1>1, BrowserBegins, BrowserStep, BrowserRotates, PTL
  DEF BrowserSpec, RotationIsOneTime, RefreshTokens!OneTimeSpec

-----------------------------------------------------------------------------
(* OAuthSignIn and AuthSessions: the types of their states. *)

\* The state of the sign-in, and what the browser and the provider know of it.
StateInv == stateToken \in Copy /\ stateCookie \in BOOLEAN /\ codeSpent \in BOOLEAN

LEMMA StateBegins == OAuthInit => StateInv
<1> SUFFICES ASSUME OAuthInit  PROVE StateInv
  OBVIOUS
<1>1. stateToken \in Copy
  BY DEF OAuthInit, NoCopy, Copy
<1>2. stateCookie \in BOOLEAN /\ codeSpent \in BOOLEAN
  BY Zenon DEF OAuthInit
<1> QED
  BY <1>1, <1>2 DEF StateInv

LEMMA StateKeeps == StateInv /\ [OAuthNext]_oauthVars => StateInv'
<1> SUFFICES ASSUME StateInv, [OAuthNext]_oauthVars  PROVE StateInv'
  OBVIOUS
<1>0. stateToken \in Copy /\ stateCookie \in BOOLEAN /\ codeSpent \in BOOLEAN
  BY DEF StateInv
<1>1. CASE UNCHANGED <<stateToken, stateCookie, codeSpent>>
  BY <1>0, <1>1 DEF StateInv
<1>2. CASE StartSignIn
  <2>0. Inserted \subseteq Copy
    BY DEF Inserted, Copy
  <2>1. stateToken' \in Copy
    BY <1>2, <2>0 DEF StartSignIn
  <2>2. stateCookie' \in BOOLEAN /\ codeSpent' \in BOOLEAN
    BY <1>0, <1>2, Zenon DEF StartSignIn
  <2> QED
    BY <2>1, <2>2 DEF StateInv
<1>3. PICK held : held = [stateToken EXCEPT !.mem = FALSE]
  OBVIOUS
<1>4. PICK gone : gone = [stateToken EXCEPT !.db = "gone"]
  OBVIOUS
<1>5. held \in Copy /\ gone \in Copy
  BY <1>0, <1>3, <1>4 DEF Copy
<1>6. ASSUME NEW v \in Visits, LookUpState(v) \/ DeleteState(v)  PROVE StateInv'
  <2>1. stateToken' \in {stateToken, held, gone} /\ UNCHANGED <<stateCookie, codeSpent>>
    BY <1>3, <1>4, <1>6 DEF LookUpState, DeleteState
  <2> QED
    BY <1>0, <1>5, <2>1 DEF StateInv
<1>7. ASSUME NEW v \in Visits, CheckState(v)  PROVE StateInv'
  BY <1>0, <1>7 DEF CheckState, StateInv
<1>8. ASSUME NEW v \in Visits, AskProvider(v)  PROVE StateInv'
  BY <1>0, <1>8 DEF AskProvider, StateInv
<1>9. ASSUME NEW v \in Visits, CreateHandoff(v) \/ HandoffExpires(v)  PROVE StateInv'
  BY <1>1, <1>9 DEF CreateHandoff, HandoffExpires
<1>10. ASSUME NEW x \in Exchanges, MarkHandoff(x) \/ \E h \in Visits : LookUpHandoff(x, h)
       PROVE  StateInv'
  BY <1>1, <1>10 DEF MarkHandoff, LookUpHandoff
<1> QED
  BY <1>1, <1>2, <1>6, <1>7, <1>8, <1>9, <1>10 DEF OAuthNext, oauthVars

LEMMA OAuthTyped == HandoffInv /\ StateInv => OAuthTypeOK
BY Zenon DEF HandoffInv, StateInv, OAuthTypeOK, Copy, VisitStates, Exchange

LEMMA AuthTyped == AuthInv => AuthTypeOK
BY Zenon DEF AuthInv, AuthTypes, AuthTypeOK, RowStates, TokenRecord, CallRecord, CallStates
-----------------------------------------------------------------------------
(* BrowserAuth: what the tabs hold. *)

TabCalls == [at : {"sent", "refreshing", "repeated"}, tab : Tabs, with : Cookies]

TabsInv ==
  /\ page \in [PageCalls -> {IdlePage, PageOver} \cup TabCalls]
  /\ \A t \in Tabs : refresh[t].quiet \in BOOLEAN
  /\ user \in [Tabs -> BOOLEAN]
  /\ crossed \in BOOLEAN

LEMMA TabsBegin == BrowserInit => TabsInv
<1> SUFFICES ASSUME BrowserInit  PROVE TabsInv
  OBVIOUS
<1>1. page \in [PageCalls -> {IdlePage, PageOver} \cup TabCalls]
  BY DEF BrowserInit
<1>2. \A t \in Tabs : refresh[t].quiet \in BOOLEAN
  BY DEF BrowserInit, NoRefresh
<1>3. user \in [Tabs -> BOOLEAN] /\ crossed \in BOOLEAN
  BY Zenon DEF BrowserInit
<1> QED
  BY <1>1, <1>2, <1>3 DEF TabsInv

LEMMA BrowserTyped == BrowserInv /\ AuthTypeOK /\ TabsInv => BrowserTypeOK
BY Zenon DEF BrowserInv, TabsInv, BrowserTypeOK, TabCalls, Cookies, Carriage

\* A call of a page goes on.
LEMMA TabCallMoves ==
  ASSUME TabsInv, NEW p \in PageCalls, NEW k \in {IdlePage, PageOver} \cup TabCalls,
         page' = [page EXCEPT ![p] = k]
  PROVE  page' \in [PageCalls -> {IdlePage, PageOver} \cup TabCalls]
BY DEF TabsInv

LEMMA TabsStay ==
  ASSUME TabsInv, page' \in [PageCalls -> {IdlePage, PageOver} \cup TabCalls],
         UNCHANGED <<refresh, user, crossed>>
  PROVE  TabsInv'
BY DEF TabsInv

\* The calls that awaited the refresh of a tab go on.
LEMMA TabResumes ==
  ASSUME TabsInv, NEW t \in Tabs, NEW k \in {PageOver} \cup TabCalls, Resumed(t, k)
  PROVE  page' \in [PageCalls -> {IdlePage, PageOver} \cup TabCalls]
BY DEF TabsInv, Resumed

\* No refresh of a tab is under way.
LEMMA RefreshOver ==
  ASSUME BrowserInv, TabsInv, NEW t \in Tabs, refresh' = [refresh EXCEPT ![t] = NoRefresh]
  PROVE  \A o \in Tabs : refresh'[o].quiet \in BOOLEAN
<1> SUFFICES ASSUME NEW o \in Tabs  PROVE refresh'[o].quiet \in BOOLEAN
  OBVIOUS
<1>1. refresh'[o] = NoRefresh \/ refresh'[o] = refresh[o]
  BY DEF BrowserInv
<1>2. NoRefresh.quiet \in BOOLEAN /\ refresh[o].quiet \in BOOLEAN
  BY DEF NoRefresh, TabsInv
<1> QED
  BY <1>1, <1>2

LEMMA TabsKeep == BrowserInv /\ BrowserInv' /\ TabsInv /\ [BrowserNext]_browserVars => TabsInv'
<1> SUFFICES ASSUME BrowserInv, BrowserInv', TabsInv, [BrowserNext]_browserVars  PROVE TabsInv'
  OBVIOUS
<1>0. /\ page \in [PageCalls -> {IdlePage, PageOver} \cup TabCalls]
      /\ user \in [Tabs -> BOOLEAN] /\ crossed \in BOOLEAN
      /\ jar \in Cookies /\ jar' \in Cookies /\ NoCookies \in Cookies
      /\ \A t \in Tabs : refresh[t].quiet \in BOOLEAN
      /\ DOMAIN refresh = Tabs
  <2>1. NoCookies \in Cookies
    BY Bounds DEF NoCookies, Cookies
  <2> QED
    BY <2>1 DEF TabsInv, BrowserInv
<1>1. CASE UNCHANGED <<page, refresh, user, crossed>>
  BY <1>0, <1>1, TabsStay
<1>2. ASSUME NEW c \in AuthCalls, handleRefreshToken(c) \/ ServerStep(c)  PROVE TabsInv'
  BY <1>1, <1>2 DEF handleRefreshToken, ServerStep
<1>3. ASSUME NEW t \in Tabs, NEW c \in AuthCalls, SignedIn(t, c)  PROVE TabsInv'
  <2>1. page' = page /\ refresh' = refresh
    BY <1>3 DEF SignedIn
  <2>2. user' = [user EXCEPT ![t] = TRUE]
    BY <1>3 DEF SignedIn
  <2>3. user' \in [Tabs -> BOOLEAN]
    BY <1>0, <2>2
  <2>4. crossed' \in BOOLEAN
    BY <1>3, Zenon DEF SignedIn
  <2> QED
    BY <1>0, <2>1, <2>3, <2>4 DEF TabsInv
<1>4. ASSUME NEW cookie \in {"access", "session"}, CookieExpires(cookie)  PROVE TabsInv'
  BY <1>1, <1>4 DEF CookieExpires
<1>5. ASSUME NEW s \in Rows, RowLapses(s)  PROVE TabsInv'
  BY <1>1, <1>5 DEF RowLapses
<1>6. ASSUME NEW p \in PageCalls, NEW t \in Tabs, Request(p, t)  PROVE TabsInv'
  <2>1. PICK k : k = [at |-> "sent", tab |-> t, with |-> jar]
    OBVIOUS
  <2>2. k \in TabCalls
    BY <1>0, <2>1 DEF TabCalls
  <2>3. page' = [page EXCEPT ![p] = k] /\ UNCHANGED <<refresh, user, crossed>>
    BY <1>6, <2>1 DEF Request
  <2> QED
    BY <2>2, <2>3, TabCallMoves, TabsStay
<1>7. ASSUME NEW p \in PageCalls, Answered(p)  PROVE TabsInv'
  <2>1. page' = [page EXCEPT ![p] = PageOver] /\ UNCHANGED <<refresh, user, crossed>>
    BY <1>7 DEF Answered
  <2> QED
    BY <2>1, TabCallMoves, TabsStay
<1>8. ASSUME NEW p \in PageCalls, SessionExpired(p)  PROVE TabsInv'
  <2>1. page' = [page EXCEPT ![p] = PageOver] /\ UNCHANGED <<refresh, crossed>>
        /\ user' = [user EXCEPT ![page[p].tab] = FALSE]
    BY <1>8 DEF SessionExpired
  <2>2. page' \in [PageCalls -> {IdlePage, PageOver} \cup TabCalls]
    BY <2>1, TabCallMoves
  <2>3. user' \in [Tabs -> BOOLEAN]
    BY <1>0, <2>1
  <2> QED
    BY <1>0, <2>1, <2>2, <2>3 DEF TabsInv
<1>9. ASSUME NEW p \in PageCalls, Unauthorized(p)  PROVE TabsInv'
  <2> PICK t : t = page[p].tab
    OBVIOUS
  <2>1. page[p] \in TabCalls /\ t \in Tabs
    BY <1>0, <1>9 DEF Unauthorized, IdlePage, PageOver, TabCalls
  <2>2. PICK k : k = [at |-> "refreshing", tab |-> t, with |-> NoCookies]
    OBVIOUS
  <2>3. k \in TabCalls
    BY <1>0, <2>1, <2>2 DEF TabCalls
  <2>4. page' = [page EXCEPT ![p] = k] /\ user' = user
    BY <1>9, <2>2 DEF Unauthorized
  <2>5. page' \in [PageCalls -> {IdlePage, PageOver} \cup TabCalls]
    BY <2>3, <2>4, TabCallMoves
  <2>6. CASE UNCHANGED <<refresh, crossed>>
    BY <2>4, <2>5, <2>6, TabsStay
  <2>7. CASE ~UNCHANGED <<refresh, crossed>>
    <3>1. PICK c \in AuthCalls :
            /\ refresh' = [refresh EXCEPT ![t] = [call |-> {c}, quiet |-> ~user[t]]]
            /\ crossed' = (crossed \/ Unanswered /= {})
      BY <1>9, <2>7 DEF Unauthorized, refreshAccessToken
    <3>2. crossed' \in BOOLEAN
      BY <3>1, Zenon
    <3>3. PICK r : r = [call |-> {c}, quiet |-> ~user[t]]
      OBVIOUS
    <3>4. r.quiet \in BOOLEAN
      BY <3>3, Zenon
    <3>5. \A o \in Tabs : refresh'[o] = r \/ refresh'[o] = refresh[o]
      BY <1>0, <3>1, <3>3
    <3>6. \A o \in Tabs : refresh'[o].quiet \in BOOLEAN
      BY <1>0, <3>4, <3>5
    <3> QED
      BY <1>0, <2>4, <2>5, <3>2, <3>6 DEF TabsInv
  <2> QED
    BY <2>6, <2>7
<1>10. ASSUME NEW t \in Tabs, NEW c \in AuthCalls, RefreshAnswered(t, c)  PROVE TabsInv'
  <2>1. crossed' = crossed /\ \A o \in Tabs : refresh'[o].quiet \in BOOLEAN
    BY <1>10, RefreshOver DEF RefreshAnswered
  <2>2. PICK k : k = [at |-> "repeated", tab |-> t, with |-> jar']
    OBVIOUS
  <2>3. k \in TabCalls
    BY <1>0, <2>2 DEF TabCalls
  <2>4. Resumed(t, k) \/ Resumed(t, PageOver)
    BY <1>10, <2>2 DEF RefreshAnswered
  <2>5. page' \in [PageCalls -> {IdlePage, PageOver} \cup TabCalls]
    BY <2>3, <2>4, TabResumes
  <2>6. user' = user \/ user' = [user EXCEPT ![t] = FALSE]
    BY <1>10 DEF RefreshAnswered
  <2>7. user' \in [Tabs -> BOOLEAN]
    BY <1>0, <2>6
  <2> QED
    BY <1>0, <2>1, <2>5, <2>7 DEF TabsInv
<1>11. ASSUME NEW t \in Tabs, NEW c \in AuthCalls, RefreshLost(t, c)  PROVE TabsInv'
  <2>1. crossed' = TRUE /\ \A o \in Tabs : refresh'[o].quiet \in BOOLEAN
    BY <1>11, RefreshOver DEF RefreshLost
  <2>2. page' \in [PageCalls -> {IdlePage, PageOver} \cup TabCalls]
    BY <1>11, TabResumes DEF RefreshLost
  <2>3. PICK b : b = (user[t] /\ ~refresh[t].quiet)
    OBVIOUS
  <2>4. b \in BOOLEAN
    BY <2>3, Zenon
  <2>5. user' = [user EXCEPT ![t] = b]
    BY <1>11, <2>3 DEF RefreshLost
  <2>6. user' \in [Tabs -> BOOLEAN]
    BY <1>0, <2>4, <2>5
  <2> QED
    BY <2>1, <2>2, <2>6 DEF TabsInv
<1>12. CASE UNCHANGED browserVars
  <2>1. UNCHANGED <<page, refresh, user, crossed>>
    BY <1>12 DEF browserVars, jarVars
  <2> QED
    BY <1>1, <2>1
<1> QED
  BY <1>2, <1>3, <1>4, <1>5, <1>6, <1>7, <1>8, <1>9, <1>10, <1>11, <1>12 DEF BrowserNext

-----------------------------------------------------------------------------
(* Credentials: keys of the identity provider, and tenants. *)

AsWhom == IdTokens \cup {NoCredential}
            \cup {Credential("service", "none", t, FALSE) : t \in Tenants}

Arrival ==
  [at : {"new", "fetching", "receiving", "acting", "anonymous", "refused", "unanswered"},
   with : AsWhom, asked : Tenants \cup {Nobody}, since : Nat, keys : SUBSET Kids,
   tenant : Tenants \cup {Nobody}]

\* Keys that were valid at some time from since on: a key that is retired
\* afterwards is retired later than that.
ValidSince(keys, since) ==
  \A k \in keys : k \in Kids /\ retired[k] # 0 /\ retired[k] >= since

KeysInv ==
  /\ clock \in 0 .. MaxClock
  /\ retired \in [Kids -> 0 .. NotRetired]
  /\ arrival \in [Arrivals -> Arrival]
  /\ jwksCache.fetchedAt \in 0 .. clock
  /\ ValidSince(jwksCache.keys, jwksCache.fetchedAt)
  /\ \A r \in Arrivals : /\ arrival[r].since <= clock
                         /\ ValidSince(arrival[r].keys, arrival[r].since)
  /\ \A a \in accepted : a.kid \in Kids /\ retired[a.kid] \notin {0, NotRetired} /\ a.since <= a.at
  /\ RetiredKeysExpire
  /\ TenantsAreApart

LEMMA Clocks == /\ MaxClock \in Nat /\ CacheTtl \in Nat /\ NotRetired \in Nat
                /\ NotRetired = MaxClock + 1
BY CredentialsAssumption DEF NotRetired

\* A request's record, and those of the others.
ArrivalIs(r, a) == a \in Arrival /\ arrival' = [arrival EXCEPT ![r] = a]

LEMMA Attached ==
  ASSUME NEW r \in Arrivals, NEW at, NEW with \in AsWhom, NEW tenant,
         \/ at \in {"refused", "anonymous", "unanswered"} /\ tenant = Nobody
         \/ at = "acting" /\ tenant \in Tenants,
         ArrivalGoes(r, at, with, tenant)
  PROVE  \E a : /\ ArrivalIs(r, a) /\ a.since = 0 /\ a.keys = {} /\ a.at = at
                /\ a.with = with /\ a.tenant = tenant
<1> DEFINE a == [at |-> at, with |-> with, asked |-> Nobody, since |-> 0, keys |-> {},
                 tenant |-> tenant]
<1>1. a \in Arrival
  BY DEF Arrival
<1>2. arrival' = [arrival EXCEPT ![r] = a]
  BY DEF ArrivalGoes
<1>3. a.since = 0 /\ a.keys = {} /\ a.at = at /\ a.with = with /\ a.tenant = tenant
  OBVIOUS
<1> HIDE DEF a
<1> QED
  BY <1>1, <1>2, <1>3 DEF ArrivalIs

\* Of a request that comes, whatever it may be.
LEMMA WhomTypes ==
  \A w \in AsWhom : w.tenant \in Tenants \cup {Nobody}
BY CredentialsAssumption DEF AsWhom, NoCredential, Credential

\* Whether it goes on or is refused, a request acts for its own tenant or with
\* the permission to act for another.
LEMMA AttachIs ==
  ASSUME NEW r \in Arrivals, NEW with \in AsWhom, NEW asked \in Tenants \cup {Nobody},
         Attaches(r, with, asked)
  PROVE  \E a : /\ ArrivalIs(r, a) /\ a.since = 0 /\ a.keys = {}
                /\ a.at = "acting" => a.with.cross \/ a.tenant = a.with.tenant
<1> DEFINE tenant == resolveTenantContext(with.tenant, asked, with.cross)
<1>1. tenant \in Tenants \cup {Nobody} /\ (with.cross \/ tenant \in {with.tenant, Nobody})
  BY WhomTypes DEF resolveTenantContext
<1>2. IF tenant = Nobody THEN ArrivalEnds(r, "refused") ELSE ArrivalGoes(r, "acting", with, tenant)
  BY DEF Attaches
<1> HIDE DEF tenant
<1>3. CASE tenant = Nobody
  <2>1. ArrivalGoes(r, "refused", NoCredential, Nobody) /\ NoCredential \in AsWhom
    BY <1>2, <1>3 DEF ArrivalEnds, AsWhom
  <2> QED
    BY <2>1, Attached
<1>4. CASE tenant # Nobody
  <2>1. ArrivalGoes(r, "acting", with, tenant) /\ tenant \in Tenants
    BY <1>1, <1>2, <1>4
  <2>2. \E a : /\ ArrivalIs(r, a) /\ a.since = 0 /\ a.keys = {} /\ a.at = "acting"
              /\ a.with = with /\ a.tenant = tenant
    BY <2>1, Attached, SMTT(60)
  <2>3. PICK a : /\ ArrivalIs(r, a) /\ a.since = 0 /\ a.keys = {} /\ a.with = with
                 /\ a.tenant = tenant
    BY <2>2
  <2> QED
    BY <1>1, <1>4, <2>3
<1> QED
  BY <1>3, <1>4

LEMMA EndIs ==
  ASSUME NEW r \in Arrivals, NEW at \in {"refused", "anonymous", "unanswered"}, ArrivalEnds(r, at)
  PROVE  \E a : ArrivalIs(r, a) /\ a.since = 0 /\ a.keys = {} /\ a.at # "acting"
<1> DEFINE a == [at |-> at, with |-> NoCredential, asked |-> Nobody, since |-> 0, keys |-> {},
                 tenant |-> Nobody]
<1>1. a \in Arrival /\ a.since = 0 /\ a.keys = {} /\ a.at = at
  BY DEF Arrival, AsWhom
<1>2. arrival' = [arrival EXCEPT ![r] = a]
  BY DEF ArrivalEnds, ArrivalGoes
<1> HIDE DEF a
<1> QED
  BY <1>1, <1>2 DEF ArrivalIs

\* The step of a request leaves what the others know.
LEMMA ArrivalKeeps ==
  ASSUME KeysInv, NEW r \in Arrivals, NEW a, ArrivalIs(r, a), UNCHANGED <<clock, retired>>,
         a.since <= clock, ValidSince(a.keys, a.since),
         a.at = "acting" => a.with.cross \/ a.tenant = a.with.tenant,
         jwksCache'.fetchedAt \in 0 .. clock, ValidSince(jwksCache'.keys, jwksCache'.fetchedAt),
         \A b \in accepted' \ accepted :
           /\ b.kid \in Kids /\ retired[b.kid] \notin {0, NotRetired} /\ b.since <= b.at
           /\ retired[b.kid] >= b.since \/ b.at < retired[b.kid] + CacheTtl
  PROVE  KeysInv'
<1>1. /\ arrival' \in [Arrivals -> Arrival] /\ arrival'[r] = a
      /\ \A q \in Arrivals : q # r => arrival'[q] = arrival[q]
  BY DEF ArrivalIs, KeysInv
<1>2. \A q \in Arrivals : arrival'[q].since <= clock /\ ValidSince(arrival'[q].keys, arrival'[q].since)
  BY <1>1 DEF KeysInv
<1>3. TenantsAreApart'
  BY <1>1 DEF KeysInv, TenantsAreApart
<1>4. RetiredKeysExpire'
  BY DEF KeysInv, RetiredKeysExpire
<1>5. \A b \in accepted' : b.kid \in Kids /\ retired[b.kid] \notin {0, NotRetired} /\ b.since <= b.at
  BY DEF KeysInv
<1>6. /\ ValidSince(jwksCache.keys, jwksCache.fetchedAt)'
      /\ \A q \in Arrivals : ValidSince(arrival[q].keys, arrival[q].since)'
  BY <1>2 DEF ValidSince
<1> QED
  BY <1>1, <1>2, <1>3, <1>4, <1>5, <1>6 DEF KeysInv

LEMMA KeysBegin == KeysInit => KeysInv
<1> SUFFICES ASSUME KeysInit  PROVE KeysInv
  OBVIOUS
<1> DEFINE a == [at |-> "new", with |-> NoCredential, asked |-> Nobody,
                 since |-> 0, keys |-> {}, tenant |-> Nobody]
<1>1. a \in Arrival /\ a.at = "new" /\ a.since = 0 /\ a.keys = {}
  BY DEF Arrival, AsWhom
<1>2. arrival = [r \in Arrivals |-> a]
  BY DEF KeysInit
<1> HIDE DEF a
<1>3. /\ clock \in 0 .. MaxClock /\ accepted = {}
      /\ retired \in [Kids -> 0 .. NotRetired]
      /\ jwksCache.fetchedAt \in 0 .. clock /\ jwksCache.keys = {}
  BY Clocks DEF KeysInit
<1>4. \A r \in Arrivals : arrival[r] = a
  BY <1>2
<1> QED
  BY <1>1, <1>2, <1>3, <1>4, Clocks DEF KeysInv, ValidSince, RetiredKeysExpire, TenantsAreApart

LEMMA VerifiedKeeps ==
  ASSUME KeysInv, NEW r \in Arrivals, NEW with \in AsWhom, NEW asked \in Tenants \cup {Nobody},
         NEW since, NEW keys, Verified(r, with, asked, since, keys),
         UNCHANGED <<clock, retired>>, since <= clock, since \in Nat,
         \A k \in keys : /\ k \in Kids /\ retired[k] # 0
                         /\ retired[k] >= since \/ clock < retired[k] + CacheTtl,
         jwksCache'.fetchedAt \in 0 .. clock, ValidSince(jwksCache'.keys, jwksCache'.fetchedAt)
  PROVE  KeysInv'
<1> DEFINE b == [kid |-> with.kid, since |-> since, at |-> clock]
<1>1. PICK a : /\ ArrivalIs(r, a) /\ a.since = 0 /\ a.keys = {}
               /\ a.at = "acting" => a.with.cross \/ a.tenant = a.with.tenant
  BY AttachIs, EndIs DEF Verified
<1>2. b.kid = with.kid /\ b.since = since /\ b.at = clock
  OBVIOUS
<1>3. \/ accepted' = accepted
      \/ /\ with.kid \in keys /\ retired[with.kid] # NotRetired
         /\ accepted' = accepted \cup {b}
  BY DEF Verified
<1> HIDE DEF b
<1>4. \A q \in accepted' \ accepted :
        /\ q.kid \in Kids /\ retired[q.kid] \notin {0, NotRetired} /\ q.since <= q.at
        /\ retired[q.kid] >= q.since \/ q.at < retired[q.kid] + CacheTtl
  BY <1>2, <1>3
<1>5. a.since <= clock /\ ValidSince(a.keys, a.since)
  BY <1>1 DEF KeysInv, ValidSince
<1> QED
  BY <1>1, <1>4, <1>5, ArrivalKeeps

\* The keys of a request and of the cache are older than the clock.
LEMMA KeysAge ==
  ASSUME KeysInv, NEW t \in Nat, NEW keys, ValidSince(keys, t), t <= clock,
         \/ UNCHANGED retired
         \/ \E old, new \in Kids : Rotates(old, new)
  PROVE  ValidSince(keys, t)'
<1>1. CASE UNCHANGED retired
  BY <1>1 DEF ValidSince
<1>2. CASE \E old, new \in Kids : Rotates(old, new)
  <2>1. PICK old \in Kids, new \in Kids : Rotates(old, new)
    BY <1>2
  <2>2. /\ clock > 0 /\ retired[new] = 0
        /\ retired' = [retired EXCEPT ![old] = clock, ![new] = NotRetired]
    BY <2>1 DEF Rotates
  <2>3. \A k \in Kids : k # new => retired'[k] = retired[k] \/ retired'[k] = clock
    BY <2>2 DEF KeysInv
  <2> QED
    BY <2>2, <2>3, Clocks DEF ValidSince, KeysInv
<1> QED
  BY <1>1, <1>2

LEMMA RotationKeepsKeys ==
  ASSUME KeysInv, NEW old \in Kids, NEW new \in Kids, Rotates(old, new)
  PROVE  KeysInv'
<1>1. /\ clock > 0 /\ retired[new] = 0 /\ retired[old] = NotRetired
      /\ retired' = [retired EXCEPT ![old] = clock, ![new] = NotRetired]
      /\ UNCHANGED <<clock, jwksCache, arrival, accepted>>
  BY DEF Rotates
<1>2. retired' \in [Kids -> 0 .. NotRetired]
  BY <1>1, Clocks DEF KeysInv
<1>3. \A k \in Kids : k \notin {old, new} => retired'[k] = retired[k]
  BY <1>1 DEF KeysInv
<1>4. \A a \in accepted : a.kid \in Kids \ {old, new}
  BY <1>1 DEF KeysInv
<1>5. ValidSince(jwksCache.keys, jwksCache.fetchedAt)'
  BY <1>1, KeysAge DEF KeysInv
<1>6. \A r \in Arrivals : ValidSince(arrival[r].keys, arrival[r].since)'
  <2> SUFFICES ASSUME NEW r \in Arrivals  PROVE ValidSince(arrival[r].keys, arrival[r].since)'
    OBVIOUS
  <2>1. arrival[r].since \in Nat
    BY DEF KeysInv, Arrival
  <2> QED
    BY <1>1, <2>1, KeysAge DEF KeysInv
<1> QED
  BY <1>1, <1>2, <1>3, <1>4, <1>5, <1>6 DEF KeysInv, RetiredKeysExpire, TenantsAreApart

LEMMA KeysSteps ==
  ASSUME KeysInv, NEW r \in Arrivals,
         \/ Anonymous(r) \/ LocalSession(r)
         \/ \E t \in Tenants : ServiceActs(r, t)
         \/ \E w \in IdTokens : \E t \in (Tenants \ {w.tenant}) \cup {Nobody} :
              verifyExternalJwt(r, w, t)
         \/ ProviderSendsKeys(r) \/ KeysArrive(r) \/ FetchFails(r)
  PROVE  KeysInv'
<1>0. clock \in Nat /\ arrival[r] \in Arrival
  BY Clocks DEF KeysInv
<1>1. CASE Anonymous(r) \/ LocalSession(r) \/ FetchFails(r)
  <2>1. /\ UNCHANGED <<clock, retired, jwksCache, accepted>>
        /\ \E at \in {"refused", "anonymous", "unanswered"} : ArrivalEnds(r, at)
    BY <1>1 DEF Anonymous, LocalSession, FetchFails
  <2>2. PICK a : ArrivalIs(r, a) /\ a.since = 0 /\ a.keys = {} /\ a.at # "acting"
    BY <2>1, EndIs
  <2> QED
    BY <1>0, <2>1, <2>2, ArrivalKeeps DEF ValidSince, KeysInv
<1>2. CASE \E t \in Tenants : ServiceActs(r, t)
  <2>1. PICK t \in Tenants : ServiceActs(r, t)
    BY <1>2
  <2>2. /\ UNCHANGED <<clock, retired, jwksCache, accepted>>
        /\ Attaches(r, Credential("service", "none", t, FALSE), t)
        /\ Credential("service", "none", t, FALSE) \in AsWhom
    BY <2>1 DEF ServiceActs, AsWhom
  <2>3. PICK a : /\ ArrivalIs(r, a) /\ a.since = 0 /\ a.keys = {}
                 /\ a.at = "acting" => a.with.cross \/ a.tenant = a.with.tenant
    BY <2>2, AttachIs
  <2> QED
    BY <1>0, <2>2, <2>3, ArrivalKeeps DEF ValidSince, KeysInv
<1>3. CASE \E w \in IdTokens : \E t \in (Tenants \ {w.tenant}) \cup {Nobody} :
             verifyExternalJwt(r, w, t)
  <2>1. PICK w \in AsWhom, t \in Tenants \cup {Nobody} : verifyExternalJwt(r, w, t)
    BY <1>3 DEF AsWhom
  <2>2. UNCHANGED <<clock, retired, jwksCache>>
    BY <2>1 DEF verifyExternalJwt
  <2>3. CASE CacheIsFresh /\ Verified(r, w, t, clock, jwksCache.keys)
    <3>1. \A k \in jwksCache.keys :
            /\ k \in Kids /\ retired[k] # 0
            /\ retired[k] >= clock \/ clock < retired[k] + CacheTtl
      BY <1>0, <2>3, Clocks DEF CacheIsFresh, KeysInv, ValidSince
    <3>2. jwksCache'.fetchedAt \in 0 .. clock /\ ValidSince(jwksCache'.keys, jwksCache'.fetchedAt)
      BY <2>2 DEF KeysInv
    <3>3. UNCHANGED <<clock, retired>> /\ clock <= clock
      BY <1>0, <2>2
    <3> DEFINE keys == jwksCache.keys
    <3>4. Verified(r, w, t, clock, keys)
      BY <2>3
    <3>5. \A k \in keys : /\ k \in Kids /\ retired[k] # 0
                          /\ retired[k] >= clock \/ clock < retired[k] + CacheTtl
      BY <3>1
    <3> HIDE DEF keys
    <3> QED
      BY <1>0, <3>2, <3>3, <3>4, <3>5, VerifiedKeeps
  <2>4. CASE /\ arrival' = [arrival EXCEPT ![r] =
                  [at |-> "fetching", with |-> w, asked |-> t, since |-> clock,
                   keys |-> {}, tenant |-> Nobody]]
             /\ UNCHANGED accepted
    <3> DEFINE a == [at |-> "fetching", with |-> w, asked |-> t, since |-> clock,
                     keys |-> {}, tenant |-> Nobody]
    <3>1. a \in Arrival /\ a.since = clock /\ a.keys = {} /\ a.at = "fetching"
      BY <1>0 DEF Arrival
    <3> HIDE DEF a
    <3>2. ArrivalIs(r, a)
      BY <2>4, <3>1 DEF ArrivalIs, a
    <3>3. jwksCache'.fetchedAt \in 0 .. clock /\ ValidSince(jwksCache'.keys, jwksCache'.fetchedAt)
      BY <2>2 DEF KeysInv
    <3>4. a.since <= clock /\ ValidSince(a.keys, a.since) /\ a.at # "acting"
      BY <1>0, <3>1 DEF ValidSince
    <3> QED
      BY <2>2, <2>4, <3>2, <3>3, <3>4, ArrivalKeeps
  <2> QED
    BY <2>1, <2>3, <2>4 DEF verifyExternalJwt
<1>4. CASE ProviderSendsKeys(r)
  <2> DEFINE i == [arrival[r] EXCEPT !.at = "receiving"]
             a == [i EXCEPT !.keys = Valid]
  <2>1. i \in Arrival /\ i.since = arrival[r].since /\ i.at = "receiving"
    BY <1>0 DEF Arrival
  <2>2. Valid \in SUBSET Kids
    BY DEF Valid
  <2> HIDE DEF i
  <2>3. a \in Arrival /\ a.since = arrival[r].since /\ a.at = "receiving" /\ a.keys = Valid
    BY <2>1, <2>2 DEF Arrival
  <2>4. arrival' = [arrival EXCEPT ![r] = a] /\ UNCHANGED <<clock, retired, jwksCache, accepted>>
    BY <1>4 DEF ProviderSendsKeys, i, KeysInv
  <2> HIDE DEF a
  <2>5. a.since <= clock /\ ValidSince(a.keys, a.since) /\ a.at # "acting"
    <3>1. arrival[r].since \in Nat /\ arrival[r].since <= clock /\ clock <= MaxClock
      BY <1>0 DEF KeysInv, Arrival
    <3>2. NotRetired >= arrival[r].since /\ NotRetired # 0
      BY <1>0, <3>1, Clocks
    <3>3. \A k \in Valid : k \in Kids /\ retired[k] = NotRetired
      BY DEF Valid
    <3> QED
      BY <2>3, <3>1, <3>2, <3>3 DEF ValidSince
  <2>6. ArrivalIs(r, a)
    BY <2>3, <2>4 DEF ArrivalIs
  <2>7. jwksCache'.fetchedAt \in 0 .. clock /\ ValidSince(jwksCache'.keys, jwksCache'.fetchedAt)
    BY <2>4 DEF KeysInv
  <2> QED
    BY <2>4, <2>5, <2>6, <2>7, ArrivalKeeps
<1>5. CASE KeysArrive(r)
  <2> DEFINE since == arrival[r].since
             keys == arrival[r].keys
  <2>1. /\ jwksCache'.fetchedAt = since /\ jwksCache'.keys = keys
        /\ Verified(r, arrival[r].with, arrival[r].asked, since, keys)
        /\ UNCHANGED <<clock, retired>>
    BY <1>5 DEF KeysArrive, fetchedAt
  <2>2. since \in Nat /\ since <= clock /\ ValidSince(keys, since)
        /\ arrival[r].with \in AsWhom /\ arrival[r].asked \in Tenants \cup {Nobody}
    BY <1>0 DEF KeysInv, Arrival
  <2>3. since \in 0 .. clock
    BY <1>0, <2>2
  <2>4. \A k \in keys : /\ k \in Kids /\ retired[k] # 0
                        /\ retired[k] >= since \/ clock < retired[k] + CacheTtl
    BY <2>2 DEF ValidSince
  <2> HIDE DEF since, keys
  <2> QED
    BY <2>1, <2>2, <2>3, <2>4, VerifiedKeeps
<1> QED
  BY <1>1, <1>2, <1>3, <1>4, <1>5

LEMMA KeysStep == KeysInv /\ [KeysNext]_keyVars => KeysInv'
<1> SUFFICES ASSUME KeysInv, [KeysNext]_keyVars  PROVE KeysInv'
  OBVIOUS
<1>1. CASE UNCHANGED keyVars
  BY <1>1 DEF keyVars, KeysInv, ValidSince, RetiredKeysExpire, TenantsAreApart
<1>2. CASE Tick
  <2>1. clock' = clock + 1 /\ clock < MaxClock /\ UNCHANGED <<retired, jwksCache, arrival, accepted>>
    BY <1>2 DEF Tick
  <2>2. \A r \in Arrivals : arrival[r].since \in Nat
    BY DEF KeysInv, Arrival
  <2> QED
    BY <2>1, <2>2, Clocks DEF KeysInv, ValidSince, RetiredKeysExpire, TenantsAreApart
<1> QED
  BY <1>1, <1>2, RotationKeepsKeys, KeysSteps DEF KeysNext

-----------------------------------------------------------------------------
(* Credentials: the refresh tokens of the providers of models. *)

Snapshots == [kind : {"none", "apiKey", "oauth"}, handler : BOOLEAN, token : Issued, old : BOOLEAN]

\* While nobody waits for a refresh, the token at hand was shown only in vain, and
\* tokens that are not issued were not shown.
RefreshInv ==
  /\ credential \in Snapshots
  /\ refreshShown \in [Issued -> [vain : Nat, all : Nat]]
  /\ credential.old \/ refreshers # {} => credential.token <= MaxRefreshes
  /\ \A n \in Issued : n > credential.token => refreshShown[n].all = 0
  /\ refreshers = {} =>
       refreshShown[credential.token].all <= refreshShown[credential.token].vain
  /\ RefreshIsShared

LEMMA RefreshBegins == ProviderInit => RefreshInv
<1> SUFFICES ASSUME ProviderInit  PROVE RefreshInv
  OBVIOUS
<1>1. PICK kind \in {"apiKey", "oauth"}, handler \in BOOLEAN :
        credential = [kind |-> kind, handler |-> handler, token |-> 1, old |-> FALSE]
  BY DEF ProviderInit
<1>2. 1 \in Issued
  BY CredentialsAssumption DEF Issued
<1>3. /\ refreshShown \in [Issued -> [vain : Nat, all : Nat]] /\ refreshers = {}
      /\ \A n \in Issued : refreshShown[n].vain = 0 /\ refreshShown[n].all = 0
  BY DEF ProviderInit
<1> QED
  BY <1>1, <1>2, <1>3 DEF RefreshInv, RefreshIsShared, Snapshots

\* Whoever finds a refresh in flight joins it.
LEMMA RefreshJoined ==
  ASSUME RefreshInv, NEW c, forceRefresh(c), UNCHANGED credential,
         credential.token <= MaxRefreshes
  PROVE  RefreshInv'
<1>1. CASE refreshers # {}
  BY <1>1 DEF forceRefresh, RefreshInv, RefreshIsShared
<1>2. CASE refreshers = {}
  <2> DEFINE t == credential.token
  <2>1. t \in Issued /\ refreshShown[t] \in [vain : Nat, all : Nat]
        /\ refreshShown[t].all <= refreshShown[t].vain
    BY <1>2 DEF RefreshInv, Snapshots
  <2>2. refreshShown' = [refreshShown EXCEPT ![t].all = @ + 1] /\ refreshers' # {}
    BY <1>2 DEF forceRefresh
  <2>3. refreshShown' \in [Issued -> [vain : Nat, all : Nat]]
    BY <2>1, <2>2 DEF RefreshInv
  <2>4. /\ refreshShown'[t].all = refreshShown[t].all + 1
        /\ refreshShown'[t].vain = refreshShown[t].vain
        /\ \A n \in Issued : n # t => refreshShown'[n] = refreshShown[n]
    BY <2>1, <2>2 DEF RefreshInv
  <2>5. RefreshIsShared'
    BY <2>1, <2>4 DEF RefreshInv, RefreshIsShared
  <2>6. \A n \in Issued : n > t => refreshShown'[n].all = 0
    BY <2>1, <2>4 DEF RefreshInv, Issued
  <2> QED
    BY <2>2, <2>3, <2>5, <2>6 DEF RefreshInv
<1> QED
  BY <1>1, <1>2

\* What kind of snapshot is held does not matter to its refresh token.
LEMMA SnapshotChanges ==
  ASSUME RefreshInv, NEW kind \in {"none", "apiKey", "oauth"}, NEW old \in BOOLEAN,
         old => credential.old,
         credential' = [credential EXCEPT !.kind = kind, !.old = old],
         UNCHANGED <<refreshShown, refreshers>>
  PROVE  RefreshInv'
<1>1. credential' \in Snapshots /\ credential'.token = credential.token /\ credential'.old = old
  BY DEF RefreshInv, Snapshots
<1> QED
  BY <1>1 DEF RefreshInv, RefreshIsShared

\* A step of a call: it joins a refresh, or the snapshot is deleted or loaded.
LEMMA OutwardStepKinds ==
  ASSUME NEW c \in ProviderCalls, OutwardStep(c), RefreshInv
  PROVE  \/ UNCHANGED <<credential, refreshShown, refreshers>>
         \/ forceRefresh(c) /\ UNCHANGED credential /\ credential.token <= MaxRefreshes
         \/ /\ UNCHANGED <<refreshShown, refreshers>>
            /\ \/ credential' = [credential EXCEPT !.kind = "none", !.old = FALSE]
               \/ credential' = [credential EXCEPT !.kind = "apiKey"]
<1>1. CASE auth(c)
  BY <1>1 DEF auth, Refreshes, RefreshInv
<1>2. CASE ProviderAnswers(c)
  BY <1>2 DEF ProviderAnswers, Refreshes, RefreshInv
<1> QED
  BY <1>1, <1>2 DEF OutwardStep

LEMMA RefreshStep == RefreshInv /\ [ProviderNext]_providerVars => RefreshInv'
<1> SUFFICES ASSUME RefreshInv, [ProviderNext]_providerVars  PROVE RefreshInv'
  OBVIOUS
<1> DEFINE t == credential.token
<1>0. t \in Issued /\ t \in Nat /\ refreshShown[t] \in [vain : Nat, all : Nat]
  BY DEF RefreshInv, Issued, Snapshots
<1>1. CASE UNCHANGED <<credential, refreshShown, refreshers>>
  BY <1>1 DEF RefreshInv, RefreshIsShared
<1>2. CASE TokenAges
  <2>1. /\ credential' = [credential EXCEPT !.old = TRUE] /\ t <= MaxRefreshes
        /\ UNCHANGED <<refreshShown, refreshers>>
    BY <1>2 DEF TokenAges
  <2>2. credential' \in Snapshots /\ credential'.token = t
    BY <2>1 DEF RefreshInv, Snapshots
  <2> QED
    BY <2>1, <2>2 DEF RefreshInv, RefreshIsShared
<1>3. ASSUME NEW c \in ProviderCalls, OutwardStep(c)  PROVE RefreshInv'
  <2>1. CASE credential' = [credential EXCEPT !.kind = "none", !.old = FALSE]
             /\ UNCHANGED <<refreshShown, refreshers>>
    BY <2>1, SnapshotChanges
  <2>2. CASE credential' = [credential EXCEPT !.kind = "apiKey"]
             /\ UNCHANGED <<refreshShown, refreshers>>
    <3>1. credential.old \in BOOLEAN
          /\ credential' = [credential EXCEPT !.kind = "apiKey", !.old = credential.old]
      BY <2>2 DEF RefreshInv, Snapshots
    <3> QED
      BY <2>2, <3>1, SnapshotChanges
  <2> QED
    BY <1>1, <1>3, <2>1, <2>2, OutwardStepKinds, RefreshJoined
<1>4. CASE doRefresh(TRUE)
  <2> DEFINE i == [credential EXCEPT !.token = t + 1]
  <2>1. refreshers # {} /\ t <= MaxRefreshes /\ UNCHANGED refreshShown
    BY <1>4 DEF doRefresh, RefreshInv
  <2>2. t + 1 \in Issued
    BY <1>0, <2>1, CredentialsAssumption DEF Issued
  <2>3. i \in Snapshots /\ i.token = t + 1
    BY <2>2 DEF RefreshInv, Snapshots
  <2>4. credential' = [i EXCEPT !.old = FALSE] /\ refreshers' = {}
    BY <1>4 DEF doRefresh
  <2> HIDE DEF i
  <2>5. /\ credential' \in Snapshots
        /\ credential'.token = t + 1 /\ ~credential'.old
    BY <2>3, <2>4 DEF Snapshots
  <2>6. refreshShown[t + 1].all = 0 /\ refreshShown[t + 1].vain \in Nat
    BY <1>0, <2>2 DEF RefreshInv
  <2>7. \A n \in Issued : n > t + 1 => n > t
    BY <1>0 DEF Issued
  <2> QED
    BY <2>1, <2>4, <2>5, <2>6, <2>7 DEF RefreshInv, RefreshIsShared
<1>5. CASE doRefresh(FALSE)
  <2>1. /\ refreshShown' = [refreshShown EXCEPT ![t].vain = @ + 1] /\ refreshers' = {}
        /\ UNCHANGED credential /\ t <= MaxRefreshes
    BY <1>5 DEF doRefresh, RefreshInv
  <2>2. refreshShown' \in [Issued -> [vain : Nat, all : Nat]]
    BY <1>0, <2>1 DEF RefreshInv
  <2>3. /\ refreshShown'[t].vain = refreshShown[t].vain + 1
        /\ refreshShown'[t].all = refreshShown[t].all
        /\ \A n \in Issued : n # t => refreshShown'[n] = refreshShown[n]
    BY <1>0, <2>1 DEF RefreshInv
  <2>4. refreshShown[t].all <= refreshShown[t].vain + 1
    BY <1>0 DEF RefreshInv, RefreshIsShared
  <2>5. refreshShown'[t].all <= refreshShown'[t].vain
    BY <2>3, <2>4
  <2>6. RefreshIsShared'
    BY <1>0, <2>3, <2>4 DEF RefreshInv, RefreshIsShared
  <2>7. \A n \in Issued : n > t => refreshShown'[n].all = 0
    BY <1>0, <2>3 DEF RefreshInv, Issued
  <2> QED
    BY <2>1, <2>2, <2>5, <2>6, <2>7 DEF RefreshInv
<1> QED
  BY <1>1, <1>2, <1>3, <1>4, <1>5 DEF ProviderNext, providerVars

-----------------------------------------------------------------------------
(* HttpPipeline: the tokens that the windows of a browser keep. *)

Requesting == [at : {"idle", "waiting", "headers", "gates"}, route : HttpRoutes \cup {"none"},
               header : Nat, cookie : Nat, user : {"first", "second", "none"},
               again : BOOLEAN, knew : BOOLEAN]

\* A request carries the token of its window, and beyond the browser the cookie
\* of that token, unless another was issued since or its hour has passed.
Carries(w) ==
  /\ http[w].at # "idle" => http[w].route \in HttpRoutes
  /\ http[w].at = "waiting" => NeedsToken(http[w].route) /\ window[w] = NoCsrf
  /\ http[w].at \in {"headers", "gates"} /\ NeedsToken(http[w].route) =>
       http[w].header = window[w] /\ window[w] # NoCsrf
  /\ http[w].at = "gates" /\ http[w].header = Len(csrf) /\ http[w].header # NoCsrf
     /\ csrf[Len(csrf)].fresh =>
       http[w].cookie = http[w].header
  /\ http[w].header <= Len(csrf) /\ ~http[w].knew

CsrfInv ==
  /\ csrf \in Seq([user : {"first", "second"}, fresh : BOOLEAN])
  /\ cookieUser \in {"first", "second"}
  /\ xsrfCookie \in 0 .. Len(csrf)
  /\ Len(csrf) # 0 /\ csrf[Len(csrf)].fresh => xsrfCookie = Len(csrf)
  /\ window \in [Windows -> 0 .. Len(csrf)]
  /\ \A w, v \in Windows : window[w] = window[v] /\ w # v => window[w] = NoCsrf
  /\ http \in [Windows -> Requesting]
  /\ \A w \in Windows : Carries(w)
  /\ spoiled \subseteq 1 .. Len(csrf)
  /\ \A w \in Windows : window[w] \notin spoiled
  /\ ~vain

LEMMA NothingRequested == NoHttp \in Requesting
BY DEF NoHttp, NoCsrf, Requesting

LEMMA CsrfBegins == HttpInit => CsrfInv
<1> SUFFICES ASSUME HttpInit  PROVE CsrfInv
  OBVIOUS
<1>1. csrf = <<>> /\ Len(csrf) = 0 /\ xsrfCookie = 0 /\ cookieUser = "first" /\ spoiled = {} /\ ~vain
  BY DEF HttpInit, NoCsrf
<1>2. csrf \in Seq([user : {"first", "second"}, fresh : BOOLEAN])
  BY <1>1
<1>3. window \in [Windows -> {0}] /\ http = [w \in Windows |-> NoHttp]
  BY DEF HttpInit, NoCsrf
<1>4. \A w \in Windows : http[w].at = "idle" /\ http[w].header = 0 /\ ~http[w].knew
  BY <1>3 DEF NoHttp, NoCsrf
<1>5. \A w \in Windows : Carries(w)
  BY <1>1, <1>4 DEF Carries
<1> QED
  BY <1>1, <1>2, <1>3, <1>5, NothingRequested DEF CsrfInv, NoCsrf

\* The record of a request, and those of the others.
RequestIs(w, h) == h \in Requesting /\ http' = [http EXCEPT ![w] = h]

LEMMA RouteSet ==
  ASSUME NEW at \in {"waiting", "headers"}, NEW route \in HttpRoutes
  PROVE  LET h == [NoHttp EXCEPT !.at = at, !.route = route] IN
           h \in Requesting /\ h.at = at /\ h.route = route /\ h.header = 0 /\ ~h.knew
<1> DEFINE i == [NoHttp EXCEPT !.at = at]
<1>1. i \in Requesting /\ i.at = at /\ i.header = 0 /\ ~i.knew
  BY NothingRequested DEF Requesting, NoHttp, NoCsrf
<1> HIDE DEF i
<1> DEFINE h == [i EXCEPT !.route = route]
<1>2. h \in Requesting /\ h.at = at /\ h.route = route /\ h.header = 0 /\ ~h.knew
  BY <1>1 DEF Requesting
<1> QED
  BY <1>2 DEF i

\* What post makes of a window's request.
LEMMA HeadersAre ==
  ASSUME CsrfInv, NEW w \in Windows, NEW route \in HttpRoutes, NEW again \in BOOLEAN,
         RequestHeaders(w, route, again)
  PROVE  \E h : /\ RequestIs(w, h) /\ h.route = route /\ h.at \in {"waiting", "headers"}
                /\ h.at = "waiting" => NeedsToken(route) /\ window[w] = NoCsrf
                /\ h.at = "headers" /\ NeedsToken(route) => h.header = window[w] /\ window[w] # NoCsrf
                /\ h.header <= Len(csrf) /\ ~h.knew
<1>0. window[w] \in 0 .. Len(csrf) /\ window[w] \notin spoiled /\ Len(csrf) \in Nat
  BY DEF CsrfInv
<1>1. CASE ~NeedsToken(route)
  <2> DEFINE i == [NoHttp EXCEPT !.at = "headers", !.route = route]
             h == [i EXCEPT !.again = again]
  <2>2. http' = [http EXCEPT ![w] = h]
    BY <1>1 DEF RequestHeaders
  <2>3. i \in Requesting /\ i.at = "headers" /\ i.route = route /\ i.header = 0 /\ ~i.knew
    BY RouteSet
  <2> HIDE DEF i
  <2>1. h \in Requesting /\ h.at = "headers" /\ h.route = route /\ h.header = 0 /\ ~h.knew
    BY <2>3 DEF Requesting
  <2> HIDE DEF h
  <2>9. /\ RequestIs(w, h) /\ h.route = route /\ h.at \in {"waiting", "headers"}
        /\ h.at = "waiting" => NeedsToken(route) /\ window[w] = NoCsrf
        /\ h.at = "headers" /\ NeedsToken(route) => h.header = window[w] /\ window[w] # NoCsrf
        /\ h.header <= Len(csrf) /\ ~h.knew
    BY <1>0, <1>1, <2>1, <2>2 DEF RequestIs
  <2> QED
    BY <2>9
<1>2. CASE NeedsToken(route)
  <2> DEFINE at == IF window[w] = NoCsrf THEN "waiting" ELSE "headers"
             o == [NoHttp EXCEPT !.at = at, !.route = route]
             i == [o EXCEPT !.again = again]
             j == [i EXCEPT !.header = window[w]]
             h == [j EXCEPT !.knew = window[w] \in spoiled]
  <2>1. http' = [http EXCEPT ![w] = h]
    BY <1>2 DEF RequestHeaders
  <2>2. at \in {"waiting", "headers"} /\ (at = "waiting" <=> window[w] = NoCsrf)
    OBVIOUS
  <2> HIDE DEF at
  <2>7. o \in Requesting /\ o.at = at /\ o.route = route
    BY <2>2, RouteSet
  <2> HIDE DEF o
  <2>3. i \in Requesting /\ i.at = at /\ i.route = route
    BY <2>7 DEF Requesting
  <2> HIDE DEF i
  <2>4. j \in Requesting /\ j.at = at /\ j.route = route /\ j.header = window[w]
    BY <1>0, <2>3 DEF Requesting
  <2> HIDE DEF j
  <2>5. (window[w] \in spoiled) = FALSE
    BY <1>0
  <2>6. h \in Requesting /\ h.at = at /\ h.route = route /\ h.header = window[w] /\ ~h.knew
    BY <2>4, <2>5 DEF Requesting
  <2> HIDE DEF h
  <2>9. /\ RequestIs(w, h) /\ h.route = route /\ h.at \in {"waiting", "headers"}
        /\ h.at = "waiting" => NeedsToken(route) /\ window[w] = NoCsrf
        /\ h.at = "headers" /\ NeedsToken(route) => h.header = window[w] /\ window[w] # NoCsrf
        /\ h.header <= Len(csrf) /\ ~h.knew
    BY <1>0, <1>2, <2>1, <2>2, <2>6 DEF RequestIs
  <2> QED
    BY <2>9
<1> QED
  BY <1>1, <1>2

\* The step of a window's request that issues no token leaves those of the others.
LEMMA HttpKeeps ==
  ASSUME CsrfInv, NEW w \in Windows, NEW h, RequestIs(w, h), UNCHANGED <<csrf, xsrfCookie, cookieUser>>,
         window' = window \/ window' = [window EXCEPT ![w] = NoCsrf],
         spoiled' \subseteq 1 .. Len(csrf), \A v \in Windows : window'[v] \notin spoiled', ~vain',
         h.at # "idle" => h.route \in HttpRoutes,
         h.at = "waiting" => NeedsToken(h.route) /\ window'[w] = NoCsrf,
         h.at \in {"headers", "gates"} /\ NeedsToken(h.route) =>
           h.header = window'[w] /\ window'[w] # NoCsrf,
         h.at = "gates" /\ h.header = Len(csrf) /\ h.header # NoCsrf /\ csrf[Len(csrf)].fresh =>
           h.cookie = h.header,
         h.header <= Len(csrf) /\ ~h.knew
  PROVE  CsrfInv'
<1>1. /\ http' \in [Windows -> Requesting] /\ http'[w] = h
      /\ \A v \in Windows : v # w => http'[v] = http[v]
  BY DEF RequestIs, CsrfInv
<1>2. /\ window' \in [Windows -> 0 .. Len(csrf)]
      /\ \A v \in Windows : v # w => window'[v] = window[v]
      /\ window'[w] \in {window[w], NoCsrf}
  <2>1. window \in [Windows -> 0 .. Len(csrf)] /\ NoCsrf \in 0 .. Len(csrf)
    BY DEF CsrfInv, NoCsrf
  <2> QED
    BY <2>1
<1>3. Carries(w)'
  BY <1>1, <1>2 DEF Carries
<1>4. ASSUME NEW v \in Windows, v # w  PROVE Carries(v)'
  BY <1>1, <1>2, <1>4 DEF Carries, CsrfInv
<1> QED
  BY <1>1, <1>2, <1>3, <1>4 DEF CsrfInv

LEMMA ForbiddenIs ==
  \A route \in HttpRoutes : \A n \in DOMAIN Pipeline[route] :
    Status[Pipeline[route][n]] = 403 =>
      Pipeline[route][n] = "csrfProtection" /\ NeedsToken(route)
BY HttpAssumption DEF Pipeline, Status, NeedsToken

\* A request that is over.
LEMMA FinishedKeeps ==
  ASSUME CsrfInv, NEW w \in Windows, http' = Finished(w), UNCHANGED <<csrf, xsrfCookie, cookieUser>>,
         window' = window \/ window' = [window EXCEPT ![w] = NoCsrf],
         spoiled' \subseteq 1 .. Len(csrf), \A v \in Windows : window'[v] \notin spoiled', ~vain'
  PROVE  CsrfInv'
<1>1. RequestIs(w, NoHttp)
  BY NothingRequested DEF Finished, RequestIs
<1>2. NoHttp.at = "idle" /\ NoHttp.header <= Len(csrf) /\ ~NoHttp.knew
  BY DEF NoHttp, NoCsrf, CsrfInv
<1> QED
  BY <1>1, <1>2, HttpKeeps

\* A window that fetched a token sends it with its cookie.
LEMMA TokenFetched == ASSUME CsrfInv, NEW w \in Windows, FetchCsrfToken(w)  PROVE CsrfInv'
<1> DEFINE t == Len(csrf) + 1
           i == [http[w] EXCEPT !.at = "headers"]
           h == [i EXCEPT !.header = t]
<1>1. /\ http[w].at = "waiting" /\ http[w] \in Requesting /\ ~http[w].knew
      /\ http[w].route \in HttpRoutes
  BY DEF FetchCsrfToken, CsrfInv, Carries
<1>2. http' = [http EXCEPT ![w] = h]
  BY <1>1 DEF FetchCsrfToken, CsrfInv
<1>3. /\ csrf' = Append(csrf, [user |-> cookieUser, fresh |-> TRUE])
      /\ xsrfCookie' = t /\ window' = [window EXCEPT ![w] = t]
      /\ UNCHANGED <<cookieUser, tally, spoiled, vain>>
  BY DEF FetchCsrfToken
<1>4. /\ csrf' \in Seq([user : {"first", "second"}, fresh : BOOLEAN]) /\ Len(csrf') = t
      /\ Len(csrf) \in Nat
  BY <1>3 DEF CsrfInv
<1>5. i \in Requesting /\ i.at = "headers" /\ i.route = http[w].route /\ ~i.knew
  BY <1>1 DEF Requesting
<1> HIDE DEF i
<1>6. h \in Requesting /\ h.at = "headers" /\ h.route = http[w].route /\ h.header = t /\ ~h.knew
  BY <1>4, <1>5 DEF Requesting
<1> HIDE DEF h
<1>7. /\ http' \in [Windows -> Requesting] /\ http'[w] = h
      /\ \A v \in Windows : v # w => http'[v] = http[v]
  BY <1>2, <1>6 DEF CsrfInv
<1>8. /\ window' \in [Windows -> 0 .. t] /\ window'[w] = t
      /\ \A v \in Windows : v # w => window'[v] = window[v] /\ window[v] < t
  BY <1>3, <1>4 DEF CsrfInv
<1>9. Carries(w)'
  BY <1>1, <1>4, <1>6, <1>7, <1>8 DEF Carries, NoCsrf
<1>10. ASSUME NEW v \in Windows, v # w  PROVE Carries(v)'
  <2>1. http[v].header <= Len(csrf) /\ http[v].header # t /\ Carries(v)
    BY <1>4, <1>10 DEF CsrfInv, Carries, Requesting
  <2> QED
    BY <1>4, <1>7, <1>8, <1>10, <2>1 DEF Carries, Requesting, CsrfInv
<1>11. spoiled' \subseteq 1 .. Len(csrf) /\ t \notin spoiled'
  BY <1>3, <1>4 DEF CsrfInv
<1> QED
  BY <1>3, <1>4, <1>7, <1>8, <1>9, <1>10, <1>11 DEF CsrfInv, NoCsrf

\* The cookies of the moment go with the request.
LEMMA CookiesAdded == ASSUME CsrfInv, NEW w \in Windows, Fetch(w)  PROVE CsrfInv'
<1> DEFINE i == [http[w] EXCEPT !.at = "gates"]
           j == [i EXCEPT !.cookie = xsrfCookie]
           h == [j EXCEPT !.user = cookieUser]
<1>1. /\ http[w].at = "headers" /\ http[w] \in Requesting /\ Carries(w)
      /\ UNCHANGED <<csrf, xsrfCookie, cookieUser, window, tally, spoiled, vain>>
  BY DEF Fetch, CsrfInv
<1>2. http' = [http EXCEPT ![w] = h]
  BY <1>1 DEF Fetch, CsrfInv
<1>3. /\ i \in Requesting /\ i.at = "gates" /\ i.route = http[w].route
      /\ i.header = http[w].header /\ i.knew = http[w].knew
  BY <1>1 DEF Requesting
<1> HIDE DEF i
<1>4. xsrfCookie \in Nat /\ cookieUser \in {"first", "second"}
  BY DEF CsrfInv
<1>5. /\ j \in Requesting /\ j.at = "gates" /\ j.route = http[w].route
      /\ j.header = http[w].header /\ j.knew = http[w].knew /\ j.cookie = xsrfCookie
  BY <1>3, <1>4 DEF Requesting
<1> HIDE DEF j
<1>6. /\ h \in Requesting /\ h.at = "gates" /\ h.route = http[w].route
      /\ h.header = http[w].header /\ h.knew = http[w].knew /\ h.cookie = xsrfCookie
  BY <1>4, <1>5 DEF Requesting
<1> HIDE DEF h
<1>7. RequestIs(w, h)
  BY <1>2, <1>6 DEF RequestIs
<1>8. h.header = Len(csrf) /\ h.header # NoCsrf /\ csrf[Len(csrf)].fresh => h.cookie = h.header
  BY <1>6 DEF CsrfInv, NoCsrf
<1>9. /\ h.route \in HttpRoutes /\ h.header <= Len(csrf) /\ ~h.knew
      /\ NeedsToken(h.route) => h.header = window'[w] /\ window'[w] # NoCsrf
  BY <1>1, <1>6 DEF Carries
<1>10. /\ spoiled' \subseteq 1 .. Len(csrf) /\ ~vain'
       /\ \A v \in Windows : window'[v] \notin spoiled'
  BY <1>1 DEF CsrfInv
<1> QED
  BY <1>1, <1>6, <1>7, <1>8, <1>9, <1>10, HttpKeeps

\* A request as post sends it, when nothing else changes.
LEMMA SentKeeps ==
  ASSUME CsrfInv, NEW w \in Windows, NEW route \in HttpRoutes, NEW again \in BOOLEAN,
         RequestHeaders(w, route, again),
         UNCHANGED <<csrf, xsrfCookie, cookieUser, window, spoiled>>, ~vain'
  PROVE  CsrfInv'
<1>1. PICK h : /\ RequestIs(w, h) /\ h.route = route /\ h.at \in {"waiting", "headers"}
               /\ h.at = "waiting" => NeedsToken(route) /\ window[w] = NoCsrf
               /\ h.at = "headers" /\ NeedsToken(route) => h.header = window[w] /\ window[w] # NoCsrf
               /\ h.header <= Len(csrf) /\ ~h.knew
  BY HeadersAre
<1>2. /\ spoiled' \subseteq 1 .. Len(csrf) /\ ~vain'
      /\ \A v \in Windows : window'[v] \notin spoiled'
  BY DEF CsrfInv
<1>3. /\ h.route \in HttpRoutes /\ h.at # "gates"
      /\ h.at = "waiting" => NeedsToken(h.route) /\ window'[w] = NoCsrf
      /\ h.at \in {"headers", "gates"} /\ NeedsToken(h.route) =>
           h.header = window'[w] /\ window'[w] # NoCsrf
  BY <1>1
<1>4. RequestIs(w, h) /\ h.header <= Len(csrf) /\ ~h.knew
  BY <1>1
<1> QED
  BY <1>2, <1>3, <1>4, HttpKeeps

\* One that is over, when nothing else changes.
LEMMA OverKeeps ==
  ASSUME CsrfInv, NEW w \in Windows, http' = Finished(w),
         UNCHANGED <<csrf, xsrfCookie, cookieUser, window, spoiled>>, ~vain'
  PROVE  CsrfInv'
<1>1. /\ spoiled' \subseteq 1 .. Len(csrf) /\ ~vain'
      /\ \A v \in Windows : window'[v] \notin spoiled'
  BY DEF CsrfInv
<1> QED
  BY <1>1, FinishedKeeps

\* The gate of its route at which a request is.
StopOf(w, n) == Pipeline[http[w].route][n]

\* The request is turned back at its n-th gate, or sent once more.  At the gate
\* for tokens it loses its token, which was due to be refused.
LEMMA TurnKeeps == ASSUME CsrfInv, NEW w \in Windows, Turned(w)  PROVE CsrfInv'
<1>0. PICK n \in DOMAIN Pipeline[http[w].route] :
        LET barrier == Pipeline[http[w].route][n]
            again == Status[barrier] = 401 /\ ~http[w].again
            forbidden == Status[barrier] = 403
        IN
        /\ StopsAt(w, n)
        /\ IF again THEN RequestHeaders(w, http[w].route, TRUE) ELSE http' = Finished(w)
        /\ window' = IF forbidden THEN AfterRefusal(w) ELSE window
        /\ spoiled' = IF forbidden THEN spoiled \cup {http[w].header} ELSE spoiled
        /\ vain' = (vain \/ (forbidden /\ InVain(w)))
        /\ UNCHANGED <<csrf, xsrfCookie, cookieUser, tally>>
  BY Zenon DEF Turned
<1>1. /\ StopsAt(w, n)
      /\ window' = IF Status[StopOf(w, n)] = 403 THEN AfterRefusal(w) ELSE window
      /\ spoiled' = IF Status[StopOf(w, n)] = 403 THEN spoiled \cup {http[w].header} ELSE spoiled
      /\ UNCHANGED <<csrf, xsrfCookie, cookieUser>>
  BY <1>0, Zenon DEF StopOf
<1>6. IF Status[StopOf(w, n)] = 401 /\ ~http[w].again
      THEN RequestHeaders(w, http[w].route, TRUE) ELSE http' = Finished(w)
  BY <1>0, Zenon DEF StopOf
<1>7. RequestHeaders(w, http[w].route, TRUE) \/ http' = Finished(w)
  BY <1>6
<1>8. Status[StopOf(w, n)] = 403 => http' = Finished(w)
  BY <1>6
<1>5. vain' => vain \/ (Status[StopOf(w, n)] = 403 /\ InVain(w))
  BY <1>0, Zenon DEF StopOf
<1>2. /\ http[w].at = "gates" /\ http[w] \in Requesting /\ Carries(w)
      /\ http[w].route \in HttpRoutes
  BY DEF Turned, CsrfInv, Carries
<1>3. CASE Status[StopOf(w, n)] = 403
  <2>1. StopOf(w, n) = "csrfProtection" /\ NeedsToken(http[w].route)
    BY <1>1, <1>2, <1>3, ForbiddenIs DEF StopOf
  <2>2. FALSE \in LetsThrough(w, "csrfProtection")
    <3>1. n <= Len(Pipeline[http[w].route])
      BY <1>1, <1>2, HttpAssumption DEF Pipeline
    <3> QED
      BY <1>1, <2>1, <3>1 DEF StopsAt, StopOf
  <2>3. ~verifyCsrfToken(w)
    BY <2>2 DEF LetsThrough
  <2>4. http[w].header = window[w] /\ window[w] # NoCsrf /\ window[w] \in 1 .. Len(csrf)
    BY <1>2, <2>1 DEF Carries, CsrfInv, NoCsrf
  <2>5. ~InVain(w)
    BY <1>2, <2>3, <2>4 DEF InVain, verifyCsrfToken, Carries
  <2>6. /\ window' = [window EXCEPT ![w] = NoCsrf] /\ spoiled' = spoiled \cup {window[w]}
        /\ http' = Finished(w)
    BY <1>1, <1>3, <1>8, <2>4 DEF AfterRefusal
  <2>7. ~vain'
    BY <1>5, <2>5 DEF CsrfInv
  <2>8. spoiled' \subseteq 1 .. Len(csrf)
    BY <2>4, <2>6 DEF CsrfInv
  <2>9. \A v \in Windows : window'[v] \notin spoiled'
    <3>1. \A v \in Windows : v # w => window'[v] = window[v] /\ window[v] # window[w]
      BY <2>4, <2>6 DEF CsrfInv
    <3>2. window'[w] = 0 /\ 0 \notin spoiled'
      BY <2>6, <2>8 DEF CsrfInv, NoCsrf
    <3> QED
      BY <2>6, <3>1, <3>2 DEF CsrfInv
  <2> QED
    BY <1>1, <2>6, <2>7, <2>8, <2>9, FinishedKeeps
<1>4. CASE Status[StopOf(w, n)] # 403
  <2>1. UNCHANGED <<csrf, xsrfCookie, cookieUser, window, spoiled>>
    BY <1>1, <1>4
  <2>2. ~vain'
    BY <1>5, <1>4 DEF CsrfInv
  <2>3. TRUE \in BOOLEAN
    OBVIOUS
  <2> QED
    BY <1>1, <1>2, <1>7, <2>1, <2>2, <2>3, SentKeeps, OverKeeps
<1> QED
  BY <1>3, <1>4

LEMMA HourPasses == ASSUME CsrfInv, NEW t, CsrfExpires(t)  PROVE CsrfInv'
<1> DEFINE r == [csrf[t] EXCEPT !.fresh = FALSE]
           S == [user : {"first", "second"}, fresh : BOOLEAN]
<1>1. /\ t \in DOMAIN csrf /\ csrf' = [csrf EXCEPT ![t] = r]
      /\ xsrfCookie' = IF xsrfCookie = t THEN NoCsrf ELSE xsrfCookie
      /\ UNCHANGED <<cookieUser, window, http, tally, spoiled, vain>>
  BY DEF CsrfExpires
<1>2. csrf \in Seq(S) /\ Len(csrf) \in Nat /\ DOMAIN csrf = 1 .. Len(csrf) /\ csrf[t] \in S
  <2>1. csrf \in Seq(S)
    BY DEF CsrfInv
  <2> HIDE DEF S
  <2> QED
    BY <1>1, <2>1
<1>3. r \in S /\ ~r.fresh
  BY <1>2
<1> HIDE DEF r, S
<1>4. csrf' \in Seq(S) /\ Len(csrf') = Len(csrf)
  BY <1>1, <1>2, <1>3, ExceptSeq
<1>5. csrf'[t] = r /\ \A s \in DOMAIN csrf : s # t => csrf'[s] = csrf[s]
  BY <1>1
<1>6. \A w \in Windows : Carries(w)'
  <2> SUFFICES ASSUME NEW w \in Windows  PROVE Carries(w)'
    OBVIOUS
  <2>1. Carries(w) /\ http[w] \in Requesting
    BY DEF CsrfInv
  <2>2. http[w].header # NoCsrf /\ http[w].header = Len(csrf) => Len(csrf) \in DOMAIN csrf
    BY <1>2, <2>1 DEF Requesting, NoCsrf
  <2> QED
    BY <1>1, <1>3, <1>4, <1>5, <2>1, <2>2 DEF Carries
<1>7. xsrfCookie' \in 0 .. Len(csrf)
  BY <1>1, <1>2 DEF CsrfInv, NoCsrf
<1>8. Len(csrf) # 0 /\ csrf'[Len(csrf)].fresh => xsrfCookie' = Len(csrf)
  <2>1. Len(csrf) # 0 => Len(csrf) \in DOMAIN csrf
    BY <1>2
  <2> QED
    BY <1>1, <1>3, <1>5, <2>1 DEF CsrfInv
<1> QED
  BY <1>1, <1>4, <1>6, <1>7, <1>8 DEF CsrfInv, S

LEMMA CsrfStep == CsrfInv /\ [HttpNext]_httpVars => CsrfInv'
<1> SUFFICES ASSUME CsrfInv, [HttpNext]_httpVars  PROVE CsrfInv'
  OBVIOUS
<1>1. CASE UNCHANGED httpVars
  BY <1>1 DEF httpVars, CsrfInv, Carries
<1>2. ASSUME NEW w \in Windows, sendHttp(w)  PROVE CsrfInv'
  <2>1. PICK route \in HttpRoutes : RequestHeaders(w, route, FALSE)
    BY <1>2 DEF sendHttp
  <2>2. UNCHANGED <<csrf, xsrfCookie, cookieUser, window, spoiled>> /\ ~vain' /\ FALSE \in BOOLEAN
    BY <1>2 DEF sendHttp, CsrfInv
  <2> QED
    BY <2>1, <2>2, SentKeeps
<1>3. ASSUME NEW w \in Windows, FetchRefused(w) \/ Handled(w)  PROVE CsrfInv'
  <2>1. http' = Finished(w) /\ UNCHANGED <<csrf, xsrfCookie, cookieUser, window, spoiled>> /\ ~vain'
    BY <1>3 DEF FetchRefused, Handled, CsrfInv
  <2> QED
    BY <2>1, OverKeeps
<1>4. CASE SignInAs
  BY <1>4 DEF SignInAs, CsrfInv, Carries
<1> QED
  BY <1>1, <1>2, <1>3, <1>4, TokenFetched, CookiesAdded, TurnKeeps, HourPasses DEF HttpNext

-----------------------------------------------------------------------------
(* HttpPipeline: readiness. *)

\* What has come back of a check says what it is about.
ReadyInv ==
  /\ probe["database"].got => probe["database"].required
  /\ probe["docker"].got =>
       (probe["docker"].required <=> profile.docker) /\ (profile.docker \/ probe["docker"].ok)
  /\ probe["redis"].got /\ ~profile.redisUrl =>
       /\ probe["redis"].required <=> profile.redisRequired
       /\ probe["redis"].ok <=> ~profile.redisRequired
  /\ probe["registered redis"].got /\ profile.redisUrl => probe["registered redis"].required
  /\ DOMAIN probe = Checks

LEMMA ReadyBegins == ReadyInit => ReadyInv
<1> SUFFICES ASSUME ReadyInit  PROVE ReadyInv
  OBVIOUS
<1>1. probe = [c \in Checks |-> NoResult]
  BY DEF ReadyInit
<1>2. \A c \in Checks : probe[c].got = FALSE
  BY <1>1 DEF NoResult
<1> QED
  BY <1>1, <1>2 DEF ReadyInv, Checks

LEMMA ReadyStep == ReadyInv /\ [ReadyNext]_readyVars => ReadyInv'
<1> SUFFICES ASSUME ReadyInv, [ReadyNext]_readyVars  PROVE ReadyInv'
  OBVIOUS
<1>1. CASE UNCHANGED <<profile, probe>>
  BY <1>1 DEF ReadyInv
<1>2. ASSUME NEW c \in Checks, NEW r, probe' = [probe EXCEPT ![c] = r], UNCHANGED profile,
             c = "database" => r.required,
             c = "docker" => (r.required <=> profile.docker) /\ (profile.docker \/ r.ok),
             c = "redis" /\ ~profile.redisUrl =>
               (r.required <=> profile.redisRequired) /\ (r.ok <=> ~profile.redisRequired),
             c = "registered redis" /\ profile.redisUrl => r.required
      PROVE  ReadyInv'
  <2>1. probe'[c] = r /\ DOMAIN probe' = Checks /\ \A d \in Checks : d # c => probe'[d] = probe[d]
    BY <1>2 DEF ReadyInv
  <2> QED
    BY <1>2, <2>1 DEF ReadyInv, Checks
<1>3. ASSUME NEW c \in Checks, CheckEnds(c)  PROVE ReadyInv'
  <2>1. \A ok, required : Result(ok, required).ok = ok /\ Result(ok, required).required = required
    BY DEF Result
  <2>2. PICK answered \in BOOLEAN :
          probe' = [probe EXCEPT ![c] =
            CASE c = "database" -> Result(alive["database"] /\ answered, TRUE)
              [] c = "docker" -> IF profile.docker THEN Result(alive["docker"] /\ answered, TRUE)
                                 ELSE Result(TRUE, FALSE)
              [] c = "redis" -> IF profile.redisUrl THEN Result(FALSE, TRUE)
                                ELSE Result(~profile.redisRequired, profile.redisRequired)
              [] OTHER -> IF profile.redisUrl THEN Result(alive["redis"] /\ answered, TRUE)
                          ELSE Result(TRUE, FALSE)]
    BY <1>3 DEF CheckEnds
  <2>3. UNCHANGED profile
    BY <1>3 DEF CheckEnds
  <2>4. CASE c = "database"
    <3>1. probe' = [probe EXCEPT ![c] = Result(alive["database"] /\ answered, TRUE)]
      BY <2>2, <2>4
    <3> QED
      BY <1>2, <2>1, <2>3, <2>4, <3>1
  <2>5. CASE c = "docker" /\ profile.docker
    <3>1. probe' = [probe EXCEPT ![c] = Result(alive["docker"] /\ answered, TRUE)]
      BY <2>2, <2>5
    <3> QED
      BY <1>2, <2>1, <2>3, <2>5, <3>1
  <2>6. CASE c = "docker" /\ ~profile.docker
    <3>1. probe' = [probe EXCEPT ![c] = Result(TRUE, FALSE)]
      BY <2>2, <2>6
    <3> QED
      BY <1>2, <2>1, <2>3, <2>6, <3>1
  <2>7. CASE c = "redis" /\ profile.redisUrl
    <3>1. probe' = [probe EXCEPT ![c] = Result(FALSE, TRUE)]
      BY <2>2, <2>7
    <3> QED
      BY <1>2, <2>1, <2>3, <2>7, <3>1
  <2>8. CASE c = "redis" /\ ~profile.redisUrl
    <3>1. probe' = [probe EXCEPT ![c] = Result(~profile.redisRequired, profile.redisRequired)]
      BY <2>2, <2>8
    <3> QED
      BY <1>2, <2>1, <2>3, <2>8, <3>1
  <2>9. CASE c = "registered redis" /\ profile.redisUrl
    <3>1. probe' = [probe EXCEPT ![c] = Result(alive["redis"] /\ answered, TRUE)]
      BY <2>2, <2>9
    <3> QED
      BY <1>2, <2>1, <2>3, <2>9, <3>1
  <2>10. CASE c = "registered redis" /\ ~profile.redisUrl
    <3>1. probe' = [probe EXCEPT ![c] = Result(TRUE, FALSE)]
      BY <2>2, <2>10
    <3> QED
      BY <1>2, <2>1, <2>3, <2>10, <3>1
  <2> QED
    BY <2>4, <2>5, <2>6, <2>7, <2>8, <2>9, <2>10 DEF Checks
<1> QED
  BY <1>1, <1>3 DEF ReadyNext, Flaps, readyVars

LEMMA ReadyAsAsked == ReadyInv => ReadyIfNeededAnswer
<1> SUFFICES ASSUME ReadyInv, \A c \in Checks : probe[c].got
             PROVE  Ready <=> /\ probe["database"].ok
                              /\ profile.docker => probe["docker"].ok
                              /\ profile.redisUrl => probe["registered redis"].ok
                              /\ ~(profile.redisRequired /\ ~profile.redisUrl)
  BY DEF ReadyIfNeededAnswer
<1>1. CASE profile.redisUrl
  BY <1>1 DEF ReadyInv, Checks, Ready, Counting
<1>2. CASE ~profile.redisUrl
  BY <1>2 DEF ReadyInv, Checks, Ready, Counting
<1> QED
  BY <1>1, <1>2

-----------------------------------------------------------------------------
(* Credentials: keys, and the refreshes of a provider. *)

LEMMA KeysTyped == KeysInv => KeysTypeOK
<1> SUFFICES ASSUME KeysInv  PROVE KeysTypeOK
  OBVIOUS
<1>1. jwksCache.keys \subseteq Kids
  BY DEF KeysInv, ValidSince
<1>2. \A r \in Arrivals :
        /\ arrival[r].at \in {"new", "fetching", "receiving", "acting", "anonymous", "refused", "unanswered"}
        /\ arrival[r].tenant \in Tenants \cup {Nobody}
  BY DEF KeysInv, Arrival
<1>3. \A a \in accepted : a.since <= a.at
  BY DEF KeysInv
<1> QED
  BY <1>1, <1>2, <1>3, Zenon DEF KeysInv, KeysTypeOK

OutwardCalls == [at : {"new", "sent", "renewing", "answered", "failed"}, attempt : 1..2]
Renewing == {c \in ProviderCalls : outward[c].at = "renewing"}

\* Whoever waits for a refresh is renewing, and a refresh in flight was shown once
\* more than in vain.
WaitersInv ==
  /\ outward \in [ProviderCalls -> OutwardCalls]
  /\ refreshers = Renewing
  /\ \A n \in Issued : refreshShown[n].vain <= refreshShown[n].all
  /\ refreshers # {} => refreshShown[credential.token].vain < refreshShown[credential.token].all

LEMMA WaitersBegin == ProviderInit => WaitersInv
<1> SUFFICES ASSUME ProviderInit  PROVE WaitersInv
  OBVIOUS
<1>1. [at |-> "new", attempt |-> 1] \in OutwardCalls
  BY DEF OutwardCalls
<1>2. outward \in [ProviderCalls -> OutwardCalls] /\ refreshers = {} /\ Renewing = {}
  BY <1>1 DEF ProviderInit, Renewing
<1>3. \A n \in Issued : refreshShown[n].vain = 0 /\ refreshShown[n].all = 0
  BY DEF ProviderInit
<1> QED
  BY <1>2, <1>3 DEF WaitersInv

LEMMA ProviderTyped == RefreshInv /\ WaitersInv => ProviderTypeOK
<1> SUFFICES ASSUME RefreshInv, WaitersInv  PROVE ProviderTypeOK
  OBVIOUS
<1>1. \A c \in ProviderCalls :
        outward[c].at \in {"new", "sent", "renewing", "answered", "failed"} /\ outward[c].attempt \in 1..2
  BY DEF WaitersInv, OutwardCalls
<1>2. credential.token \in Issued
  BY DEF RefreshInv, Snapshots
<1> QED
  BY <1>1, <1>2, Zenon DEF WaitersInv, ProviderTypeOK, Renewing

\* One call goes on, and waits for a refresh if it renews.
LEMMA OutwardGoesOn ==
  ASSUME WaitersInv, NEW c \in ProviderCalls, NEW r \in OutwardCalls,
         outward' = [outward EXCEPT ![c] = r], outward[c].at # "renewing"
  PROVE  /\ outward' \in [ProviderCalls -> OutwardCalls]
         /\ Renewing' = IF r.at = "renewing" THEN Renewing \cup {c} ELSE Renewing
BY DEF WaitersInv, Renewing

LEMMA WaiterJoins ==
  ASSUME RefreshInv, WaitersInv, NEW c \in ProviderCalls, NEW r \in OutwardCalls,
         outward' = [outward EXCEPT ![c] = r], outward[c].at # "renewing",
         r.at = "renewing", forceRefresh(c), UNCHANGED credential
  PROVE  WaitersInv'
<1>1. outward' \in [ProviderCalls -> OutwardCalls] /\ Renewing' = Renewing \cup {c}
  BY OutwardGoesOn
<1>2. refreshers' = Renewing'
  BY <1>1 DEF forceRefresh, WaitersInv
<1>3. PICK t : t = credential.token
  OBVIOUS
<1>4. t \in Issued /\ credential'.token = t /\ refreshShown \in [Issued -> [vain : Nat, all : Nat]]
  BY <1>3 DEF RefreshInv, Snapshots
<1>5. CASE refreshers # {}
  BY <1>1, <1>2, <1>3, <1>5 DEF forceRefresh, WaitersInv
<1>6. CASE refreshers = {}
  <2>1. refreshShown' = [refreshShown EXCEPT ![t].all = @ + 1]
    BY <1>3, <1>6 DEF forceRefresh
  <2>2. PICK counted : counted = [refreshShown[t] EXCEPT !.all = @ + 1]
    OBVIOUS
  <2>3. refreshShown[t] \in [vain : Nat, all : Nat]
    BY <1>4
  <2>4. counted.vain = refreshShown[t].vain /\ counted.all = refreshShown[t].all + 1
    BY <2>2, <2>3
  <2>5. refreshShown' = [refreshShown EXCEPT ![t] = counted]
    BY <1>4, <2>1, <2>2
  <2>6. \A n \in Issued : refreshShown[n].vain <= refreshShown[n].all
    BY DEF WaitersInv
  <2>7. counted.vain < counted.all
    BY <1>4, <2>3, <2>4, <2>6
  <2>8. \A n \in Issued : refreshShown'[n] = IF n = t THEN counted ELSE refreshShown[n]
    BY <1>4, <2>5
  <2>9. \A n \in Issued : refreshShown'[n].vain <= refreshShown'[n].all
    BY <2>3, <2>4, <2>6, <2>7, <2>8
  <2> QED
    BY <1>1, <1>2, <1>4, <2>7, <2>8, <2>9 DEF WaitersInv
<1> QED
  BY <1>5, <1>6

LEMMA WaitersKeep == RefreshInv /\ WaitersInv /\ [ProviderNext]_providerVars => WaitersInv'
<1> SUFFICES ASSUME RefreshInv, WaitersInv, [ProviderNext]_providerVars  PROVE WaitersInv'
  OBVIOUS
<1>0. outward \in [ProviderCalls -> OutwardCalls]
  BY DEF WaitersInv
<1>1. CASE UNCHANGED providerVars
  BY <1>1 DEF providerVars, WaitersInv, Renewing
<1>2. CASE TokenAges
  <2>1. credential' = [credential EXCEPT !.old = TRUE]
        /\ refreshers = {} /\ UNCHANGED <<refreshShown, refreshers, outward>>
    BY <1>2 DEF TokenAges
  <2> QED
    BY <2>1 DEF WaitersInv, Renewing
<1>3. ASSUME NEW c \in ProviderCalls, NEW r \in OutwardCalls,
             outward' = [outward EXCEPT ![c] = r], outward[c].at # "renewing",
             r.at # "renewing", UNCHANGED <<refreshers, refreshShown>>,
             credential'.token = credential.token
      PROVE  WaitersInv'
  BY <1>3, OutwardGoesOn DEF WaitersInv
<1>4. ASSUME NEW c \in ProviderCalls, NEW at \in {"sent", "renewing", "answered", "failed"},
             OutwardGoes(c, at)
      PROVE  \E r \in OutwardCalls : r.at = at /\ outward' = [outward EXCEPT ![c] = r]
  <2>1. PICK r : r = [outward[c] EXCEPT !.at = at]
    OBVIOUS
  <2>2. outward[c] \in OutwardCalls
    BY <1>0
  <2>3. r \in OutwardCalls /\ r.at = at
    BY <2>1, <2>2 DEF OutwardCalls
  <2>4. outward' = [outward EXCEPT ![c] = r]
    BY <1>4, <2>1 DEF OutwardGoes
  <2> QED
    BY <2>3, <2>4
<1>r. ASSUME NEW c \in ProviderCalls, NEW attempt \in 1..2, outward[c].at # "renewing",
             Refreshes(c, attempt)
      PROVE  WaitersInv'
  <2>1. CASE /\ outward' = [outward EXCEPT ![c] = [at |-> "renewing", attempt |-> attempt]]
             /\ forceRefresh(c) /\ UNCHANGED credential
    <3>1. PICK r : r = [at |-> "renewing", attempt |-> attempt]
      OBVIOUS
    <3>2. r \in OutwardCalls /\ r.at = "renewing"
      BY <3>1 DEF OutwardCalls
    <3> QED
      BY <1>r, <2>1, <3>1, <3>2, WaiterJoins
  <2>2. CASE /\ OutwardGoes(c, "failed") /\ UNCHANGED <<refreshers, refreshShown>>
             /\ credential' = [credential EXCEPT !.kind = "none", !.old = FALSE]
    <3>1. credential'.token = credential.token
      BY <2>2 DEF RefreshInv, Snapshots
    <3> QED
      BY <1>3, <1>4, <1>r, <2>2, <3>1
  <2> QED
    BY <1>r, <2>1, <2>2 DEF Refreshes
<1>5. ASSUME NEW c \in ProviderCalls, auth(c)  PROVE WaitersInv'
  <2>1. outward[c].at = "new" /\ outward[c].attempt \in 1..2
    BY <1>0, <1>5 DEF auth, OutwardCalls
  <2>2. CASE Refreshes(c, outward[c].attempt)
    BY <1>r, <2>1, <2>2
  <2>3. CASE /\ \E at \in {"sent", "failed"} : OutwardGoes(c, at)
             /\ UNCHANGED <<refreshers, refreshShown>>
             /\ \/ UNCHANGED credential
                \/ credential' = [credential EXCEPT !.kind = "apiKey"]
    <3>1. credential'.token = credential.token
      BY <2>3 DEF RefreshInv, Snapshots
    <3> QED
      BY <1>3, <1>4, <2>1, <2>3, <3>1
  <2> QED
    BY <1>5, <2>2, <2>3 DEF auth
<1>6. ASSUME NEW c \in ProviderCalls, ProviderAnswers(c)  PROVE WaitersInv'
  <2>1. outward[c].at = "sent"
    BY <1>6 DEF ProviderAnswers
  <2>2. CASE /\ \E at \in {"answered", "failed"} : OutwardGoes(c, at)
             /\ UNCHANGED <<credential, refreshers, refreshShown>>
    BY <1>3, <1>4, <2>1, <2>2
  <2>3. CASE Refreshes(c, 2)
    BY <1>r, <2>1, <2>3
  <2> QED
    BY <1>6, <2>2, <2>3 DEF ProviderAnswers
<1>7. ASSUME NEW ok \in BOOLEAN, doRefresh(ok)  PROVE WaitersInv'
  <2> DEFINE Told(c) == IF c \notin refreshers THEN outward[c]
                        ELSE [outward[c] EXCEPT !.at = IF ok THEN "new" ELSE "failed"]
  <2>1. outward' = [c \in ProviderCalls |-> Told(c)] /\ refreshers' = {} /\ refreshers # {}
    BY <1>7 DEF doRefresh
  <2>2. ASSUME NEW c \in ProviderCalls  PROVE Told(c) \in OutwardCalls /\ Told(c).at # "renewing"
    <3>1. outward[c] \in OutwardCalls /\ (c \notin refreshers => outward[c].at # "renewing")
      BY <1>0 DEF WaitersInv, Renewing
    <3> QED
      BY <3>1 DEF OutwardCalls
  <2> HIDE DEF Told
  <2>3. outward' \in [ProviderCalls -> OutwardCalls] /\ Renewing' = {}
    BY <2>1, <2>2 DEF Renewing
  <2>4. PICK t : t = credential.token
    OBVIOUS
  <2>5. t \in Issued /\ refreshShown \in [Issued -> [vain : Nat, all : Nat]]
        /\ refreshShown[t].vain < refreshShown[t].all
    BY <2>1, <2>4 DEF RefreshInv, WaitersInv, Snapshots
  <2>6. \A n \in Issued : refreshShown'[n].vain <= refreshShown'[n].all
    <3>1. CASE ok
      BY <1>7, <3>1 DEF doRefresh, WaitersInv
    <3>2. CASE ~ok
      <4>1. refreshShown' = [refreshShown EXCEPT ![t].vain = @ + 1]
        BY <1>7, <2>4, <3>2 DEF doRefresh
      <4>2. refreshShown[t] \in [vain : Nat, all : Nat]
        BY <2>5
      <4>3. refreshShown'[t].vain = refreshShown[t].vain + 1 /\ refreshShown'[t].all = refreshShown[t].all
        BY <2>5, <4>1, <4>2
      <4>4. \A n \in Issued \ {t} : refreshShown'[n] = refreshShown[n]
        BY <2>5, <4>1
      <4> QED
        BY <2>5, <4>2, <4>3, <4>4 DEF WaitersInv
    <3> QED
      BY <3>1, <3>2
  <2> QED
    BY <2>1, <2>3, <2>6 DEF WaitersInv
<1> QED
  BY <1>1, <1>2, <1>5, <1>6, <1>7 DEF ProviderNext, OutwardStep

-----------------------------------------------------------------------------
(* HttpPipeline: counters and answers of the gates. *)

\* No more requests and tokens than the bounds allow.
TallyInv == tally \in 0..MaxHttp /\ Len(csrf) <= MaxCsrf

LEMMA TallyBegins == HttpInit => TallyInv
BY HttpAssumption DEF HttpInit, TallyInv

LEMMA TallyKeeps == CsrfInv /\ TallyInv /\ [HttpNext]_httpVars => TallyInv'
<1> SUFFICES ASSUME CsrfInv, TallyInv, [HttpNext]_httpVars  PROVE TallyInv'
  OBVIOUS
<1>0. csrf \in Seq([user : {"first", "second"}, fresh : BOOLEAN]) /\ Len(csrf) \in Nat
  BY DEF CsrfInv
<1>1. CASE UNCHANGED <<csrf, tally>>
  BY <1>1 DEF TallyInv
<1>2. ASSUME NEW w \in Windows, sendHttp(w)  PROVE TallyInv'
  BY <1>2, HttpAssumption DEF sendHttp, TallyInv
<1>3. ASSUME NEW w \in Windows, FetchCsrfToken(w)  PROVE TallyInv'
  <2>1. PICK made : made = [user |-> cookieUser, fresh |-> TRUE]
    OBVIOUS
  <2>2. csrf' = Append(csrf, made) /\ Len(csrf) < MaxCsrf /\ tally' = tally
    BY <1>3, <2>1 DEF FetchCsrfToken
  <2>3. made \in [user : {"first", "second"}, fresh : BOOLEAN]
    BY <2>1 DEF CsrfInv
  <2>4. Len(csrf') = Len(csrf) + 1
    BY <1>0, <2>2, <2>3
  <2> QED
    BY <1>0, <2>2, <2>4, HttpAssumption DEF TallyInv
<1>4. ASSUME NEW w \in Windows, FetchRefused(w) \/ Fetch(w) \/ Handled(w) \/ Turned(w)
      PROVE  TallyInv'
  BY <1>1, <1>4 DEF FetchRefused, Fetch, Handled, Turned
<1>5. CASE SignInAs
  BY <1>1, <1>5 DEF SignInAs
<1>6. ASSUME NEW t \in Csrf, CsrfExpires(t)  PROVE TallyInv'
  <2>1. csrf' = [csrf EXCEPT ![t].fresh = FALSE] /\ tally' = tally /\ t \in 1..Len(csrf)
    BY <1>0, <1>6 DEF CsrfExpires
  <2>2. PICK old : old = [csrf[t] EXCEPT !.fresh = FALSE]
    OBVIOUS
  <2>3. csrf' = [csrf EXCEPT ![t] = old]
    BY <2>1, <2>2
  <2>4. Len(csrf') = Len(csrf)
    BY <1>0, <2>1, <2>3
  <2> QED
    BY <2>1, <2>4 DEF TallyInv
<1> QED
  BY <1>1, <1>2, <1>3, <1>4, <1>5, <1>6 DEF HttpNext, httpVars

LEMMA HttpTyped == CsrfInv /\ TallyInv => HttpTypeOK
<1> SUFFICES ASSUME CsrfInv, TallyInv  PROVE HttpTypeOK
  OBVIOUS
<1>1. \A w \in Windows : /\ http[w].at \in {"idle", "waiting", "headers", "gates"}
                         /\ http[w].at = "waiting" => window[w] = NoCsrf
  BY DEF CsrfInv, Requesting, Carries
<1>2. xsrfCookie \in 0..Len(csrf) /\ \A w \in Windows : window[w] \in 0..Len(csrf)
  BY DEF CsrfInv
<1> QED
  BY <1>1, <1>2 DEF TallyInv, HttpTypeOK

\* A check that has come back says so.
GotInv == DOMAIN probe = Checks /\ \A c \in Checks : probe[c].ok => probe[c].got

LEMMA GotBegins == ReadyInit => GotInv
<1> SUFFICES ASSUME ReadyInit  PROVE GotInv
  OBVIOUS
<1>1. probe = [c \in Checks |-> NoResult] /\ NoResult.ok = FALSE
  BY DEF ReadyInit, NoResult
<1> QED
  BY <1>1 DEF GotInv

LEMMA GotKeeps == GotInv /\ [ReadyNext]_readyVars => GotInv'
<1> SUFFICES ASSUME GotInv, [ReadyNext]_readyVars  PROVE GotInv'
  OBVIOUS
<1>1. CASE UNCHANGED probe
  BY <1>1 DEF GotInv
<1>2. ASSUME NEW c \in Checks, CheckEnds(c)  PROVE GotInv'
  <2>1. PICK answered \in BOOLEAN :
          probe' = [probe EXCEPT ![c] =
            CASE c = "database" -> Result(alive["database"] /\ answered, TRUE)
              [] c = "docker" -> IF profile.docker THEN Result(alive["docker"] /\ answered, TRUE)
                                 ELSE Result(TRUE, FALSE)
              [] c = "redis" -> IF profile.redisUrl THEN Result(FALSE, TRUE)
                                ELSE Result(~profile.redisRequired, profile.redisRequired)
              [] OTHER -> IF profile.redisUrl THEN Result(alive["redis"] /\ answered, TRUE)
                          ELSE Result(TRUE, FALSE)]
    BY <1>2 DEF CheckEnds
  <2>2. \A ok, required : Result(ok, required).got = TRUE
    BY DEF Result
  <2>3. probe'[c].got = TRUE
    BY <2>1, <2>2 DEF GotInv, Checks
  <2>4. DOMAIN probe' = Checks /\ \A d \in Checks : d # c => probe'[d] = probe[d]
    BY <2>1 DEF GotInv
  <2> QED
    BY <2>3, <2>4 DEF GotInv
<1>3. ASSUME NEW d \in DOMAIN alive, Flaps(d)  PROVE GotInv'
  BY <1>1, <1>3 DEF Flaps
<1> QED
  BY <1>1, <1>2, <1>3 DEF ReadyNext, readyVars

LEMMA ReadyTyped == GotInv => ReadyTypeOK
BY DEF GotInv, ReadyTypeOK

-----------------------------------------------------------------------------
(* What follows for Credentials and HttpPipeline. *)

\* A key that was retired is trusted no longer than the cache keeps it, and no
\* request acts for a tenant that is not its own.
THEOREM KeysAndTenants == KeysInit /\ [][KeysNext]_keyVars => [](RetiredKeysExpire /\ TenantsAreApart)
<1>1. KeysInv => RetiredKeysExpire /\ TenantsAreApart
  BY DEF KeysInv
<1> QED
  BY <1>1, KeysBegin, KeysStep, PTL

\* The refresh token of a provider is shown to it once.
THEOREM ProviderTokenShownOnce == ProviderInit /\ [][ProviderNext]_providerVars => []RefreshIsShared
<1>1. RefreshInv => RefreshIsShared
  BY DEF RefreshInv
<1> QED
  BY <1>1, RefreshBegins, RefreshStep, PTL

\* No page is refused for a token it fetched and that has not run out.
THEOREM NoneRefusedInVain == HttpInit /\ [][HttpNext]_httpVars => []NoVainRefusal
<1>1. CsrfInv => NoVainRefusal
  BY DEF CsrfInv, NoVainRefusal
<1> QED
  BY <1>1, CsrfBegins, CsrfStep, PTL

\* The server says it is ready when what it needs has answered.
THEOREM ReadyWhenAnswered == ReadyInit /\ [][ReadyNext]_readyVars => []ReadyIfNeededAnswer
BY ReadyBegins, ReadyStep, ReadyAsAsked, PTL
=============================================================================
