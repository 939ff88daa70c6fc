---------------------------- MODULE BrowserAuth ----------------------------
(***************************************************************************)
(* The tabs of one browser and the sessions of the server (services/api.js *)
(* and App.jsx of the frontend, with AuthSessions).  The tabs share one    *)
(* cookie jar.  A call that is answered 401 joins the refresh its tab      *)
(* awaits, or begins one, and is repeated once; a refresh whose answer     *)
(* says 401 signs the tab out.  An answer may arrive when the jar holds    *)
(* other cookies than it did when the request left, or be lost.            *)
(*                                                                         *)
(* api.logout has no caller.                                               *)
(***************************************************************************)
EXTENDS AuthSessions

CONSTANTS
  Tabs, PageCalls,
  MaxSignIns    \* bound: sign-ins of the browser

VARIABLES
  jar,      \* sessions the access and session cookies name, refresh token; 0 if none
  page,     \* call of a page -> tab, where it is, cookies it carries
  refresh,  \* tab -> refreshPromise: the server's call, and whether a failure is quiet
  carried,  \* server's call -> its request: none, sent, ended or lost, refresh token
  user,     \* tab -> is the store's user set
  crossed   \* history: a refresh or sign-in met an unanswered refresh, or an answer was lost

jarVars == <<jar, page, refresh, carried, user, crossed>>
browserVars == <<authVars, jarVars>>

NoRefresh == [call |-> {}, quiet |-> FALSE]
IdlePage == [at |-> "idle"]
PageOver == [at |-> "over"]
NoCookies == [access |-> 0, session |-> 0, refresh |-> 0]

BrowserInit ==
  /\ AuthInit
  /\ jar = NoCookies
  /\ page = [p \in PageCalls |-> IdlePage]
  /\ refresh = [t \in Tabs |-> NoRefresh]
  /\ carried = [c \in AuthCalls |-> [at |-> "none", token |-> 0]]
  /\ user = [t \in Tabs |-> FALSE]
  /\ crossed = FALSE

\* The next request of the server; they differ in name only.
Fresh(c) ==
  LET fresh == {d \in AuthCalls : call[d].at = "new" /\ carried[d].at = "none"}
  IN  c \in fresh /\ c = CHOOSE d \in fresh : TRUE

\* The call signs in; its answer, with the cookies, may still be to come.
MaySignIn == Cardinality({c \in AuthCalls : call[c].at /= "new" /\ carried[c].at = "none"} \cup
                         {c \in AuthCalls : call[c].at = "signedIn"}) < MaxSignIns

Unanswered == {c \in AuthCalls : carried[c].at = "sent"}

\* What the middleware makes of the cookies of a request.
authenticateFromHeaders(cookies) ==
  IF \E s \in {cookies.access, cookies.session} \ {0} : row[s] = "active"
    THEN normalizeUser(normalizeSession(cookies.session))
    ELSE "401"

-----------------------------------------------------------------------------
(* The server. *)

\* A request without the cookie is refused at once.
handleRefreshToken(c) ==
  /\ carried[c].at \in {"sent", "lost"}
  /\ IF carried[c].token = 0
       THEN call[c].at = "new" /\ Goes(c, "invalid") /\ UNCHANGED <<row, token>>
       ELSE FindToken(c, carried[c].token)
  /\ UNCHANGED <<jar, page, refresh, carried, user, crossed>>

ServerStep(c) ==
  /\ \/ Fresh(c) /\ MaySignIn /\ CountSessions(c)
     \/ PruneSession(c) \/ InsertSession(c) \/ FirstToken(c)
     \/ ReuseRevokesFamily(c) \/ ReuseRevokesSession(c)
     \/ MarkUsed(c) \/ InsertSuccessor(c) \/ RevokeOld(c)
     \/ carried[c].at /= "none" /\ QueryFails(c)
  /\ UNCHANGED <<jar, page, refresh, carried, user, crossed>>

\* The sign-in page of tab t comes back with the cookies of the new session.
SignedIn(t, c) ==
  /\ call[c].at = "signedIn" /\ carried[c].at = "none"
  /\ carried' = [carried EXCEPT ![c] = [at |-> "ended", token |-> 0]]
  /\ \E r \in TokenRows :
       /\ token[r].of = call[c].s /\ token[r].from = 0
       /\ jar' = [access |-> call[c].s, session |-> call[c].s, refresh |-> r]
  /\ user' = [user EXCEPT ![t] = TRUE]
  /\ crossed' = (crossed \/ Unanswered /= {})
  /\ UNCHANGED <<authVars, page, refresh>>

\* The access cookie has an age of four minutes, that of the session of 30 days.
CookieExpires(cookie) ==
  /\ jar[cookie] /= 0 /\ (cookie = "session" => jar.access = 0)
  /\ jar' = [jar EXCEPT ![cookie] = 0]
  /\ UNCHANGED <<authVars, page, refresh, carried, user, crossed>>

RowLapses(s) == SessionLapses(s) /\ UNCHANGED <<jar, page, refresh, carried, user, crossed>>

-----------------------------------------------------------------------------
(* The tabs. *)

\* get and post, and before the tab has a user the probe of authStatus, which
\* is quiet.
Request(p, t) ==
  /\ page[p] = IdlePage /\ p = CHOOSE q \in PageCalls : page[q] = IdlePage
  /\ page' = [page EXCEPT ![p] = [at |-> "sent", tab |-> t, with |-> jar]]
  /\ UNCHANGED <<authVars, jar, refresh, carried, user, crossed>>

Answered(p) ==
  /\ page[p].at \in {"sent", "repeated"}
  /\ authenticateFromHeaders(page[p].with) /= "401"
  /\ page' = [page EXCEPT ![p] = PageOver]
  /\ UNCHANGED <<authVars, jar, refresh, carried, user, crossed>>

\* refreshAccessToken: one request at a time for all calls of the tab.
refreshAccessToken(t) ==
  \/ refresh[t] /= NoRefresh /\ UNCHANGED <<refresh, carried, crossed>>
  \/ /\ refresh[t] = NoRefresh
     /\ \E c \in AuthCalls :
          /\ Fresh(c)
          /\ refresh' = [refresh EXCEPT ![t] = [call |-> {c}, quiet |-> ~user[t]]]
          /\ carried' = [carried EXCEPT ![c] = [at |-> "sent", token |-> jar.refresh]]
          /\ crossed' = (crossed \/ Unanswered /= {})

Unauthorized(p) ==
  /\ page[p].at = "sent"
  /\ authenticateFromHeaders(page[p].with) = "401"
  /\ refreshAccessToken(page[p].tab)
  /\ page' = [page EXCEPT ![p] = [at |-> "refreshing", tab |-> @.tab, with |-> NoCookies]]
  /\ UNCHANGED <<authVars, jar, user>>

\* The repeated call is refused as well.
SessionExpired(p) ==
  /\ page[p].at = "repeated"
  /\ authenticateFromHeaders(page[p].with) = "401"
  /\ page' = [page EXCEPT ![p] = PageOver]
  /\ user' = [user EXCEPT ![page[p].tab] = FALSE]
  /\ UNCHANGED <<authVars, jar, refresh, carried, crossed>>

\* All calls that await the refresh of tab t go on.
Waiting(p, t) == page[p].at = "refreshing" /\ page[p].tab = t
Resumed(t, next) ==
  page' = [p \in PageCalls |-> IF Waiting(p, t) THEN next ELSE page[p]]

\* The cookies of a successful answer, and none after any other.  The session
\* cookie is not renewed.
CookiesOf(c) ==
  IF call[c].at = "rotated"
    THEN [jar EXCEPT !.access = call[c].s,
                     !.refresh = CHOOSE r \in TokenRows : token[r].from = call[c].t]
    ELSE NoCookies

RefreshAnswered(t, c) ==
  /\ c \in refresh[t].call
  /\ call[c].at \in {"rotated", "invalid", "suspicious", "failed"}
  /\ carried' = [carried EXCEPT ![c] = [at |-> "ended", token |-> 0]]
  /\ refresh' = [refresh EXCEPT ![t] = NoRefresh]
  /\ jar' = CookiesOf(c)
  /\ IF call[c].at = "rotated"
       THEN /\ Resumed(t, [at |-> "repeated", tab |-> t, with |-> jar'])
            /\ UNCHANGED user
       ELSE /\ Resumed(t, PageOver)
            /\ user' = [user EXCEPT ![t] = FALSE]
  /\ UNCHANGED <<authVars, crossed>>

\* fetch rejects: nobody is signed out, and the server goes on.
RefreshLost(t, c) ==
  /\ c \in refresh[t].call
  /\ carried' = [carried EXCEPT ![c].at = "lost"]
  /\ refresh' = [refresh EXCEPT ![t] = NoRefresh]
  /\ Resumed(t, PageOver)
  /\ user' = [user EXCEPT ![t] = @ /\ ~refresh[t].quiet]
  /\ crossed' = TRUE
  /\ UNCHANGED <<authVars, jar>>

BrowserNext ==
  \/ \E c \in AuthCalls : handleRefreshToken(c) \/ ServerStep(c)
  \/ \E t \in Tabs, c \in AuthCalls :
       SignedIn(t, c) \/ RefreshAnswered(t, c) \/ RefreshLost(t, c)
  \/ \E cookie \in {"access", "session"} : CookieExpires(cookie)
  \/ \E s \in Rows : RowLapses(s)
  \/ \E p \in PageCalls :
       \/ \E t \in Tabs : Request(p, t)
       \/ Answered(p) \/ Unauthorized(p) \/ SessionExpired(p)

BrowserSpec == BrowserInit /\ [][BrowserNext]_browserVars

-----------------------------------------------------------------------------
BrowserTypeOK ==
  /\ AuthTypeOK
  /\ jar \in [access : 0..MaxRows, session : 0..MaxRows, refresh : 0..MaxTokens]
  /\ page \in [PageCalls -> {IdlePage, PageOver} \cup
       [at : {"sent", "refreshing", "repeated"}, tab : Tabs,
        with : [access : 0..MaxRows, session : 0..MaxRows, refresh : 0..MaxTokens]]]
  /\ \A t \in Tabs : refresh[t].call \subseteq AuthCalls /\ refresh[t].quiet \in BOOLEAN
  /\ carried \in [AuthCalls -> [at : {"none", "sent", "ended", "lost"}, token : 0..MaxTokens]]
  /\ user \in [Tabs -> BOOLEAN]
  /\ crossed \in BOOLEAN

\* As long as no two tabs refresh at once, nobody signs in meanwhile and no
\* answer is lost, the server takes no refresh of an honest browser for the
\* reuse of a stolen token, however many calls of a tab are refused together;
\* and the cookies that are left all name one session.
HonestNeverSuspected ==
  crossed \/ /\ \A c \in AuthCalls : call[c].at \notin {"reused", "familyRevoked", "suspicious"}
             /\ Cardinality(({jar.access, jar.session} \cup
                  {token[r].of : r \in {jar.refresh} \ {0}}) \ {0}) <= 1
=============================================================================
