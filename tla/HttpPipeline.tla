---------------------------- MODULE HttpPipeline ----------------------------
(***************************************************************************)
(* A request on its way through the gates of its route (index.js with      *)
(* csrf.js, edge-security.js, validation.js), the tokens against forged    *)
(* requests that the windows of one browser fetch and keep (services/      *)
(* api.js), and the readiness checks behind one of the gates (health.js).  *)
(*                                                                         *)
(* The windows share one cookie, and each keeps the token it fetched: the  *)
(* cookie holds the token that was fetched last.                           *)
(***************************************************************************)
EXTENDS Naturals, Sequences, FiniteSets

CONSTANTS
  Windows,      \* windows of one browser
  HttpRoutes,   \* routes that the requests ask for
  MaxHttp,      \* bound: requests, one call after the other
  MaxCsrf       \* bound: tokens issued

VARIABLES
  csrf,         \* issued tokens: their user, and whether their hour has passed
  xsrfCookie,   \* the cookie XSRF-TOKEN of the browser
  cookieUser,   \* the user of the session cookies
  window,       \* window -> the token it keeps
  http,         \* window -> its request: route, header, cookie, user
  tally,        \* requests begun, up to MaxHttp
  spoiled,      \* history: tokens whose refusal their window has heard of
  vain          \* history: requests refused for a token that needed no refusal

httpVars == <<csrf, xsrfCookie, cookieUser, window, http, tally, spoiled, vain>>

NoCsrf == 0
Csrf == 1..MaxCsrf

\* The gates of the routes, in the order in which they are mounted.
Pipeline ==
  [code |-> <<"agentLimiter", "requireAuth", "requireReadiness", "csrfProtection",
            "idempotencyMiddleware", "validateRequest">>,
   commit |-> <<"vfsLimiter", "requireAuth", "csrfProtection", "validateRequest">>,
   grants |-> <<"requireAuth", "csrfProtection", "handleCreateApprovalGrant">>,
   diagnostics |-> <<"requireInternalControlPlane", "requireAuth">>,
   token |-> <<"requireAuth">>]

ASSUME HttpAssumption == HttpRoutes \subseteq DOMAIN Pipeline /\ MaxHttp \in Nat /\ MaxCsrf \in Nat

\* What a gate answers when it lets nobody through.
Status ==
  [agentLimiter |-> 429, vfsLimiter |-> 429, requireAuth |-> 401, requireReadiness |-> 503,
   csrfProtection |-> 403, idempotencyMiddleware |-> 409, validateRequest |-> 400,
   handleCreateApprovalGrant |-> 404, requireInternalControlPlane |-> 404]

NoHttp == [at |-> "idle", route |-> "none", header |-> NoCsrf,
           cookie |-> NoCsrf, user |-> "none", again |-> FALSE, knew |-> FALSE]

HttpInit ==
  /\ csrf = <<>>
  /\ xsrfCookie = NoCsrf
  /\ cookieUser = "first"
  /\ window = [w \in Windows |-> NoCsrf]
  /\ http = [w \in Windows |-> NoHttp]
  /\ tally = 0
  /\ spoiled = {} /\ vain = FALSE

-----------------------------------------------------------------------------
(* The page *)

NeedsToken(route) == route \in {"code", "commit", "grants"}

\* post: requestHeaders, which fetches a token unless one is kept.
RequestHeaders(w, route, again) ==
  http' = [http EXCEPT ![w] =
    IF ~NeedsToken(route) THEN [NoHttp EXCEPT !.at = "headers", !.route = route, !.again = again]
    ELSE [NoHttp EXCEPT !.at = IF window[w] = NoCsrf THEN "waiting" ELSE "headers",
            !.route = route, !.again = again, !.header = window[w], !.knew = window[w] \in spoiled]]

sendHttp(w) ==
  /\ http[w].at = "idle" /\ tally < MaxHttp
  /\ tally' = tally + 1
  /\ \E route \in HttpRoutes : RequestHeaders(w, route, FALSE)
  /\ UNCHANGED <<csrf, xsrfCookie, cookieUser, window, spoiled, vain>>

\* csrfTokenHandler behind requireAuth; the answer sets the cookie.
FetchCsrfToken(w) ==
  /\ http[w].at = "waiting" /\ Len(csrf) < MaxCsrf
  /\ LET t == Len(csrf) + 1 IN
       /\ csrf' = Append(csrf, [user |-> cookieUser, fresh |-> TRUE])
       /\ xsrfCookie' = t
       /\ window' = [window EXCEPT ![w] = t]
       /\ http' = [http EXCEPT ![w].at = "headers", ![w].header = t]
  /\ UNCHANGED <<cookieUser, tally, spoiled, vain>>

Finished(w) == [http EXCEPT ![w] = NoHttp]

\* The fetch fails, and with it the request.
FetchRefused(w) ==
  /\ http[w].at = "waiting"
  /\ http' = Finished(w)
  /\ UNCHANGED <<csrf, xsrfCookie, cookieUser, window, tally, spoiled, vain>>

\* fetch: the browser adds the cookies of the moment.
Fetch(w) ==
  /\ http[w].at = "headers"
  /\ http' = [http EXCEPT ![w].at = "gates", ![w].cookie = xsrfCookie, ![w].user = cookieUser]
  /\ UNCHANGED <<csrf, xsrfCookie, cookieUser, window, tally, spoiled, vain>>

\* Another user signs in; the cookie and the token that is kept stay.
\* Bound: this happens once.
SignInAs ==
  /\ cookieUser = "first"
  /\ cookieUser' = "second"
  /\ UNCHANGED <<csrf, xsrfCookie, window, http, tally, spoiled, vain>>

\* The hour of a token has passed, and the age of its cookie.
CsrfExpires(t) ==
  /\ t \in DOMAIN csrf /\ csrf[t].fresh
  /\ csrf' = [csrf EXCEPT ![t].fresh = FALSE]
  /\ xsrfCookie' = IF xsrfCookie = t THEN NoCsrf ELSE xsrfCookie
  /\ UNCHANGED <<cookieUser, window, http, tally, spoiled, vain>>

-----------------------------------------------------------------------------
(* The gates *)

verifyCsrfToken(w) ==
  /\ http[w].header /= NoCsrf /\ http[w].header = http[w].cookie
  /\ csrf[http[w].header].fresh
  /\ csrf[http[w].header].user = http[w].user

\* What a gate may do with the request: the count of the other
\* requests, its session, readiness, the body and the network are what they are.
LetsThrough(w, gate) ==
  IF gate = "csrfProtection" THEN {verifyCsrfToken(w)} ELSE BOOLEAN

\* Whether the gates may stop the request at their n-th, the earlier ones passed.
StopsAt(w, n) ==
  LET gates == Pipeline[http[w].route] IN
  /\ \A earlier \in 1..(n - 1) : TRUE \in LetsThrough(w, gates[earlier])
  /\ n <= Len(gates) => FALSE \in LetsThrough(w, gates[n])

Handled(w) ==
  /\ http[w].at = "gates" /\ StopsAt(w, Len(Pipeline[http[w].route]) + 1)
  /\ http' = Finished(w)
  /\ UNCHANGED <<csrf, xsrfCookie, cookieUser, window, tally, spoiled, vain>>

\* Mutant: the token that was refused is kept
AfterRefusal_KeepsToken(w) == window
AfterRefusal(w) == [window EXCEPT ![w] = NoCsrf]

\* A token no refusal was due to: the last one issued, to this user, this hour; and
\* one its window knew to be refused when it made the request is sent in vain.
InVain(w) ==
  \/ http[w].header = Len(csrf) /\ csrf[Len(csrf)].fresh /\ csrf[Len(csrf)].user = http[w].user
  \/ http[w].knew

\* 401: the cookies are refreshed, and the request is sent once more. 403: the next
\* request fetches another token. Otherwise the caller is told.
Turned(w) ==
  /\ http[w].at = "gates"
  /\ \E n \in DOMAIN Pipeline[http[w].route] :
      LET gate == Pipeline[http[w].route][n]
          again == Status[gate] = 401 /\ ~http[w].again
          forbidden == Status[gate] = 403
      IN
      /\ StopsAt(w, n)
      /\ IF again THEN RequestHeaders(w, http[w].route, TRUE)
         ELSE http' = Finished(w)
      /\ window' = IF forbidden THEN AfterRefusal(w) ELSE window
      /\ spoiled' = IF forbidden THEN spoiled \cup {http[w].header} ELSE spoiled
      /\ vain' = (vain \/ (forbidden /\ InVain(w)))
      /\ UNCHANGED <<csrf, xsrfCookie, cookieUser, tally>>

HttpNext ==
  \/ \E w \in Windows :
       \/ sendHttp(w) \/ FetchCsrfToken(w) \/ FetchRefused(w)
       \/ Fetch(w) \/ Handled(w) \/ Turned(w)
  \/ SignInAs
  \/ \E t \in Csrf : CsrfExpires(t)

-----------------------------------------------------------------------------
(* Readiness: getReadiness of health.js *)

VARIABLES
  profile,      \* what the environment asks for: redisUrl, redisRequired, docker
  alive,        \* dependency -> whether it answers
  probe         \* check -> its result, or none while it is awaited

readyVars == <<profile, alive, probe>>

NoResult == [ok |-> FALSE, required |-> FALSE, got |-> FALSE]
Result(ok, required) == [ok |-> ok, required |-> required, got |-> TRUE]
Checks == {"database", "docker", "redis", "registered redis"}

ReadyInit ==
  /\ profile \in [redisUrl : BOOLEAN, redisRequired : BOOLEAN, docker : BOOLEAN]
  /\ alive \in [{"database", "docker", "redis"} -> BOOLEAN]
  /\ probe = [c \in Checks |-> NoResult]

\* checkDatabase, checkDocker, checkRedis without a client, and the check that
\* index.js registers under the name redis.
CheckEnds(c) ==
  /\ ~probe[c].got
  /\ \E answered \in BOOLEAN :
       probe' = [probe EXCEPT ![c] =
         CASE c = "database" -> Result(alive["database"] /\ answered, TRUE)
           [] c = "docker" -> IF profile.docker THEN Result(alive["docker"] /\ answered, TRUE)
                              ELSE Result(TRUE, FALSE)
           [] c = "redis" -> IF profile.redisUrl THEN Result(FALSE, TRUE)
                             ELSE Result(~profile.redisRequired, profile.redisRequired)
           [] OTHER -> IF profile.redisUrl THEN Result(alive["redis"] /\ answered, TRUE)
                       ELSE Result(TRUE, FALSE)]
  /\ UNCHANGED <<profile, alive>>

Flaps(d) ==
  /\ \E c \in Checks : ~probe[c].got
  /\ alive' = [alive EXCEPT ![d] = ~@]
  /\ UNCHANGED <<profile, probe>>

ReadyNext == (\E c \in Checks : CheckEnds(c)) \/ \E d \in DOMAIN alive : Flaps(d)

\* A registered check takes the place of the built-in one of its name.
\* Mutant: the built-in checks come last
Counting_BuiltIn == {"database", "docker", "redis"}
Counting == {"database", "docker", IF profile.redisUrl THEN "registered redis" ELSE "redis"}

Ready == \A c \in Counting : probe[c].required => probe[c].ok

-----------------------------------------------------------------------------
HttpTypeOK ==
  /\ tally \in 0..MaxHttp /\ Len(csrf) <= MaxCsrf
  /\ xsrfCookie \in 0..Len(csrf) /\ \A w \in Windows : window[w] \in 0..Len(csrf)
  /\ \A w \in Windows :
       /\ http[w].at \in {"idle", "waiting", "headers", "gates"}
       /\ http[w].at = "waiting" => window[w] = NoCsrf

ReadyTypeOK == \A c \in Checks : probe[c].ok => probe[c].got

\* A token that was fetched last, for the present user, within the hour, is not
\* refused; and a window does not send a token it has seen refused.
NoVainRefusal == ~vain

\* The server is ready exactly if what its environment asks for has answered.
ReadyIfNeededAnswer ==
  (\A c \in Checks : probe[c].got) =>
    (Ready <=> /\ probe["database"].ok
               /\ profile.docker => probe["docker"].ok
               /\ profile.redisUrl => probe["registered redis"].ok
               /\ ~(profile.redisRequired /\ ~profile.redisUrl))

ChecksAreOver == \A c \in Checks : probe[c].got
=============================================================================
