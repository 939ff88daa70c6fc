----------------------------- MODULE Credentials -----------------------------
(***************************************************************************)
(* Who a request acts for, and with which keys                             *)
(* (auth/external-jwt.js, tenant.js, service-auth.js, middleware.js): the  *)
(* keys of the identity provider are cached for a time counted from before *)
(* they were asked for; a request acts for a tenant.  And the credentials  *)
(* of the providers of models (auth/agent-auth.js): calls that find their  *)
(* token refused share one refresh.                                        *)
(*                                                                         *)
(* A local session has no tenant, so authenticateFromHeaders throws for it *)
(* and, outside any handler of errors, its request is never answered.      *)
(***************************************************************************)
EXTENDS Naturals, Sequences, FiniteSets

CONSTANTS
  Kids,             \* keys of the identity provider
  IdTokens,           \* its tokens: kind external, kid, tenant and cross
  CacheTtl,
  MaxClock,
  Arrivals,         \* requests to the server
  Tenants,
  ProviderCalls,    \* calls to a provider of models
  MaxRefreshes

Nobody == "none"

ASSUME CredentialsAssumption ==
  /\ CacheTtl \in Nat /\ MaxClock \in Nat /\ MaxRefreshes \in Nat
  /\ IdTokens \subseteq [kind : {"external"}, kid : Kids, tenant : Tenants \cup {Nobody},
                        cross : BOOLEAN]

NotRetired == MaxClock + 1

VARIABLES
  clock,
  retired,      \* provider: key -> when it was retired
  jwksCache,    \* fetchedAt and keys
  arrival,      \* request -> where it is, its credential, and the tenant it acts for
  accepted,     \* history: retired keys, when their request came and when they were accepted
  credential,   \* the snapshot, its token, is it about to expire; is there a handler
  refreshShown, \* history: token -> how often its refresh token was shown in vain and in all
  refreshers,   \* calls that wait for the refresh in flight
  outward       \* call of a provider -> where it is, its attempt and token

keyVars == <<clock, retired, jwksCache, arrival, accepted>>
providerVars == <<credential, refreshShown, refreshers, outward>>

\* A credential: its kind, key, tenant, and whether it has a cross-tenant permission.
Credential(kind, kid, tenant, cross) ==
  [kind |-> kind, kid |-> kid, tenant |-> tenant, cross |-> cross]

NoCredential == Credential("none", "none", Nobody, FALSE)

KeysInit ==
  /\ clock = 0
  /\ \E k \in Kids : retired = [j \in Kids |-> IF j = k THEN NotRetired ELSE 0]
  /\ jwksCache = [fetchedAt |-> 0, keys |-> {}]
  /\ arrival = [r \in Arrivals |->
       [at |-> "new", with |-> NoCredential, asked |-> Nobody,
        since |-> 0, keys |-> {}, tenant |-> Nobody]]
  /\ accepted = {}

Tick ==
  /\ clock < MaxClock
  /\ clock' = clock + 1
  /\ UNCHANGED <<retired, jwksCache, arrival, accepted>>

\* The provider retires a key and signs with another.
Rotates(old, new) ==
  /\ retired[old] = NotRetired /\ retired[new] = 0
  /\ clock > 0
  /\ retired' = [retired EXCEPT ![old] = clock, ![new] = NotRetired]
  /\ UNCHANGED <<clock, jwksCache, arrival, accepted>>

Valid == {k \in Kids : retired[k] = NotRetired}

-----------------------------------------------------------------------------
(* Tenants. *)

\* Mutant: a requested tenant is taken as it comes
resolveTenantContext_AsAsked(own, asked, cross) == IF asked /= Nobody THEN asked ELSE own

\* The tenant asked for, or the own; Nobody when it may not be.
resolveTenantContext(own, asked, cross) ==
  IF asked = Nobody THEN own
  ELSE IF asked = own \/ cross THEN asked ELSE Nobody

ArrivalGoes(r, at, with, tenant) ==
  arrival' = [arrival EXCEPT ![r] =
    [at |-> at, with |-> with, asked |-> Nobody, since |-> 0, keys |-> {}, tenant |-> tenant]]

ArrivalEnds(r, at) == ArrivalGoes(r, at, NoCredential, Nobody)

\* attachTenantContext: the request goes on or is refused.
Attaches(r, with, asked) ==
  LET tenant == resolveTenantContext(with.tenant, asked, with.cross) IN
    IF tenant = Nobody THEN ArrivalEnds(r, "refused") ELSE ArrivalGoes(r, "acting", with, tenant)

\* The next request; they differ in name only.
Comes(r) ==
  LET new == {q \in Arrivals : arrival[q].at = "new"} IN
    r \in new /\ r = CHOOSE q \in new : TRUE

\* requireIntegrationAuth and requireScopedIntegrationUser: a service names the
\* user, and with it or apart the tenant.
ServiceActs(r, tenant) ==
  /\ Comes(r)
  /\ Attaches(r, Credential("service", "none", tenant, FALSE), tenant)
  /\ UNCHANGED <<clock, retired, jwksCache, accepted>>

\* requireAuth and optionalAuth without a valid credential.
Anonymous(r) ==
  /\ Comes(r)
  /\ \E at \in {"refused", "anonymous"} : ArrivalEnds(r, at)
  /\ UNCHANGED <<clock, retired, jwksCache, accepted>>

\* normalizeUser throws, and nobody answers.
LocalSession(r) ==
  /\ Comes(r)
  /\ ArrivalEnds(r, "unanswered")
  /\ UNCHANGED <<clock, retired, jwksCache, accepted>>

-----------------------------------------------------------------------------
(* IdTokens of the identity provider. *)

CacheIsFresh == jwksCache.keys /= {} /\ clock < jwksCache.fetchedAt + CacheTtl

\* A token may be good or bad in its other parts: algorithm, issuer, audience,
\* lifetime, subject.
Verified(r, with, asked, since, keys) ==
  \/ /\ with.kid \in keys
     /\ Attaches(r, with, asked)
     /\ accepted' = IF retired[with.kid] = NotRetired THEN accepted
                    ELSE accepted \cup {[kid |-> with.kid, since |-> since, at |-> clock]}
  \/ ArrivalEnds(r, "refused") /\ UNCHANGED accepted

verifyExternalJwt(r, with, asked) ==
  /\ Comes(r)
  /\ \/ CacheIsFresh /\ Verified(r, with, asked, clock, jwksCache.keys)
     \/ /\ ~CacheIsFresh
        /\ arrival' = [arrival EXCEPT ![r] =
             [at |-> "fetching", with |-> with, asked |-> asked, since |-> clock,
              keys |-> {}, tenant |-> Nobody]]
        /\ UNCHANGED accepted
  /\ UNCHANGED <<clock, retired, jwksCache>>

ProviderSendsKeys(r) ==
  /\ arrival[r].at = "fetching"
  /\ arrival' = [arrival EXCEPT ![r].at = "receiving", ![r].keys = Valid]
  /\ UNCHANGED <<clock, retired, jwksCache, accepted>>

\* Mutant: the age of the keys counts from their arrival
fetchedAt_OnArrival(r) == clock

fetchedAt(r) == arrival[r].since

KeysArrive(r) ==
  /\ arrival[r].at = "receiving"
  /\ jwksCache' = [fetchedAt |-> fetchedAt(r), keys |-> arrival[r].keys]
  /\ Verified(r, arrival[r].with, arrival[r].asked, arrival[r].since, arrival[r].keys)
  /\ UNCHANGED <<clock, retired>>

FetchFails(r) ==
  /\ arrival[r].at = "fetching"
  /\ ArrivalEnds(r, "refused")
  /\ UNCHANGED <<clock, retired, jwksCache, accepted>>

\* To ask for the own tenant changes nothing.
KeysNext ==
  \/ Tick
  \/ \E old, new \in Kids : Rotates(old, new)
  \/ \E r \in Arrivals :
       \/ Anonymous(r) \/ LocalSession(r)
       \/ \E t \in Tenants : ServiceActs(r, t)
       \/ \E w \in IdTokens : \E t \in (Tenants \ {w.tenant}) \cup {Nobody} : verifyExternalJwt(r, w, t)
       \/ ProviderSendsKeys(r) \/ KeysArrive(r) \/ FetchFails(r)

-----------------------------------------------------------------------------
(* Credentials of the providers of models.  Nothing loads OAuth credentials *)
(* today; an API key never expires and cannot be refreshed.                 *)

Issued == 1..(MaxRefreshes + 1)

ProviderInit ==
  /\ \E kind \in {"apiKey", "oauth"}, handler \in BOOLEAN :
       credential = [kind |-> kind, handler |-> handler, token |-> 1, old |-> FALSE]
  /\ refreshShown = [n \in Issued |-> [vain |-> 0, all |-> 0]]
  /\ refreshers = {}
  /\ outward = [c \in ProviderCalls |-> [at |-> "new", attempt |-> 1]]

OutwardGoes(c, at) == outward' = [outward EXCEPT ![c].at = at]

\* Mutant: every call refreshes for itself
forceRefresh_Alone(c) ==
  /\ refreshers' = refreshers \cup {c}
  /\ refreshShown' = [refreshShown EXCEPT ![credential.token].all = @ + 1]

\* A refresh in flight is joined.
forceRefresh(c) ==
  /\ refreshers' = refreshers \cup {c}
  /\ refreshShown' = IF refreshers /= {} THEN refreshShown
                     ELSE [refreshShown EXCEPT ![credential.token].all = @ + 1]

\* Without a handler the snapshot is deleted, and the call fails.
Refreshes(c, attempt) ==
  \/ /\ credential.handler
     /\ outward' = [outward EXCEPT ![c] = [at |-> "renewing", attempt |-> attempt]]
     /\ forceRefresh(c)
     /\ UNCHANGED credential
  \/ /\ ~credential.handler
     /\ OutwardGoes(c, "failed")
     /\ credential' = [credential EXCEPT !.kind = "none", !.old = FALSE]
     /\ UNCHANGED <<refreshers, refreshShown>>

\* auth: ensureFresh, then the token.  Without a snapshot the secrets are loaded
\* before, and a key may be among them.
auth(c) ==
  /\ outward[c].at = "new"
  /\ \/ /\ credential.kind /= "none" /\ ~credential.old
        /\ OutwardGoes(c, "sent")
        /\ UNCHANGED <<credential, refreshers, refreshShown>>
     \/ credential.old /\ Refreshes(c, outward[c].attempt)
     \/ /\ credential.kind = "none"
        /\ \/ OutwardGoes(c, "failed") /\ UNCHANGED credential
           \/ OutwardGoes(c, "sent") /\ credential' = [credential EXCEPT !.kind = "apiKey"]
        /\ UNCHANGED <<refreshers, refreshShown>>

TokenAges ==
  /\ credential.kind = "oauth" /\ ~credential.old
  /\ credential.token <= MaxRefreshes
  /\ refreshers = {}
  /\ credential' = [credential EXCEPT !.old = TRUE]
  /\ UNCHANGED <<refreshShown, refreshers, outward>>

ProviderAnswers(c) ==
  /\ outward[c].at = "sent"
  /\ \/ /\ \/ OutwardGoes(c, "answered")
           \/ /\ outward[c].attempt = 2 \/ credential.kind /= "oauth"
              /\ OutwardGoes(c, "failed")
        /\ UNCHANGED <<credential, refreshers, refreshShown>>
     \/ /\ outward[c].attempt = 1 /\ credential.kind = "oauth"
        /\ credential.token <= MaxRefreshes
        /\ Refreshes(c, 2)

\* A refresh that fails leaves the snapshot, and fails all who waited for it.
doRefresh(ok) ==
  /\ refreshers /= {}
  /\ refreshers' = {}
  /\ credential' = IF ok THEN [credential EXCEPT !.token = @ + 1, !.old = FALSE] ELSE credential
  /\ refreshShown' = IF ok THEN refreshShown
                     ELSE [refreshShown EXCEPT ![credential.token].vain = @ + 1]
  /\ outward' = [c \in ProviderCalls |->
       IF c \notin refreshers THEN outward[c]
       ELSE [outward[c] EXCEPT !.at = IF ok THEN "new" ELSE "failed"]]

OutwardStep(c) == auth(c) \/ ProviderAnswers(c)

ProviderNext ==
  \/ TokenAges
  \/ \E c \in ProviderCalls : OutwardStep(c)
  \/ \E ok \in BOOLEAN : doRefresh(ok)

OutwardProgress == (\E c \in ProviderCalls : OutwardStep(c)) \/ \E ok \in BOOLEAN : doRefresh(ok)

-----------------------------------------------------------------------------
KeysTypeOK ==
  /\ clock \in 0..MaxClock
  /\ retired \in [Kids -> 0..NotRetired]
  /\ jwksCache.fetchedAt \in 0..clock /\ jwksCache.keys \subseteq Kids
  /\ \A r \in Arrivals :
       /\ arrival[r].at \in {"new", "fetching", "receiving", "acting", "anonymous", "refused", "unanswered"}
       /\ arrival[r].tenant \in Tenants \cup {Nobody}
  /\ \A a \in accepted : a.since <= a.at

ProviderTypeOK ==
  /\ credential.token \in Issued
  /\ \A n \in Issued : refreshShown[n].vain <= refreshShown[n].all
  /\ refreshers = {c \in ProviderCalls : outward[c].at = "renewing"}
  /\ \A c \in ProviderCalls :
       outward[c].at \in {"new", "sent", "renewing", "answered", "failed"} /\ outward[c].attempt \in 1..2

\* However late its keys were sent or arrive, a key that was retired when a
\* request came is accepted for no longer than the cache keeps keys.
RetiredKeysExpire ==
  \A a \in accepted : retired[a.kid] >= a.since \/ a.at < retired[a.kid] + CacheTtl

\* Whoever acts for another tenant than that of its token has the permission.
TenantsAreApart ==
  \A r \in Arrivals :
    arrival[r].at = "acting" => arrival[r].with.cross \/ arrival[r].tenant = arrival[r].with.tenant

\* Calls that are refused together show the refresh token once, and again only
\* when a refresh failed.
RefreshIsShared == \A n \in Issued : refreshShown[n].all <= refreshShown[n].vain + 1

OutwardSettled == \A c \in ProviderCalls : outward[c].at \in {"answered", "failed"}
=============================================================================
