--------------------------- MODULE WorkerIdentity ---------------------------
(***************************************************************************)
(* How a worker process learns who it is and for whom it works             *)
(* (auth/service_identity.py, auth/oidc.py).                               *)
(*                                                                         *)
(* A worker call takes an access token from the cache of                   *)
(* ClientCredentialsTokenProvider, or asks for one while it holds the      *)
(* provider's lock, and has OIDCVerifier check it: against the cached      *)
(* signing keys, or against the keys it fetches under the verifier's lock  *)
(* after the discovery document.  An owner call reads the run owner's      *)
(* user, groups and roles from the directory in three requests, which the  *)
(* directory may change between.  The calls interleave at every await.     *)
(*                                                                         *)
(* The identity provider rotates its signing keys and answers, refuses or  *)
(* fails as it likes.  Signatures, claims and URLs are abstracted to the   *)
(* key a token is signed with and the time it expires.                     *)
(***************************************************************************)
EXTENDS Integers, FiniteSets

CONSTANTS
    WorkerCalls,    \* calls of OIDCWorkerIdentityProvider.resolve
    OwnerCalls,     \* calls of KeycloakPrincipalResolver.resolve
    SigningKeyIds,
    OwnerTenants,
    RunTenant,      \* the tenant the durable run records for its owner
    Nobody,
    RefreshSkew,    \* refresh_skew_seconds
    Lifetimes,      \* the expires_in values the token endpoint grants
    Ages,           \* the max-age values the key endpoint announces
    CacheMin,       \* _MIN_CACHE_SECONDS
    CacheMax,       \* _MAX_CACHE_SECONDS
    LastInstant     \* bound on the clock

IdentityCalls == WorkerCalls \union OwnerCalls

ASSUME IdentityAssumption ==
    /\ WorkerCalls \intersect OwnerCalls = {}
    /\ RunTenant \in OwnerTenants
    /\ RefreshSkew \in Nat
    /\ Lifetimes \subseteq Nat /\ Ages \subseteq Nat
    /\ CacheMin \in Nat /\ CacheMax \in Nat /\ CacheMin <= CacheMax

VARIABLES
    instant,        \* the monotonic clock
    published,      \* the keys the provider signs with and publishes
    withdrawn,      \* when it withdrew a key
    directory,      \* the owner's entry
    accessToken,    \* the cached token of each token provider
    tokenLock,
    verifier,       \* the caches of OIDCVerifier
    verifierLock,
    identity        \* the calls

identityCallVars == <<accessToken, tokenLock, verifier, verifierLock, identity>>

identityProviderVars == <<instant, published, withdrawn, directory>>

workerIdentityVars == <<identityProviderVars, identityCallVars>>

Endpoints == {"worker", "owner"}

Endpoint(c) == IF c \in WorkerCalls THEN "worker" ELSE "owner"

NoToken == [key |-> Nobody, expires |-> 0]

NewIdentityCall ==
    [stage |-> "new", token |-> NoToken, began |-> 0, reply |-> {},
     cached |-> FALSE, at |-> 0, tenants |-> {}]

WorkerIdentityInit ==
    /\ instant = 0
    /\ \E k \in SigningKeyIds : published = {k}
    /\ withdrawn = [k \in SigningKeyIds |-> -1]
    /\ directory = [enabled |-> TRUE, direct |-> {RunTenant},
                    grouped |-> {}, roles |-> TRUE]
    /\ accessToken = [e \in Endpoints |-> NoToken]
    /\ tokenLock = [e \in Endpoints |-> Nobody]
    /\ verifier = [keys |-> {}, keysExpire |-> 0, discovery |-> 0]
    /\ verifierLock = Nobody
    /\ identity = [c \in IdentityCalls |-> NewIdentityCall]

------------------------------------------------------------------------------
(* The identity provider.                                                  *)

ClockAdvances ==
    /\ instant < LastInstant
    /\ instant' = instant + 1
    /\ UNCHANGED <<published, withdrawn, directory, identityCallVars>>

\* A withdrawn key does not come back: key ids are not reused.
RotateKey ==
    /\ \E new \in SigningKeyIds \ published :
        /\ withdrawn[new] = -1
        /\ published' = {new}
    /\ withdrawn' = [k \in SigningKeyIds |->
                        IF k \in published THEN instant ELSE withdrawn[k]]
    /\ UNCHANGED <<instant, directory, identityCallVars>>

EditOwner ==
    /\ OwnerCalls # {}
    /\ directory' \in [enabled : BOOLEAN, direct : SUBSET OwnerTenants,
                       grouped : SUBSET OwnerTenants, roles : BOOLEAN]
    /\ UNCHANGED <<instant, published, withdrawn, identityCallVars>>

------------------------------------------------------------------------------
(* ClientCredentialsTokenProvider.                                         *)

Usable(token) == token # NoToken /\ instant + RefreshSkew < token.expires

\* What a call does next with the token it has got.
Holding(call, token) == [call EXCEPT !.stage = "holding", !.token = token]

EndIdentity(c, outcome) == [identity EXCEPT ![c].stage = outcome]

TakeCachedToken(c) ==
    /\ identity[c].stage = "new"
    /\ Usable(accessToken[Endpoint(c)])
    /\ identity' = [identity EXCEPT ![c] = Holding(@, accessToken[Endpoint(c)])]
    /\ UNCHANGED <<identityProviderVars, accessToken, tokenLock, verifier, verifierLock>>

WaitForToken(c) ==
    /\ identity[c].stage = "new"
    /\ ~Usable(accessToken[Endpoint(c)])
    /\ identity' = [identity EXCEPT ![c].stage = "waiting"]
    /\ UNCHANGED <<identityProviderVars, accessToken, tokenLock, verifier, verifierLock>>

\* The lock is free: look at the cache once more, then ask.
LockToken(c) ==
    LET cached == accessToken[Endpoint(c)]
    IN  /\ identity[c].stage = "waiting"
        /\ tokenLock[Endpoint(c)] = Nobody
        /\ \/ /\ Usable(cached)
              /\ identity' = [identity EXCEPT ![c] = Holding(@, cached)]
              /\ UNCHANGED tokenLock
           \/ /\ ~Usable(cached)
              /\ identity' = [identity EXCEPT ![c].stage = "requesting"]
              /\ tokenLock' = [tokenLock EXCEPT ![Endpoint(c)] = c]
        /\ UNCHANGED <<identityProviderVars, accessToken, verifier, verifierLock>>

\* The grant arrives: it is signed with a key published now, its lifetime
\* counts from now.
TokenGranted(c) ==
    /\ identity[c].stage = "requesting"
    /\ \E key \in published, life \in Lifetimes :
        LET token == [key |-> key, expires |-> instant + life]
        IN  /\ accessToken' = [accessToken EXCEPT ![Endpoint(c)] = token]
            /\ identity' = [identity EXCEPT ![c] = Holding(@, token)]
    /\ tokenLock' = [tokenLock EXCEPT ![Endpoint(c)] = Nobody]
    /\ UNCHANGED <<identityProviderVars, verifier, verifierLock>>

\* An invalid client, an unavailable endpoint or a malformed grant.
TokenRefused(c) ==
    /\ identity[c].stage = "requesting"
    /\ identity' = EndIdentity(c, "unavailable")
    /\ tokenLock' = [tokenLock EXCEPT ![Endpoint(c)] = Nobody]
    /\ UNCHANGED <<identityProviderVars, accessToken, verifier, verifierLock>>

\* invalidate(): whatever token is cached is dropped, a newer one too.
Invalidated(c) == [accessToken EXCEPT ![Endpoint(c)] = NoToken]

------------------------------------------------------------------------------
(* OIDCVerifier.                                                           *)

\* Mutant of CacheAge: the announced age is only bounded from below.
CacheAgeUncapped(age) == IF age < CacheMin THEN CacheMin ELSE age

CacheAge(age) ==
    IF age < CacheMin THEN CacheMin
    ELSE IF age > CacheMax THEN CacheMax ELSE age

\* Mutant of CacheServes: while the keys are fresh an unknown key id is
\* answered from them.
CacheServesUnknown(key) == instant < verifier.keysExpire

CacheServes(key) == key \in verifier.keys /\ instant < verifier.keysExpire

\* The signature is good; the token must not have expired.
Verdict(token, keys) ==
    IF token.key \in keys /\ instant < token.expires THEN "accepted" ELSE "rejected"

\* The call ends with the verdict; a rejection invalidates the token.
Conclude(c, keys, cached) ==
    LET verdict == Verdict(identity[c].token, keys)
    IN  /\ identity' = [identity EXCEPT ![c].stage = verdict, ![c].cached = cached,
                                        ![c].at = instant]
        /\ accessToken' = IF verdict = "rejected" THEN Invalidated(c) ELSE accessToken

VerifyFromCache(c) ==
    /\ c \in WorkerCalls
    /\ identity[c].stage = "holding"
    /\ verifierLock = Nobody
    /\ CacheServes(identity[c].token.key)
    /\ Conclude(c, verifier.keys, TRUE)
    /\ UNCHANGED <<identityProviderVars, tokenLock, verifier, verifierLock>>

\* The keys are stale, or the key id is unknown: refresh under the lock.
BeginRefresh(c) ==
    /\ c \in WorkerCalls
    /\ identity[c].stage = "holding"
    /\ verifierLock = Nobody
    /\ ~CacheServes(identity[c].token.key)
    /\ verifierLock' = c
    /\ identity' = [identity EXCEPT
                        ![c].stage = IF instant < verifier.discovery
                                     THEN "fetching" ELSE "discovering",
                        ![c].began = instant]
    /\ UNCHANGED <<identityProviderVars, accessToken, tokenLock, verifier>>

DiscoveryAnswered(c) ==
    /\ identity[c].stage = "discovering"
    /\ \E age \in Ages :
        verifier' = [verifier EXCEPT !.discovery = identity[c].began + CacheAge(age)]
    /\ identity' = [identity EXCEPT ![c].stage = "fetching"]
    /\ UNCHANGED <<identityProviderVars, accessToken, tokenLock, verifierLock>>

\* The provider reads its keys; the answer is still to arrive.
KeysServed(c) ==
    /\ identity[c].stage = "fetching"
    /\ identity' = [identity EXCEPT ![c].stage = "served", ![c].reply = published]
    /\ UNCHANGED <<identityProviderVars, accessToken, tokenLock, verifier, verifierLock>>

\* The keys of the answer are good from the moment the refresh began.
KeysArrive(c) ==
    /\ identity[c].stage = "served"
    /\ \E age \in Ages :
        verifier' = [verifier EXCEPT !.keys = identity[c].reply,
                                     !.keysExpire = identity[c].began + CacheAge(age)]
    /\ verifierLock' = Nobody
    /\ Conclude(c, identity[c].reply, FALSE)
    /\ UNCHANGED <<identityProviderVars, tokenLock>>

\* The document cannot be fetched or is not valid: the old keys stay, and
\* the call fails although the token may be good.
RefreshFails(c) ==
    /\ identity[c].stage \in {"discovering", "fetching", "served"}
    /\ verifierLock' = Nobody
    /\ identity' = EndIdentity(c, "unavailable")
    /\ UNCHANGED <<identityProviderVars, accessToken, tokenLock, verifier>>

------------------------------------------------------------------------------
(* KeycloakPrincipalResolver.                                              *)

\* A request the directory refuses because of the token invalidates it.
DirectoryFails(c) ==
    /\ c \in OwnerCalls
    /\ identity[c].stage \in {"holding", "groups", "roles"}
    /\ identity' = EndIdentity(c, "unavailable")
    /\ \/ UNCHANGED accessToken
       \/ accessToken' = Invalidated(c)
    /\ UNCHANGED <<identityProviderVars, tokenLock, verifier, verifierLock>>

\* What the call does with an answer: go on, or deny the owner.
Proceeds(c, good, stage, tenants) ==
    /\ identity' = [identity EXCEPT ![c].stage = IF good THEN stage ELSE "denied",
                                    ![c].tenants = tenants]
    /\ UNCHANGED <<identityProviderVars, accessToken, tokenLock, verifier, verifierLock>>

ReadUser(c) ==
    /\ c \in OwnerCalls
    /\ identity[c].stage = "holding"
    /\ Proceeds(c, directory.enabled, "groups", directory.direct)

\* _effective_attributes: the user's own attributes and the groups'.
ReadGroups(c) ==
    LET effective == identity[c].tenants \union directory.grouped
    IN  /\ identity[c].stage = "groups"
        /\ Proceeds(c, effective = {RunTenant}, "roles", effective)

ReadRoles(c) ==
    /\ identity[c].stage = "roles"
    /\ Proceeds(c, directory.roles, "resolved", identity[c].tenants)

------------------------------------------------------------------------------
TokenStep(c) ==
    \/ TakeCachedToken(c)
    \/ WaitForToken(c)
    \/ LockToken(c)
    \/ TokenGranted(c)
    \/ TokenRefused(c)

VerifierStep(c) ==
    \/ VerifyFromCache(c)
    \/ BeginRefresh(c)
    \/ DiscoveryAnswered(c)
    \/ KeysServed(c)
    \/ KeysArrive(c)
    \/ RefreshFails(c)

OwnerStep(c) ==
    \/ DirectoryFails(c)
    \/ ReadUser(c)
    \/ ReadGroups(c)
    \/ ReadRoles(c)

WorkerIdentityNext ==
    \/ ClockAdvances
    \/ RotateKey
    \/ EditOwner
    \/ \E c \in IdentityCalls :
        TokenStep(c) \/ VerifierStep(c) \/ OwnerStep(c)

WorkerIdentitySpec == WorkerIdentityInit /\ [][WorkerIdentityNext]_workerIdentityVars

------------------------------------------------------------------------------
(* Properties.                                                             *)

\* However the rotation of keys, slow answers and other calls' refreshes
\* interleave, a token is rejected only when its key has been withdrawn or
\* it has expired: a token signed with a key newer than the cache makes the
\* verifier refresh (_get_signing_key), and the refresh finds the key.
LiveTokenIsAccepted ==
    \A c \in WorkerCalls :
        identity[c].stage = "rejected" =>
            \/ withdrawn[identity[c].token.key] >= 0
            \/ identity[c].at >= identity[c].token.expires

\* A withdrawn key is accepted from the cache for less than
\* _MAX_CACHE_SECONDS after its withdrawal, whatever age the provider
\* announced and however late its answer came (_refresh_keys counts the age
\* from before the request).
WithdrawnKeyExpires ==
    \A c \in WorkerCalls :
        LET w == withdrawn[identity[c].token.key]
        IN  identity[c].stage = "accepted" /\ identity[c].cached /\ w >= 0 =>
                identity[c].at < w + CacheMax

\* The cached keys follow the rotation of the keys: a good token is never
\* refused for a stale cache, a withdrawn key is not accepted for ever.
KeysFollowRotation == LiveTokenIsAccepted /\ WithdrawnKeyExpires
=============================================================================
