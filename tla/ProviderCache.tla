--------------------------- MODULE ProviderCache ---------------------------
(***************************************************************************)
(* RemoteVerifier (internal/oidc/verifier.go): the per-issuer cache of     *)
(* OIDC providers, shared by every /sign request of the process.           *)
(*                                                                         *)
(* A request that brings a token of an issuer the policy names takes that  *)
(* issuer's entry mutex, returns the cached provider while it is younger   *)
(* than jwksTTL, backs off for discoveryRetryDelay after a failure, and    *)
(* otherwise runs discovery plus a JWKS pre-flight with the mutex held.    *)
(* It then verifies the token outside the mutex, with the provider it was  *)
(* handed; that provider fetches its keys lazily (go-oidc).                *)
(*                                                                         *)
(* Time.  The code compares time.Now().Sub(t) with a bound and never looks *)
(* at t otherwise, so an instant is kept as its age in clock ticks, which  *)
(* stops counting at the bound it is compared with.  The model therefore   *)
(* runs for ever in finitely many states: no horizon is assumed.           *)
(***************************************************************************)
EXTENDS Naturals, FiniteSets

CONSTANTS
    Issuers,      \* issuers that policy rules may reference
    Requests,     \* handler goroutines; one serves any number of requests in turn
    Keys,         \* signing keys the issuers may publish in their JWKS
    Providers,    \* identities of the *gooidc.Provider values on the heap
    JwksTTL,      \* jwksTTL in ticks
    RetryDelay,   \* discoveryRetryDelay in ticks
    Nobody,       \* the entry mutex is free
    NoProvider,   \* the nil *gooidc.Provider
    SlowIssuer    \* an issuer whose endpoints may hang (no issuer, if none does)

ASSUME ConstantsAssumption ==
    /\ JwksTTL \in Nat /\ RetryDelay \in Nat
    /\ 0 < RetryDelay /\ RetryDelay <= JwksTTL   \* 5 s and 10 min in the code
    /\ Nobody \notin Requests
    /\ NoProvider \notin Providers

VARIABLES
    \* providerEntry, one per issuer
    mu,           \* who holds the entry mutex
    provider,     \* the cached provider
    age,          \* now - fetchedAt, counted up to JwksTTL
    err,          \* err # nil
    failAge,      \* now - failedAt, counted up to RetryDelay
    \* providers
    keysOf,       \* keys a provider has fetched ({}: none yet)
    \* requests
    pc, issuer, key,
    held,         \* the provider the request verifies with
    cancelled,    \* the request's context is done
    outcome,
    \* the issuers (environment)
    discUp, jwksUp,  \* the endpoint answers (discovery: with a usable document)
    published        \* the keys in the JWKS

entryVars == <<mu, provider, age, err, failAge>>
reqVars   == <<pc, issuer, key, held, cancelled, outcome>>
idpVars   == <<discUp, jwksUp, published>>
vars == <<entryVars, keysOf, reqVars, idpVars>>

Discovering == {"discovering", "preflight"}
Active      == {"locking", "verifying", "fetching", "claims"} \cup Discovering
Outcomes    == {"none", "verified", "rejected", "discovery_failed",
                "keys_unavailable", "bad_signature", "time_claims"}

Healthy(i) == discUp[i] /\ jwksUp[i]

\* An age after one more tick.  (Mutant: ages are not capped.)
UncappedLater(t, cap) == t + 1
Later(t, cap) == IF t < cap THEN t + 1 ELSE cap

\* Providers nobody refers to: what a new one may be allocated as.
Unused == {p \in Providers : /\ \A i \in Issuers : provider[i] # p
                             /\ \A r \in Requests : held[r] # p}
NewProvider == CHOOSE p \in Unused : TRUE

Init ==
    /\ mu = [i \in Issuers |-> Nobody]
    /\ provider = [i \in Issuers |-> NoProvider]
    /\ age = [i \in Issuers |-> JwksTTL]
    /\ err = [i \in Issuers |-> FALSE]
    /\ failAge = [i \in Issuers |-> RetryDelay]
    /\ keysOf = [p \in Providers |-> {}]
    /\ pc = [r \in Requests |-> "idle"]
    /\ issuer \in [Requests -> Issuers]
    /\ key \in [Requests -> Keys]
    /\ held = [r \in Requests |-> NoProvider]
    /\ cancelled = [r \in Requests |-> FALSE]
    /\ outcome = [r \in Requests |-> "none"]
    /\ discUp \in [Issuers -> BOOLEAN]
    /\ jwksUp \in [Issuers -> BOOLEAN]
    /\ published \in [Issuers -> SUBSET Keys]

----------------------------------------------------------------------------
(* A request *)

Goto(r, label) == pc' = [pc EXCEPT ![r] = label]

\* Verify returns; the provider it held becomes garbage.
Finish(r, how) ==
    /\ Goto(r, "done")
    /\ outcome' = [outcome EXCEPT ![r] = how]
    /\ held' = [held EXCEPT ![r] = NoProvider]

\* A request arrives: its token names issuer i and is signed with key k.
Arrive(r, i, k) ==
    /\ pc[r] \in {"idle", "done"}
    /\ Goto(r, "locking")
    /\ issuer' = [issuer EXCEPT ![r] = i]
    /\ key' = [key EXCEPT ![r] = k]
    /\ cancelled' = [cancelled EXCEPT ![r] = FALSE]
    /\ outcome' = [outcome EXCEPT ![r] = "none"]
    /\ UNCHANGED <<entryVars, keysOf, held, idpVars>>

\* A malformed token, or one whose issuer no policy rule names, is denied
\* before the cache is looked at.
ArriveRejected(r) ==
    /\ pc[r] \in {"idle", "done"}
    /\ Finish(r, "rejected")
    /\ cancelled' = [cancelled EXCEPT ![r] = FALSE]
    /\ UNCHANGED <<entryVars, keysOf, issuer, key, idpVars>>

\* The client goes away.  Neither the mutex nor a cached key waits for the
\* context: only the outbound fetches notice.
Cancel(r) ==
    /\ pc[r] \in Active /\ ~cancelled[r]
    /\ cancelled' = [cancelled EXCEPT ![r] = TRUE]
    /\ UNCHANGED <<entryVars, keysOf, pc, issuer, key, held, outcome, idpVars>>

\* The request leaves provider() with provider p and starts verifying.
Hand(r, p) ==
    /\ Goto(r, "verifying")
    /\ held' = [held EXCEPT ![r] = p]
    /\ UNCHANGED outcome

\* e.mu.Lock() returns.  (Mutants: no entry mutex; one mutex for all issuers.)
NoLock(r) == pc[r] = "locking"
OneLock(r) == pc[r] = "locking" /\ \A i \in Issuers : mu[i] = Nobody
Lock(r) == pc[r] = "locking" /\ mu[issuer[r]] = Nobody

\* The mutex is released.  (Mutant: not when the request was cancelled.)
UnlockUnlessCancelled(r) ==
    mu' = IF cancelled[r] THEN mu ELSE [mu EXCEPT ![issuer[r]] = Nobody]
Unlock(r) == mu' = [mu EXCEPT ![issuer[r]] = Nobody]

\* The cached provider is young enough.  (Mutant: any provider is.)
AnyProvider(i) == provider[i] # NoProvider
FreshProvider(i) == provider[i] # NoProvider /\ age[i] < JwksTTL

\* A failure is too recent to try again.  (Mutants: every failure is; none is.)
BackingOffForEver(i) == err[i]
NeverBackingOff(i) == FALSE
BackingOff(i) == err[i] /\ failAge[i] < RetryDelay

\* No new provider: the stale one serves if there is one, else the request is
\* denied.  (Mutant: denied in any case.)
DenyWithoutRefresh(r) == Finish(r, "discovery_failed")
StaleOrDeny(r) ==
    LET p == provider[issuer[r]] IN
    IF p # NoProvider THEN Hand(r, p) ELSE Finish(r, "discovery_failed")

\* A failed fetch says something about the issuer.  (Mutant: it always does.)
AlwaysCounts(r) == TRUE
FailureCounts(r) == ~cancelled[r]

CacheHit(r) ==
    /\ Lock(r) /\ FreshProvider(issuer[r])
    /\ Hand(r, provider[issuer[r]])
    /\ UNCHANGED <<entryVars, keysOf, issuer, key, cancelled, idpVars>>

\* Within discoveryRetryDelay of a failure: the stale provider, or an error.
BackOff(r) ==
    /\ Lock(r) /\ ~FreshProvider(issuer[r]) /\ BackingOff(issuer[r])
    /\ StaleOrDeny(r)
    /\ UNCHANGED <<entryVars, keysOf, issuer, key, cancelled, idpVars>>

\* Discovery starts; the mutex stays held until it has ended.
StartDiscovery(r) ==
    /\ Lock(r) /\ ~FreshProvider(issuer[r]) /\ ~BackingOff(issuer[r])
    /\ mu' = [mu EXCEPT ![issuer[r]] = r]
    /\ Goto(r, "discovering")
    /\ UNCHANGED <<provider, age, err, failAge, keysOf, issuer, key, held, cancelled, outcome, idpVars>>

\* A fetch of discoverProvider fails.  The failure is remembered unless the
\* request's own context is done; a stale provider keeps serving.
RefreshFails(r) ==
    /\ Unlock(r)
    /\ IF FailureCounts(r)
       THEN /\ err' = [err EXCEPT ![issuer[r]] = TRUE]
            /\ failAge' = [failAge EXCEPT ![issuer[r]] = 0]
       ELSE UNCHANGED <<err, failAge>>
    /\ StaleOrDeny(r)
    /\ UNCHANGED <<provider, age, keysOf, issuer, key, cancelled, idpVars>>

DiscoveryAnswers(r) ==
    /\ pc[r] = "discovering" /\ discUp[issuer[r]]
    /\ Goto(r, "preflight")
    /\ UNCHANGED <<entryVars, keysOf, issuer, key, held, cancelled, outcome, idpVars>>

DiscoveryFails(r) ==
    /\ pc[r] = "discovering" /\ (~discUp[issuer[r]] \/ cancelled[r])
    /\ RefreshFails(r)

PreflightFails(r) ==
    /\ pc[r] = "preflight" /\ (~jwksUp[issuer[r]] \/ cancelled[r])
    /\ RefreshFails(r)

\* The JWKS endpoint serves a key set (an empty one will do): the new
\* provider, which has fetched no keys yet, replaces the cached one.
PreflightAnswers(r) ==
    LET i == issuer[r] IN
    /\ pc[r] = "preflight" /\ jwksUp[i]
    /\ Unused # {}
    /\ provider' = [provider EXCEPT ![i] = NewProvider]
    /\ keysOf' = [keysOf EXCEPT ![NewProvider] = {}]
    /\ Hand(r, NewProvider)
    /\ age' = [age EXCEPT ![i] = 0]
    /\ err' = [err EXCEPT ![i] = FALSE]
    /\ Unlock(r)
    /\ UNCHANGED <<failAge, issuer, key, cancelled, idpVars>>

\* go-oidc: try the keys the provider has, and fetch the JWKS if none fits.
VerifyCached(r) ==
    /\ pc[r] = "verifying"
    /\ Goto(r, IF key[r] \in keysOf[held[r]] THEN "claims" ELSE "fetching")
    /\ UNCHANGED <<entryVars, keysOf, issuer, key, held, cancelled, outcome, idpVars>>

FetchAnswers(r) ==
    LET i == issuer[r] IN
    /\ pc[r] = "fetching" /\ jwksUp[i]
    /\ keysOf' = [keysOf EXCEPT ![held[r]] = published[i]]
    /\ \/ /\ key[r] \in published[i] /\ Goto(r, "claims")
          /\ UNCHANGED <<held, outcome>>
       \/ key[r] \notin published[i] /\ Finish(r, "bad_signature")
    /\ UNCHANGED <<entryVars, issuer, key, cancelled, idpVars>>

FetchFails(r) ==
    /\ pc[r] = "fetching" /\ (~jwksUp[issuer[r]] \/ cancelled[r])
    /\ Finish(r, "keys_unavailable")
    /\ UNCHANGED <<entryVars, keysOf, issuer, key, cancelled, idpVars>>

\* exp, nbf and iat against the clock: either verdict, their values are data.
CheckClaims(r) ==
    /\ pc[r] = "claims"
    /\ \E how \in {"verified", "time_claims"} : Finish(r, how)
    /\ UNCHANGED <<entryVars, keysOf, issuer, key, cancelled, idpVars>>

----------------------------------------------------------------------------
(* The issuers and the clock *)

\* The endpoints start or stop serving.
Endpoints(i) ==
    /\ \E d, j \in BOOLEAN : /\ <<d, j>> # <<discUp[i], jwksUp[i]>>
                             /\ discUp' = [discUp EXCEPT ![i] = d]
                             /\ jwksUp' = [jwksUp EXCEPT ![i] = j]
    /\ UNCHANGED <<entryVars, keysOf, reqVars, published>>

\* The issuer changes the keys it publishes.
Publish(i) ==
    /\ \E K \in SUBSET Keys \ {published[i]} :
          published' = [published EXCEPT ![i] = K]
    /\ UNCHANGED <<entryVars, keysOf, reqVars, discUp, jwksUp>>

Tick ==
    /\ age' = [i \in Issuers |-> Later(age[i], JwksTTL)]
    /\ failAge' = [i \in Issuers |-> Later(failAge[i], RetryDelay)]
    /\ UNCHANGED <<mu, provider, err, keysOf, reqVars, idpVars>>

----------------------------------------------------------------------------
Lookup(r) == CacheHit(r) \/ BackOff(r) \/ StartDiscovery(r)

\* Steps that end an outbound fetch for r.
Io(r) == \/ DiscoveryAnswers(r) \/ DiscoveryFails(r)
         \/ PreflightAnswers(r) \/ PreflightFails(r)
         \/ FetchAnswers(r) \/ FetchFails(r)

Local(r) == VerifyCached(r) \/ CheckClaims(r)

Client(r) == \/ \E i \in Issuers, k \in Keys : Arrive(r, i, k)
             \/ ArriveRejected(r)
             \/ Cancel(r)

Timeless == \/ \E r \in Requests : Client(r) \/ Lookup(r) \/ Io(r) \/ Local(r)
            \/ \E i \in Issuers : Endpoints(i) \/ Publish(i)

Next == Timeless \/ Tick

Spec == Init /\ [][Next]_vars

\* A runnable goroutine runs, and the HTTP client's 10 s timeout ends every
\* fetch (but SlowIssuer's: for it, 10 s may as well be for ever).  A
\* sync.Mutex hands itself to a waiter that has starved for 1 ms, so one that
\* finds the mutex free again and again gets it.
Fairness ==
    \A r \in Requests : /\ SF_vars(Lookup(r))
                        /\ WF_vars(Local(r))
                        /\ WF_vars(issuer[r] # SlowIssuer /\ Io(r))

FairSpec == Spec /\ Fairness

----------------------------------------------------------------------------
(* Properties of the cache alone; ProviderCacheHistory has the others. *)

TypeOK ==
    /\ mu \in [Issuers -> Requests \cup {Nobody}]
    /\ provider \in [Issuers -> Providers \cup {NoProvider}]
    /\ age \in [Issuers -> 0..JwksTTL]
    /\ err \in [Issuers -> BOOLEAN]
    /\ failAge \in [Issuers -> 0..RetryDelay]
    /\ keysOf \in [Providers -> SUBSET Keys]
    /\ pc \in [Requests -> Active \cup {"idle", "done"}]
    /\ issuer \in [Requests -> Issuers]
    /\ key \in [Requests -> Keys]
    /\ held \in [Requests -> Providers \cup {NoProvider}]
    /\ cancelled \in [Requests -> BOOLEAN]
    /\ outcome \in [Requests -> Outcomes]
    /\ discUp \in [Issuers -> BOOLEAN]
    /\ jwksUp \in [Issuers -> BOOLEAN]
    /\ published \in [Issuers -> SUBSET Keys]

\* "Discovery is serialized per issuer": never two outbound discoveries for
\* one issuer at a time, whatever requests arrive, fail or are cancelled.
OneDiscoveryPerIssuer ==
    \A r, s \in Requests :
        pc[r] \in Discovering /\ pc[s] \in Discovering /\ issuer[r] = issuer[s] => r = s

\* The entry mutex outlives no discovery, however it ends: who holds it has a
\* fetch for that issuer under way, so a waiter waits for nothing else.
MutexIsNeverAbandoned ==
    \A i \in Issuers : mu[i] # Nobody =>
        pc[mu[i]] \in Discovering /\ issuer[mu[i]] = i

\* A failed, cancelled or slow discovery never leaves the entry mutex locked
\* and no waiter starves on it: every request is answered, and a slow issuer
\* delays only the requests that bring one of its own tokens.
EveryRequestEnds ==
    \A r \in Requests :
        pc[r] \in Active /\ issuer[r] # SlowIssuer ~> pc[r] = "done"
=============================================================================
