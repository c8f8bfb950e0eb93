----------------------- MODULE ProviderCacheHistory ------------------------
(***************************************************************************)
(* What the provider cache promises about the past of its issuers.         *)
(*                                                                         *)
(* The history variables watch ProviderCache from outside: they follow the *)
(* issuers' endpoints and keys, and what requests are seen to do, and no   *)
(* action of the cache reads them.  The properties compare the cache's own *)
(* bookkeeping (fetchedAt, err, failedAt) with them.                       *)
(***************************************************************************)
EXTENDS ProviderCache

VARIABLES
    gone,         \* ticks since an issuer last published a key, up to JwksTTL
    upFor,        \* ticks both its endpoints have been serving, up to RetryDelay
    failedFor,    \* ticks since a discovery failed for a client still there
    served,       \* a discovery has succeeded
    worked,       \* keys once fetched from an issuer, and published ever since
    justified,    \* the issuer's JWKS justifies accepting the request's key
    clean         \* nothing has happened that could excuse denying the request

history == <<gone, upFor, failedFor, served, worked, justified, clean>>
hvars == <<vars, history>>

\* The issuer has been well for discoveryRetryDelay and the client is there.
Calm(r) == upFor[issuer[r]] = RetryDelay /\ ~cancelled[r]

\* What a step of the cache is seen to do.
Arrives(r) == pc[r] \notin Active /\ pc'[r] \in Active
Leaves(r)  == pc[r] \in {"locking"} \cup Discovering /\ pc'[r] = "verifying"
Fails(r)   == /\ pc[r] \in Discovering /\ pc'[r] \notin Discovering
              /\ pc[r] = "discovering" \/ ~jwksUp[issuer[r]]
              /\ ~cancelled[r]

HistoryInit ==
    /\ gone = [i \in Issuers |-> [k \in Keys |->
                  IF k \in published[i] THEN 0 ELSE JwksTTL]]
    /\ upFor = [i \in Issuers |-> IF Healthy(i) THEN RetryDelay ELSE 0]
    /\ failedFor = [i \in Issuers |-> RetryDelay]
    /\ served = [i \in Issuers |-> FALSE]
    /\ worked = [i \in Issuers |-> {}]
    /\ justified = [r \in Requests |-> FALSE]
    /\ clean = [r \in Requests |-> FALSE]

Watch ==
    /\ gone' = [i \in Issuers |-> [k \in Keys |->
                  IF k \in published'[i] THEN 0 ELSE gone[i][k]]]
    /\ upFor' = [i \in Issuers |->
                  IF discUp'[i] /\ jwksUp'[i] THEN upFor[i] ELSE 0]
    /\ failedFor' = [i \in Issuers |->
                  IF \E r \in Requests : issuer[r] = i /\ Fails(r) THEN 0 ELSE failedFor[i]]
    /\ served' = [i \in Issuers |-> served[i] \/ provider'[i] # NoProvider]
    /\ worked' = [i \in Issuers |-> published'[i] \cap
                  (worked[i] \cup IF provider'[i] = NoProvider THEN {}
                                  ELSE keysOf'[provider'[i]])]
    /\ justified' = [r \in Requests |->
          IF Leaves(r) THEN Calm(r) => gone[issuer[r]][key[r]] < JwksTTL
          ELSE /\ ~Arrives(r)
               /\ justified[r] \/ (held[r] # NoProvider /\ key[r] \in published'[issuer[r]])]
    /\ clean' = [r \in Requests |->
          /\ IF Arrives(r) THEN upFor[issuer'[r]] = RetryDelay ELSE clean[r]
          /\ pc[r] \in Active \/ Arrives(r) =>
                /\ discUp'[issuer'[r]] /\ jwksUp'[issuer'[r]]
                /\ key'[r] \in published'[issuer'[r]]
                /\ ~cancelled'[r]]

Pass ==
    /\ gone' = [i \in Issuers |-> [k \in Keys |->
                  IF k \in published[i] THEN 0 ELSE Later(gone[i][k], JwksTTL)]]
    /\ upFor' = [i \in Issuers |-> IF Healthy(i) THEN Later(upFor[i], RetryDelay) ELSE 0]
    /\ failedFor' = [i \in Issuers |-> Later(failedFor[i], RetryDelay)]
    /\ UNCHANGED <<served, worked, justified, clean>>

HInit == Init /\ HistoryInit
HNext == (Timeless /\ Watch) \/ (Tick /\ Pass)
HSpec == HInit /\ [][HNext]_hvars

HistoryTypeOK ==
    /\ TypeOK
    /\ gone \in [Issuers -> [Keys -> 0..JwksTTL]]
    /\ upFor \in [Issuers -> 0..RetryDelay]
    /\ failedFor \in [Issuers -> 0..RetryDelay]
    /\ served \in [Issuers -> BOOLEAN]
    /\ worked \in [Issuers -> SUBSET Keys]
    /\ justified \in [Requests -> BOOLEAN]
    /\ clean \in [Requests -> BOOLEAN]

----------------------------------------------------------------------------
\* jwksTTL does its job: while an issuer is well, a token is accepted only
\* with a key the issuer published less than jwksTTL before provider() was
\* left, or later; the rotated-out keys that a cached provider, or one a slow
\* request still holds, remembers are not trusted longer.
RotatedKeysExpire ==
    \A r \in Requests : outcome[r] = "verified" => justified[r]

\* The negative cache tells the truth about the issuer: a remembered failure
\* is no older than the last moment the issuer was unwell.  A client that
\* goes away does not turn into a failure of the issuer.
NegativeCacheIsHonest == \A i \in Issuers : err[i] => upFor[i] <= failAge[i]

\* No needless denial: a request for an issuer that has been well for
\* discoveryRetryDelay and stays so, with a key it publishes all along and a
\* client that waits, is denied for what its token says or not at all.
HealthyIssuerServes ==
    \A r \in Requests :
        pc[r] = "done" /\ clean[r] => outcome[r] \in {"verified", "time_claims", "rejected"}

\* "A failed refresh must not drop key material": once a discovery for the
\* issuer has succeeded no request of it is ever denied for want of a
\* provider, however discovery fares from then on.
FailedRefreshKeepsProvider ==
    [][\A r \in Requests :
          outcome[r] = "none" /\ outcome'[r] = "discovery_failed"
              => ~served[issuer[r]]]_hvars

\* "Don't turn every request into an outbound attempt": after a failure that
\* is the issuer's, no discovery starts before discoveryRetryDelay is over.
RetryDelayRespected ==
    [][\A r \in Requests :
          pc[r] = "locking" /\ pc'[r] = "discovering"
              => failedFor[issuer[r]] = RetryDelay]_hvars

\* What the comment on RemoteVerifier says, "If any part of a refresh fails,
\* the previously fetched keys keep working": no request is denied because a
\* JWKS fetch failed when its key was fetched before and never withdrawn.
\* The code breaks it (a finding): the key set is fetched after the swap.
FetchedKeysKeepWorking ==
    [][\A r \in Requests :
          outcome[r] = "none" /\ outcome'[r] = "keys_unavailable" /\ ~cancelled[r]
              => key[r] \notin worked[issuer[r]]]_hvars

\* What the comment on jwksTTL says without reserve, that a rotated-out key
\* "stops being accepted within this window": no request leaves provider()
\* with a provider that accepts a key withdrawn jwksTTL ago.  The code breaks
\* it during an outage (a finding): the stale provider keeps serving.
JwksTTLBoundsTrust ==
    [][\A r \in Requests : Leaves(r) =>
          \A k \in keysOf'[held'[r]] : gone[issuer[r]][k] < JwksTTL]_hvars
=============================================================================
