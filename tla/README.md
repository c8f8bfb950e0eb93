# oidc-ssh-ca in TLA+

oidc-ssh-ca is an SSH certificate authority behind one HTTP endpoint, `POST
/sign`.  A CI job sends a public key and an OIDC token; the server verifies the
token against its issuer's published keys, asks `policy.yaml` whether exactly
one rule matches its claims, and answers a short-lived certificate.  It keeps no
database.  Its state is the policy in force, which a signal reloads, and a cache
of OIDC providers, which every request shares.

What is hard here is not the happy path but what can lie between two of its
steps: a token verification can wait on a mutex and on three outbound fetches,
and meanwhile policies are reloaded, keys rotated, endpoints fail, clients leave,
the process is restarted and the operator pulls the emergency stop.

## 1. Inventory

| Part | Source | State | Operations | Talks to |
|---|---|---|---|---|
| Provider cache | `internal/oidc/verifier.go:46-240` | `providers` (map, `v.mu`); per issuer `provider`, `fetchedAt`, `err`, `failedAt` under `e.mu` | `provider`, `discoverProvider`, `checkJWKS` | issuers over HTTP, go-oidc's lazy key set |
| Token verification | `verifier.go:88-131,242-296` | the provider a request holds | `Verify`, `unverifiedIssuer`, `checkTimeClaims` | provider cache, clock |
| `/sign` pipeline | `internal/server/server.go` | `policy` (atomic pointer) | `handleSign`, `Sign`, `deny`, `SetPolicy` | all the others |
| Serve process | `cmd/oidc-ssh-ca/serve.go` | the SIGHUP channel, the reload goroutine, the listener | start, reload, drain, exit | policy file, signals |
| Policy | `internal/policy/policy.go`, `match.go` | none (a value) | `Load`, `Validate`, defaults, `Issuers`, `Evaluate`, `ExplainRule` | pipeline, CLI |
| Key IDs | `internal/policy/keyid.go` | none | `templateVars`, `ExpandKeyID` | policy, pipeline, CLI |
| Audit log | `internal/audit/audit.go` | stdout | `Issued`, `Denied` | pipeline |
| Issuing | `internal/issuer/issuer.go` | none | `Issue` | pipeline, clock |
| CA key | `cakey.go` | an open file, while it loads | `LoadCAKey`, `readKeyFile` | startup, key files |
| Public keys | `pubkey.go` | none | `ValidatePublicKey` | pipeline |
| Command line | `cmd/oidc-ssh-ca` | none | `explain`, `check-config`, `print-ca-pub` | policy |
| Deployment | `examples/`, `docs/` | | | |

What makes each part correct:

- *Provider cache*: one discovery per issuer at a time; a slow issuer delays only
  its own tokens; a key that was rotated out is not trusted for long; a failed
  refresh drops nothing; a failure is neither retried at once nor remembered
  wrongly; nobody waits for ever.
- *Pipeline*: one policy decides a request, whole; the stop stops; what a caller
  is told is on record before.
- *Process*: a broken reload neither stops nor loosens issuance; no signal is
  lost; a restart comes up with what the file says or not at all, and with the
  key it was told to use.
- *Times*: no token counts before or after its time, no certificate outlives the
  ceiling or is born dead, whatever Go's integers do at their edges.
- *Policy and key IDs*: what was validated does not fail later; the order of the
  rules does not matter; the commands that explain the policy, and the audit log,
  tell the truth about the server.

## 2. Modules

| Module | What it is |
|---|---|
| `ProviderCache` | `RemoteVerifier`: the cache, the requests inside `Verify`, issuers and clock |
| `ProviderCacheHistory` | history variables beside it, and the properties about the past |
| `ProviderCacheProofs` | theorems about `ProviderCache` |
| `ProviderCacheHistoryProofs` | theorems about the cache and its past |
| `MCProviderCache`, `MCSlowIssuer` | instances for TLC |
| `PolicyReload` | the serve process: file, SIGHUP channel, reload goroutine, drain, restart |
| `PolicyReloadHistory` | what the operator did, and the properties about it |
| `CAKey` | `LoadCAKey`, one step for each system call on the key file |
| `ServeStart` | the process with the key it starts with: `PolicyReload` and `CAKey` composed |
| `ServeStartProofs`, `MCServeStart` | theorems about it; instance for TLC |
| `SignPolicies` | what a request asks of a policy, as data |
| `SignServer` | the `/sign` pipeline inside the process of `PolicyReload` (an INSTANCE) |
| `SignServerHistory` | the emergency stop, watched |
| `CertificateAuthority` | the abstract specification `SignServer` implements |
| `SignServerProofs`, `MCSignServer` | theorems about the pipeline; instance for TLC |
| `SignService` | the whole server: `SignServer` with `ProviderCache` (an INSTANCE) for its `VerifyToken` |
| `SignServiceHistory` | which keys the issuers have published in the process's time |
| `SignServiceProofs`, `MCSignService` | theorems about the composition; instance for TLC |
| `KeyIDs`, `KeyIDsProofs` | key-ID templates and their expansion; what is proved of them for templates of any length |
| `Certificates` | what a rule and the defaults put into a certificate, and what the audit event says of it |
| `PolicyMatch` | `Validate`, matching, the server's answer, `explain` and `check-config` over the same policy |
| `PolicyMatchProofs`, `MCPolicyMatch` | theorems about it; instance for TLC |
| `GoTime` | Go's integers, conversions and package `time` (external) |
| `CertificateTimes` | `exp`, `nbf`, `iat` and the certificate's interval |
| `CertificateTimesProofs`, `MCCertificateTimes` | theorems about it; instance for TLC |

How they fit together.  In `SignServer` a token verification is one action,
`VerifyToken`, which takes any time and ends either way; `SignService` puts the
provider cache there, step by step, and is shown to implement `SignServer`, so
that what is proved of the pipeline holds of the whole.  `SignServer` in turn
implements `CertificateAuthority`.  `SignPolicies` takes a policy's answers as
given, and assumes lifetimes within the ceiling; `PolicyMatch` computes those
answers and shows the lifetimes bounded.  `SignServer` counts lifetimes in ticks;
`CertificateTimes` has what becomes of them in Go's integers.

### ProviderCache

A request goes `idle → locking → (discovering → preflight →) verifying →
(fetching →) claims → done`.  Every edge is an action named for what happens on
it:

| Action | Code |
|---|---|
| `Arrive`, `ArriveRejected` | `Verify` up to `provider()`: `unverifiedIssuer`, the allow-list |
| `CacheHit`, `BackOff`, `StartDiscovery` | the three ways through `provider()` after `e.mu.Lock()` |
| `DiscoveryAnswers`, `DiscoveryFails` | `gooidc.NewProvider` and the `jwks_uri` checks |
| `PreflightAnswers`, `PreflightFails` | `checkJWKS`, then lines 156-176 and the deferred unlock |
| `VerifyCached`, `FetchAnswers`, `FetchFails` | `verifier.Verify`: go-oidc tries the keys it has, then fetches |
| `CheckClaims` | decoding and `checkTimeClaims` |
| `Cancel` | the client goes away: `ctx.Err() # nil` from here on |
| `Endpoints`, `Publish`, `Tick` | the issuer and the clock |

`CacheHit` and `BackOff` hold the mutex for no time anyone could see, so the lock,
the look and the unlock are one step; `StartDiscovery` keeps it, and it is
released by the step that ends the discovery.  The map and `v.mu` are not there:
the map only ever grows, by entries that are all alike.

*Time.*  The code compares the age of a timestamp with a bound and does nothing
else with it, so the model keeps the age, and stops counting at the bound.  There
is no horizon: a run of the model lasts for ever in finitely many states.

*go-oidc* (external).  A provider starts with no keys, verifies with the keys it
has, fetches the JWKS when none fits, and keeps the last set fetched.  Fetches
that overlap inside one provider are shared by go-oidc; here each one takes the
key set published when it answers, which allows at least as many outcomes.
A provider is a heap object: `Unused` are those no entry and no request refers
to, and a new one is one of them; nothing can tell which.

### CAKey, ServeStart

`LoadCAKey` goes `resolving → opening → checking → reading → parsing → loaded`, or
is `refused`.  Between two steps the path may be made to lead to another file
(`Swap`), which is what an atomic rotation of the key does.  A file is its kind,
its mode and its bytes: changing these in place is not modelled, only replacing
the file.  The sources of the key may differ from one start to the next.  `Refuse`
is every error return, of the checks and of the system calls.  `OpenReturns` says
when `open` comes back, which with O_NONBLOCK is always; without it, the mutant,
it is for all files but a FIFO.  `ServeStart` is the
order that `cmdServe` has: the policy, then the key, then the listener.

### PolicyReload, SignServer

`PolicyReload` has the file (a policy, or `Invalid` for missing, half-written and
refused alike), the process (`down`, `starting`, `up`, `draining`), the one-place
SIGHUP buffer and the goroutine that receives, loads and stores.  The file may
change between any two of these, but is read in one step: a file of which half is
there counts as what that half decodes to, `Invalid` or a policy.  A signal before `signal.Notify`, a failure to
listen, a crash and the end of the drain all are `Exit`.

In `SignServer` each handler goes `received → checking → verifying → matching →
auditing → responding → done`; `LoadPolicy` reads the atomic pointer once, and
the later actions use that copy.  Steps that touch only the request's own data
are joined up to the next point where another goroutine can be noticed.  An
answer may be `lost`: the fetches behind it may outlast `WriteTimeout`, the client
may be gone, and the error of `w.Write` is ignored.  The end of the process cuts
requests off where they are.  `life` counts down the longest remaining lifetime of
any certificate, which a restart does not reset.

`CertificateAuthority` has none of that: a request is open, is bound to the
policy in force at one moment, and is answered with a verdict that this policy
justifies.  The refinement maps `received` to open, the next three states to
bound, and the moment the verdict is fixed to answered.

### SignService

`CallVerify` hands the token to the cache if its issuer is one of the request's
own policy (`Allowed`), `InVerify` is a step of `ProviderCache`, `VerifyReturns`
takes the outcome back.  `EndOfProcess` forgets the cache, since nothing is
persisted.  `SignServiceHistory` adds to it, in `seen`, what each issuer has
published since the process started, for the theorem `KeysStayWithTheirIssuer`.

### KeyIDs, Certificates, PolicyMatch

These are pure functions of a policy and an identity.  `PolicyMatch` puts the
same pair to the server, to `explain` and to `check-config` in any order, so that
their answers can be compared.  Strings that the code takes apart (repository
names, claim values, templates) are sequences of characters, a character standing
for a whole class of a regular expression; all others are values that are only
compared.  `Validate` has every condition of the code but the two that no other
code depends on, the version and the characters of a rule's name; the order in
which it checks them decides a message only.  Texts that a condition accepts as a
whole (principals, `force_command`, address ranges) are members of a constant set.

### CertificateTimes

One request's three looks at a clock: verification, issue, and then a target
server whose own clock is off.  `GoTime` has two's complement wrap-around, the
float64 conversion that Go leaves to the processor when it is out of range (any
outcome of amd64 or arm64), the year-1 origin of `time.Time` and the saturation of
`Add`, for integers of any width.  `Validate` bounds neither
`valid_after_offset_seconds` nor the ceiling, and the properties say where the
promises end because of it: a ceiling beyond `time.Duration` (292 years) wraps, an
offset that reaches before 1970 makes a certificate that never works, and an `nbf`
or `iat` too large for `time.Time` wraps into the past and holds nothing back.  A
claim that is no number is ignored, for `nbf` and `iat`, and refused, for `exp`.

## 3. What the runs show

| Run | Instance | Distinct states | Shows |
|---|---|---|---|
| `cache` | 1 issuer, 2 requests, 2 keys, 3 providers, TTL 2, delay 1 | 1.4 million | types; `OneDiscoveryPerIssuer`, `RotatedKeysExpire`, `NegativeCacheIsHonest`, `HealthyIssuerServes`, `MutexIsNeverAbandoned`, `FailedRefreshKeepsProvider`, `RetryDelayRespected` |
| `cache_live` | 2 issuers, one of which may hang, 2 requests, under fairness | 490,000 | `EveryRequestEnds`: for every token but the hanging issuer's own |
| `cache_outage` | 1 request, 1 key, TTL 1, delay 1 | | finding: `FetchedKeysKeepWorking` fails |
| `cache_stale` | as `cache_outage` | | finding: `JwksTTLBoundsTrust` fails |
| `serve` | 3 policies, 6 sorts of key file, every set of sources | 124,000 | types; `ActiveWasOffered`, `KeyIsFromItsSoleSource`, `SignalIsPending`, `ReloadTakesEffect`, `StartupEnds` |
| `sign` | 2 handlers, 6 kinds of request, 3 policies | 1.3 million | types; `AnswersAreAudited`, `StopDeniesNewRequests`, `StopOutlastsCertificates`, refinement of `CertificateAuthority` |
| `service` | 2 handlers, 1 issuer, 1 key, 2 policies, 3 providers, with the cache | 356,000 | refinement of `SignServer`, `EveryRequestIsAnswered` |
| `sign_stop` | as `sign`, 1 handler, 2 kinds of request | | finding: `NoCertificateAfterStop` fails |
| `sign_audit` | as `sign_stop`, with `StdoutMayFail = TRUE` | | finding: `AnswersAreAudited` fails |
| `policy` | 790 policies of 0 to 3 rules with 108 identities; 9332 templates and 486 contents of certificates with 9 | 638,000 | types; `ExplainPredictsSign`, `EveryRuleIsExplained`, `OrderIsIrrelevant`, `OwnerAndNamePinTheRepository`, `RecheckNeverFires`, `ListingPredictsSign`, `BroadRulesAreWarnedOf`, `EventTellsTheCertificate` |
| `policy_warnings` | as `policy`, templates of 2 characters | | finding: `UnpinnedClaimsAreWarnedOf` fails |
| `times` | int64 of 7 bits, seconds of 2 ns | 1.7 million | types; `NoExpiredToken`, `NoEarlyToken`, `DeadWithinTheMaximum`, `WorksInItsInterval`, `TokenBoundsCertificate` |

Why the bounds are enough.

- *Two requests* are the fewest that race for the mutex, wait behind a discovery,
  and hold an old provider while another replaces it.  With two of them three
  providers can be referred to at once (one cached, one per request), so a new
  one can always be had: that `Unused # {}`, a condition the code does not have,
  never blocks a discovery then is the theorem `AllocationNeverFails`, for any
  number of issuers and requests.
- *Issuers* share nothing but `v.mu`, so one is enough except for the property
  that says so (`cache_live`).
- *Two keys* give one that stays and one that is rotated out.
- *TTL 2, delay 1*: the delay is shorter than the TTL, as 5 s is than 10 min, and
  a provider is young, then old, with a tick in between for a failure.  The
  liveness runs need only young and old, and have both at 1.  In `cache_live` the
  hanging issuer's clients stay and its endpoints keep as they are, since it asks
  only who waits for them; the other issuer may begin with any outage.
- *`service`* is there for what crosses the border of two components, and leaves
  to the runs of these what is theirs (`MCSignService` has it as conjuncts of its
  next-state relation): each of the two handlers serves one request, answers reach
  their callers, both endpoints of the issuer fail together, the process does not
  drain, starts unhindered, and reloads only files that load, one after the other.
  What is left: either request waits for the mutex while the other discovers,
  fails, or is left by its client; one uses the provider that the other found, or
  holds one that the other has replaced; the policy drops the issuer while they are
  in `Verify`; the process dies at any step and starts again.
- *Key files*: one usable file and one to replace it, and one for each check that
  can refuse (mode, kind, key type, no bytes); no two usable files hold the same
  key, so that a key tells where it came from.
- *Seven bits*: the claims, offsets, lifetimes and ceilings lie at and on either
  side of each edge (0, the epoch, the largest int64, the smallest, the largest
  time), and plain values in between; seconds of 2 ns leave room for fractions.
  The theorems hold for every width.
- *Three policies*: two that disagree on everything a request asks, and one of
  these with the stop on.  `Ceiling = 2` leaves room for two lifetimes.
- *Templates of five characters* hold a whole variable with a character on either
  side of it, a `$` before a variable, and an unclosed one.

`MCProviderCache` and `MCSignServer` use a VIEW that drops what no later step and
no property of the run can see (a `loaded` policy that will be loaded anew, what a
request overwrites before it reads it again, and of a verdict all but what the
signer, the audit log and the invariants ask of it), and a symmetry of the
handlers, only with safety properties.  `MCPolicyMatch` ends when all questions are answered, so its
run does not look for deadlock; all others do.

### Fairness

The `Fairness` of `ProviderCache` assumes three things of each request: a runnable
goroutine runs (`WF` of `Local`); an outbound fetch ends, because the HTTP client
has a 10 s timeout (`WF` of `Io`, `verifier.go:82`); and a mutex that is free
again and again is got in the end (`SF` of `Lookup`), which is Go's starvation
mode for `sync.Mutex`.  Nothing is assumed of clients, issuers or the clock, and
for `SlowIssuer` not even that fetches end.  `SignService` assumes the same of its
requests' goroutines, from the first check to the answer (`SF` of `Lookup`, `WF` of
`Proceed`, which is every other step of a request that is under way), and nothing
of the process: it may die at any moment.
`ServeStart` assumes that the reload goroutine runs, and that the main goroutine
does while it starts (`WF` of `Proceed`): its system calls return, which for `Open`
is what O_NONBLOCK is for.

### Findings

1. *A refresh can lose working keys* (`cache_outage`).  The provider is replaced
   after a pre-flight, but its own key set is fetched by the first verification.
   If the JWKS endpoint fails in between, tokens are denied whose keys the old
   provider had, until the endpoint is back: the new provider counts as fresh.
   The comment at `verifier.go:51-53` promises that "the previously fetched keys
   keep working".
2. *Stale trust has no bound* (`cache_stale`).  `verifier.go:29-33` says a
   rotated-out key "stops being accepted within this window", and
   `docs/security-model.md:89-90` that the failure mode is not "deploy with stale
   trust".  While refreshes fail, the old provider and its keys serve without
   limit; lines 164-170 do so on purpose.
3. *The stop's window starts late* (`sign_stop`).  `docs/operations.md:60-62` and
   `docs/policy.md:91-93` count `max_valid_for_seconds` from the reload.  A request
   that loaded the policy before is signed after, and its certificate lives from
   then.  `StopOutlastsCertificates` is the version that holds: counted from the
   answer to the last request that was open at the stop.
4. *The audit log can miss an answer* (`sign_audit`).  `audit.go:1-2` promises
   exactly one event for every decision; `slog` drops the error of a failed write,
   and the answer goes out.
5. *check-config is silent about unpinned claims* (`policy_warnings`).
   `docs/policy.md:388-389` and `docs/commands.md:52-54` say that it warns of
   templates that reference claims the rule does not pin.  `checkconfig.go:42` warns
   of claims that GitHub Actions does not know, pinned or not; a known claim that
   the rule leaves open, and a token may lack or leave empty (`environment`,
   `head_ref`), passes in silence, and `ExpandKeyID` denies such tokens.

## 4. What is proved

`ProviderCacheProofs` holds for every set of issuers, requests, keys and
providers and for all delays, from `ConstantsAssumption` alone (the delay is
positive and no longer than the TTL, `Nobody` is no request, `NoProvider` no
provider).

- `TypeCorrect`: `Spec => []TypeOK`.  `TypeOK` is inductive.  It rests on
  `LaterInRange` (an age stays within its cap) and `NewProviderIsUnused` (the
  provider chosen exists whenever the action is enabled).
- `DiscoveryIsSerialized`: `Spec => []OneDiscoveryPerIssuer`.  This is not
  inductive by itself: that nobody else is discovering says nothing of who may
  start.  The strengthening is `DiscovererHoldsMutex`: a request that is
  discovering is the one `mu` names.  Two of one issuer would both be `mu` of it.
  Only `StartDiscovery` makes a discoverer, and takes the free mutex; only the
  steps that end a discovery give it up.
- `MutexIsReleased`: `Spec => []MutexIsNeverAbandoned`, the converse: whoever holds
  the mutex is discovering.  It is the safety half of `EveryRequestEnds`: a waiter
  waits for a fetch that is under way and bounded by a timeout, and for nothing
  else.  It needs `DiscovererHoldsMutex` in its turn, so that the release at the
  end of one discovery is not of another's mutex.
- `AllocationNeverFails`: with at least as many providers as issuers and requests
  together, `Unused # {}` whenever a pre-flight may end.  A request in its
  pre-flight holds no provider (`HoldersVerify`), so that one of them is free, by
  counting.

`ProviderCacheHistoryProofs` proves, from the same assumption, every property of
the run `cache` that speaks of the past.  The lemmas `NegativeCacheStep`,
`RequestStep` and `KeysStep` say once what any step can do to the negative cache
of an issuer, to one request, and to the providers; the invariants below are
then argued from these few cases.

- `NegativeCacheStaysHonest`: `HSpec => []NegativeCacheIsHonest`, together with
  `UnwellNow`, that an issuer which is unwell has been well for 0 ticks.  Without
  it a failure recorded now could be younger than the issuer's last trouble.
- `RetriesAreHeldBack`: `HSpec => RetryDelayRespected`.  Inductive is
  `RecentFailureRemembered`: within the delay the entry has the failure with its
  true age, and nobody is discovering.  The second half is what keeps a discovery
  that was under way from erasing the failure, and needs the mutex: the
  request that failed was the only one.
- `ProviderIsKept`: `HSpec => FailedRefreshKeepsProvider`, from `ServedHasProvider`.
- `HealthyIssuersServe`: `HSpec => []HealthyIssuerServes`.  A request that is still
  clean has no excuse now (`CleanInv`, `NoExcuse`); `NegativeCacheIsHonest` then
  rules out that the cache is backing off.
- `RotatedKeysAreForgotten`: `HSpec => []RotatedKeysExpire`.  It rests on three
  invariants: `Ownership` (a provider is referred to by the entry of one issuer
  and by requests of that issuer only, so that a fetch by one request cannot put
  another issuer's keys into it), `KnownKeysAge` (what the cached provider knows
  was withdrawn no longer ago than its age), and `JustifiedInv` (a request that
  has accepted its key, or will without a fetch, is justified).

`HistoryTypeCorrect` there has the types of what is remembered.

`SignServerProofs` holds for every set of policies, tokens, requests and handlers
that satisfies `PoliciesAssumption`.

- `PipelineTypeCorrect`, from `SignInv`: the types, and what a request has passed
  at each of its stages (`StageInv`).
- `PipelineImplementsReload`: with the handlers in it the process still is that of
  `PolicyReload`.
- `EveryAnswerIsAudited`: `AnswersAreAudited`, under `~StdoutMayFail` as a
  hypothesis (the run `sign_audit` shows why).  Inductive is `EventsInv`: no event
  before the audit step and exactly the verdict's after it, unless stdout failed.
- `RecordStaysTrue`: what is left without that hypothesis.  A request never has two
  events, nor one that differs from its answer, wherever it is cut off.
- `PipelineImplementsCA`: the refinement of `CertificateAuthority`.  Each action is
  an abstract one or a stutter; that the policy cannot change between two of the
  pipeline's looks at it is the binding of `pol` at `LoadPolicy`.
- `StopHoldsForNewRequests`, from `StopInv`: a request that came under the stop has
  loaded a policy with the stop on.
- `StopDrainsCertificates`, from `DrainInv`: while it has been quiet for `n` ticks
  under the stop with no older request open, no certificate has more than
  `Ceiling - n` left.

`SignServiceProofs`, with `ServiceAssumption` besides:

- `ServiceImplementsPipeline`: `SvcSpec => Spec` of `SignServer`, from `CallInv`: a
  request is inside the cache only while the pipeline is verifying, and then with
  a token its own policy allows.  `VerifyReturns` is `VerifyToken`, everything else
  in `Verify` a stutter.
- `ServiceImplementsCA`, `ServiceAnswersAreAudited`: by that refinement, what is
  proved of the pipeline holds of the whole service.
- `KeysStayWithTheirIssuer`: `ShSpec => []KeysAreTheIssuersOwn`, from `MemoryInv`: a
  provider is referred to for one issuer only (so no fetch puts another issuer's
  keys into it), knows only keys that issuer has published in this process, and a
  stopped process refers to none.  No run checks it: it is about several issuers
  whose providers are shared and replaced, for which the run `service` has no room.
- `NoMutexOutlivesItsRequest`: the mutex of an issuer is held by the one request
  that is discovering it, in a process that is alive.  The lemmas of
  `ProviderCacheProofs` are used as they are, through an INSTANCE: `CacheSteps`
  shows that a step of the service is to the cache one of its own steps, the
  return of a call, or a new cache, and only the last two need an argument.

`ServeStartProofs`, from `KeyFilesAssumption`: `ServeTypeCorrect`;
`ServeImplementsReload` (the key's loading adds stutters to `PolicyReload`; its
fairness is left to TLC); `OnlyOfferedPolicies` from `OfferedInv` (what the
goroutine is about to store has been offered to this process, too); `KeyOfSoleSource` from
`KeyInv`, which follows the key through the steps of `LoadCAKey`: what is read is
what was checked, because both are the descriptor, whatever the path does;
`ServesWithCheckedKey` from `StartInv`: that key is the one a process serves with,
to its end.

- `NoSignalIsLost`: `SSpec => []SignalIsPending`, the safety half of
  `ReloadTakesEffect`.  A signal for what the file holds is in the channel, about
  to be read, read and about to be stored, or in force.  That the policy in force
  is the file's is not inductive: the goroutine may be about to store an older one
  over it.  So the last case demands that it waits as well, and where it does not,
  one of the other cases has to hold; the buffer of one signal is what makes it so.

`CertificateTimesProofs`, from `GoTimeAssumption` and `TimesAssumption`, that is for
every width of integers, every second and every set of claims, offsets and clock
skews: `TimesTypeCorrect`, `NoExpiredTokenPasses`, `NoEarlyTokenPasses`,
`CertificatesDie`, `CertificatesWork`, `TokensBoundCertificates`.  The lemmas say
when `Wrap` and `Uint64` are the identity, or give no more than what they are
given.

`PolicyMatchProofs`, from `CasesAssumption` (the shape of a decoded file), for every
set of policies and claims: every property of the run `policy`, `EventsAreTrue` among
them by way of the uniqueness of rule names: the rule an event names is the one that
the certificate was issued under, and settles the extensions and the inherited
source addresses that the event leaves out.  The
inductive invariant is that each answer on record is the function of the file and
the claims that gave it; the theorems are about these functions.
`EveryDenialIsExplained` compares `ExplainRule` with `ruleMatches` condition by
condition, in both directions; `OrderDoesNotMatter` carries the matching rules along a permutation;
`OwnerAndNamePin` rests on `CutUndoesJoin`: a slash-free owner, a slash and a name
are cut back into that owner and that name, and nothing else is, for strings of
any length.

`RecheckIsRedundant` (`RecheckNeverFires`) is about what `Pieces` and `FlattenSeq`,
both recursive functions, compute for templates and values of any length, and rests
on `KeyIDsProofs`.  The library's induction theorems take an operator, which no
prover here can instantiate; they are replaced by `Induction`, which is about a set
of numbers, and is shown by the least element of its complement (`LeastIsIn`).
`PiecesUnfold` and `FlattenUnfold` show that the recursive functions exist and obey
their equations; `PiecesFacts` that a piece that is no variable has a text;
`Flattened` that what is joined of clean pieces is clean, and not
empty if one of them is not; `ExpandedIsClean` puts these together.

That `Pieces` is the right reading of a template is `TemplateIsItsPieces`: spelled
as they are written and put one after the other, the pieces are the template, from
its first character to its last; a name has no "}" in it, and outside the variables
none is opened.  Those conditions leave one reading only, and it is the one that
`templateVars` and `ExpandKeyID` share, as both go by `templateVarRe`.  (The SMT translation has no string literals like
"$", so `Bracketed` says what they need of any three characters, and the leaves
where they occur are Zenon's.)

So each safety property of the passing runs, invariants, action properties and
refinements, is a theorem.  Model-checked only is liveness (`EveryRequestEnds`,
`ReloadTakesEffect`, `StartupEnds`, `EveryRequestIsAnswered`), which rests on fairness
and ENABLED, out of TLAPS's reach here.

## 5. Not modelled, and why

- HTTP: header parsing, the body's reader, the timeouts themselves (only that an
  answer may be lost).  The code promises no delivery, and a handler may be cut
  off anywhere.
- The JWT itself, signatures, YAML and JSON decoding, key parsing: libraries.  A
  token is good or bad, a policy file loads or does not, and of `ValidatePublicKey`
  only the check of the key's type against the policy remains: the rest is a
  line's length and shape, and x/crypto/ssh's parser.
- The serial number and the signature of a certificate: the library's; a failure
  of either is `signing_error`.
- `/ca-public-key` and what `print-ca-pub` prints: a constant, once `LoadCAKey` has
  returned.  The dispatch on the command line: no state.
- The reading of `policy.yaml` as system calls: the path is taken to be a regular
  file, as the examples have it.  (A FIFO there would block `policy.Load`; nothing
  in the code or its docs promises otherwise.)  That a policy's half, read while the
  file is being written, may decode and validate is nothing the code could tell.
- A key file that is changed in place between two system calls, and the scrubbing
  of the PEM buffer: no property of the model could tell.
- The deployment: rotating the CA key over target servers (`docs/operations.md`) is
  a procedure for people; none of its steps is this program's code.

## 6. Order of work

`ProviderCache` and its history came first, the most delicate state in the
program; then `PolicyReload`, `SignServer` over it, `CertificateAuthority` above;
`KeyIDs` and `PolicyMatch`; the theorems about the cache.  Then, from the edges of
these: the times, the contents of certificates and `check-config`, answers that
get lost, the CA key, the composition `SignService`; and the theorems about all of
them, the induction over `Pieces` and the safety halves of the liveness properties
last.  What could still be added are handlers in `service` that serve several requests,
and a second issuer there, whose liveness graph is too large for the bounds kept
here; what is safe there is proved for any number of them.
