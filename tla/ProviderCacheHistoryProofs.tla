-------------------- MODULE ProviderCacheHistoryProofs ---------------------
(***************************************************************************)
(* Theorems about what the provider cache remembers of its issuers, from   *)
(* ConstantsAssumption alone.                                              *)
(***************************************************************************)
EXTENDS ProviderCacheHistory, ProviderCacheProofs

LEMMA HistoryStepIsStep == [HNext]_hvars => [Next]_vars
  BY DEF HNext, hvars, Next

\* The cache's own invariants, which the history does not disturb.
CacheInv == TypeOK /\ DiscovererHoldsMutex

LEMMA CacheInvHolds == HSpec => []CacheInv
<1>1. HInit => CacheInv
  BY InitType DEF HInit, CacheInv, Init, DiscovererHoldsMutex, Discovering
<1>2. CacheInv /\ [HNext]_hvars => CacheInv'
  BY HistoryStepIsStep, TypeStep, MutexStep DEF CacheInv
<1> QED BY <1>1, <1>2, PTL DEF HSpec

HistoryType == /\ gone \in [Issuers -> [Keys -> 0..JwksTTL]]
               /\ upFor \in [Issuers -> 0..RetryDelay]
               /\ failedFor \in [Issuers -> 0..RetryDelay]

LEMMA HistoryTypeHolds == HSpec => []HistoryType
<1> USE ConstantsAssumption DEF HistoryType
<1>1. HInit => HistoryType
  BY DEF HInit, HistoryInit
<1>2. HistoryType /\ [HNext]_hvars => HistoryType'
  <2> SUFFICES ASSUME HistoryType, [HNext]_hvars PROVE HistoryType'
    OBVIOUS
  <2>1. CASE Watch
    <3>1. gone' \in [Issuers -> [Keys -> 0..JwksTTL]]
      <4>1. \A i \in Issuers : gone[i] \in [Keys -> 0..JwksTTL]
        OBVIOUS
      <4> QED BY <2>1, <4>1 DEF Watch
    <3>2. upFor' \in [Issuers -> 0..RetryDelay] /\ failedFor' \in [Issuers -> 0..RetryDelay]
      BY <2>1 DEF Watch
    <3> QED BY <3>1, <3>2
  <2>2. CASE Pass
    <3>1. gone' \in [Issuers -> [Keys -> 0..JwksTTL]]
      <4>1. \A i \in Issuers, k \in Keys : Later(gone[i][k], JwksTTL) \in 0..JwksTTL
        BY LaterInRange
      <4>2. 0 \in 0..JwksTTL
        OBVIOUS
      <4> QED BY <2>2, <4>1, <4>2 DEF Pass
    <3>2. upFor' \in [Issuers -> 0..RetryDelay] /\ failedFor' \in [Issuers -> 0..RetryDelay]
      BY <2>2, LaterInRange DEF Pass
    <3> QED BY <3>1, <3>2
  <2>3. CASE UNCHANGED hvars
    BY <2>3 DEF hvars, history
  <2> QED BY <2>1, <2>2, <2>3 DEF HNext
<1> QED BY <1>1, <1>2, PTL DEF HSpec

\* What is remembered of the issuers and the requests keeps its types.
THEOREM HistoryTypeCorrect == HSpec => []HistoryTypeOK
<1> USE ConstantsAssumption
<1> DEFINE Rest == /\ served \in [Issuers -> BOOLEAN]
                   /\ worked \in [Issuers -> SUBSET Keys]
                   /\ justified \in [Requests -> BOOLEAN]
                   /\ clean \in [Requests -> BOOLEAN]
<1>1. HInit => Rest
  BY DEF HInit, HistoryInit
<1>2. CacheInv /\ CacheInv' /\ HistoryType /\ Rest /\ [HNext]_hvars => Rest'
  <2> SUFFICES ASSUME CacheInv, CacheInv', HistoryType, Rest, [HNext]_hvars PROVE Rest'
    OBVIOUS
  <2>1. CASE Watch
    <3>1. served' \in [Issuers -> BOOLEAN]
      BY <2>1 DEF Watch
    <3>2. worked' \in [Issuers -> SUBSET Keys]
      <4>1. \A i \in Issuers : published'[i] \in SUBSET Keys
        BY DEF CacheInv, TypeOK
      <4> QED BY <2>1, <4>1 DEF Watch
    <3>3. justified' \in [Requests -> BOOLEAN]
      BY <2>1 DEF Watch
    <3>4. clean' \in [Requests -> BOOLEAN]
      BY <2>1 DEF Watch
    <3> QED BY <3>1, <3>2, <3>3, <3>4
  <2>2. CASE Pass
    BY <2>2 DEF Pass
  <2>3. CASE UNCHANGED hvars
    BY <2>3 DEF hvars, history
  <2> QED BY <2>1, <2>2, <2>3 DEF HNext
<1>3. CacheInv /\ HistoryType /\ Rest => HistoryTypeOK
  BY DEF CacheInv, HistoryType, HistoryTypeOK
<1> QED BY <1>1, <1>2, <1>3, CacheInvHolds, HistoryTypeHolds, PTL DEF HSpec

----------------------------------------------------------------------------
(* What a step does to the negative cache of one issuer, and to the         *)
(* requests that are discovering it.                                        *)

FailsFor(i) == \E r \in Requests : issuer[r] = i /\ Fails(r)

Undisturbed(i) == err'[i] = err[i] /\ failAge'[i] = failAge[i] /\ ~FailsFor(i)
Remembered(i)  == err'[i] = TRUE /\ failAge'[i] = 0 /\ FailsFor(i) /\ ~Healthy(i)
Forgotten(i)   == /\ err'[i] = FALSE /\ failAge'[i] = failAge[i] /\ ~FailsFor(i)
                  /\ \E r \in Requests : issuer[r] = i /\ pc[r] \in Discovering

LEMMA NegativeCacheStep ==
    ASSUME CacheInv, Timeless, NEW i \in Issuers
    PROVE  Undisturbed(i) \/ Remembered(i) \/ Forgotten(i)
<1> USE DEF CacheInv, TypeOK, Goto, entryVars, reqVars, idpVars
\* A step that leaves the negative cache alone and ends no discovery, unless
\* its client is gone.
<1>1. ASSUME NEW r \in Requests, UNCHANGED <<err, failAge>>,
             \/ UNCHANGED pc
             \/ /\ pc' = [pc EXCEPT ![r] = pc'[r]]
                /\ pc[r] \notin Discovering \/ pc'[r] \in Discovering \/ cancelled[r]
      PROVE  Undisturbed(i)
  BY <1>1 DEF Undisturbed, FailsFor, Fails
<1>2. ASSUME NEW r \in Requests, StaleOrDeny(r)
      PROVE  pc' = [pc EXCEPT ![r] = pc'[r]] /\ pc'[r] \notin Discovering
  BY <1>2 DEF StaleOrDeny, Hand, Finish, Discovering
<1>3. ASSUME NEW r \in Requests, NEW j \in Issuers, NEW k \in Keys, Arrive(r, j, k)
      PROVE  Undisturbed(i)
  BY <1>1, <1>3 DEF Arrive, Discovering
<1>4. ASSUME NEW r \in Requests,
             \/ ArriveRejected(r) \/ CacheHit(r) \/ VerifyCached(r)
             \/ FetchAnswers(r) \/ FetchFails(r) \/ CheckClaims(r)
      PROVE  Undisturbed(i)
  BY <1>1, <1>4 DEF ArriveRejected, CacheHit, VerifyCached, FetchAnswers, FetchFails,
                    CheckClaims, Finish, Hand, Lock, Discovering
<1>5. ASSUME NEW r \in Requests, Cancel(r) \/ DiscoveryAnswers(r) \/ StartDiscovery(r)
      PROVE  Undisturbed(i)
  BY <1>1, <1>5 DEF Cancel, DiscoveryAnswers, StartDiscovery, Lock, Discovering
<1>6. ASSUME NEW r \in Requests, BackOff(r) PROVE Undisturbed(i)
  BY <1>1, <1>2, <1>6 DEF BackOff, Lock, Discovering
<1>7. ASSUME NEW r \in Requests, DiscoveryFails(r) \/ PreflightFails(r)
      PROVE  Undisturbed(i) \/ Remembered(i)
  <2>1. /\ pc[r] \in Discovering /\ StaleOrDeny(r)
        /\ IF FailureCounts(r)
           THEN /\ err' = [err EXCEPT ![issuer[r]] = TRUE]
                /\ failAge' = [failAge EXCEPT ![issuer[r]] = 0]
           ELSE UNCHANGED <<err, failAge>>
    BY <1>7 DEF DiscoveryFails, PreflightFails, RefreshFails, Discovering
  <2>2. CASE cancelled[r]
    BY <1>1, <1>2, <2>1, <2>2 DEF FailureCounts
  <2>3. CASE ~cancelled[r] /\ issuer[r] = i
    <3>1. Fails(r) /\ ~Healthy(i)
      BY <1>2, <1>7, <2>1, <2>3 DEF DiscoveryFails, PreflightFails, Fails, Healthy
    <3>2. err'[i] = TRUE /\ failAge'[i] = 0
      BY <2>1, <2>3 DEF FailureCounts
    <3> QED BY <2>3, <3>1, <3>2 DEF Remembered, FailsFor
  <2>4. CASE ~cancelled[r] /\ issuer[r] # i
    <3>1. err'[i] = err[i] /\ failAge'[i] = failAge[i]
      BY <2>1, <2>4 DEF FailureCounts
    <3>2. ~FailsFor(i)
      BY <1>2, <2>1, <2>4 DEF FailsFor, Fails
    <3> QED BY <3>1, <3>2 DEF Undisturbed
  <2> QED BY <2>2, <2>3, <2>4
<1>8. ASSUME NEW r \in Requests, PreflightAnswers(r)
      PROVE  Undisturbed(i) \/ Forgotten(i)
  <2>1. ~FailsFor(i)
    BY <1>8 DEF PreflightAnswers, Hand, FailsFor, Fails, Discovering
  <2>2. UNCHANGED failAge /\ err' = [err EXCEPT ![issuer[r]] = FALSE] /\ pc[r] \in Discovering
    BY <1>8 DEF PreflightAnswers, Discovering
  <2> QED BY <2>1, <2>2 DEF Undisturbed, Forgotten
<1>9. ASSUME NEW j \in Issuers, Endpoints(j) \/ Publish(j) PROVE Undisturbed(i)
  BY <1>9 DEF Endpoints, Publish, Undisturbed, FailsFor, Fails
<1> QED
  BY <1>3, <1>4, <1>5, <1>6, <1>7, <1>8, <1>9 DEF Timeless, Client, Lookup, Io, Local

----------------------------------------------------------------------------
(* The negative cache is honest.  Inductive with: an issuer that is unwell  *)
(* has been well for no time.                                               *)

UnwellNow == \A i \in Issuers : ~Healthy(i) => upFor[i] = 0

LEMMA HonestStep ==
    CacheInv /\ HistoryType /\ NegativeCacheIsHonest /\ UnwellNow /\ [HNext]_hvars
        => NegativeCacheIsHonest' /\ UnwellNow'
<1> SUFFICES ASSUME CacheInv, HistoryType, NegativeCacheIsHonest, UnwellNow, [HNext]_hvars
             PROVE  NegativeCacheIsHonest' /\ UnwellNow'
  OBVIOUS
<1> USE ConstantsAssumption DEF NegativeCacheIsHonest, UnwellNow, Healthy, HistoryType
<1>1. CASE Timeless /\ Watch
  <2>1. \A i \in Issuers : upFor'[i] = IF discUp'[i] /\ jwksUp'[i] THEN upFor[i] ELSE 0
    BY <1>1 DEF Watch
  <2>2. ASSUME NEW i \in Issuers, err'[i] PROVE upFor'[i] <= failAge'[i]
    <3>1. failAge[i] \in Nat /\ upFor[i] \in Nat
      BY DEF CacheInv, TypeOK
    <3>2. CASE Undisturbed(i)
      BY <2>1, <2>2, <3>1, <3>2 DEF Undisturbed
    <3>3. CASE Remembered(i)
      BY <2>1, <3>3 DEF Remembered
    <3>4. CASE Forgotten(i)
      BY <2>2, <3>4 DEF Forgotten
    <3> QED BY <1>1, <3>2, <3>3, <3>4, NegativeCacheStep
  <2> QED BY <2>1, <2>2
<1>2. CASE Tick /\ Pass
  <2>1. ASSUME NEW i \in Issuers, err'[i] PROVE upFor'[i] <= failAge'[i]
    BY <1>2, <2>1 DEF Tick, Pass, Later, CacheInv, TypeOK
  <2>2. UnwellNow'
    BY <1>2 DEF Tick, Pass, idpVars
  <2> QED BY <2>1, <2>2
<1>3. CASE UNCHANGED hvars
  BY <1>3 DEF hvars, vars, history, entryVars, idpVars
<1> QED BY <1>1, <1>2, <1>3 DEF HNext

\* A failure that the cache remembers is never older than the last moment the
\* issuer was unwell: clients that go away, or retries that succeed, leave no
\* failure behind that is not the issuer's.
THEOREM NegativeCacheStaysHonest == HSpec => []NegativeCacheIsHonest
<1>1. HInit => NegativeCacheIsHonest /\ UnwellNow
  BY DEF HInit, HistoryInit, Init, NegativeCacheIsHonest, UnwellNow, Healthy
<1> QED BY <1>1, CacheInvHolds, HistoryTypeHolds, HonestStep, PTL DEF HSpec

----------------------------------------------------------------------------
(* discoveryRetryDelay is respected.  Inductive with: as long as a failure  *)
(* is recent the cache remembers it with its true age, and nobody is        *)
(* discovering.                                                             *)

RecentFailureRemembered ==
    \A i \in Issuers : failedFor[i] < RetryDelay =>
        /\ err[i] /\ failAge[i] = failedFor[i]
        /\ \A r \in Requests : issuer[r] = i => pc[r] \notin Discovering

\* A request comes to discover by going on with it or by taking the mutex.
LEMMA DiscoverersStep ==
    ASSUME CacheInv, Timeless, NEW r \in Requests, pc'[r] \in Discovering
    PROVE  /\ issuer'[r] = issuer[r]
           /\ \/ pc[r] \in Discovering
              \/ mu[issuer[r]] = Nobody /\ ~BackingOff(issuer[r])
<1> USE DEF CacheInv, TypeOK, Goto, Discovering, entryVars, reqVars, idpVars
<1>1. ASSUME NEW s \in Requests, \/ \E i \in Issuers, k \in Keys : Arrive(s, i, k)
                                 \/ ArriveRejected(s) \/ Cancel(s)
      PROVE  pc[r] \in Discovering /\ issuer'[r] = issuer[r]
  BY <1>1 DEF Arrive, ArriveRejected, Cancel, Finish
<1>2. ASSUME NEW s \in Requests, StaleOrDeny(s), UNCHANGED issuer
      PROVE  pc[r] \in Discovering /\ issuer'[r] = issuer[r]
  BY <1>2 DEF StaleOrDeny, Hand, Finish
<1>3. ASSUME NEW s \in Requests, CacheHit(s) \/ BackOff(s)
      PROVE  pc[r] \in Discovering /\ issuer'[r] = issuer[r]
  BY <1>2, <1>3 DEF CacheHit, BackOff, Hand
<1>4. ASSUME NEW s \in Requests, StartDiscovery(s)
      PROVE  /\ issuer'[r] = issuer[r]
             /\ pc[r] \in Discovering \/ (mu[issuer[r]] = Nobody /\ ~BackingOff(issuer[r]))
  BY <1>4 DEF StartDiscovery, Lock
<1>5. ASSUME NEW s \in Requests, DiscoveryAnswers(s) \/ DiscoveryFails(s) \/ PreflightFails(s)
      PROVE  pc[r] \in Discovering /\ issuer'[r] = issuer[r]
  BY <1>2, <1>5 DEF DiscoveryAnswers, DiscoveryFails, PreflightFails, RefreshFails
<1>6. ASSUME NEW s \in Requests, \/ PreflightAnswers(s) \/ VerifyCached(s) \/ FetchAnswers(s)
                                 \/ FetchFails(s) \/ CheckClaims(s)
      PROVE  pc[r] \in Discovering /\ issuer'[r] = issuer[r]
  BY <1>6 DEF PreflightAnswers, VerifyCached, FetchAnswers, FetchFails, CheckClaims, Hand, Finish
<1>7. ASSUME NEW i \in Issuers, Endpoints(i) \/ Publish(i)
      PROVE  pc[r] \in Discovering /\ issuer'[r] = issuer[r]
  BY <1>7 DEF Endpoints, Publish
<1> QED
  BY <1>1, <1>3, <1>4, <1>5, <1>6, <1>7 DEF Timeless, Client, Lookup, Io, Local

LEMMA RecentFailureStep ==
    CacheInv /\ HistoryType /\ RecentFailureRemembered /\ [HNext]_hvars
        => RecentFailureRemembered'
<1> SUFFICES ASSUME CacheInv, HistoryType, RecentFailureRemembered, [HNext]_hvars
             PROVE  RecentFailureRemembered'
  OBVIOUS
<1> USE ConstantsAssumption DEF RecentFailureRemembered, HistoryType
<1>1. ASSUME Timeless, Watch, NEW i \in Issuers, failedFor'[i] < RetryDelay
      PROVE  /\ err'[i] /\ failAge'[i] = failedFor'[i]
             /\ \A r \in Requests : issuer'[r] = i => pc'[r] \notin Discovering
  <2>1. failedFor'[i] = IF FailsFor(i) THEN 0 ELSE failedFor[i]
    BY <1>1 DEF Watch, FailsFor
  \* The request whose discovery failed held the mutex: there is no other.
  <2>2. CASE FailsFor(i)
    <3>1. PICK r \in Requests : issuer[r] = i /\ Fails(r)
      BY <2>2 DEF FailsFor
    <3>2. mu[i] = r /\ pc'[r] \notin Discovering
      BY <3>1 DEF Fails, CacheInv, DiscovererHoldsMutex
    <3>3. \A s \in Requests : issuer'[s] = i => pc'[s] \notin Discovering
      BY <1>1, <3>2, DiscoverersStep DEF CacheInv, DiscovererHoldsMutex
    <3>4. Remembered(i)
      BY <1>1, <2>2, NegativeCacheStep DEF Undisturbed, Forgotten
    <3> QED BY <2>1, <2>2, <3>3, <3>4 DEF Remembered
  \* Within the delay nobody is there to discover, and nobody may start.
  <2>3. CASE ~FailsFor(i)
    <3>1. /\ err[i] /\ failAge[i] = failedFor[i]
          /\ \A r \in Requests : issuer[r] = i => pc[r] \notin Discovering
      BY <1>1, <2>1, <2>3
    <3>2. Undisturbed(i)
      BY <1>1, <2>3, <3>1, NegativeCacheStep DEF Remembered, Forgotten
    <3>3. BackingOff(i)
      BY <1>1, <2>1, <2>3, <3>1 DEF BackingOff
    <3>4. \A r \in Requests : issuer'[r] = i => pc'[r] \notin Discovering
      BY <1>1, <3>1, <3>3, DiscoverersStep
    <3> QED BY <2>1, <2>3, <3>1, <3>2, <3>4 DEF Undisturbed
  <2> QED BY <2>2, <2>3
<1>2. ASSUME Tick, Pass, NEW i \in Issuers, failedFor'[i] < RetryDelay
      PROVE  /\ err'[i] /\ failAge'[i] = failedFor'[i]
             /\ \A r \in Requests : issuer'[r] = i => pc'[r] \notin Discovering
  BY <1>2 DEF Tick, Pass, Later, reqVars
<1>3. CASE UNCHANGED hvars
  BY <1>3 DEF hvars, vars, history, entryVars, reqVars
<1> QED BY <1>1, <1>2, <1>3 DEF HNext

\* After a failure that is the issuer's no discovery for it starts before
\* discoveryRetryDelay is over, whoever asks and whatever else succeeds.
THEOREM RetriesAreHeldBack == HSpec => RetryDelayRespected
<1>1. HInit => RecentFailureRemembered
  BY ConstantsAssumption DEF HInit, HistoryInit, RecentFailureRemembered
<1>2. CacheInv /\ HistoryType /\ RecentFailureRemembered /\ [HNext]_hvars
         => [\A r \in Requests : pc[r] = "locking" /\ pc'[r] = "discovering"
                 => failedFor[issuer[r]] = RetryDelay]_hvars
  <2> SUFFICES ASSUME CacheInv, HistoryType, RecentFailureRemembered, HNext,
                      NEW r \in Requests, pc[r] = "locking", pc'[r] = "discovering"
               PROVE  failedFor[issuer[r]] = RetryDelay
    OBVIOUS
  <2>1. Timeless
    BY DEF HNext, Tick, reqVars
  <2>2. ~BackingOff(issuer[r])
    BY <2>1, DiscoverersStep DEF Discovering
  <2>3. issuer[r] \in Issuers /\ failAge[issuer[r]] \in Nat
    BY DEF CacheInv, TypeOK
  <2>4. failedFor[issuer[r]] \in 0..RetryDelay
    BY <2>3 DEF HistoryType
  <2> QED BY <2>2, <2>3, <2>4, ConstantsAssumption DEF RecentFailureRemembered, BackingOff
<1> QED BY <1>1, <1>2, CacheInvHolds, HistoryTypeHolds, RecentFailureStep, PTL
        DEF HSpec, RetryDelayRespected

----------------------------------------------------------------------------
(* A failed refresh keeps the provider. *)

ServedHasProvider == \A i \in Issuers : served[i] => provider[i] # NoProvider

LEMMA ProviderStaysStep ==
    ASSUME CacheInv, Timeless
    PROVE  \/ UNCHANGED provider
           \/ \E r \in Requests : PreflightAnswers(r)
  BY DEF Timeless, Client, Lookup, Io, Local, Arrive, ArriveRejected, Cancel, CacheHit,
         BackOff, StartDiscovery, DiscoveryAnswers, DiscoveryFails, PreflightFails,
         RefreshFails, VerifyCached, FetchAnswers, FetchFails, CheckClaims, Endpoints,
         Publish, entryVars

LEMMA ServedStep ==
    CacheInv /\ ServedHasProvider /\ [HNext]_hvars => ServedHasProvider'
<1> SUFFICES ASSUME CacheInv, ServedHasProvider, [HNext]_hvars PROVE ServedHasProvider'
  OBVIOUS
<1> USE ConstantsAssumption DEF ServedHasProvider
<1>1. CASE Timeless /\ Watch
  <2>1. \A i \in Issuers : served'[i] = (served[i] \/ provider'[i] # NoProvider)
    BY <1>1 DEF Watch
  <2>2. CASE UNCHANGED provider
    BY <2>1, <2>2
  <2>3. ASSUME NEW r \in Requests, PreflightAnswers(r) PROVE ServedHasProvider'
    BY <2>1, <2>3, NewProviderIsUnused DEF PreflightAnswers, CacheInv, TypeOK
  <2> QED BY <1>1, <2>2, <2>3, ProviderStaysStep
<1>2. CASE Tick /\ Pass
  BY <1>2 DEF Tick, Pass
<1>3. CASE UNCHANGED hvars
  BY <1>3 DEF hvars, vars, history, entryVars
<1> QED BY <1>1, <1>2, <1>3 DEF HNext

\* A request is denied for want of a provider only if there is none.
LEMMA DeniedStep ==
    ASSUME CacheInv, Timeless, NEW r \in Requests,
           outcome[r] = "none", outcome'[r] = "discovery_failed"
    PROVE  provider[issuer[r]] = NoProvider
<1> USE DEF CacheInv, TypeOK, Goto, entryVars, reqVars, idpVars
<1>1. ASSUME NEW s \in Requests, StaleOrDeny(s)
      PROVE  provider[issuer[r]] = NoProvider
  BY <1>1 DEF StaleOrDeny, Hand, Finish
<1>2. ASSUME NEW s \in Requests, CacheHit(s) \/ BackOff(s) \/ StartDiscovery(s)
      PROVE  provider[issuer[r]] = NoProvider
  BY <1>1, <1>2 DEF CacheHit, BackOff, StartDiscovery, Hand
<1>3. ASSUME NEW s \in Requests, DiscoveryFails(s) \/ PreflightFails(s)
      PROVE  provider[issuer[r]] = NoProvider
  BY <1>1, <1>3 DEF DiscoveryFails, PreflightFails, RefreshFails
<1>4. ASSUME NEW s \in Requests, DiscoveryAnswers(s) \/ PreflightAnswers(s) \/ VerifyCached(s)
      PROVE  FALSE
  BY <1>4 DEF DiscoveryAnswers, PreflightAnswers, VerifyCached, Hand
<1>5. ASSUME NEW s \in Requests, \/ FetchAnswers(s) \/ FetchFails(s) \/ CheckClaims(s)
                                 \/ ArriveRejected(s) \/ Cancel(s)
                                 \/ \E i \in Issuers, k \in Keys : Arrive(s, i, k)
      PROVE  FALSE
  BY <1>5 DEF FetchAnswers, FetchFails, CheckClaims, ArriveRejected, Cancel, Arrive, Finish
<1>6. ASSUME NEW i \in Issuers, Endpoints(i) \/ Publish(i) PROVE FALSE
  BY <1>6 DEF Endpoints, Publish
<1> QED BY <1>2, <1>3, <1>4, <1>5, <1>6 DEF Timeless, Client, Lookup, Io, Local

\* Once a discovery for an issuer has succeeded, no request is denied because
\* discovery fails, for as long as the process lives.
THEOREM ProviderIsKept == HSpec => FailedRefreshKeepsProvider
<1>1. HInit => ServedHasProvider
  BY DEF HInit, HistoryInit, ServedHasProvider
<1>2. CacheInv /\ ServedHasProvider /\ [HNext]_hvars
         => [\A r \in Requests : outcome[r] = "none" /\ outcome'[r] = "discovery_failed"
                 => ~served[issuer[r]]]_hvars
  <2> SUFFICES ASSUME CacheInv, ServedHasProvider, HNext, NEW r \in Requests,
                      outcome[r] = "none", outcome'[r] = "discovery_failed"
               PROVE  ~served[issuer[r]]
    OBVIOUS
  <2>1. Timeless
    BY DEF HNext, Tick, reqVars
  <2>2. issuer[r] \in Issuers /\ provider[issuer[r]] = NoProvider
    BY <2>1, DeniedStep DEF CacheInv, TypeOK
  <2> QED BY <2>2 DEF ServedHasProvider
<1> QED BY <1>1, <1>2, CacheInvHolds, ServedStep, PTL DEF HSpec, FailedRefreshKeepsProvider

----------------------------------------------------------------------------
(* What a step does to one request: it is one of its own, or changes        *)
(* nothing of it but, perhaps, that its client leaves.                      *)

Same(r) == /\ pc'[r] = pc[r] /\ issuer'[r] = issuer[r] /\ key'[r] = key[r]
           /\ held'[r] = held[r] /\ outcome'[r] = outcome[r]

LEMMA OtherRequestStep ==
    ASSUME CacheInv, NEW r \in Requests, NEW s \in Requests, s # r,
           Client(s) \/ Lookup(s) \/ Io(s) \/ Local(s)
    PROVE  Same(r)
<1> USE DEF CacheInv, TypeOK, Goto, Same, entryVars, reqVars, idpVars
<1>1. CASE Client(s)
  BY <1>1 DEF Client, Arrive, ArriveRejected, Cancel, Finish
<1>2. ASSUME StaleOrDeny(s), UNCHANGED <<issuer, key>> PROVE Same(r)
  BY <1>2 DEF StaleOrDeny, Hand, Finish
<1>3. CASE Lookup(s)
  BY <1>2, <1>3 DEF Lookup, CacheHit, BackOff, StartDiscovery, Hand
<1>4. CASE DiscoveryFails(s) \/ PreflightFails(s)
  BY <1>2, <1>4 DEF DiscoveryFails, PreflightFails, RefreshFails
<1>5. CASE DiscoveryAnswers(s) \/ PreflightAnswers(s) \/ FetchAnswers(s) \/ FetchFails(s)
  BY <1>5 DEF DiscoveryAnswers, PreflightAnswers, FetchAnswers, FetchFails, Hand, Finish
<1>6. CASE Local(s)
  BY <1>6 DEF Local, VerifyCached, CheckClaims, Finish
<1> QED BY <1>1, <1>3, <1>4, <1>5, <1>6 DEF Io

LEMMA RequestStep ==
    ASSUME CacheInv, Timeless, NEW r \in Requests
    PROVE  \/ Same(r)
           \/ \E i \in Issuers, k \in Keys : Arrive(r, i, k)
           \/ ArriveRejected(r) \/ Lookup(r) \/ Io(r) \/ Local(r)
<1>1. ASSUME Cancel(r) PROVE Same(r)
  BY <1>1 DEF Cancel, Same
<1>2. ASSUME NEW i \in Issuers, Endpoints(i) \/ Publish(i) PROVE Same(r)
  BY <1>2 DEF Endpoints, Publish, Same, reqVars
<1> QED BY <1>1, <1>2, OtherRequestStep DEF Timeless, Client

----------------------------------------------------------------------------
(* A healthy issuer serves.  Inductive with what "clean" says of a request  *)
(* that is still open.                                                      *)

NoExcuse(r) == /\ Healthy(issuer[r]) /\ upFor[issuer[r]] = RetryDelay
               /\ key[r] \in published[issuer[r]]
               /\ ~cancelled[r]

CleanInv ==
    \A r \in Requests : clean[r] =>
        /\ pc[r] \in Active => NoExcuse(r)
        /\ pc[r] = "done" => outcome[r] \in {"verified", "time_claims", "rejected"}

\* With no excuse a request ends with a verdict on its claims.
LEMMA NoExcuseStep ==
    ASSUME CacheInv, NegativeCacheIsHonest, NEW r \in Requests, NoExcuse(r),
           Lookup(r) \/ Io(r) \/ Local(r), pc'[r] = "done"
    PROVE  outcome'[r] \in {"verified", "time_claims"}
<1> USE DEF CacheInv, TypeOK, Goto, NoExcuse, Healthy
<1>1. ~BackingOff(issuer[r])
  BY ConstantsAssumption DEF BackingOff, NegativeCacheIsHonest
<1>2. ASSUME CacheHit(r) \/ StartDiscovery(r) \/ DiscoveryAnswers(r) \/ PreflightAnswers(r)
             \/ VerifyCached(r)
      PROVE  FALSE
  BY <1>2 DEF CacheHit, StartDiscovery, DiscoveryAnswers, PreflightAnswers, VerifyCached, Hand
<1>3. ASSUME BackOff(r) \/ DiscoveryFails(r) \/ PreflightFails(r) \/ FetchFails(r) PROVE FALSE
  BY <1>1, <1>3 DEF BackOff, DiscoveryFails, PreflightFails, FetchFails
<1>4. ASSUME FetchAnswers(r) PROVE FALSE
  BY <1>4 DEF FetchAnswers
<1>5. ASSUME CheckClaims(r) PROVE outcome'[r] \in {"verified", "time_claims"}
  BY <1>5 DEF CheckClaims, Finish
<1> QED BY <1>2, <1>3, <1>4, <1>5 DEF Lookup, Io, Local

LEMMA CleanStep ==
    CacheInv /\ NegativeCacheIsHonest /\ CleanInv /\ [HNext]_hvars => CleanInv'
<1> SUFFICES ASSUME CacheInv, NegativeCacheIsHonest, CleanInv, [HNext]_hvars
             PROVE  CleanInv'
  OBVIOUS
<1> USE ConstantsAssumption
<1>1. ASSUME Timeless, Watch, NEW r \in Requests, clean'[r]
      PROVE  /\ pc'[r] \in Active => NoExcuse(r)'
             /\ pc'[r] = "done" => outcome'[r] \in {"verified", "time_claims", "rejected"}
  <2>1. /\ IF Arrives(r) THEN upFor[issuer'[r]] = RetryDelay ELSE clean[r]
        /\ pc[r] \in Active \/ Arrives(r) =>
              /\ discUp'[issuer'[r]] /\ jwksUp'[issuer'[r]]
              /\ key'[r] \in published'[issuer'[r]]
              /\ ~cancelled'[r]
    BY <1>1 DEF Watch
  <2>2. issuer'[r] \in Issuers /\ issuer[r] \in Issuers
    BY <1>1, TypeStep DEF CacheInv, TypeOK, Next
  <2>3. \A i \in Issuers : upFor'[i] = IF discUp'[i] /\ jwksUp'[i] THEN upFor[i] ELSE 0
    BY <1>1 DEF Watch
  <2>4. pc[r] \in Active => issuer'[r] = issuer[r]
    BY <1>1, RequestStep
    DEF Same, Arrive, ArriveRejected, Lookup, Io, Local, CacheHit, BackOff, StartDiscovery,
        DiscoveryAnswers, DiscoveryFails, PreflightAnswers, PreflightFails, RefreshFails,
        VerifyCached, FetchAnswers, FetchFails, CheckClaims, Active, Discovering
  <2>5. ASSUME pc'[r] \in Active PROVE NoExcuse(r)'
    BY <2>1, <2>2, <2>3, <2>4, <2>5 DEF Arrives, CleanInv, NoExcuse, Healthy
  <2>6. ASSUME pc'[r] = "done" PROVE outcome'[r] \in {"verified", "time_claims", "rejected"}
    <3>1. clean[r]
      BY <2>1, <2>6 DEF Arrives, Active, Discovering
    <3>2. CASE Same(r)
      BY <2>6, <3>1, <3>2 DEF Same, CleanInv
    <3>3. CASE \E i \in Issuers, k \in Keys : Arrive(r, i, k)
      BY <2>6, <3>3 DEF Arrive, Goto, CacheInv, TypeOK
    <3>4. CASE ArriveRejected(r)
      BY <3>4 DEF ArriveRejected, Finish, CacheInv, TypeOK
    <3>5. CASE Lookup(r) \/ Io(r) \/ Local(r)
      <4>1. pc[r] \in Active
        BY <3>5 DEF Lookup, Io, Local, CacheHit, BackOff, StartDiscovery, Lock,
                    DiscoveryAnswers, DiscoveryFails, PreflightAnswers, PreflightFails,
                    VerifyCached, FetchAnswers, FetchFails, CheckClaims, Active, Discovering
      <4> QED BY <2>6, <3>1, <3>5, <4>1, NoExcuseStep DEF CleanInv
    <3> QED BY <1>1, <3>2, <3>3, <3>4, <3>5, RequestStep
  <2> QED BY <2>5, <2>6
<1>2. CASE Tick /\ Pass
  BY <1>2 DEF Tick, Pass, CleanInv, NoExcuse, Healthy, Later, CacheInv, TypeOK, reqVars, idpVars
<1>3. CASE UNCHANGED hvars
  BY <1>3 DEF hvars, vars, history, reqVars, idpVars, CleanInv, NoExcuse, Healthy
<1> QED BY <1>1, <1>2, <1>3 DEF HNext, CleanInv

\* No request for an issuer that is well, and has been for the length of the
\* retry delay, is denied for anything but what its token says.
THEOREM HealthyIssuersServe == HSpec => []HealthyIssuerServes
<1>1. HInit => NegativeCacheIsHonest /\ UnwellNow /\ CleanInv
  BY DEF HInit, HistoryInit, Init, NegativeCacheIsHonest, UnwellNow, Healthy, CleanInv
<1>2. CleanInv => HealthyIssuerServes
  BY DEF CleanInv, HealthyIssuerServes
<1> QED BY <1>1, <1>2, CacheInvHolds, HistoryTypeHolds, HonestStep, CleanStep, PTL DEF HSpec

----------------------------------------------------------------------------
(* Rotated keys expire.  First, who refers to a provider: the entry of its  *)
(* issuer, and requests with tokens of that issuer.                         *)

Ownership ==
    /\ \A i, j \in Issuers : provider[i] = provider[j] /\ provider[i] # NoProvider => i = j
    /\ \A r \in Requests, i \in Issuers :
          held[r] = provider[i] /\ held[r] # NoProvider => issuer[r] = i
    /\ \A r, s \in Requests :
          held[r] = held[s] /\ held[r] # NoProvider => issuer[r] = issuer[s]
    /\ \A r \in Requests : pc[r] \in Verifying <=> held[r] # NoProvider

LEMMA NewProviderIsNobodys ==
    ASSUME NEW r \in Requests, PreflightAnswers(r)
    PROVE  /\ NewProvider \in Providers
           /\ \A i \in Issuers : provider[i] # NewProvider
           /\ \A s \in Requests : held[s] # NewProvider
<1>1. NewProvider \in Unused
  BY NewProviderIsUnused DEF PreflightAnswers
<1> QED BY <1>1 DEF Unused

LEMMA OwnershipStep == CacheInv /\ Ownership /\ [Next]_vars => Ownership'
<1> SUFFICES ASSUME CacheInv, Ownership, [Next]_vars PROVE Ownership'
  OBVIOUS
<1> USE ConstantsAssumption
<1> USE DEF CacheInv, TypeOK, Ownership, Verifying, Goto, entryVars, reqVars, idpVars
<1>1. ASSUME NEW r \in Requests, NEW i \in Issuers, NEW k \in Keys, Arrive(r, i, k)
      PROVE  Ownership'
  BY <1>1 DEF Arrive
\* A request lets go of its provider, or is handed the cached one.
<1>a. ASSUME NEW r \in Requests, NEW how, Finish(r, how), UNCHANGED <<provider, issuer>>
      PROVE  Ownership'
  <2>1. /\ held' = [held EXCEPT ![r] = NoProvider]
        /\ pc' = [pc EXCEPT ![r] = "done"]
    BY <1>a DEF Finish
  <2> QED BY <1>a, <2>1
<1>b. ASSUME NEW r \in Requests, Hand(r, provider[issuer[r]]), UNCHANGED <<provider, issuer>>,
             provider[issuer[r]] # NoProvider
      PROVE  Ownership'
  BY <1>b DEF Hand
<1>2. ASSUME NEW r \in Requests,
             ArriveRejected(r) \/ FetchFails(r) \/ CheckClaims(r)
      PROVE  Ownership'
  BY <1>a, <1>2 DEF ArriveRejected, FetchFails, CheckClaims
<1>3. ASSUME NEW r \in Requests, Cancel(r) \/ StartDiscovery(r) \/ DiscoveryAnswers(r)
      PROVE  Ownership'
  BY <1>3 DEF Cancel, StartDiscovery, DiscoveryAnswers, Lock
<1>4. ASSUME NEW r \in Requests, StaleOrDeny(r), UNCHANGED <<provider, issuer>>
      PROVE  Ownership'
  BY <1>a, <1>b, <1>4 DEF StaleOrDeny
<1>5. ASSUME NEW r \in Requests, CacheHit(r) PROVE Ownership'
  BY <1>5 DEF CacheHit, FreshProvider, Hand
<1>6. ASSUME NEW r \in Requests, BackOff(r) \/ DiscoveryFails(r) \/ PreflightFails(r)
      PROVE  Ownership'
  BY <1>4, <1>6 DEF BackOff, DiscoveryFails, PreflightFails, RefreshFails
\* Nobody refers to the new provider yet.
<1>7. ASSUME NEW r \in Requests, PreflightAnswers(r) PROVE Ownership'
  <2> DEFINE p == NewProvider
  <2>1. /\ p \in Providers
        /\ \A i \in Issuers : provider[i] # p
        /\ \A s \in Requests : held[s] # p
    BY <1>7, NewProviderIsNobodys
  <2>2. /\ provider' = [provider EXCEPT ![issuer[r]] = p]
        /\ held' = [held EXCEPT ![r] = p]
        /\ pc' = [pc EXCEPT ![r] = "verifying"]
        /\ UNCHANGED issuer
    BY <1>7 DEF PreflightAnswers, Hand
  <2> HIDE DEF p
  <2> QED BY <2>1, <2>2
<1>8. ASSUME NEW r \in Requests, VerifyCached(r) PROVE Ownership'
  BY <1>8 DEF VerifyCached
<1>9. ASSUME NEW r \in Requests, FetchAnswers(r) PROVE Ownership'
  <2>1. UNCHANGED <<provider, issuer>> /\ pc[r] = "fetching"
    BY <1>9 DEF FetchAnswers
  <2>2. CASE Finish(r, "bad_signature")
    BY <1>a, <2>1, <2>2
  <2>3. CASE pc' = [pc EXCEPT ![r] = "claims"] /\ UNCHANGED held
    BY <2>1, <2>3
  <2> QED BY <1>9, <2>2, <2>3 DEF FetchAnswers
<1>10. ASSUME NEW i \in Issuers, Endpoints(i) \/ Publish(i) PROVE Ownership'
  BY <1>10 DEF Endpoints, Publish
<1>11. CASE Tick \/ UNCHANGED vars
  BY <1>11 DEF Tick, vars
<1> QED
  BY <1>1, <1>2, <1>3, <1>5, <1>6, <1>7, <1>8, <1>9, <1>10, <1>11
  DEF Next, Timeless, Client, Lookup, Io, Local

\* Keys come to a provider from a fetch of its issuer, and a provider to an
\* entry from a discovery.
LEMMA KeysStep ==
    ASSUME CacheInv, Timeless
    PROVE  \/ UNCHANGED <<keysOf, provider>>
           \/ \E r \in Requests : PreflightAnswers(r) \/ FetchAnswers(r)
  BY DEF Timeless, Client, Lookup, Io, Local, Arrive, ArriveRejected, Cancel, CacheHit,
         BackOff, StartDiscovery, DiscoveryAnswers, DiscoveryFails, PreflightFails,
         RefreshFails, VerifyCached, FetchFails, CheckClaims, Endpoints, Publish, entryVars

LEMMA AgeStep ==
    ASSUME CacheInv, Timeless
    PROVE  UNCHANGED age \/ \E r \in Requests : PreflightAnswers(r)
  BY DEF Timeless, Client, Lookup, Io, Local, Arrive, ArriveRejected, Cancel, CacheHit,
         BackOff, StartDiscovery, DiscoveryAnswers, DiscoveryFails, PreflightFails,
         RefreshFails, VerifyCached, FetchAnswers, FetchFails, CheckClaims, Endpoints,
         Publish, entryVars

\* A cached provider knows no key that was withdrawn before it was fetched.
KnownKeysAge ==
    \A i \in Issuers : provider[i] # NoProvider =>
        \A k \in keysOf[provider[i]] : gone[i][k] <= age[i]

LEMMA WatchedGone ==
    ASSUME CacheInv, HistoryType, Watch, NEW i \in Issuers, NEW k \in Keys
    PROVE  /\ gone[i][k] \in 0..JwksTTL
           /\ gone'[i][k] = IF k \in published'[i] THEN 0 ELSE gone[i][k]
<1>1. gone[i] \in [Keys -> 0..JwksTTL]
  BY DEF HistoryType
<1>2. gone' = [j \in Issuers |-> [c \in Keys |->
                  IF c \in published'[j] THEN 0 ELSE gone[j][c]]]
  BY DEF Watch
<1> QED BY <1>1, <1>2

LEMMA KnownKeysStep ==
    CacheInv /\ HistoryType /\ Ownership /\ KnownKeysAge /\ [HNext]_hvars => KnownKeysAge'
<1> SUFFICES ASSUME CacheInv, HistoryType, Ownership, KnownKeysAge, [HNext]_hvars
             PROVE  KnownKeysAge'
  OBVIOUS
<1> USE ConstantsAssumption
<1>1. ASSUME Timeless, Watch, NEW i \in Issuers, provider'[i] # NoProvider,
             NEW k \in keysOf'[provider'[i]]
      PROVE  gone'[i][k] <= age'[i]
  <2>1. k \in Keys /\ age'[i] \in 0..JwksTTL
    BY <1>1, TypeStep DEF CacheInv, TypeOK, Next
  <2>2. /\ gone[i][k] \in 0..JwksTTL
        /\ gone'[i][k] = IF k \in published'[i] THEN 0 ELSE gone[i][k]
    BY <1>1, <2>1, WatchedGone
  <2>3. CASE UNCHANGED <<keysOf, provider>> /\ UNCHANGED age
    BY <1>1, <2>1, <2>2, <2>3 DEF KnownKeysAge
  <2>4. ASSUME NEW r \in Requests, FetchAnswers(r) PROVE gone'[i][k] <= age'[i]
    <3>1. /\ keysOf' = [keysOf EXCEPT ![held[r]] = published[issuer[r]]]
          /\ UNCHANGED <<provider, age, published>>
          /\ pc[r] = "fetching"
      BY <2>4 DEF FetchAnswers, entryVars, idpVars
    <3>2. CASE provider[i] = held[r]
      <4>1. issuer[r] = i
        BY <1>1, <3>1, <3>2 DEF Ownership
      <4>2. k \in published[i]
        BY <1>1, <3>1, <3>2, <4>1 DEF CacheInv, TypeOK
      <4> QED BY <2>1, <2>2, <3>1, <4>2
    <3>3. CASE provider[i] # held[r]
      BY <1>1, <2>1, <2>2, <3>1, <3>3 DEF KnownKeysAge, CacheInv, TypeOK
    <3> QED BY <3>2, <3>3
  <2>5. ASSUME NEW r \in Requests, PreflightAnswers(r) PROVE gone'[i][k] <= age'[i]
    <3> DEFINE p == NewProvider
    <3>1. /\ p \in Providers
          /\ \A j \in Issuers : provider[j] # p
      BY <2>5, NewProviderIsNobodys
    <3>2. /\ keysOf' = [keysOf EXCEPT ![p] = {}]
          /\ provider' = [provider EXCEPT ![issuer[r]] = p]
          /\ age' = [age EXCEPT ![issuer[r]] = 0]
      BY <2>5 DEF PreflightAnswers
    <3> HIDE DEF p
    <3>3. i # issuer[r]
      BY <1>1, <3>1, <3>2 DEF CacheInv, TypeOK
    <3>4. provider'[i] = provider[i] /\ age'[i] = age[i] /\ k \in keysOf[provider[i]]
      BY <1>1, <3>1, <3>2, <3>3 DEF CacheInv, TypeOK
    <3> QED BY <1>1, <2>1, <2>2, <3>4 DEF KnownKeysAge
  <2> QED BY <1>1, <2>3, <2>4, <2>5, KeysStep, AgeStep
<1>2. ASSUME Tick, Pass, NEW i \in Issuers, provider'[i] # NoProvider,
             NEW k \in keysOf'[provider'[i]]
      PROVE  gone'[i][k] <= age'[i]
  <2>1. /\ provider' = provider /\ keysOf' = keysOf
        /\ age'[i] = Later(age[i], JwksTTL)
        /\ k \in Keys /\ age[i] \in 0..JwksTTL
    BY <1>2 DEF Tick, CacheInv, TypeOK
  <2>2. gone' = [j \in Issuers |-> [c \in Keys |->
                  IF c \in published[j] THEN 0 ELSE Later(gone[j][c], JwksTTL)]]
    BY <1>2 DEF Pass
  <2>3. gone'[i][k] = IF k \in published[i] THEN 0 ELSE Later(gone[i][k], JwksTTL)
    BY <2>1, <2>2
  <2>4. gone[i] \in [Keys -> 0..JwksTTL]
    BY DEF HistoryType
  <2>5. gone[i][k] \in 0..JwksTTL /\ gone[i][k] <= age[i]
    BY <1>2, <2>1, <2>4 DEF KnownKeysAge
  <2> QED BY <2>1, <2>3, <2>5 DEF Later
<1>3. CASE UNCHANGED hvars
  BY <1>3 DEF hvars, vars, history, entryVars, KnownKeysAge
<1> QED BY <1>1, <1>2, <1>3 DEF HNext, KnownKeysAge

\* A request that has accepted its key, or will do so without a fetch.
Accepts(r) == \/ outcome[r] = "verified" \/ pc[r] = "claims"
              \/ pc[r] = "verifying" /\ key[r] \in keysOf[held[r]]

JustifiedInv ==
    \A r \in Requests : /\ pc[r] \in Active => outcome[r] = "none"
                        /\ Accepts(r) => justified[r]

\* Handed the cached provider without a discovery, the request accepts its key
\* within jwksTTL, or the issuer was not well.
LEMMA HandedStep ==
    ASSUME CacheInv, HistoryType, NegativeCacheIsHonest, UnwellNow, KnownKeysAge,
           NEW r \in Requests, pc'[r] = "verifying", UNCHANGED <<keysOf, key>>,
           CacheHit(r) \/ BackOff(r) \/ DiscoveryFails(r) \/ PreflightFails(r),
           key'[r] \in keysOf'[held'[r]]
    PROVE  Calm(r) => gone[issuer[r]][key[r]] < JwksTTL
<1> USE ConstantsAssumption
<1>1. issuer[r] \in Issuers /\ key[r] \in Keys /\ age[issuer[r]] \in Nat
  BY DEF CacheInv, TypeOK
<1>2. CASE CacheHit(r)
  <2>1. /\ provider[issuer[r]] # NoProvider /\ age[issuer[r]] < JwksTTL
        /\ held'[r] = provider[issuer[r]]
    BY <1>2 DEF CacheHit, FreshProvider, Hand, CacheInv, TypeOK
  <2>2. gone[issuer[r]][key[r]] <= age[issuer[r]]
    BY <1>1, <2>1 DEF KnownKeysAge
  <2>3. gone[issuer[r]] \in [Keys -> 0..JwksTTL]
    BY <1>1 DEF HistoryType
  <2>4. gone[issuer[r]][key[r]] \in Nat
    BY <1>1, <2>3
  <2> QED BY <1>1, <2>1, <2>2, <2>4
<1>3. CASE BackOff(r)
  BY <1>1, <1>3 DEF BackOff, BackingOff, NegativeCacheIsHonest, Calm, CacheInv, TypeOK
<1>4. CASE DiscoveryFails(r) \/ PreflightFails(r)
  <2>1. ~Healthy(issuer[r]) \/ cancelled[r]
    BY <1>4 DEF DiscoveryFails, PreflightFails, Healthy
  <2> QED BY <1>1, <2>1 DEF UnwellNow, Calm
<1> QED BY <1>2, <1>3, <1>4

LEMMA WatchedJustified ==
    ASSUME Watch, NEW r \in Requests
    PROVE  /\ Leaves(r) => justified'[r] = (Calm(r) => gone[issuer[r]][key[r]] < JwksTTL)
           /\ ~Arrives(r) /\ ~Leaves(r) => justified'[r] =
                (justified[r] \/ (held[r] # NoProvider /\ key[r] \in published'[issuer[r]]))
<1>1. ~(Arrives(r) /\ Leaves(r))
  BY DEF Arrives, Leaves, Active
<1> QED BY <1>1 DEF Watch

LEMMA JustifiedStep ==
    CacheInv /\ HistoryType /\ NegativeCacheIsHonest /\ UnwellNow /\ Ownership
        /\ KnownKeysAge /\ JustifiedInv /\ [HNext]_hvars => JustifiedInv'
<1> SUFFICES ASSUME CacheInv, HistoryType, NegativeCacheIsHonest, UnwellNow,
                    Ownership, KnownKeysAge, JustifiedInv, [HNext]_hvars
             PROVE  JustifiedInv'
  OBVIOUS
<1> USE ConstantsAssumption
<1>1. ASSUME Timeless, Watch, NEW r \in Requests
      PROVE  /\ pc'[r] \in Active => outcome'[r] = "none"
             /\ Accepts(r)' => justified'[r]
  <2> DEFINE Goal == /\ pc'[r] \in Active => outcome'[r] = "none"
                     /\ Accepts(r)' => justified'[r]
  <2>1. /\ pc[r] \in Active => outcome[r] = "none"
        /\ Accepts(r) => justified[r]
    BY <1>1 DEF JustifiedInv
  <2>2. /\ r \in DOMAIN pc /\ r \in DOMAIN outcome /\ r \in DOMAIN held
        /\ issuer[r] \in Issuers /\ key[r] \in Keys
    BY DEF CacheInv, TypeOK
  \* Another request may fetch the keys of the provider this one holds.
  <2>3. CASE Same(r)
    <3>1. justified'[r] =
            (justified[r] \/ (held[r] # NoProvider /\ key[r] \in published'[issuer[r]]))
      BY <1>1, <2>3, WatchedJustified DEF Same, Arrives, Leaves, Discovering
    <3>2. ASSUME pc[r] = "verifying", key[r] \in keysOf'[held[r]] PROVE justified'[r]
      <4>1. held[r] # NoProvider /\ held[r] \in Providers
        BY <3>2 DEF Ownership, Verifying, CacheInv, TypeOK
      <4>2. CASE keysOf'[held[r]] = keysOf[held[r]]
        BY <2>1, <3>1, <3>2, <4>2 DEF Accepts
      <4>3. ASSUME NEW s \in Requests, FetchAnswers(s), held[s] = held[r] PROVE justified'[r]
        <5>1. /\ keysOf' = [keysOf EXCEPT ![held[s]] = published[issuer[s]]]
              /\ UNCHANGED published /\ issuer[s] = issuer[r]
          BY <4>1, <4>3 DEF FetchAnswers, idpVars, Ownership
        <5>2. key[r] \in published'[issuer[r]]
          BY <3>2, <4>1, <4>3, <5>1 DEF CacheInv, TypeOK
        <5> QED BY <3>1, <4>1, <5>2
      <4>4. ASSUME NEW s \in Requests, FetchAnswers(s), held[s] # held[r]
            PROVE  keysOf'[held[r]] = keysOf[held[r]]
        BY <4>4 DEF FetchAnswers, CacheInv, TypeOK
      <4>5. ASSUME NEW s \in Requests, PreflightAnswers(s)
            PROVE  keysOf'[held[r]] = keysOf[held[r]]
        <5> DEFINE p == NewProvider
        <5>1. held[r] # p /\ keysOf' = [keysOf EXCEPT ![p] = {}]
          BY <4>5, NewProviderIsNobodys DEF PreflightAnswers
        <5> HIDE DEF p
        <5> QED BY <4>1, <5>1 DEF CacheInv, TypeOK
      <4> QED BY <1>1, <4>2, <4>3, <4>4, <4>5, KeysStep
    <3>3. Accepts(r)' => justified'[r]
      BY <2>1, <2>3, <3>1, <3>2 DEF Same, Accepts
    <3> QED BY <2>1, <2>3, <3>3 DEF Same
  \* The steps after which the request accepts nothing.
  <2>4. ASSUME outcome'[r] = "none", pc'[r] \in {"locking", "discovering", "preflight", "fetching"}
        PROVE  Goal
    BY <2>4 DEF Accepts
  <2>5. ASSUME NEW how, Finish(r, how), how # "verified" PROVE Goal
    BY <2>2, <2>5 DEF Finish, Goto, Accepts, Active, Discovering
  <2>6. CASE \E i \in Issuers, k \in Keys : Arrive(r, i, k)
    BY <2>2, <2>4, <2>6 DEF Arrive, Goto
  <2>7. CASE ArriveRejected(r) \/ FetchFails(r)
    BY <2>5, <2>7 DEF ArriveRejected, FetchFails
  <2>8. CASE StartDiscovery(r) \/ DiscoveryAnswers(r)
    BY <2>1, <2>2, <2>4, <2>8 DEF StartDiscovery, DiscoveryAnswers, Lock, Goto, Active, Discovering
  \* The steps that hand the cached provider to the request.
  <2>9. CASE CacheHit(r) \/ BackOff(r) \/ DiscoveryFails(r) \/ PreflightFails(r)
    <3>1. /\ UNCHANGED <<keysOf, key>>
          /\ pc[r] \in {"locking"} \cup Discovering
          /\ (\E q : Hand(r, q)) \/ Finish(r, "discovery_failed")
      BY <2>9 DEF CacheHit, BackOff, DiscoveryFails, PreflightFails, RefreshFails, StaleOrDeny,
                  Lock, Discovering
    <3>2. CASE Finish(r, "discovery_failed")
      BY <2>5, <3>2
    <3>3. CASE \E q : Hand(r, q)
      <4>1. pc'[r] = "verifying" /\ outcome'[r] = "none"
        BY <2>1, <2>2, <3>1, <3>3 DEF Hand, Goto, Active
      <4>2. Leaves(r)
        BY <3>1, <4>1 DEF Leaves
      <4>3. ASSUME key'[r] \in keysOf'[held'[r]] PROVE justified'[r]
        BY <1>1, <2>9, <3>1, <4>1, <4>2, <4>3, HandedStep, WatchedJustified
      <4> QED BY <4>1, <4>3 DEF Accepts
    <3> QED BY <3>1, <3>2, <3>3
  \* A new provider has no keys yet.
  <2>10. CASE PreflightAnswers(r)
    <3> DEFINE p == NewProvider
    <3>1. /\ p \in Providers /\ keysOf' = [keysOf EXCEPT ![p] = {}]
          /\ Hand(r, p) /\ pc[r] = "preflight"
      BY <2>10, NewProviderIsNobodys DEF PreflightAnswers
    <3> HIDE DEF p
    <3>2. /\ pc'[r] = "verifying" /\ outcome'[r] = "none" /\ held'[r] = p
      BY <2>1, <2>2, <3>1 DEF Hand, Goto, Active, Discovering
    <3>3. keysOf'[held'[r]] = {}
      BY <3>1, <3>2 DEF CacheInv, TypeOK
    <3> QED BY <3>2, <3>3 DEF Accepts
  \* The steps of the verification itself.
  <2>11. CASE VerifyCached(r) \/ FetchAnswers(r) \/ CheckClaims(r)
    <3>1. /\ pc[r] \in Verifying /\ held[r] # NoProvider
          /\ pc'[r] \notin {"verifying"}
      BY <2>2, <2>11 DEF VerifyCached, FetchAnswers, CheckClaims, Goto, Finish, Verifying, Ownership
    <3>2. justified'[r] =
            (justified[r] \/ (held[r] # NoProvider /\ key[r] \in published'[issuer[r]]))
      BY <1>1, <3>1, WatchedJustified DEF Arrives, Leaves, Verifying, Active
    <3>3. CASE VerifyCached(r)
      BY <2>1, <2>2, <3>2, <3>3 DEF VerifyCached, Goto, Accepts, Active
    <3>4. CASE FetchAnswers(r)
      <4>1. CASE Finish(r, "bad_signature")
        BY <2>5, <4>1
      <4>2. CASE key[r] \in published[issuer[r]] /\ Goto(r, "claims") /\ UNCHANGED outcome
        BY <2>1, <2>2, <3>1, <3>2, <3>4, <4>2 DEF FetchAnswers, Goto, idpVars, Active
      <4> QED BY <3>4, <4>1, <4>2 DEF FetchAnswers
    <3>5. CASE CheckClaims(r)
      BY <2>1, <2>2, <3>2, <3>5 DEF CheckClaims, Finish, Goto, Accepts, Active, Discovering
    <3> QED BY <2>11, <3>3, <3>4, <3>5
  <2> HIDE DEF Goal
  <2>12. Goal
    BY <1>1, <2>3, <2>6, <2>7, <2>8, <2>9, <2>10, <2>11, RequestStep DEF Goal, Lookup, Io, Local
  <2> QED BY <2>12 DEF Goal
<1>2. CASE Tick /\ Pass
  BY <1>2 DEF Tick, Pass, reqVars, JustifiedInv, Accepts
<1>3. CASE UNCHANGED hvars
  BY <1>3 DEF hvars, vars, history, entryVars, reqVars, JustifiedInv, Accepts
<1> QED BY <1>1, <1>2, <1>3 DEF HNext, JustifiedInv

\* While its issuer is well, no request accepts a key that the issuer withdrew
\* jwksTTL or longer before the request left provider(): for any number of
\* issuers, requests, keys and providers, and any two delays.
THEOREM RotatedKeysAreForgotten == HSpec => []RotatedKeysExpire
<1>1. HInit => NegativeCacheIsHonest /\ UnwellNow /\ Ownership /\ KnownKeysAge /\ JustifiedInv
  <2> SUFFICES ASSUME HInit
               PROVE  NegativeCacheIsHonest /\ UnwellNow /\ Ownership /\ KnownKeysAge /\ JustifiedInv
    OBVIOUS
  <2>1. NegativeCacheIsHonest /\ UnwellNow
    BY DEF HInit, HistoryInit, Init, NegativeCacheIsHonest, UnwellNow, Healthy
  <2>2. Ownership /\ KnownKeysAge
    BY DEF HInit, Init, Ownership, KnownKeysAge, Verifying
  <2>3. JustifiedInv
    BY DEF HInit, Init, JustifiedInv, Accepts, Active, Discovering
  <2> QED BY <2>1, <2>2, <2>3
<1>2. CacheInv /\ Ownership /\ [HNext]_hvars => Ownership'
  BY HistoryStepIsStep, OwnershipStep
<1>3. JustifiedInv => RotatedKeysExpire
  BY DEF JustifiedInv, RotatedKeysExpire, Accepts
<1> QED BY <1>1, <1>2, <1>3, CacheInvHolds, HistoryTypeHolds, HonestStep, KnownKeysStep,
           JustifiedStep, PTL DEF HSpec
=============================================================================
