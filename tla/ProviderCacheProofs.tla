----------------------- MODULE ProviderCacheProofs -------------------------
(***************************************************************************)
(* Theorems about ProviderCache, for any number of issuers, requests, keys *)
(* and providers and any jwksTTL and discoveryRetryDelay that satisfy      *)
(* ConstantsAssumption.                                                    *)
(***************************************************************************)
EXTENDS ProviderCache, FiniteSetTheorems, TLAPS

----------------------------------------------------------------------------
(* Type correctness *)

LEMMA LaterInRange ==
    ASSUME NEW cap \in Nat, NEW t \in 0..cap
    PROVE  Later(t, cap) \in 0..cap /\ t <= Later(t, cap)
  BY DEF Later

LEMMA NewProviderIsUnused ==
    ASSUME Unused # {}
    PROVE  NewProvider \in Unused /\ NewProvider \in Providers
  BY DEF NewProvider, Unused

LEMMA InitType == Init => TypeOK
  BY ConstantsAssumption DEF Init, TypeOK, Active, Discovering, Outcomes

LEMMA TypeStep == TypeOK /\ [Next]_vars => TypeOK'
<1> SUFFICES ASSUME TypeOK, [Next]_vars PROVE TypeOK'
  OBVIOUS
<1> USE ConstantsAssumption
<1> USE DEF TypeOK, Active, Discovering, Outcomes, Goto, entryVars, reqVars, idpVars
<1>1. ASSUME NEW r \in Requests, NEW i \in Issuers, NEW k \in Keys, Arrive(r, i, k)
      PROVE  TypeOK'
  <2>1. /\ pc' = [pc EXCEPT ![r] = "locking"]
        /\ issuer' = [issuer EXCEPT ![r] = i] /\ key' = [key EXCEPT ![r] = k]
        /\ cancelled' = [cancelled EXCEPT ![r] = FALSE]
        /\ outcome' = [outcome EXCEPT ![r] = "none"]
    BY <1>1 DEF Arrive
  <2>2. UNCHANGED <<entryVars, keysOf, held, idpVars>>
    BY <1>1 DEF Arrive
  <2> QED BY <2>1, <2>2
<1>2. ASSUME NEW r \in Requests, ArriveRejected(r) PROVE TypeOK'
  <2>1. /\ pc' = [pc EXCEPT ![r] = "done"]
        /\ outcome' = [outcome EXCEPT ![r] = "rejected"]
        /\ held' = [held EXCEPT ![r] = NoProvider]
        /\ cancelled' = [cancelled EXCEPT ![r] = FALSE]
    BY <1>2 DEF ArriveRejected, Finish
  <2>2. UNCHANGED <<entryVars, keysOf, issuer, key, idpVars>>
    BY <1>2 DEF ArriveRejected
  <2> QED BY <2>1, <2>2
<1>3. ASSUME NEW r \in Requests, Cancel(r) PROVE TypeOK'
  <2>1. cancelled' = [cancelled EXCEPT ![r] = TRUE]
    BY <1>3 DEF Cancel
  <2>2. UNCHANGED <<entryVars, keysOf, pc, issuer, key, held, outcome, idpVars>>
    BY <1>3 DEF Cancel
  <2> QED BY <2>1, <2>2
<1>4. ASSUME NEW r \in Requests, CacheHit(r) PROVE TypeOK'
  <2>1. /\ pc' = [pc EXCEPT ![r] = "verifying"]
        /\ held' = [held EXCEPT ![r] = provider[issuer[r]]]
    BY <1>4 DEF CacheHit, Hand
  <2>2. UNCHANGED <<entryVars, keysOf, issuer, key, cancelled, outcome, idpVars>>
    BY <1>4 DEF CacheHit, Hand
  <2> QED BY <2>1, <2>2
<1>5. ASSUME NEW r \in Requests, StaleOrDeny(r)
      PROVE  /\ pc' \in [Requests -> Active \cup {"idle", "done"}]
             /\ held' \in [Requests -> Providers \cup {NoProvider}]
             /\ outcome' \in [Requests -> Outcomes]
  <2>1. CASE Hand(r, provider[issuer[r]])
    BY <2>1 DEF Hand
  <2>2. CASE Finish(r, "discovery_failed")
    BY <2>2 DEF Finish
  <2> QED BY <1>5, <2>1, <2>2 DEF StaleOrDeny
<1>6. ASSUME NEW r \in Requests, BackOff(r) PROVE TypeOK'
  BY <1>5, <1>6 DEF BackOff
<1>7. ASSUME NEW r \in Requests, StartDiscovery(r) PROVE TypeOK'
  <2>1. /\ mu' = [mu EXCEPT ![issuer[r]] = r]
        /\ pc' = [pc EXCEPT ![r] = "discovering"]
    BY <1>7 DEF StartDiscovery
  <2>2. UNCHANGED <<provider, age, err, failAge, keysOf, issuer, key, held, cancelled, outcome, idpVars>>
    BY <1>7 DEF StartDiscovery
  <2> QED BY <2>1, <2>2
<1>8. ASSUME NEW r \in Requests, RefreshFails(r) PROVE TypeOK'
  <2>1. mu' \in [Issuers -> Requests \cup {Nobody}]
    BY <1>8 DEF RefreshFails, Unlock
  <2>2. /\ err' \in [Issuers -> BOOLEAN]
        /\ failAge' \in [Issuers -> 0..RetryDelay]
    <3>1. \/ /\ err' = [err EXCEPT ![issuer[r]] = TRUE]
             /\ failAge' = [failAge EXCEPT ![issuer[r]] = 0]
          \/ UNCHANGED <<err, failAge>>
      BY <1>8, Zenon DEF RefreshFails
    <3>2. err' \in [Issuers -> BOOLEAN]
      BY <3>1
    <3>3. failAge' \in [Issuers -> 0..RetryDelay]
      BY <3>1
    <3> QED BY <3>2, <3>3
  <2> QED BY <1>5, <1>8, <2>1, <2>2 DEF RefreshFails
<1>9. ASSUME NEW r \in Requests, DiscoveryAnswers(r) PROVE TypeOK'
  BY <1>9 DEF DiscoveryAnswers
<1>10. ASSUME NEW r \in Requests, PreflightAnswers(r) PROVE TypeOK'
  <2>1. NewProvider \in Providers
    BY <1>10, NewProviderIsUnused DEF PreflightAnswers
  <2> QED BY <1>10, <2>1 DEF PreflightAnswers, Hand, Unlock
<1>11. ASSUME NEW r \in Requests, VerifyCached(r) PROVE TypeOK'
  BY <1>11 DEF VerifyCached
<1>12. ASSUME NEW r \in Requests, FetchAnswers(r) PROVE TypeOK'
  BY <1>12 DEF FetchAnswers, Finish
<1>13. ASSUME NEW r \in Requests, FetchFails(r) PROVE TypeOK'
  BY <1>13 DEF FetchFails, Finish
<1>14. ASSUME NEW r \in Requests, CheckClaims(r) PROVE TypeOK'
  BY <1>14 DEF CheckClaims, Finish
<1>15. ASSUME NEW i \in Issuers, Endpoints(i) PROVE TypeOK'
  BY <1>15 DEF Endpoints
<1>16. ASSUME NEW i \in Issuers, Publish(i) PROVE TypeOK'
  BY <1>16 DEF Publish
<1>17. CASE Tick
  BY <1>17, LaterInRange DEF Tick
<1>18. CASE UNCHANGED vars
  BY <1>18 DEF vars
<1> QED
  BY <1>1, <1>2, <1>3, <1>4, <1>6, <1>7, <1>8, <1>9, <1>10, <1>11, <1>12, <1>13,
     <1>14, <1>15, <1>16, <1>17, <1>18
  DEF Next, Timeless, Client, Lookup, Io, Local, DiscoveryFails, PreflightFails

\* Every variable keeps its type; in particular every age stays within the
\* bound it is compared with.
THEOREM TypeCorrect == Spec => []TypeOK
<1> QED BY InitType, TypeStep, PTL DEF Spec

----------------------------------------------------------------------------
(* Discovery is serialized per issuer.  OneDiscoveryPerIssuer alone is not  *)
(* inductive: a second discovery is kept out by the mutex, so the invariant *)
(* must say that whoever is discovering holds it.                           *)

DiscovererHoldsMutex ==
    \A r \in Requests : pc[r] \in Discovering => mu[issuer[r]] = r

LEMMA MutexStep == TypeOK /\ DiscovererHoldsMutex /\ [Next]_vars => DiscovererHoldsMutex'
<1> SUFFICES ASSUME TypeOK, DiscovererHoldsMutex, [Next]_vars
             PROVE  DiscovererHoldsMutex'
  OBVIOUS
<1> USE ConstantsAssumption
<1> USE DEF TypeOK, DiscovererHoldsMutex, Active, Discovering, Goto, entryVars, reqVars
\* Most steps lock nothing and start nothing.
<1>1. ASSUME NEW r \in Requests, UNCHANGED mu,
             \/ UNCHANGED <<pc, issuer>>
             \/ /\ pc' = [pc EXCEPT ![r] = pc'[r]]
                /\ \A s \in Requests \ {r} : issuer'[s] = issuer[s]
                /\ \/ pc'[r] \notin Discovering
                   \/ pc[r] \in Discovering /\ issuer'[r] = issuer[r]
      PROVE  DiscovererHoldsMutex'
  BY <1>1
<1>2. ASSUME NEW r \in Requests, StaleOrDeny(r)
      PROVE  pc' = [pc EXCEPT ![r] = pc'[r]] /\ pc'[r] \notin Discovering
  BY <1>2 DEF StaleOrDeny, Hand, Finish
<1>3. ASSUME NEW r \in Requests, NEW i \in Issuers, NEW k \in Keys, Arrive(r, i, k)
      PROVE  DiscovererHoldsMutex'
  BY <1>1, <1>3 DEF Arrive
<1>4. ASSUME NEW r \in Requests,
             \/ ArriveRejected(r) \/ CacheHit(r) \/ VerifyCached(r)
             \/ FetchAnswers(r) \/ FetchFails(r) \/ CheckClaims(r)
      PROVE  DiscovererHoldsMutex'
  BY <1>1, <1>4 DEF ArriveRejected, CacheHit, VerifyCached, FetchAnswers, FetchFails,
                    CheckClaims, Finish, Hand
<1>5. ASSUME NEW r \in Requests, Cancel(r) \/ DiscoveryAnswers(r)
      PROVE  DiscovererHoldsMutex'
  BY <1>1, <1>5 DEF Cancel, DiscoveryAnswers
<1>6. ASSUME NEW r \in Requests, BackOff(r) PROVE DiscovererHoldsMutex'
  BY <1>1, <1>2, <1>6 DEF BackOff
\* The one step that starts a discovery takes the free mutex.
<1>7. ASSUME NEW r \in Requests, StartDiscovery(r) PROVE DiscovererHoldsMutex'
  BY <1>7 DEF StartDiscovery, Lock
\* The steps that release it end the only discovery of that issuer.
<1>8. ASSUME NEW r \in Requests, pc[r] \in Discovering, UNCHANGED issuer, Unlock(r),
             pc' = [pc EXCEPT ![r] = pc'[r]], pc'[r] \notin Discovering
      PROVE  DiscovererHoldsMutex'
  BY <1>8 DEF Unlock
<1>9. ASSUME NEW r \in Requests, DiscoveryFails(r) \/ PreflightFails(r)
      PROVE  DiscovererHoldsMutex'
  BY <1>2, <1>8, <1>9 DEF DiscoveryFails, PreflightFails, RefreshFails
<1>10. ASSUME NEW r \in Requests, PreflightAnswers(r) PROVE DiscovererHoldsMutex'
  BY <1>8, <1>10 DEF PreflightAnswers, Hand
<1>11. ASSUME NEW i \in Issuers, Endpoints(i) \/ Publish(i) PROVE DiscovererHoldsMutex'
  BY <1>11 DEF Endpoints, Publish
<1>12. CASE Tick \/ UNCHANGED vars
  BY <1>12 DEF Tick, vars
<1> QED
  BY <1>3, <1>4, <1>5, <1>6, <1>7, <1>9, <1>10, <1>11, <1>12
  DEF Next, Timeless, Client, Lookup, Io, Local

\* At most one request at a time runs discovery or the JWKS pre-flight for an
\* issuer, so concurrent first requests cannot multiply outbound fetches.
THEOREM DiscoveryIsSerialized == Spec => []OneDiscoveryPerIssuer
<1>1. Init => DiscovererHoldsMutex
  BY DEF Init, DiscovererHoldsMutex, Discovering
<1>2. DiscovererHoldsMutex => OneDiscoveryPerIssuer
  BY DEF DiscovererHoldsMutex, OneDiscoveryPerIssuer
<1> QED BY <1>1, <1>2, TypeCorrect, MutexStep, PTL DEF Spec

----------------------------------------------------------------------------
(* The mutex is never abandoned: inductive with DiscovererHoldsMutex, which *)
(* keeps a step of one discovery from touching the mutex of another.        *)

LEMMA HolderStep ==
    TypeOK /\ DiscovererHoldsMutex /\ MutexIsNeverAbandoned /\ [Next]_vars
    => MutexIsNeverAbandoned'
<1> SUFFICES ASSUME TypeOK, DiscovererHoldsMutex, MutexIsNeverAbandoned, [Next]_vars
             PROVE  MutexIsNeverAbandoned'
  OBVIOUS
<1> USE ConstantsAssumption
<1> USE DEF TypeOK, DiscovererHoldsMutex, MutexIsNeverAbandoned, Active, Discovering, Goto,
            entryVars, reqVars
\* A step of r leaves the mutex alone, unless r is at most waiting for it.
<1>1. ASSUME NEW r \in Requests, UNCHANGED mu,
             \/ UNCHANGED <<pc, issuer>>
             \/ /\ pc' = [pc EXCEPT ![r] = pc'[r]]
                /\ \A s \in Requests \ {r} : issuer'[s] = issuer[s]
                /\ \/ pc[r] \notin Discovering
                   \/ pc'[r] \in Discovering /\ issuer'[r] = issuer[r]
      PROVE  MutexIsNeverAbandoned'
  BY <1>1
<1>2. ASSUME NEW r \in Requests, StaleOrDeny(r)
      PROVE  pc' = [pc EXCEPT ![r] = pc'[r]]
  BY <1>2 DEF StaleOrDeny, Hand, Finish
<1>3. ASSUME NEW r \in Requests, NEW i \in Issuers, NEW k \in Keys, Arrive(r, i, k)
      PROVE  MutexIsNeverAbandoned'
  BY <1>1, <1>3 DEF Arrive
<1>4. ASSUME NEW r \in Requests,
             \/ ArriveRejected(r) \/ CacheHit(r) \/ VerifyCached(r)
             \/ FetchAnswers(r) \/ FetchFails(r) \/ CheckClaims(r)
      PROVE  MutexIsNeverAbandoned'
  BY <1>1, <1>4 DEF ArriveRejected, CacheHit, VerifyCached, FetchAnswers, FetchFails,
                    CheckClaims, Finish, Hand, Lock
<1>5. ASSUME NEW r \in Requests, Cancel(r) \/ DiscoveryAnswers(r)
      PROVE  MutexIsNeverAbandoned'
  BY <1>1, <1>5 DEF Cancel, DiscoveryAnswers
<1>6. ASSUME NEW r \in Requests, BackOff(r) PROVE MutexIsNeverAbandoned'
  BY <1>1, <1>2, <1>6 DEF BackOff, Lock
<1>7. ASSUME NEW r \in Requests, StartDiscovery(r) PROVE MutexIsNeverAbandoned'
  BY <1>7 DEF StartDiscovery, Lock
\* A discovery that ends, in whatever way, releases the mutex it holds, and
\* holds no other.
<1>8. ASSUME NEW r \in Requests, pc[r] \in Discovering, UNCHANGED issuer, Unlock(r),
             pc' = [pc EXCEPT ![r] = pc'[r]]
      PROVE  MutexIsNeverAbandoned'
  <2>1. mu' = [mu EXCEPT ![issuer[r]] = Nobody] /\ mu[issuer[r]] = r /\ issuer[r] \in Issuers
    BY <1>8 DEF Unlock
  <2> SUFFICES ASSUME NEW i \in Issuers, mu'[i] # Nobody
               PROVE  pc'[mu'[i]] \in Discovering /\ issuer'[mu'[i]] = i
    OBVIOUS
  <2>2. i # issuer[r] /\ mu'[i] = mu[i]
    BY <2>1
  <2>3. pc[mu[i]] \in Discovering /\ issuer[mu[i]] = i
    BY <2>2
  <2>4. mu[i] \in Requests /\ mu[i] # r
    BY <2>2, <2>3
  <2> QED BY <1>8, <2>2, <2>3, <2>4
<1>9. ASSUME NEW r \in Requests, DiscoveryFails(r) \/ PreflightFails(r)
      PROVE  MutexIsNeverAbandoned'
  <2>1. pc[r] \in Discovering /\ RefreshFails(r)
    BY <1>9 DEF DiscoveryFails, PreflightFails
  <2>2. UNCHANGED issuer /\ Unlock(r) /\ StaleOrDeny(r)
    BY <2>1 DEF RefreshFails
  <2> QED BY <1>2, <1>8, <2>1, <2>2
<1>10. ASSUME NEW r \in Requests, PreflightAnswers(r) PROVE MutexIsNeverAbandoned'
  <2>1. pc[r] \in Discovering /\ UNCHANGED issuer /\ Unlock(r)
    BY <1>10 DEF PreflightAnswers
  <2>2. pc' = [pc EXCEPT ![r] = pc'[r]]
    BY <1>10 DEF PreflightAnswers, Hand
  <2> QED BY <1>8, <2>1, <2>2
<1>11. ASSUME NEW i \in Issuers, Endpoints(i) \/ Publish(i) PROVE MutexIsNeverAbandoned'
  BY <1>11 DEF Endpoints, Publish
<1>12. CASE Tick \/ UNCHANGED vars
  BY <1>12 DEF Tick, vars
<1> QED
  BY <1>3, <1>4, <1>5, <1>6, <1>7, <1>9, <1>10, <1>11, <1>12
  DEF Next, Timeless, Client, Lookup, Io, Local

\* Success, failure, time-out and cancellation all release the entry mutex.
THEOREM MutexIsReleased == Spec => []MutexIsNeverAbandoned
<1>1. Init => DiscovererHoldsMutex /\ MutexIsNeverAbandoned
  BY DEF Init, DiscovererHoldsMutex, MutexIsNeverAbandoned, Discovering
<1> QED BY <1>1, TypeCorrect, MutexStep, HolderStep, PTL DEF Spec

----------------------------------------------------------------------------
(* Providers are heap objects, which the model numbers: with one for each   *)
(* issuer and each request it never runs out of them, so that the condition *)
(* Unused # {} of PreflightAnswers, which the code does not have, never     *)
(* keeps a discovery from its end.                                          *)

Verifying == {"verifying", "fetching", "claims"}

HoldersVerify == \A r \in Requests : held[r] # NoProvider => pc[r] \in Verifying

LEMMA HoldersStep == TypeOK /\ HoldersVerify /\ [Next]_vars => HoldersVerify'
<1> SUFFICES ASSUME TypeOK, HoldersVerify, [Next]_vars PROVE HoldersVerify'
  OBVIOUS
<1> USE DEF TypeOK, HoldersVerify, Verifying, Goto
<1>1. ASSUME NEW r \in Requests, NEW l, NEW h, h = NoProvider \/ l \in Verifying,
             pc' = [pc EXCEPT ![r] = l], held' = [held EXCEPT ![r] = h]
      PROVE  HoldersVerify'
  BY <1>1
<1>2. ASSUME NEW r \in Requests, NEW p, Hand(r, p) PROVE HoldersVerify'
  BY <1>1, <1>2 DEF Hand
<1>3. ASSUME NEW r \in Requests, NEW how, Finish(r, how) PROVE HoldersVerify'
  BY <1>1, <1>3 DEF Finish
<1>4. ASSUME NEW r \in Requests, UNCHANGED held, NEW l, Goto(r, l),
             l \in Verifying \/ pc[r] \notin Verifying
      PROVE  HoldersVerify'
  BY <1>4
<1>5. ASSUME NEW r \in Requests, NEW i, NEW k, Arrive(r, i, k) PROVE HoldersVerify'
  BY <1>4, <1>5 DEF Arrive
<1>6. ASSUME NEW r \in Requests, CacheHit(r) \/ PreflightAnswers(r) PROVE HoldersVerify'
  BY <1>2, <1>6 DEF CacheHit, PreflightAnswers
<1>7. ASSUME NEW r \in Requests, ArriveRejected(r) \/ FetchFails(r) \/ CheckClaims(r)
      PROVE  HoldersVerify'
  BY <1>3, <1>7 DEF ArriveRejected, FetchFails, CheckClaims
<1>8. ASSUME NEW r \in Requests, BackOff(r) \/ DiscoveryFails(r) \/ PreflightFails(r)
      PROVE  HoldersVerify'
  BY <1>2, <1>3, <1>8 DEF BackOff, DiscoveryFails, PreflightFails, RefreshFails, StaleOrDeny
<1>9. ASSUME NEW r \in Requests,
             StartDiscovery(r) \/ DiscoveryAnswers(r) \/ VerifyCached(r)
      PROVE  HoldersVerify'
  BY <1>4, <1>9 DEF StartDiscovery, DiscoveryAnswers, VerifyCached, Lock
<1>10. ASSUME NEW r \in Requests, FetchAnswers(r) PROVE HoldersVerify'
  BY <1>3, <1>4, <1>10 DEF FetchAnswers
<1>11. ASSUME UNCHANGED <<pc, held>> PROVE HoldersVerify'
  BY <1>11
<1>12. ASSUME NEW r \in Requests, Cancel(r) PROVE HoldersVerify'
  BY <1>11, <1>12 DEF Cancel
<1>13. ASSUME NEW i \in Issuers, Endpoints(i) \/ Publish(i) PROVE HoldersVerify'
  BY <1>11, <1>13 DEF Endpoints, Publish, reqVars
<1>14. CASE Tick \/ UNCHANGED vars
  BY <1>11, <1>14 DEF Tick, vars, reqVars
<1> QED
  BY <1>5, <1>6, <1>7, <1>8, <1>9, <1>10, <1>12, <1>13, <1>14
  DEF Next, Timeless, Client, Lookup, Io, Local

\* A set that a function on S covers is no larger than S.
LEMMA Covered ==
    ASSUME NEW S, IsFiniteSet(S), NEW f, NEW T \in SUBSET {f[x] : x \in S}
    PROVE  IsFiniteSet(T) /\ Cardinality(T) \in Nat /\ Cardinality(T) <= Cardinality(S)
<1> DEFINE I == {f[x] : x \in S}
           g == [x \in S |-> f[x]]
<1>1. g \in Surjection(S, I)
  BY DEF Surjection
<1>2. IsFiniteSet(I) /\ Cardinality(I) <= Cardinality(S)
  BY <1>1, FS_Surjection
<1>3. IsFiniteSet(T) /\ Cardinality(T) <= Cardinality(I)
  BY <1>2, FS_Subset
<1> HIDE DEF I
<1>4. Cardinality(T) \in Nat /\ Cardinality(I) \in Nat /\ Cardinality(S) \in Nat
  BY <1>2, <1>3, FS_CardinalityType
<1> QED BY <1>2, <1>3, <1>4

EnoughForAll == \A r \in Requests : pc[r] = "preflight" => Unused # {}

\* The model's heap is as good as an endless one.
THEOREM AllocationNeverFails ==
    ASSUME IsFiniteSet(Issuers), IsFiniteSet(Requests), IsFiniteSet(Providers),
           Cardinality(Issuers) + Cardinality(Requests) <= Cardinality(Providers)
    PROVE  Spec => []EnoughForAll
<1>1. Init => HoldersVerify
  BY DEF Init, HoldersVerify
<1>2. TypeOK /\ HoldersVerify => EnoughForAll
  <2> SUFFICES ASSUME TypeOK, HoldersVerify, NEW r \in Requests, pc[r] = "preflight",
                      Unused = {}
               PROVE  FALSE
    BY DEF EnoughForAll
  <2> DEFINE Others == Requests \ {r}
             Cached == {p \in Providers : \E i \in Issuers : provider[i] = p}
             Held == {p \in Providers : \E s \in Others : held[s] = p}
  <2>1. held[r] = NoProvider
    BY DEF HoldersVerify, Verifying
  <2>2. Providers = Cached \cup Held
    BY <2>1, ConstantsAssumption DEF Unused
  <2>3. IsFiniteSet(Others) /\ Cardinality(Others) = Cardinality(Requests) - 1
    BY FS_RemoveElement
  <2>4. Cached \subseteq {provider[i] : i \in Issuers} /\ Held \subseteq {held[s] : s \in Others}
    OBVIOUS
  <2> HIDE DEF Others, Cached, Held
  <2>5. IsFiniteSet(Cached) /\ Cardinality(Cached) \in Nat
        /\ Cardinality(Cached) <= Cardinality(Issuers)
    BY <2>4, Covered
  <2>6. IsFiniteSet(Held) /\ Cardinality(Held) \in Nat
        /\ Cardinality(Held) <= Cardinality(Others)
    BY <2>3, <2>4, Covered
  <2>7. Cardinality(Providers)
          = Cardinality(Cached) + Cardinality(Held) - Cardinality(Cached \cap Held)
    BY <2>2, <2>5, <2>6, FS_Union
  <2>8. Cardinality(Cached \cap Held) \in Nat
    BY <2>5, FS_Intersection, FS_CardinalityType
  <2>9. Cardinality(Issuers) \in Nat /\ Cardinality(Requests) \in Nat
    BY FS_CardinalityType
  <2> QED BY <2>3, <2>5, <2>6, <2>7, <2>8, <2>9
<1> QED BY <1>1, <1>2, TypeCorrect, HoldersStep, PTL DEF Spec
=============================================================================
