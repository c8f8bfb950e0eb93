------------------------- MODULE SignServiceProofs -------------------------
(***************************************************************************)
(* The composition of the pipeline with the provider cache implements the  *)
(* pipeline alone, and keeps every key with the issuer that published it,  *)
(* for any policies, issuers, keys, requests and delays.                   *)
(***************************************************************************)
EXTENDS SignServiceHistory, SignServerProofs

Places == Verifier!Active \cup {"idle", "done"}

\* Requests end with their process; while one is inside Verify, and when it has
\* come out verified, its token is one that its own policy allows.
CallInv ==
    /\ at \in [Requests -> Places]
    /\ outcome \in [Requests -> Verifier!Outcomes]
    /\ \A r \in Requests :
          /\ proc = "down" => pc[r] \notin InFlight
          /\ at[r] # "idle" => pc[r] = "verifying"
          /\ at[r] \in Verifier!Active => input[r].token \in Names[pol[r]]
          /\ at[r] = "done" /\ outcome[r] = "verified" => input[r].token \in Names[pol[r]]

\* A step inside Verify moves r alone, and never back to before the call.
LEMMA VerifySteps ==
    ASSUME CallInv, NEW r \in Requests, InVerify(r)
    PROVE  /\ at[r] \in Verifier!Active
           /\ \E l \in Places \ {"idle"} : at' = [at EXCEPT ![r] = l]
           /\ outcome' \in [Requests -> Verifier!Outcomes]
           /\ \A s \in Requests \ {r} : outcome'[s] = outcome[s]
<1> USE DEF CallInv, Places, Verifier!Active, Verifier!Discovering, Verifier!Outcomes,
            Verifier!Goto
<1> DEFINE Goal ==
      /\ at[r] \in Verifier!Active
      /\ \E l \in Places \ {"idle"} : at' = [at EXCEPT ![r] = l]
      /\ outcome' \in [Requests -> Verifier!Outcomes]
      /\ \A s \in Requests \ {r} : outcome'[s] = outcome[s]
<1>1. ASSUME at[r] \in Verifier!Active, NEW p, Verifier!Hand(r, p) PROVE Goal
  BY <1>1 DEF Verifier!Hand
<1>2. ASSUME at[r] \in Verifier!Active, NEW how \in Verifier!Outcomes, Verifier!Finish(r, how)
      PROVE  Goal
  BY <1>2 DEF Verifier!Finish
<1>3. ASSUME at[r] \in Verifier!Active, Verifier!StaleOrDeny(r) PROVE Goal
  BY <1>1, <1>2, <1>3 DEF Verifier!StaleOrDeny
<1>4. ASSUME at[r] \in Verifier!Active, NEW l \in Places \ {"idle"}, Verifier!Goto(r, l),
             UNCHANGED outcome
      PROVE  Goal
  BY <1>4
<1>5. CASE Verifier!CacheHit(r) \/ Verifier!BackOff(r)
  BY <1>1, <1>3, <1>5 DEF Verifier!CacheHit, Verifier!BackOff, Verifier!Lock
<1>6. CASE Verifier!StartDiscovery(r) \/ Verifier!DiscoveryAnswers(r) \/ Verifier!VerifyCached(r)
  <2>1. at[r] \in Verifier!Active /\ UNCHANGED outcome
    BY <1>6
    DEF Verifier!StartDiscovery, Verifier!DiscoveryAnswers, Verifier!VerifyCached, Verifier!Lock
  <2>2. \E l \in Places \ {"idle"} : Verifier!Goto(r, l)
    BY <1>6 DEF Verifier!StartDiscovery, Verifier!DiscoveryAnswers, Verifier!VerifyCached
  <2> QED BY <2>1, <2>2, <1>4
<1>7. CASE Verifier!DiscoveryFails(r) \/ Verifier!PreflightFails(r)
  BY <1>3, <1>7 DEF Verifier!DiscoveryFails, Verifier!PreflightFails, Verifier!RefreshFails
<1>8. CASE Verifier!PreflightAnswers(r)
  BY <1>1, <1>8 DEF Verifier!PreflightAnswers
<1>9. CASE Verifier!FetchAnswers(r)
  BY <1>2, <1>4, <1>9 DEF Verifier!FetchAnswers
<1>10. CASE Verifier!FetchFails(r) \/ Verifier!CheckClaims(r)
  BY <1>2, <1>10 DEF Verifier!FetchFails, Verifier!CheckClaims
<1>11. CASE Verifier!Cancel(r)
  <2>1. at[r] \in Verifier!Active /\ UNCHANGED <<at, outcome>>
    BY <1>11 DEF Verifier!Cancel
  <2>2. at' = [at EXCEPT ![r] = at[r]]
    BY <2>1
  <2> QED BY <2>1, <2>2
<1> QED
  BY <1>5, <1>6, <1>7, <1>8, <1>9, <1>10, <1>11
  DEF InVerify, Verifier!Lookup, Verifier!Io, Verifier!Local

\* The return of Verify is SignServer's one step.
LEMMA ReturnIsVerifyToken ==
    ASSUME CallInv, NEW r \in Requests, VerifyReturns(r)
    PROVE  VerifyToken(r)
  BY DEF CallInv, VerifyReturns, VerifyToken, PolicyOf

LEMMA SvcImplementsStep ==
    ASSUME CallInv, [SvcNext]_svcVars
    PROVE  [Next]_vars
<1>1. CASE SvcProcessStep
  BY <1>1 DEF SvcProcessStep, Next, Timeless
<1>2. ASSUME NEW r \in Requests, SvcRequestStep(r) PROVE [Next]_vars
  <2>1. CASE CallVerify(r) \/ InVerify(r)
    BY <2>1 DEF CallVerify, InVerify
  <2>2. CASE VerifyReturns(r) \/ OtherStep(r)
    BY <2>2, ReturnIsVerifyToken DEF OtherStep, RequestStep, Timeless, Next
  <2> QED BY <1>2, <2>1, <2>2 DEF SvcRequestStep
<1>3. CASE Environment
  BY <1>3 DEF Environment, Next
<1>4. CASE UNCHANGED svcVars
  BY <1>4 DEF svcVars
<1> QED BY <1>1, <1>2, <1>3, <1>4 DEF SvcNext

LEMMA CallStep ==
    ASSUME SignInv, CallInv, [SvcNext]_svcVars
    PROVE  CallInv'
<1> USE DEF InFlight, Bound, Answered
<1>0. pc \in [Requests -> InFlight \cup Answered \cup {"idle", "cut"}]
  BY DEF SignInv, TypeOK
\* A step outside Verify, of requests that are not in it.
<1>1. ASSUME UNCHANGED cacheVars,
             \A r \in Requests : proc' = "down" => pc'[r] \notin InFlight,
             \A r \in Requests : at[r] # "idle" =>
                 pc'[r] = pc[r] /\ input'[r] = input[r] /\ pol'[r] = pol[r]
      PROVE  CallInv'
  BY <1>1 DEF CallInv, cacheVars, Places, Verifier!Active, Verifier!Discovering
<1>2. CASE SvcProcessStep
  <2>0. \A r \in Requests : proc' = "down" => pc'[r] \notin InFlight
    BY <1>2 DEF SvcProcessStep, ProcessStep
  <2>1. CASE proc' = "down" /\ proc # "down" /\ EndOfProcess
    BY <2>0, <2>1 DEF EndOfProcess, CallInv, Places, Verifier!Active, Verifier!Discovering,
                      Verifier!Outcomes
  <2>2. CASE (proc' # "down" \/ proc = "down") /\ UNCHANGED cacheVars
    <3>1. UNCHANGED <<input, pol>>
      BY <1>2 DEF SvcProcessStep, ProcessStep
    <3>2. \A r \in Requests : at[r] # "idle" => pc'[r] = pc[r]
      BY <1>2, <2>2 DEF SvcProcessStep, ProcessStep, CallInv
    <3> QED BY <1>1, <2>0, <2>2, <3>1, <3>2
  <2> QED BY <1>2, <2>1, <2>2 DEF SvcProcessStep
<1>3. ASSUME NEW r \in Requests, OtherStep(r) PROVE CallInv'
  <2>1. UNCHANGED cacheVars /\ proc' = proc
    BY <1>3
    DEF OtherStep, Receive, LoadPolicy, CheckRequest, MatchAndSign, Audit, Respond, procVars
  <2>2. pc[r] # "verifying" /\ at[r] = "idle"
    BY <1>3
    DEF OtherStep, Receive, LoadPolicy, CheckRequest, MatchAndSign, Audit, Respond, CallInv
  <2>3. \A s \in Requests \ {r} : pc'[s] = pc[s] /\ input'[s] = input[s] /\ pol'[s] = pol[s]
    <3>1. \E l : pc' = [pc EXCEPT ![r] = l]
      BY <1>3
      DEF OtherStep, Receive, LoadPolicy, CheckRequest, MatchAndSign, Audit, Respond, Settle, Goto
    <3>2. input' = input \/ \E in : input' = [input EXCEPT ![r] = in]
      BY <1>3
      DEF OtherStep, Receive, LoadPolicy, CheckRequest, MatchAndSign, Audit, Respond
    <3>3. pol' = pol \/ \E p : pol' = [pol EXCEPT ![r] = p]
      BY <1>3
      DEF OtherStep, Receive, LoadPolicy, CheckRequest, MatchAndSign, Audit, Respond
    <3>4. input \in [Requests -> Inputs] /\ pol \in [Requests -> Policies]
      BY DEF SignInv, TypeOK
    <3> QED BY <1>0, <3>1, <3>2, <3>3, <3>4
  <2>4. proc # "down"
    BY <1>3
    DEF OtherStep, Receive, LoadPolicy, CheckRequest, MatchAndSign, Audit, Respond, CallInv,
        Process!Serving
  <2> QED BY <1>1, <2>1, <2>2, <2>3, <2>4
<1>4. ASSUME NEW r \in Requests, CallVerify(r) PROVE CallInv'
  <2>1. UNCHANGED <<proc, pc, input, pol>> /\ pc[r] = "verifying"
    BY <1>4 DEF CallVerify, vars, procVars, reqVars
  <2>2. CASE \E k \in Keys : Verifier!Arrive(r, IssuerOf[input[r].token], k)
    <3>1. /\ at' = [at EXCEPT ![r] = "locking"]
          /\ outcome' = [outcome EXCEPT ![r] = "none"]
      BY <2>2 DEF Verifier!Arrive, Verifier!Goto
    <3>2. input[r].token \in Names[pol[r]]
      BY <1>4, <2>2 DEF CallVerify, Allowed, PolicyOf, Verifier!Arrive, Verifier!ArriveRejected,
                        Verifier!Finish, Verifier!Goto, CallInv
    <3> QED BY <2>1, <3>1, <3>2 DEF CallInv, Places, Verifier!Active, Verifier!Discovering,
                                    Verifier!Outcomes
  <2>3. CASE Verifier!ArriveRejected(r)
    <3>1. /\ at' = [at EXCEPT ![r] = "done"]
          /\ outcome' = [outcome EXCEPT ![r] = "rejected"]
      BY <2>3 DEF Verifier!ArriveRejected, Verifier!Finish, Verifier!Goto
    <3> QED BY <2>1, <3>1 DEF CallInv, Places, Verifier!Active, Verifier!Discovering,
                              Verifier!Outcomes
  <2> QED BY <1>4, <2>2, <2>3 DEF CallVerify
<1>5. ASSUME NEW r \in Requests, InVerify(r) PROVE CallInv'
  <2>1. UNCHANGED <<proc, pc, input, pol>>
    BY <1>5 DEF InVerify, vars, procVars, reqVars
  <2>2. at[r] \in Verifier!Active /\ pc[r] = "verifying" /\ input[r].token \in Names[pol[r]]
    BY <1>5, VerifySteps DEF CallInv, Verifier!Active, Verifier!Discovering
  <2> QED BY <1>5, <2>1, <2>2, VerifySteps DEF CallInv, Places
<1>6. ASSUME NEW r \in Requests, VerifyReturns(r) PROVE CallInv'
  <2>1. /\ UNCHANGED <<proc, input, pol>>
        /\ at' = [at EXCEPT ![r] = "idle"]
        /\ outcome' = [outcome EXCEPT ![r] = "none"]
        /\ pc[r] = "verifying"
    BY <1>6 DEF VerifyReturns, procVars
  <2>2. \E l : pc' = [pc EXCEPT ![r] = l]
    BY <1>6 DEF VerifyReturns, Settle, Goto
  <2> QED BY <1>0, <2>1, <2>2 DEF CallInv, Places, Verifier!Active, Verifier!Discovering,
                                  Verifier!Outcomes
<1>7. CASE Environment
  <2>1. UNCHANGED <<proc, pc, input, pol, at, outcome>>
    BY <1>7 DEF Environment, vars, procVars, reqVars, Tick, Verifier!Tick, Verifier!reqVars,
                Verifier!Endpoints, Verifier!Publish
  <2> QED BY <2>1 DEF CallInv, Places
<1>8. CASE UNCHANGED svcVars
  BY <1>8 DEF svcVars, cacheVars, vars, procVars, reqVars, CallInv, Places
<1> QED
  BY <1>2, <1>3, <1>4, <1>5, <1>6, <1>7, <1>8 DEF SvcNext, SvcRequestStep

LEMMA CallInit == SvcInit => CallInv
  BY DEF SvcInit, Init, Verifier!Init, CallInv, Places, InFlight, Bound, Verifier!Active,
         Verifier!Discovering, Verifier!Outcomes

\* Whatever the cache, the issuers, the clients and the process do in between,
\* the pipeline gets from Verify what SignServer's one step promises: no token
\* that the request's own policy does not allow gets past it.
THEOREM ServiceImplementsPipeline == SvcSpec => ImplementsSignServer
<1>1. SvcInit => SignInv /\ CallInv /\ Init
  BY SignInit, CallInit DEF SvcInit
<1>2. SignInv /\ CallInv /\ [SvcNext]_svcVars => SignInv' /\ CallInv' /\ [Next]_vars
  BY SvcImplementsStep, SignStep, CallStep
<1> QED BY <1>1, <1>2, PTL DEF SvcSpec, ImplementsSignServer, Spec

\* So the whole service promises what the pipeline does: each request is decided
\* by one policy, in force while it was open.
THEOREM ServiceImplementsCA == SvcSpec => ImplementsCertificateAuthority
  BY ServiceImplementsPipeline, PipelineImplementsCA, PTL DEF ImplementsSignServer

\* And every answer of the whole service is on record, as it was given.
THEOREM ServiceAnswersAreAudited ==
    ASSUME ~StdoutMayFail
    PROVE  SvcSpec => []AnswersAreAudited
  BY ServiceImplementsPipeline, EveryAnswerIsAudited, PTL DEF ImplementsSignServer

----------------------------------------------------------------------------
(* Keys stay with their issuers.  A provider is referred to for one issuer  *)
(* only, and knows keys that this issuer has published while the process    *)
(* lived.                                                                   *)

Holding == {"verifying", "fetching", "claims"}

Refers(p, i) ==
    p # NoProvider /\ (provider[i] = p \/ \E r \in Requests : held[r] = p /\ issuer[r] = i)

\* The key of r's token has been found good.
KeyFits(r) == at[r] = "claims" \/ (at[r] = "done" /\ outcome[r] = "verified") \/ pc[r] = "matching"

ServiceTypes ==
    /\ provider \in [Issuers -> Providers \cup {NoProvider}]
    /\ held \in [Requests -> Providers \cup {NoProvider}]
    /\ keysOf \in [Providers -> SUBSET Keys]
    /\ issuer \in [Requests -> Issuers] /\ key \in [Requests -> Keys]
    /\ published \in [Issuers -> SUBSET Keys] /\ seen \in [Issuers -> SUBSET Keys]

RequestOK(r) ==
    /\ at[r] \in Holding <=> held[r] # NoProvider
    /\ KeyFits(r) => key[r] \in seen[issuer[r]]
    /\ KeyFits(r) \/ at[r] \in Verifier!Active => issuer[r] = IssuerOf[input[r].token]

ProvidersOK ==
    /\ \A p \in Providers, i, j \in Issuers : Refers(p, i) /\ Refers(p, j) => i = j
    /\ \A p \in Providers, i \in Issuers : Refers(p, i) => keysOf[p] \subseteq seen[i]

MemoryInv ==
    /\ ServiceTypes
    /\ \A i \in Issuers : published[i] \subseteq seen[i]
    /\ \A r \in Requests : RequestOK(r)
    /\ ProvidersOK
    /\ proc = "down" => /\ \A i \in Issuers : provider[i] = NoProvider
                        /\ \A r \in Requests : held[r] = NoProvider

LEMMA MemoryInit == ShInit => MemoryInv
<1> SUFFICES ASSUME ShInit PROVE MemoryInv
  OBVIOUS
<1> USE DEF ShInit, SvcInit, Init, Verifier!Init
<1>1. ServiceTypes
  BY DEF ServiceTypes
<1>2. \A r \in Requests : RequestOK(r)
  BY DEF RequestOK, KeyFits, Holding, Verifier!Active, Verifier!Discovering
<1>3. ProvidersOK
  BY DEF ProvidersOK, Refers
<1> QED BY <1>1, <1>2, <1>3 DEF MemoryInv, ServiceTypes

\* While the process lives, what has been seen grows.
Grows == /\ seen' \in [Issuers -> SUBSET Keys]
         /\ \A i \in Issuers : seen[i] \subseteq seen'[i] /\ published'[i] \subseteq seen'[i]

LEMMA NoticeGrows ==
    ASSUME ServiceTypes, Notice, proc' # "down", published' \in [Issuers -> SUBSET Keys]
    PROVE  Grows
  BY DEF Notice, ServiceTypes, Grows

\* What is found of a request and of its provider stays true while neither moves.
LEMMA RequestFrame ==
    ASSUME ServiceTypes, Grows, NEW r \in Requests, RequestOK(r),
           at'[r] = at[r], held'[r] = held[r], outcome'[r] = outcome[r], issuer'[r] = issuer[r],
           key'[r] = key[r], pc'[r] = pc[r], input'[r] = input[r]
    PROVE  RequestOK(r)'
  BY DEF ServiceTypes, Grows, RequestOK, KeyFits

LEMMA FewerReferences ==
    ASSUME ProvidersOK, Grows, UNCHANGED keysOf,
           \A p \in Providers, i \in Issuers : Refers(p, i)' => Refers(p, i)
    PROVE  ProvidersOK'
<1>1. \A p \in Providers, i, j \in Issuers : Refers(p, i)' /\ Refers(p, j)' => i = j
  BY DEF ProvidersOK
<1>2. \A p \in Providers, i \in Issuers : Refers(p, i)' => keysOf'[p] \subseteq seen'[i]
  BY DEF ProvidersOK, Grows
<1> QED BY <1>1, <1>2 DEF ProvidersOK

\* r drops its provider, keeps it, or is handed the one its issuer's entry has.
LEMMA QuietStep ==
    ASSUME ServiceTypes, ProvidersOK, Grows, NEW r \in Requests,
           NEW h \in {held[r], NoProvider, provider[issuer[r]]},
           held' = [held EXCEPT ![r] = h],
           UNCHANGED <<provider, keysOf, issuer, key>>,
           published' \in [Issuers -> SUBSET Keys]
    PROVE  ServiceTypes' /\ ProvidersOK'
<1>1. ServiceTypes'
  BY DEF ServiceTypes, Grows
<1>2. ASSUME NEW p \in Providers, NEW i \in Issuers, Refers(p, i)' PROVE Refers(p, i)
  <2>1. p # NoProvider
    BY ServiceAssumption
  <2>2. CASE provider'[i] = p
    BY <2>1, <2>2 DEF Refers
  <2>3. ASSUME NEW s \in Requests, held'[s] = p, issuer'[s] = i PROVE Refers(p, i)
    <3>1. CASE s # r
      BY <2>1, <2>3, <3>1 DEF Refers, ServiceTypes
    <3>2. CASE s = r
      BY <2>1, <2>3, <3>2 DEF Refers, ServiceTypes
    <3> QED BY <3>1, <3>2
  <2> QED BY <1>2, <2>2, <2>3 DEF Refers
<1> QED BY <1>1, <1>2, FewerReferences

\* What a step of Verify has to show, of request r alone.
LEMMA MemoryOfOne ==
    ASSUME MemoryInv, Grows, proc' # "down", NEW r \in Requests,
           ServiceTypes', ProvidersOK', RequestOK(r)',
           \A s \in Requests \ {r} :
               /\ at'[s] = at[s] /\ held'[s] = held[s] /\ outcome'[s] = outcome[s]
               /\ issuer'[s] = issuer[s] /\ key'[s] = key[s]
               /\ pc'[s] = pc[s] /\ input'[s] = input[s]
    PROVE  MemoryInv'
<1>1. \A s \in Requests : RequestOK(s)'
  <2>1. ASSUME NEW s \in Requests \ {r} PROVE RequestOK(s)'
    <3>1. RequestOK(s)
      BY DEF MemoryInv
    <3> QED BY <3>1, RequestFrame DEF MemoryInv
  <2> QED BY <2>1
<1>2. \A i \in Issuers : published'[i] \subseteq seen'[i]
  BY DEF Grows
<1> QED BY <1>1, <1>2 DEF MemoryInv

\* A step of Verify that takes no provider but the cached one.
LEMMA QuietMemory ==
    ASSUME MemoryInv, CallInv, Grows, NEW r \in Requests,
           NEW h \in {held[r], NoProvider, provider[issuer[r]]}, NEW l, NEW o,
           at' = [at EXCEPT ![r] = l], held' = [held EXCEPT ![r] = h],
           outcome' = [outcome EXCEPT ![r] = o],
           UNCHANGED <<provider, keysOf, issuer, key, published, proc, pc, input>>,
           proc # "down", pc[r] = "verifying", at[r] \in Verifier!Active,
           l \in Holding <=> h # NoProvider,
           l = "claims" \/ (l = "done" /\ o = "verified") => key[r] \in seen[issuer[r]]
    PROVE  MemoryInv'
<1>1. ServiceTypes' /\ ProvidersOK'
  BY QuietStep DEF MemoryInv, ServiceTypes
<1>2. RequestOK(r)'
  <2>1. /\ at'[r] = l /\ held'[r] = h /\ outcome'[r] = o /\ issuer[r] \in Issuers
        /\ issuer[r] = IssuerOf[input[r].token]
    BY DEF MemoryInv, ServiceTypes, CallInv, RequestOK
  <2> QED BY <2>1 DEF RequestOK, KeyFits, Grows
<1> QED BY <1>1, <1>2, MemoryOfOne DEF MemoryInv, ServiceTypes, CallInv

LEMMA VerifyMemory ==
    ASSUME MemoryInv, CallInv, NEW r \in Requests, InVerify(r), Notice
    PROVE  MemoryInv'
<1>1. /\ at[r] \in Verifier!Active /\ pc[r] = "verifying" /\ proc # "down"
      /\ UNCHANGED <<proc, pc, input>>
  BY VerifySteps
  DEF CallInv, InVerify, vars, procVars, reqVars, Verifier!Active, Verifier!Discovering,
      InFlight, Bound
<1>2. UNCHANGED published
  BY DEF InVerify, Verifier!Lookup, Verifier!Io, Verifier!Local, Verifier!Cancel, Verifier!CacheHit,
         Verifier!BackOff, Verifier!StartDiscovery, Verifier!DiscoveryAnswers,
         Verifier!DiscoveryFails, Verifier!PreflightAnswers, Verifier!PreflightFails,
         Verifier!RefreshFails, Verifier!FetchAnswers, Verifier!FetchFails,
         Verifier!VerifyCached, Verifier!CheckClaims, Verifier!idpVars
<1>3. Grows
  BY <1>1, <1>2, NoticeGrows DEF MemoryInv, ServiceTypes
<1>4. /\ held[r] \in Providers \cup {NoProvider} /\ issuer[r] \in Issuers
      /\ held = [held EXCEPT ![r] = held[r]] /\ outcome = [outcome EXCEPT ![r] = outcome[r]]
      /\ at = [at EXCEPT ![r] = at[r]]
      /\ at[r] \in Holding <=> held[r] # NoProvider
      /\ KeyFits(r) => key[r] \in seen[issuer[r]]
  BY DEF MemoryInv, ServiceTypes, CallInv, RequestOK
\* r leaves Verify without a key that fits.
<1>5. ASSUME NEW how \in Verifier!Outcomes, Verifier!Finish(r, how),
             UNCHANGED <<provider, keysOf, issuer, key>>,
             how = "verified" => at[r] = "claims"
      PROVE  MemoryInv'
  <2>1. how = "verified" => key[r] \in seen[issuer[r]]
    BY <1>4, <1>5 DEF KeyFits
  <2> QED BY <1>1, <1>2, <1>3, <1>5, <2>1, QuietMemory DEF Verifier!Finish, Verifier!Goto, Holding
<1>6. ASSUME Verifier!Hand(r, provider[issuer[r]]), provider[issuer[r]] # NoProvider,
             UNCHANGED <<provider, keysOf, issuer, key>>
      PROVE  MemoryInv'
  BY <1>1, <1>2, <1>3, <1>4, <1>6, QuietMemory DEF Verifier!Hand, Verifier!Goto, Holding
<1>7. ASSUME Verifier!StaleOrDeny(r), UNCHANGED <<provider, keysOf, issuer, key>>
      PROVE  MemoryInv'
  BY <1>5, <1>6, <1>7 DEF Verifier!StaleOrDeny, Verifier!Outcomes
\* r goes on with what it holds.
<1>8. ASSUME NEW l, Verifier!Goto(r, l), l \in Holding <=> at[r] \in Holding,
             l = "claims" => key[r] \in seen[issuer[r]], l # "done",
             UNCHANGED <<provider, keysOf, issuer, key, held, outcome>>
      PROVE  MemoryInv'
  BY <1>1, <1>2, <1>3, <1>4, <1>8, QuietMemory DEF Verifier!Goto
<1>9. CASE Verifier!CacheHit(r)
  BY <1>6, <1>9 DEF Verifier!CacheHit, Verifier!FreshProvider, Verifier!entryVars
<1>10. CASE Verifier!BackOff(r) \/ Verifier!DiscoveryFails(r) \/ Verifier!PreflightFails(r)
  BY <1>7, <1>10
  DEF Verifier!BackOff, Verifier!DiscoveryFails, Verifier!PreflightFails, Verifier!RefreshFails,
      Verifier!entryVars
<1>11. CASE Verifier!StartDiscovery(r) \/ Verifier!DiscoveryAnswers(r)
  BY <1>8, <1>11
  DEF Verifier!StartDiscovery, Verifier!DiscoveryAnswers, Verifier!Lock, Verifier!entryVars, Holding
<1>12. CASE Verifier!VerifyCached(r)
  <2>1. held[r] \in Providers /\ Refers(held[r], issuer[r])
    BY <1>4, <1>12 DEF Verifier!VerifyCached, Holding, Refers
  <2>2. keysOf[held[r]] \subseteq seen[issuer[r]]
    BY <1>4, <2>1 DEF MemoryInv, ProvidersOK
  <2> QED BY <1>8, <1>12, <2>2 DEF Verifier!VerifyCached, Verifier!entryVars, Holding
<1>13. CASE Verifier!FetchFails(r) \/ Verifier!CheckClaims(r)
  BY <1>5, <1>13
  DEF Verifier!FetchFails, Verifier!CheckClaims, Verifier!entryVars, Verifier!Outcomes
<1>14. CASE Verifier!Cancel(r)
  BY <1>1, <1>2, <1>3, <1>4, <1>14, QuietMemory
  DEF Verifier!Cancel, Verifier!entryVars, KeyFits, Verifier!Active, Verifier!Discovering
\* The new provider is nobody else's, and knows no key.
<1>15. CASE Verifier!PreflightAnswers(r)
  <2> DEFINE p == Verifier!NewProvider
  <2>1. /\ p \in Providers /\ \A i \in Issuers : provider[i] # p
        /\ \A s \in Requests : held[s] # p
    BY <1>15 DEF Verifier!PreflightAnswers, Verifier!NewProvider, Verifier!Unused
  <2>2. /\ provider' = [provider EXCEPT ![issuer[r]] = p]
        /\ keysOf' = [keysOf EXCEPT ![p] = {}]
        /\ held' = [held EXCEPT ![r] = p]
        /\ at' = [at EXCEPT ![r] = "verifying"]
        /\ UNCHANGED <<issuer, key, outcome>>
    BY <1>15 DEF Verifier!PreflightAnswers, Verifier!Hand, Verifier!Goto
  <2> HIDE DEF p
  <2>3. ServiceTypes'
    BY <1>2, <1>3, <1>4, <2>1, <2>2 DEF MemoryInv, ServiceTypes, Grows
  <2>4. ASSUME NEW q \in Providers, NEW i \in Issuers, Refers(q, i)'
        PROVE  (q = p /\ i = issuer[r]) \/ (q # p /\ Refers(q, i))
    BY <1>4, <2>1, <2>2, <2>4 DEF Refers, MemoryInv, ServiceTypes
  <2>5. ASSUME NEW q \in Providers, NEW i \in Issuers, q # p, Refers(q, i)
        PROVE  keysOf'[q] \subseteq seen'[i]
    BY <1>3, <2>1, <2>2, <2>5 DEF MemoryInv, ProvidersOK, ServiceTypes, Grows
  <2>6. keysOf'[p] = {}
    BY <2>1, <2>2 DEF MemoryInv, ServiceTypes
  <2>7. ProvidersOK'
    BY <2>4, <2>5, <2>6 DEF MemoryInv, ProvidersOK
  <2>8. RequestOK(r)'
    BY <1>1, <1>4, <2>1, <2>2, ServiceAssumption
    DEF RequestOK, KeyFits, Holding, MemoryInv, ServiceTypes, CallInv
  <2> QED BY <1>1, <1>3, <2>2, <2>3, <2>7, <2>8, MemoryOfOne DEF MemoryInv, ServiceTypes, CallInv
\* The keys that r fetches are those of its provider's only issuer.
<1>16. CASE Verifier!FetchAnswers(r)
  <2>1. /\ keysOf' = [keysOf EXCEPT ![held[r]] = published[issuer[r]]]
        /\ UNCHANGED <<provider, issuer, key>> /\ at[r] = "fetching"
    BY <1>16 DEF Verifier!FetchAnswers, Verifier!entryVars
  <2>2. held[r] \in Providers /\ Refers(held[r], issuer[r])
    BY <1>4, <2>1 DEF Holding, Refers
  <2>3. \/ /\ key[r] \in published[issuer[r]] /\ at' = [at EXCEPT ![r] = "claims"]
           /\ UNCHANGED <<held, outcome>>
        \/ /\ at' = [at EXCEPT ![r] = "done"] /\ held' = [held EXCEPT ![r] = NoProvider]
           /\ outcome' = [outcome EXCEPT ![r] = "bad_signature"]
    BY <1>16 DEF Verifier!FetchAnswers, Verifier!Finish, Verifier!Goto
  <2>4. ServiceTypes'
    BY <1>2, <1>3, <1>4, <2>1, <2>3 DEF MemoryInv, ServiceTypes, Grows
  <2>5. ASSUME NEW q \in Providers, NEW i \in Issuers, Refers(q, i)' PROVE Refers(q, i)
    BY <2>1, <2>3, <2>5 DEF Refers, MemoryInv, ServiceTypes
  <2>6. ASSUME NEW q \in Providers, NEW i \in Issuers, Refers(q, i)
        PROVE  keysOf'[q] \subseteq seen'[i]
    <3>1. CASE q = held[r]
      <4>1. i = issuer[r]
        BY <1>4, <2>2, <2>6, <3>1 DEF MemoryInv, ProvidersOK
      <4> QED BY <1>2, <1>3, <2>1, <2>2, <3>1, <4>1 DEF MemoryInv, ServiceTypes, Grows
    <3>2. CASE q # held[r]
      BY <1>3, <2>1, <2>6, <3>2 DEF MemoryInv, ProvidersOK, ServiceTypes, Grows
    <3> QED BY <3>1, <3>2
  <2>7. ProvidersOK'
    BY <2>5, <2>6 DEF MemoryInv, ProvidersOK
  <2>8. RequestOK(r)'
    <3>1. key[r] \in published[issuer[r]] => key[r] \in seen'[issuer[r]]
      BY <1>2, <1>3, <1>4 DEF Grows
    <3>2. issuer[r] = IssuerOf[input[r].token]
      BY <1>1 DEF MemoryInv, RequestOK
    <3>3. pc'[r] = "verifying" /\ issuer'[r] = issuer[r] /\ key'[r] = key[r] /\ input'[r] = input[r]
      BY <1>1, <2>1
    <3>4. CASE at' = [at EXCEPT ![r] = "claims"] /\ UNCHANGED <<held, outcome>>
      BY <1>4, <2>1, <2>2, <2>3, <3>1, <3>2, <3>3, <3>4, ServiceAssumption
      DEF RequestOK, KeyFits, Holding, CallInv
    <3>5. CASE /\ at' = [at EXCEPT ![r] = "done"] /\ held' = [held EXCEPT ![r] = NoProvider]
               /\ outcome' = [outcome EXCEPT ![r] = "bad_signature"]
      BY <3>2, <3>3, <3>5
      DEF RequestOK, KeyFits, Holding, CallInv, MemoryInv, ServiceTypes, Verifier!Active,
          Verifier!Discovering
    <3> QED BY <2>3, <3>4, <3>5
  <2> QED BY <1>1, <1>3, <2>1, <2>3, <2>4, <2>7, <2>8, MemoryOfOne
          DEF MemoryInv, ServiceTypes, CallInv
<1> QED
  BY <1>9, <1>10, <1>11, <1>12, <1>13, <1>14, <1>15, <1>16
  DEF InVerify, Verifier!Lookup, Verifier!Io, Verifier!Local

\* A step that leaves the cache alone and lets no key through.
LEMMA MemoryFrame ==
    ASSUME MemoryInv, UNCHANGED cacheVars, Grows, proc' # "down",
           published' \in [Issuers -> SUBSET Keys],
           \A r \in Requests : /\ pc'[r] = "matching" => pc[r] = "matching"
                               /\ KeyFits(r)' \/ at[r] \in Verifier!Active => input'[r] = input[r]
    PROVE  MemoryInv'
<1> USE DEF cacheVars
<1>1. ServiceTypes'
  BY DEF MemoryInv, ServiceTypes, Grows
<1>2. ProvidersOK'
  BY FewerReferences DEF MemoryInv, Refers
<1>3. ASSUME NEW r \in Requests PROVE RequestOK(r)'
  <2>1. RequestOK(r) /\ issuer[r] \in Issuers /\ (KeyFits(r)' => KeyFits(r))
    BY DEF MemoryInv, ServiceTypes, KeyFits
  <2> QED BY <2>1 DEF RequestOK, Grows
<1> QED BY <1>1, <1>2, <1>3 DEF MemoryInv, Grows

LEMMA MemoryStep ==
    ASSUME SignInv, CallInv, MemoryInv, [ShNext]_shVars
    PROVE  MemoryInv'
<1>0. pc \in [Requests -> InFlight \cup Answered \cup {"idle", "cut"}]
  BY DEF SignInv, TypeOK
<1>1. ASSUME NEW r \in Requests, CallVerify(r), Notice PROVE MemoryInv'
  <2>1. /\ pc[r] = "verifying" /\ at[r] = "idle" /\ held[r] = NoProvider /\ proc # "down"
        /\ UNCHANGED <<proc, pc, input>>
    BY <1>1 DEF CallVerify, MemoryInv, RequestOK, CallInv, Holding, vars, procVars, reqVars,
                InFlight, Bound
  <2>2. UNCHANGED <<provider, keysOf, published>>
    BY <1>1 DEF CallVerify, Verifier!Arrive, Verifier!ArriveRejected, Verifier!entryVars,
                Verifier!idpVars
  <2>3. Grows
    BY <1>1, <2>1, <2>2, NoticeGrows DEF MemoryInv, ServiceTypes
  <2>4. ASSUME NEW k \in Keys, input[r].token \in Allowed(r),
               Verifier!Arrive(r, IssuerOf[input[r].token], k)
        PROVE  MemoryInv'
    <3>1. IssuerOf[input[r].token] \in Issuers
      BY <2>1, <2>4, ServiceAssumption, PoliciesAssumption
      DEF Allowed, PolicyOf, SignInv, TypeOK
    <3>2. /\ issuer' = [issuer EXCEPT ![r] = IssuerOf[input[r].token]]
          /\ key' = [key EXCEPT ![r] = k]
          /\ at' = [at EXCEPT ![r] = "locking"]
          /\ outcome' = [outcome EXCEPT ![r] = "none"] /\ UNCHANGED held
      BY <2>4 DEF Verifier!Arrive, Verifier!Goto
    <3>3. ServiceTypes'
      BY <2>2, <2>3, <3>1, <3>2 DEF MemoryInv, ServiceTypes, Grows
    <3>4. \A p \in Providers, i \in Issuers : Refers(p, i)' => Refers(p, i)
      BY <2>1, <2>2, <3>2, ServiceAssumption DEF Refers, MemoryInv, ServiceTypes
    <3>5. ProvidersOK'
      BY <2>2, <2>3, <3>4, FewerReferences DEF MemoryInv
    <3>6. RequestOK(r)'
      BY <2>1, <3>2 DEF RequestOK, KeyFits, Holding, MemoryInv, ServiceTypes, CallInv
    <3> QED BY <2>1, <2>3, <3>2, <3>3, <3>5, <3>6, MemoryOfOne DEF MemoryInv, ServiceTypes, CallInv
  <2>5. CASE Verifier!ArriveRejected(r)
    <3>1. /\ at' = [at EXCEPT ![r] = "done"] /\ outcome' = [outcome EXCEPT ![r] = "rejected"]
          /\ held' = [held EXCEPT ![r] = NoProvider] /\ UNCHANGED <<issuer, key>>
      BY <2>5 DEF Verifier!ArriveRejected, Verifier!Finish, Verifier!Goto
    <3>2. ServiceTypes' /\ ProvidersOK'
      BY <2>2, <2>3, <3>1, QuietStep DEF MemoryInv, ServiceTypes
    <3>3. RequestOK(r)'
      BY <2>1, <3>1
      DEF RequestOK, KeyFits, Holding, MemoryInv, ServiceTypes, CallInv, Verifier!Active,
          Verifier!Discovering
    <3> QED BY <2>1, <2>3, <3>1, <3>2, <3>3, MemoryOfOne DEF MemoryInv, ServiceTypes, CallInv
  <2> QED BY <1>1, <2>4, <2>5 DEF CallVerify
<1>2. ASSUME NEW r \in Requests, InVerify(r), Notice PROVE MemoryInv'
  BY <1>2, VerifyMemory
<1>3. ASSUME NEW r \in Requests, VerifyReturns(r), Notice PROVE MemoryInv'
  <2>1. /\ at[r] = "done" /\ pc[r] = "verifying" /\ proc # "down"
        /\ at' = [at EXCEPT ![r] = "idle"] /\ outcome' = [outcome EXCEPT ![r] = "none"]
        /\ UNCHANGED <<proc, input, provider, keysOf, issuer, key, held, published>>
    BY <1>3 DEF VerifyReturns, procVars, idpVars, CallInv, InFlight, Bound
  <2>2. \/ outcome[r] = "verified" /\ pc' = [pc EXCEPT ![r] = "matching"]
        \/ pc' = [pc EXCEPT ![r] = "auditing"]
    BY <1>3 DEF VerifyReturns, Settle, Goto
  <2>3. Grows
    BY <1>3, <2>1, NoticeGrows DEF MemoryInv, ServiceTypes
  <2>4. RequestOK(r) /\ issuer[r] \in Issuers /\ held = [held EXCEPT ![r] = held[r]]
    BY DEF MemoryInv, ServiceTypes
  <2>5. ServiceTypes' /\ ProvidersOK'
    BY <2>1, <2>3, <2>4, QuietStep DEF MemoryInv, ServiceTypes
  <2>6. RequestOK(r)'
    BY <1>0, <2>1, <2>2, <2>3, <2>4
    DEF RequestOK, KeyFits, Holding, Grows, CallInv, Verifier!Active, Verifier!Discovering
  <2> QED BY <1>0, <2>1, <2>2, <2>3, <2>5, <2>6, MemoryOfOne DEF CallInv
<1>4. ASSUME NEW r \in Requests, OtherStep(r), Notice PROVE MemoryInv'
  <2>1. UNCHANGED cacheVars /\ UNCHANGED <<proc, published>>
    BY <1>4
    DEF OtherStep, Receive, LoadPolicy, CheckRequest, MatchAndSign, Audit, Respond, procVars, idpVars
  <2>2. proc # "down"
    BY <1>4
    DEF OtherStep, Receive, LoadPolicy, CheckRequest, MatchAndSign, Audit, Respond, CallInv,
        Process!Serving, InFlight, Bound
  <2>3. Grows
    BY <1>4, <2>1, <2>2, NoticeGrows DEF MemoryInv, ServiceTypes
  <2>4. at[r] = "idle"
    BY <1>4
    DEF OtherStep, Receive, LoadPolicy, CheckRequest, MatchAndSign, Audit, Respond, CallInv,
        InFlight, Bound
  <2>5. \E l : pc' = [pc EXCEPT ![r] = l] /\ l # "matching"
    BY <1>4
    DEF OtherStep, Receive, LoadPolicy, CheckRequest, MatchAndSign, Audit, Respond, Settle, Goto,
        Answered
  <2>6. input' = input \/ \E in : input' = [input EXCEPT ![r] = in]
    BY <1>4
    DEF OtherStep, Receive, LoadPolicy, CheckRequest, MatchAndSign, Audit, Respond
  <2>7. \A s \in Requests : /\ pc'[s] = "matching" => pc[s] = "matching"
                            /\ KeyFits(s)' \/ at[s] \in Verifier!Active => input'[s] = input[s]
    <3>1. ~(KeyFits(r)') /\ at[r] \notin Verifier!Active
      BY <1>0, <2>1, <2>4, <2>5 DEF KeyFits, cacheVars, Verifier!Active, Verifier!Discovering
    <3> QED BY <1>0, <2>5, <2>6, <3>1 DEF SignInv, TypeOK
  <2> QED BY <2>1, <2>2, <2>3, <2>7, MemoryFrame DEF MemoryInv, ServiceTypes
<1>5. CASE SvcProcessStep /\ Notice
  <2>1. /\ UNCHANGED <<input, published>>
        /\ \A r \in Requests : pc'[r] = "matching" => pc[r] = "matching" /\ proc' # "down"
    BY <1>5 DEF SvcProcessStep, ProcessStep, idpVars, InFlight, Bound
  <2>2. CASE proc' = "down" /\ proc # "down" /\ EndOfProcess
    <3>1. seen' = published' /\ published \in [Issuers -> SUBSET Keys]
      BY <1>5, <2>1, <2>2 DEF Notice, MemoryInv, ServiceTypes
    <3>2. ServiceTypes'
      BY <2>1, <2>2, <3>1 DEF EndOfProcess, NewEntries, MemoryInv, ServiceTypes
    <3>3. ProvidersOK'
      BY <2>2, ServiceAssumption DEF EndOfProcess, NewEntries, ProvidersOK, Refers
    <3>4. \A r \in Requests : RequestOK(r)'
      BY <2>1, <2>2
      DEF EndOfProcess, RequestOK, KeyFits, Holding, Verifier!Active, Verifier!Discovering
    <3> QED BY <2>2, <3>1, <3>2, <3>3, <3>4 DEF MemoryInv, EndOfProcess, NewEntries
  <2>3. CASE proc' = "down" /\ proc = "down" /\ UNCHANGED cacheVars
    <3>1. seen' = published' /\ published \in [Issuers -> SUBSET Keys]
      BY <1>5, <2>1, <2>3 DEF Notice, MemoryInv, ServiceTypes
    <3>2. ServiceTypes'
      BY <2>1, <2>3, <3>1 DEF cacheVars, MemoryInv, ServiceTypes
    <3>3. ProvidersOK'
      BY <2>3 DEF cacheVars, MemoryInv, ProvidersOK, Refers
    <3>4. ASSUME NEW r \in Requests PROVE RequestOK(r)'
      <4>1. at[r] = "idle" /\ held[r] = NoProvider
        BY <2>3 DEF CallInv, MemoryInv, InFlight, Bound
      <4> QED BY <2>1, <2>3, <4>1
              DEF cacheVars, RequestOK, KeyFits, Holding, Verifier!Active, Verifier!Discovering
    <3> QED BY <2>3, <3>1, <3>2, <3>3, <3>4 DEF MemoryInv, cacheVars
  <2>4. CASE proc' # "down" /\ UNCHANGED cacheVars
    <3>1. Grows
      BY <1>5, <2>1, <2>4, NoticeGrows DEF MemoryInv, ServiceTypes
    <3> QED BY <2>1, <2>4, <3>1, MemoryFrame DEF MemoryInv, ServiceTypes
  <2> QED BY <1>5, <2>2, <2>3, <2>4 DEF SvcProcessStep
<1>6. CASE Environment /\ Notice
  <2>1. /\ UNCHANGED <<proc, pc, input, provider, keysOf, issuer, key, held, outcome, at>>
        /\ published' \in [Issuers -> SUBSET Keys]
    <3>1. CASE \E i \in Issuers : Verifier!Endpoints(i) /\ UNCHANGED vars
      BY <3>1 DEF Verifier!Endpoints, Verifier!entryVars, Verifier!reqVars, vars, procVars, reqVars,
                  MemoryInv, ServiceTypes
    <3>2. CASE \E i \in Issuers : Verifier!Publish(i) /\ UNCHANGED vars
      BY <3>2 DEF Verifier!Publish, Verifier!entryVars, Verifier!reqVars, vars, procVars, reqVars,
                  MemoryInv, ServiceTypes
    <3>3. CASE Tick /\ Verifier!Tick
      BY <3>3 DEF Tick, Verifier!Tick, Verifier!reqVars, Verifier!idpVars, procVars, reqVars,
                  MemoryInv, ServiceTypes
    <3> QED BY <1>6, <3>1, <3>2, <3>3 DEF Environment
  <2>2. /\ seen' \in [Issuers -> SUBSET Keys]
        /\ \A i \in Issuers : published'[i] \subseteq seen'[i]
        /\ proc # "down" => Grows
    BY <1>6, <2>1, NoticeGrows DEF Notice, MemoryInv, ServiceTypes
  <2>3. ServiceTypes'
    BY <2>1, <2>2 DEF MemoryInv, ServiceTypes
  <2>4. ProvidersOK'
    <3>1. CASE proc # "down"
      BY <2>1, <2>2, <3>1, FewerReferences DEF MemoryInv, Refers
    <3>2. CASE proc = "down"
      BY <2>1, <3>2 DEF MemoryInv, ProvidersOK, Refers
    <3> QED BY <3>1, <3>2
  <2>5. ASSUME NEW r \in Requests PROVE RequestOK(r)'
    <3>1. CASE proc # "down"
      BY <2>1, <2>2, <3>1, RequestFrame DEF MemoryInv
    <3>2. CASE proc = "down"
      <4>1. at[r] = "idle" /\ pc[r] # "matching"
        BY <3>2 DEF CallInv, InFlight, Bound
      <4> QED BY <2>1, <4>1
              DEF MemoryInv, RequestOK, KeyFits, Holding, Verifier!Active, Verifier!Discovering
    <3> QED BY <3>1, <3>2
  <2> QED BY <2>1, <2>2, <2>3, <2>4, <2>5 DEF MemoryInv
<1>7. CASE UNCHANGED shVars
  BY <1>7 DEF shVars, svcVars, cacheVars, idpVars, vars, procVars, reqVars, MemoryInv, ServiceTypes,
              ProvidersOK, Refers, RequestOK, KeyFits
<1> QED
  BY <1>1, <1>2, <1>3, <1>4, <1>5, <1>6, <1>7 DEF ShNext, SvcNext, SvcRequestStep

\* No certificate rests on a key of another issuer than the token's, nor on one
\* that this issuer has not published since the process started, whatever stale
\* providers requests hold, replace and share.
THEOREM KeysStayWithTheirIssuer == ShSpec => []KeysAreTheIssuersOwn
<1>1. ShInit => SignInv /\ CallInv /\ MemoryInv
  BY SignInit, CallInit, MemoryInit DEF ShInit, SvcInit
<1>2. SignInv /\ CallInv /\ MemoryInv /\ [ShNext]_shVars => SignInv' /\ CallInv' /\ MemoryInv'
  <2>1. [ShNext]_shVars => [SvcNext]_svcVars
    BY DEF ShNext, shVars
  <2> QED BY <2>1, SvcImplementsStep, SignStep, CallStep, MemoryStep
<1>3. MemoryInv => KeysAreTheIssuersOwn
  BY DEF MemoryInv, RequestOK, KeyFits, KeysAreTheIssuersOwn
<1> QED BY <1>1, <1>2, <1>3, PTL DEF ShSpec

----------------------------------------------------------------------------
(* What is proved of the cache alone holds of the cache in the service,     *)
(* whose processes end at any moment.  Each step of the service is, to the  *)
(* cache, one of its own steps, the return of a call, or a new cache.       *)

VP == INSTANCE ProviderCacheProofs WITH pc <- at, SlowIssuer <- NoProvider

CacheInv == VP!TypeOK /\ VP!DiscovererHoldsMutex /\ VP!MutexIsNeverAbandoned

CacheReturns == \E r \in Requests :
    /\ at[r] = "done"
    /\ at' = [at EXCEPT ![r] = "idle"]
    /\ outcome' = [outcome EXCEPT ![r] = "none"]
    /\ cancelled' = [cancelled EXCEPT ![r] = FALSE]
    /\ UNCHANGED <<mu, provider, age, err, failAge, keysOf, issuer, key, held, idpVars>>

CacheEnds == EndOfProcess /\ UNCHANGED idpVars

LEMMA ServiceAssumptions == VP!ConstantsAssumption
  BY CacheAssumption DEF Verifier!ConstantsAssumption, VP!ConstantsAssumption

LEMMA CacheInit == SvcInit => CacheInv
<1>1. SvcInit => VP!Init
  BY DEF SvcInit, Verifier!Init, VP!Init
<1>2. VP!Init => VP!TypeOK
  BY VP!InitType, ServiceAssumptions
<1>3. VP!Init => VP!DiscovererHoldsMutex /\ VP!MutexIsNeverAbandoned
  BY DEF VP!Init, VP!DiscovererHoldsMutex, VP!MutexIsNeverAbandoned, VP!Discovering
<1> QED BY <1>1, <1>2, <1>3 DEF CacheInv

\* VP names the same actions as Verifier.
LEMMA SameClient ==
    ASSUME NEW r
    PROVE  /\ \A i, k : Verifier!Arrive(r, i, k) = VP!Arrive(r, i, k)
           /\ Verifier!ArriveRejected(r) = VP!ArriveRejected(r)
           /\ Verifier!Cancel(r) = VP!Cancel(r)
  BY DEF Verifier!Arrive, Verifier!ArriveRejected, Verifier!Cancel, Verifier!Finish,
         Verifier!Goto, Verifier!entryVars, Verifier!idpVars, Verifier!Active,
         Verifier!Discovering,
         VP!Arrive, VP!ArriveRejected, VP!Cancel, VP!Finish,
         VP!Goto, VP!entryVars, VP!idpVars, VP!Active, VP!Discovering

LEMMA SameLookup ==
    ASSUME NEW r
    PROVE  Verifier!Lookup(r) = VP!Lookup(r)
  BY DEF Verifier!Lookup, Verifier!CacheHit, Verifier!BackOff, Verifier!StartDiscovery,
         Verifier!Lock, Verifier!FreshProvider, Verifier!BackingOff, Verifier!StaleOrDeny,
         Verifier!Hand, Verifier!Finish, Verifier!Goto, Verifier!entryVars, Verifier!idpVars,
         VP!Lookup, VP!CacheHit, VP!BackOff, VP!StartDiscovery,
         VP!Lock, VP!FreshProvider, VP!BackingOff, VP!StaleOrDeny,
         VP!Hand, VP!Finish, VP!Goto, VP!entryVars, VP!idpVars

LEMMA SameIo ==
    ASSUME NEW r
    PROVE  Verifier!Io(r) = VP!Io(r)
  BY DEF Verifier!Io, Verifier!DiscoveryAnswers, Verifier!DiscoveryFails,
         Verifier!PreflightAnswers, Verifier!PreflightFails, Verifier!FetchAnswers,
         Verifier!FetchFails, Verifier!RefreshFails, Verifier!FailureCounts, Verifier!Unlock,
         Verifier!NewProvider, Verifier!Unused, Verifier!StaleOrDeny,
         Verifier!Hand, Verifier!Finish, Verifier!Goto, Verifier!entryVars, Verifier!idpVars,
         VP!Io, VP!DiscoveryAnswers, VP!DiscoveryFails,
         VP!PreflightAnswers, VP!PreflightFails, VP!FetchAnswers,
         VP!FetchFails, VP!RefreshFails, VP!FailureCounts, VP!Unlock,
         VP!NewProvider, VP!Unused, VP!StaleOrDeny,
         VP!Hand, VP!Finish, VP!Goto, VP!entryVars, VP!idpVars

LEMMA SameLocal ==
    ASSUME NEW r
    PROVE  Verifier!Local(r) = VP!Local(r)
  BY DEF Verifier!Local, Verifier!VerifyCached, Verifier!CheckClaims, Verifier!Finish,
         Verifier!Goto, Verifier!entryVars, Verifier!idpVars,
         VP!Local, VP!VerifyCached, VP!CheckClaims, VP!Finish,
         VP!Goto, VP!entryVars, VP!idpVars

LEMMA SameEnvironment ==
    /\ \A i : Verifier!Endpoints(i) = VP!Endpoints(i) /\ Verifier!Publish(i) = VP!Publish(i)
    /\ Verifier!Tick = VP!Tick
  BY DEF Verifier!Endpoints, Verifier!Publish, Verifier!Tick, Verifier!Later,
         Verifier!entryVars, Verifier!reqVars, Verifier!idpVars,
         VP!Endpoints, VP!Publish, VP!Tick, VP!Later,
         VP!entryVars, VP!reqVars, VP!idpVars

LEMMA CacheSteps ==
    ASSUME SignInv, [SvcNext]_svcVars
    PROVE  [VP!Next]_VP!vars \/ CacheReturns \/ CacheEnds
<1> USE DEF cacheVars, idpVars, VP!vars, VP!entryVars, VP!reqVars, VP!idpVars
<1>1. CASE SvcProcessStep
  BY <1>1 DEF SvcProcessStep, CacheEnds
<1>2. ASSUME NEW r \in Requests, SvcRequestStep(r) PROVE [VP!Next]_VP!vars \/ CacheReturns
  <2>1. CASE CallVerify(r)
    <3>1. CASE \E k \in Keys : input[r].token \in Allowed(r)
                             /\ Verifier!Arrive(r, IssuerOf[input[r].token], k)
      <4>1. IssuerOf[input[r].token] \in Issuers
        BY <1>2, <2>1, <3>1, ServiceAssumption, PoliciesAssumption
        DEF CallVerify, Allowed, PolicyOf, SignInv, TypeOK, InFlight, Bound
      <4>2. \E i \in Issuers, k \in Keys : VP!Arrive(r, i, k)
        BY <3>1, <4>1, SameClient
      <4> QED BY <4>2 DEF VP!Next, VP!Timeless, VP!Client
    <3>2. CASE Verifier!ArriveRejected(r)
      BY <3>2, SameClient DEF VP!Next, VP!Timeless, VP!Client
    <3> QED BY <2>1, <3>1, <3>2 DEF CallVerify
  <2>2. CASE InVerify(r)
    <3>1. CASE Verifier!Lookup(r)
      BY <3>1, SameLookup DEF VP!Next, VP!Timeless
    <3>2. CASE Verifier!Io(r)
      BY <3>2, SameIo DEF VP!Next, VP!Timeless
    <3>3. CASE Verifier!Local(r)
      BY <3>3, SameLocal DEF VP!Next, VP!Timeless
    <3>4. CASE Verifier!Cancel(r)
      BY <3>4, SameClient DEF VP!Next, VP!Timeless, VP!Client
    <3> QED BY <2>2, <3>1, <3>2, <3>3, <3>4 DEF InVerify
  <2>3. CASE VerifyReturns(r)
    BY <2>3 DEF VerifyReturns, CacheReturns
  <2>4. CASE OtherStep(r)
    BY <2>4 DEF OtherStep
  <2> QED BY <1>2, <2>1, <2>2, <2>3, <2>4 DEF SvcRequestStep
<1>3. CASE Environment
  <2>1. ASSUME NEW i \in Issuers, Verifier!Endpoints(i) \/ Verifier!Publish(i)
        PROVE  VP!Next
    BY <2>1, SameEnvironment DEF VP!Next, VP!Timeless
  <2>2. CASE Verifier!Tick
    BY <2>2, SameEnvironment DEF VP!Next
  <2> QED BY <1>3, <2>1, <2>2 DEF Environment
<1>4. CASE UNCHANGED svcVars
  BY <1>4 DEF svcVars
<1> QED BY <1>1, <1>2, <1>3, <1>4 DEF SvcNext

LEMMA CacheStep ==
    ASSUME CacheInv, [VP!Next]_VP!vars \/ CacheReturns \/ CacheEnds
    PROVE  CacheInv'
<1> USE DEF CacheInv
<1>1. CASE [VP!Next]_VP!vars
  BY <1>1, ServiceAssumptions, VP!TypeStep, VP!MutexStep, VP!HolderStep
<1>2. CASE CacheReturns
  <2>1. VP!TypeOK'
    BY <1>2 DEF CacheReturns, VP!TypeOK, VP!Outcomes, idpVars
  <2>2. VP!DiscovererHoldsMutex' /\ VP!MutexIsNeverAbandoned'
    BY <1>2 DEF CacheReturns, VP!DiscovererHoldsMutex, VP!MutexIsNeverAbandoned,
                VP!TypeOK, VP!Discovering
  <2> QED BY <2>1, <2>2
<1>3. CASE CacheEnds
  <2>1. VP!TypeOK'
    BY <1>3, ServiceAssumptions
    DEF CacheEnds, EndOfProcess, NewEntries, VP!TypeOK, VP!Outcomes, idpVars,
        VP!ConstantsAssumption
  <2>2. VP!DiscovererHoldsMutex' /\ VP!MutexIsNeverAbandoned'
    BY <1>3 DEF CacheEnds, EndOfProcess, VP!DiscovererHoldsMutex,
                VP!MutexIsNeverAbandoned, VP!Discovering
  <2> QED BY <2>1, <2>2
<1> QED BY <1>1, <1>2, <1>3

\* Whoever holds an entry mutex is a request of the living process, in the
\* middle of a discovery for that issuer, and no other request has one.
MutexHolderIsAlive ==
    \A i \in Issuers : mu[i] # Nobody =>
        /\ proc # "down"
        /\ \A r \in Requests :
              at[r] \in Verifier!Discovering /\ issuer[r] = i <=> r = mu[i]
        /\ mu[i] \in Requests /\ pc[mu[i]] = "verifying"

\* Across reloads, drains, crashes and restarts of the whole service, no
\* process inherits a locked mutex and no answered request leaves one behind.
THEOREM NoMutexOutlivesItsRequest == SvcSpec => []MutexHolderIsAlive
<1>1. SvcInit => SignInv /\ CallInv /\ CacheInv
  BY SignInit, CallInit, CacheInit DEF SvcInit
<1>2. SignInv /\ CallInv /\ CacheInv /\ [SvcNext]_svcVars => SignInv' /\ CallInv' /\ CacheInv'
  BY SvcImplementsStep, SignStep, CallStep, CacheSteps, CacheStep
<1>3. CallInv /\ CacheInv => MutexHolderIsAlive
  BY ServiceAssumptions
  DEF CallInv, CacheInv, MutexHolderIsAlive, VP!TypeOK, VP!ConstantsAssumption,
      VP!DiscovererHoldsMutex, VP!MutexIsNeverAbandoned, VP!Discovering,
      Verifier!Discovering, InFlight, Bound
<1> QED BY <1>1, <1>2, <1>3, PTL DEF SvcSpec
=============================================================================
