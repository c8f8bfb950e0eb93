---------------------------- MODULE SignService ----------------------------
(***************************************************************************)
(* The whole server: the /sign pipeline of SignServer, whose step          *)
(* VerifyToken is now a call of the provider cache, step by step.  The     *)
(* cache belongs to the process and ends with it; the issuers a request    *)
(* may use are those of the policy it has loaded.                          *)
(***************************************************************************)
EXTENDS SignServer

CONSTANTS Issuers, Keys, Providers, JwksTTL, RetryDelay, Nobody, NoProvider,
          IssuerOf      \* the issuer a token names

ASSUME ServiceAssumption == /\ NoProvider \notin Providers
                            /\ IssuerOf \in [Tokens -> Issuers]

VARIABLES
    mu, provider, age, err, failAge, keysOf,          \* of ProviderCache
    issuer, key, held, cancelled, outcome, discUp, jwksUp, published,
    at            \* its pc: where in Verify the request is

Verifier == INSTANCE ProviderCache WITH pc <- at, SlowIssuer <- NoProvider

ASSUME CacheAssumption == Verifier!ConstantsAssumption

idpVars   == <<discUp, jwksUp, published>>
cacheVars == <<mu, provider, age, err, failAge, keysOf, issuer, key, held,
               cancelled, outcome, at>>
svcVars   == <<vars, cacheVars, idpVars>>

SvcInit == Init /\ Verifier!Init

\* Issuers() of the request's policy.  (Mutant: of the policy now in force.)
AllowedNow(r) == Names[active]
Allowed(r) == Names[PolicyOf(r)]

\* Sign calls Verify.
CallVerify(r) ==
    LET token == input[r].token IN
    /\ pc[r] = "verifying" /\ at[r] = "idle"
    /\ \/ token \in Allowed(r) /\ \E k \in Keys : Verifier!Arrive(r, IssuerOf[token], k)
       \/ token \notin Allowed(r) /\ Verifier!ArriveRejected(r)
    /\ UNCHANGED vars

\* A step of Verify, or the client goes away meanwhile.
InVerify(r) ==
    /\ Verifier!Lookup(r) \/ Verifier!Io(r) \/ Verifier!Local(r) \/ Verifier!Cancel(r)
    /\ UNCHANGED vars

\* Verify returns, and its context and error are done with.
VerifyReturns(r) ==
    /\ pc[r] = "verifying" /\ at[r] = "done"
    /\ \/ outcome[r] = "verified" /\ Goto(r, "matching") /\ UNCHANGED verdict
       \/ outcome[r] # "verified" /\ Settle(r, "token_invalid")
    /\ at' = [at EXCEPT ![r] = "idle"]
    /\ outcome' = [outcome EXCEPT ![r] = "none"]
    /\ cancelled' = [cancelled EXCEPT ![r] = FALSE]
    /\ UNCHANGED <<procVars, input, pol, events, life>>
    /\ UNCHANGED <<mu, provider, age, err, failAge, keysOf, issuer, key, held, idpVars>>

\* Any other step of the pipeline.
OtherStep(r) ==
    /\ \/ Receive(r) \/ LoadPolicy(r) \/ CheckRequest(r)
       \/ MatchAndSign(r) \/ Audit(r) \/ Respond(r)
    /\ UNCHANGED <<cacheVars, idpVars>>

\* A process that ends takes the cache with it: main starts the next one with
\* NewRemoteVerifier.
NewEntries ==
    /\ provider' = [i \in Issuers |-> NoProvider]
    /\ age' = [i \in Issuers |-> JwksTTL]
    /\ err' = [i \in Issuers |-> FALSE]
    /\ failAge' = [i \in Issuers |-> RetryDelay]
    /\ keysOf' = [p \in Providers |-> {}]

EndOfProcess ==
    /\ NewEntries
    /\ mu' = [i \in Issuers |-> Nobody]
    /\ at' = [r \in Requests |-> "idle"]
    /\ held' = [r \in Requests |-> NoProvider]
    /\ outcome' = [r \in Requests |-> "none"]
    /\ cancelled' = [r \in Requests |-> FALSE]
    /\ UNCHANGED <<issuer, key>>

SvcProcessStep ==
    /\ ProcessStep
    /\ \/ proc' = "down" /\ proc # "down" /\ EndOfProcess
       \/ (proc' # "down" \/ proc = "down") /\ UNCHANGED cacheVars
    /\ UNCHANGED idpVars

Environment ==
    \/ /\ \E i \in Issuers : Verifier!Endpoints(i) \/ Verifier!Publish(i)
       /\ UNCHANGED vars
    \/ Tick /\ Verifier!Tick

SvcRequestStep(r) == CallVerify(r) \/ InVerify(r) \/ VerifyReturns(r) \/ OtherStep(r)

SvcNext == SvcProcessStep \/ (\E r \in Requests : SvcRequestStep(r)) \/ Environment

\* What a request does of itself, where no mutex is in its way: its fetches time
\* out, and it waits for nothing else.
Proceed(r) ==
    \/ (Verifier!Io(r) \/ Verifier!Local(r)) /\ UNCHANGED vars
    \/ CallVerify(r) \/ VerifyReturns(r)
    \/ pc[r] \in InFlight /\ OtherStep(r)

\* Goroutines run, and a mutex is handed to whoever starves.
Fairness(r) == /\ SF_svcVars(Verifier!Lookup(r) /\ UNCHANGED vars)
               /\ WF_svcVars(Proceed(r))

SvcSpec == SvcInit /\ [][SvcNext]_svcVars /\ \A r \in Requests : Fairness(r)

----------------------------------------------------------------------------

\* The pipeline with the cache in it does what SignServer's one step
\* VerifyToken says, whatever reloads, cancellations and crashes come in
\* between: only a token of an issuer of the request's own policy gets past it.
ImplementsSignServer == Spec

\* Every request is answered, or cut off by the end of the process: no failed
\* or cancelled discovery that it has shared or waited for, no reload and no
\* crash leaves one hanging, though its wait for the mutex heeds no context.
EveryRequestIsAnswered ==
    \A r \in Requests : pc[r] \in InFlight ~> pc[r] \notin InFlight
=============================================================================
