---------------------------- MODULE SignServer -----------------------------
(***************************************************************************)
(* The /sign pipeline (Server.Sign and handleSign, internal/server), run   *)
(* by concurrent handler goroutines inside the process of PolicyReload.    *)
(* Every step between two points where another goroutine, the network or   *)
(* a signal can come in is one action.                                     *)
(***************************************************************************)
EXTENDS SignPolicies, Sequences

CONSTANTS
    Requests,       \* handler goroutines; one serves many requests in turn
    Invalid,        \* a policy file that does not load
    StdoutMayFail   \* a write of the audit log may fail

VARIABLES
    file, proc, active, hup, reloader, loaded,   \* the process
    pc, input,
    pol,            \* the policy pointer the request has loaded
    verdict,
    events,         \* the request's audit events
    life            \* ticks until every certificate ever signed has expired

Process == INSTANCE PolicyReload

procVars == <<file, proc, active, hup, reloader, loaded>>
reqVars  == <<pc, input, pol, verdict, events>>
vars == <<procVars, reqVars, life>>

Bound    == {"checking", "verifying", "matching"}
Answered == {"done", "lost"}
InFlight == {"received", "auditing", "responding"} \cup Bound

Init ==
    /\ Process!Init
    /\ pc = [r \in Requests |-> "idle"]
    /\ input = [r \in Requests |-> CHOOSE in \in Inputs : TRUE]
    /\ pol = [r \in Requests |-> active]
    /\ verdict = [r \in Requests |-> "bad_request"]
    /\ events = [r \in Requests |-> <<>>]
    /\ life = 0

Goto(r, label) == pc' = [pc EXCEPT ![r] = label]
Settle(r, v) == Goto(r, "auditing") /\ verdict' = [verdict EXCEPT ![r] = v]

\* The policy the pipeline reads: the one loaded at its start.
\* (Mutant: the active policy, loaded again at every use.)
ActivePolicy(r) == active
PolicyOf(r) == pol[r]

\* The emergency stop.  (Mutant: it is ignored.)
NeverDisabled(p) == FALSE
IsDisabled(p) == Disabled[p]

\* A request reaches the handler and its body is read.  (A draining server
\* still reads a request from a connection it has just accepted.)
Receive(r) ==
    /\ Process!Serving /\ pc[r] \notin InFlight
    /\ Goto(r, "received")
    /\ \E in \in Inputs : input' = [input EXCEPT ![r] = in]
    /\ events' = [events EXCEPT ![r] = <<>>]
    /\ UNCHANGED <<procVars, pol, verdict, life>>

\* The method is checked and the policy pointer loaded, once and for all.
LoadPolicy(r) ==
    /\ pc[r] = "received"
    /\ \/ /\ ~input[r].post
          /\ Settle(r, "bad_request")
          /\ UNCHANGED pol
       \/ /\ input[r].post
          /\ Goto(r, "checking")
          /\ pol' = [pol EXCEPT ![r] = active]
          /\ UNCHANGED verdict
    /\ UNCHANGED <<procVars, input, events, life>>

\* The checks that need no I/O, in order: the first that fails decides.
CheckRequest(r) ==
    LET p == PolicyOf(r)
        in == input[r]
        refused == CASE IsDisabled(p)                -> "policy_disabled"
                     [] ~IsDisabled(p) /\ ~in.json   -> "bad_request"
                     [] ~IsDisabled(p) /\ in.json    ->
                          IF in.keyType \notin KeyTypes[p] THEN "invalid_public_key"
                          ELSE IF in.token = NoToken THEN "missing_token" ELSE "no"
    IN
    /\ pc[r] = "checking"
    /\ \/ refused # "no" /\ Settle(r, refused)
       \/ refused = "no" /\ Goto(r, "verifying") /\ UNCHANGED verdict
    /\ UNCHANGED <<procVars, input, pol, events, life>>

\* RemoteVerifier.Verify (module ProviderCache) with the policy's issuers.
VerifyToken(r) ==
    /\ pc[r] = "verifying"
    /\ \/ Settle(r, "token_invalid")
       \/ /\ input[r].token \in Names[PolicyOf(r)]
          /\ Goto(r, "matching")
          /\ UNCHANGED verdict
    /\ UNCHANGED <<procVars, input, pol, events, life>>

\* Evaluate and ExpandKeyID.
Evaluate(p, in) == IF IsDisabled(p) THEN "policy_disabled" ELSE Rule[p][in.token]

\* A certificate's lifetime.  (Mutant: Validate lets it exceed the ceiling.)
UnboundedTTL(p) == TTL[p] + Ceiling
ValidFor(p) == TTL[p]

\* Match, expand and sign; the certificate is valid from this moment on.
MatchAndSign(r) ==
    LET p == PolicyOf(r)
        v == Evaluate(p, input[r])
    IN
    /\ pc[r] = "matching"
    /\ \/ /\ v = "issued" /\ Settle(r, "issued")
          /\ life' = IF life > ValidFor(p) THEN life ELSE ValidFor(p)
       \/ /\ Settle(r, IF v = "issued" THEN "signing_error" ELSE v)
          /\ UNCHANGED life
    /\ UNCHANGED <<procVars, input, pol, events>>

\* The audit event is written; slog drops the error of a write that fails.
\* (Mutant: the event of a denial is left out.)
LogIssuedOnly(r) == IF verdict[r] = "issued" THEN Append(events[r], verdict[r]) ELSE events[r]
LogEvent(r) == Append(events[r], verdict[r])

Audit(r) ==
    /\ pc[r] = "auditing"
    /\ Goto(r, "responding")
    /\ \/ events' = [events EXCEPT ![r] = LogEvent(r)]
       \/ StdoutMayFail /\ UNCHANGED events
    /\ UNCHANGED <<procVars, input, pol, verdict, life>>

\* The certificate, or the generic denial, goes out; it gets lost when the
\* client has gone or WriteTimeout has passed (w.Write's error is ignored).
Respond(r) ==
    /\ pc[r] = "responding"
    /\ \E end \in Answered : Goto(r, end)
    /\ UNCHANGED <<procVars, input, pol, verdict, events, life>>

\* A step of the process; when it ends, requests in flight are cut off.
ProcessStep ==
    /\ Process!Next
    /\ pc' = [r \in Requests |->
                 IF proc' = "down" /\ pc[r] \in InFlight THEN "cut" ELSE pc[r]]
    /\ UNCHANGED <<input, pol, verdict, events, life>>

RequestStep(r) == \/ Receive(r) \/ LoadPolicy(r) \/ CheckRequest(r) \/ VerifyToken(r)
                  \/ MatchAndSign(r) \/ Audit(r) \/ Respond(r)

Tick == /\ life' = IF life > 0 THEN life - 1 ELSE 0
        /\ UNCHANGED <<procVars, reqVars>>

Timeless == ProcessStep \/ \E r \in Requests : RequestStep(r)

Next == Timeless \/ Tick

Spec == Init /\ [][Next]_vars

----------------------------------------------------------------------------
(* Properties; SignServerHistory has those about the emergency stop. *)

TypeOK ==
    /\ Process!TypeOK
    /\ pc \in [Requests -> InFlight \cup Answered \cup {"idle", "cut"}]
    /\ input \in [Requests -> Inputs]
    /\ pol \in [Requests -> Policies]
    /\ verdict \in [Requests -> Verdicts]
    /\ events \in [Requests -> Seq(Verdicts)]
    /\ life \in 0..Ceiling

\* "Exactly one event" per decision, on record before the caller learns it,
\* with the answer the caller gets, whatever is cut off and when; a certificate
\* that never reached its caller, because the fetches behind it outlasted
\* WriteTimeout or the client went away, is on record like any other.
AnswersAreAudited ==
    \A r \in Requests : pc[r] \in Answered => events[r] = <<verdict[r]>>

\* Each request is decided by one policy, which was in force while the request
\* was open, however many reloads its token verification outlasts; and a crash
\* leaves no half-decided request: the pipeline implements CertificateAuthority.
Phase(r) == CASE pc[r] \in {"idle", "cut", "lost"} -> "closed"
              [] pc[r] = "received" -> "open"
              [] pc[r] \in Bound -> "bound"
              [] OTHER -> "answered"

Abstract == INSTANCE CertificateAuthority
              WITH policy <- active, basis <- pol,
                   state <- [r \in Requests |-> Phase(r)]

ImplementsCertificateAuthority == Abstract!Spec
=============================================================================
