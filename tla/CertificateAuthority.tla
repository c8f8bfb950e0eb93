----------------------- MODULE CertificateAuthority ------------------------
(***************************************************************************)
(* What /sign promises its callers, with none of the mechanism: however    *)
(* reloads, other requests and crashes interleave, every request is judged *)
(* by one policy, whole, and that policy was in force while it was open.   *)
(***************************************************************************)
EXTENDS SignPolicies

CONSTANT Requests

VARIABLES
    policy,       \* the policy in force
    state,        \* "closed", "open", "bound" or "answered"
    input,        \* what the caller sent
    basis,        \* the policy the request is bound to
    verdict       \* the answer

cavars == <<policy, state, input, basis, verdict>>

\* The answers policy p justifies for input in.  A verification or signing
\* failure may deny any request that gets so far.
Justified(p, in) ==
    { v \in Verdicts :
        /\ v = "policy_disabled" <=> Disabled[p]
        /\ v = "bad_request" <=> ~Disabled[p] /\ ~in.json
        /\ v = "invalid_public_key" => in.keyType \notin KeyTypes[p]
        /\ v = "missing_token" => in.token = NoToken
        /\ v = "token_invalid" => in.token # NoToken
        /\ v \in RuleVerdicts \cup {"signing_error"} =>
              /\ in.keyType \in KeyTypes[p]
              /\ in.token \in Names[p]
              /\ Rule[p][in.token] = IF v = "signing_error" THEN "issued" ELSE v }

Init == /\ policy \in Policies
        /\ state = [r \in Requests |-> "closed"]
        /\ input \in [Requests -> Inputs]
        /\ basis \in [Requests -> Policies]
        /\ verdict \in [Requests -> Verdicts]

Open(r) == /\ state[r] \in {"closed", "answered"}
           /\ state' = [state EXCEPT ![r] = "open"]
           /\ \E in \in Inputs : input' = [input EXCEPT ![r] = in]
           /\ UNCHANGED <<policy, basis, verdict>>

Bind(r) == /\ state[r] = "open"
           /\ state' = [state EXCEPT ![r] = "bound"]
           /\ basis' = [basis EXCEPT ![r] = policy]
           /\ UNCHANGED <<policy, input, verdict>>

Answer(r) == /\ state[r] = "bound"
             /\ state' = [state EXCEPT ![r] = "answered"]
             /\ \E v \in Justified(basis[r], input[r]) : verdict' = [verdict EXCEPT ![r] = v]
             /\ UNCHANGED <<policy, input, basis>>

\* A request with another method is refused before any policy is looked at.
Refuse(r) == /\ state[r] = "open" /\ ~input[r].post
             /\ state' = [state EXCEPT ![r] = "answered"]
             /\ verdict' = [verdict EXCEPT ![r] = "bad_request"]
             /\ UNCHANGED <<policy, input, basis>>

\* The policy in force changes.
Replace == /\ policy' \in Policies
           /\ UNCHANGED <<state, input, basis, verdict>>

\* The process dies, and requests or answers on their way are lost.
Abort == /\ \E lost \in SUBSET Requests :
               state' = [r \in Requests |-> IF r \in lost THEN "closed" ELSE state[r]]
         /\ UNCHANGED <<policy, input, basis, verdict>>

Next == \/ \E r \in Requests : Open(r) \/ Bind(r) \/ Answer(r) \/ Refuse(r)
        \/ Replace
        \/ Abort

Spec == Init /\ [][Next]_cavars
=============================================================================
