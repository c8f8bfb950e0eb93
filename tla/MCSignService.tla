--------------------------- MODULE MCSignService ---------------------------
(***************************************************************************)
(* SignService for TLC: a policy that trusts the issuer and one that does  *)
(* not.  What MCProviderCache, SignServer and ServeStart have in full is   *)
(* cut down to what two handlers that meet in the cache need, so that a    *)
(* liveness check can follow both.                                         *)
(***************************************************************************)
EXTENDS SignService

MCPolicies == {"trusts", "drops"}
MCTokens   == {"t1"}
MCDisabled == [p \in MCPolicies |-> FALSE]
MCKeyTypes == [p \in MCPolicies |-> {"ed25519"}]
MCNames    == [p \in MCPolicies |-> IF p = "trusts" THEN {"t1"} ELSE {}]
MCRule     == [p \in MCPolicies |-> [t \in MCTokens |-> "issued"]]
MCTTL      == [p \in MCPolicies |-> 1]
MCInputs   == {[post |-> TRUE, json |-> TRUE, keyType |-> "ed25519", token |-> "t1"]}
MCIssuerOf == [t \in MCTokens |-> "i1"]

\* The issuer's endpoints fail together, and are not empty as well.
Issuer == discUp = jwksUp /\ \A i \in Issuers : discUp[i] \/ published[i] # {}

MCInit == SvcInit /\ file # Invalid /\ active = file /\ Issuer

\* The process does not drain and starts unhindered.  The file is edited when
\* the reload goroutine is idle, to a policy that loads, and signalled once.
Reloads ==
    /\ proc' # "draining" /\ (proc = "starting" => proc' # "down")
    /\ file' # Invalid /\ (file' # file => ~hup /\ reloader = "waiting")
    /\ hup' /\ ~hup => file # active /\ reloader = "waiting"

\* A handler serves one request, whose answer reaches the client; the client
\* may go away while somebody still notices.
OneRequestEach ==
    \A r \in Requests :
        /\ pc'[r] # "lost" /\ (pc'[r] = "received" => pc[r] \in {"idle", "received"})
        /\ cancelled'[r] /\ ~cancelled[r] => at[r] \notin {"verifying", "claims"}

MCNext == SvcNext /\ Issuer' /\ Reloads /\ OneRequestEach

MCSpec == MCInit /\ [][MCNext]_svcVars /\ \A r \in Requests : Fairness(r)
=============================================================================
