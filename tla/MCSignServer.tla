--------------------------- MODULE MCSignServer ----------------------------
(***************************************************************************)
(* SignServerHistory for TLC.  "wide" and "narrow" are two policies that   *)
(* disagree on all a request asks (key types, issuers, rules, TTL); "stop" *)
(* is wide with disabled: true.                                            *)
(***************************************************************************)
EXTENDS SignServerHistory, TLC

MCPolicies == {"wide", "narrow", "stop"}
MCTokens   == {"t1", "t2"}
MCDisabled == [p \in MCPolicies |-> p = "stop"]
MCKeyTypes == [p \in MCPolicies |-> IF p = "narrow" THEN {"ed25519"} ELSE {"ed25519", "rsa"}]
MCNames    == [p \in MCPolicies |-> IF p = "narrow" THEN {"t2"} ELSE {"t1", "t2"}]
MCRule     == [p \in MCPolicies |->
                 [t \in MCTokens |-> CASE p = "narrow" /\ t = "t2" -> "issued"
                                       [] p # "narrow" /\ t = "t1" -> "issued"
                                       [] OTHER -> "no_rule_matched"]]
MCTTL      == [p \in MCPolicies |-> IF p = "narrow" THEN 1 ELSE 2]

Good == [post |-> TRUE, json |-> TRUE, keyType |-> "ed25519", token |-> "t1"]

\* One request for every check that may refuse it, and two that pass them.
AllInputs == {Good,
              [Good EXCEPT !.token = "t2"],
              [Good EXCEPT !.keyType = "rsa"],
              [Good EXCEPT !.token = "none"],
              [Good EXCEPT !.json = FALSE],
              [Good EXCEPT !.post = FALSE]}
TwoInputs == {Good, [Good EXCEPT !.token = "t2"]}

Interchangeable == Permutations(Requests)

\* What the next steps and the properties of a run can tell apart.  A policy, a
\* verdict and events that the request overwrites before it reads them again are
\* forgotten; of a verdict no more is kept than the signer, the audit log and
\* the properties ask; of "stopped" (which only NoCertificateAfterStop reads)
\* nothing.
Answer(r) == <<verdict[r] = "issued", verdict[r] \in {"policy_disabled", "bad_request"}>>

View(r) ==
    CASE pc[r] = "received" -> <<pc[r], input[r]>>
      [] pc[r] \in Bound -> <<pc[r], input[r], pol[r]>>
      [] pc[r] = "auditing" -> <<pc[r], Answer(r), events[r]>>
      [] pc[r] \in {"responding"} \cup Answered ->
            <<pc[r], Answer(r), events[r] = <<verdict[r]>>>>
      [] OTHER -> <<pc[r]>>
Distinguishable ==
    << file, proc, active, hup, reloader,
       IF reloader = "storing" THEN loaded ELSE Invalid,
       [r \in Requests |-> View(r)], life, quiet, underStop >>
=============================================================================
