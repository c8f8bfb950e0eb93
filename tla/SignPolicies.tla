--------------------------- MODULE SignPolicies ----------------------------
(***************************************************************************)
(* What the request handler asks of a policy and of a request, as data:    *)
(* the answers of the policy's methods (internal/policy) are given, and    *)
(* the modules about the handler only decide when they are asked, and of   *)
(* which policy.                                                           *)
(***************************************************************************)
EXTENDS Naturals

CONSTANTS
    Policies,     \* policies that load and validate
    Disabled,     \* Disabled[p]: the emergency stop is on
    KeyTypes,     \* KeyTypes[p]: AllowedPublicKeyTypes()
    Names,        \* Names[p]: the tokens whose issuer is in Issuers()
    Rule,         \* Rule[p][t]: what Evaluate and ExpandKeyID say of t's claims
    TTL,          \* TTL[p]: ValidForSecondsFor the rule that matches, in ticks
    Ceiling,      \* the largest max_valid_for_seconds, in ticks
    Tokens,       \* bearer tokens
    NoToken,      \* no usable Authorization header
    Inputs        \* the requests clients send

RuleVerdicts == {"issued", "no_rule_matched", "multiple_rules_matched", "key_id_invalid"}
Verdicts == RuleVerdicts \cup {"bad_request", "policy_disabled", "invalid_public_key",
                               "missing_token", "token_invalid", "signing_error"}

ASSUME PoliciesAssumption ==
    /\ Disabled \in [Policies -> BOOLEAN]
    /\ Names \in [Policies -> SUBSET Tokens]
    /\ Rule \in [Policies -> [Tokens -> RuleVerdicts]]
    /\ Ceiling \in Nat
    /\ TTL \in [Policies -> 1..Ceiling]     \* Validate refuses any other
    /\ NoToken \notin Tokens
    /\ Inputs # {}
    /\ \A in \in Inputs : /\ DOMAIN in = {"post", "json", "keyType", "token"}
                          /\ in.post \in BOOLEAN      \* the method is POST
                          /\ in.json \in BOOLEAN      \* a JSON body of legal size
                          /\ in.token \in Tokens \cup {NoToken}
=============================================================================
