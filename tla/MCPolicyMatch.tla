--------------------------- MODULE MCPolicyMatch ---------------------------
(***************************************************************************)
(* PolicyMatch for TLC: all policies of one rule, of two rules and of      *)
(* three that differ in what decides a match, all those of one rule that   *)
(* differ in a certificate's contents or whose template is a string of at  *)
(* most MaxTemplate characters, and identities that carry every kind of    *)
(* claim.  Repository names are written with the characters r, A and slash. *)
(***************************************************************************)
EXTENDS PolicyMatch

CONSTANT MaxTemplate

MCRepository == <<"r">>
Env == <<"e">>
MCNameChars == {"r", "e"}
MCKnownClaims == {MCRepository}
MCPrincipals == {"deploy"}
MCCommands == {"run"}
MCRanges == {"net1", "net2"}
MCKeyIDChars == {"r", "e", "A", "/"}

Base == [name |-> "first", enabled |-> TRUE, issuer |-> "i1", audience |-> "a1",
         owner |-> <<>>, reponame |-> <<>>, claims |-> <<>>,
         principals |-> <<"deploy">>, ttl |-> LeftOut, template |-> <<>>,
         extensions |-> LeftOut, command |-> "", sources |-> <<>>]
BasePolicy == [disabled |-> FALSE, ttl |-> 1, max |-> 2, template |-> <<"$", "{", "r", "}">>,
               keyTypes |-> <<>>, extensions |-> LeftOut, sources |-> <<>>, rules |-> <<Base>>]

ExactClaims == {<<>>, Env :> <<"A">>, MCRepository :> <<"r", "/", "A">>}

SingleRules ==
    { [Base EXCEPT !.enabled = e, !.issuer = i, !.owner = o, !.reponame = n, !.claims = c] :
        e \in BOOLEAN, i \in {"", "i1", "i2"},
        o \in {<<>>, <<"r">>, <<"r", "/", "A">>},
        n \in {<<>>, <<"A">>, <<"A", "/", "A">>},
        c \in ExactClaims }

\* Rules that may or may not overlap.
SharedRules ==
    { [Base EXCEPT !.enabled = e, !.issuer = i, !.owner = o, !.claims = c] :
        e \in BOOLEAN, i \in {"i1", "i2"}, o \in {<<>>, <<"r">>}, c \in {<<>>, Env :> <<"A">>} }

Pairs == { <<r, [s EXCEPT !.name = n, !.ttl = 2]>> :
             r \in SharedRules, s \in SharedRules, n \in {"first", "second"} }
Triples == { <<r, [s EXCEPT !.name = "second"], [t EXCEPT !.name = "third"]>> :
               r, s, t \in { q \in SharedRules : q.owner = <<>> /\ q.issuer = "i1" } }

\* Lifetimes, set by the rule, by the defaults, twice or not at all.
Lifetimes == { [BasePolicy EXCEPT !.ttl = d, !.max = m, !.rules = <<[Base EXCEPT !.ttl = t]>>] :
                 d \in {LeftOut, 0, 1, 3}, m \in {LeftOut, 0, 2}, t \in {LeftOut, 0, 1, 3} }

\* Restrictions and extensions, good and bad, of the rule and of the defaults.
Contents == { [BasePolicy EXCEPT !.extensions = dx, !.sources = ds, !.rules =
                 <<[Base EXCEPT !.principals = ps, !.extensions = x, !.command = c, !.sources = s]>>] :
                dx \in {LeftOut, {"permit-pty"}}, ds \in {<<>>, <<"net1">>, <<"host">>},
                ps \in {<<>>, <<"deploy">>, <<"deploy", "a b">>}, x \in {LeftOut, {}, {"permit-user-rc"}},
                c \in {"", "run", "${r}"}, s \in {<<>>, <<"net1", "net2">>, <<"host">>} }
KeyTypePolicies == { [BasePolicy EXCEPT !.keyTypes = k] :
                       k \in {<<"ssh-ed25519">>, <<"ssh-ed25519", "ssh-rsa">>} }

Templates == UNION { [1..n -> {"$", "{", "}", "r", "A", "!"}] : n \in 0..MaxTemplate }
               \cup { <<"$", "{", "r", "}", "$", "{", "e", "}">> }

RulePolicies ==
    { [BasePolicy EXCEPT !.rules = rules] :
        rules \in { <<r>> : r \in SingleRules } \cup Pairs \cup Triples \cup {<<>>} }
    \cup { [BasePolicy EXCEPT !.disabled = TRUE] } \cup Lifetimes \cup KeyTypePolicies
TemplatePolicies == { [BasePolicy EXCEPT !.rules = <<[Base EXCEPT !.template = t]>>] :
                        t \in Templates }

Repositories == { <<"r", "/", "A">>, <<"r", "/", "A", "/", "A">>, <<"r">>, <<"/", "A">>,
                  <<>>, <<"r", "/", "!">>, <<"$", "{", "e", "}">>, NonString }
Claims == { <<>> } \cup { MCRepository :> v : v \in Repositories }

Full == { [issuer |-> i, audiences |-> a, claims |-> c @@ e] :
            i \in {"i1", "i2"}, a \in {{}, {"a1", "a2"}}, c \in Claims,
            e \in {<<>>, Env :> <<"A">>, Env :> NonString} }
Plain == { [issuer |-> "i1", audiences |-> {"a1"}, claims |-> c] : c \in Claims }

\* Every identity meets the policies that differ in their rules; those that
\* differ in a template need only the ones that differ in the claim it names.
MCCases == (RulePolicies \X Full) \cup ((TemplatePolicies \cup Contents) \X Plain)
=============================================================================
