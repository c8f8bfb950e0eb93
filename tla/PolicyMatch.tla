---------------------------- MODULE PolicyMatch ----------------------------
(***************************************************************************)
(* What a policy says of an identity (internal/policy).  The same policy   *)
(* file is put to the server, behind the verifier, and to the commands     *)
(* that tell an operator what the server will do with it: explain, which   *)
(* is given the claims the server is, and check-config, which is not.      *)
(***************************************************************************)
EXTENDS KeyIDs, Certificates

CONSTANTS
    Repository,     \* the name of the claim "repository"
    KnownClaims,    \* knownGitHubClaims
    Cases           \* pairs of a policy file that parses and a genuine token's claims

ASSUME CasesAssumption == \A c \in Cases :
    LET p == c[1]
        who == c[2]
    IN /\ DOMAIN p = {"disabled", "ttl", "max", "template", "keyTypes", "extensions",
                      "sources", "rules"}
       /\ p.disabled \in BOOLEAN /\ p.template \in Seq(STRING)
       /\ p.rules \in Seq({ p.rules[i] : i \in DOMAIN p.rules })
       /\ \A i \in DOMAIN p.rules :
             /\ DOMAIN p.rules[i] = {"name", "enabled", "issuer", "audience", "owner", "reponame",
                                     "claims", "principals", "ttl", "template", "extensions",
                                     "command", "sources"}
             /\ p.rules[i].enabled \in BOOLEAN
             /\ p.rules[i].owner \in Seq(STRING) /\ p.rules[i].reponame \in Seq(STRING)
             /\ p.rules[i].template \in Seq(STRING)
       /\ DOMAIN who = {"issuer", "audiences", "claims"}
       /\ \A name \in DOMAIN who.claims :
             who.claims[name] = NonString \/ who.claims[name] \in Seq(STRING)

VARIABLES
    pol, id,        \* the file and the claims at hand
    loaded,         \* policy.Load: "no", "refused" or "yes"
    answer,         \* the server's answer
    report,         \* what explain prints
    listing         \* what check-config prints

vars == <<pol, id, loaded, answer, report, listing>>

Nothing == [kind |-> "nothing"]

Init == /\ \E c \in Cases : pol = c[1] /\ id = c[2]
        /\ loaded = "no"
        /\ answer = Nothing /\ report = Nothing /\ listing = Nothing

----------------------------------------------------------------------------
(* Validation.  A rule without match.jwt is one with an empty issuer, and   *)
(* refused like it.                                                         *)

\* (Mutant: a slash in owner or reponame is accepted.)
AnyName(s) == TRUE
SlashFree(s) == \A i \in DOMAIN s : s[i] # "/"

RuleOK(p, r) ==
    /\ r.name # "" /\ r.issuer # "" /\ r.audience # ""
    /\ SlashFree(r.owner) /\ SlashFree(r.reponame)
    /\ \A claim \in DOMAIN r.claims : claim # <<>> /\ r.claims[claim] # <<>>
    /\ ContentsOK(p, r)
    /\ KeyIDTemplateFor(p, r) # <<>> /\ TemplateOK(KeyIDTemplateFor(p, r))

Validate(p) ==
    /\ DefaultsOK(p)
    /\ TemplateOK(p.template)
    /\ p.rules # <<>>
    /\ \A i, j \in DOMAIN p.rules : i # j => p.rules[i].name # p.rules[j].name
    /\ \A i \in DOMAIN p.rules : RuleOK(p, p.rules[i])

Load == /\ loaded = "no"
        /\ loaded' = IF Validate(pol) THEN "yes" ELSE "refused"
        /\ UNCHANGED <<pol, id, answer, report, listing>>

----------------------------------------------------------------------------
(* Matching. *)

\* strings.Cut at the first slash.
Cut(s) ==
    LET slashes == { i \in DOMAIN s : s[i] = "/" } IN
    IF slashes = {} THEN [found |-> FALSE, owner |-> s, name |-> <<>>]
    ELSE [found |-> TRUE, owner |-> SubSeq(s, 1, Min(slashes) - 1),
          name |-> SubSeq(s, Min(slashes) + 1, Len(s))]

IsText(claims, name) == name \in DOMAIN claims /\ claims[name] # NonString

RuleMatches(r, who) ==
    /\ r.issuer = who.issuer
    /\ r.audience \in who.audiences
    /\ r.owner # <<>> \/ r.reponame # <<>> =>
          /\ IsText(who.claims, Repository)
          /\ LET repo == Cut(who.claims[Repository]) IN
             /\ repo.found
             /\ r.owner # <<>> => r.owner = repo.owner
             /\ r.reponame # <<>> => r.reponame = repo.name
    /\ \A claim \in DOMAIN r.claims :
          IsText(who.claims, claim) /\ who.claims[claim] = r.claims[claim]

Matching(p, who) ==
    { i \in DOMAIN p.rules : p.rules[i].enabled /\ RuleMatches(p.rules[i], who) }

\* Evaluate: exactly one rule must match.  (Mutant: the first one wins.)
FirstWins(p, who) ==
    IF p.disabled THEN [kind |-> "policy_disabled"]
    ELSE IF Matching(p, who) = {} THEN [kind |-> "no_rule_matched"]
    ELSE [kind |-> "allowed", rule |-> p.rules[Min(Matching(p, who))]]

Evaluate(p, who) ==
    IF p.disabled THEN [kind |-> "policy_disabled"]
    ELSE LET matched == Matching(p, who) IN
         IF matched = {} THEN [kind |-> "no_rule_matched"]
         ELSE IF \E i \in matched : matched = {i}
         THEN [kind |-> "allowed", rule |-> p.rules[CHOOSE i \in matched : TRUE]]
         ELSE [kind |-> "multiple_rules_matched", rules |-> { p.rules[i] : i \in matched }]

\* The issuers the verifier accepts.  (Mutant: a disabled rule ends the loop.)
UpToDisabled(p) ==
    { p.rules[i].issuer : i \in { k \in DOMAIN p.rules : \A j \in 1..k : p.rules[j].enabled } }
Issuers(p) == { p.rules[i].issuer : i \in { k \in DOMAIN p.rules : p.rules[k].enabled } }

\* A decision that allows, carried to the key ID.
Grant(p, who) ==
    LET d == Evaluate(p, who)
        tmpl == KeyIDTemplateFor(p, d.rule)
    IN IF d.kind # "allowed" THEN d
       ELSE IF ExpandError(tmpl, who.claims) # "none"
       THEN [kind |-> "key_id_invalid", rule |-> d.rule.name]
       ELSE [kind |-> "granted", rule |-> d.rule, keyID |-> Expanded(tmpl, who.claims)]

\* Server.Sign with a good key and a genuine token.
Answer(p, who) ==
    LET grant == Grant(p, who) IN
    IF p.disabled THEN [kind |-> "policy_disabled"]
    ELSE IF who.issuer \notin Issuers(p) THEN [kind |-> "token_invalid"]
    ELSE IF grant.kind # "granted" THEN grant
    ELSE [kind |-> "issued", cert |-> Issue(p, grant.rule, grant.keyID),
          event |-> IssuedAttrs(p, grant.rule, grant.keyID)]

Sign == /\ loaded = "yes" /\ answer = Nothing
        /\ answer' = Answer(pol, id)
        /\ UNCHANGED <<pol, id, loaded, report, listing>>

----------------------------------------------------------------------------
(* The explain command. *)

\* The condition on owner and reponame that fails first, if any.
RepositoryFault(r, who) ==
    IF r.owner = <<>> /\ r.reponame = <<>> THEN "none"
    ELSE IF Repository \notin DOMAIN who.claims THEN "repository absent"
    ELSE IF who.claims[Repository] = NonString THEN "repository no string"
    ELSE LET repo == Cut(who.claims[Repository]) IN
         IF ~repo.found THEN "repository has no slash"
         ELSE IF r.owner # <<>> /\ r.owner # repo.owner THEN "owner"
         ELSE IF r.reponame # <<>> /\ r.reponame # repo.name THEN "reponame" ELSE "none"

\* The claims of claims_exact that fail; the code meets them in any order.
ClaimFaults(r, who) ==
    { claim \in DOMAIN r.claims :
        \/ claim \notin DOMAIN who.claims
        \/ who.claims[claim] = NonString
        \/ who.claims[claim] # r.claims[claim] }

\* ExplainRule: the reasons it may give, none when the rule matches.
\* (Mutant: it forgets that a disabled rule does not match.)
BlindToEnabled(r, who) ==
    IF r.issuer # who.issuer THEN {"issuer"}
    ELSE IF r.audience \notin who.audiences THEN {"audience"}
    ELSE IF RepositoryFault(r, who) # "none" THEN {RepositoryFault(r, who)}
    ELSE ClaimFaults(r, who)

ExplainRule(r, who) ==
    IF ~r.enabled THEN {"disabled"}
    ELSE IF r.issuer # who.issuer THEN {"issuer"}
    ELSE IF r.audience \notin who.audiences THEN {"audience"}
    ELSE IF RepositoryFault(r, who) # "none" THEN {RepositoryFault(r, who)}
    ELSE ClaimFaults(r, who)

\* What explain and check-config print of a rule.
Told(p, r) == [rule |-> r.name, principals |-> r.principals, validFor |-> ValidForSecondsFor(p, r),
               command |-> r.command, sources |-> SourceAddressFor(p, r)]

\* The report names the rule and what it grants, or the rules, or each rule that
\* does not match.
Report(p, who) ==
    LET grant == Grant(p, who) IN
    IF grant.kind = "granted"
    THEN [kind |-> "issued", keyID |-> grant.keyID, told |-> Told(p, grant.rule)]
    ELSE IF grant.kind = "no_rule_matched"
    THEN [kind |-> "no_rule_matched",
          explained |-> { i \in DOMAIN p.rules : ExplainRule(p.rules[i], who) # {} }]
    ELSE grant

Explain ==
    /\ loaded = "yes" /\ report = Nothing
    /\ report' = Report(pol, id)
    /\ UNCHANGED <<pol, id, loaded, answer, listing>>

----------------------------------------------------------------------------
(* The check-config command. *)

\* Any token of the issuer and audience will match.  (Mutant: reponame is missed.)
NoOwnerNorClaims(r) == r.owner = <<>> /\ DOMAIN r.claims = {}
Broad(r) == r.owner = <<>> /\ r.reponame = <<>> /\ DOMAIN r.claims = {}

UnknownClaims(tmpl) == TemplateVars(tmpl) \ KnownClaims

Listing(p) ==
    [kind |-> "listed", disabled |-> p.disabled,
     rules |-> [i \in DOMAIN p.rules |->
        LET r == p.rules[i] IN
        [enabled |-> r.enabled, broad |-> Broad(r), told |-> Told(p, r),
         unknown |-> UnknownClaims(KeyIDTemplateFor(p, r))]]]

CheckConfig ==
    /\ loaded = "yes" /\ listing = Nothing
    /\ listing' = Listing(pol)
    /\ UNCHANGED <<pol, id, loaded, answer, report>>

Next == Load \/ Sign \/ Explain \/ CheckConfig

Spec == Init /\ [][Next]_vars

----------------------------------------------------------------------------
(* Properties *)

TypeOK ==
    /\ loaded \in {"no", "refused", "yes"}
    /\ answer.kind \in {"nothing", "policy_disabled", "token_invalid", "no_rule_matched",
                        "multiple_rules_matched", "key_id_invalid", "issued"}
    /\ answer.kind = "issued" => answer.cert.validFor \in 1..MaxValidForSeconds(pol)
    /\ report.kind \in {"nothing", "policy_disabled", "no_rule_matched",
                        "multiple_rules_matched", "key_id_invalid", "issued"}
    /\ listing.kind \in {"nothing", "listed"}

\* The certificate is the one that a report or a listing announces.
Announced(told, cert) ==
    /\ told.principals = cert.principals /\ told.validFor = cert.validFor
    /\ cert.options = CriticalOptions(told.command, told.sources)

\* What explain reports is what the server answers a genuine token with these
\* claims: the same rule, principals, lifetime, restrictions and key ID, or the
\* same denial; a token of an issuer that no enabled rule names is refused
\* before it is matched, and explain finds no rule for it.
ExplainPredictsSign ==
    answer # Nothing /\ report # Nothing =>
        /\ answer.kind \in {"token_invalid", "no_rule_matched"} => report.kind = "no_rule_matched"
        /\ answer.kind = "issued" =>
              /\ report.kind = "issued" /\ report.told.rule = answer.event.rule
              /\ Announced(report.told, answer.cert) /\ report.keyID = answer.cert.keyID
        /\ answer.kind \notin {"token_invalid", "no_rule_matched", "issued"} => report = answer

\* What check-config lists of a rule is what a certificate issued under it
\* holds, though nothing it has seen comes from the request.
ListingPredictsSign ==
    answer.kind = "issued" /\ listing # Nothing =>
        \E i \in DOMAIN listing.rules :
            /\ ~listing.disabled /\ listing.rules[i].enabled
            /\ listing.rules[i].told.rule = answer.event.rule
            /\ Announced(listing.rules[i].told, answer.cert)

\* "Any token from this issuer/audience will match": true of every enabled rule
\* that check-config says it of, and false of the others, which no token
\* matches that carries no other claim.
BroadRulesAreWarnedOf ==
    listing # Nothing => \A i \in DOMAIN pol.rules :
        LET r == pol.rules[i] IN
        r.issuer = id.issuer /\ r.audience \in id.audiences =>
            IF listing.rules[i].broad THEN RuleMatches(r, id)
            ELSE ~RuleMatches(r, [id EXCEPT !.claims = <<>>])

\* What docs/policy.md says of the other warning: it is given "about templates
\* referencing claims the rule does not pin".  The code breaks it (a finding): it
\* warns of claims that GitHub Actions does not know, pinned or not.
PinnedClaims(r) ==
    DOMAIN r.claims \cup (IF r.owner # <<>> /\ r.reponame # <<>> THEN {Repository} ELSE {})

UnpinnedClaimsAreWarnedOf ==
    listing # Nothing => \A i \in DOMAIN pol.rules :
        LET r == pol.rules[i] IN
        TemplateVars(KeyIDTemplateFor(pol, r)) \ PinnedClaims(r) \subseteq listing.rules[i].unknown

\* The audit event is true of the certificate it is about: key ID, principals,
\* lifetime and every restriction in the event are those signed.  Of the
\* restrictions it may be silent about a source_address that the defaults set,
\* and it never tells the extensions; but the rule's name settles these: with
\* the event and the policy an auditor has the whole certificate.
EventTellsTheCertificate ==
    answer.kind = "issued" =>
        LET event == answer.event
            cert == answer.cert
            silent == DOMAIN cert.options \ DOMAIN event.options
        IN /\ event.principals = cert.principals /\ event.keyID = cert.keyID
           /\ event.validFor = cert.validFor
           /\ \A o \in DOMAIN event.options :
                 o \in DOMAIN cert.options /\ event.options[o] = cert.options[o]
           /\ silent \subseteq {"source-address"}
           /\ silent # {} => cert.options["source-address"] = pol.sources
           /\ \A i \in DOMAIN pol.rules :
                 pol.rules[i].name = event.rule => cert = Issue(pol, pol.rules[i], event.keyID)

\* "Or, for each rule, the first condition that failed": ExplainRule, which
\* repeats the conditions of Evaluate and ruleMatches in other words, has one to
\* name for just the rules that do not match, and explain prints one for every
\* rule of the file when no rule matches.  (That it is the first one is not said.)
EveryRuleIsExplained ==
    /\ loaded = "yes" => \A i \in DOMAIN pol.rules :
          ExplainRule(pol.rules[i], id) = {} <=>
              pol.rules[i].enabled /\ RuleMatches(pol.rules[i], id)
    /\ report.kind = "no_rule_matched" => report.explained = DOMAIN pol.rules

\* "Rule order can never silently change what a rule means."
Reordered(p) == { [p EXCEPT !.rules = [i \in DOMAIN p.rules |-> p.rules[f[i]]]] :
                  f \in Bijection(DOMAIN p.rules, DOMAIN p.rules) }

OrderIsIrrelevant ==
    loaded = "yes" => \A p \in Reordered(pol) :
        Validate(p) /\ Issuers(p) = Issuers(pol) /\ Evaluate(p, id) = Evaluate(pol, id)

\* owner and reponame together pin what claims_exact pins with the whole
\* repository name, for every repository claim a token may carry.
Pinned(r) ==
    [r EXCEPT !.owner = <<>>, !.reponame = <<>>,
              !.claims = [claim \in DOMAIN r.claims \cup {Repository} |->
                             IF claim = Repository THEN r.owner \o (<<"/">> \o r.reponame)
                             ELSE r.claims[claim]]]

OwnerAndNamePinTheRepository ==
    loaded = "yes" => \A i \in DOMAIN pol.rules :
        LET r == pol.rules[i] IN
        r.owner # <<>> /\ r.reponame # <<>> /\ Repository \notin DOMAIN r.claims =>
            (RuleMatches(r, id) <=> RuleMatches(Pinned(r), id))

\* "This can only fail on a logic error": the expansion of a template that was
\* loaded never fails the re-check of the whole key ID.
RecheckNeverFires ==
    loaded = "yes" => \A i \in DOMAIN pol.rules :
        ExpandError(KeyIDTemplateFor(pol, pol.rules[i]), id.claims) # "recheck"
=============================================================================
