------------------------- MODULE PolicyMatchProofs -------------------------
(***************************************************************************)
(* Theorems about what a policy says of an identity, for every policy file *)
(* and all claims, from CasesAssumption (they have the fields they have)   *)
(* alone.                                                                  *)
(***************************************************************************)
EXTENDS PolicyMatch, KeyIDsProofs

\* The answers are those of the policy and the claims at hand, which nothing
\* changes, and only a valid policy is asked.
Inv == /\ \E c \in Cases : pol = c[1] /\ id = c[2]
       /\ loaded \in {"no", "refused", "yes"}
       /\ loaded = "yes" => Validate(pol)
       /\ answer = Nothing \/ (loaded = "yes" /\ answer = Answer(pol, id))
       /\ report = Nothing \/ (loaded = "yes" /\ report = Report(pol, id))
       /\ listing = Nothing \/ (loaded = "yes" /\ listing = Listing(pol))

LEMMA Invariance == Spec => []Inv
<1>1. Init => Inv
  BY DEF Init, Inv
<1>2. Inv /\ [Next]_vars => Inv'
  <2> SUFFICES ASSUME Inv, [Next]_vars PROVE Inv'
    OBVIOUS
  <2>1. CASE Load
    BY <2>1 DEF Load, Inv
  <2>2. CASE Sign
    BY <2>2 DEF Sign, Inv
  <2>3. CASE Explain
    BY <2>3 DEF Explain, Inv
  <2>4. CASE CheckConfig
    BY <2>4 DEF CheckConfig, Inv
  <2>5. CASE UNCHANGED vars
    BY <2>5 DEF vars, Inv
  <2> QED BY <2>1, <2>2, <2>3, <2>4, <2>5 DEF Next
<1> QED BY <1>1, <1>2, PTL DEF Spec

----------------------------------------------------------------------------
(* What Evaluate and Grant can answer. *)

LEMMA EvaluateCases ==
    ASSUME NEW p, NEW who
    PROVE  \/ p.disabled /\ Evaluate(p, who) = [kind |-> "policy_disabled"]
           \/ /\ ~p.disabled /\ Matching(p, who) = {}
              /\ Evaluate(p, who) = [kind |-> "no_rule_matched"]
           \/ \E i \in DOMAIN p.rules :
                 /\ ~p.disabled /\ Matching(p, who) = {i}
                 /\ Evaluate(p, who) = [kind |-> "allowed", rule |-> p.rules[i]]
           \/ /\ ~p.disabled /\ Matching(p, who) # {}
              /\ ~ \E i \in Matching(p, who) : Matching(p, who) = {i}
              /\ Evaluate(p, who) = [kind |-> "multiple_rules_matched",
                                     rules |-> { p.rules[i] : i \in Matching(p, who) }]
<1> DEFINE M == Matching(p, who)
<1>1. CASE p.disabled
  BY <1>1 DEF Evaluate
<1>2. CASE ~p.disabled /\ M = {}
  BY <1>2 DEF Evaluate
<1>3. CASE ~p.disabled /\ \E i \in M : M = {i}
  <2>1. PICK i \in M : M = {i}
    BY <1>3
  <2>2. i \in DOMAIN p.rules
    BY <2>1 DEF Matching
  <2>3. (CHOOSE j \in M : TRUE) = i
    BY <2>1
  <2>4. Evaluate(p, who) = [kind |-> "allowed", rule |-> p.rules[i]]
    BY <1>3, <2>3 DEF Evaluate
  <2> QED BY <1>3, <2>1, <2>2, <2>4
<1>4. CASE ~p.disabled /\ M # {} /\ ~ \E i \in M : M = {i}
  BY <1>4 DEF Evaluate
<1> QED BY <1>1, <1>2, <1>3, <1>4

\* Granted under the one rule that matches, or denied as Evaluate says, or for
\* a key ID.
LEMMA GrantCases ==
    ASSUME NEW p, NEW who
    PROVE  \/ p.disabled /\ Grant(p, who) = [kind |-> "policy_disabled"]
           \/ /\ ~p.disabled /\ Matching(p, who) = {}
              /\ Grant(p, who) = [kind |-> "no_rule_matched"]
           \/ /\ ~p.disabled /\ Matching(p, who) # {}
              /\ Grant(p, who) = [kind |-> "multiple_rules_matched",
                                  rules |-> { p.rules[i] : i \in Matching(p, who) }]
           \/ \E i \in Matching(p, who) :
                 /\ ~p.disabled
                 /\ \/ Grant(p, who) = [kind |-> "key_id_invalid", rule |-> p.rules[i].name]
                    \/ Grant(p, who) =
                         [kind |-> "granted", rule |-> p.rules[i],
                          keyID |-> Expanded(KeyIDTemplateFor(p, p.rules[i]), who.claims)]
<1>1. ASSUME Evaluate(p, who).kind # "allowed" PROVE Grant(p, who) = Evaluate(p, who)
  BY <1>1 DEF Grant
<1>2. ASSUME NEW i \in DOMAIN p.rules, ~p.disabled, Matching(p, who) = {i},
             Evaluate(p, who) = [kind |-> "allowed", rule |-> p.rules[i]]
      PROVE  \/ Grant(p, who) = [kind |-> "key_id_invalid", rule |-> p.rules[i].name]
             \/ Grant(p, who) =
                  [kind |-> "granted", rule |-> p.rules[i],
                   keyID |-> Expanded(KeyIDTemplateFor(p, p.rules[i]), who.claims)]
  BY <1>2 DEF Grant
<1> QED BY <1>1, <1>2, EvaluateCases

----------------------------------------------------------------------------
\* Whatever the file and the claims, ExplainRule has a failed condition to name
\* for just the rules that do not match, and explain names one for every rule when
\* it reports that none matched.
THEOREM EveryDenialIsExplained == Spec => []EveryRuleIsExplained
<1>1. ASSUME NEW r, NEW who
      PROVE  ExplainRule(r, who) = {} <=> r.enabled /\ RuleMatches(r, who)
  <2>1. RepositoryFault(r, who) = "none" <=>
           (r.owner # <<>> \/ r.reponame # <<>> =>
               /\ IsText(who.claims, Repository)
               /\ LET repo == Cut(who.claims[Repository]) IN
                  /\ repo.found
                  /\ r.owner # <<>> => r.owner = repo.owner
                  /\ r.reponame # <<>> => r.reponame = repo.name)
    BY DEF RepositoryFault, IsText
  <2>2. ClaimFaults(r, who) = {} <=>
           \A claim \in DOMAIN r.claims :
              IsText(who.claims, claim) /\ who.claims[claim] = r.claims[claim]
    BY DEF ClaimFaults, IsText
  <2>3. ExplainRule(r, who) = {} <=>
           /\ r.enabled /\ r.issuer = who.issuer /\ r.audience \in who.audiences
           /\ RepositoryFault(r, who) = "none" /\ ClaimFaults(r, who) = {}
    BY DEF ExplainRule
  <2> QED BY <2>1, <2>2, <2>3 DEF RuleMatches
<1>2. ASSUME NEW p, NEW who, Report(p, who).kind = "no_rule_matched"
      PROVE  Report(p, who).explained = DOMAIN p.rules
  <2>1. Matching(p, who) = {} /\ Grant(p, who).kind = "no_rule_matched"
    BY <1>2, GrantCases DEF Report
  <2>2. \A i \in DOMAIN p.rules : ExplainRule(p.rules[i], who) # {}
    BY <1>1, <2>1 DEF Matching
  <2> QED BY <2>1, <2>2 DEF Report
<1>3. Inv => EveryRuleIsExplained
  BY <1>1, <1>2 DEF Inv, EveryRuleIsExplained, Nothing
<1> QED BY <1>3, Invariance, PTL

----------------------------------------------------------------------------
\* explain is never wrong about the server, whatever the file and the claims.
THEOREM ExplainIsRight == Spec => []ExplainPredictsSign
<1>1. ASSUME NEW p, NEW who, who.issuer \notin Issuers(p) PROVE Matching(p, who) = {}
  BY <1>1 DEF Matching, RuleMatches, Issuers
<1>2. ASSUME NEW p, NEW who, p.disabled
      PROVE  Answer(p, who) = [kind |-> "policy_disabled"] /\ Report(p, who) = Answer(p, who)
  BY <1>2, GrantCases DEF Answer, Report
<1>3. ASSUME NEW p, NEW who, ~p.disabled, Matching(p, who) = {}
      PROVE  /\ Answer(p, who).kind \in {"token_invalid", "no_rule_matched"}
             /\ Report(p, who).kind = "no_rule_matched"
  <2>1. Grant(p, who) = [kind |-> "no_rule_matched"]
    BY <1>3, GrantCases
  <2> QED BY <1>3, <2>1 DEF Answer, Report
<1>4. ASSUME NEW p, NEW who, ~p.disabled, Matching(p, who) # {},
             Grant(p, who).kind \notin {"granted", "no_rule_matched"}
      PROVE  Answer(p, who) = Grant(p, who) /\ Report(p, who) = Grant(p, who)
  BY <1>1, <1>4 DEF Answer, Report
<1>5. ASSUME NEW p, NEW who, ~p.disabled, Matching(p, who) # {},
             Grant(p, who).kind = "granted"
      PROVE  LET r == Grant(p, who).rule
                 keyID == Grant(p, who).keyID
             IN /\ Answer(p, who) = [kind |-> "issued", cert |-> Issue(p, r, keyID),
                                     event |-> IssuedAttrs(p, r, keyID)]
                /\ Report(p, who) = [kind |-> "issued", keyID |-> keyID, told |-> Told(p, r)]
  BY <1>1, <1>5 DEF Answer, Report
<1>6. ASSUME NEW p, NEW r, NEW keyID
      PROVE  /\ Told(p, r).rule = IssuedAttrs(p, r, keyID).rule
             /\ Announced(Told(p, r), Issue(p, r, keyID))
             /\ Issue(p, r, keyID).keyID = keyID
  BY DEF Told, IssuedAttrs, Issue, Announced
<1>7. Inv => ExplainPredictsSign
  <2> SUFFICES ASSUME Inv, answer # Nothing, report # Nothing PROVE ExplainPredictsSign
    BY DEF ExplainPredictsSign
  <2>1. answer = Answer(pol, id) /\ report = Report(pol, id)
    BY DEF Inv
  <2>2. CASE pol.disabled
    BY <1>2, <2>1, <2>2 DEF ExplainPredictsSign
  <2>3. CASE ~pol.disabled /\ Matching(pol, id) = {}
    BY <1>3, <2>1, <2>3 DEF ExplainPredictsSign
  <2>4. CASE ~pol.disabled /\ Matching(pol, id) # {} /\ Grant(pol, id).kind = "granted"
    BY <1>5, <1>6, <2>1, <2>4 DEF ExplainPredictsSign
  <2>5. CASE ~pol.disabled /\ Matching(pol, id) # {} /\ Grant(pol, id).kind # "granted"
    <3>1. Grant(pol, id).kind \in {"key_id_invalid", "multiple_rules_matched"}
      BY <2>5, GrantCases
    <3> QED BY <1>4, <2>1, <2>5, <3>1 DEF ExplainPredictsSign
  <2> QED BY <2>2, <2>3, <2>4, <2>5
<1> QED BY <1>7, Invariance, PTL

----------------------------------------------------------------------------
(* What a certificate holds. *)

\* A certificate is issued under an enabled rule of a policy that is not disabled.
LEMMA IssuedCases ==
    ASSUME Inv, answer.kind = "issued"
    PROVE  /\ loaded = "yes" /\ ~pol.disabled
           /\ \E i \in DOMAIN pol.rules : \E keyID :
                 /\ pol.rules[i].enabled
                 /\ answer.cert = Issue(pol, pol.rules[i], keyID)
                 /\ answer.event = IssuedAttrs(pol, pol.rules[i], keyID)
<1>1. loaded = "yes" /\ answer = Answer(pol, id)
  BY DEF Inv, Nothing
<1>2. ~pol.disabled /\ Grant(pol, id).kind \in {"granted", "issued"}
  BY <1>1 DEF Answer
<1>3. PICK i \in Matching(pol, id) :
         Grant(pol, id) = [kind |-> "granted", rule |-> pol.rules[i],
                           keyID |-> Expanded(KeyIDTemplateFor(pol, pol.rules[i]), id.claims)]
  BY <1>2, GrantCases
<1>4. i \in DOMAIN pol.rules /\ pol.rules[i].enabled
  BY DEF Matching
<1>5. /\ answer.cert = Issue(pol, pol.rules[i], Grant(pol, id).keyID)
      /\ answer.event = IssuedAttrs(pol, pol.rules[i], Grant(pol, id).keyID)
  BY <1>1, <1>3 DEF Answer
<1> QED BY <1>1, <1>2, <1>4, <1>5

\* What check-config lists of a rule is what its certificates hold.
THEOREM ListingIsRight == Spec => []ListingPredictsSign
<1>1. Inv => ListingPredictsSign
  <2> SUFFICES ASSUME Inv, answer.kind = "issued", listing # Nothing PROVE ListingPredictsSign
    BY DEF ListingPredictsSign
  <2>1. listing = Listing(pol)
    BY DEF Inv
  <2>2. PICK i \in DOMAIN pol.rules : \E keyID :
           /\ pol.rules[i].enabled
           /\ answer.cert = Issue(pol, pol.rules[i], keyID)
           /\ answer.event = IssuedAttrs(pol, pol.rules[i], keyID)
    BY IssuedCases
  <2>3. i \in DOMAIN listing.rules /\ ~listing.disabled
    BY <2>1, IssuedCases DEF Listing
  <2>4. /\ listing.rules[i].enabled = pol.rules[i].enabled
        /\ listing.rules[i].told = Told(pol, pol.rules[i])
    BY <2>1 DEF Listing
  <2>5. /\ Told(pol, pol.rules[i]).rule = answer.event.rule
        /\ Announced(Told(pol, pol.rules[i]), answer.cert)
    BY <2>2 DEF Told, Issue, IssuedAttrs, Announced
  <2> QED BY <2>2, <2>3, <2>4, <2>5 DEF ListingPredictsSign
<1> QED BY <1>1, Invariance, PTL

\* Certificates live within the ceiling of their policy; every answer is of a
\* known kind.
THEOREM PolicyTypeCorrect == Spec => []TypeOK
<1>1. ASSUME Inv PROVE answer.kind = "issued" => answer.cert.validFor \in 1..MaxValidForSeconds(pol)
  <2> SUFFICES ASSUME answer.kind = "issued"
               PROVE  answer.cert.validFor \in 1..MaxValidForSeconds(pol)
    OBVIOUS
  <2>1. PICK i \in DOMAIN pol.rules : \E keyID :
           answer.cert = Issue(pol, pol.rules[i], keyID)
    BY <1>1, IssuedCases
  <2>2. LifetimeOK(pol, pol.rules[i])
    BY <1>1, IssuedCases DEF Inv, Validate, RuleOK, ContentsOK
  <2> QED BY <2>1, <2>2 DEF Issue, LifetimeOK
<1>2. ASSUME Inv PROVE answer.kind \in {"nothing", "policy_disabled", "token_invalid",
                          "no_rule_matched", "multiple_rules_matched", "key_id_invalid", "issued"}
  BY <1>2, GrantCases DEF Inv, Nothing, Answer
<1>3. ASSUME Inv PROVE report.kind \in {"nothing", "policy_disabled", "no_rule_matched",
                          "multiple_rules_matched", "key_id_invalid", "issued"}
  BY <1>3, GrantCases DEF Inv, Nothing, Report
<1>4. ASSUME Inv PROVE listing.kind \in {"nothing", "listed"}
  BY <1>4 DEF Inv, Nothing, Listing
<1>5. Inv => TypeOK
  BY <1>1, <1>2, <1>3, <1>4 DEF TypeOK, Inv
<1> QED BY <1>5, Invariance, PTL

----------------------------------------------------------------------------
(* check-config's warnings, and the audit event. *)

\* The warning about broad rules is right about every rule and all claims.
THEOREM WarningsAreRight == Spec => []BroadRulesAreWarnedOf
<1>1. ASSUME NEW r, NEW who, Broad(r), r.issuer = who.issuer, r.audience \in who.audiences
      PROVE  RuleMatches(r, who)
  BY <1>1 DEF Broad, RuleMatches
<1>2. ASSUME NEW r, NEW who, ~Broad(r), "claims" \in DOMAIN who
      PROVE  ~RuleMatches(r, [who EXCEPT !.claims = <<>>])
  <2> DEFINE bare == [who EXCEPT !.claims = <<>>]
  <2>1. bare.claims = <<>>
    BY <1>2
  <2>2. \A name : ~IsText(bare.claims, name)
    BY <2>1 DEF IsText
  <2> QED BY <1>2, <2>2 DEF Broad, RuleMatches
<1>3. Inv => BroadRulesAreWarnedOf
  <2> SUFFICES ASSUME Inv, listing # Nothing, NEW i \in DOMAIN pol.rules,
                      pol.rules[i].issuer = id.issuer, pol.rules[i].audience \in id.audiences
               PROVE  IF listing.rules[i].broad THEN RuleMatches(pol.rules[i], id)
                      ELSE ~RuleMatches(pol.rules[i], [id EXCEPT !.claims = <<>>])
    BY DEF BroadRulesAreWarnedOf
  <2>1. listing.rules[i].broad = Broad(pol.rules[i])
    BY DEF Inv, Listing
  <2>2. "claims" \in DOMAIN id
    BY CasesAssumption DEF Inv
  <2> QED BY <1>1, <1>2, <2>1, <2>2
<1> QED BY <1>3, Invariance, PTL

\* What the audit event says of a certificate is so, and the rule it names
\* settles the rest.
THEOREM EventsAreTrue == Spec => []EventTellsTheCertificate
<1>1. ASSUME NEW p, NEW r, NEW keyID
      PROVE  LET event == IssuedAttrs(p, r, keyID)
                 cert == Issue(p, r, keyID)
                 silent == DOMAIN cert.options \ DOMAIN event.options
             IN /\ event.principals = cert.principals /\ event.keyID = cert.keyID
                /\ event.validFor = cert.validFor
                /\ \A o \in DOMAIN event.options :
                      o \in DOMAIN cert.options /\ event.options[o] = cert.options[o]
                /\ silent \subseteq {"source-address"}
                /\ silent # {} => cert.options["source-address"] = p.sources
  <2> DEFINE own == CriticalOptions(r.command, r.sources)
             all == CriticalOptions(r.command, SourceAddressFor(p, r))
  <2>1. /\ IssuedAttrs(p, r, keyID).options = own /\ Issue(p, r, keyID).options = all
        /\ IssuedAttrs(p, r, keyID).principals = Issue(p, r, keyID).principals
        /\ IssuedAttrs(p, r, keyID).keyID = Issue(p, r, keyID).keyID
        /\ IssuedAttrs(p, r, keyID).validFor = Issue(p, r, keyID).validFor
    BY DEF IssuedAttrs, Issue
  <2>2. CASE r.sources # <<>>
    <3>1. own = all
      BY <2>2 DEF SourceAddressFor
    <3> QED BY <2>1, <3>1
  <2>3. CASE r.sources = <<>>
    <3> DEFINE inherited == CriticalOptions(r.command, p.sources)
    <3>1. all = inherited
      BY <2>3 DEF SourceAddressFor
    <3>2. /\ \A o : o \in DOMAIN own <=> o = "force-command" /\ r.command # ""
          /\ r.command # "" => own["force-command"] = r.command
      BY <2>3 DEF CriticalOptions
    <3>3. /\ \A o : o \in DOMAIN inherited <=>
                 \/ o = "force-command" /\ r.command # ""
                 \/ o = "source-address" /\ p.sources # <<>>
          /\ r.command # "" => inherited["force-command"] = r.command
          /\ p.sources # <<>> => inherited["source-address"] = p.sources
      BY DEF CriticalOptions
    <3> HIDE DEF own, all, inherited
    <3> QED BY <2>1, <3>1, <3>2, <3>3
  <2> QED BY <2>2, <2>3
<1>2. Inv => EventTellsTheCertificate
  <2> SUFFICES ASSUME Inv, answer.kind = "issued" PROVE EventTellsTheCertificate
    BY DEF EventTellsTheCertificate
  <2>1. PICK i \in DOMAIN pol.rules : \E keyID :
           /\ answer.cert = Issue(pol, pol.rules[i], keyID)
           /\ answer.event = IssuedAttrs(pol, pol.rules[i], keyID)
    BY IssuedCases
  \* Names are unique, so that the event's leads to the rule.
  <2>2. /\ answer.event.rule = pol.rules[i].name
        /\ answer.cert = Issue(pol, pol.rules[i], answer.event.keyID)
    BY <2>1 DEF IssuedAttrs
  <2>3. \A j \in DOMAIN pol.rules : pol.rules[j].name = pol.rules[i].name => j = i
    BY IssuedCases DEF Inv, Validate
  <2>4. \A j \in DOMAIN pol.rules : pol.rules[j].name = answer.event.rule =>
           answer.cert = Issue(pol, pol.rules[j], answer.event.keyID)
    BY <2>2, <2>3
  <2> QED BY <1>1, <2>1, <2>4 DEF EventTellsTheCertificate
<1> QED BY <1>2, Invariance, PTL

----------------------------------------------------------------------------
(* The order of the rules. *)

LEMMA ReorderedMatching ==
    ASSUME NEW p, NEW who, NEW f \in Bijection(DOMAIN p.rules, DOMAIN p.rules),
           NEW q, q.rules = [i \in DOMAIN p.rules |-> p.rules[f[i]]]
    PROVE  /\ \A j : j \in Matching(q, who) <=>
                     j \in DOMAIN p.rules /\ f[j] \in Matching(p, who)
           /\ Issuers(q) = Issuers(p)
<1>0. /\ \A i \in DOMAIN p.rules : f[i] \in DOMAIN p.rules
      /\ \A i \in DOMAIN p.rules : \E j \in DOMAIN p.rules : f[j] = i
  BY DEF Bijection, Injection, Surjection
<1>1. DOMAIN q.rules = DOMAIN p.rules /\ \A i \in DOMAIN p.rules : q.rules[i] = p.rules[f[i]]
  OBVIOUS
<1>2. \A j : j \in Matching(q, who) <=> j \in DOMAIN p.rules /\ f[j] \in Matching(p, who)
  BY <1>0, <1>1 DEF Matching
<1>3. Issuers(q) = Issuers(p)
  <2>1. ASSUME NEW i \in DOMAIN p.rules, p.rules[i].enabled
        PROVE  \E j \in DOMAIN q.rules : q.rules[j].enabled /\ q.rules[j].issuer = p.rules[i].issuer
    <3>1. PICK j \in DOMAIN p.rules : f[j] = i
      BY <1>0
    <3> QED BY <1>1, <2>1, <3>1
  <2>2. \A j \in DOMAIN q.rules : q.rules[j].enabled =>
           \E i \in DOMAIN p.rules : p.rules[i].enabled /\ q.rules[j].issuer = p.rules[i].issuer
    BY <1>0, <1>1
  <2> QED BY <2>1, <2>2 DEF Issuers
<1> QED BY <1>2, <1>3

\* Exactly one rule matches before the reordering if and only if one does after.
LEMMA ReorderedEvaluate ==
    ASSUME NEW p, NEW who, NEW f \in Bijection(DOMAIN p.rules, DOMAIN p.rules),
           NEW q, q.rules = [i \in DOMAIN p.rules |-> p.rules[f[i]]], q.disabled = p.disabled
    PROVE  Evaluate(q, who) = Evaluate(p, who)
<1> DEFINE M == Matching(p, who)
           N == Matching(q, who)
<1>0. /\ \A i \in DOMAIN p.rules : f[i] \in DOMAIN p.rules
      /\ \A i \in DOMAIN p.rules : \E j \in DOMAIN p.rules : f[j] = i
      /\ \A i, j \in DOMAIN p.rules : f[i] = f[j] => i = j
  BY DEF Bijection, Injection, Surjection, IsInjective
<1>1. M \subseteq DOMAIN p.rules
  BY DEF Matching
<1>2. \A j : j \in N <=> j \in DOMAIN p.rules /\ f[j] \in M
  BY ReorderedMatching
<1> HIDE DEF M, N
<1>3. ASSUME NEW i \in M PROVE \E j \in N : f[j] = i
  <2>1. PICK j \in DOMAIN p.rules : f[j] = i
    BY <1>0, <1>1
  <2> QED BY <1>2, <2>1
<1>4. ASSUME NEW j \in N, N = {j} PROVE M = {f[j]}
  BY <1>2, <1>3, <1>4
<1>5. ASSUME NEW i \in M, M = {i} PROVE \E j \in N : N = {j} /\ f[j] = i
  <2>1. PICK j \in N : f[j] = i
    BY <1>3
  <2>2. \A k \in N : k \in DOMAIN p.rules /\ f[k] = i
    BY <1>2, <1>5
  <2>3. \A k \in N : k = j
    BY <1>0, <2>1, <2>2
  <2> QED BY <2>1, <2>3
<1> USE DEF M, N
<1>6. CASE p.disabled
  BY <1>6 DEF Evaluate
<1>7. CASE ~p.disabled /\ M = {}
  BY <1>2, <1>3, <1>7 DEF Evaluate
<1>8. CASE ~p.disabled /\ \E i \in M : M = {i}
  <2>1. PICK i \in M : M = {i}
    BY <1>8
  <2>2. PICK j \in N : N = {j} /\ f[j] = i
    BY <1>5, <2>1
  <2>3. (CHOOSE k \in M : TRUE) = i /\ (CHOOSE k \in N : TRUE) = j
    BY <2>1, <2>2
  <2>4. Evaluate(p, who) = [kind |-> "allowed", rule |-> p.rules[i]]
    BY <1>8, <2>3 DEF Evaluate
  <2>5. Evaluate(q, who) = [kind |-> "allowed", rule |-> q.rules[j]]
    BY <1>8, <2>2, <2>3 DEF Evaluate
  <2>6. q.rules[j] = p.rules[i]
    BY <1>2, <2>2
  <2> QED BY <2>4, <2>5, <2>6
<1>9. CASE ~p.disabled /\ M # {} /\ ~ \E i \in M : M = {i}
  <2>1. N # {} /\ ~ \E j \in N : N = {j}
    <3>1. \A j \in N : f[j] \in M
      BY <1>2
    <3> QED BY <1>3, <1>4, <1>9, <3>1
  <2>2. Evaluate(p, who) = [kind |-> "multiple_rules_matched", rules |-> { p.rules[i] : i \in M }]
    BY <1>9 DEF Evaluate
  <2>3. Evaluate(q, who) = [kind |-> "multiple_rules_matched", rules |-> { q.rules[i] : i \in N }]
    BY <1>9, <2>1 DEF Evaluate
  <2>4. { q.rules[i] : i \in N } = { p.rules[i] : i \in M }
    <3>1. \A j \in N : f[j] \in M /\ q.rules[j] = p.rules[f[j]]
      BY <1>2
    <3>2. \A i \in M : \E j \in N : q.rules[j] = p.rules[i]
      BY <1>3, <3>1
    <3> HIDE DEF M, N
    <3> QED BY <3>1, <3>2
  <2> QED BY <2>2, <2>3, <2>4
<1> QED BY <1>6, <1>7, <1>8, <1>9

\* No order of the rules is refused, trusts other issuers or decides otherwise.
THEOREM OrderDoesNotMatter == Spec => []OrderIsIrrelevant
<1>1. ASSUME NEW c \in Cases, Validate(c[1]),
             NEW f \in Bijection(DOMAIN c[1].rules, DOMAIN c[1].rules),
             NEW q, q = [c[1] EXCEPT !.rules = [i \in DOMAIN c[1].rules |-> c[1].rules[f[i]]]]
      PROVE  Validate(q) /\ Issuers(q) = Issuers(c[1]) /\ Evaluate(q, c[2]) = Evaluate(c[1], c[2])
  <2> DEFINE p == c[1]
  <2>1. /\ DOMAIN p = {"disabled", "ttl", "max", "template", "keyTypes", "extensions",
                       "sources", "rules"}
        /\ p.rules \in Seq({ p.rules[i] : i \in DOMAIN p.rules })
    BY CasesAssumption
  <2>2. /\ q.disabled = p.disabled /\ q.ttl = p.ttl /\ q.max = p.max
        /\ q.template = p.template /\ q.keyTypes = p.keyTypes
        /\ q.extensions = p.extensions /\ q.sources = p.sources
        /\ q.rules = [i \in DOMAIN p.rules |-> p.rules[f[i]]]
    BY <1>1, <2>1
  <2> HIDE <1>1 DEF p
  <2>3. Issuers(q) = Issuers(p) /\ Evaluate(q, c[2]) = Evaluate(p, c[2])
    BY <2>2, ReorderedMatching, ReorderedEvaluate DEF p
  <2>4. /\ \A i \in DOMAIN p.rules : f[i] \in DOMAIN p.rules
        /\ \A i, j \in DOMAIN p.rules : f[i] = f[j] => i = j
    BY DEF Bijection, Injection, IsInjective, p
  <2>5. DOMAIN q.rules = DOMAIN p.rules /\ \A i \in DOMAIN p.rules : q.rules[i] = p.rules[f[i]]
    BY <2>2
  <2>6. Validate(p)
    BY <1>1 DEF p
  <2>7. DefaultsOK(q)
    BY <2>2, <2>6 DEF Validate, DefaultsOK, MaxValidForSeconds, AllowedPublicKeyTypes
  <2>8. q.rules # <<>>
    <3>1. DOMAIN p.rules # {}
      BY <2>1, <2>6 DEF Validate
    <3> QED BY <2>5, <3>1
  <2>9. \A r : RuleOK(p, r) => RuleOK(q, r)
    BY <2>2 DEF RuleOK, ContentsOK, LifetimeOK, ValidForSecondsFor, MaxValidForSeconds,
                SourceAddressFor, KeyIDTemplateFor
  <2>10. \A i, j \in DOMAIN q.rules : i # j => q.rules[i].name # q.rules[j].name
    BY <2>4, <2>5, <2>6 DEF Validate
  <2>11. \A i \in DOMAIN q.rules : RuleOK(q, q.rules[i])
    BY <2>4, <2>5, <2>6, <2>9 DEF Validate
  <2>12. Validate(q)
    BY <2>2, <2>6, <2>7, <2>8, <2>10, <2>11 DEF Validate
  <2> QED BY <2>3, <2>12 DEF p
<1>2. Inv => OrderIsIrrelevant
  <2> SUFFICES ASSUME Inv, loaded = "yes", NEW q \in Reordered(pol)
               PROVE  Validate(q) /\ Issuers(q) = Issuers(pol) /\ Evaluate(q, id) = Evaluate(pol, id)
    BY DEF OrderIsIrrelevant
  <2>1. PICK c \in Cases : pol = c[1] /\ id = c[2]
    BY DEF Inv
  <2>2. PICK f \in Bijection(DOMAIN c[1].rules, DOMAIN c[1].rules) :
           q = [c[1] EXCEPT !.rules = [i \in DOMAIN c[1].rules |-> c[1].rules[f[i]]]]
    BY <2>1 DEF Reordered
  <2>3. Validate(c[1])
    BY <2>1 DEF Inv
  <2> QED BY <1>1, <2>1, <2>2, <2>3
<1> QED BY <1>2, Invariance, PTL

----------------------------------------------------------------------------
(* owner and reponame *)

LEMMA MinIsLeast ==
    ASSUME NEW S \in SUBSET Nat, NEW m \in S, \A j \in S : m <= j
    PROVE  Min(S) = m
<1>1. Min(S) \in S /\ \A j \in S : Min(S) <= j
  BY LeastIsIn
<1>2. Min(S) <= m /\ m <= Min(S)
  BY <1>1
<1>3. Min(S) \in Nat /\ m \in Nat
  BY <1>1
<1> HIDE DEF Min
<1> QED BY <1>2, <1>3

LEMMA Suffix ==
    ASSUME NEW Chars, NEW s \in Seq(Chars), NEW k \in 1..Len(s)
    PROVE  LET tail == SubSeq(s, k + 1, Len(s)) IN
           /\ tail \in Seq(Chars) /\ Len(tail) = Len(s) - k
           /\ \A i \in 1..(Len(s) - k) : tail[i] = s[k + i]
<1> DEFINE tail == SubSeq(s, k + 1, Len(s))
<1>1. Len(s) \in Nat /\ \A i \in 1..Len(s) : s[i] \in Chars
  BY LenProperties
<1>2. /\ tail \in Seq(Chars)
      /\ Len(tail) = IF k + 1 <= Len(s) THEN Len(s) - (k + 1) + 1 ELSE 0
      /\ \A i \in 1..(Len(s) - (k + 1) + 1) : tail[i] = s[(k + 1) + i - 1]
  <2>1. \A i \in (k + 1)..Len(s) : s[i] \in Chars
    BY <1>1
  <2>2. k + 1 \in Int /\ Len(s) \in Int
    BY <1>1
  <2> QED BY <2>1, <2>2, SubSeqProperties
<1> HIDE DEF tail
<1>3. Len(tail) = Len(s) - k
  BY <1>1, <1>2
<1>4. ASSUME NEW i \in 1..(Len(s) - k) PROVE tail[i] = s[k + i]
  <2>1. i \in 1..(Len(s) - (k + 1) + 1) /\ (k + 1) + i - 1 = k + i
    BY <1>1
  <2>2. tail[i] = s[(k + 1) + i - 1]
    BY <1>2, <2>1
  <2> QED BY <2>1, <2>2
<1> QED BY <1>2, <1>3, <1>4 DEF tail

Texts == Seq(STRING \cup {"/"})

\* strings.Cut undoes the joining of an owner without a slash and a name.
LEMMA CutUndoesJoin ==
    ASSUME NEW s \in Texts, NEW owner \in Texts, NEW name \in Texts, SlashFree(owner)
    PROVE  Cut(s).found /\ owner = Cut(s).owner /\ name = Cut(s).name
             <=> s = owner \o (<<"/">> \o name)
<1> DEFINE Chars == STRING \cup {"/"}
<1>0. s \in Seq(Chars) /\ owner \in Seq(Chars) /\ name \in Seq(Chars) /\ "/" \in Chars
  BY DEF Texts
<1> HIDE DEF Chars
<1> DEFINE slashes == { i \in DOMAIN s : s[i] = "/" }
           joined == owner \o (<<"/">> \o name)
<1>1. DOMAIN s = 1..Len(s) /\ Len(s) \in Nat /\ slashes \in SUBSET Nat
  BY <1>0, LenProperties
<1>2. /\ joined \in Seq(Chars) /\ Len(joined) = Len(owner) + 1 + Len(name)
      /\ \A i \in 1..Len(owner) : joined[i] = owner[i]
      /\ joined[Len(owner) + 1] = "/"
      /\ \A i \in 1..Len(name) : joined[Len(owner) + 1 + i] = name[i]
  <2>1. <<"/">> \in Seq(Chars) /\ Len(<<"/">>) = 1 /\ <<"/">>[1] = "/"
    BY <1>0
  <2>2. /\ <<"/">> \o name \in Seq(Chars) /\ Len(<<"/">> \o name) = 1 + Len(name)
        /\ (<<"/">> \o name)[1] = "/"
        /\ \A i \in 1..Len(name) : (<<"/">> \o name)[1 + i] = name[i]
    BY <1>0, <2>1, ConcatProperties, LenProperties
  <2> DEFINE rest == <<"/">> \o name
  <2> HIDE DEF rest
  <2>3. /\ owner \o rest \in Seq(Chars) /\ Len(owner \o rest) = Len(owner) + Len(rest)
        /\ \A i \in 1..(Len(owner) + Len(rest)) :
              (owner \o rest)[i] = IF i <= Len(owner) THEN owner[i] ELSE rest[i - Len(owner)]
    BY <1>0, <2>2, ConcatProperties DEF rest
  <2>4. Len(owner) \in Nat /\ Len(name) \in Nat
    BY <1>0, LenProperties
  <2> QED BY <2>2, <2>3, <2>4 DEF rest
<1>3. slashes = {} => ~Cut(s).found
  BY DEF Cut
<1>4. slashes # {} =>
         /\ Cut(s).found /\ Cut(s).owner = SubSeq(s, 1, Min(slashes) - 1)
         /\ Cut(s).name = SubSeq(s, Min(slashes) + 1, Len(s))
  BY DEF Cut
<1>5. Len(owner) \in Nat /\ Len(name) \in Nat /\ DOMAIN owner = 1..Len(owner)
  BY <1>0, LenProperties
<1> HIDE DEF joined
<1>6. ASSUME s = joined
      PROVE  Cut(s).found /\ owner = Cut(s).owner /\ name = Cut(s).name
  <2>1. Len(owner) + 1 \in slashes
    BY <1>1, <1>2, <1>5, <1>6
  <2>2. \A j \in slashes : Len(owner) + 1 <= j
    BY <1>1, <1>2, <1>5, <1>6 DEF SlashFree
  <2>3. Min(slashes) = Len(owner) + 1
    BY <1>1, <2>1, <2>2, MinIsLeast
  <2>4. SubSeq(s, 1, Len(owner)) = owner
    BY <1>0, <1>1, <1>2, <1>5, <1>6, SubSeqProperties, SeqEqual
  <2>5. SubSeq(s, Len(owner) + 1 + 1, Len(s)) = name
    <3> DEFINE tail == SubSeq(s, Len(owner) + 1 + 1, Len(s))
    <3>1. Len(owner) + 1 \in 1..Len(s) /\ Len(s) - (Len(owner) + 1) = Len(name)
      BY <1>2, <1>5, <1>6
    <3>2. /\ tail \in Seq(Chars) /\ Len(tail) = Len(name)
          /\ \A i \in 1..Len(name) : tail[i] = s[Len(owner) + 1 + i]
      BY <1>0, <3>1, Suffix
    <3> HIDE DEF tail
    <3>3. \A i \in 1..Len(name) : tail[i] = name[i]
      BY <1>2, <1>6, <3>2
    <3> QED BY <1>0, <3>2, <3>3, SeqEqual DEF tail
  <2>6. Min(slashes) - 1 = Len(owner) /\ Min(slashes) + 1 = Len(owner) + 1 + 1
    BY <1>5, <2>3
  <2> HIDE DEF slashes
  <2> QED BY <1>4, <2>1, <2>4, <2>5, <2>6
<1>7. ASSUME Cut(s).found, owner = Cut(s).owner, name = Cut(s).name
      PROVE  s = joined
  <2> DEFINE m == Min(slashes)
  <2>1. slashes # {}
    BY <1>3, <1>7
  <2>2. m \in 1..Len(s) /\ s[m] = "/"
    BY <1>1, <2>1, LeastIsIn
  <2> HIDE DEF slashes, m
  <2>3. owner = SubSeq(s, 1, m - 1) /\ name = SubSeq(s, m + 1, Len(s))
    BY <1>4, <1>7, <2>1 DEF m
  <2>4. Len(owner) = m - 1 /\ \A i \in 1..(m - 1) : owner[i] = s[i]
    BY <1>0, <1>1, <2>2, <2>3, SubSeqProperties
  <2>5. Len(name) = Len(s) - m /\ \A i \in 1..(Len(s) - m) : name[i] = s[m + i]
    BY <1>0, <2>2, <2>3, Suffix
  <2>6. Len(s) = Len(joined) /\ \A i \in 1..Len(s) : s[i] = joined[i]
    <3>1. Len(s) = Len(joined)
      BY <1>1, <1>2, <2>2, <2>4, <2>5
    <3>2. ASSUME NEW i \in 1..Len(s) PROVE s[i] = joined[i]
      <4>1. CASE i < m
        BY <1>1, <1>2, <2>2, <2>4, <4>1
      <4>2. CASE i = m
        BY <1>1, <1>2, <2>2, <2>4, <4>2
      <4>3. CASE i > m
        <5>1. i - m \in 1..Len(name) /\ m = Len(owner) + 1 /\ m + (i - m) = i
          BY <1>1, <2>2, <2>4, <2>5, <4>3
        <5>2. name[i - m] = s[m + (i - m)] /\ joined[Len(owner) + 1 + (i - m)] = name[i - m]
          BY <1>2, <2>5, <5>1
        <5> QED BY <5>1, <5>2
      <4> QED BY <1>1, <2>2, <4>1, <4>2, <4>3
    <3> QED BY <3>1, <3>2
  <2> QED BY <1>0, <1>2, <2>6, SeqEqual
<1> QED BY <1>6, <1>7 DEF joined

\* For every valid rule and every repository claim, owner and reponame match
\* what the whole name in claims_exact does.
THEOREM OwnerAndNamePin == Spec => []OwnerAndNamePinTheRepository
<1>1. ASSUME NEW c \in Cases, NEW i \in DOMAIN c[1].rules, SlashFree(c[1].rules[i].owner),
             c[1].rules[i].owner # <<>>, c[1].rules[i].reponame # <<>>,
             Repository \notin DOMAIN c[1].rules[i].claims
      PROVE  RuleMatches(c[1].rules[i], c[2]) <=> RuleMatches(Pinned(c[1].rules[i]), c[2])
  <2> DEFINE r == c[1].rules[i]
             who == c[2]
             joined == r.owner \o (<<"/">> \o r.reponame)
             others == \A claim \in DOMAIN r.claims :
                          IsText(who.claims, claim) /\ who.claims[claim] = r.claims[claim]
  <2>1. /\ DOMAIN r = {"name", "enabled", "issuer", "audience", "owner", "reponame", "claims",
                       "principals", "ttl", "template", "extensions", "command", "sources"}
        /\ r.owner \in Seq(STRING) /\ r.reponame \in Seq(STRING)
        /\ IsText(who.claims, Repository) => who.claims[Repository] \in Seq(STRING)
    BY CasesAssumption DEF IsText
  <2>2. IsText(who.claims, Repository) =>
           LET repo == Cut(who.claims[Repository]) IN
           repo.found /\ r.owner = repo.owner /\ r.reponame = repo.name
             <=> who.claims[Repository] = joined
    <3>1. r.owner \in Texts /\ r.reponame \in Texts
      BY <2>1, SeqMonotonic DEF Texts
    <3>2. IsText(who.claims, Repository) => who.claims[Repository] \in Texts
      BY <2>1, SeqMonotonic DEF Texts
    <3>3. SlashFree(r.owner)
      BY <1>1
    <3> DEFINE text == who.claims[Repository]
               owner == r.owner
               name == r.reponame
    <3> HIDE DEF r, who
    <3>4. SUFFICES ASSUME text \in Texts
                   PROVE  Cut(text).found /\ owner = Cut(text).owner /\ name = Cut(text).name
                            <=> text = owner \o (<<"/">> \o name)
      BY <3>2
    <3> HIDE DEF text, owner, name
    <3>5. owner \in Texts /\ name \in Texts /\ SlashFree(owner)
      BY <3>1, <3>3 DEF owner, name
    <3> QED BY <3>4, <3>5, CutUndoesJoin
  <2>3. RuleMatches(r, who) <=>
           /\ r.issuer = who.issuer /\ r.audience \in who.audiences
           /\ IsText(who.claims, Repository) /\ who.claims[Repository] = joined
           /\ others
    BY <1>1, <2>2 DEF RuleMatches
  <2> DEFINE pinned == Pinned(r)
  <2>4. /\ pinned.issuer = r.issuer /\ pinned.audience = r.audience
        /\ pinned.owner = <<>> /\ pinned.reponame = <<>>
        /\ pinned.claims = [claim \in DOMAIN r.claims \cup {Repository} |->
                               IF claim = Repository THEN joined ELSE r.claims[claim]]
    BY <2>1 DEF Pinned
  <2>5. /\ DOMAIN pinned.claims = DOMAIN r.claims \cup {Repository}
        /\ pinned.claims[Repository] = joined
        /\ \A claim \in DOMAIN r.claims : pinned.claims[claim] = r.claims[claim]
    <3> HIDE DEF joined, pinned
    <3> QED BY <1>1, <2>4
  <2>6. RuleMatches(pinned, who) <=>
           /\ r.issuer = who.issuer /\ r.audience \in who.audiences
           /\ IsText(who.claims, Repository) /\ who.claims[Repository] = joined
           /\ others
    BY <2>4, <2>5 DEF RuleMatches
  <2> QED BY <2>3, <2>6
<1>2. Inv => OwnerAndNamePinTheRepository
  <2> SUFFICES ASSUME Inv, loaded = "yes", NEW i \in DOMAIN pol.rules,
                      pol.rules[i].owner # <<>>, pol.rules[i].reponame # <<>>,
                      Repository \notin DOMAIN pol.rules[i].claims
               PROVE  RuleMatches(pol.rules[i], id) <=> RuleMatches(Pinned(pol.rules[i]), id)
    BY DEF OwnerAndNamePinTheRepository
  <2>1. PICK c \in Cases : pol = c[1] /\ id = c[2]
    BY DEF Inv
  <2>2. SlashFree(pol.rules[i].owner)
    BY DEF Inv, Validate, RuleOK
  <2> QED BY <1>1, <2>1, <2>2
<1> QED BY <1>2, Invariance, PTL

----------------------------------------------------------------------------
(* The key ID *)

\* Whatever the template, of any length, and whatever the claims: an expansion
\* that gets as far as the re-check passes it.
THEOREM RecheckIsRedundant == Spec => []RecheckNeverFires
<1>1. ASSUME NEW c \in Cases, NEW i \in DOMAIN c[1].rules, RuleOK(c[1], c[1].rules[i])
      PROVE  ExpandError(KeyIDTemplateFor(c[1], c[1].rules[i]), c[2].claims) # "recheck"
  <2> DEFINE tmpl == KeyIDTemplateFor(c[1], c[1].rules[i])
             claims == c[2].claims
  <2>1. tmpl \in Seq(STRING)
    BY CasesAssumption DEF KeyIDTemplateFor
  <2>2. \A name \in DOMAIN claims : claims[name] = NonString \/ claims[name] \in Seq(STRING)
    BY CasesAssumption
  <2>3. tmpl # <<>> /\ TemplateOK(tmpl)
    BY <1>1 DEF RuleOK
  <2> HIDE DEF tmpl, claims
  <2>4. ClaimsClean(tmpl, claims) =>
           Expanded(tmpl, claims) # <<>> /\ Only(Expanded(tmpl, claims), KeyIDChars)
    BY <2>1, <2>2, <2>3, ExpandedIsClean
  <2>5. ExpandError(tmpl, claims) # "recheck"
    BY <2>4 DEF ExpandError
  <2> QED BY <2>5 DEF tmpl, claims
<1>2. Inv => RecheckNeverFires
  BY <1>1 DEF Inv, Validate, RecheckNeverFires
<1> QED BY <1>2, Invariance, PTL
=============================================================================
