---------------------------- MODULE Certificates ---------------------------
(***************************************************************************)
(* What a rule and the defaults of its policy put into a certificate       *)
(* (internal/policy/policy.go, internal/issuer/issuer.go), and what the    *)
(* audit event says of it.  Lists are sequences; <<>> and "" stand for a   *)
(* field that is empty or left out, which the code does not tell apart,    *)
(* LeftOut for one that is left out.                                       *)
(***************************************************************************)
EXTENDS Naturals, Sequences, SequencesExt

CONSTANTS
    LeftOut,
    DefaultMax,         \* DefaultMaxValidForSeconds
    Principals,         \* the texts that principalRe accepts
    Commands,           \* those that validateForceCommand accepts
    Ranges,             \* those that net.ParseCIDR accepts
    SupportedKeyTypes

\* The effective value of a field, for policy p and rule r.
MaxValidForSeconds(p) == IF p.max # LeftOut THEN p.max ELSE DefaultMax
ValidForSecondsFor(p, r) ==
    IF r.ttl # LeftOut THEN r.ttl ELSE IF p.ttl # LeftOut THEN p.ttl ELSE 0
KeyIDTemplateFor(p, r) == IF r.template # <<>> THEN r.template ELSE p.template
SourceAddressFor(p, r) == IF r.sources # <<>> THEN r.sources ELSE p.sources
ExtensionsFor(p, r) ==
    IF r.extensions # LeftOut THEN r.extensions
    ELSE IF p.extensions # LeftOut THEN p.extensions ELSE {}
AllowedPublicKeyTypes(p) == IF p.keyTypes # <<>> THEN ToSet(p.keyTypes) ELSE {"ssh-ed25519"}

\* The checks of Validate.  (Mutant: the ceiling binds only the defaults.)
OwnLifetimeFree(p, r) == ValidForSecondsFor(p, r) > 0
LifetimeOK(p, r) == ValidForSecondsFor(p, r) \in 1..MaxValidForSeconds(p)

SourcesOK(sources) == ToSet(sources) \subseteq Ranges
ContentsOK(p, r) ==
    /\ r.principals # <<>> /\ ToSet(r.principals) \subseteq Principals
    /\ LifetimeOK(p, r)
    /\ r.command = "" \/ r.command \in Commands
    /\ SourcesOK(SourceAddressFor(p, r))

DefaultsOK(p) ==
    /\ MaxValidForSeconds(p) > 0
    /\ AllowedPublicKeyTypes(p) \subseteq SupportedKeyTypes
    /\ p.ttl # LeftOut => p.ttl \in 1..MaxValidForSeconds(p)
    /\ SourcesOK(p.sources)

\* criticalOptionMap: the options of a certificate that restrict it.
CriticalOptions(command, sources) ==
    [ o \in (IF command # "" THEN {"force-command"} ELSE {})
              \cup (IF sources # <<>> THEN {"source-address"} ELSE {}) |->
      IF o = "force-command" THEN command ELSE sources ]

\* issuer.Issue.  (Mutant: an inherited source_address is forgotten.)
OwnSourcesOnly(p, r, keyID) ==
    [principals |-> r.principals, keyID |-> keyID, validFor |-> ValidForSecondsFor(p, r),
     options |-> CriticalOptions(r.command, r.sources), extensions |-> ExtensionsFor(p, r)]
Issue(p, r, keyID) ==
    [principals |-> r.principals, keyID |-> keyID, validFor |-> ValidForSecondsFor(p, r),
     options |-> CriticalOptions(r.command, SourceAddressFor(p, r)),
     extensions |-> ExtensionsFor(p, r)]

\* The event certificate_issued: of the options those that the rule sets itself.
\* (Mutant: the lifetime, too, is the rule's own.)
OwnFieldsLogged(p, r, keyID) ==
    [rule |-> r.name, principals |-> r.principals, keyID |-> keyID, validFor |-> r.ttl,
     options |-> CriticalOptions(r.command, r.sources)]
IssuedAttrs(p, r, keyID) ==
    [rule |-> r.name, principals |-> r.principals, keyID |-> keyID,
     validFor |-> ValidForSecondsFor(p, r), options |-> CriticalOptions(r.command, r.sources)]
=============================================================================
