-------------------------- MODULE CertificateTimes -------------------------
(***************************************************************************)
(* The clock in one /sign request: exp, nbf and iat of its token           *)
(* (checkTimeClaims), the interval of the certificate (Server.Sign and     *)
(* issuer.Issue), and the moments at which sshd accepts it, with the       *)
(* integer widths that Go gives all of them.                               *)
(***************************************************************************)
EXTENDS GoTime

CONSTANTS
    Absent,                         \* a claim or a field that is left out, or a claim that is no number
    Tokens,                         \* records of exp, nbf and iat
    Policies,                       \* records of offset, ttl and max, in seconds
    Leeway,                         \* ClockSkewLeeway
    DefaultOffset, DefaultMax,
    Skews,                          \* how far the clocks of target servers are off
    Start, Horizon                  \* the clock runs from Start to Horizon

ASSUME TimesAssumption ==
    /\ Absent \notin Int
    /\ Tokens \subseteq [exp : Int \cup {Absent}, nbf : Int \cup {Absent}, iat : Int \cup {Absent}]
    /\ Policies \subseteq [offset : Int64 \cup {Absent}, ttl : Int64, max : Int64 \cup {Absent}]
    /\ DefaultOffset \in Int64 /\ DefaultMax \in Int64
    /\ Leeway \in Nat /\ Start \in Nat /\ Leeway < Start    \* 1970 is long past
    /\ Horizon \in Nat /\ Start <= Horizon /\ Horizon < HalfRange
    /\ Skews \subseteq Int

VARIABLES
    now,
    token, pol,
    pc,             \* "verifying", "denied", "verified" or "issued"
    verifiedAt, issuedAt,
    cert            \* ValidAfter and ValidBefore

vars == <<now, token, pol, pc, verifiedAt, issuedAt, cert>>

ValidAfterOffsetSeconds(p) == IF p.offset = Absent THEN DefaultOffset ELSE p.offset
MaxValidForSeconds(p) == IF p.max = Absent THEN DefaultMax ELSE p.max

\* What Validate demands of the times of a policy: nothing of the offset.
\* (Mutant: the ceiling is forgotten.)
NoCeiling(p) == p.ttl > 0
LifetimeOK(p) == p.ttl > 0 /\ p.ttl <= MaxValidForSeconds(p)

Init == /\ now = Start
        /\ token \in Tokens
        /\ pol \in { p \in Policies : LifetimeOK(p) }
        /\ pc = "verifying"
        /\ verifiedAt = now /\ issuedAt = now
        /\ cert = [after |-> 0, before |-> 0]

Tick == /\ now < Horizon
        /\ now' = now + 1
        /\ UNCHANGED <<token, pol, pc, verifiedAt, issuedAt, cert>>

----------------------------------------------------------------------------
\* numericClaim: the times a claim may be read as.
NumericClaim(v) == IF v = Absent THEN {Absent} ELSE { Unix(n) : n \in Integers64(v) }

Expired(exp) == exp = Absent \/ now > Add(exp, Leeway)

\* (Mutant: the claim is not looked at.)
NeverTooEarly(t) == FALSE
TooEarly(t) == t # Absent /\ now < t - Leeway

CheckTimeClaims ==
    /\ pc = "verifying"
    /\ \E exp \in NumericClaim(token.exp), nbf \in NumericClaim(token.nbf),
          iat \in NumericClaim(token.iat) :
          pc' = IF Expired(exp) \/ TooEarly(nbf) \/ TooEarly(iat) THEN "denied" ELSE "verified"
    /\ verifiedAt' = now
    /\ UNCHANGED <<now, token, pol, issuedAt, cert>>

\* (Mutants: the offset is forgotten; the lifetime counts from the offset.)
ValidFromNow(p) == now
ValidForAfterOffset(p) == now + Seconds(ValidAfterOffsetSeconds(p)) + Seconds(p.ttl)
ValidAfter(p) == now + Seconds(ValidAfterOffsetSeconds(p))
ValidBefore(p) == now + Seconds(p.ttl)

Issue ==
    /\ pc = "verified"
    /\ pc' = "issued"
    /\ issuedAt' = now
    /\ cert' = [after |-> Uint64(UnixSeconds(ValidAfter(pol))),
                before |-> Uint64(UnixSeconds(ValidBefore(pol)))]
    /\ UNCHANGED <<now, token, pol, verifiedAt>>

\* sshd (external), on a server whose clock shows t.
Accepts(c, t) == t >= 0 /\ c.after <= UnixSeconds(t) /\ UnixSeconds(t) < c.before

Next == Tick \/ CheckTimeClaims \/ Issue

Spec == Init /\ [][Next]_vars

----------------------------------------------------------------------------
(* Properties *)

TypeOK ==
    /\ now \in Start .. Horizon
    /\ token \in Tokens
    /\ pol \in Policies /\ LifetimeOK(pol)
    /\ pc \in {"verifying", "denied", "verified", "issued"}
    /\ verifiedAt \in Start .. now /\ issuedAt \in Start .. now
    /\ cert \in [after : 0 .. (2 * HalfRange - 1), before : 0 .. (2 * HalfRange - 1)]

Accepted == pc \in {"verified", "issued"}

\* No token is accepted later than the leeway after its exp, and none without
\* an exp, whatever number it is and however the processor converts it.
NoExpiredToken == Accepted => token.exp # Absent /\ verifiedAt <= token.exp + Leeway

\* nbf and iat are held to the same leeway, to the second, if they lie before
\* the last moment that a time.Time can tell; a later one wraps into the past
\* (checkTimeClaims has no bound on them) and does not hold the token back.
ReadAs(v) == v # Absent /\ v < (HalfRange - Epoch) * Second
NoEarlyToken ==
    Accepted => \A t \in {token.nbf, token.iat} :
        ReadAs(t) => verifiedAt > t - Leeway - Second

\* docs/policy.md: "every outstanding certificate is dead within this many
\* seconds" (defaults.max_valid_for_seconds), whatever the offset, on every
\* server whose clock shows that time.  A ceiling beyond time.Duration (292
\* years), which Validate does not refuse, is outside the promise.
Representable(p) == MaxValidForSeconds(p) * Second < HalfRange

DeadWithinTheMaximum ==
    pc = "issued" /\ Representable(pol) =>
        \A skew \in Skews :
            now + skew >= issuedAt + MaxValidForSeconds(pol) * Second => ~Accepts(cert, now + skew)

\* On servers whose clocks are behind by as much as the offset allows for, or
\* ahead by a second less than the lifetime, a certificate works at once; the
\* default offset is there "to tolerate clock skew on target servers"
\* (docs/quickstart.md).  An offset that reaches before 1970 makes a
\* certificate that never works: the code does not refuse it.
WorksInItsInterval ==
    LET offset == ValidAfterOffsetSeconds(pol) IN
    pc = "issued" /\ Representable(pol) /\ issuedAt + offset * Second >= 0 =>
        \A skew \in Skews :
            skew >= offset * Second /\ skew <= (pol.ttl - 1) * Second
              => Accepts(cert, issuedAt + skew)

\* A token's certificate outlives the token by no more than the leeway, the
\* ceiling and the time the handler took between its two looks at the clock.
TokenBoundsCertificate ==
    pc = "issued" /\ Representable(pol) =>
        ( now >= token.exp + Leeway + MaxValidForSeconds(pol) * Second + (issuedAt - verifiedAt)
            => ~Accepts(cert, now) )
=============================================================================
