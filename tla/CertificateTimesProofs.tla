----------------------- MODULE CertificateTimesProofs ----------------------
(***************************************************************************)
(* Theorems about CertificateTimes, for integers of every width, seconds   *)
(* of any length, every claim, offset and lifetime.                        *)
(***************************************************************************)
EXTENDS CertificateTimes, TLAPS

----------------------------------------------------------------------------
(* Integers and times *)

\* What fits an int64 stays what it is; what is too large becomes less.
LEMMA WrapFits == ASSUME NEW x \in Int64 PROVE Wrap(x) = x
<1> DEFINE m == 2 * HalfRange
<1>1. x + HalfRange \in 0 .. (m - 1) /\ m \in Nat \ {0}
  BY GoTimeAssumption DEF Int64
<1>2. (x + HalfRange) % m = x + HalfRange
  BY <1>1
<1> QED
  BY <1>2, GoTimeAssumption DEF Wrap, Int64

LEMMA WrapNotMore == ASSUME NEW x \in Int, x >= -HalfRange
                     PROVE  Wrap(x) \in Int /\ Wrap(x) <= x
<1> DEFINE m == 2 * HalfRange
           a == x + HalfRange
<1>1. a \in Nat /\ m \in Nat \ {0}
  BY GoTimeAssumption
<1> HIDE DEF a, m
<1>2. a % m \in Nat /\ a % m <= a
  BY <1>1
<1> QED
  BY <1>2, GoTimeAssumption DEF Wrap, a, m

LEMMA Uint64Fits == ASSUME NEW x \in 0 .. (2 * HalfRange - 1) PROVE Uint64(x) = x
<1> DEFINE m == 2 * HalfRange
<1>1. x \in 0 .. (m - 1) /\ m \in Nat \ {0}
  BY GoTimeAssumption
<1> HIDE DEF m
<1>2. x % m = x
  BY <1>1
<1> QED
  BY <1>2 DEF Uint64, m

LEMMA Uint64NotMore == ASSUME NEW x \in Nat
                       PROVE  Uint64(x) <= x
<1> DEFINE m == 2 * HalfRange
<1>1. m \in Nat \ {0}
  BY GoTimeAssumption
<1> HIDE DEF m
<1>2. x % m <= x
  BY <1>1
<1> QED
  BY <1>2 DEF Uint64, m

LEMMA Uint64Range == ASSUME NEW x \in Int
                     PROVE  Uint64(x) \in 0 .. (2 * HalfRange - 1)
<1> DEFINE m == 2 * HalfRange
<1>1. m \in Nat \ {0}
  BY GoTimeAssumption
<1> HIDE DEF m
<1>2. x % m \in 0 .. (m - 1)
  BY <1>1
<1> QED
  BY <1>2 DEF Uint64, m

\* Whole seconds of a time.
LEMMA SecondsOrdered == ASSUME NEW s \in Int, NEW t \in Int, s <= t
                        PROVE  UnixSeconds(s) \in Int /\ UnixSeconds(s) <= UnixSeconds(t)
  BY GoTimeAssumption DEF UnixSeconds

LEMMA SecondsAdd == ASSUME NEW t \in Int, NEW n \in Int
                    PROVE  UnixSeconds(t + n * Second) = UnixSeconds(t) + n
  BY GoTimeAssumption DEF UnixSeconds

LEMMA SecondsNatural == ASSUME NEW t \in Nat
                        PROVE  UnixSeconds(t) \in Nat /\ UnixSeconds(t) <= t
  BY GoTimeAssumption DEF UnixSeconds

LEMMA SecondsRound == ASSUME NEW v \in Int
                      PROVE  /\ v \div Second \in Int
                             /\ (v \div Second) * Second <= v
                             /\ v < (v \div Second) * Second + Second
  BY GoTimeAssumption

LEMMA TimesOrdered == ASSUME NEW m \in Int, NEW n \in Int, m <= n
                      PROVE  m * Second \in Int /\ m * Second <= n * Second
  BY GoTimeAssumption

----------------------------------------------------------------------------
(* Claims *)

\* However a claim is converted, it is not read as later than it says, unless
\* it lies before 1970.
LEMMA ReadNotLater ==
    ASSUME NEW v \in Int, NEW n \in Integers64(v)
    PROVE  n \in Int64 /\ Unix(n) \in Int /\ (Unix(n) <= v \/ Unix(n) <= 0)
<1>1. n \in Int64 /\ (n <= 0 \/ n <= v \div Second)
  <2>1. Truncated(v) \in Int /\ (v >= 0 => Truncated(v) = v \div Second)
                             /\ (v < 0 => Truncated(v) <= 0)
    BY SecondsRound, GoTimeAssumption DEF Truncated
  <2>2. CASE Truncated(v) \in Int64
    BY <2>1, <2>2 DEF Integers64
  <2>3. CASE Truncated(v) \notin Int64
    <3>1. n \in Int64
      BY <2>3, GoTimeAssumption DEF Integers64, Int64
    <3>2. n = -HalfRange \/ (v >= 0 /\ n = HalfRange - 1)
      BY <2>3 DEF Integers64
    <3>3. CASE n = -HalfRange
      BY <3>1, <3>3, GoTimeAssumption
    <3>4. CASE v >= 0 /\ n = HalfRange - 1
      <4>1. v \div Second >= 0
        BY <3>4, GoTimeAssumption
      <4>2. v \div Second > HalfRange - 1
        BY <2>1, <2>3, <3>4, <4>1, SecondsRound, GoTimeAssumption DEF Int64
      <4> QED
        BY <3>1, <3>4, <4>2, SecondsRound, GoTimeAssumption
    <3> QED
      BY <3>2, <3>3, <3>4
  <2> QED
    BY <2>2, <2>3
<1>2. Wrap(n + Epoch) \in Int /\ Wrap(n + Epoch) - Epoch <= n
  BY <1>1, WrapNotMore, GoTimeAssumption DEF Int64
<1> DEFINE w == Wrap(n + Epoch) - Epoch
<1>3. w \in Int /\ w <= n /\ n \in Int
  BY <1>1, <1>2, GoTimeAssumption DEF Int64
<1>4. Unix(n) = w * Second
  BY DEF Unix
<1> HIDE DEF w
<1>5. CASE n <= 0
  <2>1. w * Second <= 0 * Second
    BY <1>3, <1>5, TimesOrdered
  <2> QED
    BY <1>1, <1>3, <1>4, <2>1, TimesOrdered, GoTimeAssumption
<1>6. CASE n <= v \div Second
  <2>1. w * Second \in Int /\ w * Second <= (v \div Second) * Second
    BY <1>3, <1>6, TimesOrdered, SecondsRound
  <2> QED
    BY <1>1, <1>4, <2>1, SecondsRound, TimesOrdered
<1> QED
  BY <1>1, <1>5, <1>6

\* A claim that a time.Time can tell is read as less than a second earlier.
LEMMA ReadToTheSecond ==
    ASSUME NEW v \in Int, ReadAs(v), NEW n \in Integers64(v)
    PROVE  Unix(n) > v - Second
<1> DEFINE last == HalfRange - Epoch
<1>1. last \in Nat /\ v < last * Second
  BY GoTimeAssumption DEF ReadAs
<1>2. v \div Second < last
  BY <1>1, GoTimeAssumption
<1>3. /\ n \in Int64 /\ n + Epoch \in Int64 /\ n \in Int
      /\ n * Second > v - Second
  <2>1. CASE v >= 0
    <3>1. Truncated(v) = v \div Second /\ v \div Second >= 0
      BY <2>1, GoTimeAssumption DEF Truncated
    <3>2. Truncated(v) \in Int64
      BY <1>2, <3>1, SecondsRound, GoTimeAssumption DEF Int64
    <3>3. n = v \div Second
      BY <3>1, <3>2 DEF Integers64
    <3> QED
      BY <1>2, <3>1, <3>2, <3>3, SecondsRound, GoTimeAssumption DEF Int64
  <2>2. CASE v < 0
    <3> DEFINE k == (-v) \div Second
    <3>1. k \in Nat /\ k * Second <= -v /\ Truncated(v) = -k
      BY <2>2, SecondsRound, GoTimeAssumption DEF Truncated
    <3> HIDE DEF k
    <3>2. \E j \in Nat : n = -j /\ j <= k /\ n \in Int64
      <4>1. CASE Truncated(v) \in Int64
        BY <3>1, <4>1 DEF Integers64
      <4>2. CASE Truncated(v) \notin Int64
        <5>1. k > HalfRange
          BY <3>1, <4>2, GoTimeAssumption DEF Int64
        <5>2. n = -HalfRange
          BY <2>2, <4>2 DEF Integers64
        <5> QED
          BY <3>1, <5>1, <5>2, GoTimeAssumption DEF Int64
      <4> QED
        BY <4>1, <4>2
    <3>3. PICK j \in Nat : n = -j /\ j <= k /\ n \in Int64
      BY <3>2
    <3>4. j * Second <= k * Second
      BY <3>1, <3>3, TimesOrdered
    <3>5. n * Second = -(j * Second)
      BY <3>3, GoTimeAssumption
    <3>6. n * Second > v - Second
      BY <3>1, <3>3, <3>4, <3>5, GoTimeAssumption
    <3>7. n + Epoch \in Int64
      BY <3>3, GoTimeAssumption DEF Int64
    <3> QED
      BY <3>3, <3>6, <3>7
  <2> QED
    BY <2>1, <2>2
<1>4. Unix(n) = n * Second
  BY <1>3, WrapFits, GoTimeAssumption DEF Unix
<1> QED
  BY <1>3, <1>4

----------------------------------------------------------------------------
(* The invariant *)

\* What is known of a certificate between its issue and its use.
CertificateInv ==
    pc = "issued" =>
        cert = [after  |-> Uint64(UnixSeconds(issuedAt + Seconds(ValidAfterOffsetSeconds(pol)))),
                before |-> Uint64(UnixSeconds(issuedAt + Seconds(pol.ttl)))]

\* A verification comes before an issue.
OrderInv == Accepted => verifiedAt <= now /\ (pc = "issued" => verifiedAt <= issuedAt)

IInv == TypeOK /\ NoExpiredToken /\ NoEarlyToken /\ CertificateInv /\ OrderInv

LEMMA PolicyTimes ==
    ASSUME NEW p \in Policies
    PROVE  /\ ValidAfterOffsetSeconds(p) \in Int /\ MaxValidForSeconds(p) \in Int
           /\ p.ttl \in Int
  BY TimesAssumption DEF ValidAfterOffsetSeconds, MaxValidForSeconds, Int64

LEMMA SecondsType == ASSUME NEW n \in Int PROVE Seconds(n) \in Int
<1>1. n * Second \in Int
  BY GoTimeAssumption
<1> DEFINE x == n * Second + HalfRange
           m == 2 * HalfRange
<1>2. x \in Int /\ m \in Nat \ {0}
  BY <1>1, GoTimeAssumption
<1> HIDE DEF x, m
<1>3. x % m \in Int
  BY <1>2
<1> QED
  BY <1>3, GoTimeAssumption DEF Seconds, Wrap, x, m

LEMMA InitInv == Init => IInv
<1> SUFFICES ASSUME Init PROVE IInv
  OBVIOUS
<1> QED
  BY TimesAssumption, GoTimeAssumption
  DEF Init, IInv, TypeOK, NoExpiredToken, NoEarlyToken, CertificateInv, OrderInv, Accepted

\* One read of exp, nbf or iat that lets the token pass.
LEMMA ExpiryRead ==
    ASSUME TypeOK, NEW exp \in NumericClaim(token.exp), ~Expired(exp)
    PROVE  token.exp \in Int /\ now <= token.exp + Leeway
<1>1. token.exp \in Int /\ now \in Nat /\ now > Leeway /\ Leeway \in Nat
  BY TimesAssumption DEF TypeOK, NumericClaim, Expired
<1>2. PICK n \in Integers64(token.exp) : exp = Unix(n)
  BY <1>1, TimesAssumption DEF NumericClaim
<1>3. exp \in Int /\ (exp <= token.exp \/ exp <= 0)
  BY <1>1, <1>2, ReadNotLater
<1>4. now <= exp + Leeway
  <2>1. LastTime \in Int
    BY GoTimeAssumption DEF LastTime
  <2>2. Add(exp, Leeway) \in Int /\ Add(exp, Leeway) <= exp + Leeway
    BY <1>1, <1>3, <2>1 DEF Add
  <2> QED
    BY <1>1, <1>3, <2>2 DEF Expired
<1> QED
  BY <1>1, <1>3, <1>4

LEMMA EarlyRead ==
    ASSUME TypeOK, NEW v \in Int \cup {Absent}, NEW t \in NumericClaim(v), ~TooEarly(t),
           v # Absent, ReadAs(v)
    PROVE  now > v - Leeway - Second
<1>1. v \in Int /\ now \in Nat /\ Leeway \in Nat
  BY TimesAssumption DEF TypeOK
<1>2. PICK n \in Integers64(v) : t = Unix(n)
  BY DEF NumericClaim
<1>3. t \in Int /\ t > v - Second
  BY <1>1, <1>2, ReadNotLater, ReadToTheSecond
<1>4. now >= t - Leeway
  BY <1>1, <1>3, TimesAssumption DEF TooEarly
<1> QED
  BY <1>1, <1>3, <1>4, GoTimeAssumption

LEMMA StepInv == IInv /\ [Next]_vars => IInv'
<1> SUFFICES ASSUME IInv, [Next]_vars PROVE IInv'
  OBVIOUS
<1> USE DEF IInv
<1>1. CASE Tick
  BY <1>1, TimesAssumption
  DEF Tick, TypeOK, NoExpiredToken, NoEarlyToken, CertificateInv, OrderInv, Accepted, ReadAs,
      LifetimeOK, MaxValidForSeconds, ValidAfterOffsetSeconds
<1>2. CASE CheckTimeClaims
  <2>1. PICK exp \in NumericClaim(token.exp), nbf \in NumericClaim(token.nbf),
             iat \in NumericClaim(token.iat) :
          pc' = IF Expired(exp) \/ TooEarly(nbf) \/ TooEarly(iat) THEN "denied" ELSE "verified"
    BY <1>2 DEF CheckTimeClaims
  <2>2. /\ pc = "verifying" /\ verifiedAt' = now
        /\ UNCHANGED <<now, token, pol, issuedAt, cert>>
    BY <1>2 DEF CheckTimeClaims
  <2>3. now \in Nat /\ Start \in Nat /\ Start <= now
    BY TimesAssumption DEF TypeOK
  <2>4. TypeOK'
    BY <2>1, <2>2, <2>3 DEF TypeOK, LifetimeOK, MaxValidForSeconds
  <2>5. CASE pc' = "denied"
    BY <2>4, <2>5 DEF NoExpiredToken, NoEarlyToken, CertificateInv, OrderInv, Accepted
  <2>6. CASE pc' = "verified" /\ ~Expired(exp) /\ ~TooEarly(nbf) /\ ~TooEarly(iat)
    <3>1. NoExpiredToken'
      BY <2>2, <2>6, ExpiryRead, TimesAssumption DEF NoExpiredToken, Accepted
    <3>2. NoEarlyToken'
      <4>1. token.nbf \in Int \cup {Absent} /\ token.iat \in Int \cup {Absent}
        BY TimesAssumption DEF TypeOK
      <4>2. ReadAs(token.nbf) => now > token.nbf - Leeway - Second
        BY <2>6, <4>1, EarlyRead DEF ReadAs
      <4>3. ReadAs(token.iat) => now > token.iat - Leeway - Second
        BY <2>6, <4>1, EarlyRead DEF ReadAs
      <4> QED
        BY <2>2, <4>2, <4>3 DEF NoEarlyToken, ReadAs
    <3> QED
      BY <2>2, <2>3, <2>4, <2>6, <3>1, <3>2 DEF CertificateInv, OrderInv, Accepted
  <2> QED
    BY <2>1, <2>5, <2>6
<1>3. CASE Issue
  <2>1. /\ pc = "verified" /\ pc' = "issued" /\ issuedAt' = now
        /\ UNCHANGED <<now, token, pol, verifiedAt>>
        /\ cert' = [after |-> Uint64(UnixSeconds(now + Seconds(ValidAfterOffsetSeconds(pol)))),
                    before |-> Uint64(UnixSeconds(now + Seconds(pol.ttl)))]
    BY <1>3 DEF Issue, ValidAfter, ValidBefore
  <2>2. now \in Nat /\ Start \in Nat /\ Start <= now /\ pol \in Policies
    BY TimesAssumption DEF TypeOK
  <2>3. cert' \in [after : 0 .. (2 * HalfRange - 1), before : 0 .. (2 * HalfRange - 1)]
    <3>1. \A n \in Int : Uint64(UnixSeconds(now + Seconds(n))) \in 0 .. (2 * HalfRange - 1)
      BY <2>2, SecondsType, SecondsOrdered, Uint64Range
    <3> QED
      BY <2>1, <2>2, <3>1, PolicyTimes
  <2>4. TypeOK'
    BY <2>1, <2>2, <2>3 DEF TypeOK, LifetimeOK, MaxValidForSeconds
  <2>5. NoExpiredToken' /\ NoEarlyToken'
    BY <2>1 DEF NoExpiredToken, NoEarlyToken, Accepted, ReadAs
  <2>6. CertificateInv'
    BY <2>1 DEF CertificateInv, ValidAfterOffsetSeconds
  <2>7. OrderInv'
    BY <2>1 DEF OrderInv, Accepted
  <2> QED
    BY <2>4, <2>5, <2>6, <2>7
<1>4. CASE UNCHANGED vars
  BY <1>4 DEF vars, TypeOK, NoExpiredToken, NoEarlyToken, CertificateInv, OrderInv, Accepted, ReadAs,
              LifetimeOK, MaxValidForSeconds, ValidAfterOffsetSeconds
<1> QED
  BY <1>1, <1>2, <1>3, <1>4 DEF Next

LEMMA Invariance == Spec => []IInv
  BY InitInv, StepInv, PTL DEF Spec

----------------------------------------------------------------------------
(* The certificate, on any server, whatever its clock *)

\* A lifetime that time.Duration can hold is not wrapped.
LEMMA LifetimeFits ==
    ASSUME TypeOK, Representable(pol)
    PROVE  LET ttl == pol.ttl
               max == MaxValidForSeconds(pol)
           IN /\ ttl \in Nat \ {0} /\ max \in Nat /\ ttl * Second \in Nat /\ max * Second \in Nat
              /\ ttl * Second <= max * Second /\ max * Second < HalfRange
              /\ Seconds(ttl) = ttl * Second
<1> DEFINE ttl == pol.ttl
           max == MaxValidForSeconds(pol)
<1>1. ttl \in Int /\ max \in Int /\ 0 < ttl /\ ttl <= max
  BY PolicyTimes DEF TypeOK, LifetimeOK
<1>2. max * Second < HalfRange
  BY DEF Representable
<1> HIDE DEF ttl, max
<1>3. /\ 0 * Second <= ttl * Second /\ ttl * Second <= max * Second
      /\ ttl * Second \in Int /\ max * Second \in Int
  BY <1>1, TimesOrdered
<1>4. 0 <= ttl * Second /\ ttl * Second \in Int64
  BY <1>2, <1>3, GoTimeAssumption DEF Int64
<1>5. Seconds(ttl) = ttl * Second
  BY <1>4, WrapFits DEF Seconds
<1> QED
  BY <1>1, <1>2, <1>3, <1>4, <1>5 DEF ttl, max

LEMMA DeadAt ==
    ASSUME IInv, pc = "issued", Representable(pol), NEW t \in Int,
           t >= issuedAt + MaxValidForSeconds(pol) * Second
    PROVE  ~Accepts(cert, t)
<1> DEFINE ttl == pol.ttl
           max == MaxValidForSeconds(pol)
           before == issuedAt + ttl * Second
<1>1. /\ ttl * Second \in Nat /\ max * Second \in Nat /\ ttl * Second <= max * Second
      /\ Seconds(ttl) = ttl * Second
  BY LifetimeFits DEF IInv
<1>2. issuedAt \in Nat
  BY TimesAssumption DEF IInv, TypeOK
<1>3. cert.before = Uint64(UnixSeconds(before))
  BY <1>1 DEF IInv, CertificateInv
<1>4. before \in Nat /\ before <= t
  BY <1>1, <1>2
<1> HIDE DEF before
<1>5. cert.before <= UnixSeconds(before) /\ cert.before \in Int /\ UnixSeconds(before) \in Int
  BY <1>3, <1>4, SecondsNatural, Uint64NotMore, Uint64Range
<1>6. UnixSeconds(before) <= UnixSeconds(t) /\ UnixSeconds(t) \in Int
  BY <1>4, SecondsOrdered
<1> QED
  BY <1>5, <1>6 DEF Accepts

LEMMA AliveAt ==
    ASSUME IInv, pc = "issued", Representable(pol), NEW skew \in Int,
           issuedAt + ValidAfterOffsetSeconds(pol) * Second >= 0,
           skew >= ValidAfterOffsetSeconds(pol) * Second, skew <= (pol.ttl - 1) * Second
    PROVE  Accepts(cert, issuedAt + skew)
<1> DEFINE ttl == pol.ttl
           offset == ValidAfterOffsetSeconds(pol)
           after == issuedAt + offset * Second
           before == issuedAt + ttl * Second
           last == issuedAt + (ttl - 1) * Second
<1>1. /\ ttl \in Nat \ {0} /\ ttl * Second \in Nat /\ ttl * Second < HalfRange
      /\ Seconds(ttl) = ttl * Second
  BY LifetimeFits, GoTimeAssumption DEF IInv
<1>2. issuedAt \in Nat /\ issuedAt < HalfRange /\ HalfRange \in Nat
  BY TimesAssumption, GoTimeAssumption DEF IInv, TypeOK
<1>3. offset \in Int /\ offset * Second \in Int
  BY PolicyTimes, TimesOrdered DEF IInv, TypeOK
<1>4. (ttl - 1) * Second \in Int /\ (ttl - 1) * Second <= ttl * Second
  BY <1>1, TimesOrdered
<1>5. Seconds(offset) = offset * Second
  <2>1. offset * Second \in Int64
    BY <1>1, <1>2, <1>3, <1>4 DEF Int64
  <2> QED
    BY <2>1, WrapFits DEF Seconds
<1>6. after \in 0 .. (2 * HalfRange - 1) /\ before \in 0 .. (2 * HalfRange - 1)
  BY <1>1, <1>2, <1>3, <1>4
<1>7. cert.after = Uint64(UnixSeconds(after)) /\ cert.before = Uint64(UnixSeconds(before))
  BY <1>1, <1>5 DEF IInv, CertificateInv
<1>8. UnixSeconds(before) = UnixSeconds(last) + 1
  <2>1. before = last + 1 * Second
    BY <1>1, <1>2, GoTimeAssumption
  <2> QED
    BY <1>2, <1>4, <2>1, SecondsAdd
<1>9. after <= issuedAt + skew /\ issuedAt + skew <= last /\ last \in Int /\ 0 <= issuedAt + skew
  BY <1>2, <1>3, <1>4
<1> HIDE DEF after, before, last
<1>10. cert.after = UnixSeconds(after) /\ cert.before = UnixSeconds(before)
  <2>1. \A x \in 0 .. (2 * HalfRange - 1) : Uint64(UnixSeconds(x)) = UnixSeconds(x)
    <3> SUFFICES ASSUME NEW x \in 0 .. (2 * HalfRange - 1)
                 PROVE  Uint64(UnixSeconds(x)) = UnixSeconds(x)
      OBVIOUS
    <3>1. UnixSeconds(x) \in 0 .. (2 * HalfRange - 1)
      BY <1>2, SecondsNatural
    <3> QED
      BY <3>1, Uint64Fits
  <2> QED
    BY <1>6, <1>7, <2>1
<1>11. /\ UnixSeconds(after) <= UnixSeconds(issuedAt + skew)
       /\ UnixSeconds(issuedAt + skew) <= UnixSeconds(last)
       /\ UnixSeconds(issuedAt + skew) \in Int /\ UnixSeconds(last) \in Int
  BY <1>2, <1>6, <1>9, SecondsOrdered
<1> QED
  BY <1>8, <1>9, <1>10, <1>11 DEF Accepts

----------------------------------------------------------------------------
(* Theorems *)

\* Server.Sign's times keep their types, and every interval is one of uint64s.
THEOREM TimesTypeCorrect == Spec => []TypeOK
  BY Invariance, PTL DEF IInv

\* checkTimeClaims lets no token pass later than the leeway after its exp, for
\* every number a JWT may carry and every way to convert it.
THEOREM NoExpiredTokenPasses == Spec => []NoExpiredToken
  BY Invariance, PTL DEF IInv

\* checkTimeClaims holds a token to its nbf and iat, if a time.Time can.
THEOREM NoEarlyTokenPasses == Spec => []NoEarlyToken
  BY Invariance, PTL DEF IInv

\* Server.Sign and issuer.Issue: after max_valid_for_seconds a certificate is
\* dead on every server whose clock shows that time, whatever the offset.
THEOREM CertificatesDie == Spec => []DeadWithinTheMaximum
<1>1. IInv => DeadWithinTheMaximum
  BY DeadAt, TimesAssumption DEF DeadWithinTheMaximum, IInv, TypeOK
<1> QED
  BY <1>1, Invariance, PTL

\* Server.Sign and issuer.Issue: sshd accepts a certificate on every server
\* whose clock is within the offset and the lifetime of the server's.
THEOREM CertificatesWork == Spec => []WorksInItsInterval
<1>1. IInv => WorksInItsInterval
  BY AliveAt, TimesAssumption DEF WorksInItsInterval
<1> QED
  BY <1>1, Invariance, PTL

\* From checkTimeClaims to sshd: a certificate outlives the token it was issued
\* for by the leeway, the ceiling and the handler's own delay at most.
THEOREM TokensBoundCertificates == Spec => []TokenBoundsCertificate
<1>1. IInv => TokenBoundsCertificate
  <2> SUFFICES ASSUME IInv, pc = "issued", Representable(pol),
                      now >= token.exp + Leeway + MaxValidForSeconds(pol) * Second + (issuedAt - verifiedAt)
               PROVE  ~Accepts(cert, now)
    BY DEF TokenBoundsCertificate
  <2>1. token.exp \in Int /\ verifiedAt <= token.exp + Leeway
    BY TimesAssumption DEF IInv, TypeOK, NoExpiredToken, Accepted
  <2>2. /\ now \in Nat /\ issuedAt \in Nat /\ verifiedAt \in Nat /\ Leeway \in Nat
        /\ MaxValidForSeconds(pol) * Second \in Nat
    BY LifetimeFits, TimesAssumption DEF IInv, TypeOK
  <2>3. now >= issuedAt + MaxValidForSeconds(pol) * Second
    BY <2>1, <2>2
  <2> QED
    BY <2>2, <2>3, DeadAt
<1> QED
  BY <1>1, Invariance, PTL
=============================================================================
