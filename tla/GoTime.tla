------------------------------- MODULE GoTime ------------------------------
(***************************************************************************)
(* Go's int64, uint64, float64 conversions and package time (external), as *)
(* far as the code relies on them, for integers of any width.  A time.Time *)
(* is a number of nanoseconds since 1970, a time.Duration one of           *)
(* nanoseconds; a float64 is given in nanoseconds, too, if it is a time.   *)
(***************************************************************************)
EXTENDS Integers

CONSTANTS
    HalfRange,    \* an int64 is in -HalfRange .. HalfRange - 1 (2^63)
    Second,       \* time.Second (10^9)
    Epoch         \* seconds from the year 1, where time.Time starts, to 1970

ASSUME GoTimeAssumption ==
    /\ HalfRange \in Nat /\ Second \in Nat \ {0}
    /\ Epoch \in Nat /\ Epoch < HalfRange

Int64 == (-HalfRange) .. (HalfRange - 1)
Wrap(x) == ((x + HalfRange) % (2 * HalfRange)) - HalfRange

\* uint64(x).  (Mutant: it keeps the sign.)
Signed(x) == x
Uint64(x) == x % (2 * HalfRange)

\* float64 to int64: the fraction is dropped; what an integer out of range
\* becomes is up to the processor (amd64: the smallest one; arm64: the nearest).
\* (Mutant: the fraction is rounded up.)
RoundedUp(v) == -((-v) \div Second)
Truncated(v) == IF v >= 0 THEN v \div Second ELSE -((-v) \div Second)
Integers64(v) ==
    IF Truncated(v) \in Int64 THEN {Truncated(v)}
    ELSE {-HalfRange, IF v < 0 THEN -HalfRange ELSE HalfRange - 1}

\* time.Unix(sec, 0) counts from the year 1, and wraps; t.Unix() counts back.
Unix(sec) == (Wrap(sec + Epoch) - Epoch) * Second
UnixSeconds(t) == t \div Second

\* time.Duration(n) * time.Second wraps; t.Add(d) stops at the last second.
Seconds(n) == Wrap(n * Second)
LastTime == (HalfRange - Epoch) * Second - 1
Add(t, d) == IF t + d <= LastTime THEN t + d ELSE LastTime
=============================================================================
