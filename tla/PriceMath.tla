------------------------------ MODULE PriceMath ------------------------------
(***************************************************************************)
(* mtm-math: the fixed-point price mantissa * 10^expo in which everything  *)
(* is published, its rounding, scaling and text form.                      *)
(*                                                                         *)
(* A Decimal is units * 10^-scale.  The operators that only depend on a    *)
(* power of ten take that power as an argument, so that what they do is    *)
(* proved for every positive factor.                                       *)
(***************************************************************************)
EXTENDS Integers

CONSTANTS
    MaxMantissa,   \* i128::MAX
    MaxDecimal     \* Decimal::MAX, 96 bits

ASSUME WidthAssumption == MaxDecimal \in Nat /\ MaxMantissa \in Nat /\ MaxDecimal <= MaxMantissa

Overflow == [error |-> "Overflow"]
NewPrice(mantissa, expo) == [mantissa |-> mantissa, expo |-> expo]

FitsMantissa(m) == -MaxMantissa - 1 <= m /\ m <= MaxMantissa
FitsDecimal(d) == -MaxDecimal <= d /\ d <= MaxDecimal

AbsOf(m) == IF m < 0 THEN -m ELSE m
SignOf(m) == IF m < 0 THEN -1 ELSE 1

-----------------------------------------------------------------------------
\* The division of i128: toward zero.
Truncated(m, factor) == SignOf(m) * (AbsOf(m) \div factor)

\* Decimal::round: to the nearest integer, a tie to the even one.
Rounded(m, factor) ==
    LET below == m \div factor
        rest  == m % factor
    IN IF 2 * rest < factor \/ (2 * rest = factor /\ below % 2 = 0)
       THEN below ELSE below + 1

-----------------------------------------------------------------------------
\* Price::checked_scale, upwards: to a smaller unit.
ScaledUp(m, factor) == m * factor

\* Price::checked_scale
CheckedScale(p, newExpo) ==
    LET factor == 10 ^ AbsOf(p.expo - newExpo)
    IN IF p.expo = newExpo THEN p
       ELSE IF ~FitsMantissa(factor) THEN Overflow
       ELSE IF p.expo < newExpo THEN NewPrice(Truncated(p.mantissa, factor), newExpo)
       ELSE IF ~FitsMantissa(ScaledUp(p.mantissa, factor)) THEN Overflow
       ELSE NewPrice(ScaledUp(p.mantissa, factor), newExpo)

\* The mantissa after apply_bps.
WithBps(m, bps) == Truncated(m * (10000 + bps), 10000)

\* Price::apply_bps
ApplyBps(p, bps) ==
    IF FitsMantissa(p.mantissa * (10000 + bps))
    THEN NewPrice(WithBps(p.mantissa, bps), p.expo)
    ELSE Overflow

-----------------------------------------------------------------------------
\* Price::from_decimal.  The multiplication drops digits of the fraction
\* before it gives up, so only the integer part has to fit; that these digits
\* may be rounded twice is left out.
FromDecimal(value, expo) ==
    LET factor  == 10 ^ AbsOf(expo)
        above   == IF expo <= 0 THEN value.units * factor ELSE value.units
        below   == IF expo <= 0 THEN 10 ^ value.scale ELSE 10 ^ value.scale * factor
    IN IF ~FitsDecimal(factor) \/ ~FitsDecimal(Truncated(above, below))
       THEN Overflow
       ELSE NewPrice(Rounded(above, below), expo)

\* f64::round: to the nearest integer, a tie away from zero.
RoundedAway(m, factor) == SignOf(m) * ((2 * AbsOf(m) + factor) \div (2 * factor))

\* Price::from_f64_lossy of a finite float, given by the decimal it is nearest
\* to; what the float itself loses is left out.
FromF64(value, expo) ==
    LET above == value.units * 10 ^ (IF expo <= 0 THEN -expo ELSE 0)
        below == 10 ^ (value.scale + IF expo > 0 THEN expo ELSE 0)
        m     == RoundedAway(above, below)
    IN IF AbsOf(Truncated(above, below)) >= MaxMantissa THEN Overflow
       ELSE NewPrice(m, expo)

\* Price::to_decimal, as [units, scale]; MAX_SCALE of Decimal is 28.
ToDecimal(p) ==
    LET units == IF p.expo > 0 THEN p.mantissa * 10 ^ p.expo ELSE p.mantissa
    IN IF ~FitsDecimal(units) \/ -p.expo > 28 THEN Overflow
       ELSE [units |-> units, scale |-> IF p.expo > 0 THEN 0 ELSE -p.expo]

-----------------------------------------------------------------------------
\* The digits before and after the point of a number with a fraction.
Digits(m, factor) ==
    [sign |-> SignOf(m), int |-> AbsOf(m) \div factor, frac |-> AbsOf(m) % factor]

\* What Display writes: the digits and how many of them follow the point, or
\* the form with an exponent where a power of ten does not fit.
Shown(p) ==
    LET factor == 10 ^ AbsOf(p.expo)
        whole  == p.mantissa * factor
    IN IF ~FitsMantissa(factor) \/ (p.expo >= 0 /\ ~FitsMantissa(whole))
       THEN [form |-> "exponent", mantissa |-> p.mantissa, expo |-> p.expo]
       ELSE [form |-> "digits", width |-> IF p.expo >= 0 THEN 0 ELSE -p.expo,
             digits |-> IF p.expo >= 0 THEN Digits(whole, 1)
                        ELSE Digits(p.mantissa, factor)]

\* The mantissa that parsing the digits gives: they are joined without point.
JoinedDigits(d, factor) == d.sign * (d.int * factor + d.frac)

\* Price::from_str of a text that Display wrote.
Parsed(text) ==
    IF text.form = "exponent" THEN [error |-> "Parse"]
    ELSE LET m == JoinedDigits(text.digits, 10 ^ text.width)
         IN IF FitsMantissa(m) THEN NewPrice(m, -text.width) ELSE [error |-> "Parse"]
=============================================================================
