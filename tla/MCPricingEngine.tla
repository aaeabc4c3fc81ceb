-------------------------- MODULE MCPricingEngine ---------------------------
(***************************************************************************)
(* A lagged underlying, a cross and a basket over a feed that stamps and   *)
(* one that may not, a peg and a gbm.  The clock runs long enough for the  *)
(* lag to be passed twice and for the peg to be due a second time; three   *)
(* observations let a leg move again after the basket was rebased, and age *)
(* two samples of the lag between two evaluations.                         *)
(*                                                                         *)
(* The fixed-point prices the engine publishes are checked here over small *)
(* mantissas, with widths small enough to overflow.                        *)
(***************************************************************************)
EXTENDS PricingEngine, PriceMath

MCInstruments == {"lagged", "cross", "basket", "peg", "gbm"}

MCKind == [lagged |-> "underlying", cross |-> "cross", basket |-> "basket",
           peg |-> "timed", gbm |-> "timed"]

MCLegs == [lagged |-> <<"pyth">>, cross |-> <<"pyth", "coingecko">>,
           basket |-> <<"coingecko", "pyth">>, peg |-> <<>>, gbm |-> <<>>]

MCWeights == [basket |-> <<2, 1>>]

\* The lagged price is scaled so that a price of 0 turns negative, which the
\* transform behind the lag refuses; a cross of 0 cannot be inverted.
MCTransforms ==
    [lagged |-> <<[kind |-> "scale", factor |-> <<2, 1>>, offset |-> <<-1, 1>>],
                  [kind |-> "lag", ticks |-> 2],
                  [kind |-> "beta", beta |-> 2, anchor |-> <<1, 2>>,
                   initial |-> <<3, 1>>]>>,
     cross |-> <<[kind |-> "invert"]>>,
     basket |-> <<>>, peg |-> <<>>, gbm |-> <<>>]

MCInterval == [i \in MCInstruments |-> IF i = "peg" THEN 4 ELSE 1]

-----------------------------------------------------------------------------
Mantissas == -130 .. 130
Expos == -3 .. 3
Decimals == [units : Mantissas, scale : 0 .. 2]

IsPrice(p) == "mantissa" \in DOMAIN p
IsDecimal(d) == "units" \in DOMAIN d

\* Two prices, or a decimal and a price, are the same number.
SameNumber(m, e, n, k) == m * 10 ^ (e + 4) = n * 10 ^ (k + 4)

\* What was written is read back as the same number, unless the text has an
\* exponent, which from_str refuses.
ASSUME DisplayThenParse ==
    \A m \in Mantissas, e \in Expos :
        LET read == Parsed(Shown(NewPrice(m, e)))
        IN IsPrice(read) => SameNumber(read.mantissa, read.expo, m, e)

\* Scaling down in two steps is scaling down at once: truncation, unlike
\* rounding to the nearest, does not depend on the way.  (A factor that does
\* not fit the mantissa is refused, though the result would be 0.)
ASSUME ScalingComposes ==
    \A m \in Mantissas, e \in Expos : \A f \in e .. 3 : \A g \in f .. 3 :
        LET p == NewPrice(m, e)
            q == CheckedScale(p, f)
            atOnce == CheckedScale(p, g)
        IN IsPrice(q) /\ IsPrice(atOnce) => CheckedScale(q, g) = atOnce

\* A decimal that from_decimal takes is the same number again after
\* to_decimal if the exponent is fine enough, and no price is lost.
ASSUME DecimalRoundTrip ==
    /\ \A d \in Decimals, e \in Expos :
         LET p == FromDecimal(d, e)
             back == IF IsPrice(p) THEN ToDecimal(p) ELSE Overflow
         IN IsDecimal(back) /\ e <= -d.scale =>
                SameNumber(back.units, -back.scale, d.units, -d.scale)
    /\ \A m \in Mantissas, e \in Expos :
         LET d == ToDecimal(NewPrice(m, e))
         IN IsDecimal(d) => FromDecimal(d, e) = NewPrice(m, e)

\* The two ways into a price agree except on ties, and then differ by one.
ASSUME FloatsAndDecimals ==
    \A d \in Decimals, e \in Expos :
        LET p == FromDecimal(d, e)
            q == FromF64(d, e)
        IN IsPrice(p) /\ IsPrice(q) =>
               /\ AbsOf(p.mantissa - q.mantissa) <= 1
               /\ AbsOf(p.mantissa) <= AbsOf(q.mantissa)

\* The cases of the unit tests that fit the width.
ASSUME TestCases ==
    /\ CheckedScale(NewPrice(1532, -2), -3) = Overflow
    /\ CheckedScale(NewPrice(153, -2), -3) = NewPrice(1530, -3)
    /\ CheckedScale(NewPrice(1533, -2), -1) = NewPrice(153, -1)
    /\ FromDecimal([units |-> 415, scale |-> 2], -1) = NewPrice(42, -1)
    /\ FromDecimal([units |-> 425, scale |-> 2], -1) = NewPrice(42, -1)
    /\ FromDecimal([units |-> -425, scale |-> 2], -1) = NewPrice(-42, -1)
    /\ FromF64([units |-> -425, scale |-> 2], -1) = NewPrice(-43, -1)
=============================================================================
