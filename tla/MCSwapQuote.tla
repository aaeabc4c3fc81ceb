--------------------------- MODULE MCSwapQuote ---------------------------
EXTENDS SwapQuote

\* A wide position, a narrow one inside it, and one apart from both that
\* leaves a gap and fills an array further off.
MCPositions ==
    {[lower |-> 2, upper |-> 6, liquidity |-> 1],
     [lower |-> 3, upper |-> 5, liquidity |-> 2],
     [lower |-> 7, upper |-> 8, liquidity |-> 1]}

\* Either mint of the pair may keep a quarter of every transfer.
MCTaxes == {[in |-> 4, out |-> 0], [in |-> 0, out |-> 4]}
=============================================================================
