---------------------------- MODULE MCPosition ----------------------------
EXTENDS Position, TLC

\* Below, at the lower tick, inside and above the range of the position.
MCPrices == {0, 2, 3, 7}

\* Aligned, to be aligned, and too narrow for a tick.
MCRanges == {[lower |-> 2, upper |-> 6], [lower |-> 3, upper |-> 5],
             [lower |-> 4, upper |-> 4]}

\* Mint 0 keeps a quarter of every transfer.
MCTax == (0 :> 4) @@ (1 :> 0)
=============================================================================
