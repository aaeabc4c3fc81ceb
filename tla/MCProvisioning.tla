--------------------------- MODULE MCProvisioning ---------------------------
(***************************************************************************)
(* Two operators.  Mints 1 and 2 come from the token script, with          *)
(* different decimals; mint 3 is a Token-2022 mint that the program takes  *)
(* only once its admin lists it.  The first operator holds the admin key   *)
(* and names three mints, one of them twice and out of order; the second   *)
(* works on single tokens and pairs.                                       *)
(***************************************************************************)
EXTENDS Provisioning

CONSTANTS o1, o2

Settings(spacing, trade, protocol, fund) ==
    [kind |-> "admin",
     settings |-> [spacing |-> spacing, trade |-> trade,
                   protocol |-> protocol, fund |-> fund]]

MCDecimals == 1 :> 0 @@ 2 :> 2
MCExisting ==
    3 :> [kind |-> "mint", by |-> "elsewhere", program |-> "token2022",
          decimals |-> 1]

Pools(mints, price) == [kind |-> "pools", mints |-> mints, price |-> price]

Ensure == Settings(1, 1, 2, 2)
Repair ==
    {[kind |-> "tokens", mints |-> <<1, 2>>, apply |-> TRUE],
     [kind |-> "tokens", mints |-> <<2>>, apply |-> TRUE],
     [kind |-> "flow", pair |-> <<2, 1>>, price |-> <<3, 1>>],
     Pools(<<1, 3>>, <<5, 4>>), Pools(<<2, 3>>, <<5, 4>>)}

MCCommands ==
    o1 :> {Ensure, Settings(1, 1, 2, 1), Pools(<<3, 1, 2, 1>>, <<5, 4>>)}
    @@ o2 :> Repair \cup
             {Ensure, [kind |-> "tokens", mints |-> <<1>>, apply |-> FALSE]}

MCRepeated == o1 :> {Ensure} @@ o2 :> Repair
=============================================================================
