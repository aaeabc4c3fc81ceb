---------------------------- MODULE TokenAmounts ----------------------------
(***************************************************************************)
(* Raw token amounts of raydium-clmm-client: the slippage allowed on a     *)
(* quote and the fee a Token-2022 mint keeps of every transfer.            *)
(***************************************************************************)
EXTENDS Integers, FiniteSets, FiniteSetsExt

CONSTANT SlippageBps   \* client.slippage_bps

\* RaydiumClmmClient::new refuses more.
ASSUME SlippageAssumption == SlippageBps \in 0 .. 10000

CeilDiv(a, b) == (a + b - 1) \div b

\* Mutant: the slippage is taken for a per-mille value.
SlippagePerMille(amount, increase) ==
    IF increase THEN CeilDiv(amount * (1000 + SlippageBps), 1000)
    ELSE IF SlippageBps > 1000 THEN 0 ELSE (amount * (1000 - SlippageBps)) \div 1000

\* apply_slippage
ApplySlippage(amount, increase) ==
    IF increase THEN CeilDiv(amount * (10000 + SlippageBps), 10000)
    ELSE (amount * (10000 - SlippageBps)) \div 10000

\* transfer_fee: what the mint keeps of a transfer of amount
TransferFee(tax, amount) == IF tax = 0 THEN 0 ELSE CeilDiv(amount, tax)

\* inverse_transfer_fee: what to add so that the net amount arrives
InverseTransferFee(tax, net) ==
    Min({f \in 0 .. net + 1 : net + f - TransferFee(tax, net + f) >= net})
=============================================================================
