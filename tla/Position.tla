----------------------------- MODULE Position -----------------------------
(***************************************************************************)
(* The life of one CLMM position: open, increase, decrease, collect and    *)
(* close of RaydiumClmmClient.  Every call reads the position and the pool, *)
(* derives limits for the instruction and submits it, while others move    *)
(* the price and earlier calls with an ambiguous answer may still land.    *)
(*                                                                         *)
(* Prices and ticks are points.  Liquidity L between two prices is worth   *)
(* L / Scale tokens per point, token 0 above the price and 1 below it; the *)
(* program rounds deposits up and withdrawals down.                        *)
(***************************************************************************)
EXTENDS TokenAmounts

CONSTANTS
    Prices,      \* points the pool's price visits
    Spacing,     \* bundle.tick_spacing
    Ranges,      \* price ranges callers ask for, [lower, upper]
    Amounts,     \* raw amounts callers ask for
    Tax,         \* transfer fee of each mint: one token in so many, 0 for none
    Funds,       \* what the payer owns of each mint
    Scale,       \* liquidity worth one token per point
    MaxMoves,    \* bound: price moves
    MaxCalls     \* bound: calls

Mint == {0, 1}

ASSUME PositionAssumption ==
    /\ Spacing \in Nat \ {0} /\ Scale \in Nat \ {0} /\ Funds \in Nat
    /\ Prices \subseteq Int
    /\ Ranges \subseteq [lower : Int, upper : Int]
    /\ Amounts \subseteq Nat \ {0}
    /\ \A m \in Mint : Tax[m] \in Nat \ {1}

VARIABLES
    price,     \* pool.sqrt_price_x64 and tick_current
    position,  \* the position on chain
    wallet,    \* the payer's token accounts
    late,      \* sent instructions with an ambiguous answer
    mint,      \* what the caller knows of the position NFT
    doubt,     \* some deposit ended with an ambiguous answer
    moves, calls,
    request,   \* arguments of the call
    phase,     \* the await the call is suspended in
    view,      \* load_position
    bundle,    \* load_pool
    order,     \* the instruction
    outcome    \* the answer of the last call

world == <<price, position, wallet, late, moves>>
vars == <<price, position, wallet, late, mint, doubt, moves, calls, request,
          phase, view, bundle, order, outcome>>

NoPosition ==
    [status |-> "none", lower |-> 0, upper |-> 0, liquidity |-> 0,
     pending |-> FALSE, owed |-> FALSE]   \* fees grown since, fees_owed

NoRange == [lower |-> 0, upper |-> 0]
NoRequest == [op |-> "none", input |-> 0, amount |-> 0, range |-> NoRange]
NoBundle == [price |-> 0, wallet |-> [m \in Mint |-> 0]]
NoOrder ==
    [request |-> NoRequest, lower |-> 0, upper |-> 0, liquidity |-> 0,
     max |-> [m \in Mint |-> 0], min |-> [m \in Mint |-> 0]]

\* "drain" is decrease_liquidity with amount None.
Deposits == {"open", "increase"}
Withdrawals == {"decrease", "drain", "collect"}
Request ==
    {NoRequest}
      \cup [op : {"open"}, input : Mint, amount : Amounts, range : Ranges]
      \cup [op : {"increase", "decrease"}, input : Mint, amount : Amounts,
            range : {NoRange}]
      \cup [op : {"drain", "collect", "close"}, input : {0}, amount : {0},
            range : {NoRange}]

Init ==
    /\ price \in Prices
    /\ position = NoPosition
    /\ wallet = [m \in Mint |-> Funds]
    /\ late = {}
    /\ mint = "no"
    /\ doubt = FALSE
    /\ moves = 0
    /\ calls = 0
    /\ request = NoRequest
    /\ phase = "idle"
    /\ view = NoPosition
    /\ bundle = NoBundle
    /\ order = NoOrder
    /\ outcome = "none"

-----------------------------------------------------------------------------
(***************************************************************************)
(* liquidity_math of the Raydium interface (external)                      *)
(***************************************************************************)
Clamp(p, lower, upper) ==
    IF p < lower THEN lower ELSE IF p > upper THEN upper ELSE p

\* Points of the range that hold mint m at price p.
Span(m, p, lower, upper) ==
    IF m = 0 THEN upper - Clamp(p, lower, upper) ELSE Clamp(p, lower, upper) - lower

\* get_liquidity_from_single_amount_0 and _1
LiquidityFrom(m, p, lower, upper, amount) ==
    LET span == Span(m, p, lower, upper) IN
    IF span = 0 THEN 0 ELSE (amount * Scale) \div span

\* get_delta_amounts_signed for a deposit and for a withdrawal
AmountIn(m, p, lower, upper, liquidity) ==
    CeilDiv(liquidity * Span(m, p, lower, upper), Scale)
AmountOut(m, p, lower, upper, liquidity) ==
    (liquidity * Span(m, p, lower, upper)) \div Scale

-----------------------------------------------------------------------------
(***************************************************************************)
(* Quotes                                                                  *)
(***************************************************************************)
\* position_quote: the lower tick rounds down, the upper one up.
TickRange(range) ==
    [lower |-> (range.lower \div Spacing) * Spacing,
     upper |-> CeilDiv(range.upper, Spacing) * Spacing]

Gross(m, net) == net + InverseTransferFee(Tax[m], net)
NetOf(m, gross) == gross - TransferFee(Tax[m], gross)

\* Mutant: the caller's amount is taken for the other mint.
OtherInput(m) == 1 - m

\* input.mint == bundle.mint_0.key selects the formula
InputMint(m) == m

\* position_quote_for_ticks
DepositQuote(r, b, range) ==
    LET liquidity == LiquidityFrom(InputMint(r.input), b.price, range.lower,
                                   range.upper, r.amount)
        Limit(m) == Gross(m, ApplySlippage(AmountIn(m, b.price, range.lower,
                                                  range.upper, liquidity), TRUE))
    IN  [NoOrder EXCEPT
          !.request = r, !.lower = range.lower, !.upper = range.upper,
          !.liquidity = liquidity,
          !.max = [m \in Mint |-> Limit(m)]]

\* Mutant: the minimum is taken of what the pool sends, not of what arrives.
MinimumBeforeFee(m, amount) == ApplySlippage(amount, FALSE)

\* min_before_fee less its transfer_fee
Minimum(m, amount) == NetOf(m, ApplySlippage(amount, FALSE))

\* decrease_quote
WithdrawQuote(r, b, v, liquidity) ==
    [NoOrder EXCEPT
      !.request = r, !.lower = v.lower, !.upper = v.upper,
      !.liquidity = liquidity,
      !.min = [m \in Mint |->
                 Minimum(m, AmountOut(m, b.price, v.lower, v.upper, liquidity))]]

\* Mutant: the last unit of liquidity is left in the position.
LiquidityAlmostAll(r, b, v) ==
    IF r.op = "drain" /\ v.liquidity > 0 THEN v.liquidity - 1
    ELSE IF r.op = "decrease"
      THEN LiquidityFrom(r.input, b.price, v.lower, v.upper, r.amount)
    ELSE 0

\* params.amount: None is all the liquidity of the position as read.
LiquidityAsked(r, b, v) ==
    CASE r.op = "decrease" ->
           LiquidityFrom(InputMint(r.input), b.price, v.lower, v.upper, r.amount)
      [] r.op = "drain"   -> v.liquidity
      [] r.op = "collect" -> 0

-----------------------------------------------------------------------------
(***************************************************************************)
(* The program (external): what an instruction does and when it may        *)
(***************************************************************************)
Charge(o, m) == Gross(m, AmountIn(m, price, o.lower, o.upper, o.liquidity))
Payout(o, m) == NetOf(m, AmountOut(m, price, o.lower, o.upper, o.liquidity))

Executes(o) ==
    CASE o.request.op \in Deposits ->
           /\ position.status = IF o.request.op = "open" THEN "none" ELSE "open"
           /\ \A m \in Mint : Charge(o, m) <= o.max[m] /\ Charge(o, m) <= wallet[m]
      [] o.request.op \in Withdrawals ->
           /\ position.status = "open"
           /\ o.liquidity <= position.liquidity
           /\ \A m \in Mint : Payout(o, m) >= o.min[m]
      [] o.request.op = "close" ->
           /\ position.status = "open"
           /\ position.liquidity = 0 /\ ~position.owed

\* Fees are settled by every change of liquidity and paid by a withdrawal.
Perform(o) ==
    CASE o.request.op = "open" ->
           /\ position' = [NoPosition EXCEPT !.status = "open", !.lower = o.lower,
                             !.upper = o.upper, !.liquidity = o.liquidity]
           /\ wallet' = [m \in Mint |-> wallet[m] - Charge(o, m)]
      [] o.request.op = "increase" ->
           /\ position' = [position EXCEPT !.liquidity = @ + o.liquidity,
                             !.owed = @ \/ position.pending, !.pending = FALSE]
           /\ wallet' = [m \in Mint |-> wallet[m] - Charge(o, m)]
      [] o.request.op \in Withdrawals ->
           /\ position' = [position EXCEPT !.liquidity = @ - o.liquidity,
                             !.owed = FALSE, !.pending = FALSE]
           /\ wallet' = [m \in Mint |-> wallet[m] + Payout(o, m)]
      [] o.request.op = "close" ->
           /\ position' = [position EXCEPT !.status = "closed"]
           /\ UNCHANGED wallet

-----------------------------------------------------------------------------
(***************************************************************************)
(* The calls                                                               *)
(***************************************************************************)
\* What the call read is dropped when it returns.
Return(r) ==
    /\ phase' = "idle"
    /\ outcome' = r
    /\ view' = NoPosition
    /\ bundle' = NoBundle
    /\ order' = NoOrder

GoTo(next) ==
    /\ phase' = next
    /\ UNCHANGED outcome

\* A caller that has no position NFT opens one; then it may call anything.
Begin ==
    /\ phase = "idle"
    /\ calls < MaxCalls
    /\ \E r \in Request \ {NoRequest} :
         /\ IF mint = "no" THEN r.op = "open" ELSE mint = "yes" /\ r.op # "open"
         /\ request' = r
         /\ GoTo(IF r.op = "open" THEN "pool" ELSE "position")
    /\ calls' = calls + 1
    /\ UNCHANGED <<world, mint, doubt, view, bundle, order>>

\* load_position, with close_position's check of what it read; fees and rewards
\* are one flag, owed.
LoadPosition ==
    /\ phase = "position"
    /\ \/ Return("Rpc")
       \/ position.status # "open" /\ Return("NotFound")
       \/ /\ position.status = "open"
          /\ IF request.op = "close" /\ (position.liquidity # 0 \/ position.owed)
               THEN Return("InvalidInput")
               ELSE /\ GoTo("pool")
                    /\ view' = position
                    /\ UNCHANGED <<bundle, order>>
    /\ UNCHANGED <<world, mint, doubt, calls, request>>

\* A deposit, from the pool just read: position_quote(_for_ticks), then
\* ensure_position_balances.
QuoteDeposit(b) ==
    LET range == IF request.op = "open" THEN TickRange(request.range)
                 ELSE [lower |-> view.lower, upper |-> view.upper]
        o == DepositQuote(request, b, range)
    IN
    IF range.lower >= range.upper THEN Return("InvalidInput")
    ELSE IF o.liquidity = 0 THEN Return("Quote")
    ELSE IF \E m \in Mint : b.wallet[m] < o.max[m] THEN Return("InsufficientBalance")
    ELSE /\ GoTo("arrays")
         /\ bundle' = b
         /\ order' = o
         /\ UNCHANGED view

\* A withdrawal must resolve to some liquidity and no more than there is;
\* collect_position is the withdrawal of none.
QuoteWithdrawal(b) ==
    LET liquidity == LiquidityAsked(request, b, view) IN
    IF request.op = "decrease" /\ liquidity = 0 THEN Return("Quote")
    ELSE IF /\ request.op # "collect"
            /\ liquidity = 0 \/ liquidity > view.liquidity
      THEN Return("InvalidInput")
      ELSE /\ GoTo("arrays")
           /\ bundle' = b
           /\ order' = WithdrawQuote(request, b, view, liquidity)
           /\ UNCHANGED view

\* load_pool reads the pool first.
LoadPool ==
    /\ phase = "pool"
    /\ \/ Return("Rpc")
       \/ /\ GoTo("balances")
          /\ bundle' = [NoBundle EXCEPT !.price = price]
          /\ UNCHANGED <<view, order>>
    /\ UNCHANGED <<world, mint, doubt, calls, request>>

\* Its last read is the payer's balances; what follows works on both reads up
\* to the next await.  close_position only looks whether the pool is sound.
LoadBalances ==
    /\ phase = "balances"
    /\ LET b == [bundle EXCEPT !.wallet = wallet] IN
       \/ Return("Rpc")
       \/ request.op \in Deposits /\ QuoteDeposit(b)
       \/ request.op \in Withdrawals /\ QuoteWithdrawal(b)
       \/ /\ request.op = "close"
          /\ GoTo("simulate")
          /\ bundle' = b
          /\ order' = [NoOrder EXCEPT !.request = request]
          /\ UNCHANGED view
    /\ UNCHANGED <<world, mint, doubt, calls, request>>

\* validate_position_tick_arrays, and reward_accounts for a withdrawal.
LoadArrays ==
    /\ phase = "arrays"
    /\ Return("Rpc") \/ (GoTo("simulate") /\ UNCHANGED <<view, bundle, order>>)
    /\ UNCHANGED <<world, mint, doubt, calls, request>>

\* submit: an instruction that fails in the simulation is not sent.
Simulate ==
    /\ phase = "simulate"
    /\ \/ Return("Simulation")
       \/ /\ Executes(order)
          /\ GoTo("sent")
          /\ UNCHANGED <<view, bundle, order>>
    /\ UNCHANGED <<world, mint, doubt, calls, request>>

\* The answer to open_position carries the NFT mint made for it; any other end
\* of a call that was sent leaves the caller without.
Learn(answer) ==
    /\ mint' = IF request.op # "open" THEN mint
               ELSE IF answer = "Ok" THEN "yes"
               ELSE IF answer = "Ambiguous" THEN "lost" ELSE mint
    /\ doubt' = (doubt \/ (answer = "Ambiguous" /\ request.op \in Deposits))

\* The transaction executes, fails, or its fate stays unknown.
Submitted ==
    /\ phase = "sent"
    /\ \/ /\ Executes(order)
          /\ Perform(order)
          /\ Return("Ok")
          /\ Learn("Ok")
          /\ UNCHANGED late
       \/ /\ ~Executes(order)
          /\ Return("Failed")
          /\ Learn("Failed")
          /\ UNCHANGED <<position, wallet, late>>
       \/ /\ Return("Ambiguous")
          /\ Learn("Ambiguous")
          /\ late' = late \cup {order}
          /\ UNCHANGED <<position, wallet>>
    /\ UNCHANGED <<price, moves, calls, request>>

Call ==
    \/ Begin \/ LoadPosition \/ LoadPool \/ LoadBalances \/ LoadArrays
    \/ Simulate \/ Submitted

\* A transaction with an ambiguous answer lands after all, or never does.
LandLate ==
    /\ \E o \in late :
         /\ late' = late \ {o}
         /\ IF Executes(o) THEN Perform(o) ELSE UNCHANGED <<position, wallet>>
    /\ UNCHANGED <<price, moves, mint, doubt, calls, request, phase, view, bundle,
                   order, outcome>>

\* Others trade: the price moves and the position may earn fees.
Trade ==
    /\ moves < MaxMoves
    /\ price' \in Prices \ {price}
    /\ position' \in
         {position} \cup
           (IF position.liquidity > 0
              THEN {[position EXCEPT !.pending = TRUE]} ELSE {})
    /\ moves' = moves + 1
    /\ UNCHANGED <<wallet, late, mint, doubt, calls, request, phase, view, bundle,
                   order, outcome>>

Next == Call \/ LandLate \/ Trade

Spec == Init /\ [][Next]_vars

-----------------------------------------------------------------------------
(***************************************************************************)
(* Properties                                                              *)
(***************************************************************************)
Submitting == phase \in {"simulate", "sent"}

\* When nothing moved between the reads and the execution, the limits derived
\* by the client satisfy the program: with rounding, slippage and the fee of
\* the mint taken in the right order, on either side of the price range.
UnmovedExecutes ==
    LET read == IF request.op = "open" THEN NoPosition ELSE view
        unmoved == position = read /\ bundle = [price |-> price, wallet |-> wallet]
    IN  Submitting /\ unmoved => Executes(order)

\* Whatever the price does until a deposit lands, even one given up for lost,
\* it takes no more of the caller's mint than the amount asked for, the
\* slippage allowed and the fee of the mint.
DepositWithinRequest ==
    \A o \in late \cup (IF Submitting THEN {order} ELSE {}) :
      LET r == o.request IN
      r.op \in Deposits /\ Executes(o) =>
        Charge(o, r.input) <= Gross(r.input, ApplySlippage(r.amount, TRUE))

\* "None removes all liquidity", and with it the fees: after the call succeeds
\* the position is ready to be closed, whatever the price did since the read.
\* An earlier deposit of unknown fate may have landed in between.
DrainedIsClosable ==
    outcome = "Ok" /\ phase = "idle" /\ request.op = "drain" /\ ~doubt =>
        position.liquidity = 0 /\ ~position.owed /\ ~position.pending
=============================================================================
