--------------------------- MODULE Position_proofs ---------------------------
(***************************************************************************)
(* Proofs about the life of a position, for every price, range, amount,    *)
(* slippage and transfer fee.                                              *)
(***************************************************************************)
EXTENDS Position, Arithmetic_proofs

-----------------------------------------------------------------------------
(***************************************************************************)
(* What has to be sent, and what arrives                                   *)
(***************************************************************************)
\* What has to be sent so that net arrives; more for more.
LEMMA GrossTypes ==
    ASSUME NEW m \in Mint, NEW net \in Nat
    PROVE  /\ Gross(m, net) \in Nat /\ net <= Gross(m, net)
           /\ Gross(m, net) - TransferFee(Tax[m], Gross(m, net)) >= net
           /\ \A g \in Nat : net <= g /\ g < Gross(m, net)
                             => g - TransferFee(Tax[m], g) < net
<1>1. Tax[m] \in Nat \ {1}
  BY PositionAssumption
<1>2. PICK gross \in Nat :
        /\ gross = net + InverseTransferFee(Tax[m], net)
        /\ net <= gross /\ gross - TransferFee(Tax[m], gross) >= net
        /\ \A g \in Nat :
             net <= g /\ g < gross => g - TransferFee(Tax[m], g) < net
  BY <1>1, GrossOf
<1>3. gross = Gross(m, net)
  BY <1>2 DEF Gross
<1>4. QED
  BY <1>2, <1>3, Zenon

LEMMA GrossMonotone ==
    ASSUME NEW m \in Mint, NEW a \in Nat, NEW b \in Nat, a <= b
    PROVE  Gross(m, a) <= Gross(m, b)
<1>1. Tax[m] \in Nat \ {1}
  BY PositionAssumption
<1>2. CASE a = b
  BY <1>2, GrossTypes
<1>3. CASE a < b
  <2>1. a + InverseTransferFee(Tax[m], a) < b + InverseTransferFee(Tax[m], b)
    BY <1>1, <1>3, GrossGrows
  <2>2. QED
    BY <2>1, GrossTypes DEF Gross
<1>4. QED
  BY <1>2, <1>3

\* What arrives of a transfer; no less of more.
LEMMA NetMonotone ==
    ASSUME NEW m \in Mint, NEW g \in Nat, NEW h \in Nat, g <= h
    PROVE  NetOf(m, g) \in Nat /\ NetOf(m, h) \in Nat /\ NetOf(m, g) <= NetOf(m, h)
<1>1. PICK tax \in Nat : tax = Tax[m]
  BY PositionAssumption
<1>2. TransferFee(tax, g) \in 0 .. g /\ TransferFee(tax, h) \in 0 .. h
  BY TransferFeeIsPart
<1>3. CASE tax = 0
  BY <1>1, <1>3 DEF NetOf, TransferFee
<1>4. CASE tax # 0
  <2>1. PICK p \in Nat : p = CeilDiv(g, tax) /\ g <= tax * p
    BY <1>4, CeilDivIsLeast
  <2>2. PICK q \in Nat : q = CeilDiv(h, tax) /\ tax * q < h + tax
    BY <1>4, CeilDivIsLeast
  <2>3. PICK d \in Nat : d = h - g
    OBVIOUS
  <2>4. /\ tax * (p + d + 1) = tax * p + tax * d + tax
        /\ tax * d >= d /\ tax * p \in Int /\ tax * d \in Int /\ tax * q \in Int
    BY <1>4
  <2>5. tax * q < tax * (p + d + 1)
    BY <2>1, <2>2, <2>3, <2>4
  <2>6. q < p + d + 1
    BY <1>4, <2>5, Cancel
  <2>7. TransferFee(tax, g) = p /\ TransferFee(tax, h) = q
    BY <1>4, <2>1, <2>2 DEF TransferFee
  <2>8. QED
    BY <1>1, <1>2, <2>3, <2>6, <2>7 DEF NetOf
<1>5. QED
  BY <1>3, <1>4

-----------------------------------------------------------------------------
(***************************************************************************)
(* Quotes                                                                  *)
(***************************************************************************)
LEMMA SpanTypes ==
    ASSUME NEW m \in Mint, NEW p \in Int, NEW lower \in Int, NEW upper \in Int,
           lower <= upper
    PROVE  Span(m, p, lower, upper) \in Nat
  BY DEF Span, Clamp, Mint

LEMMA AmountTypes ==
    ASSUME NEW m \in Mint, NEW p \in Int, NEW lower \in Int, NEW upper \in Int,
           lower <= upper, NEW liquidity \in Nat
    PROVE  /\ AmountIn(m, p, lower, upper, liquidity) \in Nat
           /\ AmountOut(m, p, lower, upper, liquidity) \in Nat
<1>1. PICK span \in Nat : span = Span(m, p, lower, upper)
  BY SpanTypes
<1>2. liquidity * span \in Nat /\ Scale \in Nat \ {0}
  BY PositionAssumption
<1>3. CeilDiv(liquidity * span, Scale) \in Nat
  BY <1>2, CeilDivIsLeast
<1>4. (liquidity * span) \div Scale \in Nat
  BY <1>2
<1>5. QED
  BY <1>1, <1>3, <1>4 DEF AmountIn, AmountOut

\* The liquidity an amount buys costs no more than the amount.
LEMMA BoughtWithin ==
    ASSUME NEW m \in Mint, NEW p \in Int, NEW lower \in Int, NEW upper \in Int,
           lower <= upper, NEW amount \in Nat
    PROVE  LET liquidity == LiquidityFrom(m, p, lower, upper, amount)
           IN /\ liquidity \in Nat
              /\ AmountIn(m, p, lower, upper, liquidity) <= amount
<1>1. PICK span \in Nat : span = Span(m, p, lower, upper)
  BY SpanTypes
<1>2. PICK total \in Nat : total = amount * Scale /\ total = Scale * amount
  BY PositionAssumption
<1>3. PICK liquidity \in Nat :
          /\ liquidity = LiquidityFrom(m, p, lower, upper, amount)
          /\ liquidity * span <= total
  <2>1. CASE span = 0
    BY <1>1, <2>1 DEF LiquidityFrom
  <2>2. CASE span # 0
    <3>1. PICK q \in Nat : q = total \div span /\ q * span <= total
      BY <2>2
    <3>2. QED
      BY <1>1, <1>2, <2>2, <3>1 DEF LiquidityFrom
  <2>3. QED
    BY <2>1, <2>2
<1>4. liquidity * span \in Nat /\ Scale \in Nat \ {0}
  BY PositionAssumption
<1>5. CeilDiv(liquidity * span, Scale) <= amount
  BY <1>2, <1>3, <1>4, CeilDivWithin
<1>6. QED
  BY <1>1, <1>3, <1>5 DEF AmountIn

-----------------------------------------------------------------------------
(***************************************************************************)
(* The inductive invariant                                                 *)
(*                                                                         *)
(* What a call knows at the moment it submits was derived several awaits   *)
(* earlier, from reads that no longer hold: the invariant ties the limits  *)
(* of the instruction to the request they were derived from (Limited), to  *)
(* the reads themselves (Quoted) and, for the one amount that nobody but   *)
(* the caller can raise, to the position on chain (Draining).              *)
(***************************************************************************)
Positions ==
    {p \in [status : {"none", "open", "closed"}, lower : Int, upper : Int,
            liquidity : Nat, pending : BOOLEAN, owed : BOOLEAN] :
        p.lower <= p.upper}
Bundles == [price : Int, wallet : [Mint -> Int]]
Orders ==
    {o \in [request : Request, lower : Int, upper : Int, liquidity : Nat,
            max : [Mint -> Int], min : [Mint -> Int]] :
        o.lower <= o.upper}

Phases == {"idle", "position", "pool", "balances", "arrays", "simulate", "sent"}
Ordered == {"arrays", "simulate", "sent"}
Viewed == {"pool", "balances"} \cup Ordered

Types ==
    /\ price \in Int
    /\ position \in Positions /\ view \in Positions
    /\ wallet \in [Mint -> Int]
    /\ bundle \in Bundles
    /\ order \in Orders /\ late \subseteq Orders
    /\ request \in Request
    /\ phase \in Phases
    /\ doubt \in BOOLEAN

\* The instruction on its way is the one of the request.
Named ==
    /\ phase # "idle" => request # NoRequest
    /\ phase \in Ordered => order.request = request
    /\ phase = "position" => request.op # "open"
    /\ \A o \in late : o.request # NoRequest

\* The input limit of a deposit, out of the arguments of its call alone.
WithinRequest(o) ==
    o.request.op \in Deposits =>
        o.max[o.request.input] <=
            Gross(o.request.input, ApplySlippage(o.request.amount, TRUE))
Limited == WithinRequest(order) /\ \A o \in late : WithinRequest(o)

\* What the limits of an instruction are worth against the reads b.
Covers(o, b) ==
    \A m \in Mint :
        /\ Gross(m, AmountIn(m, b.price, o.lower, o.upper, o.liquidity)) <= o.max[m]
        /\ o.max[m] <= b.wallet[m]
Demands(o, b) ==
    \A m \in Mint :
        o.min[m] <= NetOf(m, AmountOut(m, b.price, o.lower, o.upper, o.liquidity))

Quoted ==
    /\ phase \in Viewed /\ request.op # "open" => view.status = "open"
    /\ phase \in Viewed /\ request.op = "close" => view.liquidity = 0 /\ ~view.owed
    /\ phase \in Ordered /\ request.op \in Deposits => Covers(order, bundle)
    /\ phase \in Ordered /\ request.op \in Withdrawals =>
          order.liquidity <= view.liquidity /\ Demands(order, bundle)

\* Without a deposit of unknown fate, nothing raises the liquidity a call has
\* read, and a position that was drained stays empty.
Draining ==
    ~doubt =>
        /\ \A o \in late : o.request.op \notin Deposits
        /\ request.op = "drain" /\ phase \in Viewed =>
              position.liquidity <= view.liquidity
        /\ request.op = "drain" /\ phase \in Ordered =>
              order.liquidity = view.liquidity
        /\ outcome = "Ok" /\ phase = "idle" /\ request.op = "drain" =>
              position.liquidity = 0 /\ ~position.owed /\ ~position.pending

IndInv == Types /\ Named /\ Limited /\ Quoted /\ Draining

-----------------------------------------------------------------------------
(***************************************************************************)
(* Requests, quotes and instructions                                       *)
(***************************************************************************)
Ops == Deposits \cup Withdrawals \cup {"close"}

LEMMA RequestTypes ==
    ASSUME NEW r \in Request
    PROVE  /\ r.input \in Mint /\ r.amount \in Nat
           /\ r # NoRequest => r.op \in Ops
           /\ r.op = "open" => r.range.lower \in Int /\ r.range.upper \in Int
<1>1. Amounts \subseteq Nat /\ Ranges \subseteq [lower : Int, upper : Int]
  BY PositionAssumption
<1>2. CASE r = NoRequest
  BY <1>2 DEF NoRequest, NoRange, Mint
<1>3. CASE r \in [op : {"open"}, input : Mint, amount : Amounts, range : Ranges]
  <2>1. r.op = "open" /\ r.input \in Mint /\ r.amount \in Amounts /\ r.range \in Ranges
    BY <1>3
  <2>2. QED
    BY <1>1, <2>1 DEF Ops, Deposits
<1>4. CASE r \in [op : {"increase", "decrease"}, input : Mint, amount : Amounts,
                  range : {NoRange}]
  <2>1. r.op \in {"increase", "decrease"} /\ r.input \in Mint /\ r.amount \in Amounts
    BY <1>4
  <2>2. QED
    BY <1>1, <2>1 DEF Ops, Deposits, Withdrawals
<1>5. CASE r \in [op : {"drain", "collect", "close"}, input : {0}, amount : {0},
                  range : {NoRange}]
  <2>1. r.op \in {"drain", "collect", "close"} /\ r.input = 0 /\ r.amount = 0
    BY <1>5
  <2>2. QED
    BY <2>1 DEF Ops, Withdrawals, Mint
<1>6. QED
  BY <1>2, <1>3, <1>4, <1>5 DEF Request

\* The ticks of a range are points, whatever the range.
LEMMA TickRangeTypes ==
    ASSUME NEW range, range.lower \in Int, range.upper \in Int
    PROVE  TickRange(range).lower \in Int /\ TickRange(range).upper \in Int
<1>1. Spacing \in Nat \ {0}
  BY PositionAssumption
<1>2. (range.lower \div Spacing) * Spacing \in Int
  BY <1>1
<1>3. ((range.upper + Spacing - 1) \div Spacing) * Spacing \in Int
  <2>1. PICK n \in Int : n = range.upper + Spacing - 1
    BY <1>1
  <2>2. (n \div Spacing) * Spacing \in Int
    BY <1>1
  <2>3. QED
    BY <2>1, <2>2
<1>4. QED
  BY <1>2, <1>3 DEF TickRange, CeilDiv

\* The limits of a deposit: each covers what the instruction costs at the
\* price read, and the one of the caller's mint is bounded by his amount.
LEMMA DepositQuoteLimits ==
    ASSUME NEW r \in Request, r.op \in Deposits,
           NEW b \in Bundles, NEW range, range.lower \in Int, range.upper \in Int,
           range.lower < range.upper,
           NEW o, o = DepositQuote(r, b, range)
    PROVE  /\ o \in Orders /\ o.request = r
           /\ WithinRequest(o)
           /\ \A m \in Mint :
                 Gross(m, AmountIn(m, b.price, o.lower, o.upper, o.liquidity))
                     <= o.max[m]
<1>1. r.input \in Mint /\ r.amount \in Nat /\ b.price \in Int
  BY RequestTypes DEF Bundles
<1>2. PICK liquidity \in Nat :
          /\ liquidity = LiquidityFrom(r.input, b.price, range.lower, range.upper,
                                       r.amount)
          /\ AmountIn(r.input, b.price, range.lower, range.upper, liquidity)
                <= r.amount
  <2>1. range.lower <= range.upper
    OBVIOUS
  <2>2. QED
    BY <1>1, <2>1, BoughtWithin
<1>3. range.lower \in Int /\ range.upper \in Int /\ range.lower <= range.upper
  OBVIOUS
<1>4. PICK max : max = [m \in Mint |->
          Gross(m, ApplySlippage(AmountIn(m, b.price, range.lower, range.upper,
                                          liquidity), TRUE))]
  OBVIOUS
<1>5. o = [request |-> r, lower |-> range.lower, upper |-> range.upper,
           liquidity |-> liquidity, max |-> max, min |-> [m \in Mint |-> 0]]
  BY <1>2, <1>4 DEF DepositQuote, NoOrder, InputMint
<1>6. ASSUME NEW m \in Mint
      PROVE  /\ max[m] \in Int
             /\ Gross(m, AmountIn(m, b.price, range.lower, range.upper, liquidity))
                   <= max[m]
             /\ m = r.input => max[m] <= Gross(m, ApplySlippage(r.amount, TRUE))
  <2>1. PICK a \in Nat :
            a = AmountIn(m, b.price, range.lower, range.upper, liquidity)
    BY <1>1, <1>2, <1>3, AmountTypes
  <2>2. PICK s \in Nat : s = ApplySlippage(a, TRUE) /\ a <= s
    BY MaximumTypes
  <2>3. max[m] = Gross(m, s)
    BY <1>4, <2>1, <2>2
  <2>4. Gross(m, s) \in Nat /\ Gross(m, a) <= Gross(m, s)
    BY <2>2, GrossTypes, GrossMonotone
  <2>5. ASSUME m = r.input
        PROVE  Gross(m, s) <= Gross(m, ApplySlippage(r.amount, TRUE))
    <3>1. a <= r.amount
      BY <1>2, <2>1, <2>5
    <3>2. PICK t \in Nat : t = ApplySlippage(r.amount, TRUE)
      BY <1>1, MaximumTypes
    <3>3. s <= t
      BY <1>1, <2>2, <3>1, <3>2, SlippageMonotone
    <3>4. QED
      BY <3>2, <3>3, GrossMonotone
  <2>6. max[m] \in Int
    BY <2>3, <2>4
  <2>7. Gross(m, AmountIn(m, b.price, range.lower, range.upper, liquidity)) <= max[m]
    BY <2>1, <2>3, <2>4, Zenon
  <2>8. m = r.input => max[m] <= Gross(m, ApplySlippage(r.amount, TRUE))
    BY <2>3, <2>5, Zenon
  <2>9. QED
    BY <2>6, <2>7, <2>8
<1>7. max \in [Mint -> Int] /\ [m \in Mint |-> 0] \in [Mint -> Int]
  <2>1. max = [m \in Mint |-> max[m]]
    BY <1>4, Zenon
  <2>2. \A m \in Mint : max[m] \in Int
    BY <1>6
  <2>3. QED
    BY <2>1, <2>2
<1>8. o \in Orders
  BY <1>2, <1>3, <1>5, <1>7 DEF Orders
<1>9. WithinRequest(o)
  <2>1. o.request = r /\ o.max = max
    BY <1>5
  <2>2. QED
    BY <1>1, <1>6, <2>1 DEF WithinRequest
<1>10. ASSUME NEW m \in Mint
       PROVE  Gross(m, AmountIn(m, b.price, o.lower, o.upper, o.liquidity)) <= o.max[m]
  <2>1. /\ o.lower = range.lower /\ o.upper = range.upper
        /\ o.liquidity = liquidity /\ o.max = max
    BY <1>5
  <2>2. QED
    BY <1>6, <2>1
<1>11. o.request = r
  BY <1>5
<1>12. QED
  BY <1>8, <1>9, <1>10, <1>11

\* The limits of a withdrawal: none exceeds what arrives at the price read.
LEMMA WithdrawQuoteLimits ==
    ASSUME NEW r \in Request, r.op \in Withdrawals, NEW b \in Bundles,
           NEW v \in Positions, NEW liquidity \in Nat,
           NEW o, o = WithdrawQuote(r, b, v, liquidity)
    PROVE  /\ o \in Orders /\ o.request = r /\ o.liquidity = liquidity
           /\ WithinRequest(o)
           /\ Demands(o, b)
<1>1. b.price \in Int /\ v.lower \in Int /\ v.upper \in Int /\ v.lower <= v.upper
  BY DEF Bundles, Positions
<1>2. PICK min : min = [m \in Mint |->
          Minimum(m, AmountOut(m, b.price, v.lower, v.upper, liquidity))]
  OBVIOUS
<1>3. o = [request |-> r, lower |-> v.lower, upper |-> v.upper,
           liquidity |-> liquidity, max |-> [m \in Mint |-> 0], min |-> min]
  BY <1>2 DEF WithdrawQuote, NoOrder
<1>4. ASSUME NEW m \in Mint
      PROVE  /\ min[m] \in Int
             /\ min[m] <= NetOf(m, AmountOut(m, b.price, v.lower, v.upper, liquidity))
  <2>1. PICK a \in Nat : a = AmountOut(m, b.price, v.lower, v.upper, liquidity)
    BY <1>1, AmountTypes
  <2>2. PICK s \in Nat : s = ApplySlippage(a, FALSE) /\ s <= a
    BY MinimumTypes
  <2>3. NetOf(m, s) \in Nat /\ NetOf(m, s) <= NetOf(m, a)
    BY <2>2, NetMonotone
  <2>4. min[m] = NetOf(m, s)
    BY <1>2, <2>1, <2>2 DEF Minimum
  <2>5. QED
    BY <2>1, <2>3, <2>4
<1>5. min \in [Mint -> Int] /\ [m \in Mint |-> 0] \in [Mint -> Int]
  BY <1>2, <1>4
<1>6. o \in Orders
  BY <1>1, <1>3, <1>5 DEF Orders
<1>7. WithinRequest(o)
  BY <1>3 DEF WithinRequest, Deposits, Withdrawals
<1>8. Demands(o, b)
  BY <1>3, <1>4 DEF Demands
<1>9. QED
  BY <1>3, <1>6, <1>7, <1>8

\* What an instruction takes and pays.
LEMMA ChargeTypes ==
    ASSUME Types, NEW o \in Orders, NEW m \in Mint
    PROVE  Charge(o, m) \in Nat /\ Payout(o, m) \in Nat
<1>1. /\ price \in Int /\ o.lower \in Int /\ o.upper \in Int /\ o.lower <= o.upper
      /\ o.liquidity \in Nat
  BY DEF Types, Orders
<1>2. PICK in, out \in Nat :
          /\ in = AmountIn(m, price, o.lower, o.upper, o.liquidity)
          /\ out = AmountOut(m, price, o.lower, o.upper, o.liquidity)
  BY <1>1, AmountTypes
<1>3. Gross(m, in) \in Nat /\ NetOf(m, out) \in Nat
  BY GrossTypes, NetMonotone
<1>4. QED
  BY <1>2, <1>3 DEF Charge, Payout

\* An instruction that executes leaves a position; only a deposit adds to it,
\* and a withdrawal settles the fees.
LEMMA PerformTypes ==
    ASSUME Types, NEW o \in Orders, o.request # NoRequest, Executes(o), Perform(o)
    PROVE  /\ position' \in Positions /\ wallet' \in [Mint -> Int]
           /\ o.request.op \notin Deposits =>
                 position'.liquidity <= position.liquidity
           /\ o.request.op \in Withdrawals =>
                 /\ position'.liquidity = position.liquidity - o.liquidity
                 /\ ~position'.owed /\ ~position'.pending
           /\ o.request.op \notin Deposits /\ ~position.owed /\ ~position.pending =>
                 ~position'.owed /\ ~position'.pending
<1>1. o.request.op \in Ops
  <2>1. o.request \in Request
    BY DEF Orders
  <2>2. QED
    BY <2>1, RequestTypes
<1>2. /\ position \in [status : {"none", "open", "closed"}, lower : Int, upper : Int,
                       liquidity : Nat, pending : BOOLEAN, owed : BOOLEAN]
      /\ position.lower <= position.upper
      /\ wallet \in [Mint -> Int]
  BY DEF Types, Positions
<1>3. \A m \in Mint : Charge(o, m) \in Nat /\ Payout(o, m) \in Nat
  BY ChargeTypes
<1>4. o.lower \in Int /\ o.upper \in Int /\ o.lower <= o.upper /\ o.liquidity \in Nat
  BY DEF Orders
<1>5. CASE o.request.op = "open"
  <2>1. /\ position' = [NoPosition EXCEPT !.status = "open", !.lower = o.lower,
                             !.upper = o.upper, !.liquidity = o.liquidity]
        /\ wallet' = [m \in Mint |-> wallet[m] - Charge(o, m)]
    BY <1>5 DEF Perform, Withdrawals
  <2>2. position' = [status |-> "open", lower |-> o.lower, upper |-> o.upper,
                     liquidity |-> o.liquidity, pending |-> FALSE, owed |-> FALSE]
    BY <2>1 DEF NoPosition
  <2>3. position' \in Positions
    BY <1>4, <2>2 DEF Positions
  <2>4. wallet' \in [Mint -> Int]
    BY <1>2, <1>3, <2>1
  <2>5. QED
    BY <1>5, <2>3, <2>4 DEF Deposits, Withdrawals
<1>6. CASE o.request.op = "increase"
  <2>1. /\ position' = [position EXCEPT !.liquidity = @ + o.liquidity,
                             !.owed = @ \/ position.pending, !.pending = FALSE]
        /\ wallet' = [m \in Mint |-> wallet[m] - Charge(o, m)]
    BY <1>6 DEF Perform, Withdrawals
  <2>2. PICK owed \in BOOLEAN : owed = (position.owed \/ position.pending)
    OBVIOUS
  <2>3. position' = [status |-> position.status, lower |-> position.lower,
                     upper |-> position.upper,
                     liquidity |-> position.liquidity + o.liquidity,
                     pending |-> FALSE, owed |-> owed]
    BY <1>2, <2>1, <2>2
  <2>4. position.liquidity + o.liquidity \in Nat
    BY <1>2, <1>4
  <2>5. position' \in Positions
    BY <1>2, <2>3, <2>4 DEF Positions
  <2>6. wallet' \in [Mint -> Int]
    BY <1>2, <1>3, <2>1
  <2>7. QED
    BY <1>6, <2>5, <2>6 DEF Deposits, Withdrawals
<1>7. CASE o.request.op \in Withdrawals
  <2>1. /\ position' = [position EXCEPT !.liquidity = @ - o.liquidity,
                             !.owed = FALSE, !.pending = FALSE]
        /\ wallet' = [m \in Mint |-> wallet[m] + Payout(o, m)]
    BY <1>7 DEF Perform, Withdrawals
  <2>2. o.liquidity <= position.liquidity
    BY <1>7 DEF Executes, Withdrawals, Deposits
  <2>3. position.liquidity - o.liquidity \in Nat
    BY <1>2, <1>4, <2>2
  <2>4. position' \in Positions
    BY <1>2, <2>1, <2>3 DEF Positions
  <2>5. wallet' \in [Mint -> Int]
    BY <1>2, <1>3, <2>1
  <2>6. /\ position'.liquidity = position.liquidity - o.liquidity
        /\ ~position'.owed /\ ~position'.pending
    BY <1>2, <2>1
  <2>7. position'.liquidity <= position.liquidity
    BY <1>2, <1>4, <2>6
  <2>8. QED
    BY <2>4, <2>5, <2>6, <2>7
<1>8. CASE o.request.op = "close"
  <2>1. position' = [position EXCEPT !.status = "closed"] /\ UNCHANGED wallet
    BY <1>8 DEF Perform, Withdrawals
  <2>2. position' \in Positions
    BY <1>2, <2>1 DEF Positions
  <2>3. /\ position'.liquidity = position.liquidity
        /\ position'.owed = position.owed /\ position'.pending = position.pending
    BY <1>2, <2>1
  <2>4. QED
    BY <1>2, <1>8, <2>1, <2>2, <2>3 DEF Withdrawals
<1>9. QED
  BY <1>1, <1>5, <1>6, <1>7, <1>8 DEF Ops, Deposits

-----------------------------------------------------------------------------
(***************************************************************************)
(* Every step keeps the invariant                                          *)
(***************************************************************************)
LEMMA NothingTypes ==
    /\ NoPosition \in Positions
    /\ NoBundle \in Bundles
    /\ NoOrder \in Orders /\ WithinRequest(NoOrder)
    /\ NoRequest \in Request
<1>1. NoRequest \in Request
  BY DEF Request
<1>2. NoPosition \in Positions
  BY DEF NoPosition, Positions
<1>3. [m \in Mint |-> 0] \in [Mint -> Int]
  OBVIOUS
<1>4. NoBundle \in Bundles
  BY <1>3 DEF NoBundle, Bundles
<1>5. NoOrder \in Orders
  BY <1>1, <1>3 DEF NoOrder, Orders
<1>6. WithinRequest(NoOrder)
  BY DEF NoOrder, WithinRequest, NoRequest, Deposits
<1>7. QED
  BY <1>1, <1>2, <1>4, <1>5, <1>6

LEMMA InitInv == Init => IndInv
<1> SUFFICES ASSUME Init PROVE IndInv
  OBVIOUS
<1>1. /\ price \in Int /\ position = NoPosition /\ view = NoPosition
      /\ wallet = [m \in Mint |-> Funds] /\ Funds \in Int
      /\ late = {} /\ doubt = FALSE /\ request = NoRequest /\ phase = "idle"
      /\ bundle = NoBundle /\ order = NoOrder /\ outcome = "none"
  BY PositionAssumption DEF Init
<1>2. wallet \in [Mint -> Int]
  BY <1>1
<1>3. Types
  BY <1>1, <1>2, NothingTypes DEF Types, Phases
<1>4. Named /\ Quoted /\ Draining
  BY <1>1 DEF Named, Quoted, Draining, Viewed, Ordered
<1>5. Limited
  BY <1>1, NothingTypes DEF Limited
<1>6. QED
  BY <1>3, <1>4, <1>5 DEF IndInv

\* A call that ends without success drops what it read and changes nothing.
LEMMA ReturnKeeps ==
    ASSUME IndInv, NEW r, r # "Ok", Return(r),
           UNCHANGED <<world, doubt, request>>
    PROVE  IndInv'
<1>1. /\ phase' = "idle" /\ outcome' = r /\ view' = NoPosition
      /\ bundle' = NoBundle /\ order' = NoOrder
      /\ price' = price /\ position' = position /\ wallet' = wallet /\ late' = late
      /\ doubt' = doubt /\ request' = request
  BY DEF Return, world
<1>2. Types'
  BY <1>1, NothingTypes DEF IndInv, Types, Phases
<1>3. Named'
  BY <1>1 DEF IndInv, Named, Ordered
<1>4. Limited'
  <2>1. WithinRequest(NoOrder) /\ \A o \in late : WithinRequest(o)
    BY NothingTypes DEF IndInv, Limited
  <2>2. QED
    BY <1>1, <2>1 DEF Limited
<1>5. Quoted' /\ Draining'
  BY <1>1 DEF IndInv, Quoted, Draining, Viewed, Ordered
<1>6. QED
  BY <1>2, <1>3, <1>4, <1>5 DEF IndInv

\* A call that goes on with what it has read and ordered.
LEMMA GoOnKeeps ==
    ASSUME IndInv, NEW next \in Viewed, GoTo(next),
           phase \in Viewed, next \in Ordered => phase \in Ordered,
           UNCHANGED <<world, doubt, request, view, order>>,
           bundle' \in Bundles, phase \in Ordered => bundle' = bundle,
           next \in Ordered \/ phase \notin Ordered
    PROVE  IndInv'
<1>1. /\ phase' = next /\ outcome' = outcome /\ view' = view /\ order' = order
      /\ price' = price /\ position' = position /\ wallet' = wallet /\ late' = late
      /\ doubt' = doubt /\ request' = request
  BY DEF GoTo, world
<1>2. Types'
  BY <1>1 DEF IndInv, Types, Phases, Viewed, Ordered
<1>3. Named'
  BY <1>1 DEF IndInv, Named, Ordered, Viewed
<1>4. Limited'
  BY <1>1 DEF IndInv, Limited
<1>5. Quoted'
  <2>1. CASE next \in Ordered
    <3>1. bundle' = bundle /\ phase \in Ordered
      BY <2>1
    <3>2. QED
      BY <1>1, <2>1, <3>1 DEF IndInv, Quoted
  <2>2. CASE next \notin Ordered
    BY <1>1, <2>2 DEF IndInv, Quoted
  <2>3. QED
    BY <2>1, <2>2
<1>6. Draining'
  BY <1>1 DEF IndInv, Draining, Viewed, Ordered
<1>7. QED
  BY <1>2, <1>3, <1>4, <1>5, <1>6 DEF IndInv

LEMMA BeginKeeps == IndInv /\ Begin => IndInv'
<1> SUFFICES ASSUME IndInv, Begin PROVE IndInv'
  OBVIOUS
<1>1. PICK r \in Request \ {NoRequest} :
          /\ request' = r
          /\ GoTo(IF r.op = "open" THEN "pool" ELSE "position")
          /\ UNCHANGED <<world, mint, doubt, view, bundle, order>>
          /\ phase = "idle"
  BY DEF Begin
<1>2. /\ phase' = (IF r.op = "open" THEN "pool" ELSE "position")
      /\ outcome' = outcome /\ view' = view /\ order' = order /\ bundle' = bundle
      /\ price' = price /\ position' = position /\ wallet' = wallet /\ late' = late
      /\ doubt' = doubt
  BY <1>1 DEF GoTo, world
<1>3. Types'
  BY <1>1, <1>2 DEF IndInv, Types, Phases
<1>4. Named'
  BY <1>1, <1>2 DEF IndInv, Named, Ordered
<1>5. Limited'
  BY <1>2 DEF IndInv, Limited
<1>6. Quoted' /\ Draining'
  BY <1>1, <1>2 DEF IndInv, Quoted, Draining, Viewed, Ordered
<1>7. QED
  BY <1>3, <1>4, <1>5, <1>6 DEF IndInv

LEMMA LoadPositionKeeps == IndInv /\ LoadPosition => IndInv'
<1> SUFFICES ASSUME IndInv, LoadPosition PROVE IndInv'
  OBVIOUS
<1>1. phase = "position" /\ UNCHANGED <<world, doubt, request>>
  BY DEF LoadPosition
<1>2. CASE Return("Rpc") \/ Return("NotFound") \/ Return("InvalidInput")
  BY <1>1, <1>2, ReturnKeeps
<1>3. CASE /\ position.status = "open"
           /\ ~(request.op = "close" /\ (position.liquidity # 0 \/ position.owed))
           /\ GoTo("pool") /\ view' = position /\ UNCHANGED <<bundle, order>>
  <2>1. /\ phase' = "pool" /\ outcome' = outcome /\ view' = position
        /\ order' = order /\ bundle' = bundle
        /\ price' = price /\ position' = position /\ wallet' = wallet /\ late' = late
        /\ doubt' = doubt /\ request' = request
    BY <1>1, <1>3 DEF GoTo, world
  <2>2. position \in Positions /\ position.liquidity <= position.liquidity
    BY DEF IndInv, Types, Positions
  <2>3. Types'
    BY <2>1, <2>2 DEF IndInv, Types, Phases
  <2>4. Named'
    BY <1>1, <2>1 DEF IndInv, Named, Ordered
  <2>5. Limited'
    BY <2>1 DEF IndInv, Limited
  <2>6. Quoted'
    BY <1>3, <2>1 DEF Quoted, Viewed, Ordered
  <2>7. Draining'
    BY <2>1, <2>2 DEF IndInv, Draining, Ordered
  <2>8. QED
    BY <2>3, <2>4, <2>5, <2>6, <2>7 DEF IndInv
<1>4. QED
  BY <1>2, <1>3 DEF LoadPosition

LEMMA LoadPoolKeeps == IndInv /\ LoadPool => IndInv'
<1> SUFFICES ASSUME IndInv, LoadPool PROVE IndInv'
  OBVIOUS
<1>1. phase = "pool" /\ UNCHANGED <<world, doubt, request>>
  BY DEF LoadPool
<1>2. CASE Return("Rpc")
  BY <1>1, <1>2, ReturnKeeps
<1>3. CASE /\ GoTo("balances")
           /\ bundle' = [NoBundle EXCEPT !.price = price]
           /\ UNCHANGED <<view, order>>
  <2>1. bundle' \in Bundles
    BY <1>3, NothingTypes DEF IndInv, Types, Bundles
  <2>2. phase \in Viewed /\ phase \notin Ordered
        /\ "balances" \in Viewed /\ "balances" \notin Ordered
    BY <1>1 DEF Viewed, Ordered
  <2>3. QED
    BY <1>1, <1>3, <2>1, <2>2, GoOnKeeps
<1>4. QED
  BY <1>2, <1>3 DEF LoadPool

\* A quoted instruction is one of the request, within its limits.
LEMMA OrderKeeps ==
    ASSUME IndInv, phase = "balances", GoTo("arrays"), UNCHANGED view,
           UNCHANGED <<world, doubt, request>>,
           NEW b \in Bundles, bundle' = b,
           NEW o \in Orders, order' = o, o.request = request, WithinRequest(o),
           request.op \in Deposits => Covers(o, b),
           request.op \in Withdrawals => o.liquidity <= view.liquidity /\ Demands(o, b),
           request.op = "drain" => o.liquidity = view.liquidity
    PROVE  IndInv'
<1>1. /\ phase' = "arrays" /\ outcome' = outcome /\ view' = view
      /\ price' = price /\ position' = position /\ wallet' = wallet /\ late' = late
      /\ doubt' = doubt /\ request' = request
  BY DEF GoTo, world
<1>2. Types'
  BY <1>1 DEF IndInv, Types, Phases
<1>3. Named'
  BY <1>1 DEF IndInv, Named, Ordered
<1>4. Limited'
  BY <1>1 DEF IndInv, Limited
<1>5. Quoted'
  BY <1>1 DEF IndInv, Quoted, Viewed, Ordered
<1>6. Draining'
  BY <1>1 DEF IndInv, Draining, Viewed, Ordered
<1>7. QED
  BY <1>2, <1>3, <1>4, <1>5, <1>6 DEF IndInv

LEMMA QuoteDepositKeeps ==
    ASSUME IndInv, phase = "balances", request.op \in Deposits,
           NEW b \in Bundles, QuoteDeposit(b),
           UNCHANGED <<world, doubt, request>>
    PROVE  IndInv'
<1>1. PICK range : range = IF request.op = "open" THEN TickRange(request.range)
                           ELSE [lower |-> view.lower, upper |-> view.upper]
  OBVIOUS
<1>2. PICK o : o = DepositQuote(request, b, range)
  OBVIOUS
<1>3. PICK r \in Request : r = request
  BY DEF IndInv, Types
<1>4. range.lower \in Int /\ range.upper \in Int
  <2>1. CASE request.op = "open"
    <3>1. PICK asked : asked = request.range
      OBVIOUS
    <3>2. asked.lower \in Int /\ asked.upper \in Int
      BY <1>3, <2>1, <3>1, RequestTypes
    <3>3. range = TickRange(asked)
      BY <1>1, <2>1, <3>1
    <3>4. QED
      BY <3>2, <3>3, TickRangeTypes
  <2>2. CASE request.op # "open"
    BY <1>1, <2>2 DEF IndInv, Types, Positions
  <2>3. QED
    BY <2>1, <2>2
<1>5. CASE Return("InvalidInput") \/ Return("Quote") \/ Return("InsufficientBalance")
  BY <1>5, ReturnKeeps
<1>6. CASE /\ ~(range.lower >= range.upper)
           /\ ~ \E m \in Mint : b.wallet[m] < o.max[m]
           /\ GoTo("arrays") /\ bundle' = b /\ order' = o /\ UNCHANGED view
  <2>1. range.lower < range.upper
    BY <1>4, <1>6
  <2>2. /\ o \in Orders /\ o.request = r /\ WithinRequest(o)
        /\ \A m \in Mint :
              Gross(m, AmountIn(m, b.price, o.lower, o.upper, o.liquidity)) <= o.max[m]
    BY <1>2, <1>3, <1>4, <2>1, DepositQuoteLimits
  <2>3. \A m \in Mint : o.max[m] <= b.wallet[m]
    <3>1. \A m \in Mint : o.max[m] \in Int /\ b.wallet[m] \in Int
      BY <2>2 DEF Orders, Bundles
    <3>2. QED
      BY <1>6, <3>1
  <2>4. Covers(o, b)
    BY <2>2, <2>3 DEF Covers
  <2>5. request.op \notin Withdrawals /\ request.op # "drain"
    BY DEF Deposits, Withdrawals
  <2>6. QED
    BY <1>3, <1>6, <2>2, <2>4, <2>5, OrderKeeps
<1>7. QED
  BY <1>1, <1>2, <1>5, <1>6 DEF QuoteDeposit

LEMMA QuoteWithdrawalKeeps ==
    ASSUME IndInv, phase = "balances", request.op \in Withdrawals,
           NEW b \in Bundles, QuoteWithdrawal(b),
           UNCHANGED <<world, doubt, request>>
    PROVE  IndInv'
<1>1. PICK r \in Request, v \in Positions : r = request /\ v = view
  BY DEF IndInv, Types
<1>2. PICK liquidity : liquidity = LiquidityAsked(r, b, v)
  OBVIOUS
<1>3. liquidity \in Nat /\ (r.op = "collect" => liquidity = 0)
      /\ (r.op = "drain" => liquidity = v.liquidity)
  <2>1. /\ r.input \in Mint /\ r.amount \in Nat /\ b.price \in Int
        /\ v.lower \in Int /\ v.upper \in Int /\ v.lower <= v.upper
        /\ v.liquidity \in Nat
    BY RequestTypes DEF Bundles, Positions
  <2>2. LiquidityFrom(r.input, b.price, v.lower, v.upper, r.amount) \in Nat
    BY <2>1, BoughtWithin
  <2>3. r.op \in Withdrawals
    BY <1>1
  <2>4. QED
    BY <1>2, <2>1, <2>2, <2>3 DEF LiquidityAsked, InputMint, Withdrawals
<1>4. PICK o : o = WithdrawQuote(r, b, v, liquidity)
  OBVIOUS
<1>5. /\ o \in Orders /\ o.request = r /\ o.liquidity = liquidity
      /\ WithinRequest(o) /\ Demands(o, b)
  BY <1>1, <1>3, <1>4, WithdrawQuoteLimits
<1>6. \/ Return("Quote") \/ Return("InvalidInput")
      \/ /\ r.op = "collect" \/ ~(liquidity > v.liquidity)
         /\ GoTo("arrays") /\ bundle' = b /\ order' = o /\ UNCHANGED view
  BY <1>1, <1>2, <1>4 DEF QuoteWithdrawal
<1>7. CASE Return("Quote") \/ Return("InvalidInput")
  BY <1>7, ReturnKeeps
<1>8. CASE /\ r.op = "collect" \/ ~(liquidity > v.liquidity)
           /\ GoTo("arrays") /\ bundle' = b /\ order' = o /\ UNCHANGED view
  <2>1. v.liquidity \in Nat
    BY DEF Positions
  <2>2. o.liquidity <= view.liquidity
    BY <1>1, <1>3, <1>5, <1>8, <2>1
  <2>3. request.op = "drain" => o.liquidity = view.liquidity
    BY <1>1, <1>3, <1>5
  <2>4. request.op \notin Deposits
    BY DEF Deposits, Withdrawals
  <2>5. QED
    BY <1>1, <1>5, <1>8, <2>2, <2>3, <2>4, OrderKeeps
<1>9. QED
  BY <1>6, <1>7, <1>8

LEMMA LoadBalancesKeeps == IndInv /\ LoadBalances => IndInv'
<1> SUFFICES ASSUME IndInv, LoadBalances PROVE IndInv'
  OBVIOUS
<1>1. phase = "balances" /\ UNCHANGED <<world, doubt, request>>
  BY DEF LoadBalances
<1>2. PICK b : b = [bundle EXCEPT !.wallet = wallet]
  OBVIOUS
<1>3. b \in Bundles
  BY <1>2 DEF IndInv, Types, Bundles
<1>4. \/ Return("Rpc")
      \/ request.op \in Deposits /\ QuoteDeposit(b)
      \/ request.op \in Withdrawals /\ QuoteWithdrawal(b)
      \/ /\ request.op = "close" /\ GoTo("simulate") /\ bundle' = b
         /\ order' = [NoOrder EXCEPT !.request = request]
         /\ UNCHANGED view
  BY <1>2 DEF LoadBalances
<1>5. CASE Return("Rpc")
  BY <1>1, <1>5, ReturnKeeps
<1>6. CASE request.op \in Deposits /\ QuoteDeposit(b)
  BY <1>1, <1>3, <1>6, QuoteDepositKeeps
<1>7. CASE request.op \in Withdrawals /\ QuoteWithdrawal(b)
  BY <1>1, <1>3, <1>7, QuoteWithdrawalKeeps
<1>8. CASE /\ request.op = "close" /\ GoTo("simulate") /\ bundle' = b
           /\ order' = [NoOrder EXCEPT !.request = request]
           /\ UNCHANGED view
  <2>1. /\ phase' = "simulate" /\ outcome' = outcome /\ view' = view /\ bundle' = b
        /\ price' = price /\ position' = position /\ wallet' = wallet /\ late' = late
        /\ doubt' = doubt /\ request' = request
    BY <1>1, <1>8 DEF GoTo, world
  <2>2. PICK o : o = [NoOrder EXCEPT !.request = request] /\ order' = o
    BY <1>8
  <2>3. o \in Orders /\ o.request = request
    BY <2>2, NothingTypes DEF Orders, IndInv, Types
  <2>4. WithinRequest(o)
    BY <1>8, <2>3 DEF WithinRequest, Deposits
  <2>5. Types'
    BY <1>3, <2>1, <2>2, <2>3 DEF IndInv, Types, Phases
  <2>6. Named'
    BY <1>1, <2>1, <2>2, <2>3 DEF IndInv, Named, Ordered
  <2>7. Limited'
    BY <2>1, <2>2, <2>4 DEF IndInv, Limited
  <2>8. Quoted' /\ Draining'
    BY <1>1, <1>8, <2>1
       DEF IndInv, Quoted, Draining, Viewed, Ordered, Deposits, Withdrawals
  <2>9. QED
    BY <2>5, <2>6, <2>7, <2>8 DEF IndInv
<1>9. QED
  BY <1>4, <1>5, <1>6, <1>7, <1>8

LEMMA LoadArraysKeeps == IndInv /\ LoadArrays => IndInv'
<1> SUFFICES ASSUME IndInv, LoadArrays PROVE IndInv'
  OBVIOUS
<1>1. phase = "arrays" /\ UNCHANGED <<world, doubt, request>>
  BY DEF LoadArrays
<1>2. CASE Return("Rpc")
  BY <1>1, <1>2, ReturnKeeps
<1>3. CASE GoTo("simulate") /\ UNCHANGED <<view, bundle, order>>
  <2>1. bundle' \in Bundles
    BY <1>3 DEF IndInv, Types
  <2>2. phase \in Viewed /\ phase \in Ordered
        /\ "simulate" \in Viewed /\ "simulate" \in Ordered
    BY <1>1 DEF Viewed, Ordered
  <2>3. QED
    BY <1>1, <1>3, <2>1, <2>2, GoOnKeeps
<1>4. QED
  BY <1>2, <1>3 DEF LoadArrays

LEMMA SimulateKeeps == IndInv /\ Simulate => IndInv'
<1> SUFFICES ASSUME IndInv, Simulate PROVE IndInv'
  OBVIOUS
<1>1. phase = "simulate" /\ UNCHANGED <<world, doubt, request>>
  BY DEF Simulate
<1>2. CASE Return("Simulation")
  BY <1>1, <1>2, ReturnKeeps
<1>3. CASE GoTo("sent") /\ UNCHANGED <<view, bundle, order>>
  <2>1. bundle' \in Bundles
    BY <1>3 DEF IndInv, Types
  <2>2. phase \in Viewed /\ phase \in Ordered
        /\ "sent" \in Viewed /\ "sent" \in Ordered
    BY <1>1 DEF Viewed, Ordered
  <2>3. QED
    BY <1>1, <1>3, <2>1, <2>2, GoOnKeeps
<1>4. QED
  BY <1>2, <1>3 DEF Simulate

LEMMA SubmittedKeeps == IndInv /\ Submitted => IndInv'
<1> SUFFICES ASSUME IndInv, Submitted PROVE IndInv'
  OBVIOUS
<1>1. phase = "sent" /\ price' = price /\ request' = request
  BY DEF Submitted
<1>2. order \in Orders /\ order.request = request /\ order.request # NoRequest
  BY <1>1 DEF IndInv, Types, Named, Ordered
<1>3. ASSUME NEW r, Return(r), Learn(r)
      PROVE  /\ phase' = "idle" /\ outcome' = r /\ view' = NoPosition
             /\ bundle' = NoBundle /\ order' = NoOrder
             /\ doubt' = (doubt \/ (r = "Ambiguous" /\ request.op \in Deposits))
             /\ doubt' \in BOOLEAN
             /\ Named' <=> \A o \in late' : o.request # NoRequest
             /\ Limited' <=> \A o \in late' : WithinRequest(o)
             /\ Quoted'
  <2>1. /\ phase' = "idle" /\ outcome' = r /\ view' = NoPosition
        /\ bundle' = NoBundle /\ order' = NoOrder
        /\ doubt' = (doubt \/ (r = "Ambiguous" /\ request.op \in Deposits))
    BY <1>3 DEF Return, Learn
  <2>2. doubt' \in BOOLEAN
    BY <2>1 DEF IndInv, Types
  <2>3. Named' <=> \A o \in late' : o.request # NoRequest
    BY <2>1 DEF Named, Ordered
  <2>4. Limited' <=> \A o \in late' : WithinRequest(o)
    BY <2>1, NothingTypes DEF Limited
  <2>5. Quoted'
    BY <2>1 DEF Quoted, Viewed, Ordered
  <2>6. QED
    BY <2>1, <2>2, <2>3, <2>4, <2>5
<1>4. CASE /\ Executes(order) /\ Perform(order)
           /\ Return("Ok") /\ Learn("Ok") /\ UNCHANGED late
  <2>1. PICK o \in Orders : o = order
    BY <1>2
  <2>2. o.request # NoRequest /\ Executes(o) /\ Perform(o)
    BY <1>2, <1>4, <2>1
  <2>3. position' \in Positions /\ wallet' \in [Mint -> Int]
    BY <2>2, PerformTypes DEF IndInv
  <2>4. Types'
    BY <1>1, <1>3, <1>4, <2>3, NothingTypes DEF IndInv, Types, Phases
  <2>5. Named' /\ Limited' /\ Quoted'
    BY <1>3, <1>4 DEF IndInv, Named, Limited
  <2>6. Draining'
    <3>1. SUFFICES ASSUME ~doubt
                   PROVE  request.op = "drain" =>
                            position'.liquidity = 0 /\ ~position'.owed
                              /\ ~position'.pending
      BY <1>1, <1>3, <1>4 DEF Draining, Viewed, Ordered, IndInv
    <3>2. SUFFICES ASSUME request.op = "drain"
                   PROVE  position'.liquidity = 0 /\ ~position'.owed
                            /\ ~position'.pending
      OBVIOUS
    <3>3. position.liquidity <= view.liquidity /\ o.liquidity = view.liquidity
      BY <1>1, <2>1, <3>1, <3>2 DEF IndInv, Draining, Viewed, Ordered
    <3>4. /\ position'.liquidity = position.liquidity - o.liquidity
          /\ ~position'.owed /\ ~position'.pending
      BY <1>2, <2>1, <2>2, <3>2, PerformTypes DEF IndInv, Withdrawals
    <3>5. position'.liquidity \in Nat /\ position.liquidity \in Nat
          /\ o.liquidity \in Nat
      BY <2>3 DEF IndInv, Types, Positions, Orders
    <3>6. QED
      BY <3>3, <3>4, <3>5
  <2>7. QED
    BY <2>4, <2>5, <2>6 DEF IndInv
<1>5. CASE /\ Return("Failed") /\ Learn("Failed")
           /\ UNCHANGED <<position, wallet, late>>
  <2>1. Types'
    BY <1>1, <1>3, <1>5, NothingTypes DEF IndInv, Types, Phases
  <2>2. Named' /\ Limited' /\ Quoted'
    BY <1>3, <1>5 DEF IndInv, Named, Limited
  <2>3. Draining'
    BY <1>3, <1>5 DEF IndInv, Draining, Viewed, Ordered
  <2>4. QED
    BY <2>1, <2>2, <2>3 DEF IndInv
<1>6. CASE /\ Return("Ambiguous") /\ Learn("Ambiguous")
           /\ late' = late \cup {order}
           /\ UNCHANGED <<position, wallet>>
  <2>1. Types'
    BY <1>1, <1>2, <1>3, <1>6, NothingTypes DEF IndInv, Types, Phases
  <2>2. Named' /\ Limited' /\ Quoted'
    BY <1>2, <1>3, <1>6 DEF IndInv, Named, Limited
  <2>3. Draining'
    BY <1>2, <1>3, <1>6 DEF IndInv, Draining, Viewed, Ordered
  <2>4. QED
    BY <2>1, <2>2, <2>3 DEF IndInv
<1>7. QED
  BY <1>4, <1>5, <1>6 DEF Submitted

LEMMA LandLateKeeps == IndInv /\ LandLate => IndInv'
<1> SUFFICES ASSUME IndInv, LandLate PROVE IndInv'
  OBVIOUS
<1>1. PICK o \in late :
          /\ late' = late \ {o}
          /\ IF Executes(o) THEN Perform(o) ELSE UNCHANGED <<position, wallet>>
  BY DEF LandLate
<1>2. UNCHANGED <<price, doubt, request, phase, view, bundle, order, outcome>>
  BY DEF LandLate
<1>3. o \in Orders /\ o.request # NoRequest
  BY DEF IndInv, Types, Named
<1>4. /\ position' \in Positions /\ wallet' \in [Mint -> Int]
      /\ o.request.op \notin Deposits => position'.liquidity <= position.liquidity
      /\ o.request.op \notin Deposits /\ ~position.owed /\ ~position.pending =>
            ~position'.owed /\ ~position'.pending
  <2>1. CASE Executes(o)
    BY <1>1, <1>3, <2>1, PerformTypes DEF IndInv
  <2>2. CASE ~Executes(o)
    <3>1. position' = position /\ wallet' = wallet
      BY <1>1, <2>2
    <3>2. position.liquidity \in Nat
      BY DEF IndInv, Types, Positions
    <3>3. QED
      BY <3>1, <3>2 DEF IndInv, Types
  <2>3. QED
    BY <2>1, <2>2
<1>5. Types'
  BY <1>1, <1>2, <1>4 DEF IndInv, Types
<1>6. Named' /\ Limited'
  BY <1>1, <1>2 DEF IndInv, Named, Limited
<1>7. Quoted'
  BY <1>2 DEF IndInv, Quoted
<1>8. Draining'
  <2>1. SUFFICES ASSUME ~doubt PROVE Draining'
    BY <1>2 DEF Draining
  <2>2. o.request.op \notin Deposits /\ \A l \in late' : l.request.op \notin Deposits
    BY <1>1, <2>1 DEF IndInv, Draining
  <2>3. /\ position.liquidity \in Nat /\ position'.liquidity \in Nat
        /\ view.liquidity \in Nat
    BY <1>4 DEF IndInv, Types, Positions
  <2>4. position.liquidity = 0 => position'.liquidity = 0
    BY <1>4, <2>2, <2>3
  <2>5. position.liquidity <= view.liquidity => position'.liquidity <= view.liquidity
    BY <1>4, <2>2, <2>3
  <2>6. QED
    BY <1>2, <1>4, <2>1, <2>2, <2>4, <2>5 DEF IndInv, Draining
<1>9. QED
  BY <1>5, <1>6, <1>7, <1>8 DEF IndInv

LEMMA TradeKeeps == IndInv /\ Trade => IndInv'
<1> SUFFICES ASSUME IndInv, Trade PROVE IndInv'
  OBVIOUS
<1>1. /\ price' \in Int
      /\ UNCHANGED <<wallet, late, doubt, request, phase, view, bundle, order, outcome>>
  BY PositionAssumption DEF Trade
<1>2. \/ position' = position
      \/ position.liquidity > 0 /\ position' = [position EXCEPT !.pending = TRUE]
  BY DEF Trade
<1>3. /\ position' \in Positions /\ position'.liquidity = position.liquidity
      /\ position.liquidity = 0 => position' = position
  <2>1. CASE position' = position
    BY <2>1 DEF IndInv, Types
  <2>2. CASE position.liquidity > 0 /\ position' = [position EXCEPT !.pending = TRUE]
    <3>1. position' \in Positions /\ position'.liquidity = position.liquidity
      BY <2>2 DEF IndInv, Types, Positions
    <3>2. position.liquidity # 0
      BY <2>2 DEF IndInv, Types, Positions
    <3>3. QED
      BY <3>1, <3>2
  <2>3. QED
    BY <1>2, <2>1, <2>2
<1>4. Types'
  BY <1>1, <1>3 DEF IndInv, Types
<1>5. Named' /\ Limited' /\ Quoted'
  BY <1>1 DEF IndInv, Named, Limited, Quoted
<1>6. Draining'
  BY <1>1, <1>3 DEF IndInv, Draining
<1>7. QED
  BY <1>4, <1>5, <1>6 DEF IndInv

LEMMA StepKeeps == IndInv /\ [Next]_vars => IndInv'
<1> SUFFICES ASSUME IndInv, [Next]_vars PROVE IndInv'
  OBVIOUS
<1>1. CASE Call
  BY <1>1, BeginKeeps, LoadPositionKeeps, LoadPoolKeeps, LoadBalancesKeeps,
     LoadArraysKeeps, SimulateKeeps, SubmittedKeeps DEF Call
<1>2. CASE LandLate
  BY <1>2, LandLateKeeps
<1>3. CASE Trade
  BY <1>3, TradeKeeps
<1>4. CASE UNCHANGED vars
  BY <1>4 DEF vars, world, IndInv, Types, Named, Limited, Quoted, Draining
<1>5. QED
  BY <1>1, <1>2, <1>3, <1>4 DEF Next

-----------------------------------------------------------------------------
(***************************************************************************)
(* Theorems                                                                *)
(***************************************************************************)
LEMMA Invariance == Spec => []IndInv
  BY InitInv, StepKeeps, PTL DEF Spec

\* Whatever the price does until a deposit lands - even one given up for lost,
\* ordered from a price and balances read long before - it takes no more of the
\* caller's mint than the amount asked for, the slippage and the mint's fee.
THEOREM DepositBounded == Spec => []DepositWithinRequest
<1>1. IndInv => DepositWithinRequest
  <2> SUFFICES ASSUME IndInv,
                      NEW o \in late \cup (IF Submitting THEN {order} ELSE {}),
                      o.request.op \in Deposits, Executes(o)
               PROVE  Charge(o, o.request.input) <=
                        Gross(o.request.input, ApplySlippage(o.request.amount, TRUE))
    BY DEF DepositWithinRequest
  <2>1. o \in Orders /\ WithinRequest(o)
    BY DEF IndInv, Types, Limited
  <2>2. PICK m \in Mint, amount \in Nat :
            m = o.request.input /\ amount = o.request.amount
    BY <2>1, RequestTypes DEF Orders
  <2>3. Charge(o, m) \in Nat
    BY <2>1, ChargeTypes DEF IndInv
  <2>4. Charge(o, m) <= o.max[m]
    BY <2>2 DEF Executes, Deposits, Withdrawals
  <2>5. PICK limit \in Nat : limit = Gross(m, ApplySlippage(amount, TRUE))
    BY MaximumTypes, GrossTypes
  <2>6. o.max[m] <= limit
    BY <2>1, <2>2, <2>5 DEF WithinRequest
  <2>7. o.max[m] \in Int
    BY <2>1 DEF Orders
  <2>8. Charge(o, m) <= limit
    BY <2>3, <2>4, <2>6, <2>7
  <2>9. QED
    BY <2>2, <2>5, <2>8
<1>2. QED
  BY <1>1, Invariance, PTL

\* After a call without an amount has succeeded, the position is empty and owes
\* nothing, whatever landed and whatever was traded since the call read it, as
\* long as no deposit of unknown fate may still land.
THEOREM DrainedCloses == Spec => []DrainedIsClosable
<1>1. IndInv => DrainedIsClosable
  BY DEF IndInv, Draining, DrainedIsClosable
<1>2. QED
  BY <1>1, Invariance, PTL

\* An instruction is executed by a program that still is in the state the call
\* read: whatever the amounts, prices, slippage and fees, the client's rounding
\* never makes a limit that the quoted instruction itself would miss.
THEOREM UnmovedIsExecuted == Spec => []UnmovedExecutes
<1>1. IndInv => UnmovedExecutes
  <2> SUFFICES ASSUME IndInv, Submitting,
                      position = (IF request.op = "open" THEN NoPosition ELSE view),
                      bundle = [price |-> price, wallet |-> wallet]
               PROVE  Executes(order)
    BY DEF UnmovedExecutes
  <2>1. /\ phase \in Ordered /\ phase \in Viewed
        /\ order.request = request /\ request.op \in Ops
        /\ bundle.price = price /\ bundle.wallet = wallet
    <3>1. phase \in Ordered /\ phase \in Viewed /\ phase # "idle"
      BY DEF Submitting, Viewed, Ordered
    <3>2. order.request = request /\ request # NoRequest /\ request \in Request
      BY <3>1 DEF IndInv, Named, Types
    <3>3. request.op \in Ops
      BY <3>2, RequestTypes
    <3>4. QED
      BY <3>1, <3>2, <3>3
  <2>2. CASE request.op \in Deposits
    <3>1. position.status = IF request.op = "open" THEN "none" ELSE "open"
      BY <2>1 DEF NoPosition, IndInv, Quoted
    <3>2. ASSUME NEW m \in Mint
          PROVE  Charge(order, m) <= order.max[m] /\ Charge(order, m) <= wallet[m]
      <4>1. Covers(order, bundle)
        BY <2>1, <2>2 DEF IndInv, Quoted
      <4>2. Charge(order, m) <= order.max[m] /\ order.max[m] <= wallet[m]
        BY <2>1, <4>1 DEF Covers, Charge
      <4>3. Charge(order, m) \in Int /\ order.max[m] \in Int /\ wallet[m] \in Int
        BY ChargeTypes DEF IndInv, Types, Orders
      <4>4. QED
        BY <4>2, <4>3
    <3>3. QED
      BY <2>1, <2>2, <3>1, <3>2 DEF Executes, Deposits, Withdrawals
  <2>3. CASE request.op \in Withdrawals
    <3>1. /\ position.status = "open" /\ order.liquidity <= position.liquidity
          /\ Demands(order, bundle)
      BY <2>1, <2>3 DEF Withdrawals, IndInv, Quoted
    <3>2. ASSUME NEW m \in Mint
          PROVE  Payout(order, m) >= order.min[m]
      <4>1. order.min[m] <= Payout(order, m)
        BY <2>1, <3>1 DEF Demands, Payout
      <4>2. Payout(order, m) \in Int /\ order.min[m] \in Int
        BY ChargeTypes DEF IndInv, Types, Orders
      <4>3. QED
        BY <4>1, <4>2
    <3>3. QED
      BY <2>1, <2>3, <3>1, <3>2 DEF Executes, Withdrawals, Deposits
  <2>4. CASE request.op = "close"
    <3>1. position.status = "open" /\ position.liquidity = 0 /\ ~position.owed
      BY <2>1, <2>4 DEF IndInv, Quoted
    <3>2. QED
      BY <2>1, <2>4, <3>1 DEF Executes, Withdrawals, Deposits
  <2>5. QED
    BY <2>1, <2>2, <2>3, <2>4 DEF Ops
<1>2. QED
  BY <1>1, Invariance, PTL
=============================================================================
