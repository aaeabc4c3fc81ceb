----------------------------- MODULE SwapQuote -----------------------------
(***************************************************************************)
(* RaydiumClmmClient::swap: read the pool, read its tick arrays, quote the *)
(* swap by walking them, check the balance, simulate and send - while the  *)
(* other users of the chain trade, provide liquidity and pay each other.   *)
(*                                                                         *)
(* Prices are points; tick t begins at point t * PerTick.  To move the     *)
(* price by one point, liquidity L exchanges L tokens 1 for the more of    *)
(* token 0 the lower the price, and L tokens of fee on the input.  The     *)
(* client's walk is translated from quote.rs; the program that executes    *)
(* the swap is external and given by the curve it trades on.               *)
(***************************************************************************)
EXTENDS TokenAmounts, Sequences, SequencesExt

CONSTANTS
    Positions,      \* positions others may hold: [lower, upper, liquidity]
    MaxTick,        \* tick_math::MAX_TICK; MIN_TICK is 0
    PerTick,        \* price points per tick
    ArraySize,      \* ticks per tick array
    MaxArrays,      \* MAX_SWAP_TICK_ARRAYS
    Discovery,      \* TICK_ARRAY_DISCOVERY_LIMIT
    WalkLimit,      \* steps quote_swap takes at most
    Amounts,        \* raw amounts a caller asks for
    Taxes,          \* transfer fees of a pair of mints, [in, out]: one token
                    \* in so many, 0 for none
    Wallets,        \* input balances of the payer
    MaxMoves        \* bound: what the others do during one call

\* Usable ticks are multiples of the spacing and stay clear of both ends: so
\* for every spacing that does not divide MAX_TICK, the default one included.
ASSUME SwapAssumption ==
    /\ Positions \subseteq [lower : Nat, upper : Nat, liquidity : Nat \ {0}]
    /\ IsFiniteSet(Positions)
    /\ \A q \in Positions : 1 < q.lower /\ q.lower < q.upper /\ q.upper < MaxTick
    /\ {MaxTick, PerTick, ArraySize, MaxArrays, Discovery} \subseteq Nat \ {0}
    /\ {WalkLimit, MaxMoves} \subseteq Nat
    /\ Amounts \subseteq Nat \ {0} /\ Wallets \subseteq Nat
    /\ Taxes \subseteq [in : Nat \ {1}, out : Nat \ {1}]

VARIABLES
    chain,    \* [price, tick, book]: the pool and the positions in it
    wallet,   \* the payer's balance of the input mint
    moves,    \* what the others did so far
    request,  \* arguments of the call
    phase,    \* the await the call is suspended in
    seen,     \* the chain as load_pool read it
    order,    \* the instruction and the quote behind it
    outcome   \* Ok, the error, or Pending

vars == <<chain, wallet, moves, request, phase, seen, order, outcome>>

Price == PerTick .. (MaxTick - 1) * PerTick

\* At the boundary of a tick a pool that came from above is still below it;
\* no pool is at MIN_TICK.
TicksAt(p) ==
    ({p \div PerTick}
       \cup (IF p % PerTick = 0 THEN {p \div PerTick - 1} ELSE {})) \ {0}

\* No quote has been made.
NoOrder == [calculated |-> 0, amount |-> 0, threshold |-> 0, arrays |-> {}, book |-> {}]

-----------------------------------------------------------------------------
(***************************************************************************)
(* Ticks, tick arrays and the bitmap of the arrays that hold some.         *)
(***************************************************************************)
Liquidity(book) == MapThenSumSet(LAMBDA q : q.liquidity, book)

LiquidityAt(book, tick) ==
    Liquidity({q \in book : q.lower <= tick /\ tick < q.upper})

\* liquidity_net of a tick
Net(book, t) ==
    Liquidity({q \in book : q.lower = t}) - Liquidity({q \in book : q.upper = t})

Initialized(book) == UNION {{q.lower, q.upper} : q \in book}

ArrayStart(t) == (t \div ArraySize) * ArraySize
Bitmap(book) == {ArrayStart(t) : t \in Initialized(book)}
TicksOf(book, start) == {t \in Initialized(book) : ArrayStart(t) = start}

\* The first of a set of ticks or arrays in the direction of the swap.
First(S, down) == IF down THEN Max(S) ELSE Min(S)

\* next_initialized_tick: none unless the array holds the current tick
NextIn(book, start, tick, down) ==
    IF ArrayStart(tick) # start THEN {}
    ELSE {t \in TicksOf(book, start) : IF down THEN t <= tick ELSE t > tick}

\* next_initialized_tick_array_start_index
ArraysAfter(bitmap, start, down) ==
    {a \in bitmap : IF down THEN a < start ELSE a > start}

\* get_first_initialized_tick_array
ArraysFrom(bitmap, tick, down) ==
    ArraysAfter(bitmap, ArrayStart(tick), down) \cup (bitmap \cap {ArrayStart(tick)})

-----------------------------------------------------------------------------
(***************************************************************************)
(* quote_swap                                                              *)
(***************************************************************************)
\* What liquidity L takes and gives between the points p and p + 1.
Segment(L, p, down) ==
    IF down THEN [taken |-> L * (MaxTick * PerTick - p) + L, given |-> L]
            ELSE [taken |-> 2 * L, given |-> L * (MaxTick * PerTick - p)]

\* The i-th point a swap passes.
PointAt(price, down, i) == IF down THEN price - i ELSE price + i - 1

\* The next segment of a swap: in full if what is left pays for it, or else,
\* and then for the last time, a rounded share of it.
FillSegment(f, seg, amount, exactIn) ==
    LET paid == IF exactIn THEN seg.taken ELSE seg.given
        due == IF exactIn THEN seg.given ELSE seg.taken
        rest == amount - f.used
    IN
    IF ~f.whole THEN f
    ELSE IF paid <= rest
      THEN [f EXCEPT !.points = @ + 1, !.used = @ + paid, !.other = @ + due]
    ELSE [f EXCEPT !.whole = FALSE, !.used = amount,
                   !.other = @ + IF exactIn THEN (rest * due) \div paid
                                            ELSE CeilDiv(rest * due, paid)]

\* A swap of amount over the given segments.
Fill(amount, segments, exactIn) ==
    FoldLeft(LAMBDA f, seg : FillSegment(f, seg, amount, exactIn),
             [points |-> 0, used |-> 0, other |-> 0, whole |-> TRUE], segments)

\* swap_math::compute_swap up to price target, at constant liquidity.
ComputeSwap(price, target, liquidity, remaining, down, exactIn) ==
    Fill(remaining,
         [i \in 1 .. IF down THEN price - target ELSE target - price |->
             Segment(liquidity, PointAt(price, down, i), down)],
         exactIn)

\* Mutant: a position left downwards still counts.
LiquidityPast(liquidity, net, down) == liquidity + net

\* add_delta(state.liquidity, if zero_for_one { -liquidity_net } ...)
LiquidityAfter(liquidity, net, down) == liquidity + (IF down THEN -net ELSE net)

\* The walk moves towards the initialized tick t as far as c goes; add_delta
\* refuses to take away more liquidity than there is.
Advance(s, t, c, book, down) ==
    LET next == IF down THEN s.price - c.points ELSE s.price + c.points
        crossed == next = t * PerTick
        after == IF crossed THEN LiquidityAfter(s.liquidity, Net(book, t), down)
                            ELSE s.liquidity
    IN
    IF after < 0 THEN [s EXCEPT !.status = "error"]
    ELSE [s EXCEPT
          !.remaining = @ - c.used,
          !.calculated = @ + c.other,
          !.price = next,
          !.liquidity = after,
          !.tick = IF crossed THEN (IF down THEN t - 1 ELSE t)
                   ELSE IF next # s.price THEN next \div PerTick ELSE @]

\* One step of the walk towards the initialized tick t.
StepTo(s, t, book, down, exactIn) ==
    Advance(s, t, ComputeSwap(s.price, t * PerTick, s.liquidity, s.remaining,
                              down, exactIn), book, down)

\* One turn of the loop.  An array is in hand whose ticks ahead are exhausted
\* only when the walk must pop the next one it was given.
Turn(s, bitmap, book, down, exactIn) ==
    LET ahead == NextIn(book, s.start, s.tick, down)
        first == IF ahead = {} /\ ~s.matches THEN TicksOf(book, s.start) ELSE ahead
        later == ArraysAfter(bitmap, s.start, down)
        m == [s EXCEPT !.matches = @ \/ ahead = {}]
    IN
    IF s.status # "more" THEN s
    ELSE IF s.remaining = 0 \/ s.tick >= MaxTick \/ s.tick <= 0
      THEN [s EXCEPT !.status = "ok"]
    ELSE IF first # {} THEN StepTo(m, First(first, down), book, down, exactIn)
    ELSE IF \/ ~s.matches                    \* first_initialized_tick fails
            \/ later = {}                    \* no initialized array left
            \/ Cardinality(s.used) = Discovery   \* none was fetched
            \/ TicksOf(book, First(later, down)) = {}
      THEN [s EXCEPT !.status = "error"]
    ELSE LET a == First(later, down) IN
         StepTo([m EXCEPT !.start = a, !.used = @ \cup {a}],
                First(TicksOf(book, a), down), book, down, exactIn)

\* The walk of quote_swap over the pool as read and the arrays as read.
QuoteSwap(amount, down, exactIn, pool, book) ==
    LET bitmap == Bitmap(pool.book)
        from == ArraysFrom(bitmap, pool.tick, down)
        start == First(from, down)
        begin == [status |-> "more", remaining |-> amount, calculated |-> 0,
                  price |-> pool.price, tick |-> pool.tick,
                  liquidity |-> LiquidityAt(pool.book, pool.tick),
                  start |-> start, used |-> {start},
                  matches |-> start = ArrayStart(pool.tick)]
        Loop(s, i) == Turn(s, bitmap, book, down, exactIn)
    IN  IF from = {} THEN [status |-> "error", calculated |-> 0, used |-> {}]
        ELSE FoldLeft(Loop, begin, [i \in 1 .. WalkLimit |-> i])

-----------------------------------------------------------------------------
(***************************************************************************)
(* The program on chain (external): it trades on the curve that the        *)
(* positions make, and finds in the transaction the tick arrays it needs.  *)
(***************************************************************************)
\* Liquidity between the points p and p + 1.
Depth(book, p) ==
    Liquidity({q \in book : q.lower * PerTick <= p /\ p < q.upper * PerTick})

\* Initialized ticks a swap meets, and how far the last of them is.
TicksAhead(c, down) ==
    {t \in Initialized(c.book) : IF down THEN t <= c.tick ELSE t > c.tick}
Distance(c, t) == IF t * PerTick > c.price THEN t * PerTick - c.price
                                           ELSE c.price - t * PerTick
Reach(c, down) == Max({0} \cup {Distance(c, t) : t \in TicksAhead(c, down)})

ExchangeOver(c, n, down, exactIn, amount) ==
    Fill(amount,
         [i \in 1 .. n |-> Segment(Depth(c.book, PointAt(c.price, down, i)),
                                   PointAt(c.price, down, i), down)],
         exactIn)

Exchange(c, down, exactIn, amount) ==
    ExchangeOver(c, Reach(c, down), down, exactIn, amount).other

Fillable(c, down, exactIn, amount) ==
    ExchangeOver(c, Reach(c, down), down, exactIn, amount).used = amount

\* The ticks a swap meets with something left to exchange.
TicksMet(c, down, exactIn, amount) ==
    {t \in TicksAhead(c, down) :
       \A u \in TicksAhead(c, down) :
         Distance(c, u) < Distance(c, t) =>
           ExchangeOver(c, Distance(c, u), down, exactIn, amount).used < amount}

\* The array the swap starts from, if only to find nothing ahead in it, and
\* those of the ticks it meets.
ArraysNeeded(c, down, exactIn, amount) ==
    LET from == ArraysFrom(Bitmap(c.book), c.tick, down)
    IN  (IF from = {} THEN {} ELSE {First(from, down)})
          \cup {ArrayStart(t) : t \in TicksMet(c, down, exactIn, amount)}

\* What the pool is asked for, net of the transfer fee on its way in or gross
\* of the one on its way out.
PoolAmount(r) ==
    IF r.exactIn THEN r.amount - TransferFee(r.tax.in, r.amount)
                 ELSE r.amount + InverseTransferFee(r.tax.out, r.amount)

\* What the payer is charged and gets.
Charged(r, out) ==
    IF r.exactIn THEN r.amount ELSE out + InverseTransferFee(r.tax.in, out)
Received(r, out) ==
    IF r.exactIn THEN out - TransferFee(r.tax.out, out) ELSE r.amount

\* The instruction executes on this chain.
Executes(c, r, o, funds) ==
    LET x == Exchange(c, r.zeroForOne, r.exactIn, PoolAmount(r)) IN
    /\ Fillable(c, r.zeroForOne, r.exactIn, PoolAmount(r))
    /\ ArraysNeeded(c, r.zeroForOne, r.exactIn, PoolAmount(r)) \subseteq o.arrays
    /\ Charged(r, x) <= funds
    /\ IF r.exactIn THEN Received(r, x) >= o.threshold
                    ELSE Charged(r, x) <= o.threshold

-----------------------------------------------------------------------------
(***************************************************************************)
(* The call                                                                *)
(***************************************************************************)
Init ==
    /\ \E book \in SUBSET Positions, p \in Price : \E t \in TicksAt(p) :
         chain = [price |-> p, tick |-> t, book |-> book]
    /\ wallet \in Wallets
    /\ moves = 0
    /\ request \in [zeroForOne : BOOLEAN, exactIn : BOOLEAN, amount : Amounts,
                    tax : Taxes]
    /\ phase = "pool"
    /\ seen = chain
    /\ order = NoOrder
    /\ outcome = "Pending"

Return(r) ==
    /\ phase' = "done"
    /\ outcome' = r

GoTo(next) ==
    /\ phase' = next
    /\ UNCHANGED outcome

\* load_pool: the pool account holds price, tick, liquidity and bitmap.
LoadPool ==
    /\ phase = "pool"
    /\ \/ Return("Rpc")
       \/ GoTo("arrays")
    /\ seen' = chain
    /\ UNCHANGED <<chain, wallet, moves, request, order>>

\* used_starts.len() <= MAX_SWAP_TICK_ARRAYS
FitsTransaction(used) == Cardinality(used) <= MaxArrays

\* Mutant: the maximum input leaves out the transfer fee on it.
ThresholdUntaxed(r, calculated) == ApplySlippage(calculated, ~r.exactIn)

\* other_amount_threshold
Threshold(r, calculated) ==
    LET slipped == ApplySlippage(calculated, ~r.exactIn) IN
    IF r.exactIn THEN slipped ELSE slipped + InverseTransferFee(r.tax.in, slipped)

\* load_swap_tick_arrays, then quote_swap on arrays that may be younger than
\* the pool they are walked for.
LoadArrays ==
    /\ phase = "arrays"
    /\ LET amount == PoolAmount(request)
           q == QuoteSwap(amount, request.zeroForOne, request.exactIn, seen, chain.book)
           quoted == amount > 0 /\ q.status = "ok" /\ FitsTransaction(q.used)
       IN
       \/ Return("Rpc") /\ UNCHANGED order
       \/ /\ ~quoted
          /\ Return("Quote")
          /\ order' = [NoOrder EXCEPT !.book = chain.book]
       \/ /\ quoted
          /\ GoTo("balance")
          /\ order' = [calculated |-> q.calculated, amount |-> request.amount,
                       threshold |-> Threshold(request, q.calculated),
                       arrays |-> q.used, book |-> chain.book]
    /\ UNCHANGED <<chain, wallet, moves, request, seen>>

\* The balance the code asks for: of two amounts, one counts output tokens.
Required == IF order.threshold > order.amount THEN order.threshold ELSE order.amount

CheckBalance ==
    /\ phase = "balance"
    /\ \/ Return("Rpc")
       \/ wallet < Required /\ Return("InsufficientBalance")
       \/ wallet >= Required /\ GoTo("simulate")
    /\ UNCHANGED <<chain, wallet, moves, request, seen, order>>

\* submit: a swap that fails in the simulation is not sent.
Simulate ==
    /\ phase = "simulate"
    /\ IF Executes(chain, request, order, wallet)
         THEN GoTo("sent") \/ Return("Simulation")    \* cannot be run
         ELSE Return("Simulation")
    /\ UNCHANGED <<chain, wallet, moves, request, seen, order>>

\* The sent swap executes on the chain it finds.
Execute ==
    /\ phase = "sent"
    /\ Return(IF Executes(chain, request, order, wallet) THEN "Ok" ELSE "Failed")
    /\ UNCHANGED <<chain, wallet, moves, request, seen, order>>

Call == LoadPool \/ LoadArrays \/ CheckBalance \/ Simulate \/ Execute

\* The others: a trade moves the price, a position is opened or closed, the
\* payer's account receives or loses tokens.  What they do before the first
\* read only makes another initial state.
Move ==
    /\ phase \notin {"pool", "done"}
    /\ moves < MaxMoves
    /\ moves' = moves + 1
    /\ UNCHANGED <<request, phase, seen, order, outcome>>

Trade ==
    /\ Move
    /\ \E p \in Price : \E t \in TicksAt(p) :
         chain' = [chain EXCEPT !.price = p, !.tick = t]
    /\ UNCHANGED wallet

Provide ==
    /\ Move
    /\ \E q \in Positions :
         chain' = [chain EXCEPT !.book =
                     IF q \in @ THEN @ \ {q} ELSE @ \cup {q}]
    /\ UNCHANGED wallet

Transfer ==
    /\ Move
    /\ wallet' \in Wallets
    /\ UNCHANGED chain

Next == Call \/ Trade \/ Provide \/ Transfer

Spec == Init /\ [][Next]_vars

-----------------------------------------------------------------------------
(***************************************************************************)
(* Properties                                                              *)
(***************************************************************************)

\* The walk over tick arrays and net liquidities computes what the positions
\* themselves would exchange, from every price and across every gap; it gives
\* up only on swaps that the pool cannot fill, that a transaction cannot carry
\* or that take the loop more turns than it has: one per tick, one to return.
QuoteIsExact ==
    LET r == request
        amount == PoolAmount(r)
        x == Exchange(seen, r.zeroForOne, r.exactIn, amount)
        fits == /\ amount > 0
                /\ Fillable(seen, r.zeroForOne, r.exactIn, amount)
                /\ Cardinality(ArraysNeeded(seen, r.zeroForOne, r.exactIn, amount))
                     <= IF MaxArrays < Discovery THEN MaxArrays ELSE Discovery
                /\ Cardinality(TicksMet(seen, r.zeroForOne, r.exactIn, amount))
                     < WalkLimit
    IN
    order.book = seen.book =>
        /\ phase = "balance" => fits /\ order.calculated = x
        /\ outcome = "Quote" => ~fits

\* A quote on which nothing moved leads to a swap that executes: threshold,
\* transfer fees and tick arrays suffice for the program's own checks.  The
\* program holds the minimum against what arrives; the client takes it from
\* what is sent, so the claim leaves out exact-in swaps into a taxed mint.
UnmovedSucceeds ==
    LET unmoved == chain = seen /\ order.book = seen.book
        covered == Required <= wallet
    IN
    phase \in {"simulate", "sent"} /\ unmoved /\ covered
      /\ (request.exactIn => request.tax.out = 0)
        => Executes(chain, request, order, wallet)

\* However torn the reads and whatever happens before execution, a swap that
\* executes is no worse than the quote by more than the slippage asked for.
ExecutedWithinSlippage ==
    [][phase = "sent" /\ outcome' = "Ok" =>
         LET x == Exchange(chain, request.zeroForOne, request.exactIn,
                           PoolAmount(request))
         IN  IF request.exactIn
               THEN x * 10000 > order.calculated * (10000 - SlippageBps) - 10000
               ELSE x * 10000 < order.calculated * (10000 + SlippageBps) + 10000]_vars

-----------------------------------------------------------------------------
(***************************************************************************)
(* A claim the code does not live up to                                    *)
(***************************************************************************)

\* "insufficient balance for {mint}: required, available" says that the payer
\* could not pay for the swap.  The code also holds the minimum output of an
\* exact-in swap, and the output of an exact-out one, against that balance.
InsufficientBalanceIsTrue ==
    outcome = "InsufficientBalance" =>
        wallet < IF request.exactIn THEN order.amount ELSE order.threshold
=============================================================================
