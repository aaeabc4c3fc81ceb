--------------------------- MODULE PricingEngine ----------------------------
(***************************************************************************)
(* The pricing engine of services/oracle/src/pricing/mod.rs.  It keeps the *)
(* newest observation of each feed, re-evaluates on every observation the  *)
(* instruments that use the feed, and re-publishes pegs and gbms on its    *)
(* timer.  Time is counted in engine ticks of 250 ms.                      *)
(*                                                                         *)
(* A value is a fraction <<numerator, denominator>>: an observed price     *)
(* over 1, base over quote, or the weighted sum over the one a basket was  *)
(* rebased on (1 stands for its `rebase` target).  A peg's target and a    *)
(* gbm's random price play no part in the properties and are 1.  Of the    *)
(* transforms, noise (a random factor) is left out.                        *)
(***************************************************************************)
EXTENDS Integers, SequencesExt

CONSTANTS
    Feeds,         \* underlying symbols
    Stamped,       \* feeds whose source may stamp a price
    Unstamped,     \* feeds whose source may leave the stamp out
    Instruments,
    Kind,          \* Kind[i]: "underlying", "cross", "basket" or "timed"
    Legs,          \* Legs[i]: the feeds of i, in order
    Weights,       \* Weights[i]: their weights, for a basket
    Transforms,    \* Transforms[i]: what the base value of i goes through
    Interval,      \* Interval[i]: ticks between two points of a timed i
    Prices,        \* prices observed, 0 included: a feed may print it
    MaxTime,       \* bound on the clock
    MaxTicks       \* bound on the observations

Fraction == Int \X (Nat \ {0})

\* TransformState: scale by a factor and add an offset; invert; initial *
\* (v / anchor) ^ beta, for a whole beta; take the value of some ticks ago.
Transform ==
    [kind : {"scale"}, factor : Fraction, offset : Fraction]
    \cup [kind : {"invert"}]
    \cup [kind : {"beta"}, beta : Nat, anchor : (Nat \ {0}) \X (Nat \ {0}),
          initial : Fraction]
    \cup [kind : {"lag"}, ticks : Nat]

ASSUME PricingEngineAssumption ==
    /\ Stamped \cup Unstamped = Feeds
    /\ Kind \in [Instruments -> {"underlying", "cross", "basket", "timed"}]
    /\ Legs \in [Instruments -> Seq(Feeds)]
    /\ \A i \in Instruments :
           /\ Kind[i] = "underlying" => Len(Legs[i]) = 1
           /\ Kind[i] = "cross" => Len(Legs[i]) = 2
           /\ Kind[i] = "timed" => Legs[i] = <<>>
    /\ \A i \in Instruments : Kind[i] = "basket" =>
           Weights[i] \in [DOMAIN Legs[i] -> Nat]
    /\ Transforms \in [Instruments -> Seq(Transform)]
    /\ Interval \in [Instruments -> Nat \ {0}]
    /\ Prices \subseteq Nat
    /\ {MaxTime, MaxTicks} \subseteq Nat

VARIABLES
    now,       \* now_us()
    ticks,     \* observations handled so far
    latest,    \* latest[f]: newest observation of f
    factor,    \* factor[i]: the sum basket i was rebased on, 0 for None
    buf,       \* buf[i][k]: the samples that i's k-th transform, a lag, holds
    due,       \* due[i]: next_due_us of a timed i
    last,      \* last[i]: the newest point published for i
    first,     \* first[i]: the first point published for i (history)
    samples,   \* samples[i]: all base values of i so far (history)
    lastTick   \* time of the newest on_tick, -1 for none (history)

vars == <<now, ticks, latest, factor, buf, due, last, first, samples, lastTick>>

NoTime == -1
None == [known |-> FALSE, value |-> <<0, 1>>, time |-> NoTime]
Sample(v, t) == [known |-> TRUE, value |-> v, time |-> t]
NoPoint == [at |-> NoTime, ctx |-> None]

Timed == {i \in Instruments : Kind[i] = "timed"}
LegSet(i) == ToSet(Legs[i])
\* Mutant: the newer of the two times.
NewerTime(a, b) == Max({a, b})

\* older(): a leg without a time does not count.
Older(a, b) == IF NoTime \in {a, b} THEN Max({a, b}) ELSE Min({a, b})

-----------------------------------------------------------------------------
(***************************************************************************)
(* Evaluation, with obs the observations and fac the basket's factor       *)
(***************************************************************************)
\* Mutant: a division by zero is not noticed.
AnyDivisor(n) == TRUE

\* checked_div: None where this does not hold.
Divisor(n) == n # 0

Price(obs, f) == obs[f].value[1]
Known(obs, i) == \A f \in LegSet(i) : obs[f].known
LegSum(obs, i) ==
    FoldLeft(LAMBDA sum, k : sum + Weights[i][k] * Price(obs, Legs[i][k]), 0,
             [k \in DOMAIN Legs[i] |-> k])
OldestTime(obs, i) ==
    FoldLeft(LAMBDA t, f : Older(t, obs[f].time), NoTime, Legs[i])

\* Mutant: the basket is rebased on the legs that have arrived so far.
RebaseEarly(obs, i, fac) ==
    IF Kind[i] = "basket" /\ fac = 0 THEN LegSum(obs, i) ELSE fac

\* The factor is fixed by the first evaluation with every leg known; a sum
\* of 0 cannot be divided by and leaves it open.
Rebase(obs, i, fac) ==
    IF Kind[i] = "basket" /\ fac = 0 /\ Known(obs, i) THEN LegSum(obs, i)
                                                      ELSE fac

\* eval_base: None while a leg is missing or a division fails.  A timed
\* instrument has no legs.
EvalBase(obs, i, fac, t) ==
    IF ~Known(obs, i) THEN None
    ELSE CASE Kind[i] = "timed" -> Sample(<<1, 1>>, t)
           [] Kind[i] = "underlying" ->
                 Sample(<<Price(obs, Legs[i][1]), 1>>, OldestTime(obs, i))
           [] Kind[i] = "cross" /\ Divisor(Price(obs, Legs[i][2])) ->
                 Sample(<<Price(obs, Legs[i][1]), Price(obs, Legs[i][2])>>,
                        OldestTime(obs, i))
           [] Kind[i] = "basket" /\ fac # 0 ->
                 Sample(<<LegSum(obs, i), fac>>, OldestTime(obs, i))
           [] OTHER -> None

\* Mutant: one sample is taken off the buffer per evaluation.
AgedOne(q, cutoff) == IF q # <<>> /\ Head(q).at <= cutoff THEN 1 ELSE 0

\* How many samples at the front of the buffer are old enough.
Aged(q, cutoff) ==
    Cardinality({n \in 1 .. Len(q) : \A k \in 1 .. n : q[k].at <= cutoff})

\* Mutant: only the first leg is registered.
ByFirstFeed(f) == {i \in Instruments : Legs[i] # <<>> /\ Legs[i][1] = f}

\* The instruments registered for feed f.  One that names f in two legs is
\* registered twice; its second evaluation repeats the first.
ByFeed(f) == {i \in Instruments : f \in LegSet(i)}

-----------------------------------------------------------------------------
(***************************************************************************)
(* Transforms                                                              *)
(***************************************************************************)
Plus(v, w) == <<v[1] * w[2] + w[1] * v[2], v[2] * w[2]>>
Product(v, w) == <<v[1] * w[1], v[2] * w[2]>>
Reciprocal(v) == IF v[1] > 0 THEN <<v[2], v[1]>> ELSE <<-v[2], -v[1]>>
Power(v, n) == FoldLeft(Product, <<1, 1>>, [k \in 1 .. n |-> v])

\* apply_transform, but for a lag: None where a division or a power fails.
Mapped(transform, ctx) ==
    LET v == ctx.value IN
    CASE transform.kind = "scale" ->
             Sample(Plus(Product(v, transform.factor), transform.offset), ctx.time)
      [] transform.kind = "invert" /\ Divisor(v[1]) -> Sample(Reciprocal(v), ctx.time)
      [] transform.kind = "beta" /\ v[1] > 0 ->
             Sample(Product(transform.initial,
                            Power(Product(v, Reciprocal(transform.anchor)),
                                  transform.beta)), ctx.time)
      [] OTHER -> None

\* eval's loop from the base value on, where no transform is a lag.
Through(transforms, ctx) ==
    FoldLeft(LAMBDA c, transform : IF c.known THEN Mapped(transform, c) ELSE None,
             ctx, transforms)

\* One turn of the loop: a lag takes the sample in and lets the aged ones go,
\* of which the newest goes on.
Turn(i, step, k) ==
    LET transform == Transforms[i][k]
        queue == Append(step.bufs[k], [at |-> now, ctx |-> step.ctx])
        aged == Aged(queue, now - transform.ticks)
    IN  CASE ~step.ctx.known -> step
          [] step.ctx.known /\ transform.kind # "lag" ->
                 [step EXCEPT !.ctx = Mapped(transform, @)]
          [] OTHER ->
                 [ctx |-> IF aged = 0 THEN None ELSE queue[aged].ctx,
                  bufs |-> [step.bufs EXCEPT ![k] =
                               SubSeq(queue, aged + 1, Len(queue))]]

\* The loop with the lags' buffers.
Transformed(i, ctx) ==
    FoldLeft(LAMBDA step, k : Turn(i, step, k), [ctx |-> ctx, bufs |-> buf[i]],
             [k \in 1 .. Len(Transforms[i]) |-> k])

-----------------------------------------------------------------------------
Point == [at : Int, ctx : [known : BOOLEAN, value : Int \X Nat, time : Int]]

TypeOK ==
    /\ now \in 0 .. MaxTime
    /\ ticks \in 0 .. MaxTicks
    /\ latest \in [Feeds -> [known : BOOLEAN, value : Nat \X {1},
                             time : {NoTime} \cup 0 .. now]]
    /\ factor \in [Instruments -> Nat]
    /\ \A i \in Instruments :
          /\ DOMAIN buf[i] = DOMAIN Transforms[i]
          /\ \A k \in DOMAIN buf[i] :
                /\ \A n \in 1 .. Len(buf[i][k]) : buf[i][k][n].at \in 0 .. now
                /\ Transforms[i][k].kind # "lag" => buf[i][k] = <<>>
          /\ last[i].ctx.known => last[i].ctx.value[2] > 0
    /\ due \in [Instruments -> Nat]
    /\ last \in [Instruments -> Point]

Init ==
    /\ now = 0 /\ ticks = 0 /\ lastTick = NoTime
    /\ latest = [f \in Feeds |-> None]
    /\ factor = [i \in Instruments |-> 0]
    /\ buf = [i \in Instruments |-> [k \in 1 .. Len(Transforms[i]) |-> <<>>]]
    /\ samples = [i \in Instruments |-> <<>>]
    /\ due = [i \in Instruments |-> 0]
    /\ last = [i \in Instruments |-> NoPoint]
    /\ first = last

-----------------------------------------------------------------------------
(***************************************************************************)
(* Evaluating the instruments of S and publishing what comes out           *)
(***************************************************************************)
Evaluate(S, obs) ==
    LET fac(i) == Rebase(obs, i, factor[i])
        ctx(i) == EvalBase(obs, i, fac(i), now)
        good == {i \in S : ctx(i).known}
        out(i) == Transformed(i, ctx(i))
        ready == {i \in good : out(i).ctx.known}
    IN /\ factor' = [i \in Instruments |-> IF i \in S THEN fac(i) ELSE factor[i]]
       /\ buf' = [i \in Instruments |-> IF i \in good THEN out(i).bufs ELSE buf[i]]
       /\ samples' = [i \in Instruments |->
                         IF i \in good
                         THEN Append(samples[i], [at |-> now, ctx |-> ctx(i)])
                         ELSE samples[i]]
       /\ last' = [i \in Instruments |->
                      IF i \in ready THEN [at |-> now, ctx |-> out(i).ctx]
                                     ELSE last[i]]
       /\ first' = [i \in Instruments |->
                       IF first[i] = NoPoint THEN last'[i] ELSE first[i]]

\* on_underlying; an observation that cannot be reduced to a value changes
\* nothing.  A stamped price is as old as its source says.
OnUnderlying(f, v, t) ==
    LET obs == [latest EXCEPT ![f] = Sample(<<v, 1>>, t)] IN
    /\ ticks < MaxTicks
    /\ ticks' = ticks + 1
    /\ latest' = obs
    /\ Evaluate(ByFeed(f), obs)
    /\ UNCHANGED <<now, due, lastTick>>

\* The timed instruments whose turn it is.
Due == {i \in Timed : now >= due[i]}

\* Mutant: next_due_us is left as it was.
DueUnchanged == due' = due

\* next_due_us = now_us + interval_us
Reschedule ==
    due' = [i \in Instruments |-> IF i \in Due THEN now + Interval[i]
                                                ELSE due[i]]

\* on_tick.  The interval skips the ticks it misses, so any time may pass.
OnTick ==
    /\ lastTick < now
    /\ lastTick' = now
    /\ Reschedule
    /\ Evaluate(Due, latest)
    /\ UNCHANGED <<now, ticks, latest>>

\* The clock moves on.
Elapse ==
    /\ now < MaxTime
    /\ now' = now + 1
    /\ UNCHANGED <<ticks, latest, factor, buf, due, last, first, samples, lastTick>>

\* Hermes always stamps a price, Binance never, CoinGecko if it cares to.
Times(f) ==
    {t \in {now - 1, now} : f \in Stamped /\ t >= 0}
      \cup {t \in {NoTime} : f \in Unstamped}

Next ==
    \/ \E f \in Feeds, v \in Prices : \E t \in Times(f) : OnUnderlying(f, v, t)
    \/ OnTick
    \/ Elapse

Spec == Init /\ [][Next]_vars

-----------------------------------------------------------------------------
(***************************************************************************)
(* Properties                                                              *)
(***************************************************************************)

\* An instrument none of whose transforms is a lag, and its value now.
Immediate == {i \in Instruments : \A tr \in ToSet(Transforms[i]) : tr.kind # "lag"}
ValueNow(i) == Through(Transforms[i], EvalBase(latest, i, factor[i], now))

\* What is served for an instrument without a lag always derives from the
\* newest observation of every one of its feeds, whichever of them moved last,
\* and not from the one that happened to trigger the evaluation.
NoStaleDerivation ==
    \A i \in Immediate \ Timed :
        ValueNow(i).known => last[i].ctx = ValueNow(i)

\* A derived point never looks fresher than any of its legs that carries a
\* time, as consumers take the age of publish_time_us for a halted market.
NeverFresherThanALeg ==
    \A i \in Immediate \ Timed : \A f \in LegSet(i) :
        ValueNow(i).known /\ latest[f].time # NoTime
        => last[i].ctx.time \in 0 .. latest[f].time

\* The transforms before and behind the k-th, the base values of i that reached
\* it, and those of them already as old as its lag when the newest did.
Before(i, k) == SubSeq(Transforms[i], 1, k - 1)
Behind(i, k) == SubSeq(Transforms[i], k + 1, Len(Transforms[i]))
Reached(i, k, n) == Through(Before(i, k), samples[i][n].ctx)
Given(i, k) == {n \in 1 .. Len(samples[i]) : Reached(i, k, n).known}
Old(i, k) ==
    {n \in Given(i, k) : samples[i][n].at
                           <= samples[i][Max(Given(i, k))].at - Transforms[i][k].ticks}

\* P(t - ms): after each evaluation, what a lagged instrument serves is made of
\* the newest value that was already as old as the lag, none older although
\* the buffer had a newer one, none too early, and none lost between
\* evaluations; transforms before the lag may keep a value from it, and those
\* behind it may refuse the value that comes out.
LagIsExact ==
    \A i \in Instruments : \A k \in DOMAIN Transforms[i] :
        Transforms[i][k].kind = "lag" /\ Given(i, k) # {} =>
            IF Old(i, k) = {} THEN last[i].ctx = None
            ELSE LET value == Through(Behind(i, k), Reached(i, k, Max(Old(i, k))))
                 IN  value.known => last[i].ctx = value

\* The first point of a basket is its rebase target exactly, and every later
\* one is measured on the same sum, though legs arrive one by one and a sum
\* of zero cannot be rebased on.
BasketKeepsItsBase ==
    \A i \in Instruments :
        Kind[i] = "basket" /\ Transforms[i] = <<>> /\ first[i] # NoPoint =>
            /\ first[i].ctx.value[1] = first[i].ctx.value[2]
            /\ last[i].ctx.value[2] = first[i].ctx.value[2]

\* A peg or gbm is never published faster than its interval: a burst of late
\* timer ticks does not advance a gbm by several steps at once.
TimedKeepsItsPace ==
    [][\A i \in Timed :
          last'[i] # last[i] /\ last[i] # NoPoint =>
              last'[i].at - last[i].at >= Interval[i]]_vars
=============================================================================
