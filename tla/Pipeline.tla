------------------------------ MODULE Pipeline ------------------------------
(***************************************************************************)
(* The oracle from its configuration to an answer of its API: the tasks    *)
(* run() starts (services/oracle/src/lib.rs).  A feed task per provider    *)
(* that has feeds reads the market and sends ticks into one bounded        *)
(* channel; the engine task selects between that channel and its own       *)
(* timer, and publishes the instruments.  Hermes and CoinGecko are polled; *)
(* the Binance task reads a websocket, keeps the latest book of each       *)
(* symbol and flushes on a timer.  What the engine computes and how a      *)
(* point is stored is in PricingEngine and PriceState; here the tick       *)
(* itself becomes the point served for the instruments of its symbol.      *)
(***************************************************************************)
EXTENDS Naturals, Sequences, OracleConfig

CONSTANTS
    Configs,    \* the configurations the oracle may be started with
    Market,     \* the sources that publish, a subset of Sources
    Capacity,   \* mpsc::channel(1024)
    MaxObs      \* MaxObs[src]: bound on the observations src makes

ASSUME PipelineAssumption ==
    /\ Configs \subseteq Configuration
    /\ Market \subseteq Sources
    /\ Capacity \in Nat \ {0}
    /\ MaxObs \in [Market -> Nat]

VARIABLES
    config,    \* the configuration, fixed
    market,    \* market[src]: number of the newest observation upstream
    wire,      \* wire[src]: how far the websocket task has read a stream
    book,      \* book[s]: the task's `latest` entry, or NoPoint
    conn,      \* the websocket connection
    todo,      \* todo[p]: the points the task of provider p is busy sending
    channel,   \* the tick channel
    engine,    \* the engine task; "refused": run() failed before it started
    served,    \* served[i]: the point the API answers for instrument i
    pulse      \* flips when the timer re-publishes the synthetic instruments

vars == <<config, market, wire, book, conn, todo, channel, engine, served, pulse>>

Streams == {src \in Market : src[1] = "binance"}
Names == Symbols \cup Mints
Point == UNION {[symbol : Symbols, src : {src}, no : 1 .. MaxObs[src]] : src \in Market}
NoPoint == [symbol |-> Unset, src |-> <<Unset, Unset>>, no |-> 0]
ClockPoint == [NoPoint EXCEPT !.src = <<"engine", Unset>>]
NoBook == [s \in Symbols |-> NoPoint]

Init ==
    /\ config \in Configs
    /\ market = [src \in Market |-> 0]
    /\ wire = [src \in Streams |-> 0]
    /\ book = NoBook
    /\ conn = "connecting"
    /\ todo = [p \in Providers |-> {}]
    /\ channel = <<>>
    /\ engine = IF Accepted(config) THEN "running" ELSE "refused"
    /\ served = [i \in Names |-> NoPoint]
    /\ pulse = FALSE

-----------------------------------------------------------------------------
(***************************************************************************)
(* The market and the feed tasks                                           *)
(***************************************************************************)
\* A source the configuration names publishes an observation.
MarketMoves(src) ==
    /\ Recipients(config, src[1], src[2]) # {}
    /\ market[src] < MaxObs[src]
    /\ market' = [market EXCEPT ![src] = @ + 1]
    /\ UNCHANGED <<config, wire, book, conn, todo, channel, engine, served, pulse>>

\* run() spawned a task for provider p, which holds a sender for ever.
Spawned(p) == engine # "refused" /\ ProviderFeeds(config, p) # {}

\* Mutant: the sends run in tasks of their own, and the loop goes on.
NeverBusy(p) == Spawned(p)

\* The task was spawned, and is not busy sending.
Idle(p) == Spawned(p) /\ todo[p] = {}

\* One poll.  Any id may be missing from the answer or unreadable; a failed
\* poll is the answer without ids.
Poll(p) ==
    /\ Idle(p)
    /\ \E answer \in SUBSET {src \in Market : src[1] = p /\ market[src] > 0} :
          todo' = [todo EXCEPT ![p] = @ \cup UNION
                      {{[symbol |-> s, src |-> src, no |-> market[src]] :
                            s \in Recipients(config, p, src[2])} :
                       src \in answer}]
    /\ UNCHANGED <<config, market, wire, book, conn, channel, engine, served, pulse>>

\* connect_async: the stream carries only changes from now on.
Connect ==
    /\ Idle("binance")
    /\ conn = "connecting"
    /\ conn' = "open"
    /\ wire' = [src \in Streams |-> market[src]]
    /\ UNCHANGED <<config, market, book, todo, channel, engine, served, pulse>>

\* stream.next(): a book, which may not parse.
ReadBook(src) ==
    /\ Idle("binance")
    /\ conn = "open"
    /\ wire[src] < market[src]
    /\ wire' = [wire EXCEPT ![src] = @ + 1]
    /\ \/ \E s \in Recipients(config, "binance", src[2]) :
             book' = [book EXCEPT ![s] =
                         [symbol |-> s, src |-> src, no |-> wire'[src]]]
       \/ UNCHANGED book
    /\ UNCHANGED <<config, market, conn, todo, channel, engine, served, pulse>>

\* flush.tick(): latest.drain()
Flush ==
    /\ Idle("binance")
    /\ conn = "open"
    /\ todo' = [todo EXCEPT !["binance"] = @ \cup (Range(book) \ {NoPoint})]
    /\ book' = NoBook
    /\ UNCHANGED <<config, market, wire, conn, channel, engine, served, pulse>>

\* An error, a close or a pong that cannot be sent: reconnect with a new
\* `latest`, so the books not yet flushed are dropped.
Disconnect ==
    /\ Idle("binance")
    /\ conn = "open"
    /\ conn' = "connecting"
    /\ book' = NoBook
    /\ wire' = [src \in Streams |-> 0]
    /\ UNCHANGED <<config, market, todo, channel, engine, served, pulse>>

\* Mutant: try_send, which gives up on a full channel.
TrySend(p) ==
    \E point \in todo[p] :
        /\ todo' = [todo EXCEPT ![p] = @ \ {point}]
        /\ channel' = IF Len(channel) < Capacity THEN Append(channel, point)
                                                 ELSE channel
        /\ UNCHANGED <<config, market, wire, book, conn, engine, served, pulse>>

\* ticks.send(point).await waits for room.  The engine is the only receiver
\* and never stops while a task holds a sender, so the send does not fail.
Send(p) ==
    \E point \in todo[p] :
        /\ Len(channel) < Capacity
        /\ todo' = [todo EXCEPT ![p] = @ \ {point}]
        /\ channel' = Append(channel, point)
        /\ UNCHANGED <<config, market, wire, book, conn, engine, served, pulse>>

-----------------------------------------------------------------------------
(***************************************************************************)
(* The engine task                                                         *)
(***************************************************************************)
Publish(instruments, point) ==
    served' = [i \in Names |-> IF i \in instruments THEN point ELSE served[i]]

\* on_underlying: every instrument of the tick's symbol.
Receive ==
    /\ engine = "running"
    /\ channel # <<>>
    /\ channel' = Tail(channel)
    /\ Publish(ByFeed(config, Head(channel).symbol), Head(channel))
    /\ UNCHANGED <<config, market, wire, book, conn, todo, engine, pulse>>

\* recv() is None once the channel is empty and every sender was dropped;
\* run() dropped its own, and a feed task keeps its sender for ever.
InputClosed == channel = <<>> /\ \A p \in Providers : ~Spawned(p)

\* None => break; the API goes on serving what it has.
EngineStops ==
    /\ engine = "running"
    /\ InputClosed
    /\ engine' = "stopped"
    /\ UNCHANGED <<config, market, wire, book, conn, todo, channel, served, pulse>>

\* interval.tick(): on_tick publishes the pegs and gbms that are due.
OnTick ==
    /\ engine = "running"
    /\ pulse' = ~pulse
    /\ Publish(Timed(config), ClockPoint)
    /\ UNCHANGED <<config, market, wire, book, conn, todo, channel, engine>>

-----------------------------------------------------------------------------
Next ==
    \/ \E src \in Market : MarketMoves(src)
    \/ \E src \in Streams : ReadBook(src)
    \/ \E p \in {"pyth", "coingecko"} : Poll(p)
    \/ Connect \/ Flush \/ Disconnect
    \/ \E p \in Providers : Send(p)
    \/ Receive \/ EngineStops \/ OnTick

Spec == Init /\ [][Next]_vars

\* Timers fire; the channel's semaphore grants its room in the order it was
\* asked for, so that a waiting sender is not overtaken for ever; tokio's
\* select! picks among its ready branches at random, so that none starves.
\* Neither the market, nor a poll, nor a connection attempt has to succeed.
FairSpec ==
    /\ Spec
    /\ WF_vars(Flush)
    /\ \A p \in Providers : SF_vars(Send(p))
    /\ WF_vars(Receive)
    /\ WF_vars(EngineStops)
    /\ WF_vars(OnTick)

-----------------------------------------------------------------------------
(***************************************************************************)
(* Properties                                                              *)
(***************************************************************************)

\* The point comes from where the instrument's configuration says: its own
\* clock, or a source that an underlying entry of its feed names.
FromItsFeed(instrument, point) ==
    IF instrument.feed = Unset THEN point = ClockPoint
    ELSE \E u \in ToSet(config.underlyings) :
             /\ u.symbol = instrument.feed
             /\ point.src[1] \in DOMAIN u.ids
             /\ u.ids[point.src[1]] = point.src[2]

\* What the API answers, asked by symbol or by mint, is the price of an
\* instrument configured with that symbol or mint, and was observed at a
\* source configured for its feed: ids shared by underlyings, symbols named
\* twice and mints named twice never mix up two markets (feed_task.rs,
\* binance.rs, coingecko.rs, from_config, one_price).
AnswersAreConfigured ==
    LET instruments == ToSet(config.instruments) IN
    /\ \A i \in Names : served[i] # NoPoint =>
           \E x \in instruments : Resolved(x) = i /\ FromItsFeed(x, served[i])
    /\ \A m \in Mints : LET i == SymbolForMint(config, m) IN
           i # Unset /\ served[i] # NoPoint =>
               \E x \in instruments : x.mint = m /\ FromItsFeed(x, served[i])

\* However the tasks, the channel and the flushes interleave, the point
\* served for an instrument never goes back to an older one of its source.
ServedGoesForward ==
    [][\A i \in Names :
          served'[i].src = served[i].src => served'[i].no >= served[i].no]_vars

\* The points some configuration has a task for.
Deliverable ==
    {x \in Point : \E c \in Configs : x.symbol \in Recipients(c, x.src[1], x.src[2])}

\* Backpressure delays a tick and never loses one: whatever a task has begun
\* to send is served in the end for every instrument of its symbol, or
\* something newer from the same source is.
TicksAreServed ==
    \A point \in Deliverable :
        (point \in todo[point.src[1]]) ~>
            \A i \in ByFeed(config, point.symbol) :
                served[i].src = point.src /\ served[i].no >= point.no

\* Coalescing loses no final value: the book that is the latest of its symbol
\* is served in the end, or a newer one, unless the connection is lost first
\* or another stream configured for the symbol takes its place.
LatestBookIsServed ==
    \A point \in {x \in Deliverable : x.src \in Streams} :
        (book[point.symbol] = point) ~>
            \/ conn = "connecting"
            \/ book[point.symbol].src \in Streams \ {point.src}
            \/ \A i \in ByFeed(config, point.symbol) :
                   served[i].src = point.src /\ served[i].no >= point.no

\* Pegs and gbms run on the engine's own timer: they go on being published
\* whatever the feeds do (docs/instrument-pricing.md).
SyntheticsKeepPublishing ==
    engine # "refused" => []<>pulse /\ []<>~pulse
=============================================================================
