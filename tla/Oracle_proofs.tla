--------------------------- MODULE Oracle_proofs ---------------------------
(***************************************************************************)
(* Proofs about the oracle: the way of an observation from its source to   *)
(* the API, for any configurations, any sources and any capacity of the    *)
(* tick channel; then AppState and its consumers, for any instruments, any *)
(* number of consumers, any backlog and any number of points.              *)
(***************************************************************************)
EXTENDS Pipeline, PriceState, Arithmetic_proofs

-----------------------------------------------------------------------------
(***************************************************************************)
(* The configuration                                                       *)
(***************************************************************************)
\* Whom an observation is for, an underlying names at the observation's
\* provider and id.
LEMMA RecipientsAreNamed ==
    ASSUME NEW c \in Configuration, NEW src \in Sources,
           NEW s \in Recipients(c, src[1], src[2])
    PROVE  /\ s \in Symbols
           /\ \E u \in ToSet(c.underlyings) :
                 /\ u.symbol = s
                 /\ src[1] \in DOMAIN u.ids
                 /\ u.ids[src[1]] = src[2]
<1> DEFINE list == c.underlyings
           naming == {k \in ProviderFeeds(c, src[1]) : list[k].ids[src[1]] = src[2]}
<1>1. /\ list \in Seq(Underlying) /\ Len(list) \in Nat
      /\ DOMAIN list = 1 .. Len(list)
  BY DEF Configuration
<1>2. naming \in SUBSET (1 .. Len(list))
  BY <1>1 DEF ProviderFeeds
<1>3. PICK k \in naming : s = list[k].symbol
  <2>1. naming # {}
    BY DEF Recipients
  <2>2. Max(naming) \in naming
    BY <1>1, <1>2, <2>1, MaxOfPositions
  <2>3. QED
    BY <2>1, <2>2 DEF Recipients
<1>4. /\ list[k] \in ToSet(list) /\ list[k] \in Underlying
      /\ src[1] \in DOMAIN list[k].ids /\ list[k].ids[src[1]] = src[2]
  BY <1>1, <1>2 DEF ProviderFeeds, ToSet
<1>5. QED
  BY <1>3, <1>4 DEF Underlying

\* An instrument that is accepted is the only one of its name.
LEMMA NamesAreUnique ==
    ASSUME NEW c, InstrumentsValid(c),
           NEW x \in ToSet(c.instruments), NEW y \in ToSet(c.instruments),
           Resolved(x) = Resolved(y)
    PROVE  x = y
  BY DEF InstrumentsValid, ToSet

\* So it is published for one feed.
LEMMA FeedsAreDisjoint ==
    ASSUME NEW c, InstrumentsValid(c), NEW s, NEW t, NEW i,
           i \in ByFeed(c, s), i \in ByFeed(c, t)
    PROVE  s = t
  BY NamesAreUnique DEF ByFeed

-----------------------------------------------------------------------------
(***************************************************************************)
(* The inductive invariant                                                 *)
(***************************************************************************)
\* An observation of a source, for one symbol.
Obs == [symbol : Symbols, src : Market, no : Nat \ {0}]
Valid(x) == x.symbol \in Recipients(config, x.src[1], x.src[2])

Types ==
    /\ config \in Configs
    /\ market \in [Market -> Nat]
    /\ wire \in [Streams -> Nat]
    /\ book \in [Symbols -> Obs \cup {NoPoint}]
    /\ todo \in [Providers -> SUBSET Obs]
    /\ channel \in Seq(Obs)
    /\ served \in [Names -> Obs \cup {NoPoint, ClockPoint}]
    /\ engine # "refused" => Accepted(config)

\* Where an observation is on its way.
InBook(x) == \E s \in Symbols : book[s] = x
InTodo(x) == \E p \in Providers : x \in todo[p]
InChannel(x) == \E j \in 1 .. Len(channel) : channel[j] = x
IsServed(x) == \E i \in Names : served[i] = x

\* Each task and each table holds what it is for.
InPlace ==
    /\ \A x \in Obs : InBook(x) \/ InTodo(x) \/ InChannel(x) => Valid(x)
    /\ \A p \in Providers : \A x \in todo[p] : x.src[1] = p
    /\ \A s \in Symbols : book[s] # NoPoint =>
           book[s].symbol = s /\ book[s].src \in Streams
    /\ \A i \in Names : served[i] # NoPoint => Accepted(config)
    /\ \A i \in Names : served[i] \in Obs =>
           Valid(served[i]) /\ i \in ByFeed(config, served[i].symbol)
    /\ \A i \in Names : served[i] = ClockPoint => i \in Timed(config)

\* No observation is newer than its source, or than what the open connection
\* has read of its stream.
Bounded ==
    /\ \A src \in Streams : wire[src] <= market[src]
    /\ \A x \in Obs :
           InBook(x) \/ InTodo(x) \/ InChannel(x) \/ IsServed(x) =>
               /\ x.no <= market[x.src]
               /\ conn = "open" /\ x.src \in Streams => x.no <= wire[x.src]

\* Of the observations of one source for one symbol, none is older than one
\* that is ahead of it.
Same(x, y) == x.symbol = y.symbol /\ x.src = y.src

InOrder ==
    /\ \A x, y \in Obs : Same(x, y) =>
           /\ IsServed(x) /\ (InChannel(y) \/ InTodo(y) \/ InBook(y)) =>
                  x.no <= y.no
           /\ InChannel(x) /\ (InTodo(y) \/ InBook(y)) => x.no <= y.no
           /\ InTodo(x) /\ (InTodo(y) \/ InBook(y)) => x.no <= y.no
    /\ \A j, k \in 1 .. Len(channel) :
           j < k /\ Same(channel[j], channel[k]) => channel[j].no <= channel[k].no

IndInv == Types /\ InPlace /\ Bounded /\ InOrder

-----------------------------------------------------------------------------
\* What is no observation.
LEMMA NoObs ==
    /\ NoPoint \notin Obs /\ ClockPoint \notin Obs /\ ClockPoint # NoPoint
    /\ NoPoint.no = 0 /\ ClockPoint.no = 0
    /\ \A x \in Obs : x.src # ClockPoint.src
<1>1. NoPoint.no = 0 /\ ClockPoint.no = 0 /\ \A x \in Obs : x.no # 0
  BY DEF NoPoint, ClockPoint, Obs
<1>2. ClockPoint.src = <<"engine", Unset>> /\ NoPoint.src = <<Unset, Unset>>
  BY DEF NoPoint, ClockPoint
<1>3. \A x \in Obs : x.src[1] \in Providers
  BY PipelineAssumption DEF Obs, Sources
<1>4. "engine" \notin Providers /\ "engine" # Unset
  BY DEF Providers, Unset
<1>5. QED
  BY <1>1, <1>2, <1>3, <1>4

\* A valid observation is for a symbol.
LEMMA ValidIsObs ==
    ASSUME Types, NEW src \in Market, NEW s \in Recipients(config, src[1], src[2]),
           NEW n \in Nat \ {0}
    PROVE  [symbol |-> s, src |-> src, no |-> n] \in Obs
  BY RecipientsAreNamed, PipelineAssumption DEF Types, Obs

\* Nothing has been observed in the initial state.
LEMMA InitInvariant == Init => IndInv
<1> SUFFICES ASSUME Init PROVE IndInv
  OBVIOUS
<1>1. Types
  BY DEF Init, Types, NoBook, Streams
<1>2. /\ \A x \in Obs : ~InBook(x) /\ ~InTodo(x) /\ ~InChannel(x) /\ ~IsServed(x)
      /\ \A i \in Names : served[i] = NoPoint
      /\ \A s \in Symbols : book[s] = NoPoint
      /\ \A p \in Providers : todo[p] = {}
      /\ channel = <<>>
  BY NoObs DEF Init, InBook, InTodo, InChannel, IsServed, NoBook
<1>3. InPlace
  BY <1>2, NoObs DEF InPlace
<1>4. Bounded
  BY <1>2 DEF Init, Bounded, Streams
<1>5. InOrder
  BY <1>2 DEF InOrder
<1>6. QED
  BY <1>1, <1>3, <1>4, <1>5 DEF IndInv

-----------------------------------------------------------------------------
(***************************************************************************)
(* Steps that add no observation                                           *)
(***************************************************************************)
\* A step that only removes observations, or lets sources and streams advance,
\* preserves the order and the bounds.
LEMMA NothingAdded ==
    ASSUME IndInv, Types', UNCHANGED <<config, channel>>,
           \A x \in Obs : (InBook(x)' => InBook(x)) /\ (InTodo(x)' => InTodo(x))
                          /\ (IsServed(x)' => IsServed(x)),
           \A src \in Market : market[src] <= market'[src],
           \A src \in Streams : wire'[src] <= market'[src],
           conn' = "open" =>
               \A src \in Streams :
                   \/ wire'[src] = market'[src]
                   \/ conn = "open" /\ wire[src] <= wire'[src]
    PROVE  Bounded' /\ InOrder'
<1>1. \A x : InChannel(x)' <=> InChannel(x)
  BY DEF InChannel
<1>2. Bounded'
  <2> SUFFICES ASSUME NEW x \in Obs,
                      InBook(x) \/ InTodo(x) \/ InChannel(x) \/ IsServed(x)
               PROVE  /\ x.no <= market'[x.src]
                      /\ conn' = "open" /\ x.src \in Streams =>
                             x.no <= wire'[x.src]
    BY <1>1 DEF Bounded
  <2>1. x.no <= market[x.src] /\ x.src \in Market /\ x.no \in Nat
    BY DEF IndInv, Bounded, Obs
  <2>2. market[x.src] \in Nat /\ market'[x.src] \in Nat
    BY <2>1 DEF IndInv, Types
  <2>3. x.no <= market'[x.src]
    BY <2>1, <2>2
  <2>4. ASSUME conn' = "open", x.src \in Streams
        PROVE  x.no <= wire'[x.src]
    <3>1. wire[x.src] \in Nat /\ wire'[x.src] \in Nat
      BY <2>4 DEF IndInv, Types
    <3>2. CASE wire'[x.src] = market'[x.src]
      BY <2>3, <3>2
    <3>3. CASE conn = "open" /\ wire[x.src] <= wire'[x.src]
      <4>1. x.no <= wire[x.src]
        BY <2>4, <3>3 DEF IndInv, Bounded
      <4>2. QED
        BY <2>1, <3>1, <3>3, <4>1
    <3>4. QED
      BY <2>4, <3>2, <3>3
  <2>5. QED
    BY <2>3, <2>4
<1>3. InOrder'
  BY <1>1 DEF IndInv, InOrder
<1>4. QED
  BY <1>2, <1>3

\* A source publishes.
LEMMA MarketMovesInvariant ==
    ASSUME IndInv, NEW src \in Market, MarketMoves(src)
    PROVE  IndInv'
<1>1. /\ market' = [market EXCEPT ![src] = @ + 1]
      /\ UNCHANGED <<config, wire, book, conn, todo, channel, engine, served, pulse>>
  BY DEF MarketMoves
<1>2. Types'
  BY <1>1 DEF IndInv, Types
<1>3. InPlace'
  BY <1>1 DEF IndInv, InPlace, InBook, InTodo, InChannel, Valid
<1>4. \A t \in Market : market[t] \in Nat /\ market[t] <= market'[t]
  BY <1>1 DEF IndInv, Types
<1>5. \A t \in Streams : wire[t] \in Nat /\ wire[t] <= market[t] /\ t \in Market
  BY DEF IndInv, Bounded, Types, Streams
<1>6. \A t \in Streams : wire'[t] <= market'[t] /\ wire[t] <= wire'[t]
  BY <1>1, <1>2, <1>4, <1>5 DEF Types
<1>7. Bounded' /\ InOrder'
  <2>1. \A x \in Obs : (InBook(x)' => InBook(x)) /\ (InTodo(x)' => InTodo(x))
                       /\ (IsServed(x)' => IsServed(x))
    BY <1>1 DEF InBook, InTodo, IsServed
  <2>2. QED
    BY <1>1, <1>2, <1>4, <1>6, <2>1, NothingAdded
<1>8. QED
  BY <1>2, <1>3, <1>7 DEF IndInv

\* A connection starts where the streams are, so that nothing on its way is
\* newer.
LEMMA ConnectInvariant == ASSUME IndInv, Connect PROVE IndInv'
<1>1. /\ conn' = "open" /\ wire' = [src \in Streams |-> market[src]]
      /\ UNCHANGED <<config, market, book, todo, channel, engine, served, pulse>>
  BY DEF Connect
<1>2. \A src \in Streams : src \in Market /\ market[src] \in Nat
                           /\ wire'[src] = market[src]
  BY <1>1 DEF IndInv, Types, Streams
<1>3. Types'
  BY <1>1, <1>2 DEF IndInv, Types
<1>4. InPlace'
  BY <1>1 DEF IndInv, InPlace, InBook, InTodo, InChannel, Valid
<1>5. Bounded' /\ InOrder'
  <2>1. \A x \in Obs : (InBook(x)' => InBook(x)) /\ (InTodo(x)' => InTodo(x))
                       /\ (IsServed(x)' => IsServed(x))
    BY <1>1 DEF InBook, InTodo, IsServed
  <2>2. /\ \A src \in Market : market[src] <= market'[src]
        /\ \A src \in Streams : wire'[src] <= market'[src]
    BY <1>1, <1>2 DEF IndInv, Types
  <2>3. QED
    BY <1>1, <1>2, <1>3, <2>1, <2>2, NothingAdded
<1>6. QED
  BY <1>3, <1>4, <1>5 DEF IndInv

\* A lost connection takes the books that were not flushed with it.
LEMMA DisconnectInvariant == ASSUME IndInv, Disconnect PROVE IndInv'
<1>1. /\ conn' = "connecting" /\ wire' = [src \in Streams |-> 0]
      /\ book' = NoBook
      /\ UNCHANGED <<config, market, todo, channel, engine, served, pulse>>
  BY DEF Disconnect
<1>2. \A s \in Symbols : book'[s] = NoPoint
  BY <1>1 DEF NoBook
<1>3. Types'
  BY <1>1 DEF IndInv, Types, NoBook
<1>4. \A x \in Obs : ~InBook(x)' /\ (InTodo(x)' => InTodo(x))
                     /\ (IsServed(x)' => IsServed(x))
  BY <1>1, <1>2, NoObs DEF InBook, InTodo, IsServed
<1>5. InPlace'
  BY <1>1, <1>2, <1>4 DEF IndInv, InPlace, InTodo, InChannel, Valid
<1>6. Bounded' /\ InOrder'
  <2>1. /\ \A src \in Market : market[src] <= market'[src]
        /\ \A src \in Streams : wire'[src] <= market'[src]
    BY <1>1 DEF IndInv, Types, Streams
  <2>2. QED
    BY <1>1, <1>3, <1>4, <2>1, NothingAdded
<1>7. QED
  BY <1>3, <1>5, <1>6 DEF IndInv

\* The clock publishes points of its own.
LEMMA OnTickInvariant == ASSUME IndInv, OnTick PROVE IndInv'
<1>1. /\ engine = "running"
      /\ served' = [i \in Names |-> IF i \in Timed(config) THEN ClockPoint
                                    ELSE served[i]]
      /\ UNCHANGED <<config, market, wire, book, conn, todo, channel, engine>>
  BY DEF OnTick, Publish
<1>2. Types'
  BY <1>1 DEF IndInv, Types
<1>3. Accepted(config)
  BY <1>1 DEF IndInv, Types
<1>4. \A i \in Names : served'[i] = served[i]
                       \/ (i \in Timed(config) /\ served'[i] = ClockPoint)
  BY <1>1
<1>5. InPlace'
  <2>1. \A i \in Names : served'[i] # NoPoint => Accepted(config)
    BY <1>3
  <2>2. \A i \in Names : served'[i] \in Obs =>
            Valid(served'[i]) /\ i \in ByFeed(config, served'[i].symbol)
    BY <1>4, NoObs DEF IndInv, InPlace
  <2>3. \A i \in Names : served'[i] = ClockPoint => i \in Timed(config)
    BY <1>4 DEF IndInv, InPlace
  <2>4. QED
    BY <1>1, <2>1, <2>2, <2>3
       DEF IndInv, InPlace, InBook, InTodo, InChannel, Valid
<1>6. Bounded' /\ InOrder'
  <2>1. \A x \in Obs : (InBook(x)' => InBook(x)) /\ (InTodo(x)' => InTodo(x))
                       /\ (IsServed(x)' => IsServed(x))
    BY <1>1, <1>4, NoObs DEF InBook, InTodo, IsServed
  <2>2. /\ \A src \in Market : market[src] <= market'[src]
        /\ \A src \in Streams : wire'[src] <= market'[src]
        /\ \A src \in Streams : wire[src] <= wire'[src]
    BY <1>1 DEF IndInv, Types, Bounded
  <2>3. QED
    BY <1>1, <1>2, <2>1, <2>2, NothingAdded
<1>7. QED
  BY <1>2, <1>5, <1>6 DEF IndInv

\* The engine stops; nothing moves but its state.
LEMMA EngineStopsInvariant == ASSUME IndInv, EngineStops PROVE IndInv'
<1>1. /\ engine = "running"
      /\ UNCHANGED <<config, market, wire, book, conn, todo, channel, served>>
  BY DEF EngineStops
<1>2. Types'
  BY <1>1 DEF IndInv, Types
<1>3. InPlace' /\ Bounded' /\ InOrder'
  BY <1>1 DEF IndInv, InPlace, Bounded, InOrder, InBook, InTodo, InChannel,
              IsServed, Valid
<1>4. QED
  BY <1>2, <1>3 DEF IndInv

-----------------------------------------------------------------------------
(***************************************************************************)
(* Steps that bring or carry an observation                                *)
(***************************************************************************)
\* The websocket task reads a book: at the end of its stream, so no older
\* than whatever is on its way from there.
LEMMA ReadBookInvariant ==
    ASSUME IndInv, NEW src \in Streams, ReadBook(src)
    PROVE  IndInv'
<1>1. /\ conn = "open" /\ wire[src] < market[src]
      /\ wire' = [wire EXCEPT ![src] = @ + 1]
      /\ UNCHANGED <<config, market, conn, todo, channel, engine, served, pulse>>
  BY DEF ReadBook
<1>2. /\ src \in Market /\ src \in Sources /\ src[1] = "binance"
      /\ market[src] \in Nat /\ wire[src] \in Nat
  BY PipelineAssumption DEF IndInv, Types, Streams
<1>3. /\ wire' \in [Streams -> Nat] /\ wire'[src] \in Nat \ {0}
      /\ wire'[src] = wire[src] + 1
      /\ \A t \in Streams : wire[t] <= wire'[t] /\ wire'[t] <= market'[t]
  <2>1. \A t \in Streams : wire[t] \in Nat /\ t \in Market /\ market[t] \in Nat
                           /\ wire[t] <= market[t]
    BY DEF IndInv, Types, Bounded, Streams
  <2>2. \A t \in Streams : wire'[t] = IF t = src THEN wire[t] + 1 ELSE wire[t]
    BY <1>1 DEF IndInv, Types
  <2>3. wire' \in [Streams -> Nat]
    BY <1>1, <1>2 DEF IndInv, Types
  <2>4. QED
    BY <1>1, <1>2, <2>1, <2>2, <2>3
<1>4. CASE UNCHANGED book
  <2>1. Types'
    BY <1>1, <1>3, <1>4 DEF IndInv, Types
  <2>2. InPlace'
    BY <1>1, <1>4 DEF IndInv, InPlace, InBook, InTodo, InChannel, Valid
  <2>3. \A x \in Obs : (InBook(x)' => InBook(x)) /\ (InTodo(x)' => InTodo(x))
                       /\ (IsServed(x)' => IsServed(x))
    BY <1>1, <1>4 DEF InBook, InTodo, IsServed
  <2>4. \A t \in Market : market[t] <= market'[t]
    BY <1>1 DEF IndInv, Types
  <2>5. QED
    BY <1>1, <1>3, <2>1, <2>2, <2>3, <2>4, NothingAdded DEF IndInv
<1>5. CASE \E s \in Recipients(config, "binance", src[2]) :
               book' = [book EXCEPT ![s] =
                           [symbol |-> s, src |-> src, no |-> wire'[src]]]
  <2>1. PICK s \in Recipients(config, src[1], src[2]) :
            book' = [book EXCEPT ![s] =
                        [symbol |-> s, src |-> src, no |-> wire'[src]]]
    BY <1>2, <1>5
  <2> DEFINE new == [symbol |-> s, src |-> src, no |-> wire'[src]]
  <2>2. new \in Obs /\ s \in Symbols /\ new.no = wire'[src]
        /\ new.symbol = s /\ new.src = src /\ Valid(new)
    <3>1. s \in Symbols
      BY <1>2, RecipientsAreNamed, PipelineAssumption DEF IndInv, Types
    <3>2. new \in Obs
      BY <1>2, <1>3, ValidIsObs DEF IndInv
    <3>3. Valid(new)
      BY DEF Valid
    <3>4. QED
      BY <3>1, <3>2, <3>3
  <2> HIDE DEF new
  <2>3. \A t \in Symbols : book'[t] = IF t = s THEN new ELSE book[t]
    BY <2>1, <2>2 DEF IndInv, Types, new
  <2>4. Types'
    <3>1. book' \in [Symbols -> Obs \cup {NoPoint}]
      BY <2>1, <2>2 DEF IndInv, Types, new
    <3>2. QED
      BY <1>1, <1>3, <3>1 DEF IndInv, Types
  <2>5. /\ \A x \in Obs : InBook(x)' => InBook(x) \/ x = new
        /\ \A x : (InTodo(x)' <=> InTodo(x)) /\ (InChannel(x)' <=> InChannel(x))
                  /\ (IsServed(x)' <=> IsServed(x))
    BY <1>1, <2>3 DEF InBook, InTodo, InChannel, IsServed
  <2>6. InPlace'
    <3>1. \A x \in Obs : (InBook(x) \/ InTodo(x) \/ InChannel(x))' => Valid(x)'
      BY <1>1, <2>2, <2>5 DEF IndInv, InPlace, Valid
    <3>2. \A t \in Symbols : book'[t] # NoPoint =>
              book'[t].symbol = t /\ book'[t].src \in Streams
      BY <2>2, <2>3 DEF IndInv, InPlace
    <3>3. QED
      BY <1>1, <3>1, <3>2 DEF IndInv, InPlace, Valid
  <2>7. \A x \in Obs : InBook(x) \/ InTodo(x) \/ InChannel(x) \/ IsServed(x) =>
            /\ x.no \in Nat /\ x.no <= market[x.src]
            /\ x.src \in Streams =>
                   /\ wire[x.src] \in Nat /\ wire'[x.src] \in Nat
                   /\ x.no <= wire[x.src] /\ x.no <= wire'[x.src]
    <3>1. \A t \in Streams : wire[t] \in Nat /\ wire'[t] \in Nat
      BY <1>3 DEF IndInv, Types
    <3>2. \A x \in Obs : x.no \in Nat
      BY DEF Obs
    <3>3. QED
      BY <1>1, <1>3, <3>1, <3>2 DEF IndInv, Bounded
  <2>8. Bounded'
    BY <1>1, <1>2, <1>3, <2>2, <2>5, <2>7 DEF Bounded
  <2>9. \A x \in Obs :
            InBook(x) \/ InTodo(x) \/ InChannel(x) \/ IsServed(x) =>
                (Same(x, new) => x.no <= new.no)
    BY <2>2, <2>7 DEF Same
  <2>10. \A x, y \in Obs : InBook(y)' /\ Same(x, y) /\ y # new => InBook(y)
    BY <2>5
  <2>11. InOrder'
    <3> SUFFICES ASSUME NEW x \in Obs, NEW y \in Obs, Same(x, y)
                 PROVE  /\ IsServed(x)' /\ (InChannel(y) \/ InTodo(y) \/ InBook(y))' =>
                               x.no <= y.no
                        /\ InChannel(x)' /\ (InTodo(y) \/ InBook(y))' => x.no <= y.no
                        /\ InTodo(x)' /\ (InTodo(y) \/ InBook(y))' => x.no <= y.no
      BY <1>1 DEF IndInv, InOrder, Same
    <3>1. CASE y = new
      BY <2>5, <2>9, <3>1 DEF IndInv, InOrder
    <3>2. CASE y # new
      BY <2>5, <3>2 DEF IndInv, InOrder
    <3>3. QED
      BY <3>1, <3>2
  <2>12. QED
    BY <2>4, <2>6, <2>8, <2>11 DEF IndInv
<1>6. QED
  BY <1>4, <1>5 DEF ReadBook

\* A poll answers with the newest observation of each source.
LEMMA PollInvariant ==
    ASSUME IndInv, NEW p \in {"pyth", "coingecko"}, Poll(p)
    PROVE  IndInv'
<1>1. PICK answer \in SUBSET {src \in Market : src[1] = p /\ market[src] > 0} :
          todo' = [todo EXCEPT ![p] = @ \cup UNION
                      {{[symbol |-> s, src |-> src, no |-> market[src]] :
                            s \in Recipients(config, p, src[2])} : src \in answer}]
  BY DEF Poll
<1>2. /\ todo[p] = {} /\ p \in Providers /\ p # "binance"
      /\ UNCHANGED <<config, market, wire, book, conn, channel, engine, served, pulse>>
  BY DEF Poll, Idle, Providers
<1> DEFINE new == UNION {{[symbol |-> s, src |-> src, no |-> market[src]] :
                              s \in Recipients(config, p, src[2])} : src \in answer}
<1>3. \A x \in new : /\ x \in Obs /\ Valid(x) /\ x.src[1] = p
                     /\ x.no = market[x.src] /\ x.src \notin Streams
  <2> SUFFICES ASSUME NEW src \in answer,
                      NEW s \in Recipients(config, p, src[2])
               PROVE  LET x == [symbol |-> s, src |-> src, no |-> market[src]]
                      IN  /\ x \in Obs /\ Valid(x) /\ x.src[1] = p
                          /\ x.no = market[x.src] /\ x.src \notin Streams
    OBVIOUS
  <2>1. /\ src \in Market /\ src[1] = p /\ market[src] \in Nat \ {0}
    BY DEF IndInv, Types
  <2>2. s \in Recipients(config, src[1], src[2])
    BY <2>1
  <2>3. [symbol |-> s, src |-> src, no |-> market[src]] \in Obs
    BY <2>1, <2>2, ValidIsObs DEF IndInv
  <2>4. QED
    BY <1>2, <2>1, <2>2, <2>3 DEF Valid, Streams
<1> HIDE DEF new
<1>4. \A q \in Providers : todo'[q] = IF q = p THEN new ELSE todo[q]
  BY <1>1, <1>2 DEF IndInv, Types, new
<1>5. Types'
  <2>1. todo' \in [Providers -> SUBSET Obs]
    BY <1>1, <1>2, <1>3 DEF IndInv, Types, new
  <2>2. QED
    BY <1>2, <2>1 DEF IndInv, Types
<1>6. /\ \A x \in Obs : InTodo(x)' => InTodo(x) \/ x \in new
      /\ \A x : (InBook(x)' <=> InBook(x)) /\ (InChannel(x)' <=> InChannel(x))
                /\ (IsServed(x)' <=> IsServed(x))
  BY <1>2, <1>4 DEF InBook, InTodo, InChannel, IsServed
<1>7. InPlace'
  <2>1. \A x \in Obs : (InBook(x) \/ InTodo(x) \/ InChannel(x))' => Valid(x)'
    BY <1>2, <1>3, <1>6 DEF IndInv, InPlace, Valid
  <2>2. \A q \in Providers : \A x \in todo'[q] : x.src[1] = q
    BY <1>3, <1>4 DEF IndInv, InPlace
  <2>3. QED
    BY <1>2, <2>1, <2>2 DEF IndInv, InPlace, Valid
<1>8. \A x \in new : x.no \in Nat /\ x.no <= market[x.src]
  BY <1>3 DEF Obs
<1>9. Bounded'
  BY <1>2, <1>3, <1>6, <1>8 DEF IndInv, Bounded
\* Whatever is on its way from the same source is no newer; and nothing of it
\* is in the hands of another task.
<1>10. \A x \in Obs : \A y \in new :
           InTodo(x) \/ InChannel(x) \/ IsServed(x) =>
               (Same(x, y) => x.no <= y.no)
  BY <1>3 DEF IndInv, Bounded, Same
<1>11. \A x \in new : \A y \in Obs : Same(x, y) => ~InTodo(y) /\ ~InBook(y)
  <2> SUFFICES ASSUME NEW x \in new, NEW y \in Obs, x.src = y.src
               PROVE  ~InTodo(y) /\ ~InBook(y)
    BY DEF Same
  <2>1. ~InTodo(y)
    BY <1>2, <1>3 DEF IndInv, InPlace, InTodo
  <2>2. ~InBook(y)
    BY <1>3, NoObs DEF IndInv, InPlace, InBook
  <2>3. QED
    BY <2>1, <2>2
<1>12. \A x, y \in new : Same(x, y) => x.no <= y.no
  BY <1>3, <1>8 DEF Same, Obs
<1>13. InOrder'
  <2> SUFFICES ASSUME NEW x \in Obs, NEW y \in Obs, Same(x, y)
               PROVE  /\ IsServed(x)' /\ (InChannel(y) \/ InTodo(y) \/ InBook(y))' =>
                             x.no <= y.no
                      /\ InChannel(x)' /\ (InTodo(y) \/ InBook(y))' => x.no <= y.no
                      /\ InTodo(x)' /\ (InTodo(y) \/ InBook(y))' => x.no <= y.no
    BY <1>2 DEF IndInv, InOrder, Same
  <2>1. CASE y \in new
    BY <1>6, <1>10, <1>11, <1>12, <2>1 DEF IndInv, InOrder
  <2>2. CASE y \notin new
    BY <1>6, <1>11, <2>2 DEF IndInv, InOrder
  <2>3. QED
    BY <2>1, <2>2
<1>14. QED
  BY <1>5, <1>7, <1>9, <1>13 DEF IndInv

\* A flush hands over the books, each the latest of its symbol.
LEMMA FlushInvariant == ASSUME IndInv, Flush PROVE IndInv'
<1> DEFINE new == Range(book) \ {NoPoint}
<1>1. /\ todo["binance"] = {} /\ "binance" \in Providers
      /\ todo' = [todo EXCEPT !["binance"] = @ \cup new]
      /\ book' = NoBook
      /\ UNCHANGED <<config, market, wire, conn, channel, engine, served, pulse>>
  BY DEF Flush, Idle, Providers
<1>2. \A x \in new : x \in Obs /\ InBook(x) /\ x # NoPoint
  BY DEF IndInv, Types, InBook, Range
<1>3. \A x \in new : x.src[1] = "binance"
  BY <1>2 DEF IndInv, InPlace, InBook, Streams
<1> HIDE DEF new
<1>4. \A q \in Providers : todo'[q] = IF q = "binance" THEN new ELSE todo[q]
  BY <1>1 DEF IndInv, Types
<1>5. \A s \in Symbols : book'[s] = NoPoint
  BY <1>1 DEF NoBook
<1>6. Types'
  <2>1. todo' \in [Providers -> SUBSET Obs]
    BY <1>1, <1>2 DEF IndInv, Types
  <2>2. book' \in [Symbols -> Obs \cup {NoPoint}]
    BY <1>1 DEF NoBook
  <2>3. QED
    BY <1>1, <2>1, <2>2 DEF IndInv, Types
<1>7. /\ \A x \in Obs : InTodo(x)' => InTodo(x) \/ InBook(x)
      /\ \A x \in Obs : ~InBook(x)'
      /\ \A x : (InChannel(x)' <=> InChannel(x)) /\ (IsServed(x)' <=> IsServed(x))
  BY <1>1, <1>2, <1>4, <1>5, NoObs DEF InBook, InTodo, InChannel, IsServed
<1>8. InPlace'
  <2>1. \A x \in Obs : (InBook(x) \/ InTodo(x) \/ InChannel(x))' => Valid(x)'
    BY <1>1, <1>7 DEF IndInv, InPlace, Valid
  <2>2. \A q \in Providers : \A x \in todo'[q] : x.src[1] = q
    BY <1>3, <1>4 DEF IndInv, InPlace
  <2>3. QED
    BY <1>1, <1>5, <2>1, <2>2 DEF IndInv, InPlace, Valid
<1>9. Bounded'
  BY <1>1, <1>7 DEF IndInv, Bounded
\* Two books of one source and one symbol are one book.
<1>10. \A x, y \in Obs : InTodo(x)' /\ InTodo(y)' /\ Same(x, y) => x.no <= y.no
  <2> SUFFICES ASSUME NEW x \in Obs, NEW y \in Obs, InTodo(x)', InTodo(y)',
                      Same(x, y)
               PROVE  x.no <= y.no
    OBVIOUS
  <2>1. PICK q \in Providers : x \in todo'[q]
    BY DEF InTodo
  <2>2. PICK r \in Providers : y \in todo'[r]
    BY DEF InTodo
  <2>3. q = r
    <3>1. x.src[1] = q
      BY <2>1, <1>8 DEF InPlace
    <3>2. y.src[1] = r
      BY <2>2, <1>8 DEF InPlace
    <3>3. QED
      BY <3>1, <3>2 DEF Same
  <2>4. CASE q = "binance"
    <3>1. x \in new /\ y \in new
      BY <1>4, <2>1, <2>2, <2>3, <2>4
    <3>2. PICK s \in Symbols : book[s] = x
      BY <1>2, <3>1 DEF InBook
    <3>3. PICK t \in Symbols : book[t] = y
      BY <1>2, <3>1 DEF InBook
    <3>4. s = t
      BY <1>2, <3>1, <3>2, <3>3 DEF IndInv, InPlace, Same
    <3>5. x = y /\ x.no \in Nat
      BY <3>2, <3>3, <3>4 DEF Obs
    <3>6. QED
      BY <3>5
  <2>5. CASE q # "binance"
    <3>1. InTodo(x) /\ InTodo(y)
      BY <1>4, <2>1, <2>2, <2>3, <2>5 DEF InTodo
    <3>2. QED
      BY <3>1 DEF IndInv, InOrder
  <2>6. QED
    BY <2>4, <2>5
<1>11. InOrder'
  <2> SUFFICES ASSUME NEW x \in Obs, NEW y \in Obs, Same(x, y)
               PROVE  /\ IsServed(x)' /\ (InChannel(y) \/ InTodo(y) \/ InBook(y))' =>
                             x.no <= y.no
                      /\ InChannel(x)' /\ (InTodo(y) \/ InBook(y))' => x.no <= y.no
                      /\ InTodo(x)' /\ (InTodo(y) \/ InBook(y))' => x.no <= y.no
    BY <1>1 DEF IndInv, InOrder, Same
  <2>1. QED
    BY <1>7, <1>10 DEF IndInv, InOrder
<1>12. QED
  BY <1>6, <1>8, <1>9, <1>11 DEF IndInv

\* A send moves an observation to the end of the channel.
LEMMA SendInvariant ==
    ASSUME IndInv, NEW p \in Providers, Send(p)
    PROVE  IndInv'
<1>1. PICK point \in todo[p] : /\ todo' = [todo EXCEPT ![p] = @ \ {point}]
                               /\ channel' = Append(channel, point)
  BY DEF Send
<1>2. UNCHANGED <<config, market, wire, book, conn, engine, served, pulse>>
  BY DEF Send
<1>3. point \in Obs /\ InTodo(point) /\ channel \in Seq(Obs) /\ point.no \in Nat
  BY DEF IndInv, Types, InTodo, Obs
<1>4. /\ Len(channel) \in Nat /\ Len(channel') = Len(channel) + 1
      /\ \A j \in 1 .. Len(channel') :
             \/ j \in 1 .. Len(channel) /\ channel'[j] = channel[j]
             \/ j = Len(channel) + 1 /\ channel'[j] = point
      /\ \A j \in 1 .. Len(channel) : channel[j] \in Obs
  BY <1>1, <1>3
<1>5. /\ \A q \in Providers : todo'[q] \subseteq todo[q]
      /\ \A x : InTodo(x)' => InTodo(x)
      /\ \A x : InChannel(x)' => InChannel(x) \/ x = point
      /\ \A x : (InBook(x)' <=> InBook(x)) /\ (IsServed(x)' <=> IsServed(x))
  BY <1>1, <1>2, <1>4 DEF IndInv, Types, InTodo, InChannel, InBook, IsServed
<1>6. Types'
  <2>1. todo' \in [Providers -> SUBSET Obs]
    BY <1>1 DEF IndInv, Types
  <2>2. channel' \in Seq(Obs)
    BY <1>1, <1>3
  <2>3. QED
    BY <1>2, <2>1, <2>2 DEF IndInv, Types
<1>7. InPlace'
  <2>1. \A x \in Obs : (InBook(x) \/ InTodo(x) \/ InChannel(x))' => Valid(x)'
    BY <1>2, <1>3, <1>5 DEF IndInv, InPlace, Valid
  <2>2. \A q \in Providers : \A x \in todo'[q] : x.src[1] = q
    BY <1>5 DEF IndInv, InPlace
  <2>3. QED
    BY <1>2, <2>1, <2>2 DEF IndInv, InPlace, Valid
<1>8. Bounded'
  BY <1>2, <1>3, <1>5 DEF IndInv, Bounded
<1>9. \A j, k \in 1 .. Len(channel') :
          j < k /\ Same(channel'[j], channel'[k]) => channel'[j].no <= channel'[k].no
  <2> SUFFICES ASSUME NEW j \in 1 .. Len(channel'), NEW k \in 1 .. Len(channel'),
                      j < k, Same(channel'[j], channel'[k])
               PROVE  channel'[j].no <= channel'[k].no
    OBVIOUS
  <2>1. j \in 1 .. Len(channel) /\ channel'[j] = channel[j]
    BY <1>4
  <2>2. CASE k \in 1 .. Len(channel) /\ channel'[k] = channel[k]
    BY <2>1, <2>2 DEF IndInv, InOrder
  <2>3. CASE channel'[k] = point
    <3>1. InChannel(channel[j]) /\ channel[j] \in Obs
      BY <1>4, <2>1 DEF InChannel
    <3>2. QED
      BY <1>3, <2>1, <2>3, <3>1 DEF IndInv, InOrder
  <2>4. QED
    BY <1>4, <2>2, <2>3
<1>10. InOrder'
  <2> SUFFICES ASSUME NEW x \in Obs, NEW y \in Obs, Same(x, y)
               PROVE  /\ IsServed(x)' /\ (InChannel(y) \/ InTodo(y) \/ InBook(y))' =>
                             x.no <= y.no
                      /\ InChannel(x)' /\ (InTodo(y) \/ InBook(y))' => x.no <= y.no
                      /\ InTodo(x)' /\ (InTodo(y) \/ InBook(y))' => x.no <= y.no
    BY <1>9 DEF InOrder, Same
  <2>1. QED
    BY <1>3, <1>5 DEF IndInv, InOrder
<1>11. QED
  BY <1>6, <1>7, <1>8, <1>10 DEF IndInv

\* The engine publishes the first of the channel.
LEMMA ReceiveInvariant == ASSUME IndInv, Receive PROVE IndInv'
<1> DEFINE point == Head(channel)
<1>1. /\ engine = "running" /\ channel # <<>> /\ channel' = Tail(channel)
      /\ UNCHANGED <<config, market, wire, book, conn, todo, engine, pulse>>
      /\ served' = [i \in Names |-> IF i \in ByFeed(config, point.symbol)
                                    THEN point ELSE served[i]]
  BY DEF Receive, Publish
<1>2. channel \in Seq(Obs) /\ Accepted(config)
  BY <1>1 DEF IndInv, Types
<1>3. /\ Len(channel) \in Nat \ {0} /\ point = channel[1] /\ point \in Obs
      /\ Tail(channel) \in Seq(Obs) /\ Len(channel') = Len(channel) - 1
      /\ \A j \in 1 .. Len(channel') :
             j + 1 \in 1 .. Len(channel) /\ channel'[j] = channel[j + 1]
      /\ \A j \in 1 .. Len(channel) : channel[j] \in Obs
  BY <1>1, <1>2
<1>4. InChannel(point) /\ point.no \in Nat
  BY <1>3 DEF InChannel, Obs
<1> HIDE DEF point
<1>5. \A i \in Names : \/ served'[i] = served[i]
                       \/ served'[i] = point /\ i \in ByFeed(config, point.symbol)
  BY <1>1
<1>6. /\ \A x : InChannel(x)' => InChannel(x)
      /\ \A x : (InTodo(x)' <=> InTodo(x)) /\ (InBook(x)' <=> InBook(x))
      /\ \A x : IsServed(x)' => IsServed(x) \/ x = point
  BY <1>1, <1>3, <1>5 DEF InTodo, InChannel, InBook, IsServed
<1>7. Types'
  <2>1. served' \in [Names -> Obs \cup {NoPoint, ClockPoint}]
    BY <1>1, <1>3 DEF IndInv, Types
  <2>2. QED
    BY <1>1, <1>3, <2>1 DEF IndInv, Types
<1>8. InPlace'
  <2>1. \A x \in Obs : (InBook(x) \/ InTodo(x) \/ InChannel(x))' => Valid(x)'
    BY <1>1, <1>6 DEF IndInv, InPlace, Valid
  <2>2. Valid(point) /\ point # ClockPoint
    BY <1>3, <1>4, NoObs DEF IndInv, InPlace
  <2>3. \A i \in Names : served'[i] \in Obs =>
            Valid(served'[i]) /\ i \in ByFeed(config, served'[i].symbol)
    BY <1>5, <2>2 DEF IndInv, InPlace
  <2>4. \A i \in Names : served'[i] = ClockPoint => i \in Timed(config)
    BY <1>5, <2>2 DEF IndInv, InPlace
  <2>5. QED
    BY <1>1, <1>2, <2>1, <2>3, <2>4 DEF IndInv, InPlace, Valid
<1>9. Bounded'
  BY <1>1, <1>4, <1>6 DEF IndInv, Bounded
<1>10. \A j, k \in 1 .. Len(channel') :
           j < k /\ Same(channel'[j], channel'[k]) => channel'[j].no <= channel'[k].no
  <2> SUFFICES ASSUME NEW j \in 1 .. Len(channel'), NEW k \in 1 .. Len(channel'),
                      j < k, Same(channel'[j], channel'[k])
               PROVE  channel'[j].no <= channel'[k].no
    OBVIOUS
  <2>1. /\ j + 1 \in 1 .. Len(channel) /\ channel'[j] = channel[j + 1]
        /\ k + 1 \in 1 .. Len(channel) /\ channel'[k] = channel[k + 1]
        /\ j + 1 < k + 1
    BY <1>3
  <2>2. QED
    BY <2>1 DEF IndInv, InOrder
<1>11. \A y \in Obs : InChannel(y)' /\ Same(point, y) => point.no <= y.no
  <2> SUFFICES ASSUME NEW y \in Obs, InChannel(y)', Same(point, y)
               PROVE  point.no <= y.no
    OBVIOUS
  <2>1. PICK j \in 1 .. Len(channel') : channel'[j] = y
    BY DEF InChannel
  <2>2. 1 \in 1 .. Len(channel) /\ j + 1 \in 1 .. Len(channel) /\ 1 < j + 1
        /\ y = channel[j + 1] /\ point = channel[1]
    BY <1>3, <2>1
  <2>3. QED
    BY <2>2 DEF IndInv, InOrder
<1>12. InOrder'
  <2> SUFFICES ASSUME NEW x \in Obs, NEW y \in Obs, Same(x, y)
               PROVE  /\ IsServed(x)' /\ (InChannel(y) \/ InTodo(y) \/ InBook(y))' =>
                             x.no <= y.no
                      /\ InChannel(x)' /\ (InTodo(y) \/ InBook(y))' => x.no <= y.no
                      /\ InTodo(x)' /\ (InTodo(y) \/ InBook(y))' => x.no <= y.no
    BY <1>10 DEF InOrder, Same
  <2>1. QED
    BY <1>3, <1>4, <1>6, <1>11 DEF IndInv, InOrder
<1>13. QED
  BY <1>7, <1>8, <1>9, <1>12 DEF IndInv

-----------------------------------------------------------------------------
(***************************************************************************)
(* The theorems                                                            *)
(***************************************************************************)
LEMMA StepInvariant == IndInv /\ [Next]_vars => IndInv'
<1> SUFFICES ASSUME IndInv, [Next]_vars PROVE IndInv'
  OBVIOUS
<1>1. ASSUME NEW src \in Market, MarketMoves(src) PROVE IndInv'
  BY <1>1, MarketMovesInvariant
<1>2. ASSUME NEW src \in Streams, ReadBook(src) PROVE IndInv'
  BY <1>2, ReadBookInvariant
<1>3. ASSUME NEW p \in {"pyth", "coingecko"}, Poll(p) PROVE IndInv'
  BY <1>3, PollInvariant
<1>4. CASE Connect
  BY <1>4, ConnectInvariant
<1>5. CASE Flush
  BY <1>5, FlushInvariant
<1>6. CASE Disconnect
  BY <1>6, DisconnectInvariant
<1>7. ASSUME NEW p \in Providers, Send(p) PROVE IndInv'
  BY <1>7, SendInvariant
<1>8. CASE Receive
  BY <1>8, ReceiveInvariant
<1>9. CASE EngineStops
  BY <1>9, EngineStopsInvariant
<1>10. CASE OnTick
  BY <1>10, OnTickInvariant
<1>11. CASE UNCHANGED vars
  BY <1>11 DEF vars, IndInv, Types, InPlace, Bounded, InOrder, InBook, InTodo,
               InChannel, IsServed, Valid
<1>12. QED
  BY <1>1, <1>2, <1>3, <1>4, <1>5, <1>6, <1>7, <1>8, <1>9, <1>10, <1>11 DEF Next

\* Observations keep their order on the whole way, whatever the configuration
\* and the capacity of the channel.
THEOREM Invariance == Spec => []IndInv
<1>1. Init => IndInv
  BY InitInvariant
<1>2. IndInv /\ [Next]_vars => IndInv'
  BY StepInvariant
<1>3. QED
  BY <1>1, <1>2, PTL DEF Spec

\* What is served for an instrument comes from where its feed is configured.
LEMMA ServedFromItsFeed ==
    ASSUME IndInv, NEW x \in ToSet(config.instruments),
           NEW i \in Names, i = Resolved(x), served[i] # NoPoint
    PROVE  FromItsFeed(x, served[i])
<1>1. Accepted(config) /\ config \in Configuration
  BY PipelineAssumption DEF IndInv, Types, InPlace
<1>2. /\ x.feed \in {u.symbol : u \in ToSet(config.underlyings)} \cup {Unset}
      /\ x.feed # Unset => x.feed \in Symbols
      /\ i \in ByFeed(config, x.feed)
  <2>1. PICK k \in DOMAIN config.instruments : x = config.instruments[k]
    BY DEF ToSet
  <2>2. x.feed \in {u.symbol : u \in ToSet(config.underlyings)} \cup {Unset}
    BY <1>1, <2>1 DEF Accepted, InstrumentsValid
  <2>3. x \in Instrument
    BY <1>1, <2>1 DEF Configuration
  <2>4. QED
    BY <2>2, <2>3 DEF Instrument, ByFeed
<1>3. CASE served[i] = ClockPoint
  <2>1. i \in ByFeed(config, Unset)
    BY <1>3 DEF IndInv, InPlace, Timed
  <2>2. x.feed = Unset
    BY <1>1, <1>2, <2>1, FeedsAreDisjoint DEF Accepted
  <2>3. QED
    BY <1>3, <2>2 DEF FromItsFeed
<1>4. CASE served[i] \in Obs
  <2>1. Valid(served[i]) /\ i \in ByFeed(config, served[i].symbol)
    BY <1>4 DEF IndInv, InPlace
  <2>2. x.feed = served[i].symbol
    BY <1>1, <1>2, <2>1, FeedsAreDisjoint DEF Accepted
  <2>3. x.feed # Unset /\ served[i].src \in Sources
    BY <1>4, <2>2, NamesAssumption, PipelineAssumption DEF Obs
  <2>4. \E u \in ToSet(config.underlyings) :
            /\ u.symbol = x.feed
            /\ served[i].src[1] \in DOMAIN u.ids
            /\ u.ids[served[i].src[1]] = served[i].src[2]
    <3> DEFINE src == served[i].src
    <3>1. served[i].symbol \in Recipients(config, src[1], src[2]) /\ src \in Sources
      BY <2>1, <2>3 DEF Valid
    <3> HIDE DEF src
    <3>2. \E u \in ToSet(config.underlyings) :
              /\ u.symbol = served[i].symbol
              /\ src[1] \in DOMAIN u.ids
              /\ u.ids[src[1]] = src[2]
      BY <1>1, <3>1, RecipientsAreNamed
    <3>3. QED
      BY <2>2, <3>2 DEF src
  <2>5. QED
    BY <2>3, <2>4 DEF FromItsFeed
<1>5. QED
  BY <1>3, <1>4 DEF IndInv, Types

\* The instrument a mint is looked up under is one that names it.
LEMMA MintsAreNamed ==
    ASSUME NEW c \in Configuration, NEW m, SymbolForMint(c, m) # Unset
    PROVE  \E x \in ToSet(c.instruments) :
               x.mint = m /\ SymbolForMint(c, m) = Resolved(x)
<1> DEFINE list == c.instruments
           naming == {k \in DOMAIN list : list[k].mint = m}
<1>1. list \in Seq(Instrument) /\ Len(list) \in Nat /\ DOMAIN list = 1 .. Len(list)
  BY DEF Configuration
<1>2. naming # {}
  BY DEF SymbolForMint
<1>3. Max(naming) \in naming
  BY <1>1, <1>2, MaxOfPositions
<1>4. QED
  BY <1>2, <1>3 DEF SymbolForMint, ToSet

\* The API never answers an instrument or a mint with the price of another
\* market, for any configuration it accepts.
THEOREM AnswersFromConfiguration == Spec => []AnswersAreConfigured
<1>1. ASSUME IndInv PROVE AnswersAreConfigured
  <2>1. ASSUME NEW i \in Names, served[i] # NoPoint
        PROVE  \E x \in ToSet(config.instruments) :
                   Resolved(x) = i /\ FromItsFeed(x, served[i])
    <3>1. PICK s : i \in ByFeed(config, s)
      BY <1>1, <2>1 DEF IndInv, Types, InPlace, Timed
    <3>2. PICK x \in ToSet(config.instruments) : Resolved(x) = i
      BY <3>1 DEF ByFeed
    <3>3. QED
      BY <1>1, <2>1, <3>2, ServedFromItsFeed
  <2>2. ASSUME NEW m \in Mints, SymbolForMint(config, m) # Unset,
               served[SymbolForMint(config, m)] # NoPoint
        PROVE  \E x \in ToSet(config.instruments) :
                   x.mint = m /\ FromItsFeed(x, served[SymbolForMint(config, m)])
    <3>1. config \in Configuration
      BY <1>1, PipelineAssumption DEF IndInv, Types
    <3>2. PICK x \in ToSet(config.instruments) :
              x.mint = m /\ SymbolForMint(config, m) = Resolved(x)
      BY <2>2, <3>1, MintsAreNamed
    <3>3. x \in Instrument
      BY <3>1 DEF Configuration, ToSet
    <3>4. Resolved(x) \in Names
      BY <2>2, <3>2, <3>3 DEF Resolved, Instrument, Names
    <3>5. QED
      BY <1>1, <2>2, <3>2, <3>4, ServedFromItsFeed
  <2>3. QED
    BY <2>1, <2>2 DEF AnswersAreConfigured
<1>2. QED
  BY <1>1, Invariance, PTL

\* No interleaving of the tasks serves an older observation of a source after
\* a newer one of it.
THEOREM ServedNeverGoesBack == Spec => ServedGoesForward
<1> DEFINE Forward == \A i \in Names :
                served'[i].src = served[i].src => served'[i].no >= served[i].no
<1>1. ASSUME IndInv, Next, NEW i \in Names, served'[i].src = served[i].src
      PROVE  served'[i].no >= served[i].no
  <2>1. served[i] \in Obs \cup {NoPoint, ClockPoint}
    BY <1>1 DEF IndInv, Types
  <2>2. served[i].no \in Nat
    BY <2>1, NoObs DEF Obs
  <2>3. CASE served'[i] = served[i]
    BY <2>2, <2>3
  <2>4. CASE served'[i] = ClockPoint
    BY <1>1, <2>1, <2>2, <2>4, NoObs
  <2>5. CASE Receive /\ i \in ByFeed(config, Head(channel).symbol)
                     /\ served'[i] = Head(channel)
    <3> DEFINE point == Head(channel)
    <3>1. point \in Obs /\ InChannel(point) /\ point.no \in Nat
      <4>1. channel # <<>> /\ channel \in Seq(Obs)
        BY <1>1, <2>5 DEF Receive, IndInv, Types
      <4>2. QED
        <5>1. Len(channel) \in Nat \ {0} /\ point = channel[1] /\ point \in Obs
          BY <4>1
        <5>2. QED
          BY <5>1 DEF InChannel, Obs
    <3>2. CASE served[i] \in Obs
      <4>1. Accepted(config) /\ i \in ByFeed(config, served[i].symbol)
        BY <1>1, <3>2, NoObs DEF IndInv, InPlace
      <4>2. served[i].symbol = point.symbol
        BY <2>5, <4>1, FeedsAreDisjoint DEF Accepted
      <4>3. Same(served[i], point) /\ IsServed(served[i])
        BY <1>1, <2>5, <4>2 DEF Same, IsServed
      <4>4. served[i].no <= point.no
        BY <1>1, <3>1, <3>2, <4>3 DEF IndInv, InOrder
      <4>5. QED
        BY <2>2, <2>5, <3>1, <4>4
    <3>3. CASE served[i] \notin Obs
      BY <2>1, <2>5, <3>1, <3>3, NoObs
    <3>4. QED
      BY <3>2, <3>3
  <2>6. QED
    BY <1>1, <2>3, <2>4, <2>5
       DEF Next, MarketMoves, ReadBook, Poll, Connect, Flush, Disconnect, Send,
           Receive, EngineStops, OnTick, Publish
<1>2. IndInv /\ [Next]_vars => [Forward]_vars
  BY <1>1
<1>3. QED
  BY <1>2, Invariance, PTL DEF Spec, ServedGoesForward
-----------------------------------------------------------------------------
(***************************************************************************)
(* AppState: its inductive invariant.  What was broadcast is compared with *)
(* what is stored and with the point that update() is busy with; what a    *)
(* consumer holds with what was broadcast before its snapshot, and since   *)
(* it has a receiver.                                                      *)
(***************************************************************************)

\* Nothing stored, broadcast or seen is newer than the newest point made, and
\* a point is stored before it is broadcast.
Held ==
    /\ \A s \in Listed : prices[s] <= writing.no
    /\ stage = "send" => prices[writing.symbol] = writing.no
    /\ stage = "write" => \A s \in Listed : prices[s] < writing.no
    /\ \A c \in Consumers, s \in Listed : view[c][s] <= writing.no

\* The broadcast carries the points in the order they were made; one that is
\* still being written is not in it.
Ordered ==
    /\ \A i \in 1 .. Len(log) : log[i].no <= writing.no
    /\ stage # "idle" => \A i \in 1 .. Len(log) : log[i].no < writing.no
    /\ \A i, j \in 1 .. Len(log) : i < j => log[i].no < log[j].no

\* There are no more points in the broadcast than were made.
Counted ==
    /\ Len(log) <= writing.no
    /\ stage # "idle" => Len(log) < writing.no

\* A receiver stands in the broadcast or at its end, and what it has still to
\* read is not older than what it holds.
Reading ==
    \A c \in Consumers :
        /\ next[c] <= Len(log) + 1
        /\ \A s \in Listed : \A i \in 1 .. Len(log) :
              Subscribed(c) /\ next[c] <= i => view[c][s] <= log[i].no

\* A receiver is never before the place it started at, and nothing is
\* delivered to a consumer that has none.
Joining ==
    \A c \in Consumers :
        IF Subscribed(c) THEN joined[c] \in 1 .. next[c] ELSE view[c] = Nothing

\* A snapshot holds all that had been broadcast when it was read; who had
\* heard of its stream by then had a receiver.
Captured ==
    \A c \in Consumers :
        /\ snap[c].at <= Len(log)
        /\ snap[c].heard => Subscribed(c) /\ joined[c] <= snap[c].at + 1
        /\ \A i \in 1 .. snap[c].at : log[i].no <= snap[c].prices[log[i].symbol]

\* What was broadcast since a consumer has a receiver, and since its snapshot,
\* is delivered, unless the receiver lagged.
Delivered ==
    \A c \in Consumers : Subscribed(c) /\ ~lagged[c] =>
        \A i \in joined[c] .. (next[c] - 1) :
            i <= snap[c].at \/ log[i].no <= view[c][log[i].symbol]

Following == Reading /\ Joining /\ Captured /\ Delivered

StateIndInv ==
    /\ TypeOK
    /\ Held
    /\ Ordered
    /\ Counted
    /\ StreamNotAheadOfStore
    /\ Following

-----------------------------------------------------------------------------
\* The larger of two points is at least as new as either.
LEMMA Max2Bounds ==
    ASSUME NEW a \in Nat, NEW b \in Nat
    PROVE  a <= Max2(a, b) /\ b <= Max2(a, b) /\ Max2(a, b) \in Nat
  BY DEF Max2

\* The points broadcast and stored, and the positions in the broadcast, are
\* natural numbers.
LEMMA StateTypes ==
    ASSUME TypeOK
    PROVE  /\ Len(log) \in Nat
           /\ \A i \in 1 .. Len(log) : /\ log[i].symbol \in Listed
                                       /\ log[i].no \in Nat
           /\ \A s \in Listed : prices[s] \in Nat
           /\ \A c \in Consumers, s \in Listed :
                 view[c][s] \in Nat /\ snap[c].prices[s] \in Nat
           /\ \A c \in Consumers :
                 next[c] \in Nat /\ joined[c] \in Nat /\ snap[c].at \in Nat
<1>1. Len(log) \in Nat /\ \A i \in 1 .. Len(log) : log[i] \in StatePoint
  BY DEF TypeOK
<1>2. \A q \in StatePoint : q.symbol \in Listed /\ q.no \in Nat
  BY DEF StatePoint, PointNo
<1>3. \A n \in PointNo : n \in Nat
  BY DEF PointNo
<1>4. /\ \A s \in Listed : prices[s] \in Nat
      /\ \A c \in Consumers, s \in Listed : view[c][s] \in Nat
  BY <1>3 DEF TypeOK
<1>5. \A c \in Consumers : snap[c] \in SnapRecord
  BY DEF TypeOK
<1>6. \A c \in Consumers, s \in Listed :
          snap[c].at \in Nat /\ snap[c].prices[s] \in Nat
  BY <1>3, <1>5 DEF SnapRecord
<1>7. \A c \in Consumers :
          next[c] \in Nat /\ joined[c] \in Nat /\ snap[c].at \in Nat
  BY <1>3, <1>5 DEF TypeOK, SnapRecord
<1>8. QED
  BY <1>1, <1>2, <1>4, <1>6, <1>7

\* Nothing has been published in the initial state.
LEMMA StateInitInvariant == StateInit => StateIndInv
<1> SUFFICES ASSUME StateInit PROVE StateIndInv
  OBVIOUS
<1>1. TypeOK
  <2>1. 0 \in PointNo /\ 0 \in 0 .. MaxPoints + 1
    BY PriceStateAssumption DEF PointNo
  <2>2. Nothing \in [Listed -> PointNo]
    BY <2>1 DEF Nothing
  <2>3. NoSnap \in SnapRecord
    BY <2>1, <2>2, Zenon DEF NoSnap, SnapRecord
  <2>4. QED
    BY <2>1, <2>2, <2>3 DEF StateInit, TypeOK, StatePoint
<1>2. Len(log) = 0 /\ writing.no = 0
  BY DEF StateInit
<1>3. Held /\ Ordered /\ Counted /\ StreamNotAheadOfStore
  BY <1>2 DEF StateInit, Held, Ordered, Counted, StreamNotAheadOfStore, Nothing
<1>4. \A c \in Consumers : /\ next[c] = 0 /\ view[c] = Nothing
                           /\ snap[c].at = 0 /\ ~snap[c].heard
  BY DEF StateInit, NoSnap
<1>5. Following
  BY <1>2, <1>4 DEF Following, Reading, Joining, Captured, Delivered, Subscribed
<1>6. QED
  BY <1>1, <1>3, <1>5 DEF StateIndInv

-----------------------------------------------------------------------------
(***************************************************************************)
(* The engine task                                                         *)
(***************************************************************************)
\* The next point to be published is newer than all before.
LEMMA StartInvariant ==
    ASSUME StateIndInv, NEW s \in Listed, StartUpdate(s)
    PROVE  StateIndInv'
<1> USE DEF StartUpdate, consumerVars
<1>1. /\ writing' = [symbol |-> s, no |-> writing.no + 1]
      /\ writing.no \in Nat /\ writing.no < MaxPoints
      /\ stage = "idle" /\ stage' = "write"
      /\ UNCHANGED <<prices, log, upgraded, next, view, snap, joined, lagged>>
  BY PriceStateAssumption DEF StateIndInv, TypeOK, StatePoint, PointNo
<1>2. TypeOK'
  <2>1. writing' \in StatePoint
    BY <1>1, PriceStateAssumption DEF StatePoint, PointNo
  <2>2. QED
    BY <1>1, <2>1 DEF StateIndInv, TypeOK
<1>3. /\ \A r \in Listed : prices[r] \in Nat
      /\ \A c \in Consumers, r \in Listed : view[c][r] \in Nat
      /\ \A i \in 1 .. Len(log) : log[i].no \in Nat
      /\ Len(log) \in Nat
  BY StateTypes DEF StateIndInv
<1>4. Held' /\ Ordered' /\ Counted'
  BY <1>1, <1>3 DEF StateIndInv, Held, Ordered, Counted
<1>5. (StreamNotAheadOfStore /\ Following)'
  BY <1>1 DEF StateIndInv, StreamNotAheadOfStore, Following, Reading, Joining,
              Captured, Delivered, Subscribed
<1>6. QED
  BY <1>2, <1>4, <1>5 DEF StateIndInv

\* Storing the point overwrites an older one.
LEMMA StoreInvariant ==
    ASSUME StateIndInv, StorePoint
    PROVE  StateIndInv'
<1> USE DEF StorePoint, consumerVars
<1>1. /\ prices' = [prices EXCEPT ![writing.symbol] = writing.no]
      /\ stage = "write" /\ stage' = "send"
      /\ UNCHANGED <<writing, log, upgraded, next, view, snap, joined, lagged>>
      /\ writing.no \in PointNo /\ writing.symbol \in Listed
  BY DEF StateIndInv, TypeOK, StatePoint
<1>2. TypeOK'
  BY <1>1 DEF StateIndInv, TypeOK
<1>3. /\ \A r \in Listed : prices[r] \in Nat /\ prices'[r] \in Nat
      /\ \A r \in Listed : prices[r] <= prices'[r] /\ prices'[r] <= writing.no
      /\ prices'[writing.symbol] = writing.no
  BY <1>1 DEF StateIndInv, TypeOK, PointNo, Held
<1>4. Held' /\ Ordered' /\ Counted'
  BY <1>1, <1>3 DEF StateIndInv, Held, Ordered, Counted
<1>5. StreamNotAheadOfStore'
  <2>1. \A i \in 1 .. Len(log) : log[i].symbol \in Listed /\ log[i].no \in Nat
    BY StateTypes DEF StateIndInv
  <2>2. QED
    BY <1>1, <1>3, <2>1 DEF StateIndInv, StreamNotAheadOfStore
<1>6. Following'
  BY <1>1 DEF StateIndInv, Following, Reading, Joining, Captured, Delivered,
              Subscribed
<1>7. QED
  BY <1>2, <1>4, <1>5, <1>6 DEF StateIndInv

\* The point that is broadcast is the newest, and is in the store.
LEMMA BroadcastInvariant ==
    ASSUME StateIndInv, BroadcastPoint
    PROVE  StateIndInv'
<1> USE DEF BroadcastPoint, consumerVars
<1>1. /\ log' = Append(log, writing) /\ stage = "send" /\ stage' = "idle"
      /\ UNCHANGED <<prices, writing, upgraded, next, view, snap, joined, lagged>>
  BY DEF BroadcastPoint
<1>2. /\ log \in Seq(StatePoint) /\ writing \in StatePoint /\ log' \in Seq(StatePoint)
      /\ Len(log) \in Nat /\ Len(log') = Len(log) + 1
      /\ \A i \in 1 .. Len(log) : log'[i] = log[i]
      /\ log'[Len(log) + 1] = writing
  BY <1>1 DEF StateIndInv, TypeOK
<1>3. \A i \in 1 .. Len(log') :
          i = Len(log) + 1 \/ (i \in 1 .. Len(log) /\ log'[i] = log[i])
  BY <1>2
<1>4. TypeOK'
  BY <1>1, <1>2 DEF StateIndInv, TypeOK
<1>5. /\ \A i \in 1 .. Len(log) : log[i].no \in Nat /\ log[i].no < writing.no
      /\ writing.no \in Nat
  BY <1>1, <1>2, StateTypes DEF StateIndInv, Ordered, StatePoint, PointNo
<1>6. Held' /\ Counted'
  BY <1>1, <1>2, <1>5 DEF StateIndInv, Held, Counted
<1>7. Ordered'
  <2>1. \A i \in 1 .. Len(log') : log'[i].no <= writing.no
    BY <1>2, <1>3, <1>5
  <2>2. ASSUME NEW i \in 1 .. Len(log'), NEW j \in 1 .. Len(log'), i < j
        PROVE  log'[i].no < log'[j].no
    <3>1. i \in 1 .. Len(log) /\ log'[i] = log[i]
      BY <1>2, <1>3, <2>2
    <3>2. CASE j = Len(log) + 1
      BY <1>2, <1>5, <3>1, <3>2
    <3>3. CASE j \in 1 .. Len(log) /\ log'[j] = log[j]
      BY <2>2, <3>1, <3>3 DEF StateIndInv, Ordered
    <3>4. QED
      BY <1>3, <3>2, <3>3
  <2>3. QED
    BY <1>1, <2>1, <2>2 DEF Ordered
<1>8. StreamNotAheadOfStore'
  <2>1. prices[writing.symbol] = writing.no
    BY <1>1 DEF StateIndInv, Held
  <2>2. QED
    BY <1>1, <1>2, <1>3, <1>5, <2>1 DEF StateIndInv, StreamNotAheadOfStore
<1>9. Reading'
  <2> SUFFICES ASSUME NEW c \in Consumers
               PROVE  /\ next[c] <= Len(log') + 1
                      /\ \A s \in Listed : \A i \in 1 .. Len(log') :
                            Subscribed(c) /\ next[c] <= i =>
                                view[c][s] <= log'[i].no
    BY <1>1 DEF Reading, Subscribed
  <2>1. /\ next[c] <= Len(log) + 1
        /\ \A s \in Listed : \A i \in 1 .. Len(log) :
              Subscribed(c) /\ next[c] <= i => view[c][s] <= log[i].no
    BY DEF StateIndInv, Following, Reading
  <2>2. next[c] \in Nat
    BY DEF StateIndInv, TypeOK
  <2>3. \A s \in Listed : view[c][s] <= writing.no
    BY DEF StateIndInv, Held
  <2>4. ASSUME NEW s \in Listed, NEW i \in 1 .. Len(log'),
               Subscribed(c), next[c] <= i
        PROVE  view[c][s] <= log'[i].no
    BY <1>2, <1>3, <2>1, <2>3, <2>4
  <2>5. QED
    BY <1>2, <2>1, <2>2, <2>4
<1>10. Joining'
  BY <1>1 DEF StateIndInv, Following, Joining, Subscribed
<1>11. Captured'
  <2>1. \A c \in Consumers : snap[c].at \in Nat /\ snap[c].at <= Len(log)
    BY StateTypes DEF StateIndInv, Following, Captured
  <2>2. \A c \in Consumers : \A i \in 1 .. snap[c].at : log'[i] = log[i]
    BY <1>2, <2>1
  <2>3. QED
    BY <1>1, <1>2, <2>1, <2>2
       DEF StateIndInv, Following, Captured, Subscribed
<1>12. Delivered'
  <2>1. \A c \in Consumers : Subscribed(c) =>
            \A i \in joined[c] .. (next[c] - 1) : i \in 1 .. Len(log)
    BY <1>2, StateTypes DEF StateIndInv, Following, Reading, Joining
  <2>2. QED
    BY <1>1, <1>2, <2>1 DEF StateIndInv, Following, Delivered, Subscribed
<1>13. QED
  BY <1>4, <1>6, <1>7, <1>8, <1>9, <1>10, <1>11, <1>12 DEF StateIndInv, Following

-----------------------------------------------------------------------------
(***************************************************************************)
(* Consumers                                                               *)
(***************************************************************************)
\* What a consumer does touches neither the store nor the broadcast.
LEMMA ConsumersOnlyRead ==
    ASSUME StateIndInv, UNCHANGED <<prices, writing, stage, log>>,
           \A c \in Consumers, s \in Listed : view'[c][s] <= writing.no,
           TypeOK', Following'
    PROVE  StateIndInv'
<1>1. Held' /\ Ordered' /\ Counted' /\ StreamNotAheadOfStore'
  BY DEF StateIndInv, Held, Ordered, Counted, StreamNotAheadOfStore
<1>2. QED
  BY <1>1 DEF StateIndInv

\* A position next to the end of the broadcast is within its type.
LEMMA PositionsFit ==
    ASSUME StateIndInv
    PROVE  /\ Len(log) \in PointNo /\ Len(log) + 1 \in 0 .. MaxPoints + 1
           /\ Len(log) \in Nat
           /\ \A c \in Consumers : next[c] \in Nat /\ joined[c] \in Nat
           /\ \A i \in 1 .. Len(log) :
                 log[i] \in StatePoint /\ log[i].no \in Nat
           /\ \A c \in Consumers, s \in Listed : view[c][s] \in Nat
<1>1. writing.no \in 0 .. MaxPoints
  BY DEF StateIndInv, TypeOK, StatePoint, PointNo
<1>2. log \in Seq(StatePoint)
  BY DEF StateIndInv, TypeOK
<1>3. \A i \in 1 .. Len(log) : log[i] \in StatePoint
  BY <1>2
<1>4. Len(log) <= writing.no
  BY DEF StateIndInv, Counted
<1>5. QED
  BY <1>1, <1>3, <1>4, StateTypes, PriceStateAssumption DEF StateIndInv, PointNo

\* The answer to an upgrade makes no receiver yet.
LEMMA UpgradeInvariant ==
    ASSUME StateIndInv, NEW c \in Consumers, Upgrade(c)
    PROVE  StateIndInv'
<1>1. /\ upgraded' = [upgraded EXCEPT ![c] = TRUE]
      /\ UNCHANGED <<prices, writing, stage, log, next, view, snap, joined, lagged>>
  BY DEF Upgrade
<1>2. TypeOK'
  BY <1>1 DEF StateIndInv, TypeOK
<1>3. Following'
  BY <1>1 DEF StateIndInv, Following, Reading, Joining, Captured, Delivered,
              Subscribed
<1>4. QED
  BY <1>1, <1>2, <1>3, ConsumersOnlyRead DEF StateIndInv, Held

\* A new receiver stands at the end, where it has joined.
LEMMA SubscribeInvariant ==
    ASSUME StateIndInv, NEW c \in Consumers, Subscribe(c)
    PROVE  StateIndInv'
<1>1. /\ next' = [next EXCEPT ![c] = Len(log) + 1]
      /\ joined' = [joined EXCEPT ![c] = Len(log) + 1]
      /\ ~Subscribed(c)
      /\ UNCHANGED <<prices, writing, stage, log, upgraded, view, snap, lagged>>
  BY DEF Subscribe
<1>2. TypeOK'
  BY <1>1, PositionsFit DEF StateIndInv, TypeOK
<1>3. \A d \in Consumers :
          \/ d = c /\ next'[d] = Len(log) + 1 /\ joined'[d] = Len(log) + 1
          \/ d # c /\ next'[d] = next[d] /\ joined'[d] = joined[d]
  BY <1>1 DEF StateIndInv, TypeOK
<1>4. Len(log) \in Nat
  BY PositionsFit
<1>5. Reading'
  BY <1>1, <1>3, <1>4 DEF StateIndInv, Following, Reading, Subscribed
<1>6. Joining'
  BY <1>1, <1>3, <1>4 DEF StateIndInv, Following, Joining, Subscribed
<1>7. Captured'
  BY <1>1, <1>3 DEF StateIndInv, Following, Captured, Subscribed
<1>8. Delivered'
  BY <1>1, <1>3, <1>4 DEF StateIndInv, Following, Delivered, Subscribed
<1>9. QED
  BY <1>1, <1>2, <1>5, <1>6, <1>7, <1>8, ConsumersOnlyRead
     DEF StateIndInv, Held, Following

\* The snapshot holds everything broadcast so far, because it was stored first.
LEMMA SnapshotInvariant ==
    ASSUME StateIndInv, NEW c \in Consumers, Snapshot(c)
    PROVE  StateIndInv'
<1>1. PICK heard \in BOOLEAN : heard = (view[c] # Nothing)
  OBVIOUS
<1>2. PICK r : r = [at |-> Len(log), heard |-> heard, prices |-> prices]
  OBVIOUS
<1>3. /\ snap' = [snap EXCEPT ![c] = r]
      /\ lagged' = [lagged EXCEPT ![c] = FALSE]
      /\ UNCHANGED <<prices, writing, stage, log, upgraded, next, view, joined>>
  BY <1>1, <1>2 DEF Snapshot
<1>4. r.at = Len(log) /\ r.heard = (view[c] # Nothing) /\ r.prices = prices
  BY <1>1, <1>2
<1>5. TypeOK'
  <2>1. r \in SnapRecord
    BY <1>2, PositionsFit, Zenon DEF StateIndInv, TypeOK, SnapRecord
  <2>2. QED
    BY <1>3, <2>1 DEF StateIndInv, TypeOK
<1>6. \A d \in Consumers :
          \/ d = c /\ snap'[d] = r
          \/ d # c /\ snap'[d] = snap[d] /\ lagged'[d] = lagged[d]
  BY <1>3 DEF StateIndInv, TypeOK
<1>7. Reading' /\ Joining'
  BY <1>3 DEF StateIndInv, Following, Reading, Joining, Subscribed
<1>8. Captured'
  <2> SUFFICES ASSUME NEW d \in Consumers
               PROVE  /\ snap'[d].at <= Len(log)
                      /\ snap'[d].heard =>
                            Subscribed(d) /\ joined[d] <= snap'[d].at + 1
                      /\ \A i \in 1 .. snap'[d].at :
                            log[i].no <= snap'[d].prices[log[i].symbol]
    BY <1>3 DEF Captured, Subscribed
  <2>1. CASE d = c /\ snap'[d] = r
    <3>1. r.heard => Subscribed(c)
      BY <1>4 DEF StateIndInv, Following, Joining
    <3>2. Subscribed(c) => joined[c] <= Len(log) + 1
      BY PositionsFit DEF StateIndInv, Following, Joining, Reading
    <3>3. \A i \in 1 .. Len(log) : log[i].no <= prices[log[i].symbol]
      BY StateTypes DEF StateIndInv, StreamNotAheadOfStore
    <3>4. QED
      BY <1>4, <2>1, <3>1, <3>2, <3>3, PositionsFit
  <2>2. CASE snap'[d] = snap[d]
    BY <2>2 DEF StateIndInv, Following, Captured
  <2>3. QED
    BY <1>6, <2>1, <2>2
<1>9. Delivered'
  <2> SUFFICES ASSUME NEW d \in Consumers, Subscribed(d), ~lagged'[d],
                      NEW i \in joined[d] .. (next[d] - 1)
               PROVE  i <= snap'[d].at \/ log[i].no <= view[d][log[i].symbol]
    BY <1>3 DEF Delivered, Subscribed
  <2>1. CASE d = c /\ snap'[d] = r
    BY <1>4, <2>1, PositionsFit DEF StateIndInv, Following, Reading
  <2>2. CASE snap'[d] = snap[d] /\ lagged'[d] = lagged[d]
    BY <2>2 DEF StateIndInv, Following, Delivered
  <2>3. QED
    BY <1>6, <2>1, <2>2
<1>10. QED
  BY <1>3, <1>5, <1>7, <1>8, <1>9, ConsumersOnlyRead
     DEF StateIndInv, Held, Following

\* A receiver that skips has lagged; the points it skipped were older.
LEMMA SkipInvariant ==
    ASSUME StateIndInv, NEW c \in Consumers, ReadStream(c), SkipToOldest(c),
           next[c] < OldestKept
    PROVE  StateIndInv'
<1>1. /\ next' = [next EXCEPT ![c] = OldestKept] /\ Subscribed(c)
      /\ lagged' = [lagged EXCEPT ![c] = TRUE]
      /\ UNCHANGED <<prices, writing, stage, log, upgraded, view, snap, joined>>
  BY DEF ReadStream, SkipToOldest
<1>2. OldestKept \in 1 .. Len(log) /\ next[c] \in 1 .. Len(log)
  BY <1>1, PositionsFit, PriceStateAssumption DEF OldestKept, ReadStream, Subscribed
<1>3. PICK k \in Nat : k = OldestKept
  BY <1>2, PositionsFit
<1>4. next' = [next EXCEPT ![c] = k] /\ k \in 1 .. Len(log) /\ next[c] < k
  BY <1>1, <1>2, <1>3
<1>5. TypeOK'
  <2>1. k \in 0 .. MaxPoints + 1
    BY <1>4, PositionsFit, PriceStateAssumption
  <2>2. QED
    BY <1>1, <1>4, <2>1 DEF StateIndInv, TypeOK
<1>6. \A d \in Consumers :
          \/ d = c /\ next'[d] = k /\ lagged'[d]
          \/ d # c /\ next'[d] = next[d] /\ lagged'[d] = lagged[d]
  BY <1>1, <1>4 DEF StateIndInv, TypeOK
<1>7. Reading'
  <2> SUFFICES ASSUME NEW d \in Consumers
               PROVE  /\ next'[d] <= Len(log) + 1
                      /\ \A s \in Listed : \A i \in 1 .. Len(log) :
                            next'[d] > 0 /\ next'[d] <= i =>
                                view[d][s] <= log[i].no
    BY <1>1 DEF Reading, Subscribed
  <2>1. CASE d = c /\ next'[d] = k
    BY <1>1, <1>4, <2>1, PositionsFit DEF StateIndInv, Following, Reading, Subscribed
  <2>2. CASE next'[d] = next[d]
    BY <2>2 DEF StateIndInv, Following, Reading, Subscribed
  <2>3. QED
    BY <1>6, <2>1, <2>2
<1>8. Joining'
  <2>1. joined[c] \in 1 .. next[c] /\ joined[c] \in 1 .. k
    BY <1>1, <1>4, PositionsFit DEF StateIndInv, Following, Joining
  <2>2. QED
    BY <1>1, <1>4, <1>6, <2>1 DEF StateIndInv, Following, Joining, Subscribed
<1>9. Captured'
  BY <1>1, <1>4, <1>6, PositionsFit DEF StateIndInv, Following, Captured, Subscribed
<1>10. Delivered'
  BY <1>1, <1>6 DEF StateIndInv, Following, Delivered, Subscribed
<1>11. QED
  BY <1>1, <1>5, <1>7, <1>8, <1>9, <1>10, ConsumersOnlyRead
     DEF StateIndInv, Held, Following

\* What ForwardPoint does: the point under the receiver becomes what it holds.
LEMMA ForwardStep ==
    ASSUME StateIndInv, NEW c \in Consumers, ReadStream(c), ForwardPoint(c)
    PROVE  LET p == log[next[c]] IN
           /\ next[c] \in 1 .. Len(log)
           /\ p.symbol \in Listed /\ p.no \in PointNo
           /\ p.no <= writing.no
           /\ \A s \in Listed : view[c][s] <= p.no
           /\ next' = [next EXCEPT ![c] = next[c] + 1]
           /\ \A d \in Consumers, s \in Listed :
                 view'[d][s] =
                     IF d = c /\ s = p.symbol THEN p.no ELSE view[d][s]
           /\ \A d \in Consumers : d # c => view'[d] = view[d]
           /\ view' \in [Consumers -> [Listed -> PointNo]]
           /\ UNCHANGED <<prices, writing, stage, log, upgraded, snap, joined,
                          lagged>>
<1>1. /\ next[c] \in 1 .. Len(log)
      /\ UNCHANGED <<prices, writing, stage, log, upgraded, snap, joined, lagged>>
  BY PositionsFit DEF ReadStream, ForwardPoint, Subscribed
<1>2. /\ log[next[c]].symbol \in Listed /\ log[next[c]].no \in PointNo
      /\ log[next[c]].no <= writing.no
  BY <1>1, PositionsFit DEF StateIndInv, Ordered, StatePoint
<1>3. \A s \in Listed : view[c][s] <= log[next[c]].no
  BY <1>1, PositionsFit DEF StateIndInv, Following, Reading, Subscribed
<1>4. /\ next' = [next EXCEPT ![c] = next[c] + 1]
      /\ view' = [view EXCEPT ![c][log[next[c]].symbol] = log[next[c]].no]
  BY DEF ForwardPoint
<1>5. /\ view' \in [Consumers -> [Listed -> PointNo]]
      /\ \A d \in Consumers : d # c => view'[d] = view[d]
      /\ \A d \in Consumers, s \in Listed :
            view'[d][s] = IF d = c /\ s = log[next[c]].symbol
                          THEN log[next[c]].no ELSE view[d][s]
  BY <1>2, <1>4 DEF StateIndInv, TypeOK
<1>6. QED
  BY <1>1, <1>2, <1>3, <1>4, <1>5

\* The point forwarded is newer than what the consumer holds, and older than
\* what it has still to read.
LEMMA ForwardInvariant ==
    ASSUME StateIndInv, NEW c \in Consumers, ReadStream(c), ForwardPoint(c)
    PROVE  StateIndInv'
<1> DEFINE p == log[next[c]]
<1>1. /\ next[c] \in 1 .. Len(log)
      /\ p.symbol \in Listed /\ p.no \in Nat
      /\ p.no <= writing.no
      /\ \A s \in Listed : view[c][s] <= p.no
      /\ next' = [next EXCEPT ![c] = next[c] + 1]
      /\ \A d \in Consumers, s \in Listed :
            view'[d][s] = IF d = c /\ s = p.symbol THEN p.no ELSE view[d][s]
      /\ \A d \in Consumers : d # c => view'[d] = view[d]
      /\ view' \in [Consumers -> [Listed -> PointNo]]
      /\ UNCHANGED <<prices, writing, stage, log, upgraded, snap, joined, lagged>>
  BY ForwardStep DEF PointNo
<1>2. \A d \in Consumers :
          \/ d = c /\ next'[d] = next[c] + 1
          \/ d # c /\ next'[d] = next[d] /\ view'[d] = view[d]
  BY <1>1 DEF StateIndInv, TypeOK
<1>3. TypeOK'
  <2>1. next[c] + 1 \in 0 .. MaxPoints + 1
    BY <1>1, PositionsFit, PriceStateAssumption
  <2>2. QED
    BY <1>1, <2>1 DEF StateIndInv, TypeOK
<1>4. \A i \in 1 .. Len(log) : (next[c] < i => p.no <= log[i].no)
                               /\ (i <= next[c] => log[i].no <= p.no)
  BY <1>1, PositionsFit DEF StateIndInv, Ordered
<1> HIDE DEF p
<1>5. Reading'
  <2> SUFFICES ASSUME NEW d \in Consumers
               PROVE  /\ next'[d] <= Len(log) + 1
                      /\ \A s \in Listed : \A i \in 1 .. Len(log) :
                            next'[d] > 0 /\ next'[d] <= i =>
                                view'[d][s] <= log[i].no
    BY <1>1 DEF Reading, Subscribed
  <2>1. CASE d = c /\ next'[d] = next[c] + 1
    <3>1. \A s \in Listed : view'[d][s] <= p.no /\ view'[d][s] \in Nat
      BY <1>1, <2>1, PositionsFit
    <3>2. /\ Len(log) \in Nat /\ next[c] \in Nat /\ next[c] <= Len(log)
          /\ p.no \in Nat /\ \A i \in 1 .. Len(log) : log[i].no \in Nat
      BY <1>1, PositionsFit
    <3>3. \A s \in Listed : \A i \in 1 .. Len(log) :
              next'[d] <= i => view'[d][s] <= log[i].no
      BY <1>4, <2>1, <3>1, <3>2
    <3>4. QED
      BY <2>1, <3>2, <3>3
  <2>2. CASE next'[d] = next[d] /\ view'[d] = view[d]
    BY <2>2 DEF StateIndInv, Following, Reading, Subscribed
  <2>3. QED
    BY <1>2, <2>1, <2>2
<1>6. Joining'
  <2>1. joined[c] \in 1 .. (next[c] + 1)
    BY <1>1, PositionsFit DEF StateIndInv, Following, Joining, Subscribed
  <2>2. next[c] + 1 > 0
    BY <1>1, PositionsFit
  <2>3. QED
    BY <1>1, <1>2, <2>1, <2>2 DEF StateIndInv, Following, Joining, Subscribed
<1>7. Captured'
  <2>1. \A d \in Consumers : Subscribed(d) => next'[d] > 0
    BY <1>1, <1>2, PositionsFit DEF Subscribed
  <2>2. QED
    BY <1>1, <2>1 DEF StateIndInv, Following, Captured, Subscribed
<1>8. Delivered'
  <2> SUFFICES ASSUME NEW d \in Consumers, next'[d] > 0, ~lagged[d],
                      NEW i \in joined[d] .. (next'[d] - 1)
               PROVE  i <= snap[d].at \/ log[i].no <= view'[d][log[i].symbol]
    BY <1>1 DEF Delivered, Subscribed
  <2>1. CASE d = c /\ next'[d] = next[c] + 1
    <3>1. i \in 1 .. Len(log) /\ i <= next[c] /\ i \in joined[c] .. next[c]
      BY <1>1, <2>1, PositionsFit DEF StateIndInv, Following, Joining, Subscribed
    <3>2. log[i].symbol \in Listed /\ log[i].no <= p.no
      BY <1>4, <3>1, StateTypes DEF StateIndInv
    <3>3. CASE log[i].symbol = p.symbol
      BY <1>1, <2>1, <3>2, <3>3
    <3>4. CASE log[i].symbol # p.symbol
      <4>1. view'[c][log[i].symbol] = view[c][log[i].symbol]
        BY <1>1, <3>2, <3>4
      <4>2. i # next[c]
        BY <3>4 DEF p
      <4>3. i \in joined[c] .. (next[c] - 1) /\ Subscribed(c)
        BY <1>1, <3>1, <4>2, PositionsFit DEF Subscribed
      <4>4. QED
        BY <2>1, <4>1, <4>3 DEF StateIndInv, Following, Delivered
    <3>5. QED
      BY <3>3, <3>4
  <2>2. CASE next'[d] = next[d] /\ view'[d] = view[d]
    BY <2>2 DEF StateIndInv, Following, Delivered, Subscribed
  <2>3. QED
    BY <1>2, <2>1, <2>2
<1>9. \A d \in Consumers, s \in Listed : view'[d][s] <= writing.no
  BY <1>1 DEF StateIndInv, Held
<1>10. QED
  BY <1>1, <1>3, <1>5, <1>6, <1>7, <1>8, <1>9, ConsumersOnlyRead DEF Following

\* A consumer that leaves forgets everything.
LEMMA LeaveInvariant ==
    ASSUME StateIndInv, NEW c \in Consumers, Leave(c)
    PROVE  StateIndInv'
<1>1. /\ upgraded' = [upgraded EXCEPT ![c] = FALSE]
      /\ next' = [next EXCEPT ![c] = 0]
      /\ joined' = [joined EXCEPT ![c] = 0]
      /\ view' = [view EXCEPT ![c] = Nothing]
      /\ snap' = [snap EXCEPT ![c] = NoSnap]
      /\ lagged' = [lagged EXCEPT ![c] = FALSE]
      /\ UNCHANGED <<prices, writing, stage, log>>
  BY DEF Leave
<1>2. 0 \in PointNo /\ 0 \in 0 .. MaxPoints + 1
  BY PriceStateAssumption DEF PointNo
<1>3. Nothing \in [Listed -> PointNo] /\ \A s \in Listed : Nothing[s] = 0
  BY <1>2 DEF Nothing
<1>4. NoSnap \in SnapRecord /\ NoSnap.at = 0 /\ ~NoSnap.heard
  <2>1. NoSnap \in SnapRecord
    BY <1>2, <1>3, Zenon DEF NoSnap, SnapRecord
  <2>2. NoSnap.at = 0 /\ ~NoSnap.heard
    BY DEF NoSnap
  <2>3. QED
    BY <2>1, <2>2
<1>5. TypeOK'
  BY <1>1, <1>2, <1>3, <1>4 DEF StateIndInv, TypeOK
<1>6. \A d \in Consumers :
          \/ d = c /\ next'[d] = 0 /\ view'[d] = Nothing /\ snap'[d] = NoSnap
          \/ /\ next'[d] = next[d] /\ view'[d] = view[d] /\ joined'[d] = joined[d]
             /\ snap'[d] = snap[d] /\ lagged'[d] = lagged[d]
  BY <1>1 DEF StateIndInv, TypeOK
<1>7. Reading'
  <2> SUFFICES ASSUME NEW d \in Consumers
               PROVE  /\ next'[d] <= Len(log) + 1
                      /\ \A s \in Listed : \A i \in 1 .. Len(log) :
                            next'[d] > 0 /\ next'[d] <= i =>
                                view'[d][s] <= log[i].no
    BY <1>1 DEF Reading, Subscribed
  <2>1. CASE next'[d] = 0
    BY <2>1, PositionsFit
  <2>2. CASE next'[d] = next[d] /\ view'[d] = view[d]
    BY <2>2 DEF StateIndInv, Following, Reading, Subscribed
  <2>3. QED
    BY <1>6, <2>1, <2>2
<1>8. Joining'
  BY <1>6 DEF StateIndInv, Following, Joining, Subscribed
<1>9. Captured'
  <2> SUFFICES ASSUME NEW d \in Consumers
               PROVE  /\ snap'[d].at <= Len(log)
                      /\ snap'[d].heard =>
                            next'[d] > 0 /\ joined'[d] <= snap'[d].at + 1
                      /\ \A i \in 1 .. snap'[d].at :
                            log[i].no <= snap'[d].prices[log[i].symbol]
    BY <1>1 DEF Captured, Subscribed
  <2>1. CASE snap'[d] = NoSnap
    BY <1>4, <2>1, PositionsFit
  <2>2. CASE next'[d] = next[d] /\ joined'[d] = joined[d] /\ snap'[d] = snap[d]
    BY <2>2 DEF StateIndInv, Following, Captured, Subscribed
  <2>3. QED
    BY <1>6, <2>1, <2>2
<1>10. Delivered'
  <2> SUFFICES ASSUME NEW d \in Consumers, next'[d] > 0, ~lagged'[d],
                      NEW i \in joined'[d] .. (next'[d] - 1)
               PROVE  i <= snap'[d].at \/ log[i].no <= view'[d][log[i].symbol]
    BY <1>1 DEF Delivered, Subscribed
  <2>1. /\ next'[d] = next[d] /\ view'[d] = view[d] /\ joined'[d] = joined[d]
        /\ snap'[d] = snap[d] /\ lagged'[d] = lagged[d]
    BY <1>6
  <2>2. QED
    BY <2>1 DEF StateIndInv, Following, Delivered, Subscribed
<1>11. \A d \in Consumers, s \in Listed : view'[d][s] <= writing.no
  <2>1. writing.no >= 0
    BY DEF StateIndInv, TypeOK, StatePoint, PointNo
  <2>2. QED
    BY <1>3, <1>6, <2>1 DEF StateIndInv, Held
<1>12. QED
  BY <1>1, <1>5, <1>7, <1>8, <1>9, <1>10, <1>11, ConsumersOnlyRead DEF Following

-----------------------------------------------------------------------------
(***************************************************************************)
(* The theorems                                                            *)
(***************************************************************************)
\* A step of the engine task or of a consumer preserves the invariant.
LEMMA StateStepInvariant == StateIndInv /\ [StateNext]_stateVars => StateIndInv'
<1> SUFFICES ASSUME StateIndInv, [StateNext]_stateVars PROVE StateIndInv'
  OBVIOUS
<1>1. CASE \E s \in Listed : StartUpdate(s)
  BY <1>1, StartInvariant
<1>2. CASE Update
  BY <1>2, StoreInvariant, BroadcastInvariant DEF Update
<1>3. ASSUME NEW c \in Consumers, Consumer(c) PROVE StateIndInv'
  <2>1. CASE Upgrade(c)
    BY <2>1, UpgradeInvariant
  <2>2. CASE Subscribe(c)
    BY <2>2, SubscribeInvariant
  <2>3. CASE Snapshot(c)
    BY <2>3, SnapshotInvariant
  <2>4. CASE ReadStream(c)
    BY <2>4, SkipInvariant, ForwardInvariant DEF ReadStream
  <2>5. CASE Leave(c)
    BY <2>5, LeaveInvariant
  <2>6. QED
    BY <1>3, <2>1, <2>2, <2>3, <2>4, <2>5 DEF Consumer
<1>4. CASE UNCHANGED stateVars
  BY <1>4 DEF stateVars, consumerVars, StateIndInv, TypeOK, Held, Ordered, Counted,
              Following, Reading, Joining, Captured, Delivered, Subscribed,
              StreamNotAheadOfStore
<1>5. QED
  BY <1>1, <1>2, <1>3, <1>4 DEF StateNext

\* The engine task and the consumers preserve the invariant in every order.
THEOREM StateInvariance == StateSpec => []StateIndInv
<1>1. QED
  BY StateInitInvariant, StateStepInvariant, PTL DEF StateSpec

\* Positions, snapshots and streams keep their types.
THEOREM TypeCorrect == StateSpec => []TypeOK
<1>1. StateIndInv => TypeOK
  BY DEF StateIndInv
<1>2. QED
  BY <1>1, StateInvariance, PTL

\* AppState::update stores a point before it broadcasts it, so that no stream
\* is ever ahead of what the API answers.
THEOREM StoreIsAhead == StateSpec => []StreamNotAheadOfStore
<1>1. StateIndInv => StreamNotAheadOfStore
  BY DEF StateIndInv
<1>2. QED
  BY <1>1, StateInvariance, PTL

\* What lies neither before the snapshot nor behind the receiver's start was
\* broadcast in between; there is no such point for a consumer that read the
\* snapshot after its stream had begun.
LEMMA OnlyTheGapIsMissed ==
    ASSUME StateIndInv, NEW c \in Consumers, Subscribed(c), ~lagged[c],
           NEW i \in Missed(c)
    PROVE  i \in Gap(c) /\ ~snap[c].heard
<1>1. /\ i \in 1 .. Len(log) /\ i < next[c]
      /\ log[i].no > Max2(snap[c].prices[log[i].symbol], view[c][log[i].symbol])
  BY DEF Missed
<1>2. /\ log[i].symbol \in Listed /\ log[i].no \in Nat /\ Len(log) \in Nat
      /\ snap[c].prices[log[i].symbol] \in Nat /\ view[c][log[i].symbol] \in Nat
      /\ next[c] \in Nat /\ joined[c] \in Nat /\ snap[c].at \in Nat
  BY <1>1, StateTypes DEF StateIndInv
<1>3. /\ ~(log[i].no <= snap[c].prices[log[i].symbol])
      /\ ~(log[i].no <= view[c][log[i].symbol])
  BY <1>1, <1>2, Max2Bounds
<1>4. ~(i <= snap[c].at)
  BY <1>1, <1>2, <1>3 DEF StateIndInv, Following, Captured
<1>5. i < joined[c]
  BY <1>1, <1>2, <1>3, <1>4 DEF StateIndInv, Following, Delivered
<1>6. ~snap[c].heard
  BY <1>1, <1>2, <1>4, <1>5 DEF StateIndInv, Following, Captured
<1>7. QED
  BY <1>1, <1>2, <1>4, <1>5, <1>6 DEF Gap

\* For any capacity of the broadcast, a consumer that reads the snapshot after
\* the first point of its stream misses none, and one that reads it earlier
\* misses at most what was broadcast before subscribe().
THEOREM SnapshotIsComplete == StateSpec => []SnapshotThenStreamIsComplete
<1>1. StateIndInv => SnapshotThenStreamIsComplete
  BY OnlyTheGapIsMissed DEF SnapshotThenStreamIsComplete
<1>2. QED
  BY <1>1, StateInvariance, PTL

\* A stream takes no consumer back, however far it lags and skips.
THEOREM GoesForward == StateSpec => StreamGoesForward
<1> DEFINE Forwards == \A c \in Consumers, s \in Listed :
               Subscribed(c) /\ next'[c] > 0 => view'[c][s] >= view[c][s]
<1>1. StateIndInv /\ [StateNext]_stateVars => [Forwards]_stateVars
  <2> SUFFICES ASSUME StateIndInv, StateNext, NEW c \in Consumers, NEW s \in Listed,
                      Subscribed(c), next'[c] > 0
               PROVE  view'[c][s] >= view[c][s]
    OBVIOUS
  <2>1. view[c][s] \in Nat
    BY PositionsFit
  <2>2. CASE UNCHANGED view
    BY <2>1, <2>2
  <2>3. ASSUME NEW d \in Consumers, ReadStream(d), ForwardPoint(d)
        PROVE  view'[c][s] >= view[c][s]
    BY <2>1, <2>3, ForwardStep DEF PointNo
  <2>4. ASSUME NEW d \in Consumers, Leave(d)
        PROVE  view'[c][s] >= view[c][s]
    <3>1. d # c
      BY <2>4 DEF Leave, StateIndInv, TypeOK
    <3>2. QED
      BY <2>1, <2>4, <3>1 DEF Leave, StateIndInv, TypeOK
  <2>5. QED
    BY <2>2, <2>3, <2>4
       DEF StateNext, Update, StartUpdate, StorePoint, BroadcastPoint, Consumer,
           Upgrade, Subscribe, Snapshot, ReadStream, SkipToOldest, consumerVars
<1>2. QED
  BY <1>1, StateInvariance, PTL DEF StateSpec, StreamGoesForward
=============================================================================
