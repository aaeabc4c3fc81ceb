---------------------------- MODULE OracleConfig ----------------------------
(***************************************************************************)
(* What oracle run() makes of its configuration before a task starts: the  *)
(* feeds of each provider (config.rs), which symbols an observation of a   *)
(* provider's id is for (the maps the feed tasks build), the instruments   *)
(* and the feed each is registered under (Engine::from_config), and the    *)
(* registry the API looks mints up in (AppState::new).                     *)
(*                                                                         *)
(* An underlying is [symbol, ids], with ids[p] its id at provider p where  *)
(* one is given; an id stands for its normalized form.  An instrument is   *)
(* [symbol, mint, feed]: symbol and mint may be Unset, and feed is Unset   *)
(* for a peg or a gbm.  Bases over several feeds are in PricingEngine.     *)
(***************************************************************************)
EXTENDS FiniteSetsExt, SequencesExt

CONSTANTS Symbols, Ids, Mints

Providers == {"pyth", "coingecko", "binance"}
Sources == Providers \X Ids
Unset == "unset"

Underlying == [symbol : Symbols, ids : UNION {[P -> Ids] : P \in SUBSET Providers}]
Instrument == [symbol : Symbols \cup Mints \cup {Unset}, mint : Mints \cup {Unset},
               feed : Symbols \cup {Unset}]
Configuration == [underlyings : Seq(Underlying), instruments : Seq(Instrument)]

ASSUME NamesAssumption == Unset \notin Symbols \cup Mints

-----------------------------------------------------------------------------
(***************************************************************************)
(* Underlyings                                                             *)
(***************************************************************************)
\* partition_underlyings: exactly one provider each.
Partitions(config) ==
    \A u \in ToSet(config.underlyings) : Cardinality(DOMAIN u.ids) = 1

\* The positions of the entries of provider p.
ProviderFeeds(config, p) ==
    {k \in DOMAIN config.underlyings : p \in DOMAIN config.underlyings[k].ids}

\* Mutant: observations are matched to the symbols by position.
RecipientsByPosition(config, p, id) ==
    LET feeds == ProviderFeeds(config, p)
        naming == {k \in feeds : config.underlyings[k].ids[p] = id}
    IN  IF naming = {} THEN {} ELSE {config.underlyings[Max(feeds)].symbol}

\* The symbols that an observation of id at provider p is for.  Pyth and
\* Binance go through a HashMap from id to symbol, where the last entry wins;
\* CoinGecko goes through the entries.
Recipients(config, p, id) ==
    LET naming == {k \in ProviderFeeds(config, p) :
                       config.underlyings[k].ids[p] = id}
    IN  CASE naming = {} -> {}
          [] naming # {} /\ p = "coingecko" ->
                 {config.underlyings[k].symbol : k \in naming}
          [] OTHER -> {config.underlyings[Max(naming)].symbol}

-----------------------------------------------------------------------------
(***************************************************************************)
(* Instruments                                                             *)
(***************************************************************************)
\* resolved_symbol: the mint stands in for a missing symbol.
Resolved(instrument) ==
    IF instrument.symbol # Unset THEN instrument.symbol ELSE instrument.mint

\* from_config: every instrument has a symbol of its own and a known feed.
InstrumentsValid(config) ==
    LET list == config.instruments
        known == {u.symbol : u \in ToSet(config.underlyings)}
    IN  /\ \A k \in DOMAIN list :
               /\ Resolved(list[k]) # Unset
               /\ list[k].feed \in known \cup {Unset}
        /\ \A j, k \in DOMAIN list :
               j # k => Resolved(list[j]) # Resolved(list[k])

\* run() gets as far as starting the tasks.
Accepted(config) == InstrumentsValid(config) /\ Partitions(config)

\* by_feed: the instruments re-evaluated on a tick of s.
ByFeed(config, s) ==
    {Resolved(i) : i \in {x \in ToSet(config.instruments) : x.feed = s}}

\* timed: the instruments published by the engine's clock.
Timed(config) == ByFeed(config, Unset)

\* mint_to_symbol: the last instrument that names m, Unset for none.
SymbolForMint(config, m) ==
    LET naming == {k \in DOMAIN config.instruments :
                       config.instruments[k].mint = m}
    IN  IF naming = {} THEN Unset
        ELSE Resolved(config.instruments[Max(naming)])
=============================================================================
