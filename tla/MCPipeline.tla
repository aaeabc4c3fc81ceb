----------------------------- MODULE MCPipeline -----------------------------
(***************************************************************************)
(* Small configurations, each for a case of its own, and a channel with    *)
(* room for one tick, so that the tasks contend for it and a flush has two *)
(* points to send.                                                         *)
(***************************************************************************)
EXTENDS Pipeline, TLC

Pyth(symbol, id) == [symbol |-> symbol, ids |-> "pyth" :> id]
CoinGecko(symbol, id) == [symbol |-> symbol, ids |-> "coingecko" :> id]
Binance(symbol, id) == [symbol |-> symbol, ids |-> "binance" :> id]
Named(symbol, feed) == [symbol |-> symbol, mint |-> Unset, feed |-> feed]
Token(mint, feed) == [symbol |-> Unset, mint |-> mint, feed |-> feed]
Both(symbol, mint, feed) == [symbol |-> symbol, mint |-> mint, feed |-> feed]

\* A polled and two streamed feeds; two instruments on one of them.
Mixed ==
    [underlyings |-> <<Pyth("sol", "x"), Binance("btc", "x"), Binance("eth", "y")>>,
     instruments |-> <<Named("sol", "sol"), Token("m1", "btc"), Named("eth", "eth")>>]

\* Two symbols with one id at each provider that is polled.
SharedIds ==
    [underlyings |-> <<Pyth("sol", "x"), Pyth("btc", "x"), CoinGecko("btc", "x"),
                       CoinGecko("eth", "x")>>,
     instruments |-> <<Named("sol", "sol"), Named("btc", "btc"), Named("eth", "eth")>>]

\* One symbol from two providers; one mint of two instruments, one of them
\* synthetic.
SharedNames ==
    [underlyings |-> <<Pyth("btc", "x"), Binance("btc", "y")>>,
     instruments |-> <<Token("m1", Unset), Both("btc", "m1", "btc"),
                       Both("eth", "m2", "btc")>>]

\* One symbol from two streams.
TwoStreams ==
    [underlyings |-> <<Binance("btc", "x"), Binance("btc", "y")>>,
     instruments |-> <<Token("m1", "btc")>>]

SyntheticOnly ==
    [underlyings |-> <<>>, instruments |-> <<Named("sol", Unset)>>]

\* Refused: a feed nobody provides, two instruments of one name, no name, an
\* underlying with two providers.
UnknownFeed == [SyntheticOnly EXCEPT !.instruments = <<Named("sol", "sol")>>]
OneNameTwice ==
    [SyntheticOnly EXCEPT !.instruments =
        <<Both("m1", "m2", Unset), Token("m1", Unset)>>]
NoName == [SyntheticOnly EXCEPT !.instruments = <<Token(Unset, Unset)>>]
TwoProviders ==
    [SyntheticOnly EXCEPT !.underlyings =
        <<[symbol |-> "sol", ids |-> "pyth" :> "x" @@ "binance" :> "x"]>>]

MCConfigs ==
    {Mixed, SharedIds, SharedNames, TwoStreams, SyntheticOnly, UnknownFeed,
     OneNameTwice, NoName, TwoProviders}

MCMaxObs ==
    <<"pyth", "x">> :> 2 @@ <<"coingecko", "x">> :> 2 @@
    <<"binance", "x">> :> 2 @@ <<"binance", "y">> :> 1
MCMarket == DOMAIN MCMaxObs
=============================================================================
