----------------------------- MODULE MCEntrySearch -----------------------------
(* EntrySearch for TLC: two correlated symbols and a handful of markets, each   *)
(* with what the filters, the vote or the ranking tell apart.                   *)
EXTENDS EntrySearch

MCSymbols == <<"BTCUSDT", "ETHUSDT">>
MCMilestones == 50000 :> 15000
MCResults == {-1, 2}

Signal(strategy, side, conf, stop, target) ==
    [strategy |-> strategy, side |-> side, conf |-> conf, stop |-> stop, target |-> target]
Candle(open, close, high, low, volume) ==
    [open |-> open, close |-> close, high |-> high, low |-> low, volume |-> volume]

Calm == <<Candle(1000, 1005, 1006, 999, 10), Candle(1005, 1008, 1009, 1004, 11),
          Candle(1008, 1012, 1013, 1007, 12)>>
Pin == <<Calm[1], Calm[2], Candle(1008, 1010, 1020, 1007, 12)>>

Market(regime, raw, patterns) ==
    [regime |-> regime, raw |-> raw, patterns |-> patterns,
     candles |-> Calm, biases |-> <<>>, score |-> 0, trend |-> "NEUTRAL"]

MCMarkets == {
    \* two strategies agree: the vote makes the leverage high; the pattern that
    \* comes after it promises less than the fees
    Market("HIGH_VOLATILITY", <<Signal("momentum", "LONG", 70, 30, 300),
                                Signal("mean_reversion", "LONG", 92, 10, 300)>>,
           <<Signal("pattern_double_bottom", "LONG", 60, 14, 20)>>),
    \* a sensor makes it too weak for a market in transition, which tightens the
    \* next one, too
    [Market("TRANSITIONING", <<Signal("momentum", "SHORT", 39, 100, 300)>>, <<>>)
        EXCEPT !.biases = <<[side |-> "LONG", conf |-> 50], [side |-> "SHORT", conf |-> 20]>>],
    \* the higher timeframes are against the one signal, the other is a trap
    [Market("RANGING", <<Signal("mean_reversion", "SHORT", 60, 10, 300)>>,
            <<Signal("pattern_double_bottom", "LONG", 80, 300, 300)>>)
        EXCEPT !.score = 5, !.trend = "LONG", !.candles = Pin]}
=============================================================================
