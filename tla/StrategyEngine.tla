----------------------------- MODULE StrategyEngine -----------------------------
(* From the strategies' raw signals to the ranked ones that a cycle tries:      *)
(* StrategyEngine.generate_signals (strategy/strategy_engine.py), the pattern   *)
(* signals of the cycle (crypto_system.py) and the filter of AntiTrap           *)
(* (defense/anti_trap.py).                                                      *)
(* A signal is [strategy, side, conf, stop, target]: confidence in percent, the *)
(* stop's and the target's distance from the entry in basis points.             *)
EXTENDS Integers, Sequences, SequencesExt

Sides == {"LONG", "SHORT"}
Signals == [strategy : STRING, side : Sides, conf : Nat, stop : Nat, target : Nat]

Least(a, b) == IF a < b THEN a ELSE b
Of(table, key, default) == IF key \in DOMAIN table THEN table[key] ELSE default
Table(keys, values) == [k \in Range(keys) |-> values[CHOOSE i \in DOMAIN keys : keys[i] = k]]

(* REGIME_WEIGHTS, in percent.                                                  *)
Weights ==
    LET Row(values) == Table(<<"trend_follower", "momentum", "breakout", "mean_reversion",
            "funding_rate_arb", "ichimoku_cloud", "enhanced_bb_rsi", "harmonic_divergence">>, values)
    IN [TRENDING_UP     |-> Row(<<27, 22, 13,  5, 10, 10,  5,  5>>),
        TRENDING_DOWN   |-> Row(<<25, 20, 13,  5, 10,  7,  5, 10>>),
        RANGING         |-> Row(<< 5,  5,  5, 25, 10, 10, 30, 10>>),
        HIGH_VOLATILITY |-> Row(<<13, 10, 22, 10, 15, 15, 10,  5>>),
        LOW_VOLATILITY  |-> Row(<< 8,  8,  5, 25, 10, 10, 24, 10>>),
        TRANSITIONING   |-> Row(<< 8,  8, 10, 20, 10, 12, 17, 15>>)]

(* SESSIONS (analysis/session_trader.py): the hours of the day, UTC.            *)
Sessions ==
    [ASIA |-> 0..7, EUROPE |-> 8..12, US_OVERLAP |-> 13..16, US |-> 17..20, OFF_HOURS |-> 21..23]

(* get_session_for_hour()                                                       *)
SessionAt(hour) == CHOOSE s \in DOMAIN Sessions : hour \in Sessions[s]

(* SESSION_WEIGHTS, in percent.                                                 *)
SessionWeights ==
    LET Row(values) == Table(<<"trend_follower", "momentum", "breakout", "mean_reversion",
            "scalper">>, values)
    IN [ASIA       |-> Row(<< 80,  70,  60, 130, 120>>),
        EUROPE     |-> Row(<<100, 100, 100, 100, 100>>),
        US_OVERLAP |-> Row(<<120, 130, 120,  70, 100>>),
        US         |-> Row(<<110, 110, 100,  90,  90>>),
        OFF_HOURS  |-> Row(<< 70,  60,  50, 120, 130>>)]

(* Two strategies that agree add 5 points, three or more add 10.                *)
Voted(signals) ==
    [i \in DOMAIN signals |->
        LET agree == Cardinality({j \in DOMAIN signals : signals[j].side = signals[i].side})
            bonus == IF agree >= 3 THEN 10 ELSE IF agree = 2 THEN 5 ELSE 0
        IN IF bonus = 0 THEN signals[i]
           ELSE [signals[i] EXCEPT !.conf = Least(95, @ + bonus)]]

(* The one signal that is left: the first of those with the best weighted       *)
(* confidence.                                                                  *)
Best(signals, regime) ==
    LET score(s) == s.conf * Of(Weights[regime], s.strategy, 10)
    IN {signals[i] : i \in {i \in DOMAIN signals : \A j \in DOMAIN signals :
            \/ score(signals[i]) > score(signals[j])
            \/ score(signals[i]) = score(signals[j]) /\ i <= j}}

(* generate_signals(): the session weighs the confidence, the regime only the   *)
(* choice.                                                                      *)
Generated(raw, regime, session) ==
    LET inSession == [i \in DOMAIN raw |->
            [raw[i] EXCEPT !.conf = (@ * Of(SessionWeights[session], raw[i].strategy, 100)) \div 100]]
    IN Best(Voted(inSession), regime)

(* A pattern's stop is moved closer until the reward is 1.5 times the risk.     *)
FromPattern(p) ==
    IF p.target > 0 /\ 3 * p.stop > 2 * p.target
    THEN [p EXCEPT !.stop = (2 * p.target) \div 3] ELSE p

(* The engine's signal and behind it the patterns of at least 50.               *)
Proposed(raw, patterns, regime, session) ==
    {[place |-> 0, signal |-> s] : s \in Generated(raw, regime, session)} \cup
    {[place |-> i, signal |-> FromPattern(patterns[i])] :
        i \in {j \in DOMAIN patterns : patterns[j].conf >= 50}}

(* Sorted by confidence, in their order where it is the same: each with the     *)
(* number of those before it.                                                   *)
Before(a, b) ==
    \/ a.signal.conf > b.signal.conf
    \/ a.signal.conf = b.signal.conf /\ a.place < b.place

Ranked(proposed) ==
    {[rank |-> Cardinality({b \in proposed : Before(b, a)}), signal |-> a.signal] : a \in proposed}

(* The sensors' biases, [side, conf]: only those above 30 count.                *)
Strong(biases) == {i \in DOMAIN biases : biases[i].conf > 30}

(* One point for each that agrees, two off for each that does not.              *)
Adjusted(signal, biases) ==
    LET strong == Strong(biases)
        agree == {i \in strong : biases[i].side = signal.side}
        conflict == {i \in strong : biases[i].side \notin {signal.side, "NEUTRAL"}}
        conf == signal.conf + Cardinality(agree) - 2 * Cardinality(conflict)
    IN IF strong = {} THEN signal
       ELSE [signal EXCEPT !.conf = IF conf < 5 THEN 5 ELSE Least(100, conf)]

-----------------------------------------------------------------------------
(* AntiTrap.is_trap over the last three candles, oldest first; a candle is      *)
(* [open, close, high, low, volume].                                            *)
Distance(a, b) == IF a < b THEN b - a ELSE a - b

PinBar(candle, side) ==
    LET top == candle.open + candle.close - Least(candle.open, candle.close)
        wick == IF side = "LONG" THEN candle.high - top
                ELSE Least(candle.open, candle.close) - candle.low
        body == Distance(candle.open, candle.close)
    IN IF body = 0 THEN wick > 0 ELSE 2 * wick > 5 * body

(* The price goes the signal's way on ever less volume.                         *)
Divergence(candles, side) ==
    /\ IF side = "LONG" THEN candles[3].close > candles[1].close
       ELSE candles[3].close < candles[1].close
    /\ candles[3].volume < candles[2].volume /\ candles[2].volume < candles[1].volume

(* A move of more than 3% in one candle, either way.                            *)
Pump(candle) ==
    candle.open # 0 /\ 100 * Distance(candle.open, candle.close) > 3 * candle.open

IsTrap(candles, side) ==
    /\ Len(candles) >= 3
    /\ PinBar(candles[3], side) \/ Divergence(candles, side) \/ Pump(candles[3])
=============================================================================
