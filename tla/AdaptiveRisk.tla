------------------------------ MODULE AdaptiveRisk ------------------------------
(* What the closed trades say about the next one: AdaptiveRiskState             *)
(* (defense/risk_manager.py), which scales every position and shuts trading     *)
(* down for a while, and the Kelly test of CompoundEngine                       *)
(* (evolution/compound_engine.py), which shuts out a strategy.                  *)
(* closed is the log of the closed trades, newest first: [strategy, pnl].       *)
EXTENDS Integers, Sequences, FiniteSetsExt

CONSTANTS
    Lookback,       \* adaptive_lookback (10)
    LossRun,        \* consecutive losses that halve the positions (3)
    LongLossRun,    \* consecutive losses that quarter them (5)
    Rest,           \* adaptive_cooldown_hours, in ticks
    KellyMinimum    \* trades below which the Kelly test says nothing (5)

ASSUME AdaptiveAssumption ==
    /\ {Lookback, LossRun, LongLossRun, Rest, KellyMinimum} \subseteq Nat \ {0}
    /\ LossRun <= LongLossRun

None == -1
Scales == {0, 25, 50, 100, 130}     \* percent
Adaptives == [until : {None} \cup 0..Rest, grace : 0..Rest, cached : {None} \cup Scales]

(* A new process begins with a grace period and remembers no cooldown.          *)
Booted == [until |-> None, grace |-> Rest, cached |-> None]

First(n, s) == SubSeq(s, 1, IF n < Len(s) THEN n ELSE Len(s))
Wins(rows) == Cardinality({i \in DOMAIN rows : rows[i] > 0})

Losses(rows) == Cardinality({i \in DOMAIN rows : rows[i] < 0})
Gained(rows) == MapThenSumSet(LAMBDA i : rows[i], {i \in DOMAIN rows : rows[i] > 0})
Lost(rows) == MapThenSumSet(LAMBDA i : -rows[i], {i \in DOMAIN rows : rows[i] < 0})

-----------------------------------------------------------------------------
(* The scale that the last trades ask for; 0 shuts trading down.                *)
Performance(rows) ==
    LET wins == 100 * Wins(rows)
        run == Min({Len(rows)} \cup {i - 1 : i \in {j \in DOMAIN rows : rows[j] >= 0}})
    IN CASE rows = <<>>              -> 100
         [] wins <= 30 * Len(rows)   -> 0
         [] run >= LongLossRun       -> 25
         [] run >= LossRun           -> 50
         [] wins > 70 * Len(rows) /\ run = 0 -> 130
         [] OTHER                    -> 100

(* The query leaves out trades that made nothing.                               *)
Rows(closed) ==
    First(Lookback, SelectSeq([i \in DOMAIN closed |-> closed[i].pnl], LAMBDA x : x # 0))

(* Variant: a rest that is over is judged by the same trades again.             *)
ComputedAgain(a, closed) ==
    LET s == Performance(Rows(closed))
    IN IF a.until > 0 THEN [a EXCEPT !.cached = 0]
       ELSE [until |-> IF s = 0 THEN Rest ELSE None, grace |-> 0, cached |-> s]

(* _compute_scale(): the scale, and what is left of the rest and the grace.     *)
Computed(a, closed) ==
    LET s == Performance(Rows(closed))
    IN CASE a.until > 0 -> [a EXCEPT !.cached = 0]
         [] a.until = 0 -> [until |-> None, grace |-> Rest, cached |-> 50]
         [] a.until = None /\ a.grace > 0 -> [a EXCEPT !.cached = 50]
         [] OTHER -> [until |-> IF s = 0 THEN Rest ELSE None, grace |-> 0, cached |-> s]

(* get_scale_factor(): computed anew when the cache is more than 60 seconds old *)
Asked(a, closed) == IF a.cached # None THEN a ELSE Computed(a, closed)

(* get_min_confidence_boost()                                                   *)
Boost(scale) == IF scale <= 25 THEN 15 ELSE IF scale <= 50 THEN 10 ELSE 0

(* An hour: what was cached is old, too.                                        *)
Less(ticks) == IF ticks > 0 THEN ticks - 1 ELSE ticks
HourOlder(a) == [until |-> Less(a.until), grace |-> Less(a.grace), cached |-> None]

-----------------------------------------------------------------------------
(* REGIME_STRATEGY_FIT; no strategy is suited to a transition.                  *)
Fitting ==
    LET trending == {"trend_follower", "momentum", "ichimoku_cloud", "breakout"}
        calm == {"mean_reversion", "enhanced_bb_rsi"}
    IN [TRENDING_UP     |-> trending,           TRENDING_DOWN  |-> trending,
        RANGING         |-> calm \cup {"scalper"}, LOW_VOLATILITY |-> calm,
        HIGH_VOLATILITY |-> trending \ {"momentum"}, TRANSITIONING |-> {}]

(* get_kelly_fraction() > 0 over the strategy's trades of the last seven days:  *)
(* with mean win W, mean loss L and w wins in n trades the fraction is positive *)
(* iff (W / L) (w / n) > 1 - w / n.  A regime that suits the strategy lets it   *)
(* pass whatever its trades were.                                               *)
KellyAllows(strategy, regime, recent) ==
    LET mine == SelectSeq(recent, LAMBDA t : t.strategy = strategy)
        rows == [i \in DOMAIN mine |-> mine[i].pnl]
    IN \/ Len(rows) < KellyMinimum
       \/ strategy \in Fitting[regime]
       \/ Wins(rows) > 0 /\ Losses(rows) = 0
       \/ Gained(rows) * Losses(rows) > (Len(rows) - Wins(rows)) * Lost(rows)
=============================================================================
