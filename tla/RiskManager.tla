------------------------------- MODULE RiskManager -------------------------------
(* RiskManager.validate (defense/risk_manager.py): from a signal and the        *)
(* portfolio to an order, or none.  Money is in cents, confidence, shares and   *)
(* scales in percent, distances of prices from the entry in basis points; a     *)
(* division rounds down.  An order is its notional, quantity times entry price. *)
EXTENDS AdaptiveRisk

CONSTANTS
    MaxConcurrent,      \* max_concurrent_positions
    MaxCorrelated,      \* max_correlated_same_dir
    MaxDirectional      \* max_directional_leverage (15)

ASSUME RiskAssumption ==
    {MaxConcurrent, MaxCorrelated, MaxDirectional} \subseteq Nat \ {0}

BaseRisk == 3               \* max_risk_per_trade
HighLeverage == 10
MediumLeverage == 5
Floor == 40                 \* min_conf of the cycle
LeastProfit == 24           \* three round trips of taker fees

(* MIN_NOTIONAL: the venue's least, 20 for all but one symbol.                  *)
MinNotional(symbol) == IF symbol = "BTCUSDT" THEN 10000 ELSE 2000
Correlated == {"BTCUSDT", "ETHUSDT", "SOLUSDT"}

Notional(positions) == MapThenSumSet(LAMBDA p : p.notional, positions)
SameSide(positions, side) == {p \in positions : p.side = side}
Margin(p) == p.notional \div p.leverage
UsedMargin(positions) == MapThenSumSet(Margin, positions)
InGroup(positions) == {p \in positions : p.symbol \in Correlated}

(* _check_directional_exposure(): the new position is not sized yet and counts  *)
(* with a rough guess.                                                          *)
ExposureFits(signal, positions, equity) ==
    LET same == SameSide(positions, signal.side)
        guess == Max({MinNotional(signal.symbol), (equity * BaseRisk) \div 100})
    IN /\ Notional(same) + guess <= MaxDirectional * equity
       /\ signal.symbol \in Correlated => Cardinality(InGroup(same)) < MaxCorrelated

(* Every correlated position on the same side costs confidence, and what is     *)
(* left is not compared with the floor again.                                   *)
Penalised(signal, positions) ==
    LET others == IF signal.symbol \in Correlated
                  THEN {p \in InGroup(SameSide(positions, signal.side)) : p.symbol # signal.symbol}
                  ELSE {}
    IN FoldSet(LAMBDA p, conf : (conf * 60) \div 100, signal.conf, others)

LeverageFor(conf) ==
    IF conf >= 80 THEN HighLeverage
    ELSE IF conf >= 50 THEN MediumLeverage ELSE Max({3, MediumLeverage \div 2})

(* What one position may tie up.                                                *)
CapitalFor(positions, effective, leverage, least) ==
    LET available == effective - UsedMargin(positions)
        share == available \div (MaxConcurrent - Cardinality(positions))
        buffered == (least * 105) \div (100 * leverage)
    IN Min({Max({buffered, share}), (available * 95) \div 100, (effective * 40) \div 100})

(* 1 at the floor to 2.5 at full confidence.                                    *)
RiskMultiplier(conf) == IF conf <= Floor THEN 100 ELSE 100 + ((conf - Floor) * 150) \div 60

(* Variant: the size is not capped.                                             *)
SizedUncapped(capital, leverage, conf, stop, least) ==
    LET risked == (capital * BaseRisk * RiskMultiplier(conf)) \div 10000
    IN Max({(risked * 10000) \div stop, least})

(* Raised to the venue's least, then capped by what the capital carries.        *)
Sized(capital, leverage, conf, stop, least) ==
    LET risked == (capital * BaseRisk * RiskMultiplier(conf)) \div 10000
    IN Min({Max({(risked * 10000) \div stop, least}), capital * leverage})

NoOrder == [notional |-> 0]

(* What is refused before anything is sized.  scale: of AdaptiveRisk.           *)
Admitted(signal, regime, positions, equity, scale, recent) ==
    /\ signal.conf >= Floor
    /\ scale > 0
    /\ signal.conf >= Floor + Boost(scale)
    /\ KellyAllows(signal.strategy, regime, recent)
    /\ Cardinality(positions) < MaxConcurrent
    /\ \A p \in positions : p.symbol # signal.symbol \/ p.side # signal.side
    /\ ExposureFits(signal, positions, equity)

(* The order before the adaptive scale.                                         *)
Ordered(signal, positions, effective) ==
    LET conf == Penalised(signal, positions)
        leverage == LeverageFor(conf)
        least == MinNotional(signal.symbol)
        capital == CapitalFor(positions, effective, leverage, least)
        notional == Sized(capital, leverage, conf, signal.stop, least)
    IN IF /\ capital > 0 /\ signal.stop > 0
          /\ signal.target > 0 => signal.target >= LeastProfit
          /\ notional >= least
          /\ notional <= leverage * (effective - UsedMargin(positions))
       THEN [symbol |-> signal.symbol, side |-> signal.side, strategy |-> signal.strategy,
             conf |-> conf, leverage |-> leverage, notional |-> notional]
       ELSE NoOrder

(* validate().  Locked profit is no capital.                                    *)
Validate(signal, regime, positions, equity, locked, scale, recent) ==
    LET order == Ordered(signal, positions, Max({equity - locked, 0}))
        scaled == (order.notional * scale) \div 100
    IN IF /\ Admitted(signal, regime, positions, equity, scale, recent)
          /\ order # NoOrder /\ scaled >= MinNotional(signal.symbol)
       THEN [order EXCEPT !.notional = scaled]
       ELSE NoOrder
=============================================================================
