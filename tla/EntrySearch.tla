------------------------------- MODULE EntrySearch -------------------------------
(* The last part of run_trading_cycle (crypto_system.py): the search for one    *)
(* new position among the symbols of the data feed, from the strategies'        *)
(* signals over the filters and RiskManager.validate to the executed order, and *)
(* what the closed trades do to the next search.  TradingCycle has the same     *)
(* step with the venue and the rows in full and any filter and size; here the   *)
(* filters and sizes are the code's, and the venue fills or does not fill.      *)
EXTENDS RiskManager, StrategyEngine

CONSTANTS
    Symbols,        \* DataFeed.symbols, in order
    Markets,        \* what a cycle may see of a symbol's market
    Equities,       \* equities, in cents
    States,         \* recovery states of the DefenseManager
    Minutes,        \* minutes of the day
    Jitters,        \* random factors on the first tranche, in percent
    Results,        \* what a trade may make
    Milestones,     \* profit_lock_milestones: [equity -> locked], in cents
    MaxLog          \* bound on the log of closed trades

Defense == INSTANCE DefenseManager WITH Cooldown <- 1

ASSUME SearchAssumption ==
    /\ Symbols \in Seq(STRING)
    /\ Equities \subseteq Nat /\ Jitters \subseteq 90..110 /\ Results \subseteq Int
    /\ States \subseteq Defense!Drawdowns \ {"limit"} /\ MaxLog \in Nat
    /\ Minutes \subseteq 0..1439
    /\ IsFiniteSet(DOMAIN Milestones) /\ \A m \in DOMAIN Milestones : Milestones[m] \in Nat

ASSUME MarketAssumption ==
    \A m \in Markets :
        /\ m.regime \in DOMAIN Weights
        /\ m.raw \in Seq(Signals) /\ m.patterns \in Seq(Signals)
        /\ m.biases \in Seq([side : Sides \cup {"NEUTRAL"}, conf : Nat])

(* A position, a closed trade, what a cycle has read and how careful it is, a   *)
(* signal that no filter took, an order.                                        *)
Positions == [symbol : STRING, side : Sides, strategy : STRING, notional : Nat,
              leverage : 1..HighLeverage]
Trades == [strategy : STRING, pnl : Int]
Portfolios == [positions : SUBSET Positions, equity : Equities \cup {0}, hour : 0..23]
Params == [max_leverage : 3..HighLeverage, min_confidence : Nat, mtf_min_score : Nat]
Candidate == [symbol : STRING, regime : DOMAIN Weights, rank : Nat, strategy : STRING,
              side : Sides, conf : Nat, stop : Nat, target : Nat]
Orders == [symbol : STRING, side : Sides, strategy : STRING, conf : Nat,
           leverage : 1..HighLeverage, notional : Nat \ {0}]

VARIABLES
    book,       \* the open positions
    closed,     \* the closed trades, newest first
    week,       \* how many of them are less than seven days old
    adaptive,   \* AdaptiveRiskState
    locked,     \* CompoundEngine._locked_capital
    pc,         \* idle, search, send
    portfolio,  \* what this cycle has read: positions, equity and the hour
    params,     \* recovery_params
    todo,       \* symbols still to be looked at
    queue,      \* signals of this symbol still to be tried
    order       \* the order that is being sent

search == <<portfolio, params, todo, queue, order>>
vars == <<book, closed, week, adaptive, locked, pc, search>>

NoPortfolio == [positions |-> {}, equity |-> 0, hour |-> 0]
NormalParams == Defense!RecoveryParams("normal")

Init ==
    /\ book = {} /\ closed = <<>> /\ week = 0
    /\ adaptive = Booted /\ locked = 0
    /\ pc = "idle" /\ portfolio = NoPortfolio /\ params = NormalParams
    /\ todo = <<>> /\ queue = {} /\ order = NoOrder

-----------------------------------------------------------------------------
(* A cycle.                                                                     *)

(* should_reduce_exposure(): in the 15 minutes before a funding settlement, but *)
(* not in the minute itself.                                                    *)
NearFunding(minute) == \E at \in {0, 480, 960} : (at - minute) % 1440 \in 1..15

(* healthy is FALSE also when a position was closed in this cycle.              *)
BeginCycle(equity, state, minute, healthy) ==
    /\ pc = "idle"
    /\ pc' = "search"
    /\ portfolio' = [positions |-> book, equity |-> equity, hour |-> minute \div 60]
    /\ params' = Defense!RecoveryParams(state)
    /\ todo' = IF healthy /\ ~NearFunding(minute) THEN Symbols ELSE <<>>
    /\ UNCHANGED <<book, closed, week, adaptive, locked, queue, order>>

(* REGIME_OVERRIDES.  What one symbol's regime tightens stays so for the        *)
(* symbols after it.                                                            *)
Overridden(p, regime) ==
    IF regime # "TRANSITIONING" THEN p
    ELSE [max_leverage   |-> Min({p.max_leverage, 5}),
          min_confidence |-> Max({p.min_confidence, 50}),
          mtf_min_score  |-> Max({p.mtf_min_score, 5})]

(* The higher timeframes are strongly against the signal.                       *)
Against(market, side, least) ==
    market.score >= least /\ market.trend \notin {side, "NEUTRAL"}

(* The symbol's signals that no filter takes.                                   *)
Candidates(symbol, market, p) ==
    LET ranked == Ranked(Proposed(market.raw, market.patterns, market.regime,
                                  SessionAt(portfolio.hour)))
        Entry(r) == LET s == Adjusted(r.signal, market.biases)
                    IN [symbol |-> symbol, regime |-> market.regime, rank |-> r.rank,
                        strategy |-> s.strategy, side |-> s.side, conf |-> s.conf,
                        stop |-> s.stop, target |-> s.target]
    IN {s \in {Entry(r) : r \in ranked} :
            /\ ~IsTrap(market.candles, s.side)
            /\ ~Against(market, s.side, p.mtf_min_score)
            /\ s.conf >= p.min_confidence}

(* Full, only held symbols are looked at, for a flip that validate then         *)
(* refuses; otherwise only symbols that are not held.                           *)
LookedAt(symbol) ==
    LET held == symbol \in {p.symbol : p \in portfolio.positions}
    IN held <=> Cardinality(portfolio.positions) >= MaxConcurrent

(* The leverage is capped after the position has been sized.                    *)
Capped(o, p) == [o EXCEPT !.leverage = Min({@, p.max_leverage})]

(* Signals are validated one after the other and the first that passes is sent; *)
(* one that passes may still be beyond the day's fee budget.  Without an order  *)
(* the search goes on with the symbols that are left, or is over.               *)
Try(signals) ==
    LET scale == Asked(adaptive, closed).cached
        Valid(s) == Validate(s, s.regime, portfolio.positions, portfolio.equity, locked, scale,
                             First(week, closed))
    IN /\ adaptive' = IF signals = {} THEN adaptive ELSE Asked(adaptive, closed)
       /\ \/ \E s \in signals :
                 /\ Valid(s) # NoOrder
                 /\ pc' = "send" /\ order' = Capped(Valid(s), params')
                 /\ queue' = {t \in signals : t.rank > s.rank}
          \/ pc' = "search" /\ order' = NoOrder /\ queue' = {}

(* The signals that were left when an order came to nothing.                    *)
TryRest ==
    /\ pc = "search" /\ queue # {}
    /\ Try(queue)
    /\ UNCHANGED <<book, closed, week, locked, portfolio, params, todo>>

(* A symbol is looked at.  Symbols before it had no signals; the regime of one  *)
(* of them may have been a transition.                                          *)
Look(i, market, transition) ==
    /\ pc = "search" /\ queue = {} /\ i \in DOMAIN todo
    /\ LookedAt(todo[i])
    /\ transition => \E j \in 1..i - 1 : LookedAt(todo[j])
    /\ params' = Overridden(Overridden(params, IF transition THEN "TRANSITIONING" ELSE market.regime),
                            market.regime)
    /\ todo' = SubSeq(todo, i + 1, Len(todo))
    /\ Try(Candidates(todo[i], market, params'))
    /\ UNCHANGED <<book, closed, week, locked, portfolio>>

(* The price has drifted during the delay, or nothing was filled: the next      *)
(* signal is tried.                                                             *)
Drop ==
    /\ pc = "send"
    /\ pc' = "search" /\ order' = NoOrder
    /\ UNCHANGED <<book, closed, week, adaptive, locked, portfolio, params, todo, queue>>

(* plan_execution(): a small account or a sure signal enters at once, others in *)
(* up to three tranches.                                                        *)
Tranches ==
    LET urgency == IF portfolio.equity < 50000 THEN 100 ELSE order.conf
    IN IF urgency >= 80 THEN 1 ELSE Max({1, (3 * (200 - urgency)) \div 200})

(* The first tranche is jittered; the others are limit orders that may not fill.*)
Execute(jitter, rest) ==
    /\ pc = "send"
    /\ LET tranche == order.notional \div Tranches
           filled == (tranche * jitter) \div 100 + (IF rest THEN (Tranches - 1) * tranche ELSE 0)
       IN book' = book \cup {[symbol |-> order.symbol, side |-> order.side, notional |-> filled,
                              leverage |-> order.leverage, strategy |-> order.strategy]}
    /\ pc' = "search" /\ order' = NoOrder
    /\ todo' = <<>> /\ queue' = {}
    /\ UNCHANGED <<closed, week, adaptive, locked, portfolio, params>>

(* update_position_sizing(): every milestone that is reached locks its amount.  *)
Locked(equity) == Max({0} \cup {Milestones[m] : m \in {k \in DOMAIN Milestones : equity >= k}})

(* The symbols that are left have no signals.                                   *)
EndCycle ==
    /\ pc = "search" /\ queue = {}
    /\ pc' = "idle"
    /\ locked' = Max({locked, Locked(portfolio.equity)})
    /\ portfolio' = NoPortfolio /\ params' = NormalParams /\ todo' = <<>>
    /\ UNCHANGED <<book, closed, week, adaptive, queue, order>>

-----------------------------------------------------------------------------
(* Around it: nothing comes between the steps of a search, which awaits nothing *)
(* until it sends an order.                                                     *)
Awaiting == pc \in {"idle", "send"}

(* A stop at the venue or a later cycle closes a position.                      *)
Close(p, pnl) ==
    /\ Awaiting
    /\ book' = book \ {p}
    /\ closed' = First(MaxLog, <<[strategy |-> p.strategy, pnl |-> pnl]>> \o closed)
    /\ week' = Min({week + 1, MaxLog})
    /\ UNCHANGED <<adaptive, locked, pc, search>>

(* _reconcile_pnl_with_exchange(): the last trade of a symbol is given the       *)
(* difference between the symbol's sum and the venue's.  Any trade of the log   *)
(* may be the last of its symbol.                                               *)
PnlCorrected ==
    \E pnl \in [DOMAIN closed -> Results] :
        closed' = [i \in DOMAIN closed |-> [closed[i] EXCEPT !.pnl = pnl[i]]]

(* A new process: what was cached, cooling down or locked is forgotten.         *)
Restart ==
    /\ Awaiting
    /\ adaptive' = Booted /\ locked' = 0
    /\ pc' = "idle" /\ portfolio' = NoPortfolio /\ params' = NormalParams
    /\ todo' = <<>> /\ queue' = {} /\ order' = NoOrder
    /\ PnlCorrected
    /\ UNCHANGED <<book, week>>

Minute ==
    /\ Awaiting
    /\ adaptive' = [adaptive EXCEPT !.cached = None]
    /\ UNCHANGED <<book, closed, week, locked, pc, search>>

Hour ==
    /\ Awaiting
    /\ adaptive' = HourOlder(adaptive)
    /\ UNCHANGED <<book, closed, week, locked, pc, search>>

(* A trade becomes a week old.  Rests and graces are a matter of hours.         *)
Day ==
    /\ Awaiting /\ week > 0
    /\ week' = week - 1
    /\ adaptive' = [until |-> Min({adaptive.until, 0}), grace |-> 0, cached |-> None]
    /\ UNCHANGED <<book, closed, locked, pc, search>>

Cycle ==
    \/ \E equity \in Equities, state \in States, minute \in Minutes, healthy \in BOOLEAN :
           BeginCycle(equity, state, minute, healthy)
    \/ \E i \in DOMAIN todo, market \in Markets, transition \in BOOLEAN :
           Look(i, market, transition)
    \/ TryRest
    \/ Drop
    \/ \E jitter \in Jitters, rest \in BOOLEAN : Execute(jitter, rest)
    \/ EndCycle

Next ==
    \/ Cycle
    \/ \E p \in book, pnl \in Results : Close(p, pnl)
    \/ Restart \/ Minute \/ Hour \/ Day

Spec == Init /\ [][Next]_vars

(* Time passes, the market brings a signal again and again, and the process is  *)
(* not restarted for ever.                                                      *)
FairSpec ==
    /\ Spec /\ SF_vars(Hour)
    /\ []<><<pc = "search" /\ adaptive'.cached # None>>_vars
    /\ <>[][~Restart]_vars

-----------------------------------------------------------------------------
(* Properties.                                                                  *)

(* What is kept, read and sent is well formed; in particular every order that   *)
(* is sent has a notional and a leverage of at least 1.                         *)
TypeOK ==
    /\ book \subseteq Positions
    /\ closed \in Seq(Trades) /\ Len(closed) <= MaxLog
    /\ week \in 0..Len(closed)
    /\ adaptive \in Adaptives
    /\ locked \in {0} \cup Range(Milestones)
    /\ pc \in {"idle", "search", "send"}
    /\ portfolio \in Portfolios /\ params \in Params
    /\ todo \in Seq(STRING)
    /\ queue \subseteq Candidate
    /\ IF pc = "send" THEN order \in Orders ELSE order = NoOrder

(* No entry takes the notional of a side beyond MaxDirectional times the equity *)
(* the cycle has read, although the check guesses the size of the new position, *)
(* the size is scaled up and jittered after it, and the leverage of what it     *)
(* adds to was capped after sizing.                                             *)
SameSideExposure ==
    [][\A p \in book' \ book :
        Notional(SameSide(book', p.side)) <= MaxDirectional * portfolio.equity]_vars

(* A record of lost trades does not shut trading down for good: the rest ends   *)
(* and signals get through again although the trades it judges stay the same,   *)
(* however the cached answers, the hours and a restart fall.                    *)
RestEnds == adaptive.cached = 0 ~> adaptive.cached > 0

(* One position ties up at most 40% of the equity.                              *)
PositionMargin ==
    pc = "send" => 100 * Margin(order) <= 40 * portfolio.equity
=============================================================================
