-------------------------- MODULE EntrySearch_proofs --------------------------
(* Theorems about EntrySearch: its variables keep their types, which includes *)
(* that every order sent has a size and a leverage, and no entry takes a      *)
(* side's notional beyond the limit. The latter does not rest on              *)
(* RiskManager's check of that limit, which only guesses the size of the new  *)
(* position, but on what an order may cost: margins fit into the equity,      *)
(* leverage is at most 10, and the last step from the affordable order to the *)
(* filled one adds at most a tenth.                                           *)
EXTENDS EntrySearch, FoldLemmas, SequenceTheorems

-----------------------------------------------------------------------------
(* What is summed over the positions, as functions.                           *)
NotionalOf == [p \in Positions |-> p.notional]
MarginOf == [p \in Positions |-> Margin(p)]

(* The notional of a position is at most ten times its margin, but for the    *)
(* rounding of the margin.                                                    *)
LEMMA PositionMargins ==
    ASSUME NEW p \in Positions
    PROVE  /\ p.notional \in Nat /\ Margin(p) \in Nat
           /\ p.notional <= 10 * Margin(p) + 9
<1>1. p.notional \in Nat /\ p.leverage \in 1..10
  BY DEF Positions, HighLeverage
<1> QED
  BY <1>1 DEF Margin

(* Both functions have integer values that are not negative.                  *)
LEMMA PositionFunctions ==
    /\ NotionalOf \in [Positions -> Nat] /\ NotionalOf \in [Positions -> Int]
    /\ MarginOf \in [Positions -> Nat] /\ MarginOf \in [Positions -> Int]
  BY PositionMargins DEF NotionalOf, MarginOf

(* Notional() is a sum over the positions.                                    *)
LEMMA NotionalIsTotal ==
    ASSUME NEW S \in SUBSET Positions, IsFiniteSet(S)
    PROVE  Notional(S) = Total(NotionalOf, S)
<1> DEFINE Body(g) == [s \in SUBSET S |->
                         IF s = {} THEN 0
                         ELSE (CHOOSE x \in s : TRUE).notional + g[s \ {CHOOSE x \in s : TRUE}]]
           h == CHOOSE g : g = Body(g)
<1>1. PICK g \in [SUBSET S -> Int] : IsSum(g, NotionalOf, S)
  BY SumExists, PositionFunctions
<1>2. \A s \in SUBSET S : s # {} => NotionalOf[Chosen(s)] = (CHOOSE x \in s : TRUE).notional
  BY ChosenIn DEF NotionalOf, Chosen
<1>3. g = Body(g)
  BY <1>1, <1>2 DEF IsSum, Chosen
<1>4. h = Body(h)
  BY <1>3, Zenon
<1>5. Notional(S) = h[S]
  BY DEF Notional, MapThenSumSet, MapThenFoldSet
<1> HIDE DEF h
<1>6. IsSum(h, NotionalOf, S)
  BY <1>2, <1>4 DEF IsSum, Chosen
<1>7. h[S] = Total(NotionalOf, S)
  BY <1>6, SumIsTotal, PositionFunctions
<1> QED
  BY <1>5, <1>7

(* So is UsedMargin().                                                        *)
LEMMA MarginIsTotal ==
    ASSUME NEW S \in SUBSET Positions, IsFiniteSet(S)
    PROVE  UsedMargin(S) = Total(MarginOf, S)
<1> DEFINE Body(g) == [s \in SUBSET S |->
                         IF s = {} THEN 0
                         ELSE Margin(CHOOSE x \in s : TRUE) + g[s \ {CHOOSE x \in s : TRUE}]]
           h == CHOOSE g : g = Body(g)
<1>1. PICK g \in [SUBSET S -> Int] : IsSum(g, MarginOf, S)
  BY SumExists, PositionFunctions
<1>2. \A s \in SUBSET S : s # {} => MarginOf[Chosen(s)] = Margin(CHOOSE x \in s : TRUE)
  BY ChosenIn DEF MarginOf, Chosen
<1>3. g = Body(g)
  BY <1>1, <1>2 DEF IsSum, Chosen
<1>4. h = Body(h)
  BY <1>3, Zenon
<1>5. UsedMargin(S) = h[S]
  BY DEF UsedMargin, MapThenSumSet, MapThenFoldSet
<1> HIDE DEF h
<1>6. IsSum(h, MarginOf, S)
  BY <1>2, <1>4 DEF IsSum, Chosen
<1>7. h[S] = Total(MarginOf, S)
  BY <1>6, SumIsTotal, PositionFunctions
<1> QED
  BY <1>5, <1>7

(* What the sums over the open positions come to: ten times the margin in use *)
(* bounds the notional, fewer positions have less of both, and a position     *)
(* adds its own notional.                                                     *)
LEMMA BookSums ==
    ASSUME NEW S \in SUBSET Positions, IsFiniteSet(S)
    PROVE  /\ Notional(S) \in Nat /\ UsedMargin(S) \in Nat
           /\ Notional(S) <= 10 * UsedMargin(S) + 9 * Cardinality(S)
           /\ \A R \in SUBSET S : /\ Notional(R) <= Notional(S)
                                  /\ UsedMargin(R) <= UsedMargin(S)
           /\ \A p \in S : Notional(S) = p.notional + Notional(S \ {p})
<1>1. \A R \in SUBSET S : /\ IsFiniteSet(R) /\ R \in SUBSET Positions
                          /\ Notional(R) = Total(NotionalOf, R)
                          /\ UsedMargin(R) = Total(MarginOf, R)
  <2>1. \A R \in SUBSET S : IsFiniteSet(R) /\ R \in SUBSET Positions
    BY FS_Subset
  <2> QED
    BY <2>1, NotionalIsTotal, MarginIsTotal
<1>2. \A R \in SUBSET S : Total(NotionalOf, R) \in Nat /\ Total(MarginOf, R) \in Nat
  BY <1>1, TotalNat, PositionFunctions
<1> DEFINE P == {T \in SUBSET S :
                   Total(NotionalOf, T) <= 10 * Total(MarginOf, T) + 9 * Cardinality(T)}
<1>3. ASSUME NEW T \in SUBSET S, \A R \in SUBSET T : R # T => R \in P
      PROVE  T \in P
  <2>1. CASE T = {}
    <3>1. Total(NotionalOf, T) = 0 /\ Total(MarginOf, T) = 0
      BY <1>1, <2>1, TotalStep, PositionFunctions
    <3>2. Cardinality(T) = 0
      BY <2>1, FS_EmptySet
    <3> QED
      BY <3>1, <3>2
  <2>2. CASE T # {}
    <3> DEFINE c == Chosen(T)
               r == T \ {c}
    <3>1. c \in T /\ c \in Positions
      BY <2>2, ChosenIn
    <3>2. r \in P
      BY <1>3, <3>1
    <3>3. /\ Total(NotionalOf, T) = NotionalOf[c] + Total(NotionalOf, r)
          /\ Total(MarginOf, T) = MarginOf[c] + Total(MarginOf, r)
      BY <1>1, <2>2, TotalStep, PositionFunctions
    <3>4. Cardinality(T) = Cardinality(r) + 1 /\ Cardinality(r) \in Nat
      <4>1. IsFiniteSet(T) /\ IsFiniteSet(r)
        BY <1>1
      <4>2. Cardinality(T) \in Nat /\ Cardinality(r) \in Nat
        BY <4>1, FS_CardinalityType
      <4>3. Cardinality(r) = Cardinality(T) - 1
        BY <4>1, <3>1, FS_RemoveElement
      <4> QED
        BY <4>2, <4>3
    <3>5. NotionalOf[c] <= 10 * MarginOf[c] + 9 /\ NotionalOf[c] \in Nat /\ MarginOf[c] \in Nat
      BY <3>1, PositionMargins DEF NotionalOf, MarginOf
    <3>6. Total(NotionalOf, r) \in Nat /\ Total(MarginOf, r) \in Nat
      BY <1>2
    <3>7. Total(NotionalOf, r) <= 10 * Total(MarginOf, r) + 9 * Cardinality(r)
      BY <3>2
    <3> HIDE DEF r, c
    <3> QED
      BY <3>3, <3>4, <3>5, <3>6, <3>7
  <2> QED
    BY <2>1, <2>2
<1> HIDE DEF P
<1>4. S \in P
  BY <1>3, SetInduction
<1>5. \A R \in SUBSET S : /\ Total(NotionalOf, R) <= Total(NotionalOf, S)
                          /\ Total(MarginOf, R) <= Total(MarginOf, S)
  BY TotalMonotone, PositionFunctions
<1>6. \A p \in S : Total(NotionalOf, S) = p.notional + Total(NotionalOf, S \ {p})
  <2> SUFFICES ASSUME NEW p \in S
               PROVE  Total(NotionalOf, S) = p.notional + Total(NotionalOf, S \ {p})
    OBVIOUS
  <2>1. Total(NotionalOf, S) = NotionalOf[p] + Total(NotionalOf, S \ {p})
    BY TotalRemove, PositionFunctions
  <2> QED
    BY <2>1 DEF NotionalOf
<1>7. \A p \in S : S \ {p} \in SUBSET S
  OBVIOUS
<1>8. S \in SUBSET S
  OBVIOUS
<1> QED
  BY <1>1, <1>2, <1>4, <1>5, <1>6, <1>7, <1>8 DEF P

-----------------------------------------------------------------------------
(* The confidence that the correlated positions leave is never negative.      *)
LEMMA PenaltyIsNat ==
    ASSUME NEW s \in Candidate, NEW S \in SUBSET Positions, IsFiniteSet(S)
    PROVE  Penalised(s, S) \in Nat
<1> DEFINE others == IF s.symbol \in Correlated
                     THEN {p \in InGroup(SameSide(S, s.side)) : p.symbol # s.symbol} ELSE {}
           F == [a \in Positions \X Int |-> (a[2] * 60) \div 100]
           Body(g) == [r \in SUBSET others |->
                         IF r = {} THEN s.conf ELSE (g[r \ {CHOOSE x \in r : TRUE}] * 60) \div 100]
           h == CHOOSE g : g = Body(g)
<1>1. s.conf \in Nat
  BY DEF Candidate
<1>2. Penalised(s, S) = h[others]
  BY DEF Penalised, FoldSet, MapThenFoldSet
<1>3. others \in SUBSET S
  BY DEF InGroup, SameSide
<1> HIDE DEF others
<1>4. others \in SUBSET Positions /\ IsFiniteSet(others)
  BY <1>3, FS_Subset
<1>5. F \in [Positions \X Int -> Int] /\ s.conf \in Int
  BY <1>1
<1>6. PICK g : IsFold(g, F, s.conf, others)
  <2> HIDE DEF F
  <2> QED
    BY <1>4, <1>5, FoldExists, Zenon
<1>7. ASSUME NEW r \in SUBSET others, r # {}
      PROVE  F[<<Chosen(r), g[r \ {Chosen(r)}]>>] = (g[r \ {Chosen(r)}] * 60) \div 100
  <2>1. Chosen(r) \in Positions /\ r \ {Chosen(r)} \in SUBSET others
    BY <1>4, <1>7, ChosenIn
  <2>2. <<Chosen(r), g[r \ {Chosen(r)}]>> \in Positions \X Int
    BY <1>6, <2>1 DEF IsFold
  <2> QED
    BY <2>2
<1> HIDE DEF F
<1>8. g = Body(g)
  <2>1. g \in [SUBSET others -> Int]
    BY <1>6 DEF IsFold
  <2>2. \A r \in SUBSET others :
          g[r] = IF r = {} THEN s.conf ELSE (g[r \ {Chosen(r)}] * 60) \div 100
    BY <1>6, <1>7 DEF IsFold
  <2> QED
    BY <2>1, <2>2 DEF Chosen
<1>9. h = Body(h)
  BY <1>8, Zenon
<1> HIDE DEF h
<1>10. \A r \in SUBSET others :
         h[r] = IF r = {} THEN s.conf ELSE (h[r \ {Chosen(r)}] * 60) \div 100
  BY <1>9 DEF Chosen
<1> DEFINE P == {r \in SUBSET others : h[r] \in Nat}
<1>11. ASSUME NEW T \in SUBSET others, \A R \in SUBSET T : R # T => R \in P
       PROVE  T \in P
  <2>1. CASE T = {}
    BY <1>1, <1>10, <2>1
  <2>2. CASE T # {}
    <3>1. T \ {Chosen(T)} \in P
      BY <1>11, <2>2, ChosenIn
    <3>2. h[T] = (h[T \ {Chosen(T)}] * 60) \div 100
      BY <1>10, <2>2
    <3> QED
      BY <3>1, <3>2
  <2> QED
    BY <2>1, <2>2
<1> HIDE DEF P
<1>12. others \in P
  BY <1>4, <1>11, SetInduction
<1> QED
  BY <1>2, <1>12 DEF P

(* The leverages an order may have before the cap of the recovery state.      *)
Leverages == {3, 5, 10}

(* leverage_for_confidence answers one of them.                               *)
LEMMA LeverageType ==
    ASSUME NEW conf PROVE LeverageFor(conf) \in Leverages
<1>1. Max({3, 2}) = 3
  BY MaxOfTwo
<1>2. MediumLeverage \div 2 = 2
  BY DEF MediumLeverage
<1> QED
  BY <1>1, <1>2 DEF LeverageFor, HighLeverage, MediumLeverage, Leverages

(* The venue's least notional is at least 20.                                 *)
LEMMA LeastType ==
    ASSUME NEW symbol PROVE MinNotional(symbol) \in Nat /\ MinNotional(symbol) >= 2000
  BY DEF MinNotional

(* One position gets at most 95% of what the margins leave of the equity, and *)
(* at most 40% of the equity.                                                 *)
LEMMA CapitalBounds ==
    ASSUME NEW S \in SUBSET Positions, IsFiniteSet(S), Cardinality(S) < MaxConcurrent,
           NEW effective \in Nat, NEW leverage \in Leverages, NEW least \in Nat
    PROVE  /\ CapitalFor(S, effective, leverage, least) \in Int
           /\ 100 * CapitalFor(S, effective, leverage, least) <= 95 * (effective - UsedMargin(S))
           /\ 100 * CapitalFor(S, effective, leverage, least) <= 40 * effective
<1> DEFINE available == effective - UsedMargin(S)
           share == available \div (MaxConcurrent - Cardinality(S))
           buffered == (least * 105) \div (100 * leverage)
<1>1. available \in Int
  BY BookSums
<1>2. MaxConcurrent - Cardinality(S) \in Nat \ {0}
  BY FS_CardinalityType, RiskAssumption
<1>3. share \in Int
  <2> HIDE DEF available
  <2> QED
    BY <1>1, <1>2
<1>4. buffered \in Int
  <2>1. CASE leverage = 3
    BY <2>1
  <2>2. CASE leverage = 5
    BY <2>2
  <2>3. CASE leverage = 10
    BY <2>3
  <2> QED
    BY <2>1, <2>2, <2>3 DEF Leverages
<1> HIDE DEF share, buffered, available
<1>5. Max({buffered, share}) \in Int
  BY <1>3, <1>4, MaxOfTwo
<1> DEFINE a == Max({buffered, share})
           b == (available * 95) \div 100
           c == (effective * 40) \div 100
<1>6. b \in Int /\ c \in Int /\ 100 * b <= 95 * available /\ 100 * c <= 40 * effective
  BY <1>1
<1>7. CapitalFor(S, effective, leverage, least) = Min({a, b, c})
  BY DEF CapitalFor, available, share, buffered
<1> HIDE DEF a, b, c
<1>8. Min({a, b, c}) \in {a, b, c} /\ Min({a, b, c}) <= b /\ Min({a, b, c}) <= c
  BY <1>5, <1>6, MinOfThree DEF a
<1>9. a \in Int
  BY <1>5 DEF a
<1> DEFINE m == Min({a, b, c})
<1>10. m \in Int /\ m <= b /\ m <= c
  BY <1>6, <1>8, <1>9
<1> HIDE DEF m
<1>11. m \in Int /\ 100 * m <= 95 * available /\ 100 * m <= 40 * effective
  BY <1>1, <1>6, <1>10
<1> QED
  BY <1>7, <1>11 DEF available, m

(* The size is at most the leveraged capital, whatever the stop and the       *)
(* multiplier ask for.                                                        *)
LEMMA SizeBounds ==
    ASSUME NEW C \in Int, NEW leverage \in Leverages, NEW conf \in Nat, NEW stop \in Nat \ {0},
           NEW least \in Nat
    PROVE  /\ Sized(C, leverage, conf, stop, least) \in Int
           /\ Sized(C, leverage, conf, stop, least) <= C * leverage
<1> DEFINE risked == (C * BaseRisk * RiskMultiplier(conf)) \div 10000
           raised == Max({(risked * 10000) \div stop, least})
<1>1. RiskMultiplier(conf) \in Int
  BY DEF RiskMultiplier, Floor
<1>2. C * BaseRisk * RiskMultiplier(conf) \in Int
  BY <1>1 DEF BaseRisk
<1>3. risked \in Int
  BY <1>2
<1>4. (risked * 10000) \div stop \in Int
  <2> HIDE DEF risked
  <2> QED
    BY <1>3
<1> HIDE DEF risked
<1>5. raised \in Int
  <2> DEFINE q == (risked * 10000) \div stop
  <2> HIDE DEF q
  <2>1. q \in Int
    BY <1>4 DEF q
  <2>2. Max({q, least}) \in Int
    BY <2>1, MaxOfTwo
  <2> QED
    BY <2>2 DEF q
<1>6. C * leverage \in Int
  BY DEF Leverages
<1>7. Sized(C, leverage, conf, stop, least) = Min({raised, C * leverage})
  BY DEF Sized, risked
<1> HIDE DEF raised
<1> DEFINE most == C * leverage
<1>8. Min({raised, most}) \in Int /\ Min({raised, most}) <= most
  <2> HIDE DEF most
  <2>1. most \in Int
    BY <1>6 DEF most
  <2> QED
    BY <1>5, <2>1, MinOfTwo
<1> QED
  BY <1>7, <1>8

(* The order before scaling: its notional is at most 4 times the equity and   *)
(* at most 9.5 times what the margins leave of it, and there is none below an *)
(* equity of 5.                                                               *)
LEMMA OrderBounds ==
    ASSUME NEW s \in Candidate, NEW S \in SUBSET Positions, IsFiniteSet(S),
           Cardinality(S) < MaxConcurrent, NEW effective \in Nat,
           Ordered(s, S, effective) # NoOrder
    PROVE  LET o == Ordered(s, S, effective)
           IN  /\ o = [symbol |-> s.symbol, side |-> s.side, strategy |-> s.strategy,
                       conf |-> o.conf, leverage |-> o.leverage, notional |-> o.notional]
               /\ o.conf \in Nat /\ o.leverage \in Leverages /\ o.notional \in Nat
               /\ effective >= 500
               /\ 100 * o.notional <= 400 * effective
               /\ 100 * o.notional <= 950 * (effective - UsedMargin(S))
<1> DEFINE conf == Penalised(s, S)
           leverage == LeverageFor(conf)
           least == MinNotional(s.symbol)
           C == CapitalFor(S, effective, leverage, least)
           notional == Sized(C, leverage, conf, s.stop, least)
           U == UsedMargin(S)
<1>1. /\ C > 0 /\ s.stop > 0 /\ notional >= least
      /\ Ordered(s, S, effective) =
           [symbol |-> s.symbol, side |-> s.side, strategy |-> s.strategy,
            conf |-> conf, leverage |-> leverage, notional |-> notional]
  BY DEF Ordered
<1>2. conf \in Nat /\ leverage \in Leverages /\ least \in Nat /\ least >= 2000 /\ U \in Nat
  BY PenaltyIsNat, LeverageType, LeastType, BookSums
<1>3. s.stop \in Nat \ {0}
  BY <1>1 DEF Candidate
<1> HIDE DEF conf, leverage, least, U
<1>4. C \in Int /\ 100 * C <= 95 * (effective - U) /\ 100 * C <= 40 * effective
  BY <1>2, CapitalBounds DEF U
<1> HIDE DEF C
<1>5. notional \in Int /\ notional <= C * leverage
  BY <1>2, <1>3, <1>4, SizeBounds
<1> HIDE DEF notional
<1>6. C * leverage <= 10 * C
  <2>1. CASE leverage = 3
    BY <1>1, <1>4, <2>1
  <2>2. CASE leverage = 5
    BY <1>1, <1>4, <2>2
  <2>3. CASE leverage = 10
    BY <1>1, <1>4, <2>3
  <2> QED
    BY <1>2, <2>1, <2>2, <2>3 DEF Leverages
<1>7. C * leverage \in Int
  BY <1>2, <1>4 DEF Leverages
<1> DEFINE most == C * leverage
<1>8. notional \in Nat /\ notional <= 10 * C
  <2> HIDE DEF most
  <2>1. most \in Int /\ most <= 10 * C /\ notional <= most
    BY <1>5, <1>6, <1>7 DEF most
  <2> QED
    BY <2>1, <1>1, <1>2, <1>4, <1>5
<1>9. /\ effective >= 500
      /\ 100 * notional <= 400 * effective
      /\ 100 * notional <= 950 * (effective - U)
  BY <1>1, <1>2, <1>4, <1>8
<1>10. Ordered(s, S, effective).notional = notional /\ Ordered(s, S, effective).conf = conf
       /\ Ordered(s, S, effective).leverage = leverage
  BY <1>1
<1> QED
  BY <1>1, <1>2, <1>8, <1>9, <1>10 DEF U

(* What an order may come to: 5.2 times the equity, and 12.35 times what is     *)
(* left of it.                                                                  *)
Affordable(o, S, equity) ==
    /\ equity >= 500
    /\ 100 * o.notional <= 520 * equity
    /\ 100 * o.notional <= 1235 * (equity - UsedMargin(S))

(* What validate() lets through has room among the positions and is           *)
(* affordable: the adaptive scale adds at most 30% to the order's bounds.     *)
LEMMA ValidatedIsAffordable ==
    ASSUME NEW s \in Candidate, NEW S \in SUBSET Positions, IsFiniteSet(S),
           NEW equity \in Nat, NEW kept \in Nat, NEW scale \in Scales, NEW recent,
           Validate(s, s.regime, S, equity, kept, scale, recent) # NoOrder
    PROVE  LET o == Validate(s, s.regime, S, equity, kept, scale, recent)
           IN  /\ o \in Orders /\ o.leverage \in Leverages
               /\ Affordable(o, S, equity)
               /\ Cardinality(S) < MaxConcurrent
<1> DEFINE effective == Max({equity - kept, 0})
           o == Ordered(s, S, effective)
           scaled == (o.notional * scale) \div 100
           v == Validate(s, s.regime, S, equity, kept, scale, recent)
<1>1. /\ Admitted(s, s.regime, S, equity, scale, recent)
      /\ o # NoOrder /\ scaled >= MinNotional(s.symbol)
      /\ v = [o EXCEPT !.notional = scaled]
  BY DEF Validate
<1>2. Cardinality(S) < MaxConcurrent
  BY <1>1 DEF Admitted
<1>3. effective \in Nat /\ effective <= equity
  BY MaxOfTwo
<1> HIDE DEF effective
<1>4. /\ o = [symbol |-> s.symbol, side |-> s.side, strategy |-> s.strategy,
              conf |-> o.conf, leverage |-> o.leverage, notional |-> o.notional]
      /\ o.conf \in Nat /\ o.leverage \in Leverages /\ o.notional \in Nat
      /\ effective >= 500
      /\ 100 * o.notional <= 400 * effective
      /\ 100 * o.notional <= 950 * (effective - UsedMargin(S))
  BY <1>1, <1>2, <1>3, OrderBounds
<1> HIDE DEF o
<1>5. scaled \in Nat /\ 100 * scaled <= 130 * o.notional
  BY <1>4 DEF Scales
<1>6. scaled # 0
  BY <1>1, <1>5, LeastType
<1> HIDE DEF scaled
<1>7. v = [symbol |-> s.symbol, side |-> s.side, strategy |-> s.strategy,
           conf |-> o.conf, leverage |-> o.leverage, notional |-> scaled]
  BY <1>1, <1>4
<1>8. v \in Orders /\ v.leverage \in Leverages /\ v.notional = scaled
  BY <1>4, <1>5, <1>6, <1>7 DEF Orders, Candidate, HighLeverage, Leverages
<1>9. UsedMargin(S) \in Nat
  BY BookSums
<1>10. Affordable(v, S, equity)
  BY <1>3, <1>4, <1>5, <1>8, <1>9 DEF Affordable
<1> QED
  BY <1>2, <1>8, <1>10

(* What the venue fills of an order: the first tranche with its jitter, and   *)
(* the resting ladder or not.                                                 *)
Filled(N, T, jitter, rest) ==
    ((N \div T) * jitter) \div 100 + (IF rest THEN (T - 1) * (N \div T) ELSE 0)

(* It is at most 110% of the order.                                           *)
LEMMA FilledBound ==
    ASSUME NEW N \in Nat, NEW T \in Nat \ {0}, NEW jitter \in 90..110, NEW rest \in BOOLEAN
    PROVE  Filled(N, T, jitter, rest) \in Nat /\ 100 * Filled(N, T, jitter, rest) <= 110 * N
<1> DEFINE t == N \div T
           a == t * jitter
           b == T * t
<1>1. t \in Nat /\ T * t <= N
  OBVIOUS
<1> HIDE DEF t
<1>2. a \in Nat /\ a <= 110 * t /\ b \in Nat /\ t <= b
  BY <1>1
<1>3. (T - 1) * t = b - t
  BY <1>1
<1>4. b <= N
  BY <1>1
<1> HIDE DEF a, b
<1> DEFINE c == IF rest THEN b - t ELSE 0
<1>5. c \in Nat /\ c <= b - t
  BY <1>1, <1>2
<1> HIDE DEF c
<1>6. a \div 100 + c \in Nat /\ 100 * (a \div 100 + c) <= 110 * N
  BY <1>1, <1>2, <1>4, <1>5
<1> QED
  BY <1>3, <1>6 DEF t, a, c, Filled

(* A position filled from an affordable order keeps its side within twelve    *)
(* times the equity.                                                          *)
LEMMA EntryWithinLimit ==
    ASSUME NEW S \in SUBSET Positions, IsFiniteSet(S), NEW B \in SUBSET S,
           NEW p \in Positions, NEW o, o.notional \in Nat, NEW equity \in Nat,
           Affordable(o, S, equity), 100 * p.notional <= 110 * o.notional,
           Cardinality(S) < MaxConcurrent, MaxConcurrent <= 28, 12 <= MaxDirectional
    PROVE  Notional(SameSide(B \cup {p}, p.side)) <= MaxDirectional * equity
<1> DEFINE R == SameSide(B \cup {p}, p.side)
           U == UsedMargin(S)
<1>1. R \in SUBSET Positions /\ p \in R /\ R \ {p} \in SUBSET S
  BY DEF SameSide
<1>2. IsFiniteSet(R)
  <2>1. IsFiniteSet(B)
    BY FS_Subset
  <2>2. IsFiniteSet(B \cup {p})
    BY <2>1, FS_AddElement
  <2>3. R \in SUBSET (B \cup {p})
    BY DEF SameSide
  <2> QED
    BY <2>2, <2>3, FS_Subset
<1> HIDE DEF R
<1>3. Notional(R) = p.notional + Notional(R \ {p})
  BY <1>1, <1>2, BookSums
<1>4. /\ Notional(R \ {p}) <= Notional(S) /\ Notional(S) \in Nat /\ U \in Nat
      /\ Notional(S) <= 10 * U + 9 * Cardinality(S)
  BY <1>1, BookSums
<1>5. Notional(R \ {p}) \in Nat
  <2>1. R \ {p} \in SUBSET Positions /\ IsFiniteSet(R \ {p})
    BY <1>1, <1>2, FS_RemoveElement
  <2> QED
    BY <2>1, BookSums
<1>6. Cardinality(S) \in Nat /\ Cardinality(S) <= 27
  <2>1. Cardinality(S) \in Nat /\ MaxConcurrent \in Nat
    BY FS_CardinalityType, RiskAssumption
  <2> QED
    BY <2>1
<1>7. p.notional \in Nat
  BY DEF Positions
<1> HIDE DEF U
<1>8. /\ equity >= 500
      /\ 100 * o.notional <= 520 * equity
      /\ 100 * o.notional <= 1235 * (equity - U)
  BY DEF Affordable, U
<1>9. Notional(R) <= 12 * equity
  BY <1>3, <1>4, <1>5, <1>6, <1>7, <1>8
<1>10. 12 * equity <= MaxDirectional * equity
  <2>1. MaxDirectional \in Nat
    BY RiskAssumption
  <2> QED
    BY <2>1
<1>11. Notional(R) \in Int /\ MaxDirectional * equity \in Int
  <2>1. MaxDirectional \in Nat
    BY RiskAssumption
  <2> QED
    BY <2>1, <1>3, <1>5, <1>7
<1> QED
  BY <1>9, <1>10, <1>11 DEF R

-----------------------------------------------------------------------------
(* What get_position_scale() caches is a scale.                               *)
LEMMA AskedType ==
    ASSUME NEW a \in Adaptives, NEW trades
    PROVE  Asked(a, trades) \in Adaptives /\ Asked(a, trades).cached \in Scales
<1> DEFINE s == Performance(Rows(trades))
<1>1. s \in Scales
  BY DEF Performance, Scales
<1>2. Rest \in Nat \ {0} /\ None = -1
  BY AdaptiveAssumption DEF None
<1> HIDE DEF s
<1>3. Computed(a, trades) \in Adaptives /\ Computed(a, trades).cached \in Scales
  <2>1. 0 \in Scales /\ 50 \in Scales /\ a.until \in {None} \cup 0..Rest
    BY DEF Scales, Adaptives
  <2>2. CASE a.until > 0
    <3>1. Computed(a, trades) = [a EXCEPT !.cached = 0]
      BY <1>2, <2>1, <2>2 DEF Computed
    <3> QED
      BY <2>1, <3>1 DEF Adaptives
  <2>3. CASE a.until = 0
    <3>1. Computed(a, trades) = [until |-> None, grace |-> Rest, cached |-> 50]
      BY <1>2, <2>3 DEF Computed
    <3> QED
      BY <1>2, <2>1, <3>1 DEF Adaptives
  <2>4. CASE a.until = None /\ a.grace > 0
    <3>1. Computed(a, trades) = [a EXCEPT !.cached = 50]
      BY <1>2, <2>4 DEF Computed
    <3> QED
      BY <2>1, <3>1 DEF Adaptives
  <2>5. CASE a.until = None /\ ~(a.grace > 0)
    <3>1. Computed(a, trades) = [until |-> IF s = 0 THEN Rest ELSE None, grace |-> 0, cached |-> s]
      BY <1>2, <2>5 DEF Computed, s
    <3> QED
      BY <1>1, <1>2, <3>1 DEF Adaptives
  <2> QED
    BY <2>1, <2>2, <2>3, <2>4, <2>5, <1>2
<1> QED
  BY <1>3 DEF Asked, Adaptives

(* AdaptiveRisk keeps its type when an hour or a week goes by, at a start and *)
(* when the cache is dropped.                                                 *)
LEMMA HourType ==
    ASSUME NEW a \in Adaptives
    PROVE  /\ HourOlder(a) \in Adaptives /\ Booted \in Adaptives
           /\ [a EXCEPT !.cached = None] \in Adaptives
           /\ [until |-> Min({a.until, 0}), grace |-> 0, cached |-> None] \in Adaptives
<1>1. Rest \in Nat \ {0} /\ None = -1
  BY AdaptiveAssumption DEF None
<1>2. a.until \in {None} \cup 0..Rest /\ a.grace \in 0..Rest
  BY DEF Adaptives
<1>3. Less(a.until) \in {None} \cup 0..Rest /\ Less(a.grace) \in 0..Rest
  BY <1>1, <1>2 DEF Less
<1>4. Min({a.until, 0}) \in {None} \cup 0..Rest
  BY <1>1, <1>2, MinOfTwo
<1> QED
  BY <1>1, <1>3, <1>4 DEF HourOlder, Booted, Adaptives

(* The parameters of every recovery state, and those a regime has tightened,  *)
(* are in range.                                                              *)
LEMMA ParamsType ==
    ASSUME NEW state, NEW regime,
           NEW p \in Params
    PROVE  Defense!RecoveryParams(state) \in Params /\ Overridden(p, regime) \in Params
<1>1. Defense!RecoveryParams(state) \in Params
  BY DEF Defense!RecoveryParams, Params, HighLeverage
<1>2. /\ Min({p.max_leverage, 5}) \in 3..HighLeverage
      /\ Max({p.min_confidence, 50}) \in Nat /\ Max({p.mtf_min_score, 5}) \in Nat
  BY MinOfTwo, MaxOfTwo DEF Params, HighLeverage
<1> QED
  BY <1>1, <1>2 DEF Overridden, Params

-----------------------------------------------------------------------------
(* A table of numbers, looked up with a default of 100, has a number for      *)
(* every key.                                                                 *)
LEMMA TableIsNat ==
    ASSUME NEW keys, NEW values, DOMAIN keys = DOMAIN values,
           \A i \in DOMAIN values : values[i] \in Nat, NEW key
    PROVE  Of(Table(keys, values), key, 100) \in Nat
<1>1. CASE key \in Range(keys)
  <2> DEFINE i == CHOOSE j \in DOMAIN keys : keys[j] = key
  <2>1. i \in DOMAIN keys
    BY <1>1 DEF Range
  <2>2. Table(keys, values)[key] = values[i] /\ key \in DOMAIN Table(keys, values)
    BY <1>1 DEF Table
  <2> HIDE DEF i
  <2> QED
    BY <2>1, <2>2 DEF Of
<1>2. CASE key \notin Range(keys)
  <2>1. key \notin DOMAIN Table(keys, values)
    BY <1>2 DEF Table
  <2> QED
    BY <2>1 DEF Of
<1> QED
  BY <1>1, <1>2

(* The session's weight for a strategy is a number, at every hour.            *)
LEMMA SessionWeightIsNat ==
    ASSUME NEW hour \in 0..23, NEW key
    PROVE  Of(SessionWeights[SessionAt(hour)], key, 100) \in Nat
<1> DEFINE session == SessionAt(hour)
           keys == <<"trend_follower", "momentum", "breakout", "mean_reversion", "scalper">>
<1>1. session \in {"ASIA", "EUROPE", "US_OVERLAP", "US", "OFF_HOURS"}
  <2>1. \E s \in DOMAIN Sessions : hour \in Sessions[s]
    BY DEF Sessions
  <2>2. session \in DOMAIN Sessions
    BY <2>1 DEF SessionAt
  <2> QED
    BY <2>2 DEF Sessions
<1> HIDE DEF session
<1>2. \E v : /\ DOMAIN v = DOMAIN keys /\ \A i \in DOMAIN v : v[i] \in Nat
             /\ SessionWeights[session] = Table(keys, v)
  <2>1. CASE session = "ASIA"
    <3> WITNESS <<80, 70, 60, 130, 120>>
    <3> QED
      BY <2>1 DEF SessionWeights
  <2>2. CASE session = "EUROPE"
    <3> WITNESS <<100, 100, 100, 100, 100>>
    <3> QED
      BY <2>2 DEF SessionWeights
  <2>3. CASE session = "US_OVERLAP"
    <3> WITNESS <<120, 130, 120, 70, 100>>
    <3> QED
      BY <2>3 DEF SessionWeights
  <2>4. CASE session = "US"
    <3> WITNESS <<110, 110, 100, 90, 90>>
    <3> QED
      BY <2>4 DEF SessionWeights
  <2>5. CASE session = "OFF_HOURS"
    <3> WITNESS <<70, 60, 50, 120, 130>>
    <3> QED
      BY <2>5 DEF SessionWeights
  <2> QED
    BY <1>1, <2>1, <2>2, <2>3, <2>4, <2>5
<1> HIDE DEF keys
<1> QED
  BY <1>2, TableIsNat DEF session

(* Voting keeps signals signals.                                              *)
LEMMA VotedType ==
    ASSUME NEW D, NEW signals \in [D -> Signals]
    PROVE  Voted(signals) \in [D -> Signals]
<1> SUFFICES ASSUME NEW i \in D PROVE Voted(signals)[i] \in Signals
  BY DEF Voted
<1> DEFINE agree == Cardinality({j \in DOMAIN signals : signals[j].side = signals[i].side})
           bonus == IF agree >= 3 THEN 10 ELSE IF agree = 2 THEN 5 ELSE 0
<1>1. bonus \in Nat
  OBVIOUS
<1>2. Voted(signals)[i] = IF bonus = 0 THEN signals[i]
                          ELSE [signals[i] EXCEPT !.conf = Least(95, signals[i].conf + bonus)]
  BY DEF Voted
<1> HIDE DEF bonus
<1>3. signals[i] \in Signals /\ signals[i].conf \in Nat
  BY DEF Signals
<1>4. Least(95, signals[i].conf + bonus) \in Nat
  BY <1>1, <1>3 DEF Least
<1> QED
  BY <1>2, <1>3, <1>4 DEF Signals

(* generate_signals() answers a finite set of signals.                        *)
LEMMA GeneratedType ==
    ASSUME NEW raw \in Seq(Signals), NEW regime, NEW hour \in 0..23
    PROVE  /\ Generated(raw, regime, SessionAt(hour)) \subseteq Signals
           /\ IsFiniteSet(Generated(raw, regime, SessionAt(hour)))
<1> DEFINE weight(i) == Of(SessionWeights[SessionAt(hour)], raw[i].strategy, 100)
           inSession == [i \in DOMAIN raw |->
                            [raw[i] EXCEPT !.conf = (raw[i].conf * weight(i)) \div 100]]
           voted == Voted(inSession)
<1>1. inSession \in [DOMAIN raw -> Signals]
  <2> SUFFICES ASSUME NEW i \in DOMAIN raw
               PROVE  [raw[i] EXCEPT !.conf = (raw[i].conf * weight(i)) \div 100] \in Signals
    OBVIOUS
  <2>1. raw[i] \in Signals
    OBVIOUS
  <2>2. raw[i].conf \in Nat
    BY <2>1 DEF Signals
  <2>3. weight(i) \in Nat
    BY SessionWeightIsNat
  <2> HIDE DEF weight
  <2>4. raw[i].conf * weight(i) \in Nat
    BY <2>2, <2>3
  <2>5. (raw[i].conf * weight(i)) \div 100 \in Nat
    BY <2>4
  <2> QED
    BY <2>1, <2>5 DEF Signals
<1>2. Generated(raw, regime, SessionAt(hour)) = Best(voted, regime)
  BY DEF Generated
<1> HIDE DEF inSession
<1>3. voted \in [DOMAIN raw -> Signals]
  BY <1>1, VotedType
<1> HIDE DEF voted
<1>4. \E chosen \in SUBSET DOMAIN raw : Best(voted, regime) = {voted[i] : i \in chosen}
  BY <1>3 DEF Best
<1>5. PICK chosen \in SUBSET DOMAIN raw : Best(voted, regime) = {voted[i] : i \in chosen}
  BY <1>4
<1>6. IsFiniteSet(chosen)
  <2>1. DOMAIN raw = 1..Len(raw) /\ Len(raw) \in Nat
    OBVIOUS
  <2>2. IsFiniteSet(1..Len(raw))
    BY <2>1, FS_Interval
  <2> QED
    BY <2>1, <2>2, FS_Subset
<1>7. IsFiniteSet({voted[i] : i \in chosen})
  <2> DEFINE f == [i \in chosen |-> voted[i]]
             T == {voted[i] : i \in chosen}
  <2>1. f \in Surjection(chosen, T)
    BY DEF Surjection
  <2> QED
    BY <1>6, <2>1, FS_Surjection
<1> QED
  BY <1>2, <1>3, <1>5, <1>7

(* The proposals with their ranks.                                            *)
LEMMA RankedType ==
    ASSUME NEW raw \in Seq(Signals), NEW patterns \in Seq(Signals), NEW regime, NEW hour \in 0..23
    PROVE  Ranked(Proposed(raw, patterns, regime, SessionAt(hour))) \subseteq
               [rank : Nat, signal : Signals]
<1> DEFINE generated == Generated(raw, regime, SessionAt(hour))
           strong == {j \in DOMAIN patterns : patterns[j].conf >= 50}
           first == {[place |-> 0, signal |-> s] : s \in generated}
           others == {[place |-> i, signal |-> FromPattern(patterns[i])] : i \in strong}
           all == Proposed(raw, patterns, regime, SessionAt(hour))
<1>1. generated \subseteq Signals /\ IsFiniteSet(generated)
  BY GeneratedType
<1>2. DOMAIN patterns = 1..Len(patterns) /\ Len(patterns) \in Nat
  OBVIOUS
<1>3. IsFiniteSet(strong)
  <2>1. IsFiniteSet(1..Len(patterns))
    BY <1>2, FS_Interval
  <2> QED
    BY <1>2, <2>1, FS_Subset
<1>4. all = first \cup others
  BY DEF Proposed
<1>5. \A i \in strong : FromPattern(patterns[i]) \in Signals
  <2> SUFFICES ASSUME NEW p \in Signals PROVE FromPattern(p) \in Signals
    OBVIOUS
  <2>1. p.target \in Nat /\ p.stop \in Nat /\ (2 * p.target) \div 3 \in Nat
    BY DEF Signals
  <2> QED
    BY <2>1 DEF FromPattern, Signals
<1> HIDE DEF generated, strong, all
<1>6. IsFiniteSet(first)
  <2> DEFINE f == [s \in generated |-> [place |-> 0, signal |-> s]]
  <2>1. f \in Surjection(generated, first)
    BY DEF Surjection
  <2> QED
    BY <1>1, <2>1, FS_Surjection
<1>7. IsFiniteSet(others)
  <2> DEFINE f == [i \in strong |-> [place |-> i, signal |-> FromPattern(patterns[i])]]
  <2>1. f \in Surjection(strong, others)
    BY DEF Surjection
  <2> QED
    BY <1>3, <2>1, FS_Surjection
<1>8. IsFiniteSet(all)
  BY <1>4, <1>6, <1>7, FS_Union
<1>9. \A a \in all : a.signal \in Signals
  BY <1>1, <1>4, <1>5
<1>10. \A a \in all : Cardinality({b \in all : Before(b, a)}) \in Nat
  <2> SUFFICES ASSUME NEW a \in all PROVE Cardinality({b \in all : Before(b, a)}) \in Nat
    OBVIOUS
  <2>1. {b \in all : Before(b, a)} \in SUBSET all
    OBVIOUS
  <2>2. IsFiniteSet({b \in all : Before(b, a)})
    BY <1>8, <2>1, FS_Subset
  <2> QED
    BY <2>2, FS_CardinalityType
<1>11. Ranked(all) \subseteq [rank : Nat, signal : Signals]
  <2> SUFFICES ASSUME NEW r \in Ranked(all) PROVE r \in [rank : Nat, signal : Signals]
    OBVIOUS
  <2>1. PICK a \in all : r = [rank |-> Cardinality({b \in all : Before(b, a)}), signal |-> a.signal]
    BY DEF Ranked
  <2> QED
    BY <1>9, <1>10, <2>1
<1> QED
  BY <1>11 DEF all

(* The sensors leave a signal a signal: no confidence falls below 0.          *)
LEMMA AdjustedType ==
    ASSUME NEW s \in Signals, NEW E, NEW biases \in Seq(E)
    PROVE  Adjusted(s, biases) \in Signals
<1> DEFINE strong == {i \in DOMAIN biases : biases[i].conf > 30}
           agree == {i \in strong : biases[i].side = s.side}
           conflict == {i \in strong : biases[i].side \notin {s.side, "NEUTRAL"}}
           conf == s.conf + Cardinality(agree) - 2 * Cardinality(conflict)
           bounded == IF conf < 5 THEN 5 ELSE Least(100, conf)
<1>1. DOMAIN biases = 1..Len(biases) /\ Len(biases) \in Nat
  OBVIOUS
<1>2. IsFiniteSet(DOMAIN biases)
  BY <1>1, FS_Interval
<1>3. agree \in SUBSET DOMAIN biases /\ conflict \in SUBSET DOMAIN biases
  OBVIOUS
<1>4. Adjusted(s, biases) = IF strong = {} THEN s ELSE [s EXCEPT !.conf = bounded]
  BY DEF Adjusted, Strong
<1> HIDE DEF agree, conflict, strong
<1>5. Cardinality(agree) \in Nat /\ Cardinality(conflict) \in Nat
  <2>1. IsFiniteSet(agree) /\ IsFiniteSet(conflict)
    BY <1>2, <1>3, FS_Subset
  <2> QED
    BY <2>1, FS_CardinalityType
<1>6. s.conf \in Nat
  BY DEF Signals
<1>7. conf \in Int
  BY <1>5, <1>6
<1> HIDE DEF conf
<1>8. bounded \in Nat
  BY <1>7 DEF Least
<1> HIDE DEF bounded
<1> QED
  BY <1>4, <1>8 DEF Signals

(* What no filter takes is a signal of the symbol, with its rank.             *)
LEMMA CandidatesType ==
    ASSUME NEW symbol \in STRING, NEW market \in Markets, NEW p, portfolio.hour \in 0..23
    PROVE  Candidates(symbol, market, p) \subseteq Candidate
<1> DEFINE ranked == Ranked(Proposed(market.raw, market.patterns, market.regime,
                                    SessionAt(portfolio.hour)))
           adjusted(r) == Adjusted(r.signal, market.biases)
           entry(r) == [symbol |-> symbol, regime |-> market.regime, rank |-> r.rank,
                        strategy |-> adjusted(r).strategy, side |-> adjusted(r).side,
                        conf |-> adjusted(r).conf, stop |-> adjusted(r).stop,
                        target |-> adjusted(r).target]
<1>1. /\ market.regime \in DOMAIN Weights
      /\ market.raw \in Seq(Signals) /\ market.patterns \in Seq(Signals)
      /\ market.biases \in Seq([side : Sides \cup {"NEUTRAL"}, conf : Nat])
  BY MarketAssumption, Zenon
<1>2. ranked \subseteq [rank : Nat, signal : Signals]
  BY <1>1, RankedType
<1>3. Candidates(symbol, market, p) \subseteq {entry(r) : r \in ranked}
  <2> DEFINE passes(s) == /\ ~IsTrap(market.candles, s.side)
                          /\ ~Against(market, s.side, p.mtf_min_score)
                          /\ s.conf >= p.min_confidence
  <2>1. Candidates(symbol, market, p) = {s \in {entry(r) : r \in ranked} : passes(s)}
    BY Zenon DEF Candidates
  <2> HIDE DEF passes, entry, ranked
  <2> QED
    BY <2>1
<1> HIDE DEF ranked
<1>4. ASSUME NEW r \in ranked PROVE entry(r) \in Candidate
  <2>1. r.rank \in Nat /\ r.signal \in Signals
    BY <1>2
  <2>2. adjusted(r) \in Signals
    BY <1>1, <2>1, AdjustedType
  <2> HIDE DEF adjusted
  <2> QED
    BY <1>1, <2>1, <2>2 DEF Candidate, Signals
<1> HIDE DEF entry
<1> QED
  BY <1>3, <1>4

-----------------------------------------------------------------------------
(* What the profit lock may hold: nothing, or what a milestone locks.         *)
Milestone == {0} \cup Range(Milestones)

(* The first entries of a log.                                                *)
LEMMA FirstType ==
    ASSUME NEW E, NEW n \in Nat, NEW s \in Seq(E)
    PROVE  First(n, s) \in Seq(E) /\ Len(First(n, s)) = IF n < Len(s) THEN n ELSE Len(s)
<1> DEFINE k == IF n < Len(s) THEN n ELSE Len(s)
<1>1. k \in 0..Len(s) /\ Len(s) \in Nat
  BY LenProperties
<1>2. \A i \in 1..k : s[i] \in E
  BY <1>1, ElementOfSeq
<1>3. First(n, s) = SubSeq(s, 1, k)
  BY DEF First
<1> HIDE DEF k
<1>4. SubSeq(s, 1, k) \in Seq(E) /\ Len(SubSeq(s, 1, k)) = k
  BY <1>1, <1>2, SubSeqProperties
<1> QED
  BY <1>3, <1>4 DEF k

(* The entry at i of a sequence, and those behind it.                         *)
LEMMA RestOfSeq ==
    ASSUME NEW E, NEW s \in Seq(E), NEW i \in DOMAIN s
    PROVE  s[i] \in E /\ SubSeq(s, i + 1, Len(s)) \in Seq(E)
<1>1. Len(s) \in Nat /\ DOMAIN s = 1..Len(s)
  BY LenProperties
<1>2. \A j \in i + 1..Len(s) : s[j] \in E
  BY <1>1, ElementOfSeq
<1> QED
  BY <1>1, <1>2, SubSeqProperties, ElementOfSeq

(* A new trade in front keeps the log a log, within its bound, and the week   *)
(* within the log.                                                            *)
LEMMA LoggedType ==
    ASSUME NEW log \in Seq(Trades), Len(log) <= MaxLog, NEW t \in Trades, NEW w \in 0..Len(log)
    PROVE  /\ First(MaxLog, <<t>> \o log) \in Seq(Trades)
           /\ Len(First(MaxLog, <<t>> \o log)) <= MaxLog
           /\ Min({w + 1, MaxLog}) \in 0..Len(First(MaxLog, <<t>> \o log))
<1>1. Len(log) \in Nat /\ MaxLog \in Nat /\ w \in Nat
  BY LenProperties, SearchAssumption
<1>2. <<t>> \in Seq(Trades) /\ Len(<<t>>) = 1
  OBVIOUS
<1>3. <<t>> \o log \in Seq(Trades) /\ Len(<<t>> \o log) = 1 + Len(log)
  BY <1>2, ConcatProperties
<1>4. /\ First(MaxLog, <<t>> \o log) \in Seq(Trades)
      /\ Len(First(MaxLog, <<t>> \o log)) =
             IF MaxLog < 1 + Len(log) THEN MaxLog ELSE 1 + Len(log)
  BY <1>1, <1>3, FirstType
<1>5. Min({w + 1, MaxLog}) = IF w + 1 <= MaxLog THEN w + 1 ELSE MaxLog
  BY <1>1, MinOfTwo
<1> QED
  BY <1>1, <1>4, <1>5

(* The profit lock holds an amount.                                           *)
LEMMA MilestoneType == Milestone \subseteq Nat
  BY SearchAssumption DEF Milestone, Range

(* What an equity locks is one of the milestones' amounts.                    *)
LEMMA LockedType ==
    ASSUME NEW equity \in Nat
    PROVE  Locked(equity) \in Milestone
<1> DEFINE reached == {k \in DOMAIN Milestones : equity >= k}
           amounts == {Milestones[m] : m \in reached}
           f == [m \in reached |-> Milestones[m]]
<1>1. IsFiniteSet(reached)
  BY FS_Subset, SearchAssumption
<1>2. f \in Surjection(reached, amounts)
  BY DEF Surjection
<1>3. IsFiniteSet(amounts)
  BY <1>1, <1>2, FS_Surjection
<1>4. IsFiniteSet({0} \cup amounts)
  BY <1>3, FS_Singleton, FS_Union
<1>5. {0} \cup amounts \subseteq Milestone
  BY DEF Milestone, Range
<1>6. Locked(equity) = Max({0} \cup amounts)
  BY DEF Locked
<1> HIDE DEF amounts
<1>7. {0} \cup amounts \in SUBSET Int
  <2> DEFINE T == {0} \cup amounts
  <2>1. T \subseteq Milestone
    BY <1>5
  <2> HIDE DEF T
  <2>2. T \subseteq Int
    BY <2>1, MilestoneType
  <2> QED
    BY <2>2 DEF T
<1>8. Max({0} \cup amounts) \in {0} \cup amounts
  BY <1>4, <1>7, MaxIsBound
<1> QED
  BY <1>5, <1>6, <1>8

(* Correcting the results of closed trades changes no more than the results.  *)
LEMMA CorrectedType ==
    ASSUME closed \in Seq(Trades), PnlCorrected
    PROVE  closed' \in Seq(Trades) /\ Len(closed') = Len(closed)
<1>1. PICK pnl \in [DOMAIN closed -> Results] :
        closed' = [i \in DOMAIN closed |-> [closed[i] EXCEPT !.pnl = pnl[i]]]
  BY DEF PnlCorrected
<1>2. Len(closed) \in Nat /\ DOMAIN closed = 1..Len(closed)
  BY LenProperties
<1>3. \A i \in DOMAIN closed : [closed[i] EXCEPT !.pnl = pnl[i]] \in Trades
  <2> SUFFICES ASSUME NEW i \in DOMAIN closed
               PROVE  [closed[i] EXCEPT !.pnl = pnl[i]] \in Trades
    OBVIOUS
  <2>1. closed[i] \in Trades /\ pnl[i] \in Int
    BY <1>1, <1>2, ElementOfSeq, SearchAssumption
  <2> QED
    BY <2>1 DEF Trades
<1>4. closed' \in [1..Len(closed) -> Trades]
  BY <1>1, <1>2, <1>3
<1>5. closed' \in Seq(Trades)
  BY <1>2, <1>4, SeqDef
<1>6. DOMAIN closed' = 1..Len(closed)
  BY <1>4
<1>7. Len(closed') = Len(closed)
  BY <1>2, <1>5, <1>6
<1> QED
  BY <1>5, <1>7

-----------------------------------------------------------------------------
(* What the assumptions say of the constants, for the provers to cite.        *)
LEMMA Constants ==
    /\ Symbols \in Seq(STRING) /\ Equities \subseteq Nat /\ Jitters \subseteq 90..110
    /\ Results \subseteq Int /\ MaxLog \in Nat /\ Minutes \subseteq 0..1439
  BY SearchAssumption, Zenon

(* While anything is left to try, the cycle's list holds every open position    *)
(* (the book can only have shrunk), and an order that is being sent is one that *)
(* the equity and the margin left of it pay for.                                *)
Snapshot ==
    /\ IsFiniteSet(book) /\ IsFiniteSet(portfolio.positions)
    /\ todo # <<>> \/ queue # {} \/ pc = "send" => book \subseteq portfolio.positions
Paid ==
    pc = "send" => /\ Affordable(order, portfolio.positions, portfolio.equity)
                   /\ Cardinality(portfolio.positions) < MaxConcurrent
(* The inductive invariant.                                                   *)
EntryInv == TypeOK /\ Snapshot /\ Paid

(* Capping the leverage of an order leaves its size.                          *)
LEMMA CappedType ==
    ASSUME NEW o \in Orders, o.leverage \in Leverages, NEW p \in Params
    PROVE  Capped(o, p) \in Orders /\ Capped(o, p).notional = o.notional
<1>1. o.leverage \in 3..10 /\ p.max_leverage \in 3..10
  BY DEF Leverages, Params, HighLeverage
<1>2. Min({o.leverage, p.max_leverage}) \in 1..HighLeverage
  BY <1>1, MinOfTwo DEF HighLeverage
<1>3. Capped(o, p) = [o EXCEPT !.leverage = Min({o.leverage, p.max_leverage})]
  BY DEF Capped
<1> QED
  BY <1>2, <1>3 DEF Orders

(* No order that is sent is the one that says there is none.                  *)
LEMMA OrderNotNone == ASSUME NEW o \in Orders PROVE o # NoOrder
  BY DEF Orders, NoOrder

(* After a search over a symbol's signals there is an order that the cycle    *)
(* can pay for, or none.                                                      *)
LEMMA TryType ==
    ASSUME TypeOK, Snapshot, NEW signals \in SUBSET Candidate, Try(signals), params' \in Params,
           UNCHANGED portfolio
    PROVE  /\ adaptive' \in Adaptives /\ queue' \in SUBSET Candidate
           /\ \/ pc' = "search" /\ order' = NoOrder
              \/ pc' = "send" /\ order' \in Orders
           /\ Paid'
           /\ signals = {} => pc' = "search" /\ queue' = {}
<1> DEFINE scale == Asked(adaptive, closed).cached
           valid(s) == Validate(s, s.regime, portfolio.positions, portfolio.equity, locked, scale,
                                First(week, closed))
<1>1. adaptive \in Adaptives /\ portfolio \in Portfolios /\ locked \in Milestone
  BY DEF TypeOK, Portfolios, Milestone
<1>2. Asked(adaptive, closed) \in Adaptives /\ scale \in Scales
  BY <1>1, AskedType
<1>3. adaptive' \in Adaptives
  BY <1>1, <1>2 DEF Try
<1>4. portfolio.positions \in SUBSET Positions /\ portfolio.equity \in Nat /\ locked \in Nat
  <2>1. portfolio.positions \in SUBSET Positions /\ portfolio.equity \in Equities \cup {0}
    BY <1>1 DEF Portfolios
  <2>2. Equities \cup {0} \subseteq Nat
    BY Constants
  <2>3. locked \in Nat
    BY <1>1, MilestoneType
  <2> QED
    BY <2>1, <2>2, <2>3
<1> HIDE DEF scale
<1>5. CASE pc' = "search" /\ order' = NoOrder /\ queue' = {}
  BY <1>3, <1>5 DEF Paid
<1>6. ASSUME NEW s \in signals, valid(s) # NoOrder, pc' = "send",
             order' = Capped(valid(s), params'), queue' = {t \in signals : t.rank > s.rank}
      PROVE  order' \in Orders /\ Paid'
  <2> DEFINE v == valid(s)
  <2>1. s \in Candidate /\ IsFiniteSet(portfolio.positions)
    BY DEF Snapshot
  <2>2. /\ v \in Orders /\ v.leverage \in Leverages
        /\ Affordable(v, portfolio.positions, portfolio.equity)
        /\ Cardinality(portfolio.positions) < MaxConcurrent
    BY <1>2, <1>4, <1>6, <2>1, ValidatedIsAffordable
  <2> HIDE DEF v
  <2>3. order' \in Orders /\ order'.notional = v.notional
    <3>1. order' = Capped(v, params')
      BY <1>6 DEF v
    <3> QED
      BY <2>2, <3>1, CappedType
  <2>4. Affordable(order', portfolio.positions, portfolio.equity)
    BY <2>2, <2>3 DEF Affordable
  <2> QED
    BY <2>2, <2>3, <2>4 DEF Paid, Affordable
<1>7. \/ pc' = "search" /\ order' = NoOrder /\ queue' = {}
      \/ \E s \in signals : /\ valid(s) # NoOrder /\ pc' = "send"
                            /\ order' = Capped(valid(s), params')
                            /\ queue' = {t \in signals : t.rank > s.rank}
  BY Zenon DEF Try, scale
<1> HIDE DEF valid
<1> QED
  BY <1>3, <1>5, <1>6, <1>7

(* The invariant holds at the start.                                          *)
LEMMA InitHolds == Init => EntryInv
<1> SUFFICES ASSUME Init PROVE EntryInv
  OBVIOUS
<1>1. Booted \in Adaptives /\ NormalParams \in Params
  <2>1. Booted \in Adaptives
    BY AdaptiveAssumption DEF Booted, Adaptives, None
  <2> QED
    BY <2>1 DEF NormalParams, Defense!RecoveryParams, Params, HighLeverage
<1>2. NoPortfolio \in Portfolios /\ NoPortfolio.positions = {}
  BY DEF NoPortfolio, Portfolios
<1>3. IsFiniteSet({})
  BY FS_EmptySet
<1>4. Len(<<>>) = 0 /\ MaxLog \in Nat
  BY Constants
<1>5. TypeOK
  BY <1>1, <1>2, <1>4 DEF Init, TypeOK
<1> QED
  BY <1>2, <1>3, <1>5 DEF Init, EntryInv, Snapshot, Paid

(* It is kept by the start of a cycle: the list it reads is the book.         *)
LEMMA BeginStep ==
    ASSUME EntryInv, NEW equity \in Equities, NEW state \in States, NEW minute \in Minutes,
           NEW healthy \in BOOLEAN, BeginCycle(equity, state, minute, healthy)
    PROVE  EntryInv'
<1> USE DEF BeginCycle
<1>1. portfolio' \in Portfolios
  <2>1. minute \in 0..1439
    BY Constants
  <2>2. minute \div 60 \in 0..23
    BY <2>1
  <2>3. book \in SUBSET Positions
    BY DEF EntryInv, TypeOK
  <2> QED
    BY <2>2, <2>3 DEF Portfolios
<1>2. params' \in Params
  BY ParamsType DEF EntryInv, TypeOK
<1>3. todo' \in Seq(STRING)
  <2>1. Symbols \in Seq(STRING)
    BY Constants
  <2>2. todo' = Symbols \/ todo' = <<>>
    BY Zenon
  <2> QED
    BY <2>1, <2>2, EmptySeq
<1>4. TypeOK'
  BY <1>1, <1>2, <1>3 DEF EntryInv, TypeOK
<1>5. portfolio'.positions = book /\ book' = book /\ pc' # "send"
  OBVIOUS
<1> QED
  BY <1>4, <1>5 DEF EntryInv, Snapshot, Paid

(* By the signals left after a refused order.                                 *)
LEMMA TryRestStep == ASSUME EntryInv, TryRest PROVE EntryInv'
<1> USE DEF TryRest
<1>1. TypeOK /\ Snapshot /\ queue \in SUBSET Candidate /\ params' \in Params
  BY DEF EntryInv, TypeOK
<1>2. /\ adaptive' \in Adaptives /\ queue' \in SUBSET Candidate
      /\ \/ pc' = "search" /\ order' = NoOrder
         \/ pc' = "send" /\ order' \in Orders
      /\ Paid'
  BY <1>1, TryType
<1>3. TypeOK'
  BY <1>1, <1>2 DEF TypeOK
<1>4. Snapshot'
  BY <1>1 DEF Snapshot
<1> QED
  BY <1>2, <1>3, <1>4 DEF EntryInv

(* By a symbol and its signals.                                               *)
LEMMA LookStep ==
    ASSUME EntryInv, NEW i \in DOMAIN todo, NEW market \in Markets, NEW transition \in BOOLEAN,
           Look(i, market, transition)
    PROVE  EntryInv'
<1> USE DEF Look
<1>1. TypeOK /\ Snapshot
  BY DEF EntryInv
<1>2. todo[i] \in STRING /\ todo' \in Seq(STRING)
  <2>1. todo \in Seq(STRING)
    BY <1>1 DEF TypeOK
  <2> QED
    BY <2>1, RestOfSeq
<1>3. params' \in Params
  <2>1. params \in Params
    BY <1>1 DEF TypeOK
  <2>2. \A r : \A p \in Params : Overridden(p, r) \in Params
    BY ParamsType
  <2> QED
    BY <2>1, <2>2
<1> DEFINE signals == Candidates(todo[i], market, params')
<1>4. signals \in SUBSET Candidate
  <2>1. portfolio.hour \in 0..23
    BY <1>1 DEF TypeOK, Portfolios
  <2> QED
    BY <1>2, <2>1, CandidatesType
<1>5. Try(signals) /\ UNCHANGED portfolio
  OBVIOUS
<1> HIDE DEF signals
<1>6. /\ adaptive' \in Adaptives /\ queue' \in SUBSET Candidate
      /\ \/ pc' = "search" /\ order' = NoOrder
         \/ pc' = "send" /\ order' \in Orders
      /\ Paid'
  BY <1>1, <1>3, <1>4, <1>5, TryType
<1>7. UNCHANGED <<book, closed, week, locked, portfolio>> /\ todo # <<>>
  OBVIOUS
<1>8. TypeOK'
  BY <1>1, <1>2, <1>3, <1>6, <1>7 DEF TypeOK
<1>9. Snapshot'
  BY <1>1, <1>7 DEF Snapshot
<1> QED
  BY <1>6, <1>8, <1>9 DEF EntryInv

(* By an order that is not sent on.                                           *)
LEMMA DropStep == ASSUME EntryInv, Drop PROVE EntryInv'
<1>1. TypeOK'
  BY DEF EntryInv, TypeOK, Drop
<1> QED
  BY <1>1 DEF EntryInv, Snapshot, Paid, Drop

(* What is filled of the order that is sent becomes a position.                 *)
LEMMA ExecuteEnters ==
    ASSUME EntryInv, NEW jitter \in Jitters, NEW rest \in BOOLEAN, Execute(jitter, rest)
    PROVE  \E p \in Positions : /\ book' = book \cup {p}
                                /\ 100 * p.notional <= 110 * order.notional
<1> DEFINE filled == Filled(order.notional, Tranches, jitter, rest)
           p == [symbol |-> order.symbol, side |-> order.side, notional |-> filled,
                 leverage |-> order.leverage, strategy |-> order.strategy]
<1>1. pc = "send" /\ book' = book \cup {p}
  BY DEF Execute, Filled
<1>2. order \in Orders
  BY <1>1 DEF EntryInv, TypeOK
<1>3. order.conf \in Nat /\ order.notional \in Nat
  BY <1>2 DEF Orders
<1>4. Tranches \in Nat \ {0}
  <2> DEFINE urgency == IF portfolio.equity < 50000 THEN 100 ELSE order.conf
             k == (3 * (200 - urgency)) \div 200
  <2>1. urgency \in Int
    BY <1>3
  <2>2. k \in Int
    BY <2>1
  <2>3. Tranches = IF urgency >= 80 THEN 1 ELSE Max({1, k})
    BY DEF Tranches
  <2> HIDE DEF k, urgency
  <2>4. Max({1, k}) \in Nat \ {0}
    BY <2>2, MaxOfTwo
  <2> QED
    BY <2>3, <2>4
<1>5. jitter \in 90..110
  BY Constants
<1>6. filled \in Nat /\ 100 * filled <= 110 * order.notional
  BY <1>3, <1>4, <1>5, FilledBound
<1> HIDE DEF filled
<1>7. p \in Positions /\ p.notional = filled
  BY <1>2, <1>6 DEF Orders, Positions
<1> HIDE DEF p
<1> QED
  BY <1>1, <1>6, <1>7

(* By a filled order: the book grows, and nothing is left to try.             *)
LEMMA ExecuteStep ==
    ASSUME EntryInv, NEW jitter \in Jitters, NEW rest \in BOOLEAN, Execute(jitter, rest)
    PROVE  EntryInv'
<1>1. PICK p \in Positions : book' = book \cup {p}
  BY ExecuteEnters
<1>2. /\ pc' = "search" /\ order' = NoOrder /\ todo' = <<>> /\ queue' = {}
      /\ UNCHANGED <<closed, week, adaptive, locked, portfolio, params>>
  BY DEF Execute
<1>3. TypeOK'
  BY <1>1, <1>2, EmptySeq DEF EntryInv, TypeOK
<1>4. IsFiniteSet(book')
  BY <1>1, FS_AddElement DEF EntryInv, Snapshot
<1> QED
  BY <1>2, <1>3, <1>4 DEF EntryInv, Snapshot, Paid

(* By the end of a cycle.                                                     *)
LEMMA EndStep == ASSUME EntryInv, EndCycle PROVE EntryInv'
<1>1. /\ pc' = "idle" /\ portfolio' = NoPortfolio /\ params' = NormalParams /\ todo' = <<>>
      /\ locked' = Max({locked, Locked(portfolio.equity)}) /\ pc = "search" /\ queue = {}
      /\ UNCHANGED <<book, closed, week, adaptive, queue, order>>
  BY DEF EndCycle
<1>2. locked' \in {0} \cup Range(Milestones)
  <2>1. locked \in Milestone /\ portfolio.equity \in Equities \cup {0}
    BY DEF EntryInv, TypeOK, Portfolios, Milestone
  <2>2. Equities \cup {0} \subseteq Nat
    BY Constants
  <2>3. Locked(portfolio.equity) \in Milestone
    BY <2>1, <2>2, LockedType
  <2>4. locked \in Int /\ Locked(portfolio.equity) \in Int
    <3>1. locked \in Nat /\ Locked(portfolio.equity) \in Nat
      BY <2>1, <2>3, MilestoneType
    <3> QED
      BY <3>1
  <2> QED
    BY <1>1, <2>1, <2>3, <2>4, MaxOfTwo DEF Milestone
<1>3. NoPortfolio \in Portfolios /\ NormalParams \in Params /\ NoPortfolio.positions = {}
  BY DEF NoPortfolio, Portfolios, NormalParams, Defense!RecoveryParams, Params, HighLeverage
<1>4. TypeOK'
  BY <1>1, <1>2, <1>3, EmptySeq DEF EntryInv, TypeOK
<1>5. IsFiniteSet(portfolio'.positions)
  BY <1>1, <1>3, FS_EmptySet
<1> QED
  BY <1>1, <1>4, <1>5 DEF EntryInv, Snapshot, Paid

(* By a position that closes, also in the middle of a search: the list is a   *)
(* superset of the book.                                                      *)
LEMMA CloseStep ==
    ASSUME EntryInv, NEW p \in book, NEW pnl \in Results, Close(p, pnl)
    PROVE  EntryInv'
<1>1. /\ book' = book \ {p}
      /\ closed' = First(MaxLog, <<[strategy |-> p.strategy, pnl |-> pnl]>> \o closed)
      /\ week' = Min({week + 1, MaxLog})
      /\ UNCHANGED <<adaptive, locked, pc, search>>
  BY DEF Close
<1> DEFINE t == [strategy |-> p.strategy, pnl |-> pnl]
<1>2. t \in Trades
  <2>1. p \in Positions /\ pnl \in Int
    BY Constants DEF EntryInv, TypeOK
  <2> QED
    BY <2>1 DEF Positions, Trades
<1> HIDE DEF t
<1>3. closed' \in Seq(Trades) /\ Len(closed') <= MaxLog /\ week' \in 0..Len(closed')
  BY <1>1, <1>2, LoggedType DEF EntryInv, TypeOK, t
<1>4. TypeOK'
  BY <1>1, <1>3 DEF EntryInv, TypeOK, search
<1>5. IsFiniteSet(book') /\ book' \subseteq book
  BY <1>1, FS_RemoveElement DEF EntryInv, Snapshot
<1>6. UNCHANGED <<pc, portfolio, todo, queue, order>>
  BY <1>1 DEF search
<1> QED
  BY <1>4, <1>5, <1>6 DEF EntryInv, Snapshot, Paid, Affordable

(* By a restart.                                                              *)
LEMMA RestartStep == ASSUME EntryInv, Restart PROVE EntryInv'
<1>1. /\ adaptive' = Booted /\ locked' = 0
      /\ pc' = "idle" /\ portfolio' = NoPortfolio /\ params' = NormalParams
      /\ todo' = <<>> /\ queue' = {} /\ order' = NoOrder /\ PnlCorrected
      /\ UNCHANGED <<book, week>>
  BY DEF Restart
<1>2. NoPortfolio \in Portfolios /\ NormalParams \in Params /\ NoPortfolio.positions = {}
  BY DEF NoPortfolio, Portfolios, NormalParams, Defense!RecoveryParams, Params, HighLeverage
<1>3. Booted \in Adaptives
  BY HourType DEF EntryInv, TypeOK
<1>4. closed' \in Seq(Trades) /\ Len(closed') = Len(closed)
  BY <1>1, CorrectedType DEF EntryInv, TypeOK
<1>5. TypeOK'
  BY <1>1, <1>2, <1>3, <1>4, EmptySeq DEF EntryInv, TypeOK
<1>6. IsFiniteSet(portfolio'.positions)
  BY <1>1, <1>2, FS_EmptySet
<1> QED
  BY <1>1, <1>5, <1>6 DEF EntryInv, Snapshot, Paid

(* By the passing of time.                                                    *)
LEMMA TimeStep == ASSUME EntryInv, Minute \/ Hour \/ Day PROVE EntryInv'
<1>1. /\ UNCHANGED <<book, closed, locked, pc, search>>
      /\ adaptive' \in Adaptives /\ week' \in 0..Len(closed)
  <2>1. adaptive \in Adaptives /\ week \in 0..Len(closed) /\ Len(closed) \in Nat
    BY LenProperties DEF EntryInv, TypeOK
  <2>2. CASE Minute
    BY <2>1, <2>2, HourType DEF Minute
  <2>3. CASE Hour
    BY <2>1, <2>3, HourType DEF Hour
  <2>4. CASE Day
    <3>1. week' = week - 1 /\ week > 0
      BY <2>4 DEF Day
    <3>2. adaptive' = [until |-> Min({adaptive.until, 0}), grace |-> 0, cached |-> None]
      BY <2>4 DEF Day
    <3>3. adaptive' \in Adaptives
      BY <2>1, <3>2, HourType
    <3>4. UNCHANGED <<book, closed, locked, pc, search>>
      BY <2>4 DEF Day
    <3> QED
      BY <2>1, <3>1, <3>3, <3>4
  <2> QED
    BY <2>2, <2>3, <2>4
<1>2. TypeOK'
  BY <1>1 DEF EntryInv, TypeOK, search
<1> QED
  BY <1>1, <1>2 DEF EntryInv, Snapshot, Paid, Affordable, search

(* By every step.                                                             *)
LEMMA EntryInvStep == EntryInv /\ [Next]_vars => EntryInv'
<1> SUFFICES ASSUME EntryInv, [Next]_vars PROVE EntryInv'
  OBVIOUS
<1>1. CASE Cycle
  BY <1>1, BeginStep, LookStep, TryRestStep, DropStep, ExecuteStep, EndStep DEF Cycle
<1>2. CASE \E p \in book, pnl \in Results : Close(p, pnl)
  BY <1>2, CloseStep
<1>3. CASE Restart
  BY <1>3, RestartStep
<1>4. CASE Minute \/ Hour \/ Day
  BY <1>4, TimeStep
<1>5. CASE UNCHANGED vars
  BY <1>5 DEF vars, search, EntryInv, TypeOK, Snapshot, Paid, Affordable
<1> QED
  BY <1>1, <1>2, <1>3, <1>4, <1>5 DEF Next

(* It always holds: the list a cycle works with covers the book, and an order *)
(* that is sent is paid for.                                                  *)
THEOREM EntryInvariant == Spec => []EntryInv
  BY InitHolds, EntryInvStep, PTL DEF Spec

(* Every variable keeps its type; every order sent has a notional and a       *)
(* leverage of at least 1.                                                    *)
THEOREM EntryTypeCorrect == Spec => []TypeOK
<1>1. EntryInv => TypeOK
  BY DEF EntryInv
<1> QED
  BY <1>1, EntryInvariant, PTL

-----------------------------------------------------------------------------
(* Only a filled order adds a position.                                       *)
LEMMA OnlyExecuteEnters ==
    ASSUME EntryInv, Next, NEW p \in book' \ book
    PROVE  \E jitter \in Jitters, rest \in BOOLEAN : Execute(jitter, rest)
<1>1. CASE Cycle
  BY <1>1 DEF Cycle, BeginCycle, Look, TryRest, Drop, EndCycle
<1>2. CASE \E q \in book, pnl \in Results : Close(q, pnl)
  BY <1>2 DEF Close
<1>3. CASE Restart \/ Minute \/ Hour \/ Day
  BY <1>3 DEF Restart, Minute, Hour, Day
<1> QED
  BY <1>1, <1>2, <1>3 DEF Next

(* The limits leave an affordable order room: the code has 15 and 3           *)
(* (src/config.py:21 and 25).                                                 *)
EnoughRoom == 12 <= MaxDirectional /\ MaxConcurrent <= 28

(* No entry takes the notional of a side beyond max_directional_leverage      *)
(* times the equity the cycle has read, for any equity, signals, positions    *)
(* and closed trades: the unsized guess of _check_directional_exposure is not *)
(* needed for it.                                                             *)
THEOREM ExposureLimited == ASSUME EnoughRoom PROVE Spec => SameSideExposure
<1> DEFINE Within == \A p \in book' \ book :
               Notional(SameSide(book', p.side)) <= MaxDirectional * portfolio.equity
<1>1. EntryInv /\ [Next]_vars => Within
  <2> SUFFICES ASSUME EntryInv, [Next]_vars, NEW p \in book' \ book
               PROVE  Notional(SameSide(book', p.side)) <= MaxDirectional * portfolio.equity
    OBVIOUS
  <2>1. Next
    BY DEF vars
  <2>2. PICK jitter \in Jitters, rest \in BOOLEAN : Execute(jitter, rest)
    BY <2>1, OnlyExecuteEnters
  <2>3. PICK q \in Positions : book' = book \cup {q} /\ 100 * q.notional <= 110 * order.notional
    BY <2>2, ExecuteEnters
  <2>4. p = q
    BY <2>3
  <2>5. pc = "send"
    BY <2>2 DEF Execute
  <2>6. /\ book \in SUBSET portfolio.positions /\ IsFiniteSet(portfolio.positions)
        /\ Affordable(order, portfolio.positions, portfolio.equity)
        /\ Cardinality(portfolio.positions) < MaxConcurrent
    BY <2>5 DEF EntryInv, Snapshot, Paid
  <2>7. order \in Orders /\ portfolio \in Portfolios
    BY <2>5 DEF EntryInv, TypeOK
  <2>8. order.notional \in Nat
    BY <2>7 DEF Orders
  <2>9. portfolio.positions \in SUBSET Positions /\ portfolio.equity \in Nat
    <3>1. portfolio.positions \in SUBSET Positions /\ portfolio.equity \in Equities \cup {0}
      BY <2>7 DEF Portfolios
    <3>2. Equities \cup {0} \subseteq Nat
      BY Constants
    <3> QED
      BY <3>1, <3>2
  <2> QED
    BY <2>3, <2>4, <2>6, <2>8, <2>9, EntryWithinLimit DEF EnoughRoom
<1> QED
  BY <1>1, EntryInvariant, PTL DEF SameSideExposure, Spec
=============================================================================
