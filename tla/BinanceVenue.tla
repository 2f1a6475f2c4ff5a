------------------------------ MODULE BinanceVenue ------------------------------
(* Binance futures in hedge mode, as execution/executor.py uses it: positions,  *)
(* algo (conditional stop) orders and entry orders still working on the book.   *)
(* The venue is external: it is modelled from the requests the bot sends, the   *)
(* answers it expects and the errors its handlers name.  Quantities and prices  *)
(* are abstracted: a position is open or not, a stop has one of two levels.     *)
EXTENDS Integers, FiniteSets

CONSTANTS
    Symbols,    \* traded symbols
    Sides,      \* positionSide: LONG and SHORT
    MaxStops,   \* algo orders the venue accepts per position key
    Faults      \* which of FaultKinds this instance may show

(* account     an account read raises                                          *)
(* order       an order request raises and never reached the venue             *)
(* reply       an order request was executed and its reply was lost            *)
(* ack         the reply of an immediate-or-cancel order predates its fill     *)
(* unfilled    a market order reports no fill, and never fills                 *)
(* rest        an entry order stays on the book and may fill later             *)
(* status      the status query after an order raises                          *)
(* algo        placing a stop raises, whether or not the venue booked it       *)
(* algoQuery   the query for open algo orders fails                            *)
(* algoCancel  a request that deletes an algo order fails                      *)
(* database    the UPDATE that closes a row raises                             *)
(* crash       the bot's process dies                                          *)
FaultKinds == {"account", "order", "reply", "ack", "unfilled", "rest", "status",
               "algo", "algoQuery", "algoCancel", "database", "crash"}

ASSUME VenueAssumption ==
    /\ IsFiniteSet(Symbols)
    /\ IsFiniteSet(Sides)
    /\ MaxStops \in Nat \ {0}
    /\ Faults \subseteq FaultKinds

VARIABLES
    pos,        \* keys with an open position
    stops,      \* number of open stop orders of each key at each level
    working     \* keys with an entry order on the book

venue == <<pos, stops, working>>

Keys == Symbols \X Sides
Symbol(k) == k[1]

Levels == {"initial", "breakeven"}      \* stop price: as entered, or moved to entry + fees
Bundles == [Levels -> 0..MaxStops]
NoStops == [l \in Levels |-> 0]

StopCount(k) == stops[k]["initial"] + stops[k]["breakeven"]
Stopped == {k \in Keys : stops[k] # NoStops}

VenueTypeOK ==
    /\ pos \subseteq Keys
    /\ stops \in [Keys -> Bundles]
    /\ working \subseteq Keys

VenueInit ==
    /\ pos = {}
    /\ stops = [k \in Keys |-> NoStops]
    /\ working = {}

-----------------------------------------------------------------------------
(* Requests the bot makes of the venue.                                      *)

(* Which key set a GET /account may show: the truth, or an error, for which  *)
(* the caller substitutes what its handler returns.                          *)
AccountRead(read, onError) ==
    \/ read = pos
    \/ "account" \in Faults /\ read = onError

(* One DELETE per stop order of the keys K.  Failures are swallowed, so      *)
(* whatever was not deleted stays.                                           *)
DeleteStops(K) ==
    \/ stops' = [k \in Keys |-> IF k \in K THEN NoStops ELSE stops[k]]
    \/ /\ "algoCancel" \in Faults
       /\ \E kept \in SUBSET ((K \cap Stopped) \X Levels) :
            stops' = [k \in Keys |-> [l \in Levels |->
                        IF k \in K /\ <<k, l>> \notin kept THEN 0 ELSE stops[k][l]]]

(* cancel_algo_orders: the query for the orders may fail before that.        *)
CancelStops(K) ==
    \/ DeleteStops(K)
    \/ "algoQuery" \in Faults /\ UNCHANGED stops

AddStop(k, l) == stops' = [stops EXCEPT ![k][l] = @ + 1]

(* POST /algoOrder was accepted.                                             *)
StopAccepted(k, l) == StopCount(k) < MaxStops /\ AddStop(k, l)

(* POST /algoOrder raised: refused, lost on the way, or booked without a     *)
(* reply.                                                                    *)
StopRaised(k, l) ==
    \/ StopCount(k) >= MaxStops /\ UNCHANGED stops
    \/ "algo" \in Faults /\ (UNCHANGED stops \/ StopAccepted(k, l))

-----------------------------------------------------------------------------
(* What the venue does on its own.                                           *)

(* The mark price reaches a stop: the order is spent and closes the position *)
(* of its key, if there still is one.                                        *)
StopTriggers(k, l) ==
    /\ stops[k][l] > 0
    /\ stops' = [stops EXCEPT ![k][l] = @ - 1]
    /\ pos' = pos \ {k}
    /\ UNCHANGED working

(* Liquidation, or a close made by hand in the exchange's own application.   *)
(* The key's stop orders stay on the book.                                   *)
PositionTaken(k) ==
    /\ k \in pos
    /\ pos' = pos \ {k}
    /\ UNCHANGED <<stops, working>>

(* An entry order left on the book fills.                                    *)
EntryFillsLate(k) ==
    /\ k \in working
    /\ pos' = pos \cup {k}
    /\ working' = working \ {k}
    /\ UNCHANGED stops

VenueMoves ==
    \E k \in Keys : \/ \E l \in Levels : StopTriggers(k, l)
                    \/ PositionTaken(k)
                    \/ EntryFillsLate(k)
=============================================================================
