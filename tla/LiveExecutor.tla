------------------------------ MODULE LiveExecutor ------------------------------
(* The bot's order handling, execution/executor.py: entry with its retries and  *)
(* its stop, close_position, cancel_all_pending and ensure_sl_orders, each cut  *)
(* at its awaits so that the venue can move in between.  The trades table is    *)
(* kept here because execute and ensure_sl_orders write it; TradingCycle adds   *)
(* the callers.  The single asyncio task has one program counter.               *)
EXTENDS BinanceVenue

CONSTANTS
    MaxRetries,     \* attempts per tranche (LiveExecutor.MAX_RETRIES)
    Events          \* what the outside world may do, a subset of EventKinds

(* wallet    the wallet really falls below the circuit breaker's floor          *)
(* drawdown  the defense manager reports EMERGENCY_CLOSE or HALT                *)
(* dca       plans may carry a second, LIMIT, tranche (equity of 500 or more)   *)
(* breakeven a profit of 5% moves a stop to breakeven                           *)
(* close     the operator sends /close, closeall /closeall, pause /pause        *)
(* sigterm   the process is asked to stop                                       *)
EventKinds == {"wallet", "drawdown", "dca", "breakeven", "close", "closeall",
               "pause", "sigterm"}

ASSUME ExecutorAssumption ==
    /\ MaxRetries \in Nat \ {0}
    /\ Events \subseteq EventKinds

VARIABLES
    rows,               \* OPEN rows of the trades table, per key
    level,              \* their stop_loss column
    pc,                 \* where the trading task is
    positions,          \* the position list this task last read
    todo,               \* keys the current loop has still to visit
    orphans,            \* keys whose stops ensure_sl_orders means to delete
    target,             \* the key being worked on
    caller,             \* who asked for the loop that is running
    verdict,            \* outcome of the last close_position
    moves,              \* keys queued in _pending_sl_updates
    closedThisCycle,    \* closed_this_cycle of the cycle
    attempt,            \* retries made so far
    filled              \* total_filled > 0, as execute believes

table == <<rows, level>>
memory == <<positions, todo, orphans, target, caller, verdict, moves,
            closedThisCycle, attempt, filled>>

NoKey == <<>>
RowLevels == {"none"} \cup Levels
Callers == {"none", "startup", "cycle", "monitor", "breaker", "defense", "close",
            "closeall", "shutdown"}
Verdicts == {"none", "success", "already_closed", "error"}

Tracked == {k \in Keys : rows[k] > 0}

TableTypeOK == rows \in [Keys -> Nat] /\ level \in [Keys -> RowLevels]

MemoryTypeOK ==
    /\ positions \subseteq Keys /\ todo \subseteq Keys /\ orphans \subseteq Keys
    /\ target \in Keys \cup {NoKey}
    /\ caller \in Callers /\ verdict \in Verdicts
    /\ moves \subseteq Keys
    /\ attempt \in 0..MaxRetries + 1

(* A blank working memory: a fresh process, or the end of a cycle.           *)
Blank ==
    /\ positions' = {} /\ todo' = {} /\ orphans' = {} /\ target' = NoKey
    /\ caller' = "none" /\ verdict' = "none" /\ moves' = {}
    /\ closedThisCycle' = FALSE /\ attempt' = 0 /\ filled' = FALSE

-----------------------------------------------------------------------------
(* UPDATEs and INSERTs on the trades table.                                  *)

(* UPDATE trades SET status='CLOSED' for every OPEN row of the keys K.  The  *)
(* monitor closes its row by id, which is the same while a key has one row.  *)
CloseRows(K) ==
    /\ rows' = [k \in Keys |-> IF k \in K THEN 0 ELSE rows[k]]
    /\ level' = [k \in Keys |-> IF k \in K THEN "none" ELSE level[k]]

(* Variant: an INSERT without the look for an existing row.                  *)
InsertAlways(k) ==
    /\ rows' = [rows EXCEPT ![k] = @ + 1]
    /\ level' = [level EXCEPT ![k] = "initial"]

(* execute: update the OPEN row of the key, or insert one if there is none.  *)
UpsertRow(k) ==
    /\ rows' = [rows EXCEPT ![k] = IF @ = 0 THEN 1 ELSE @]
    /\ level' = [level EXCEPT ![k] = "initial"]

-----------------------------------------------------------------------------
(* close_position                                                            *)

BeginClose(k) ==
    /\ pc = "close"
    /\ k \in todo
    /\ target' = k
    /\ todo' = todo \ {k}
    /\ UNCHANGED <<positions, orphans, caller, moves, closedThisCycle, attempt,
                   filled, stops, working, table>>

(* The order fills and its fill is confirmed, at once or by the status query. *)
CloseFills(k) ==
    /\ BeginClose(k)
    /\ k \in pos /\ pos' = pos \ {k}
    /\ verdict' = "success"
    /\ pc' = "cancel"

(* No fill was confirmed: the caller is told already_closed and the stops of *)
(* the key are left alone.                                                   *)
CloseUnconfirmed(k) ==
    /\ BeginClose(k)
    /\ k \in pos
    /\ \/ "status" \in Faults /\ pos' = pos \ {k}
       \/ "unfilled" \in Faults /\ UNCHANGED pos
    /\ verdict' = "already_closed"
    /\ pc' = "settle"

(* -2022: there is no position to close.                                     *)
CloseRejected(k) ==
    /\ BeginClose(k)
    /\ k \notin pos /\ UNCHANGED pos
    /\ verdict' = "already_closed"
    /\ pc' = "cancel"

CloseRaises(k) ==
    /\ BeginClose(k)
    /\ \/ "order" \in Faults /\ UNCHANGED pos
       \/ "reply" \in Faults /\ k \in pos /\ pos' = pos \ {k}
    /\ verdict' = "error"
    /\ pc' = "settle"

(* Variant: the cancel is not limited to the symbol and side of the close.   *)
CancelTooMuch ==
    /\ pc = "cancel"
    /\ CancelStops(Keys)
    /\ pc' = "settle"
    /\ UNCHANGED <<pos, working, table, memory>>

(* cancel_algo_orders(symbol, positionSide) after a close.                   *)
CancelClosed ==
    /\ pc = "cancel"
    /\ CancelStops({target})
    /\ pc' = "settle"
    /\ UNCHANGED <<pos, working, table, memory>>

ClosePosition ==
    \/ \E k \in Keys : \/ CloseFills(k) \/ CloseUnconfirmed(k)
                       \/ CloseRejected(k) \/ CloseRaises(k)
    \/ CancelClosed

-----------------------------------------------------------------------------
(* cancel_all_pending: regular orders of the ten symbols written there, then *)
(* every algo order, stops included.  Entry orders of other symbols stay on  *)
(* the book, and so do those of a symbol whose request fails.                *)

CancelEntries ==
    /\ pc = "cancelEntries"
    /\ working' \in SUBSET working
    /\ pc' = "cancelAll"
    /\ UNCHANGED <<pos, stops, table, memory>>

CancelAllStops ==
    /\ pc = "cancelAll"
    /\ CancelStops(Keys)
    /\ IF caller = "shutdown" THEN pc' = "down" /\ Blank
                              ELSE pc' = "close" /\ UNCHANGED memory
    /\ UNCHANGED <<pos, working, table>>

-----------------------------------------------------------------------------
(* execute(plan)                                                             *)

Opens(k) == pos' = pos \cup {k} /\ UNCHANGED working
RestsOnBook(k) == working' = working \cup {k} /\ UNCHANGED pos

(* execute returned without success: the caller goes on with its next signal. *)
GiveUp ==
    /\ pc' = "open"
    /\ todo' = todo \ {target}
    /\ attempt' = 0 /\ filled' = FALSE
    /\ UNCHANGED <<positions, orphans, target, caller, verdict, moves, closedThisCycle>>

(* The first tranche is over, believed filled or not: a limit tranche comes  *)
(* next, or the stop, or "No fills".                                         *)
TrancheOver(believed) ==
    \/ /\ "dca" \in Events
       /\ pc' = "ladder"
       /\ attempt' = 0 /\ filled' = believed
       /\ UNCHANGED <<positions, todo, orphans, target, caller, verdict, moves,
                      closedThisCycle>>
    \/ /\ believed
       /\ pc' = "protect"
       /\ attempt' = 0 /\ filled' = TRUE
       /\ UNCHANGED <<positions, todo, orphans, target, caller, verdict, moves,
                      closedThisCycle>>
    \/ ~believed /\ GiveUp

TryAgain ==
    /\ attempt + 1 < MaxRetries
    /\ attempt' = attempt + 1
    /\ UNCHANGED <<pc, positions, todo, orphans, target, caller, verdict, moves,
                   closedThisCycle, filled>>

LastAttempt == attempt + 1 >= MaxRetries

(* A confirmed fill.                                                         *)
EntryFills ==
    /\ pc = "entry"
    /\ Opens(target)
    /\ TrancheOver(TRUE)
    /\ UNCHANGED <<stops, table>>

(* An immediate-or-cancel limit order that fills nothing, or whose reply     *)
(* came before its fill: limit orders are not queried again.                 *)
EntryMisses ==
    /\ pc = "entry"
    /\ \/ UNCHANGED <<pos, working>>
       \/ "ack" \in Faults /\ Opens(target)
    /\ TrancheOver(FALSE)
    /\ UNCHANGED <<stops, table>>

(* A market order whose status still shows no fill after a second.  The loop *)
(* goes round again and orders anew while the first order may yet fill.      *)
EntryUnfilled ==
    /\ pc = "entry"
    /\ \/ "unfilled" \in Faults /\ UNCHANGED <<pos, working>>
       \/ "rest" \in Faults /\ RestsOnBook(target)
    /\ TryAgain \/ (LastAttempt /\ TrancheOver(FALSE))
    /\ UNCHANGED <<stops, table>>

(* The status query itself raises: the fill is taken for granted.            *)
EntryAssumed ==
    /\ pc = "entry"
    /\ "status" \in Faults
    /\ \/ Opens(target)
       \/ "unfilled" \in Faults /\ UNCHANGED <<pos, working>>
       \/ "rest" \in Faults /\ RestsOnBook(target)
    /\ TrancheOver(TRUE)
    /\ UNCHANGED <<stops, table>>

(* The order request raises.  The last attempt returns at once: nothing that *)
(* was filled before gets a stop or a row.  (A set_leverage that raises ends *)
(* execute before any order, as if the signal had not been there.)           *)
EntryRaises ==
    /\ pc = "entry"
    /\ \/ "order" \in Faults /\ UNCHANGED <<pos, working>>
       \/ "reply" \in Faults /\ Opens(target)
    /\ TryAgain \/ (LastAttempt /\ GiveUp)
    /\ UNCHANGED <<stops, table>>

(* The limit tranche, away from the market, rests on the book.               *)
LadderRests ==
    /\ pc = "ladder"
    /\ RestsOnBook(target)
    /\ IF filled
       THEN /\ pc' = "protect" /\ attempt' = 0
            /\ UNCHANGED <<positions, todo, orphans, target, caller, verdict, moves,
                           closedThisCycle, filled>>
       ELSE GiveUp
    /\ UNCHANGED <<stops, table>>

LadderRaises ==
    /\ pc = "ladder"
    /\ \/ "order" \in Faults /\ UNCHANGED <<pos, working>>
       \/ "reply" \in Faults /\ RestsOnBook(target)
    /\ TryAgain \/ (LastAttempt /\ GiveUp)
    /\ UNCHANGED <<stops, table>>

(* _place_exit_orders: the stop, tried twice.                                *)
ProtectEntry ==
    /\ pc = "protect"
    /\ StopAccepted(target, "initial")
    /\ pc' = "record"
    /\ UNCHANGED <<pos, working, table, memory>>

ProtectRaises ==
    /\ pc = "protect"
    /\ StopRaised(target, "initial")
    /\ IF attempt = 0 THEN attempt' = 1 /\ UNCHANGED pc
                      ELSE pc' = "record" /\ UNCHANGED attempt
    /\ UNCHANGED <<pos, working, table, positions, todo, orphans, target, caller,
                   verdict, moves, closedThisCycle, filled>>

(* Variant: the entry made is not counted against the one per cycle.         *)
RecordAndGoOn ==
    /\ pc = "record"
    /\ UpsertRow(target)
    /\ GiveUp
    /\ UNCHANGED venue

(* The row, and with it the one entry this cycle may make.                   *)
RecordEntry ==
    /\ pc = "record"
    /\ UpsertRow(target)
    /\ pc' = "idle"
    /\ Blank
    /\ UNCHANGED venue

Execute ==
    \/ EntryFills \/ EntryMisses \/ EntryUnfilled \/ EntryAssumed \/ EntryRaises
    \/ LadderRests \/ LadderRaises
    \/ ProtectEntry \/ ProtectRaises \/ RecordEntry

-----------------------------------------------------------------------------
(* ensure_sl_orders                                                          *)

(* The open algo orders, then the OPEN rows.  If the query fails the list is *)
(* empty and every row looks unprotected.                                    *)
QueryStops ==
    /\ pc = "query"
    /\ \E seen \in {Stopped} \cup (IF "algoQuery" \in Faults THEN {{}} ELSE {}) :
          /\ todo' = Tracked \ seen
          /\ orphans' = seen \ Tracked
    /\ pc' = "ensure"
    /\ UNCHANGED <<venue, table, positions, target, caller, verdict, moves,
                   closedThisCycle, attempt, filled>>

(* A row without stop_loss gets the 3% default before its stop is placed.    *)
StopLevel(k) == IF level[k] = "none" THEN "initial" ELSE level[k]

EnsureStop(k) ==
    /\ pc = "ensure"
    /\ k \in todo
    /\ todo' = todo \ {k}
    /\ level' = [level EXCEPT ![k] = StopLevel(k)]
    /\ StopAccepted(k, StopLevel(k)) \/ StopRaised(k, StopLevel(k))
    /\ UNCHANGED <<pos, working, rows, pc, positions, orphans, target, caller,
                   verdict, moves, closedThisCycle, attempt, filled>>

(* Stops of keys that had no OPEN row are deleted once all are placed.       *)
CleanOrphan(k) ==
    /\ pc = "ensure"
    /\ todo = {} /\ k \in orphans
    /\ orphans' = orphans \ {k}
    /\ DeleteStops({k})
    /\ UNCHANGED <<pos, working, table, pc, positions, todo, target, caller,
                   verdict, moves, closedThisCycle, attempt, filled>>

EnsureDone ==
    /\ pc = "ensure"
    /\ todo = {} /\ orphans = {}
    /\ IF caller = "startup" THEN pc' = "idle" /\ Blank
                             ELSE pc' = "check" /\ UNCHANGED memory
    /\ UNCHANGED <<venue, table>>

EnsureStops ==
    \/ QueryStops
    \/ \E k \in Keys : EnsureStop(k) \/ CleanOrphan(k)
    \/ EnsureDone
=============================================================================
