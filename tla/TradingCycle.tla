------------------------------ MODULE TradingCycle ------------------------------
(* The life of positions under the trading task: crypto_system.py's start-up    *)
(* reconciliation, run_trading_cycle and shutdown_sequence, PositionManager's   *)
(* closes and stop moves, and the executor steps of LiveExecutor, interleaved   *)
(* with what the venue does on its own and with crashes of the process.         *)
EXTENDS LiveExecutor

CONSTANTS
    MaxPositions,   \* config.max_concurrent_positions
    SyncPeriod      \* cycles between reconciliations (12 in the code)

ASSUME CycleAssumption ==
    /\ MaxPositions \in Nat \ {0}
    /\ SyncPeriod \in Nat \ {0}

VARIABLES
    cycleCount,     \* _cycle_count, modulo SyncPeriod
    breaker,        \* _circuit_breaker_triggered, in memory
    halted,         \* the defense manager's halt, persisted in shield.state: until a
                    \* cooldown that lasts or is over, or without an end
    paused          \* "paused" in watchdog.state

switches == <<breaker, halted, paused>>
vars == <<venue, table, pc, memory, cycleCount, switches>>

Labels == {"down", "stale", "staleStops", "tidy", "query", "ensure", "idle", "account", "tripped",
           "guard", "sync", "check", "close", "cancel", "settle", "moves", "move",
           "open", "entry", "ladder", "protect", "record", "cancelEntries",
           "cancelAll"}

Halts == {"none", "timed", "over", "endless"}

FlagsTypeOK ==
    /\ closedThisCycle \in BOOLEAN /\ filled \in BOOLEAN
    /\ breaker \in BOOLEAN /\ paused \in BOOLEAN

TypeOK ==
    /\ VenueTypeOK /\ TableTypeOK /\ MemoryTypeOK /\ FlagsTypeOK
    /\ pc \in Labels
    /\ cycleCount \in 0..SyncPeriod - 1
    /\ halted \in Halts

Init ==
    /\ VenueInit
    /\ rows = [k \in Keys |-> 0] /\ level = [k \in Keys |-> "none"]
    /\ pc = "down"
    /\ positions = {} /\ todo = {} /\ orphans = {} /\ target = NoKey
    /\ caller = "none" /\ verdict = "none" /\ moves = {}
    /\ closedThisCycle = FALSE /\ attempt = 0 /\ filled = FALSE
    /\ cycleCount = 0
    /\ breaker = FALSE /\ halted = "none" /\ paused = FALSE

SyncDue == cycleCount = 0

(* _cycle_count += 1; only its value modulo the period matters.              *)
NextCount == cycleCount' = (cycleCount + 1) % SyncPeriod

EndCycle == pc' = "idle" /\ Blank

-----------------------------------------------------------------------------
(* Start-up: initialize and reconcile_with_exchange.  An account read that   *)
(* raises here ends the process, which is the same as staying down.          *)

(* Variant: a failed read is taken for an account without positions.         *)
StartBlind ==
    /\ pc = "down"
    /\ positions' = {}
    /\ caller' = "startup"
    /\ breaker' = FALSE
    /\ cycleCount' = 0
    /\ pc' = "stale"
    /\ UNCHANGED <<venue, table, todo, orphans, target, verdict, moves,
                   closedThisCycle, attempt, filled, halted, paused>>

Start ==
    /\ pc = "down"
    /\ positions' = pos
    /\ caller' = "startup"
    /\ breaker' = FALSE
    /\ cycleCount' = 0
    /\ pc' = "stale"
    /\ UNCHANGED <<venue, table, todo, orphans, target, verdict, moves,
                   closedThisCycle, attempt, filled, halted, paused>>

(* A row without a position is closed, then its stops are cancelled.         *)
CloseStaleRow(k) ==
    /\ pc = "stale"
    /\ k \in Tracked \ positions
    /\ CloseRows({k})
    /\ target' = k
    /\ pc' = "staleStops"
    /\ UNCHANGED <<venue, positions, todo, orphans, caller, verdict, moves,
                   closedThisCycle, attempt, filled, cycleCount, switches>>

CancelStaleStops ==
    /\ pc = "staleStops"
    /\ CancelStops({target})
    /\ target' = NoKey
    /\ pc' = "stale"
    /\ UNCHANGED <<pos, working, table, positions, todo, orphans, caller, verdict,
                   moves, closedThisCycle, attempt, filled, cycleCount, switches>>

(* Variant: known rows are deduplicated but new positions not inserted.      *)
AdoptNothing ==
    /\ pc = "stale"
    /\ Tracked \subseteq positions
    /\ rows' = [k \in Keys |-> IF rows[k] > 0 THEN 1 ELSE 0]
    /\ pc' = "tidy"
    /\ UNCHANGED <<venue, level, memory, cycleCount, switches>>

(* Every position found gets exactly one OPEN row: kept, deduplicated, or    *)
(* inserted without a stop price.                                            *)
AdoptPositions ==
    /\ pc = "stale"
    /\ Tracked \subseteq positions
    /\ rows' = [k \in Keys |-> IF k \in positions THEN 1 ELSE rows[k]]
    /\ pc' = "tidy"
    /\ UNCHANGED <<venue, level, memory, cycleCount, switches>>

(* Entry orders a previous process left on the book are cancelled, for the   *)
(* three symbols that are written there.  Other symbols keep theirs, and so  *)
(* does a symbol whose request fails.                                        *)
CancelStaleEntries ==
    /\ pc = "tidy"
    /\ working' \in SUBSET working
    /\ pc' = "query"
    /\ UNCHANGED <<pos, stops, table, memory, cycleCount, switches>>

StartUp ==
    \/ Start
    \/ \E k \in Keys : CloseStaleRow(k)
    \/ CancelStaleStops
    \/ AdoptPositions
    \/ CancelStaleEntries

-----------------------------------------------------------------------------
(* The head of run_trading_cycle: watchdog.state, the account, the guards.   *)

(* "paused" returns before anything else, position monitoring included.      *)
PausedCycle ==
    /\ pc = "idle" /\ paused
    /\ NextCount
    /\ UNCHANGED <<venue, table, pc, memory, switches>>

BeginCycle ==
    /\ pc = "idle" /\ ~paused
    /\ NextCount
    /\ pc' = "account"
    /\ UNCHANGED <<venue, table, memory, switches>>

(* get_positions answers from the trades table if the account read raises.   *)
GetPositions == AccountRead(positions', Tracked)

(* /close: _close_symbol_by_watchdog closes the first match it finds.        *)
CloseCommand(s) ==
    /\ pc = "idle" /\ ~paused
    /\ "close" \in Events
    /\ NextCount
    /\ GetPositions
    /\ LET held == {k \in positions' : Symbol(k) = s}
       IN  IF held = {} THEN pc' = "account" /\ UNCHANGED <<todo, caller>>
                        ELSE /\ pc' = "close" /\ caller' = "close"
                             /\ \E k \in held : todo' = {k}
    /\ UNCHANGED <<venue, table, orphans, target, verdict, moves,
                   closedThisCycle, attempt, filled, switches>>

(* /closeall and a tripped breaker: _emergency_close(get_positions()).       *)
BeginEmergency(who) ==
    /\ GetPositions
    /\ todo' = positions'
    /\ caller' = who
    /\ pc' = "cancelEntries"
    /\ UNCHANGED <<venue, table, orphans, target, verdict, moves, closedThisCycle,
                   attempt, filled, switches>>

CloseAllCommand ==
    /\ pc = "idle" /\ ~paused
    /\ "closeall" \in Events
    /\ NextCount
    /\ BeginEmergency("closeall")

BreakerCloses ==
    /\ pc = "tripped"
    /\ BeginEmergency("breaker")
    /\ UNCHANGED cycleCount

(* Step 3, get_positions_and_account, whose handler answers an error with no *)
(* positions and a wallet of 0.                                              *)
ReadAccount ==
    /\ pc = "account"
    /\ ~breaker
    /\ positions' = pos
    /\ pc' = "guard"
    /\ UNCHANGED <<venue, table, todo, orphans, target, caller, verdict, moves,
                   closedThisCycle, attempt, filled, cycleCount, switches>>

(* The wallet is below the floor: it shrank, or the read failed.             *)
TripBreaker ==
    /\ pc = "account"
    /\ ~breaker
    /\ "wallet" \in Events \/ "account" \in Faults
    /\ breaker' = TRUE
    /\ pc' = "tripped"
    /\ UNCHANGED <<venue, table, memory, cycleCount, halted, paused>>

(* Once tripped, the breaker drops every later cycle of this process.        *)
BreakerHolds ==
    /\ pc = "account"
    /\ breaker
    /\ EndCycle
    /\ UNCHANGED <<venue, table, cycleCount, switches>>

(* Steps 4 and 5.  DefenseManager.check saves the halt before the positions  *)
(* are closed: a drawdown halts without an end, a day's loss for a cooldown, *)
(* if the bot is not halted yet.                                             *)
GuardTrips ==
    /\ pc = "guard"
    /\ "drawdown" \in Events
    /\ \/ halted' = "endless"
       \/ halted' = IF halted = "none" THEN "timed" ELSE halted
    /\ todo' = positions
    /\ caller' = "defense"
    /\ pc' = "cancelEntries"
    /\ UNCHANGED <<venue, table, positions, orphans, target, verdict, moves,
                   closedThisCycle, attempt, filled, cycleCount, breaker, paused>>

(* ALREADY_NOTIFIED, or is_in_cooldown.                                      *)
GuardHolds ==
    /\ pc = "guard"
    /\ halted # "none"
    /\ EndCycle
    /\ UNCHANGED <<venue, table, cycleCount, switches>>

(* is_in_cooldown lifts a halt whose time is over, and no other.             *)
GuardPasses ==
    /\ pc = "guard"
    /\ halted \in {"none", "over"}
    /\ halted' = "none"
    /\ pc' = IF SyncDue THEN "sync" ELSE "check"
    /\ UNCHANGED <<venue, table, memory, cycleCount, breaker, paused>>

HeadOfCycle ==
    \/ PausedCycle \/ BeginCycle \/ CloseAllCommand \/ BreakerCloses
    \/ \E s \in Symbols : CloseCommand(s)
    \/ ReadAccount \/ TripBreaker \/ BreakerHolds
    \/ GuardTrips \/ GuardHolds \/ GuardPasses

-----------------------------------------------------------------------------
(* Steps 6.5 and 6.6, every SyncPeriod cycles.                               *)

(* Variants: orphans are not inserted; ghosts are not closed.                *)
RowsWithoutOrphans(held) == [k \in Keys |-> IF k \in held THEN rows[k] ELSE 0]
RowsWithGhosts(held) == [k \in Keys |-> IF rows[k] = 0 /\ k \in held THEN 1 ELSE rows[k]]

(* A position without a row is inserted as "reconciled", a row without a     *)
(* position is closed.                                                       *)
SyncedRows(held) ==
    [k \in Keys |-> IF k \notin held THEN 0 ELSE IF rows[k] = 0 THEN 1 ELSE rows[k]]

SyncedLevel(held) ==
    [k \in Keys |-> IF k \notin held THEN "none"
                    ELSE IF rows[k] = 0 THEN "initial" ELSE level[k]]

(* Variant: the periodic stop check is left out.                             *)
SkipEnsure == pc' = "check" /\ UNCHANGED caller

(* Step 6.6 runs only if step 3 saw any position.                            *)
ThenEnsure ==
    IF positions = {} THEN pc' = "check" /\ UNCHANGED caller
                      ELSE pc' = "query" /\ caller' = "cycle"

(* Between the account read and the writes there is no await.  An error      *)
(* reads as no positions at all.                                             *)
Reconcile ==
    /\ pc = "sync"
    /\ \E held \in SUBSET Keys :
          /\ AccountRead(held, {})
          /\ rows' = SyncedRows(held)
          /\ level' = SyncedLevel(held)
    /\ ThenEnsure
    /\ UNCHANGED <<venue, positions, todo, orphans, target, verdict, moves,
                   closedThisCycle, attempt, filled, cycleCount, switches>>

-----------------------------------------------------------------------------
(* Step 7: check_positions, close_trade_live, process_pending_sl_updates.    *)

(* Prices, and with them the reasons to close, are arbitrary: any OPEN row   *)
(* may be due, and any row that still has its entry stop may move it to      *)
(* breakeven.  One row can do both in the same pass.                         *)
CheckPositions ==
    /\ pc = "check"
    /\ \E due \in SUBSET Tracked :
          /\ todo' = due
          /\ \E up \in SUBSET {k \in Tracked : level[k] = "initial"} :
                /\ up # {} => "breakeven" \in Events
                /\ moves' = up
                /\ level' = [k \in Keys |-> IF k \in up THEN "breakeven" ELSE level[k]]
    /\ caller' = "monitor"
    /\ pc' = "close"
    /\ UNCHANGED <<venue, rows, positions, orphans, target, verdict, closedThisCycle,
                   attempt, filled, cycleCount, switches>>

(* Variant: already_closed is taken at its word.                             *)
TakenAtItsWord(k) == k \in Keys

(* already_closed is believed only after an account read that does not show  *)
(* the position; the read answers an error with no positions.                *)
VerifiedGone(k) == \E held \in SUBSET Keys : AccountRead(held, {}) /\ k \notin held

(* What each caller writes once close_position has returned.                 *)
KeepRow ==
    /\ \/ verdict = "error"
       \/ caller = "monitor" /\ verdict = "already_closed" /\ target \in pos
       \/ caller \in {"breaker", "defense", "closeall"} /\ verdict = "already_closed"
    /\ UNCHANGED <<table, closedThisCycle>>

SettleMonitored ==
    /\ caller = "monitor"
    /\ \/ verdict = "success"
       \/ verdict = "already_closed" /\ VerifiedGone(target)
    /\ closedThisCycle' = TRUE
    /\ CloseRows({target})

SettleEmergency ==
    /\ caller \in {"breaker", "defense", "closeall"}
    /\ verdict = "success"
    /\ CloseRows({target})
    /\ UNCHANGED closedThisCycle

(* /close takes already_closed at its word, for both sides of the symbol.    *)
SettleCommand ==
    /\ caller = "close"
    /\ \/ verdict = "success" /\ CloseRows({target})
       \/ /\ verdict = "already_closed"
          /\ CloseRows({k \in Keys : Symbol(k) = Symbol(target)})
    /\ UNCHANGED closedThisCycle

Settle ==
    /\ pc = "settle"
    /\ KeepRow \/ SettleMonitored \/ SettleEmergency \/ SettleCommand
    /\ pc' = "close"
    /\ verdict' = "none" /\ target' = NoKey
    /\ UNCHANGED <<venue, positions, todo, orphans, caller, moves, attempt, filled,
                   cycleCount, switches>>

(* The caller has a row to close after this verdict.                         *)
ToClose ==
    \/ verdict = "success"
    \/ /\ verdict = "already_closed"
       /\ caller = "close" \/ (caller = "monitor" /\ VerifiedGone(target))

(* The UPDATE raises and the row stays OPEN.  close_trade_live answers False *)
(* and the loop goes on; the command's handler and, of the breaker, the one  *)
(* for a failed account read let the cycle go on without the rest of the     *)
(* loop, the latter with the breaker tripped and nothing paused.             *)
SettleRaises ==
    /\ pc = "settle"
    /\ "database" \in Faults
    /\ ToClose
    /\ \/ /\ caller = "monitor"
          /\ pc' = "close"
          /\ UNCHANGED <<todo, caller>>
       \/ /\ caller \in {"close", "closeall", "breaker"}
          /\ pc' = IF caller = "breaker" THEN "guard" ELSE "account"
          /\ todo' = {} /\ caller' = "none"
    /\ verdict' = "none" /\ target' = NoKey
    /\ UNCHANGED <<venue, table, positions, orphans, moves, closedThisCycle, attempt,
                   filled, cycleCount, switches>>

(* Nothing catches it after the defense check, nor a query of the handler    *)
(* that raises as well: the cycle ends.                                      *)
EmergencyRaises ==
    /\ pc = "settle"
    /\ "database" \in Faults
    /\ caller \in {"breaker", "defense"}
    /\ ToClose
    /\ EndCycle
    /\ UNCHANGED <<venue, table, cycleCount, switches>>

(* The loop over positions to close is over.                                 *)
CloseLoopDone ==
    /\ pc = "close"
    /\ todo = {}
    /\ \/ /\ caller = "monitor"
          /\ pc' = "moves"
          /\ UNCHANGED <<memory, paused>>
       \/ /\ caller = "breaker"
          /\ paused' = TRUE
          /\ EndCycle
       \/ /\ caller = "defense"
          /\ EndCycle
          /\ UNCHANGED paused
       \/ /\ caller \in {"close", "closeall"}
          /\ pc' = "account"
          /\ caller' = "none"
          /\ UNCHANGED <<positions, todo, orphans, target, verdict, moves,
                         closedThisCycle, attempt, filled, paused>>
    /\ UNCHANGED <<venue, table, cycleCount, breaker, halted>>

(* Variant: the old stops are left alone.                                    *)
LeaveOldStop(k) ==
    /\ pc = "moves"
    /\ k \in moves
    /\ moves' = moves \ {k}
    /\ target' = k
    /\ pc' = "move"
    /\ UNCHANGED <<venue, table, positions, todo, orphans, caller, verdict,
                   closedThisCycle, attempt, filled, cycleCount, switches>>

(* A queued stop move: the old stops go first, then the new one is placed.   *)
CancelOldStop(k) ==
    /\ pc = "moves"
    /\ k \in moves
    /\ moves' = moves \ {k}
    /\ target' = k
    /\ CancelStops({k})
    /\ pc' = "move"
    /\ UNCHANGED <<pos, working, table, positions, todo, orphans, caller, verdict,
                   closedThisCycle, attempt, filled, cycleCount, switches>>

PlaceMovedStop ==
    /\ pc = "move"
    /\ StopAccepted(target, "breakeven") \/ StopRaised(target, "breakeven")
    /\ pc' = "moves"
    /\ target' = NoKey
    /\ UNCHANGED <<pos, working, table, positions, todo, orphans, caller, verdict,
                   moves, closedThisCycle, attempt, filled, cycleCount, switches>>

Monitor ==
    \/ CheckPositions \/ Settle \/ SettleRaises \/ EmergencyRaises \/ CloseLoopDone
    \/ \E k \in Keys : CancelOldStop(k)
    \/ PlaceMovedStop

-----------------------------------------------------------------------------
(* Steps 8 to 10: at most one new position, and none after a close, at the   *)
(* limit, or on a symbol that the cycle's position list already shows.       *)

(* Variant: only the same side counts as held.                               *)
MayEnterOtherSide(k) ==
    /\ ~closedThisCycle
    /\ Cardinality(positions) < MaxPositions
    /\ k \notin positions

MayEnter(k) ==
    /\ ~closedThisCycle
    /\ Cardinality(positions) < MaxPositions
    /\ \A p \in positions : Symbol(p) # Symbol(k)

(* Any of the permitted keys may have a signal that passes every filter.     *)
GatherSignals ==
    /\ pc = "moves"
    /\ moves = {}
    /\ todo' \in SUBSET {k \in Keys : MayEnter(k)}
    /\ pc' = "open"
    /\ UNCHANGED <<venue, table, positions, orphans, target, caller, verdict, moves,
                   closedThisCycle, attempt, filled, cycleCount, switches>>

TakeSignal(k) ==
    /\ pc = "open"
    /\ k \in todo
    /\ target' = k
    /\ attempt' = 0 /\ filled' = FALSE
    /\ pc' = "entry"
    /\ UNCHANGED <<venue, table, positions, todo, orphans, caller, verdict, moves,
                   closedThisCycle, cycleCount, switches>>

CycleOver ==
    /\ pc = "open"
    /\ todo = {}
    /\ EndCycle
    /\ UNCHANGED <<venue, table, cycleCount, switches>>

Enter == GatherSignals \/ (\E k \in Keys : TakeSignal(k)) \/ CycleOver

-----------------------------------------------------------------------------
(* The operator's switch, the end of the process, and the whole.             *)

(* watchdog.state is read when a cycle begins, so a change in between shows   *)
(* only then.                                                                *)
Pause ==
    /\ "pause" \in Events
    /\ pc \in {"down", "idle"}
    /\ ~paused /\ paused' = TRUE
    /\ UNCHANGED <<venue, table, pc, memory, cycleCount, breaker, halted>>

Resume ==
    /\ pc \in {"down", "idle"}
    /\ paused /\ paused' = FALSE
    /\ UNCHANGED <<venue, table, pc, memory, cycleCount, breaker, halted>>

(* The time of a halt has passed.                                            *)
CooldownOver ==
    /\ halted = "timed" /\ halted' = "over"
    /\ UNCHANGED <<venue, table, pc, memory, cycleCount, breaker, paused>>

(* SIGTERM is honoured between cycles: shutdown_sequence.                    *)
Shutdown ==
    /\ pc = "idle"
    /\ "sigterm" \in Events
    /\ caller' = "shutdown"
    /\ pc' = "cancelEntries"
    /\ UNCHANGED <<venue, table, positions, todo, orphans, target, verdict, moves,
                   closedThisCycle, attempt, filled, cycleCount, switches>>

Crash ==
    /\ "crash" \in Faults
    /\ pc # "down"
    /\ pc' = "down"
    /\ Blank
    /\ UNCHANGED <<venue, table, cycleCount, switches>>

ExecutorStep ==
    /\ ClosePosition \/ CancelEntries \/ CancelAllStops \/ Execute \/ EnsureStops
    /\ UNCHANGED <<cycleCount, switches>>

BotStep ==
    StartUp \/ HeadOfCycle \/ Reconcile \/ Monitor \/ Enter \/ ExecutorStep

VenueStep ==
    /\ VenueMoves
    /\ UNCHANGED <<table, pc, memory, cycleCount, switches>>

Next == BotStep \/ VenueStep \/ Pause \/ Resume \/ CooldownOver \/ Shutdown \/ Crash

Spec == Init /\ [][Next]_vars

(* The loop in main() runs one cycle after another and survives exceptions,  *)
(* so the task always goes on.  A reconciliation that is tried again and     *)
(* again reads the account in the end, and a stop that ensure_sl_orders      *)
(* keeps asking for is accepted in the end.                                  *)
AccountSeen == Reconcile /\ rows' = SyncedRows(pos)

StopGranted(k) ==
    /\ EnsureStop(k)
    /\ stops'[k] # stops[k]
    /\ UNCHANGED <<cycleCount, switches>>

FairSpec ==
    /\ Spec
    /\ WF_vars(BotStep)
    /\ SF_vars(AccountSeen)
    /\ \A k \in Keys : SF_vars(StopGranted(k))

-----------------------------------------------------------------------------
(* Safety.                                                                   *)

(* The trades table never holds two OPEN rows for one symbol and side,       *)
(* whichever of execute, the start-up and the periodic reconciliation wrote  *)
(* the row ("prevent duplicate OPEN records per symbol").                    *)
OneOpenRowPerKey == \A k \in Keys : rows[k] <= 1

(* The venue never holds more positions than max_concurrent_positions,       *)
(* although the limit is checked on a list read earlier in the cycle.        *)
PositionCap == Cardinality(pos) <= MaxPositions

(* The bot never holds both sides of a symbol: it enters only symbols that   *)
(* the position list of the cycle does not show.                             *)
NeverHedged == \A k, j \in pos : Symbol(k) = Symbol(j) => k = j

(* No OPEN row is closed while its position is still open on the venue: a    *)
(* position the table calls CLOSED is neither monitored nor given a stop.    *)
NoBlindClose ==
    [][\A k \in Keys : rows[k] > 0 /\ rows'[k] = 0 => k \notin pos]_vars

(* Between cycles every recorded position has a stop on the venue, whatever  *)
(* step a crash or a stop of the process interrupted before.                 *)
ProtectedAtRest == pc = "idle" => pos \cap Tracked \subseteq Stopped

(* A position whose row says breakeven has no stop left at its entry level   *)
(* once the cycle that moved the stop is over.                               *)
BreakevenHonoured ==
    pc = "idle" =>
        \A k \in pos \cap Tracked : level[k] = "breakeven" => stops[k]["initial"] = 0

(* When the start-up reconciliation gives out stops, every position the      *)
(* venue holds has its row, whatever a previous process left behind.         *)
StartupAdopts == pc = "ensure" /\ caller = "startup" => pos \subseteq Tracked

(* How the venue's positions and the trades table show a position's life.      *)
Phase ==
    [k \in Keys |-> IF k \notin pos THEN "flat"
                    ELSE IF k \in Tracked THEN "managed" ELSE "open"]

Book == INSTANCE PositionBook WITH phase <- Phase

(* Whatever the venue, the crashes and the reconciliations do in between, the   *)
(* code lets a position live as PositionBook says: entered one at a time below  *)
(* the limit on a symbol that is free, and under management until its end.      *)
LivesAsPromised == Book!Spec

-----------------------------------------------------------------------------
(* Liveness, while the bot is neither paused nor halted.                     *)

Standing == breaker \/ halted # "none" \/ paused

(* A position without a row is put back under management.                    *)
OrphanAdopted ==
    \A k \in Keys : k \in pos \ Tracked ~> k \notin pos \/ k \in Tracked \/ Standing

(* A row without a position is closed.                                       *)
GhostCleared ==
    \A k \in Keys : k \in Tracked \ pos ~> k \in pos \/ k \notin Tracked \/ Standing

(* A recorded position that lost its stop, or never got one, gets one.       *)
StopRestored ==
    \A k \in Keys : k \in (pos \cap Tracked) \ Stopped
                      ~> k \notin pos \/ k \notin Tracked \/ k \in Stopped \/ Standing
=============================================================================
