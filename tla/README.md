# Crypto Beast: TLA+ models and proofs

Crypto Beast is a trading bot for Binance USDT-M futures in hedge mode
(`crypto_system.py`), kept alive by a watchdog daemon (`crypto_guardian.py`). The bot
runs one asyncio task that, every five seconds, reads the account, closes what is due,
repairs what is missing and opens at most one position. Its hard part is that the same
fact, "this position is open and has a stop", lives in three places that change
independently: on the exchange, in the trades table, and in the lists the cycle read a
few awaits ago. The watchdog has a hard part of its own: several threads restart the
same child process without a lock, and the two processes write one file under two
protocols. A third part is easy to run and hard to see through: the chain of filters and
sizes that a signal passes before it becomes an order. These modules are about those.

## 1. The system

| Component | State it keeps | Operations | Hard behaviour |
|---|---|---|---|
| Live executor (`execution/executor.py`) | none of its own; writes `trades` | execute, close_position, cancel_algo_orders, cancel_all_pending, ensure_sl_orders, account reads | lost replies, stale status queries, an error answered with an empty list, a stop cancelled before its replacement is placed |
| Trading cycle (`crypto_system.py`) | cycle count, breaker flag, peaks | reconcile_with_exchange, run_trading_cycle, _emergency_close, _close_symbol_by_watchdog, shutdown_sequence | decisions on a position list read many awaits earlier; exceptions end a cycle anywhere |
| Position manager (`execution/position_manager.py`) | queued stop moves, peak profits | check_positions, close_trade_live, process_pending_sl_updates | the row says breakeven before the exchange does |
| Defense manager (`defense/defense_manager.py`) | halt and cooldown, in shield.state | check, is_in_cooldown, reset | halt persisted before "already notified" is set |
| Risk sizing (`defense/risk_manager.py`, `evolution/compound_engine.py`) | rest, grace and cached scale; locked profit; all in memory | validate, get_scale_factor, get_kelly_fraction | limits checked on guesses, sizes changed after they were capped |
| Signals (`strategy/strategy_engine.py`, `defense/anti_trap.py`, `analysis/session_trader.py`) | none that lasts | generate_signals, is_trap | what one symbol's regime tightens stays for the next |
| Fee budget (`defense/fee_optimizer.py`) | the day's fees, in memory | is_within_budget, record_fee | forgotten by a restart |
| Rate limiter (`core/rate_limiter.py`) | two sliding windows | acquire_data_slot, acquire_order_slot | wait at the window's boundary |
| Watchdog (`crypto_guardian.py`, `watchdog_event_router.py`) | child process, restart times, Claude lock | heartbeat, restart_bot, escalate_to_claude, run_review | heartbeat, log, Telegram and escalation threads act on the same fields |
| Mailbox (`watchdog_state.py`, `watchdog_commands.py`) | watchdog.state | update, pop_command, the Telegram commands | two processes write one file under two different protocols |
| Data streams (`data/ws_manager.py`, `user_data_stream.py`, `data_feed.py`) | caches, listen key | reconnect, renew | reconnect and renewal races |
| Indicators, parameter search, monitoring | indicator state | numeric | arithmetic rather than control |

How they interact: the cycle calls the executor and the position manager; both write
the `trades` table, which is the only memory of positions that survives a restart.
The watchdog starts, stops and restarts the bot and talks to it through
`watchdog.state`: `paused` and `command` are read at the head of a cycle. The defense
manager and the breaker can order every position closed. The exchange acts on its own:
stops fire, positions are liquidated or closed by hand, resting orders fill.

What makes each component correct: the executor never leaves a fill without a stop and
a row for good; the cycle closes a row only when its position is gone, respects the
position limit and never holds both sides of a symbol; reconciliation finds orphans and
ghosts; a halt and a pause stop entries across a restart and end when they should; no
order is carried out after a later one; no entry takes the account beyond its limits; a
run of losses does not shut trading down for good; the watchdog keeps one bot alive.
`PROJECT.json` lists the hazards line by line.

## 2. Modules

| Module | What it is |
|---|---|
| `BinanceVenue` | The exchange as the executor sees it: open positions, stop orders, orders still working; requests with their failures, and what the exchange does on its own. External. |
| `LiveExecutor` | `execution/executor.py` over the venue, and the trades table it writes. |
| `TradingCycle` | `crypto_system.py`'s start-up, cycle and shutdown with `PositionManager`, as callers of the executor. `Spec`, `FairSpec` and all properties. |
| `MCTradingCycle` | The instance for TLC: symbols are interchangeable. |
| `TradingCycle_proofs` | Theorems about `TradingCycle`. |
| `StopOrders_proofs` | Theorems about its stop orders, on top of those. |
| `PositionBook` | What the bot promises of a position's life, in one variable and three actions. |
| `PositionBook_proofs` | `TradingCycle` implements `PositionBook`. |
| `EventRouter` | The restart limit of `watchdog_event_router.py`, one statement a step. |
| `WatchdogDaemon` | `crypto_guardian.py` over it: the threads of the daemon and one child process. `Spec`, `FairSpec` and all properties. |
| `MCWatchdogDaemon` | The instance for TLC: processes and workers are interchangeable. |
| `WatchdogDaemon_proofs` | Theorems about `WatchdogDaemon`. |
| `Mailbox` | `watchdog.state` and the two ways it is written (`watchdog_state.py`, `crypto_system.py`). |
| `DefenseManager` | `defense/defense_manager.py` as operators on the manager's state and on `shield.state`. |
| `BotControl` | Composes `Mailbox`, `DefenseManager` and the circuit breaker: what may stop the bot from trading, over crashes and restarts. |
| `MCBotControl`, `BotControl_proofs` | Its instance and its theorems. |
| `StrategyEngine` | From raw signals to the ranked ones a cycle tries; the trap filter. |
| `AdaptiveRisk` | What closed trades say of the next: `AdaptiveRiskState`, the Kelly test. |
| `RiskManager` | `RiskManager.validate` as an operator. |
| `EntrySearch` | Composes the three, with the recovery parameters of `DefenseManager`, into steps 8 to 12 of the cycle. |
| `MCEntrySearch` | The instance for TLC: two symbols and the markets they may show. |
| `EntrySearch_proofs` | Theorems about `EntrySearch`. |
| `FoldLemmas` | What those need of sums over finite sets, and of `Max` and `Min`. |

The systems share no variable. For `TradingCycle` the daemon is what ends the bot and
starts it again (`Crash`, `Start`), for `WatchdogDaemon` the bot is a process that may
end at any time; `BotControl` has what goes between them through the file. Its step
`Trade` is the rest of the cycle, which `TradingCycle` has in full with any filter and
any size, and `EntrySearch` with the code's filters and sizes and a venue that fills or
does not.

### How `TradingCycle` corresponds to the code

A *key* is a symbol and a side (hedge mode holds LONG and SHORT apart). `pos`, `stops`
and `working` are the exchange's; `rows[k]` counts OPEN rows of a key and `level[k]` is
its `stop_loss` column, reduced to *none*, *initial* or *breakeven*. `positions` is the
list `get_positions_and_account` returned in step 3 of the cycle, which the code goes on
using until the entry. `todo` is the rest of whatever list the running loop works
through, `caller` says whose loop it is, `verdict` is the last `close_position` result
and `moves` is `_pending_sl_updates`.

`pc` is the place in the code. A label stands for the code from one await to the next:
within that stretch nothing else can run, so it is one step, and between two steps the
exchange may move, the operator may write `watchdog.state` and the process may die.
A request to the exchange takes effect at one instant, when it reaches the exchange;
whether its answer arrives is chosen in the same step.

| Labels | Code |
|---|---|
| `down`, `stale`, `staleStops`, `tidy` | start-up, `reconcile_with_exchange` |
| `query`, `ensure` | `ensure_sl_orders`, at start-up and in step 6.6 |
| `idle`, `account`, `tripped`, `guard` | head of the cycle, breaker, defense |
| `sync` | step 6.5, the periodic reconciliation |
| `check`, `close`, `cancel`, `settle` | step 7 and every other caller of `close_position` |
| `moves`, `move` | `process_pending_sl_updates` |
| `open`, `entry`, `ladder`, `protect`, `record` | steps 8 to 10 and `execute` |
| `cancelEntries`, `cancelAll` | `cancel_all_pending`, in `_emergency_close` and `shutdown_sequence` |

A write to the trades table that closes a row may raise (the fault `database`). Where
the exception goes depends on the caller: `close_trade_live` answers *False* and step 7
goes on, the handler around the mailbox ends the command, and of the breaker the handler
of the failed account read lets the cycle go on (`SettleRaises`); behind the defense
check, or when the fallback's own queries raise, the cycle ends (`EmergencyRaises`).
`halted` is *none*, *timed* (a cooldown runs), *over* (it has passed, `CooldownOver`) or
*endless*, which nothing in the code lifts; `GuardPasses` is possible for *none* and
*over* only. What a cancellation of entry orders reaches depends on the list of symbols
each caller has (`CancelEntries`, `CancelStaleEntries`): any part of the book may stay.

`Faults` switches the failures of the exchange on one by one, `Events` what the outside
world may do; a run names both, so the assumption behind each result is in its `.cfg`.

### How `WatchdogDaemon` corresponds to the code

A thread is the heartbeat (`run`'s loop), the log monitor's thread, or a worker started
for an escalation, a review, an approved change or a rollback. `at[t]` is where it
blocks: in `wait(timeout=30)` (`join`), before `start_bot`'s two seconds (`start`), in a
message or a file write. Between two such places a thread is one step, with one
exception: `record_restart` and `restart_limit_exceeded` work on a list that every check
replaces, without a lock and without blocking, so there a step ends between two bytecodes
that matter. Everywhere else any thread may come in between. `held` is `_bot_process`,
`alive` the processes that run, so a bot that is alive and not held is one no `stop_bot`
can reach; `joined[t]` is the process whose `wait()` a thread is in, since the object it
waits on is not the one `_bot_process` names by then. `lock` is `_claude_lock` with its
age, `seen[w]` the call count a worker read.

In `EventRouter` a list is an object: `current` is the one `_restart_times` names,
`content` what each object holds, `bound[t]` the one a thread has evaluated
`_restart_times` to, `kept[t]` the result of its comprehension. A record is one restart,
not a count, so that `restarted`, the only history variable, can say which restarts of
the window have started a bot. It outlives the daemon; the lists do not.

| Labels | Code |
|---|---|
| `restart`, `append` | `restart_bot` up to `record_restart`, and its two halves: the list is evaluated, then appended to |
| `limit`, `filter`, `rebind`, `check` | `restart_limit_exceeded`: list evaluated, comprehension, assignment, comparison |
| `stop`, `join` | `stop_bot`; `goal[t]` says for whom |
| `start`, `terminal` | the two ends of `restart_bot` |
| `idle`, `ack`, `status`, `exit` | the heartbeat: command, acknowledgement, status check, shutdown |
| `budget`, `lock`, `acquire`, `session`, `count`, `failed`, `release` | `escalate_to_claude`, `run_review`, `_apply_approved_changes`, `_run_rollback` |

`kill()` on a `None` process throws the thread out of `stop_bot`: the heartbeat's loop
and the log monitor catch it, a worker releases the Claude lock in its `finally`
(`KillRaises`), and in the last `stop_bot`, behind the loop, it ends the daemon
(`LastKillRaises`).

`Sources` names what may happen in a run: /restart, /stopall, signals, the daemon's
death, disk errors in the log, escalations, reviews and changes.

### How `BotControl` corresponds to the code

`file` is what a reader of `watchdog.state` finds. The daemon works on it in two steps,
the read (`ReadState`) and the replacement of the file (`ReplaceState`), under the lock
of its own threads; `lock` is the operation under way with what it has read. The bot
opens the file, keeps it open over the awaits of an order, and rewrites it in place:
`handle` says whether the file it has open is still the one at the path. What it writes
to an old one is lost; between its truncation and its flush a reader finds no JSON
(`torn`). A cycle that finds no command closes the file as it was (`NoCommand`). The bot's `flock` keeps out nobody but the bot, so it does not appear. An order
is an index into `orders`, the log of what was acknowledged to the operator; `begun` and
`told` are history.

| Labels | Code |
|---|---|
| `idle`, `order`, `truncate`, `flush` | the head of the cycle: pause and command |
| `account`, `breaker`, `mark`, `stamp`, `stamped` | step 3, the breaker and `_write_watchdog_state_safe` |
| `guard`, `close` | steps 4 and 5, `DefenseManager.check` and `is_in_cooldown` |
| `trade` | the rest of the cycle |

`DefenseManager` has no variables: it gives the next state of the manager and of the
file, since the bot holds one copy and `shield.state` another. A cooldown is counted in
ticks that are left; a tick passes for both copies, also while no bot runs.

### How `EntrySearch` corresponds to the code

A search awaits nothing until it sends an order, so a symbol that is looked at is one
step: `Look` goes from the ranked signals over the filters to the first signal that
`Validate` accepts, `Execute` and `Drop` are the two ways an order ends, and `TryRest`
goes on with the signals behind a dropped one. `recovery_params` lives as long as the
cycle: `params` carries what one symbol's regime has tightened to the symbols after it.
`closed` is the log of closed trades, from which `Performance` and `KellyAllows` are
computed; `week` says how many of them are young enough for Kelly. `adaptive` is
`AdaptiveRiskState`: what is left of a rest and of the grace after it, and the cached
scale. `Hour`, `Minute` and `Day` let those ages pass, `Restart` forgets them, and
`PnlCorrected` lets the reconciliation at start-up change what a trade has made.

The tables (regime and session weights, strategies that fit a regime, least notionals,
correlated symbols, recovery parameters) are the code's, value by value.

### What is abstracted

Prices, quantities, fees and P&L: any row may be due for closing at any check, and any
subset of the permitted keys may have a signal that passes every filter. Partial fills
count as fills. A plan has its first tranche and at most one resting limit tranche. A
close or a stop takes the whole position. Deleting several stops of a key is one step;
any subset may survive if deletions can fail. Time is a choice: a halt's cooldown may turn out to
be over, and the reconciliation period is a small constant instead of 12. Of the
writes to the table only those that close a row may fail; the paper executor and the
leverage setting are left out, and so is the flip branch: below the limit held symbols are skipped, at the limit `RiskManager` rejects
every signal, so no signal for a held symbol gets that far.

In `BotControl` a position is open or not, a day's loss has reached its limit or not, and
the drawdown is beyond its limit or not; the two close orders are one kind, the orders
that only the daemon carries out another. The daemon's other writes (`touch`) keep the
paused flag and the command as they read them.

In `EntrySearch` money is in cents, confidence in percent and distances in basis points,
and every division rounds down; a trade's result is one of two numbers. Indicators,
patterns, regimes, timeframes and sensors are inputs: `Markets` lists what a symbol may
show. The day's fee budget may refuse any order.

In `WatchdogDaemon` a running bot may look frozen at any beat, a recorded restart may
leave the window at any moment but not while its own thread is busy with it, and a Claude
session may end in any of its ways. Preflight checks succeed, the cooldown table of
errors, network retries, events and reports are left out, and so is the SHUTDOWN
command, which nothing in the repository sends. The process object's `terminate` and the
first instant of `wait` are one step; so are `Popen` and the status it writes.

## 3. Runs

The `cycle_` runs check `MCTradingCycle`, the `watchdog_` runs `MCWatchdogDaemon`, the
`control` runs `MCBotControl`, the `entry` runs `MCEntrySearch`.

| Run | Bounds | Faults, events | Question and answer |
|---|---|---|---|
| `cycle_safety` | 2 symbols, 2 sides, limit 2, 2 attempts | status, unfilled, algoQuery, algoCancel, crash; breakeven, SIGTERM | `ProtectedAtRest`: between cycles every recorded position has its stop. `StartupAdopts`: after start-up no position is without a row. `NoBlindClose`: no row is closed while its position is open. They hold, with a crash possible at every await. |
| `cycle_limits` | 3 symbols, 2 sides, limit 2 | crash | `PositionCap` and `NeverHedged` on a list that is stale when the order goes out, and `LivesAsPromised`: venue, rows and cycle together implement `PositionBook`. They hold. |
| `cycle_liveness` | 1 key, 2 attempts | account, order, reply, ack, rest, unfilled, status, algo, database; every event | `OrphanAdopted`, `GhostCleared` and `StopRestored`, under fairness, and the safety properties `BreakevenHonoured` and `OneOpenRowPerKey`. They hold, also with account reads that fail. |
| `cycle_blind_close` | 1 key | account | `NoBlindClose` is violated: one failed account read. |
| `watchdog_threads` | 2 workers, 2 processes, limit 1 | escalations, reviews, changes, the daemon's death | `LockHasOwner`: a Claude lock that is taken has a worker that is still to release it, also after a takeover, and after `kill()` on a `None` process has thrown a worker out of `restart_bot`. It holds. |
| `watchdog_comeback` | heartbeat and log thread, 2 processes, limit 2 | /restart, /stopall, signals, disk errors, the daemon's death | `BotComesBack`, under fairness. It holds. |
| `watchdog_two_bots` | limit 3 | disk errors | `OneBot` is violated: two threads start a bot each. |
| `watchdog_storm` | limit 3 | /restart, the daemon's death | `NoRestartStorm` is violated: four restarts in a window, two of each daemon. |
| `control` | 2 orders, 1 crash and any number of RESTARTs, cooldown of 1 tick | account, raise, loss, drawdown | `HaltHolds`: no cycle trades during a halt, whichever process runs it. `PausedStaysPaused`: no cycle begins between an acknowledged /pause and the next /resume. `OrdersInOrder`: no order is taken up after a later one. `EmergencyNeedsReset`: an emergency halt never becomes one that ends. `HaltLifts`, under fairness: a halt for a day's loss ends. They hold. |
| `control_lost_order` | 1 order | none | `NoOrderLost` is violated: the heartbeat pops what only the bot can carry out. |
| `entry` | 2 symbols, 3 markets, 2 positions, 1 closed trade, rest of 1 tick, 600 USDT | restart, corrected results | `SameSideExposure`: no entry takes a side beyond its limit. `RestEnds`, under fairness: a rest imposed by lost trades ends. They hold. |
| `entry_margin` | the same, rest of 2 ticks | the same | `PositionMargin` is violated: 40% of the equity is not the cap. |

**Why the bounds are enough.** The limit and the one-side rule need one more key than
the limit allows, a second side and a symbol of the cycle's own, hence three symbols
with limit 2. One symbol and side affects another only through the limit, the shared
symbol and the shared task, so two symbols with two sides show every pair. One stop per
key at a time is what the code means to keep; the bound `MaxStops` = 1 also makes the
exchange refuse a second one, which is how a duplicate looks to the code. `SyncPeriod`
= 2 has cycles with and without reconciliation next to each other. Two attempts show
both a retry and a last attempt (the code has three). `rows` has no bound: that it
stays at most 1 is the result.
The liveness properties are about one key each, and so is a second row, hence one key
there with nearly every fault and event at once; what one key does to another is the
question of the first two runs.
For the daemon, two processes are the bot and one it lost; every run has the heartbeat
and the log thread, and as many workers as its question needs: two for the Claude lock,
which one may take over from the other, none for the restart itself. `MaxRecent` bounds
the records of one window: with one more than the limit a restart beyond it fits in, and
in the other runs a thread that finds no free record waits until one has left the window.
In `watchdog_threads` limit and bound are 1, so every restart ends in the terminal state,
which is where a worker stops the bot without starting one; that is enough to let one
thread set `_bot_process` to `None` under another's wait.
For the file, two orders show an old one coming back and a new one overwritten, and one
crash at each place is enough to leave each half-done write; the daemon's RESTART ends
the bot as often as it likes. One wallet value suffices, since the breaker compares with
a peak and a failed read answers 0; one tick separates a cooldown that runs from one that
is over.
For the search, two correlated symbols are the smallest portfolio in which the penalty,
the shared limits and the tightened parameters of the symbol before matter. Each of the
three markets passes or fails for a reason of its own: the vote that lifts the leverage
to the top, with a pattern behind it that promises less than the fees; a market in
transition that a sensor makes too weak; one that the higher timeframes and the trap
filter refuse. `MaxLog` 1 with losing runs of length 1 makes the win rate and the run
depend on the same trade, and the rest of one tick lets a cache, a rest and a grace
overlap with a restart. The equity lets entries use one tranche only for sure signals;
the slower ladder and short entries do not get through the filters in this instance.
`MaxDirectional` is 12 instead of 15, the least value that the theorem `ExposureLimited`
covers: a size that is not capped (the variant `SizedUncapped`) passes it here, since one
market has a stop so close that the risk alone would ask for more than the capital.

**Fairness.** `main` runs cycles in a loop that survives exceptions, and the watchdog
starts a process that died, so the task is never stuck: `WF_vars(BotStep)`. Nothing is
assumed about the exchange, crashes, signals, the operator or which entries happen,
except that the account is seen in the end by a reconciliation that is tried again and
again, `SF_vars(AccountSeen)`, and that a stop `ensure_sl_orders` asks for again and again
is granted in the end, `SF_vars(StopGranted(k))`; without them the exchange may refuse for
ever and no code can help. Liveness is claimed only while the bot is not paused, halted or tripped
(`Standing`), since then cycles return early. In the daemon every thread that has
something to do goes on (`WF_vars(ThreadStep(t))`: no thread waits for another, waits are
bounded by timeouts), launchd starts a daemon that ended (`KeepAlive` in the plist), and
restarts leave the window. Nothing is assumed about the bot, the log, the operator or
the daemon's death. In `BotControl` the bot is started, its loop goes on, cooldowns run
and midnight comes; the operator, crashes and faults are free. In `EntrySearch` hours
pass, signals keep coming, and the process is not restarted for ever: a new process whose
grace is over before its first signal judges the same trades at once, so restarts that
always fall so would renew the rest each time.

**What the violations say.**
`cycle_blind_close`: `get_positions_and_account` answers an error with an empty list
and zeros (`execution/executor.py:460-462`). Its callers cannot tell that from an
account without positions. Step 6.5, which was added to prevent exactly "DB says CLOSED
but exchange still open", then closes every row, and `close_trade_live`'s "if we can't
verify, don't mark CLOSED" branch is never taken because nothing raises. The next good
reconciliation puts the rows back as `reconciled`, with default stops.
`watchdog_two_bots`: the heartbeat finds the bot frozen and waits for it to stop. The
dying bot logs a disk I/O error and the log thread restarts as well. Each thread stops
what `_bot_process` names, sleeps, and starts a bot. The first of the two is held by
nobody: it goes on trading on the same account, and only a later disk I/O error or a
restart of the daemon looks for duplicates.
`watchdog_storm`: the limit is meant to stop a storm, but the times of the restarts are
only in memory: a daemon that died has forgotten them.
`control_lost_order`: `run_heartbeat` pops every command, `_handle_command` knows
neither CLOSE nor CLOSEALL. Which of the two processes looks first decides whether the
acknowledged order is carried out.
`entry_margin`: `validate` caps the capital of a position at 40% of the equity and sizes
the position for its own leverage. The cycle then lowers the leverage to the cap of the
recovery state or the regime and leaves the quantity, so the same notional ties up more;
the adaptive scale of 1.3 comes after the cap as well.

Other disagreements with the documents or comments have no run of their own.

- In the models, another source or invariant in a `.cfg` shows them. With the daemon's
  death in place of disk errors, `OneBot` fails since `kill_zombie_processes` kills none of
  one process (`watchdog_event_router.py:124`): the bot of a dead daemon goes on, and the
  next daemon starts a second. With disk errors alone, `NoRestartStorm` fails since
  `append` evaluates the list before `time.time()` is called: if a check replaces the list
  in between, the record is lost and one more restart goes through. With /stopall and disk
  errors, `StopsEverything` fails, against README line 154 ("停止一切"): `_shutting_down` is
  looked at when `restart_bot` begins, so a log thread in its two seconds starts a bot
  after the last `stop_bot` (`crypto_guardian.py:832`). And in `TradingCycle` with
  the fault `database` a cycle may reach `entry` with the breaker tripped, although "Stay
  halted until user manually /resume" (`crypto_system.py:719`): everything from the account
  read to the breaker's pause is in one `try`, whose handler is written for a failed read
  (line 722), so an exception of `_emergency_close` leaves the rest of the positions open
  and nothing paused, and only the next cycle stops at the flag.
- For others no sequence of steps is needed: README line 233 promises that stop orders
  outlive every program, and an orderly shutdown deletes them with the pending orders
  (`crypto_system.py:1474`, action `Shutdown`); README line 150 says that a pause only stops
  new entries, and a paused cycle returns before it monitors anything
  (`crypto_system.py:562`, action `PausedCycle`); with `watchdog_max_restarts` 3 and one
  daemon two restarts go through in ten minutes, not three (`docs/策略详解.md` line 721),
  because the restart being checked is already counted; and exceeding the limit stops the
  bot and sends a message but calls no Claude (line 724).

## 4. Proofs

`TradingCycle_proofs` proves, for every set of symbols and sides and every value of the
other constants:

| Theorem | States | Assumes |
|---|---|---|
| `TypeCorrect` | `Spec => []TypeOK` | the named assumptions on the constants |
| `NoDuplicateRows` | `Spec => []OneOpenRowPerKey` | nothing more: all faults and events |
| `LimitRespected` | `Spec => []PositionCap` | `PromptVenue`, `TrustedList` |
| `OneSidePerSymbol` | `Spec => []NeverHedged` | `PromptVenue`, `TrustedList` |
| `StartupLeavesNoOrphan` | `Spec => []StartupAdopts` | `PromptVenue`, `TrustedList` |
| `NoRowClosedBlindly` | `Spec => NoBlindClose` | `PromptVenue`, `HonestAccount` |

`PromptVenue` says that no entry is executed without the executor's knowledge: no lost
reply, no acknowledgement ahead of the fill, no order left resting, no limit tranche.
`TrustedList` says that account reads and writes to the table do not both fail: after a
read that failed the positions come from the table, and an UPDATE of the breaker that then
raises sends the cycle on to its entries with that list.
`HonestAccount` says that account reads do not fail and `/close` is not used; without
the first the run `cycle_blind_close` refutes the property, and `/close` closes the rows
of both sides on `already_closed`.

The argument. Typing (`Typed`) is inductive with one addition: while a key is being
worked on, `target` names a key. Duplicate rows need nothing else, since every insert
tests for a row in the same step.
The limit and the one-side rule are not inductive, since they say nothing of the list
the decision was made on. `SnapshotInv` supplies it: from the account read to the entry
the venue's positions are among those of the list (`FreshList`; the exchange can only
take positions away), nothing is on the book (`QuietBook`), the loop's owner is known
where it matters (`CallerKnown`), and every key still to be tried was permitted against
that list (`Permitted`). The entry step then adds one key to a subset of a list below
the limit, and ends the trying. `AdoptInv` carries the start-up's list to the insert,
and `GoneInv` records that a close with the verdict *success* or *already_closed* left
the position gone, which is what the rows are closed on.

`WatchdogDaemon_proofs` proves, for any number of processes and workers and any limits:

| Theorem | States | Assumes |
|---|---|---|
| `DaemonTypeCorrect` | `Spec => []TypeOK` | the named assumptions on the constants |
| `OneBotAlone` | `Spec => []OneBot` | `HeartbeatAlone` |
| `AloneStopsEverything` | `Spec => StopsEverything` | `HeartbeatAlone` |
| `RestartLimit` | `Spec => []RestartsLimited` | `OneLife` |
| `LockIsGivenBack` | `Spec => []LockHasOwner` | nothing more: all sources |

`HeartbeatAlone` excludes disk errors, escalations, changes and the daemon's death,
`OneLife` signals and /stopall as well, after which the next daemon counts from zero. The
assumptions are needed: `watchdog_two_bots`, `watchdog_storm` and the variations of them in
section 3 refute the properties with one more source. `RestartsLimited` and
`StopsEverything` were checked with TLC under the same assumptions before they were
proved, and have no run of their own: the theorems say more.

The argument. `OneBotAlone` needs that no other thread is in `restart_bot` and that the
one bot is the one held, waited for and gone when `stop_bot` ends (`Alone`); the daemon's
end is then a step at which no bot is left. For the limit, `restarted` must be compared
with what the list will say when it is counted next. The invariant says where every
record of the window is, statement by statement: in the list `_restart_times` names, and
while a check is between its comprehension and its assignment also in what it has kept;
so the number that is compared with the limit is that of all the restarts of the window
with the one being checked, and a restart goes on only if they are fewer. `LockHasOwner`
is strengthened to the worker's place: only labels between taking the lock and the
`finally` count, and an exception of `stop_bot` leads there.

`PositionBook_proofs` proves `CycleImplementsBook`: with `PromptVenue` and
`HonestAccount`, `Spec => LivesAsPromised`, that is, every step of the venue, the trades
table and the cycle is one step of the book or a stutter. A position is *flat*, *open* or
*managed* according to the venue and the rows; the venue changes by one position at a
time and never in the same step as the rows, so a step is `Enter` (the entry below the
limit, from the invariants of `TradingCycle_proofs`), `End`, or `Manage` for the set of
positions that got their rows.

`BotControl_proofs` proves, for any wallets and bounds:

| Theorem | States | Assumes |
|---|---|---|
| `ControlTypeCorrect` | `Spec => []TypeOK` | the named assumptions on the constants |
| `HaltsHold` | `Spec => []HaltHolds` | nothing more: all faults |
| `EmergencyStays` | `Spec => EmergencyNeedsReset` | nothing more |
| `OrdersKeepOrder` | `Spec => OrdersInOrder` | nothing more |
| `PauseHolds` | `Spec => PausedStaysPaused` | `"stamp" \notin Faults` |

The argument. A halt is decided in memory and kept in the file: `CopyInv` says that
while the file holds a halt that is not over, a running bot holds the same one. Pauses
and orders need to know what each writer's copy of the file is worth. `PauseInv`: while a
pause is acknowledged, everything the daemon has read and not yet replaced is paused, and
the bot has the current file open only for the breaker's mark, which is a pause itself.
`OrderInv`: whatever may still become the command in the file (the file, the daemon's
copy, the bot's copy while its file is the current one) is no older than the last order
taken up. `"stamp"` lets the bot die between the truncation and the flush of the
breaker's mark: the torn file then stops nothing and a cycle begins.

`StopOrders_proofs` proves, for every set of symbols and sides and every bound:

| Theorem | States | Assumes |
|---|---|---|
| `RestIsProtected` | `Spec => []ProtectedAtRest` | `PromptVenue`, `NoEmergency` |
| `MovedStopsStay` | `Spec => []BreakevenHonoured` | `CancelsWork` |

`NoEmergency` says that requests for a stop and account reads do not fail, and that
neither the breaker nor the defense manager nor `/closeall` orders every position closed:
`_emergency_close` cancels all stops before it closes, so a close that then fails leaves a
position bare until a later `ensure_sl_orders`, which a halted or paused bot does not
reach. Closes, cancellations and queries may fail, and the process may crash or be
stopped anywhere. `CancelsWork` says that a deletion deletes what it names and that the
process does not die between the row and the stop; orders, stops and account reads may
fail and every event may happen.

The argument. Neither property says anything while a cycle runs, so each is strengthened
to every label. `CoverInv` names the positions that may lack a stop at a label: in the
cycle none, in `ensure_sl_orders` those it has not come to yet, during a move or after an
entry the one key the task works on; and the stops that are about to be deleted as
orphans belong to no recorded position, which uses the list of the same step. Only the
start of a process knows nothing, and its query makes the list new. `MoveInv` says the
same of levels: a stop at the entry level of a row that says breakeven is queued in
`_pending_sl_updates`, or belongs to an entry that rewrites the row in its next step; and
the queue is not left behind by its cycle.

`EntrySearch_proofs` proves, for any symbols, markets, equities, milestones, logs and
parameters of the adaptive risk:

| Theorem | States | Assumes |
|---|---|---|
| `EntryTypeCorrect` | `Spec => []TypeOK` | the named assumptions on the constants |
| `ExposureLimited` | `Spec => SameSideExposure` | `EnoughRoom` |

`EnoughRoom` says that `MaxDirectional` is at least 12 and `MaxConcurrent` at most 28; the
code has 15 and 3 (`config.py:21` and 25).

The argument. `_check_directional_exposure` lets a position through on a guess of its
size, so it cannot be what keeps the limit, and the proof does not use it. What keeps it
is money. A position's notional is at most ten times its margin and 9 cents for rounding
(`PositionMargins`), so the positions a cycle has read have at most ten times the margin
in use. A new order is at most 4 times the equity and 9.5 times what those margins leave
of it (`OrderBounds`), the adaptive scale makes that 5.2 and 12.35 (`Affordable`), and
tranches and jitter add at most a tenth of the order (`FilledBound`). Whatever part of the
equity the margins take, old and new together stay below 11.51 times the equity and 9
cents for every position (`EntryWithinLimit`), and no order comes about with an equity
below 5 USDT. `EntryInv` carries it over the steps: as long as anything is left to try, the
list the cycle has read contains every open position, since positions can only close
while the order is under way, and an order that is being sent is affordable for that
list. `TypeOK` is needed in full, because a bound is about numbers; it is inductive.

`UsedMargin` and `Notional` are the community modules' folds over a set, recursive
functions in a `CHOOSE`. `FoldLemmas` proves what is needed of them. The library's
induction over finite sets takes an operator, which the provers cannot instantiate, so
`SetInduction` states it for the set of those subsets that have the property; from it
follow that a fold exists and is unique, and what a sum does when an element is taken out
or the summands grow. The model's ranked signals are a set with ranks rather than a
sorted sequence for the same reason.

TLC only: liveness and the fairness it rests on (`OrphanAdopted`, `GhostCleared`,
`StopRestored`, `BotComesBack`, `HaltLifts`, `RestEnds`), which are out of the prover's
reach. Every other property of a passing run is stated by a theorem. The type theorems
say that the invariants the others rest on are about the states the modules mean; no run
asks for them. Of the properties of the violated runs, two hold under a theorem's assumptions
(`NoRowClosedBlindly`, `OneBotAlone`), `NoRestartStorm` follows from `RestartsLimited`
under those of `RestartLimit`, and `NoOrderLost` and `PositionMargin` have no theorem.

## 5. Not modelled

The components of `PROJECT.json` marked `not_modelled`, each with its reason, and of the
others:

- Indicators, regimes, patterns and sensors are arithmetic on price frames: they choose
  which signal appears, which `GatherSignals` leaves open and `Markets` lists.
- The paper executor fills at once and never fails, so none of the hazards exist there.
- The rate limiter holds one asyncio lock over its wait: callers are sequential, and what
  it may count wrongly is one stamp at the window's boundary.
- The scheduler's jobs (reports, backups, parameter search, rescan of the altcoins) run in
  a task of their own, between the cycle's awaits. Of what they change, the reset of the
  day's loss is modelled; the list of symbols is a constant here; and the weights they set
  are overwritten by the next `generate_signals`, for every strategy it runs.
- The flip of a held symbol cannot be reached: below the limit held symbols are skipped,
  and at the limit `validate` refuses every signal, although `docs/策略详解.md` (lines
  408 to 415) describes it.
- `DefenseManager.reset` has no caller; `/resetpeak` rewrites the stored
  peak of the wallet for the next process and is left out.
- Approvals, directives and queries of the mailbox, Telegram, the dashboard, the socket
  and the scripts are input and output. Two things about them are listed as hazards
  without a model: approvals are read and written back under separate locks, and the last
  Telegram update seen is only in memory.
- The faults `close` and `stamp` of `BotControl` are used by the proofs and by no run: a
  close that fails is not tried again and changes no other property, and `stamp` breaks
  the pause as described above.

## 6. What is left

1. The takeover of a Claude lock after 900 seconds lets two sessions run at once, and the
   day's call count is written back stale; both are steps of `WatchdogDaemon` without a
   property, since nothing in the repository says what should hold.
2. Larger instances of `EntrySearch`: a third symbol with limit 3, longer logs, entries in
   several tranches.
3. The fee budget as state; the scheduler's minute comparison; the approvals.
4. A bound on the margin of one position that the lowered leverage respects, in place of
   the 40% that `entry_margin` refutes.
