------------------------------- MODULE BotControl -------------------------------
(* What may stop the bot from trading, and what is left of it in the next       *)
(* process: the operator's orders and pause in watchdog.state (Mailbox), the    *)
(* circuit breaker on the wallet and the halts of the DefenseManager.  The bot  *)
(* is the head of run_trading_cycle, with a label at every await and every      *)
(* access to the shared file; the rest of the cycle is the one step Trade,      *)
(* which TradingCycle has in full.                                              *)
EXTENDS Mailbox, DefenseManager, FiniteSets

CONSTANTS
    Wallets,        \* wallet balances
    MaxCrashes,     \* bound on the bot's crashes
    Faults         \* what may happen, a subset of FaultKinds

(* account   a read of the account fails                                        *)
(* close     closing the positions fails                                        *)
(* raise     closing the positions raises                                       *)
(* stamp     a crash falls on the breaker's own write to the file               *)
(* loss      a day's loss reaches its limit                                     *)
(* drawdown  the drawdown reaches its limit                                     *)
FaultKinds == {"account", "close", "raise", "stamp", "loss", "drawdown"}

ASSUME ControlAssumption ==
    /\ Wallets \subseteq Nat \ {0} /\ Wallets # {} /\ IsFiniteSet(Wallets)
    /\ MaxCrashes \in Nat /\ Faults \subseteq FaultKinds

VARIABLES
    pc,         \* where the bot is in its cycle
    seen,       \* what it read from watchdog.state
    peak,       \* _peak_wallet
    stored,     \* the peak in the database
    tripped,    \* _circuit_breaker_triggered
    defense,    \* the DefenseManager
    shield,     \* shield.state
    loss,       \* _daily_pnl has reached the limit
    exposed,    \* a position is open
    restarting, \* the order the daemon is carrying out
    crashes     \* crashes so far

botMemory == <<seen, peak, tripped, defense, loss>>
vars == <<mailbox, pc, seen, peak, stored, tripped, defense, shield,
          loss, exposed, restarting, crashes>>

Labels == {"down", "idle", "order", "truncate", "flush", "account", "breaker", "mark",
           "stamp", "stamped", "guard", "close", "trade"}

TypeOK ==
    /\ MailboxType
    /\ pc \in Labels /\ seen \in Files
    /\ peak \in Wallets \cup {0} /\ stored \in Wallets \cup {0}
    /\ tripped \in BOOLEAN /\ loss \in BOOLEAN /\ exposed \in BOOLEAN
    /\ defense \in Defenses /\ shield \in Shields
    /\ restarting \in 0..MaxOrders /\ crashes \in 0..MaxCrashes

Larger(a, b) == IF a > b THEN a ELSE b
Below(w, top) == 4 * w < 3 * top    \* circuit_breaker_pct

Forgotten ==
    /\ seen' = Content /\ peak' = 0 /\ tripped' = FALSE
    /\ defense' = Load(NoShield) /\ loss' = FALSE

Init ==
    /\ MailboxInit
    /\ pc = "down" /\ seen = Content /\ peak = 0 /\ tripped = FALSE
    /\ defense = Load(NoShield) /\ loss = FALSE
    /\ stored = 0 /\ shield = NoShield /\ exposed = FALSE
    /\ restarting = NoOrder /\ crashes = 0

-----------------------------------------------------------------------------
(* The bot process.                                                             *)

(* The peak read back is not written: only a later rise is.                     *)
Start(w) ==
    /\ pc = "down"
    /\ pc' = "idle"
    /\ peak' = Larger(w, stored)
    /\ defense' = Load(shield)
    /\ UNCHANGED <<mailbox, seen, stored, tripped, shield, loss, exposed,
                   restarting, crashes>>

(* The file the bot had open is closed; a rewrite it had begun stays half done. *)
Dies ==
    /\ pc' = "down"
    /\ CloseFile
    /\ Forgotten

Crash ==
    /\ pc # "down"
    /\ pc = "stamped" => "stamp" \in Faults
    /\ crashes < MaxCrashes
    /\ crashes' = crashes + 1
    /\ Dies
    /\ UNCHANGED <<file, lock, orders, begun, told, stored, shield, exposed,
                   restarting>>

Goto(label) ==
    /\ pc' = label
    /\ UNCHANGED <<lock, orders, stored, shield, exposed, restarting, crashes, told>>

(* Done with the file: what was read from it is not used again.                 *)
Leave(label) ==
    /\ Goto(label)
    /\ seen' = Content
    /\ UNCHANGED <<peak, tripped, defense, loss>>

(* A paused cycle is over; orders wait as long as the pause lasts.              *)
Paused ==
    /\ pc = "idle"
    /\ ~file.torn /\ file.paused
    /\ UNCHANGED vars

(* A file that cannot be read stops nothing.                                    *)
ReadFails ==
    /\ pc = "idle"
    /\ file.torn
    /\ Goto("account")
    /\ UNCHANGED <<file, handle, begun, botMemory>>

(* Without a command the file is closed as it was.                              *)
NoCommand ==
    /\ pc = "idle"
    /\ ~file.torn /\ ~file.paused
    /\ file.command = NoOrder
    /\ Goto("account")
    /\ UNCHANGED <<file, handle, begun, botMemory>>

(* An order of the daemon's falls through and is cleared with the rest.         *)
ReadMailbox ==
    /\ pc = "idle"
    /\ ~file.torn /\ ~file.paused
    /\ file.command # NoOrder
    /\ seen' = file
    /\ OpenFile
    /\ LET mine == orders[file.command] = "CLOSEALL"
       IN /\ begun' = IF mine THEN file.command ELSE begun
          /\ Goto(IF mine THEN "order" ELSE "truncate")
    /\ UNCHANGED <<file, peak, tripped, defense, loss>>

(* _emergency_close and _close_symbol_by_watchdog: a close that fails is logged *)
(* and not tried again.  A loss that is taken counts for the day.               *)
TakeLoss == loss' \in IF "loss" \in Faults /\ exposed /\ ~exposed' THEN {TRUE, loss} ELSE {loss}

Closes ==
    /\ exposed' \in IF "close" \in Faults THEN {FALSE, exposed} ELSE {FALSE}
    /\ TakeLoss

CarryOut ==
    /\ pc = "order"
    /\ Closes
    /\ pc' = "truncate"
    /\ UNCHANGED <<file, handle, lock, orders, begun, told, seen, peak, stored,
                   tripped, defense, shield, restarting, crashes>>

(* An exception on the way leaves the order where it was.                       *)
OrderRaises ==
    /\ pc = "order" /\ "raise" \in Faults
    /\ CloseFile
    /\ Leave("account")
    /\ UNCHANGED <<file, begun>>

(* A cycle that found a command rewrites the file without it, whatever was put  *)
(* there in the meantime.                                                       *)
Truncate ==
    /\ pc = "truncate"
    /\ TruncateFile
    /\ Goto("flush")
    /\ UNCHANGED <<begun, botMemory>>

Flush ==
    /\ pc = "flush"
    /\ FlushFile([seen EXCEPT !.command = NoOrder])
    /\ Leave("account")
    /\ UNCHANGED <<begun>>

ReadsMailbox ==
    \/ Paused \/ ReadFails \/ NoCommand \/ ReadMailbox \/ CarryOut \/ OrderRaises
    \/ Truncate \/ Flush

-----------------------------------------------------------------------------
(* The circuit breaker.                                                         *)

(* w: the balance, or 0 when the read failed.                                   *)
ReadAccount(w) ==
    /\ pc = "account"
    /\ peak' = Larger(w, peak)
    /\ stored' = IF w > peak THEN Larger(w, stored) ELSE stored
    /\ tripped' = (tripped \/ Below(w, peak'))
    /\ pc' = IF tripped THEN "idle" ELSE IF Below(w, peak') THEN "breaker" ELSE "guard"
    /\ UNCHANGED <<mailbox, seen, defense, shield, loss, exposed, restarting, crashes>>

BreakerCloses ==
    /\ pc = "breaker"
    /\ Closes
    /\ pc' = "mark"
    /\ UNCHANGED <<mailbox, seen, peak, stored, tripped, defense, shield,
                   restarting, crashes>>

(* The exception is taken for a failed read of the account: the cycle goes on.  *)
BreakerRaises ==
    /\ pc = "breaker" /\ "raise" \in Faults
    /\ Goto("guard")
    /\ UNCHANGED <<file, handle, begun, botMemory>>

(* _write_watchdog_state_safe(paused=True)                                      *)
ReadMark ==
    /\ pc = "mark"
    /\ IF file.torn
       THEN Goto("idle") /\ UNCHANGED <<handle, seen>>
       ELSE Goto("stamp") /\ OpenFile /\ seen' = [file EXCEPT !.paused = TRUE]
    /\ UNCHANGED <<file, begun, peak, tripped, defense, loss>>

Stamp ==
    /\ pc = "stamp"
    /\ TruncateFile
    /\ Goto("stamped")
    /\ UNCHANGED <<begun, botMemory>>

Stamped ==
    /\ pc = "stamped"
    /\ FlushFile(seen)
    /\ pc' = "idle" /\ seen' = Content
    /\ UNCHANGED <<lock, orders, begun, told, peak, stored, tripped, defense, shield, loss,
                   exposed, restarting, crashes>>

Breaker ==
    \/ \E w \in Wallets \cup (IF "account" \in Faults THEN {0} ELSE {}) : ReadAccount(w)
    \/ BreakerCloses \/ BreakerRaises \/ ReadMark \/ Stamp \/ Stamped

-----------------------------------------------------------------------------
(* The guard and the rest of the cycle.                                         *)

Resumed(r) ==
    /\ defense' = PopResumed(r.defense)
    /\ shield' = r.shield

(* check, is_in_cooldown and pop_just_resumed, with no await between them.      *)
Guard(drawdown) ==
    /\ pc = "guard"
    /\ LET c == Check(defense, shield, drawdown, loss)
           e == EndCooldown(c.defense, c.shield)
       IN CASE c.action \in {"EMERGENCY_CLOSE", "HALT"} ->
                 pc' = "close" /\ defense' = c.defense /\ shield' = c.shield
            [] c.action = "ALREADY_NOTIFIED" ->
                 pc' = "idle" /\ defense' = c.defense /\ shield' = c.shield
            [] c.action = "CONTINUE" /\ InCooldown(c.defense) ->
                 pc' = "idle" /\ defense' = c.defense /\ shield' = c.shield
            [] OTHER -> pc' = "trade" /\ Resumed(e)
    /\ UNCHANGED <<mailbox, seen, peak, stored, tripped, loss, exposed,
                   restarting, crashes>>

EmergencyClose ==
    /\ pc = "close"
    /\ Closes
    /\ pc' = "idle"
    /\ UNCHANGED <<mailbox, seen, peak, stored, tripped, defense, shield,
                   restarting, crashes>>

(* The position is closed with or without a loss that reaches the limit, left  *)
(* alone, or opened.                                                            *)
Trade ==
    /\ pc = "trade"
    /\ pc' = "idle"
    /\ exposed' \in BOOLEAN
    /\ TakeLoss
    /\ UNCHANGED <<mailbox, seen, peak, stored, tripped, defense, shield,
                   restarting, crashes>>

RestOfCycle ==
    \/ \E drawdown \in IF "drawdown" \in Faults THEN {"normal", "limit"} ELSE {"normal"} :
           Guard(drawdown)
    \/ EmergencyClose \/ Trade

Cycle == ReadsMailbox \/ Breaker \/ RestOfCycle

-----------------------------------------------------------------------------
(* The daemon, the operator and the world.                                      *)

(* run_heartbeat writes the file and pops whatever command is in it; the        *)
(* operator's messages come from the thread that polls Telegram.                *)
Daemon(op) ==
    /\ op = "pop" => restarting = NoOrder
    /\ ReadState(op)
    /\ UNCHANGED <<pc, botMemory, stored, shield, exposed, restarting, crashes>>

(* /resume ends what the breaker asked for.  _handle_command knows RESTART and  *)
(* drops CLOSEALL.                                                              *)
DaemonWrites ==
    /\ ReplaceState
    /\ LET own == lock.op = "pop" /\ orders[lock.data.command] = "RESTART"
       IN /\ begun' = IF own THEN lock.data.command ELSE begun
          /\ restarting' = IF own THEN lock.data.command ELSE restarting
    /\ UNCHANGED <<pc, botMemory, stored, shield, exposed, crashes>>

(* restart_bot: the bot ends at any point; the heartbeat waits for it.          *)
Restart ==
    /\ restarting # NoOrder
    /\ pc = "stamped" => "stamp" \in Faults
    /\ restarting' = NoOrder
    /\ Dies
    /\ UNCHANGED <<file, lock, orders, begun, told, stored, shield, exposed, crashes>>

Tick ==
    /\ shield.cooldown > 0 \/ defense.cooldown > 0
    /\ defense' = Aged(defense) /\ shield' = Aged(shield)
    /\ UNCHANGED <<mailbox, pc, seen, peak, stored, tripped, loss, exposed,
                   restarting, crashes>>

(* run_scheduler clears the day's loss at midnight.                             *)
Midnight ==
    /\ loss
    /\ loss' = FALSE
    /\ UNCHANGED <<mailbox, pc, seen, peak, stored, tripped, defense, shield,
                   exposed, restarting, crashes>>

Next ==
    \/ (\E w \in Wallets : Start(w)) \/ Crash \/ Cycle
    \/ (\E op \in Operations \ {"none"} : Daemon(op)) \/ DaemonWrites \/ Restart
    \/ Tick \/ Midnight

Spec == Init /\ [][Next]_vars

(* The daemon keeps the bot running, the bot's loop never ends, time passes and *)
(* the scheduler sees a midnight.                                               *)
Fairness ==
    /\ WF_vars(\E w \in Wallets : Start(w)) /\ WF_vars(Cycle)
    /\ WF_vars(Tick) /\ WF_vars(Midnight)

FairSpec == Spec /\ Fairness

-----------------------------------------------------------------------------
(* No cycle begins after an acknowledged /pause and before the next /resume,    *)
(* whatever the daemon's writes, the bot's rewrites and restarts in between.    *)
PausedStaysPaused == [][pc = "idle" /\ told => pc' \in {"idle", "down"}]_vars

(* Orders are taken up in the order in which they were sent, by the bot or by   *)
(* the daemon: a write of the daemon's that is based on an old read brings no   *)
(* order back after a later one was taken up.                                   *)
OrdersInOrder == [][begun' >= begun]_vars

(* While shield.state holds a halt that is not over no cycle trades, whichever  *)
(* process runs it.                                                             *)
HaltHolds == pc = "trade" => ~(shield.halted /\ shield.cooldown # 0)

(* An emergency halt has no end: no step of the bot, no restart and no passing  *)
(* of time turns it into a halt that ends.                                      *)
Manual(s) == s.halted /\ s.cooldown = NoCooldown
EmergencyNeedsReset == [][Manual(shield) => Manual(shield')]_vars

(* A halt for a day's loss ends by itself: the bot trades again, unless a       *)
(* drawdown, the breaker or the operator stops it.                              *)
HaltLifts ==
    defense.halted /\ defense.cooldown # NoCooldown
        ~> pc = "trade" \/ Manual(shield) \/ tripped \/ file.paused

-----------------------------------------------------------------------------
(* What the repository says and the code does not keep.                         *)

(* The last order that was acknowledged waits in the file or was taken up by    *)
(* the one that carries it out.                                                 *)
NoOrderLost ==
    LET order == Len(orders)
    IN \/ begun = order
       \/ file.command = order
       \/ lock.op # "none" /\ lock.data.command = order
=============================================================================
