---------------------------- MODULE BotControl_proofs ----------------------------
(* What holds of the bot's switches for any number of orders and crashes, any   *)
(* wallets and any cooldown.                                                     *)
EXTENDS BotControl, SequenceTheorems, TLAPS

(* A new order still fits while the daemon is about to write it.                *)
Typed ==
    /\ TypeOK
    /\ lock.op \in Orders => Len(orders) < MaxOrders

LEMMA FilesKept ==
    /\ Content \in Files /\ [Content EXCEPT !.torn = TRUE] \in Files
    /\ \A f \in Files, c \in 0..MaxOrders, p \in BOOLEAN :
          /\ [f EXCEPT !.command = c] \in Files
          /\ [f EXCEPT !.paused = p] \in Files
          /\ f.command \in 0..MaxOrders
<1>1. NoOrder \in 0..MaxOrders
  BY MailboxAssumption DEF NoOrder
<1>2. Content \in Files /\ [Content EXCEPT !.torn = TRUE] \in Files
  BY <1>1 DEF Content, Files
<1>3. ASSUME NEW f \in Files, NEW c \in 0..MaxOrders, NEW p \in BOOLEAN
      PROVE  /\ [f EXCEPT !.command = c] \in Files
             /\ [f EXCEPT !.paused = p] \in Files
             /\ f.command \in 0..MaxOrders
  BY DEF Files
<1> QED BY <1>2, <1>3

LEMMA ShieldTyped == NoShield \in Shields
BY DEF NoShield, Shields, Ticks, Actions, NoCooldown

LEMMA LoadTyped ==
    ASSUME NEW s \in Shields
    PROVE  Load(s) \in Defenses
BY DEF Load, Shields, Defenses, Ticks, Actions, NoCooldown

LEMMA InitTyped == Init => Typed
<1> SUFFICES ASSUME Init PROVE Typed
  OBVIOUS
<1> USE DEF Init, MailboxInit
<1>1. MailboxType
  <2>1. orders \in Seq(Orders) /\ Len(orders) = 0
    BY EmptySeq
  <2>2. lock \in [op : Operations, data : Files]
    BY FilesKept DEF Operations
  <2>3. Len(orders) <= MaxOrders /\ begun \in 0..MaxOrders
    BY <2>1, MailboxAssumption DEF NoOrder
  <2>4. handle \in {"none", "current", "old"} /\ told \in BOOLEAN /\ file \in Files
    BY FilesKept
  <2> QED BY <2>1, <2>2, <2>3, <2>4 DEF MailboxType
<1>2. defense \in Defenses /\ shield \in Shields
  BY ShieldTyped, LoadTyped
<1>3. lock.op \notin Orders
  BY MailboxAssumption DEF OrderKinds
<1>4. restarting \in 0..MaxOrders /\ crashes \in 0..MaxCrashes
  BY MailboxAssumption, ControlAssumption DEF NoOrder
<1>5. pc \in Labels /\ tripped \in BOOLEAN /\ loss \in BOOLEAN /\ exposed \in BOOLEAN
  BY DEF Labels
<1> QED BY <1>1, <1>2, <1>3, <1>4, <1>5, FilesKept DEF Typed, TypeOK

LEMMA ForgottenTyped ==
    ASSUME Forgotten
    PROVE  /\ seen' \in Files /\ peak' \in Wallets \cup {0} /\ tripped' \in BOOLEAN
           /\ defense' \in Defenses /\ loss' \in BOOLEAN
BY ShieldTyped, FilesKept, LoadTyped DEF Forgotten

LEMMA CheckTyped ==
    ASSUME NEW d \in Defenses, NEW s \in Shields, NEW drawdown, NEW l \in BOOLEAN
    PROVE  /\ Check(d, s, drawdown, l).defense \in Defenses
           /\ Check(d, s, drawdown, l).shield \in Shields
<1> USE CooldownAssumption DEF Saved, Defenses, Shields, Ticks, Actions, NoCooldown
<1>1. EmergencyCheck(d).defense \in Defenses /\ EmergencyCheck(d).shield \in Shields
  BY DEF EmergencyCheck
<1>2. LossCheck(d, s).defense \in Defenses /\ LossCheck(d, s).shield \in Shields
  <2>1. Cooldown \in Ticks
    OBVIOUS
  <2>2. CASE d.halted
    BY <2>2 DEF LossCheck
  <2>3. CASE ~d.halted
    BY <2>1, <2>3 DEF LossCheck
  <2> QED BY <2>2, <2>3
<1>3. [d EXCEPT !.last = "none"] \in Defenses
  OBVIOUS
<1> QED BY <1>1, <1>2, <1>3 DEF Check

LEMMA EndCooldownTyped ==
    ASSUME NEW d \in Defenses, NEW s \in Shields
    PROVE  /\ PopResumed(EndCooldown(d, s).defense) \in Defenses
           /\ EndCooldown(d, s).shield \in Shields
BY DEF EndCooldown, PopResumed, Saved, Defenses, Shields, Ticks, Actions, NoCooldown

LEMMA AgedTyped ==
    /\ \A s \in Shields : Aged(s) \in Shields
    /\ \A d \in Defenses : Aged(d) \in Defenses
BY CooldownAssumption DEF Aged, Defenses, Shields, Ticks, NoCooldown

-----------------------------------------------------------------------------
(* Types.                                                                       *)

LEMMA MailboxStepTyped ==
    ASSUME Typed, ReadsMailbox
    PROVE  Typed'
<1> USE MailboxAssumption, ControlAssumption
    DEF Typed, TypeOK, MailboxType, Labels, Goto, botMemory, CloseFile, OpenFile
<1>0. NoOrder \in 0..MaxOrders
  BY DEF NoOrder
<1>1. CASE Paused
  BY <1>1 DEF Paused, vars, mailbox
<1>2. CASE ReadFails \/ NoCommand
  BY <1>2 DEF ReadFails, NoCommand
<1>3. CASE ReadMailbox
  BY <1>3, FilesKept DEF ReadMailbox
<1>4. CASE CarryOut
  BY <1>4 DEF CarryOut, Closes, TakeLoss
<1>5. CASE OrderRaises
  BY <1>5, FilesKept DEF OrderRaises, Leave
<1>6. CASE Truncate
  BY <1>6, FilesKept DEF Truncate, TruncateFile
<1>7. CASE Flush
  BY <1>0, <1>7, FilesKept DEF Flush, FlushFile, Leave
<1> QED BY <1>1, <1>2, <1>3, <1>4, <1>5, <1>6, <1>7 DEF ReadsMailbox

LEMMA BreakerTyped ==
    ASSUME Typed, Breaker
    PROVE  Typed'
<1> USE MailboxAssumption, ControlAssumption
    DEF Typed, TypeOK, MailboxType, Labels, Goto, botMemory, CloseFile, OpenFile
<1>1. ASSUME NEW w \in Wallets \cup {0}, ReadAccount(w) PROVE Typed'
  BY <1>1 DEF ReadAccount, Larger, mailbox
<1>2. CASE BreakerCloses
  BY <1>2 DEF BreakerCloses, Closes, TakeLoss, mailbox
<1>3. CASE BreakerRaises
  BY <1>3 DEF BreakerRaises
<1>4. CASE ReadMark
  BY <1>4, FilesKept DEF ReadMark
<1>5. CASE Stamp
  BY <1>5, FilesKept DEF Stamp, TruncateFile
<1>6. CASE Stamped
  BY <1>6, FilesKept DEF Stamped, FlushFile
<1> QED BY <1>1, <1>2, <1>3, <1>4, <1>5, <1>6 DEF Breaker

LEMMA RestTyped ==
    ASSUME Typed, RestOfCycle
    PROVE  Typed'
<1> USE DEF Typed, TypeOK, MailboxType, Labels, mailbox
<1>1. ASSUME NEW drawdown, Guard(drawdown) PROVE Typed'
  <2> DEFINE c == Check(defense, shield, drawdown, loss)
  <2>1. c.defense \in Defenses /\ c.shield \in Shields
    BY CheckTyped
  <2>2. /\ PopResumed(EndCooldown(c.defense, c.shield).defense) \in Defenses
        /\ EndCooldown(c.defense, c.shield).shield \in Shields
    BY <2>1, EndCooldownTyped
  <2> QED BY <1>1, <2>1, <2>2 DEF Guard, Resumed
<1>2. CASE EmergencyClose
  BY <1>2 DEF EmergencyClose, Closes, TakeLoss
<1>3. CASE Trade
  BY <1>3 DEF Trade, TakeLoss
<1> QED BY <1>1, <1>2, <1>3 DEF RestOfCycle

LEMMA OthersTyped ==
    ASSUME Typed,
           \/ \E w \in Wallets : Start(w)
           \/ Crash \/ Restart \/ Tick \/ Midnight \/ UNCHANGED vars
    PROVE  Typed'
<1> USE MailboxAssumption, ControlAssumption
    DEF Typed, TypeOK, MailboxType, Labels, mailbox, botMemory
<1>1. ASSUME NEW w \in Wallets, Start(w) PROVE Typed'
  BY <1>1, LoadTyped DEF Start, Larger
<1>2. CASE Crash
  BY <1>2, ForgottenTyped DEF Crash, Dies, CloseFile
<1>3. CASE Restart
  BY <1>3, ForgottenTyped DEF Restart, Dies, CloseFile, NoOrder
<1>4. CASE Tick
  BY <1>4, AgedTyped DEF Tick
<1>5. CASE Midnight
  BY <1>5 DEF Midnight
<1>6. CASE UNCHANGED vars
  BY <1>6 DEF vars
<1> QED BY <1>1, <1>2, <1>3, <1>4, <1>5, <1>6

LEMMA DaemonTyped ==
    ASSUME Typed, (\E op \in Operations \ {"none"} : Daemon(op)) \/ DaemonWrites
    PROVE  Typed'
<1> USE MailboxAssumption, ControlAssumption
    DEF Typed, TypeOK, MailboxType, botMemory
<1>1. ASSUME NEW op \in Operations \ {"none"}, Daemon(op) PROVE Typed'
  BY <1>1 DEF Daemon, ReadState
<1>2. CASE DaemonWrites
  <2>0. lock.op \in Operations /\ lock.data \in Files /\ lock.data.command \in 0..MaxOrders
    BY FilesKept
  <2>1. orders' \in Seq(Orders) /\ Len(orders') <= MaxOrders
    <3>1. CASE lock.op \in Orders
      BY <1>2, <3>1 DEF DaemonWrites, ReplaceState
    <3>2. CASE lock.op \notin Orders
      BY <1>2, <3>2 DEF DaemonWrites, ReplaceState
    <3> QED BY <3>1, <3>2
  <2>2. Updated(lock.op, lock.data) \in Files
    <3>1. lock.op \in Orders => Len(orders) + 1 \in 0..MaxOrders
      BY LenProperties
    <3>2. NoOrder \in 0..MaxOrders
      BY DEF NoOrder
    <3> QED BY <2>0, <3>1, <3>2, FilesKept DEF Updated
  <2>3. lock'.op = "none" /\ lock' \in [op : Operations, data : Files]
    BY <1>2, FilesKept DEF DaemonWrites, ReplaceState, Operations
  <2>4. "none" \notin Orders
    BY DEF OrderKinds
  <2> QED BY <1>2, <2>0, <2>1, <2>2, <2>3, <2>4 DEF DaemonWrites, ReplaceState
<1> QED BY <1>1, <1>2

LEMMA StepTyped == Typed /\ [Next]_vars => Typed'
BY MailboxStepTyped, BreakerTyped, RestTyped, OthersTyped, DaemonTyped DEF Next, Cycle

LEMMA AlwaysTyped == Spec => []Typed
BY InitTyped, StepTyped, PTL DEF Spec

(* Every variable keeps its type, for any number of orders and crashes.         *)
THEOREM ControlTypeCorrect == Spec => []TypeOK
<1>1. Typed => TypeOK
  BY DEF Typed
<1> QED BY <1>1, AlwaysTyped, PTL

-----------------------------------------------------------------------------
(* Halts.                                                                       *)

(* The bot's copy agrees with the file as long as the file holds a halt that is *)
(* not over.                                                                    *)
Live(r) == r.halted /\ r.cooldown # 0
CopyInv ==
    /\ pc # "down" /\ Live(shield) => defense.halted /\ defense.cooldown = shield.cooldown
    /\ pc = "trade" => ~Live(shield)


(* The steps that neither touch the guard nor start or end a process.           *)
LEMMA GuardUntouched ==
    ASSUME [Next]_vars
    PROVE  \/ UNCHANGED <<defense, shield>> /\ (pc' # "trade" \/ pc' = pc) /\ pc # "down"
           \/ UNCHANGED <<defense, shield, pc>>
           \/ \E w \in Wallets : Start(w)
           \/ pc' = "down" /\ UNCHANGED shield
           \/ \E d \in Drawdowns : Guard(d)
           \/ Tick
<1> USE DEF Goto, botMemory
<1>1. CASE ReadsMailbox
  BY <1>1 DEF ReadsMailbox, Paused, ReadFails, NoCommand, ReadMailbox, CarryOut, OrderRaises,
     Truncate, Flush, Leave, vars
<1>2. CASE Breaker
  BY <1>2 DEF Breaker, ReadAccount, BreakerCloses, BreakerRaises, ReadMark, Stamp, Stamped
<1>3. CASE RestOfCycle
  BY <1>3 DEF RestOfCycle, EmergencyClose, Trade, Drawdowns
<1>4. CASE Crash \/ Restart
  BY <1>4 DEF Crash, Restart, Dies
<1>5. CASE \/ \E op \in Operations \ {"none"} : Daemon(op)
           \/ DaemonWrites \/ Midnight \/ UNCHANGED vars
  BY <1>5 DEF Daemon, DaemonWrites, Midnight, vars
<1> QED BY <1>1, <1>2, <1>3, <1>4, <1>5 DEF Next, Cycle

LEMMA CheckActions ==
    ASSUME NEW d, NEW s, NEW drawdown, NEW l
    PROVE  Check(d, s, drawdown, l).action
               \in {"EMERGENCY_CLOSE", "HALT", "ALREADY_NOTIFIED", "CONTINUE"}
BY DEF Check, EmergencyCheck, LossCheck

LEMMA CopyStep ==
    ASSUME Typed, CopyInv, [Next]_vars
    PROVE  CopyInv'
<1> USE DEF CopyInv, Live
<1>0. defense \in Defenses /\ shield \in Shields
  BY DEF Typed, TypeOK
<1>1. ASSUME NEW w \in Wallets, Start(w) PROVE CopyInv'
  BY <1>1 DEF Start, Load
<1>2. ASSUME NEW drawdown \in Drawdowns, Guard(drawdown) PROVE CopyInv'
  <2> DEFINE c == Check(defense, shield, drawdown, loss)
  <2>1. Live(c.shield) => c.defense.halted /\ c.defense.cooldown = c.shield.cooldown
    BY <1>0, <1>2 DEF Guard, Check, EmergencyCheck, LossCheck, Saved, Defenses, Shields
  <2>2. CASE pc' # "trade" /\ defense' = c.defense /\ shield' = c.shield
    BY <2>1, <2>2
  <2>3. CASE /\ ~InCooldown(c.defense)
             /\ Resumed(EndCooldown(c.defense, c.shield))
    BY <2>1, <2>3 DEF InCooldown, EndCooldown, Resumed, PopResumed, Saved
  <2> QED BY <1>2, <2>2, <2>3, CheckActions DEF Guard
<1>3. CASE Tick
  BY <1>0, <1>3 DEF Tick, Aged, Defenses, Shields, Ticks, NoCooldown
<1> QED BY <1>1, <1>2, <1>3, GuardUntouched

LEMMA AlwaysCopied == Spec => []CopyInv
<1>1. Init => CopyInv
  BY DEF Init, CopyInv
<1> QED BY <1>1, CopyStep, AlwaysTyped, PTL DEF Spec

(* No process trades while shield.state holds a halt that is not over.          *)
THEOREM HaltsHold == Spec => []HaltHolds
<1>1. CopyInv => HaltHolds
  BY DEF CopyInv, Live, HaltHolds
<1> QED BY <1>1, AlwaysCopied, PTL

(* A halt without an end keeps having none: a loss halts only what is not yet   *)
(* halted, and the bot's own copy, which may be written over the file, agrees.  *)
THEOREM EmergencyStays == Spec => EmergencyNeedsReset
<1>1. ASSUME Typed, CopyInv, [Next]_vars, Manual(shield)
      PROVE  Manual(shield')
  <2> USE DEF Manual
  <2>0. defense \in Defenses /\ shield \in Shields
    BY <1>1 DEF Typed, TypeOK
  <2>1. ASSUME NEW w \in Wallets, Start(w) PROVE Manual(shield')
    BY <1>1, <2>1 DEF Start
  <2>2. ASSUME NEW drawdown \in Drawdowns, Guard(drawdown) PROVE Manual(shield')
    <3> DEFINE c == Check(defense, shield, drawdown, loss)
    <3>1. defense.halted /\ defense.cooldown = NoCooldown
      BY <1>1, <2>2 DEF Guard, CopyInv, Live, NoCooldown
    <3>2. Manual(c.shield) /\ c.defense.cooldown = NoCooldown
      BY <1>1, <2>0, <3>1 DEF Check, EmergencyCheck, LossCheck, Saved, Defenses, Shields
    <3>3. EndCooldown(c.defense, c.shield).shield = c.shield
      BY <3>2 DEF EndCooldown, NoCooldown
    <3> QED BY <2>2, <3>2, <3>3, CheckActions DEF Guard, Resumed
  <2>3. CASE Tick
    BY <1>1, <2>3 DEF Tick, Aged, NoCooldown
  <2> QED BY <1>1, <2>1, <2>2, <2>3, GuardUntouched
<1>2. Typed /\ CopyInv /\ [Next]_vars => [Manual(shield) => Manual(shield')]_vars
  BY <1>1
<1> QED BY <1>2, AlwaysTyped, AlwaysCopied, PTL DEF Spec, EmergencyNeedsReset

-----------------------------------------------------------------------------
(* Pauses.                                                                      *)

(* Under a pause that was acknowledged nobody is about to write a file without  *)
(* it: the bot has none open that anybody reads, but for the breaker's mark,    *)
(* and what the daemon has read is paused, too.                                 *)
Marking == pc \in {"stamp", "stamped"}
PauseInv ==
    /\ lock.op # "none" => ~lock.data.torn
    /\ Marking => seen.paused /\ ~seen.torn
    /\ told => /\ lock.op # "resume"
               /\ lock.op \notin {"none", "pause"} => lock.data.paused
               /\ IF file.torn THEN pc = "stamped" /\ handle = "current" ELSE file.paused
               /\ handle = "current" => Marking


LEMMA PauseStep ==
    ASSUME "stamp" \notin Faults, Typed, PauseInv, [Next]_vars
    PROVE  PauseInv'
<1> USE DEF PauseInv, Marking, Goto, botMemory, CloseFile, OpenFile
<1>1. CASE ReadsMailbox
  <2>1. CASE Paused
    BY <2>1 DEF Paused, vars, mailbox
  <2>2. CASE ReadFails \/ NoCommand
    BY <2>2 DEF ReadFails, NoCommand
  <2>3. CASE ReadMailbox
    BY <2>3 DEF ReadMailbox
  <2>4. CASE CarryOut
    BY <2>4 DEF CarryOut
  <2>5. CASE OrderRaises
    BY <2>5 DEF OrderRaises, Leave
  <2>6. CASE Truncate
    BY <2>6 DEF Truncate, TruncateFile
  <2>7. CASE Flush
    BY <2>7 DEF Flush, FlushFile, Leave
  <2> QED BY <1>1, <2>1, <2>2, <2>3, <2>4, <2>5, <2>6, <2>7 DEF ReadsMailbox
<1>2. CASE Breaker
  <2>0. seen \in Files /\ file \in Files
    BY DEF Typed, TypeOK, MailboxType
  <2>1. ASSUME NEW w, ReadAccount(w) PROVE PauseInv'
    BY <2>1 DEF ReadAccount, mailbox
  <2>2. CASE BreakerCloses \/ BreakerRaises
    BY <2>2 DEF BreakerCloses, BreakerRaises, mailbox
  <2>3. CASE ReadMark
    <3>1. ~file.torn => [file EXCEPT !.paused = TRUE].paused /\ ~[file EXCEPT !.paused = TRUE].torn
      BY <2>0 DEF Files
    <3>2. CASE file.torn = TRUE
      BY <2>3, <3>2 DEF ReadMark
    <3>3. CASE file.torn = FALSE
      <4>1. seen'.paused /\ ~seen'.torn
        BY <2>3, <3>1, <3>3 DEF ReadMark
      <4>2. pc' = "stamp" /\ UNCHANGED <<file, lock, told>>
        BY <2>3, <3>3 DEF ReadMark
      <4> QED BY <3>3, <4>1, <4>2
    <3>4. file.torn \in BOOLEAN
      BY <2>0 DEF Files
    <3> QED BY <3>2, <3>3, <3>4
  <2>4. CASE Stamp
    BY <2>0, <2>4 DEF Stamp, TruncateFile, Content
  <2>5. CASE Stamped
    BY <2>0, <2>5 DEF Stamped, FlushFile
  <2> QED BY <1>2, <2>1, <2>2, <2>3, <2>4, <2>5 DEF Breaker
<1>3. CASE RestOfCycle
  BY <1>3 DEF RestOfCycle, Guard, EmergencyClose, Trade, mailbox
<1>4. ASSUME NEW op \in Operations \ {"none"}, Daemon(op) PROVE PauseInv'
  BY <1>4 DEF Daemon, ReadState
<1>5. CASE DaemonWrites
  <2>0. lock.data \in Files /\ lock.op \in Operations
    BY DEF Typed, TypeOK, MailboxType
  <2>1. /\ Updated(lock.op, lock.data).torn = lock.data.torn
        /\ lock.op = "pause" => Updated(lock.op, lock.data).paused
        /\ lock.op \notin {"pause", "resume"}
              => Updated(lock.op, lock.data).paused = lock.data.paused
    <3> DEFINE d == lock.data
    <3>0. Orders \cap {"pause", "resume", "pop"} = {}
      BY MailboxAssumption DEF OrderKinds
    <3>1. \A c : [d EXCEPT !.command = c].torn = d.torn /\ [d EXCEPT !.command = c].paused = d.paused
      BY <2>0 DEF Files
    <3>2. \A b : [d EXCEPT !.paused = b].torn = d.torn /\ [d EXCEPT !.paused = b].paused = b
      BY <2>0 DEF Files
    <3>3. lock.op = "pause" => Updated(lock.op, d) = [d EXCEPT !.paused = TRUE]
      BY <3>0 DEF Updated
    <3>4. lock.op = "resume" => Updated(lock.op, d) = [d EXCEPT !.paused = FALSE]
      BY <3>0 DEF Updated
    <3>5. lock.op \notin {"pause", "resume"}
            => Updated(lock.op, d) = d \/ \E c : Updated(lock.op, d) = [d EXCEPT !.command = c]
      BY <3>0 DEF Updated
    <3>6. CASE lock.op = "pause"
      BY <3>2, <3>3, <3>6
    <3>7. CASE lock.op = "resume"
      BY <3>2, <3>4, <3>7
    <3>8. CASE lock.op \notin {"pause", "resume"}
      BY <3>1, <3>5, <3>8
    <3> QED BY <3>6, <3>7, <3>8
  <2> QED BY <1>5, <2>1 DEF DaemonWrites, ReplaceState
<1>6. CASE Crash \/ Restart \/ \E w \in Wallets : Start(w)
  BY <1>6 DEF Crash, Restart, Start, Dies, mailbox
<1>7. CASE Tick \/ Midnight \/ UNCHANGED vars
  BY <1>7 DEF Tick, Midnight, vars, mailbox
<1> QED BY <1>1, <1>2, <1>3, <1>4, <1>5, <1>6, <1>7 DEF Next, Cycle

(* Once /pause is acknowledged no cycle begins before /resume, however many     *)
(* orders, rewrites, restarts and crashes come in between, unless a crash falls *)
(* between the truncation and the flush of the breaker's own mark.              *)
THEOREM PauseHolds ==
    ASSUME "stamp" \notin Faults
    PROVE  Spec => PausedStaysPaused
<1>1. Init => PauseInv
  BY DEF Init, MailboxInit, PauseInv, Marking
<1>2. PauseInv /\ [Next]_vars => [pc = "idle" /\ told => pc' \in {"idle", "down"}]_vars
  <2> SUFFICES ASSUME PauseInv, Next, pc = "idle", told PROVE pc' \in {"idle", "down"}
    OBVIOUS
  <2>1. ~file.torn /\ file.paused
    BY DEF PauseInv
  <2>2. CASE ReadsMailbox
    BY <2>1, <2>2 DEF ReadsMailbox, Paused, ReadFails, NoCommand, ReadMailbox, CarryOut,
       OrderRaises, Truncate, Flush, vars
  <2>3. CASE Breaker \/ RestOfCycle
    BY <2>3 DEF Breaker, ReadAccount, BreakerCloses, BreakerRaises, ReadMark, Stamp, Stamped,
       RestOfCycle, Guard, EmergencyClose, Trade
  <2>4. CASE \/ \E w \in Wallets : Start(w)
             \/ Crash \/ Restart \/ Tick \/ Midnight \/ DaemonWrites
             \/ \E op \in Operations \ {"none"} : Daemon(op)
    BY <2>4 DEF Start, Crash, Restart, Dies, Tick, Midnight, DaemonWrites, Daemon
  <2> QED BY <2>2, <2>3, <2>4 DEF Next, Cycle
<1> QED BY <1>1, <1>2, PauseStep, AlwaysTyped, PTL DEF Spec, PausedStaysPaused

-----------------------------------------------------------------------------
(* Orders.                                                                      *)

(* What may still become the command in the file is no older than the last      *)
(* order that was taken up.                                                     *)
Fresh(c) == c = NoOrder \/ c >= begun
Rewriting == handle = "current" /\ Marking
OrderInv ==
    /\ begun <= Len(orders)
    /\ Fresh(file.command) /\ file.command <= Len(orders)
    /\ lock.op # "none" =>
          /\ Fresh(lock.data.command) /\ lock.data.command <= Len(orders)
          /\ file.command \in {NoOrder, lock.data.command}
          /\ Rewriting => seen.command \in {NoOrder, lock.data.command}
    /\ lock.op = "pop" => lock.data.command # NoOrder
    /\ Rewriting => /\ Fresh(seen.command) /\ seen.command <= Len(orders)
                    /\ IF pc = "stamp" THEN seen.command = file.command ELSE file.torn

LEMMA OrderStep ==
    ASSUME Typed, OrderInv, [Next]_vars
    PROVE  OrderInv' /\ begun' >= begun
<1> USE DEF OrderInv, Fresh, Rewriting, Marking, Goto, botMemory, CloseFile, OpenFile, NoOrder
<1>0. /\ file \in Files /\ lock.data \in Files /\ seen \in Files
      /\ file.command \in Nat /\ lock.data.command \in Nat /\ seen.command \in Nat
      /\ begun \in Nat /\ Len(orders) \in Nat /\ lock.op \in Operations
  <2>1. /\ file \in Files /\ lock.data \in Files /\ seen \in Files
        /\ lock.op \in Operations /\ begun \in 0..MaxOrders /\ orders \in Seq(Orders)
    BY DEF Typed, TypeOK, MailboxType
  <2>2. \A f \in Files : f.command \in 0..MaxOrders
    BY DEF Files
  <2> QED BY <2>1, <2>2, MailboxAssumption, LenProperties
<1>1. CASE ReadsMailbox
  <2>1. CASE Paused
    BY <1>0, <2>1 DEF Paused, vars, mailbox
  <2>2. CASE ReadFails \/ NoCommand
    BY <1>0, <2>2 DEF ReadFails, NoCommand
  <2>3. CASE ReadMailbox
    BY <1>0, <2>3 DEF ReadMailbox
  <2>4. CASE CarryOut
    BY <1>0, <2>4 DEF CarryOut
  <2>5. CASE OrderRaises
    BY <1>0, <2>5 DEF OrderRaises, Leave
  <2>6. CASE Truncate
    BY <1>0, <2>6 DEF Truncate, TruncateFile, Content
  <2>7. CASE Flush
    <3>1. [seen EXCEPT !.command = NoOrder].command = NoOrder
      BY <1>0 DEF Files
    <3> QED BY <1>0, <2>7, <3>1 DEF Flush, FlushFile, Leave
  <2> QED BY <1>1, <2>1, <2>2, <2>3, <2>4, <2>5, <2>6, <2>7 DEF ReadsMailbox
<1>2. CASE Breaker
  <2>1. ASSUME NEW w, ReadAccount(w) PROVE OrderInv' /\ begun' >= begun
    BY <1>0, <2>1 DEF ReadAccount, mailbox
  <2>2. CASE BreakerCloses \/ BreakerRaises
    BY <1>0, <2>2 DEF BreakerCloses, BreakerRaises, mailbox
  <2>3. CASE ReadMark
    <3>1. [file EXCEPT !.paused = TRUE].command = file.command
      BY <1>0 DEF Files
    <3>2. CASE file.torn = TRUE
      BY <1>0, <2>3, <3>2 DEF ReadMark
    <3>3. CASE file.torn = FALSE
      <4>1. /\ pc' = "stamp" /\ seen'.command = file.command
            /\ UNCHANGED <<file, lock, orders, begun>>
        BY <2>3, <3>1, <3>3 DEF ReadMark
      <4> QED BY <1>0, <4>1
    <3>4. file.torn \in BOOLEAN
      BY <1>0 DEF Files
    <3> QED BY <3>2, <3>3, <3>4
  <2>4. CASE Stamp
    BY <1>0, <2>4 DEF Stamp, TruncateFile, Content
  <2>5. CASE Stamped
    BY <1>0, <2>5 DEF Stamped, FlushFile
  <2> QED BY <1>2, <2>1, <2>2, <2>3, <2>4, <2>5 DEF Breaker
<1>3. CASE RestOfCycle
  BY <1>0, <1>3 DEF RestOfCycle, Guard, EmergencyClose, Trade, mailbox
<1>4. ASSUME NEW op \in Operations \ {"none"}, Daemon(op) PROVE OrderInv' /\ begun' >= begun
  BY <1>0, <1>4 DEF Daemon, ReadState
<1>5. CASE DaemonWrites
  <2> DEFINE new == Updated(lock.op, lock.data)
  <2>1. /\ lock.op \in Orders => new.command = Len(orders) + 1
        /\ lock.op \notin Orders => new.command \in {NoOrder, lock.data.command}
    <3>0. Orders \cap {"pause", "resume", "pop"} = {}
      BY MailboxAssumption DEF OrderKinds
    <3>1. \A n : [lock.data EXCEPT !.command = n].command = n
      BY <1>0 DEF Files
    <3>2. \A b : [lock.data EXCEPT !.paused = b].command = lock.data.command
      BY <1>0 DEF Files
    <3> QED BY <3>0, <3>1, <3>2 DEF Updated
  <2>2. Len(orders') = IF lock.op \in Orders THEN Len(orders) + 1 ELSE Len(orders)
    <3>1. orders \in Seq(Orders)
      BY DEF Typed, TypeOK, MailboxType
    <3> QED BY <1>5, <3>1, AppendProperties DEF DaemonWrites, ReplaceState
  <2>3. "none" \notin Orders
    BY MailboxAssumption DEF OrderKinds
  <2>4. file' = new /\ handle' # "current" /\ lock'.op = "none" /\ lock.op # "none"
    BY <1>5 DEF DaemonWrites, ReplaceState
  <2>5. begun' \in {begun, lock.data.command} /\ begun' >= begun
    BY <1>0, <1>5 DEF DaemonWrites, ReplaceState
  <2>6. lock.op \notin Orders => begun' = begun \/ (lock.op = "pop" /\ new.command = NoOrder)
    <3>1. lock.op = "pop" => new = [lock.data EXCEPT !.command = NoOrder]
      BY MailboxAssumption DEF Updated, OrderKinds
    <3> QED BY <1>0, <1>5, <3>1 DEF DaemonWrites, ReplaceState, Files
  <2> QED BY <1>0, <2>1, <2>2, <2>3, <2>4, <2>5, <2>6
<1>6. CASE Crash \/ Restart \/ \E w \in Wallets : Start(w)
  BY <1>0, <1>6 DEF Crash, Restart, Start, Dies, mailbox
<1>7. CASE Tick \/ Midnight \/ UNCHANGED vars
  BY <1>0, <1>7 DEF Tick, Midnight, vars, mailbox
<1> QED BY <1>1, <1>2, <1>3, <1>4, <1>5, <1>6, <1>7 DEF Next, Cycle

(* Orders are taken up in the order in which they were sent, whatever the       *)
(* daemon writes on an old read and the bot rewrites in between.                *)
THEOREM OrdersKeepOrder == Spec => OrdersInOrder
<1>1. Init => OrderInv
  BY EmptySeq DEF Init, MailboxInit, OrderInv, Fresh, Rewriting, Marking, Content, NoOrder
<1>2. Typed /\ OrderInv /\ [Next]_vars => [begun' >= begun]_vars
  BY OrderStep
<1>3. Typed /\ OrderInv /\ [Next]_vars => OrderInv'
  BY OrderStep
<1> QED BY <1>1, <1>2, <1>3, AlwaysTyped, PTL DEF Spec, OrdersInOrder
=============================================================================
