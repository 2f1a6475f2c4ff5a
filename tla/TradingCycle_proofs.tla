-------------------------- MODULE TradingCycle_proofs --------------------------
(* Theorems about TradingCycle, for every set of symbols and sides and every    *)
(* value of the bounds.  Each rests on a part of the inductive invariant named  *)
(* below; the steps of a proof follow the groups of actions of Next.            *)
EXTENDS TradingCycle, FiniteSetTheorems, TLAPS

-----------------------------------------------------------------------------
(* Typing.                                                                   *)

(* While a key is being worked on, target names one.                         *)
TargetNamed ==
    pc \in {"staleStops", "cancel", "settle", "entry", "ladder", "protect", "record",
           "move"}
        => target \in Keys

CoreTyped ==
    /\ VenueTypeOK /\ TableTypeOK /\ MemoryTypeOK
    /\ pc \in Labels
    /\ cycleCount \in 0..SyncPeriod - 1
    /\ halted \in Halts
    /\ TargetNamed

Typed == CoreTyped /\ FlagsTypeOK

LEMMA BundleTyped ==
    ASSUME NEW b \in Bundles, NEW l \in Levels
    PROVE  b["initial"] \in 0..MaxStops /\ b["breakeven"] \in 0..MaxStops
BY DEF Bundles, Levels

(* The requests that touch stop orders keep them well typed.                 *)
LEMMA DeleteStopsTyped ==
    ASSUME stops \in [Keys -> Bundles], NEW K, DeleteStops(K)
    PROVE  stops' \in [Keys -> Bundles]
<1> USE VenueAssumption
<1>1. NoStops \in Bundles
  BY DEF NoStops, Bundles
<1>2. CASE stops' = [k \in Keys |-> IF k \in K THEN NoStops ELSE stops[k]]
  BY <1>1, <1>2
<1>3. ASSUME NEW kept \in SUBSET ((K \cap Stopped) \X Levels),
             stops' = [k \in Keys |-> [l \in Levels |->
                        IF k \in K /\ <<k, l>> \notin kept THEN 0 ELSE stops[k][l]]]
      PROVE  stops' \in [Keys -> Bundles]
  <2>1. ASSUME NEW k \in Keys
        PROVE  [l \in Levels |-> IF k \in K /\ <<k, l>> \notin kept
                                 THEN 0 ELSE stops[k][l]] \in Bundles
    BY DEF Bundles
  <2> QED BY <1>3, <2>1
<1> QED BY <1>2, <1>3 DEF DeleteStops

LEMMA CancelStopsTyped ==
    ASSUME stops \in [Keys -> Bundles], NEW K, CancelStops(K)
    PROVE  stops' \in [Keys -> Bundles]
BY DeleteStopsTyped DEF CancelStops

LEMMA StopAcceptedTyped ==
    ASSUME stops \in [Keys -> Bundles], NEW k \in Keys, NEW l \in Levels,
           StopAccepted(k, l)
    PROVE  stops' \in [Keys -> Bundles]
<1> USE VenueAssumption
<1>1. stops[k] \in Bundles
  OBVIOUS
<1>2. /\ stops[k]["initial"] \in 0..MaxStops /\ stops[k]["breakeven"] \in 0..MaxStops
      /\ stops[k]["initial"] + stops[k]["breakeven"] < MaxStops
  BY <1>1 DEF Bundles, Levels, StopAccepted, StopCount
<1>3. stops[k][l] + 1 \in 0..MaxStops
  BY <1>2 DEF Levels
<1>4. [stops[k] EXCEPT ![l] = @ + 1] \in Bundles
  BY <1>1, <1>3 DEF Bundles
<1> QED BY <1>4 DEF StopAccepted, AddStop

LEMMA StopRaisedTyped ==
    ASSUME stops \in [Keys -> Bundles], NEW k \in Keys, NEW l \in Levels,
           StopRaised(k, l)
    PROVE  stops' \in [Keys -> Bundles]
BY StopAcceptedTyped DEF StopRaised

LEMMA InitTyped == Init => Typed
<1> SUFFICES ASSUME Init PROVE Typed
  OBVIOUS
<1> USE VenueAssumption, ExecutorAssumption, CycleAssumption DEF Init
<1>1. NoStops \in Bundles
  BY DEF NoStops, Bundles
<1>2. VenueTypeOK
  BY <1>1 DEF VenueInit, VenueTypeOK
<1>3. TableTypeOK
  BY DEF TableTypeOK, RowLevels
<1>4. MemoryTypeOK
  BY DEF MemoryTypeOK, Callers, Verdicts
<1>5. pc \in Labels /\ TargetNamed
  BY DEF Labels, TargetNamed
<1>6. cycleCount \in 0..SyncPeriod - 1 /\ halted \in Halts
  BY DEF Halts
<1>7. FlagsTypeOK
  BY Zenon DEF FlagsTypeOK
<1> QED BY <1>2, <1>3, <1>4, <1>5, <1>6, <1>7 DEF Typed, CoreTyped

LEMMA ExecutorTyped ==
    ASSUME Typed, ExecutorStep
    PROVE  CoreTyped'
<1> USE VenueAssumption, ExecutorAssumption, CycleAssumption
    DEF Typed, CoreTyped, VenueTypeOK, TableTypeOK, MemoryTypeOK, TargetNamed, Labels,
        Halts, Callers, Verdicts, ExecutorStep, venue, table, memory, switches
<1>1. ASSUME NEW k \in Keys, CloseFills(k) PROVE CoreTyped'
  BY <1>1 DEF CloseFills, BeginClose
<1>2. ASSUME NEW k \in Keys, CloseUnconfirmed(k) PROVE CoreTyped'
  BY <1>2 DEF CloseUnconfirmed, BeginClose
<1>3. ASSUME NEW k \in Keys, CloseRejected(k) PROVE CoreTyped'
  BY <1>3 DEF CloseRejected, BeginClose
<1>4. ASSUME NEW k \in Keys, CloseRaises(k) PROVE CoreTyped'
  BY <1>4 DEF CloseRaises, BeginClose
<1>5. CASE CancelClosed
  BY <1>5, CancelStopsTyped DEF CancelClosed
<1>6. CASE CancelEntries
  BY <1>6 DEF CancelEntries
<1>7. CASE CancelAllStops
  BY <1>7, CancelStopsTyped DEF CancelAllStops, Blank
<1>8. CASE EntryFills
  BY <1>8 DEF EntryFills, Opens, TrancheOver, GiveUp
<1>9. CASE EntryMisses
  BY <1>9 DEF EntryMisses, Opens, TrancheOver, GiveUp
<1>10. CASE EntryUnfilled
  BY <1>10 DEF EntryUnfilled, RestsOnBook, TryAgain, TrancheOver, GiveUp
<1>11. CASE EntryAssumed
  BY <1>11 DEF EntryAssumed, Opens, RestsOnBook, TrancheOver, GiveUp
<1>12. CASE EntryRaises
  BY <1>12 DEF EntryRaises, Opens, TryAgain, GiveUp
<1>13. CASE LadderRests
  BY <1>13 DEF LadderRests, RestsOnBook, GiveUp
<1>14. CASE LadderRaises
  BY <1>14 DEF LadderRaises, RestsOnBook, TryAgain, GiveUp
<1>15. CASE ProtectEntry
  BY <1>15, StopAcceptedTyped DEF ProtectEntry, Levels
<1>16. CASE ProtectRaises
  BY <1>16, StopRaisedTyped DEF ProtectRaises, Levels
<1>17. CASE RecordEntry
  BY <1>17 DEF RecordEntry, UpsertRow, Blank, RowLevels, Levels
<1>18. CASE QueryStops
  BY <1>18 DEF QueryStops, Tracked, Stopped
<1>19. ASSUME NEW k \in Keys, EnsureStop(k) PROVE CoreTyped'
  BY <1>19, StopAcceptedTyped, StopRaisedTyped DEF EnsureStop, StopLevel, RowLevels, Levels
<1>20. ASSUME NEW k \in Keys, CleanOrphan(k) PROVE CoreTyped'
  BY <1>20, DeleteStopsTyped DEF CleanOrphan
<1>21. CASE EnsureDone
  BY <1>21 DEF EnsureDone, Blank
<1> QED
  BY <1>1, <1>2, <1>3, <1>4, <1>5, <1>6, <1>7, <1>8, <1>9, <1>10, <1>11, <1>12,
     <1>13, <1>14, <1>15, <1>16, <1>17, <1>18, <1>19, <1>20, <1>21
  DEF ClosePosition, Execute, EnsureStops

LEMMA CycleTyped ==
    ASSUME Typed, StartUp \/ HeadOfCycle \/ Reconcile \/ Monitor \/ Enter
    PROVE  CoreTyped'
<1> USE VenueAssumption, ExecutorAssumption, CycleAssumption
    DEF Typed, CoreTyped, VenueTypeOK, TableTypeOK, MemoryTypeOK, TargetNamed, Labels,
        Halts, Callers, Verdicts, venue, table, memory, switches, RowLevels, Levels
<1>1. CASE Start
  BY <1>1 DEF Start
<1>2. ASSUME NEW k \in Keys, CloseStaleRow(k) PROVE CoreTyped'
  BY <1>2 DEF CloseStaleRow, CloseRows
<1>3. CASE CancelStaleStops
  BY <1>3, CancelStopsTyped DEF CancelStaleStops
<1>4. CASE AdoptPositions
  BY <1>4 DEF AdoptPositions
<1>5. CASE CancelStaleEntries
  BY <1>5 DEF CancelStaleEntries
<1>6. CASE PausedCycle \/ BeginCycle
  BY <1>6 DEF PausedCycle, BeginCycle, NextCount
<1>7. ASSUME NEW s \in Symbols, CloseCommand(s) PROVE CoreTyped'
  BY <1>7 DEF CloseCommand, NextCount, GetPositions, AccountRead, Tracked
<1>8. CASE CloseAllCommand \/ BreakerCloses
  BY <1>8 DEF CloseAllCommand, BreakerCloses, BeginEmergency, NextCount, GetPositions,
              AccountRead, Tracked
<1>9. CASE ReadAccount \/ TripBreaker
  BY <1>9 DEF ReadAccount, TripBreaker
<1>10. CASE BreakerHolds \/ GuardHolds \/ CycleOver
  BY <1>10 DEF BreakerHolds, GuardHolds, CycleOver, EndCycle, Blank
<1>11. CASE GuardTrips \/ GuardPasses
  BY <1>11 DEF GuardTrips, GuardPasses
<1>12. CASE Reconcile
  BY <1>12 DEF Reconcile, SyncedRows, SyncedLevel, ThenEnsure
<1>13. CASE CheckPositions
  BY <1>13 DEF CheckPositions, Tracked
<1>14. CASE Settle
  BY <1>14 DEF Settle, KeepRow, SettleMonitored, SettleEmergency, SettleCommand, CloseRows
<1>15. CASE SettleRaises \/ EmergencyRaises \/ CloseLoopDone
  BY <1>15 DEF SettleRaises, EmergencyRaises, CloseLoopDone, EndCycle, Blank
<1>16. ASSUME NEW k \in Keys, CancelOldStop(k) PROVE CoreTyped'
  BY <1>16, CancelStopsTyped DEF CancelOldStop
<1>17. CASE PlaceMovedStop
  BY <1>17, StopAcceptedTyped, StopRaisedTyped DEF PlaceMovedStop
<1>18. CASE GatherSignals
  BY <1>18 DEF GatherSignals
<1>19. ASSUME NEW k \in Keys, TakeSignal(k) PROVE CoreTyped'
  BY <1>19 DEF TakeSignal
<1> QED
  BY <1>1, <1>2, <1>3, <1>4, <1>5, <1>6, <1>7, <1>8, <1>9, <1>10, <1>11, <1>12,
     <1>13, <1>14, <1>15, <1>16, <1>17, <1>18, <1>19
  DEF StartUp, HeadOfCycle, Monitor, Enter

LEMMA OthersTyped ==
    ASSUME Typed, VenueStep \/ Pause \/ Resume \/ CooldownOver \/ Shutdown \/ Crash \/ UNCHANGED vars
    PROVE  CoreTyped'
<1> USE VenueAssumption, ExecutorAssumption, CycleAssumption
    DEF Typed, CoreTyped, VenueTypeOK, TableTypeOK, MemoryTypeOK, TargetNamed, Labels,
        Halts, Callers, Verdicts, venue, table, memory, switches
<1>1. ASSUME NEW k \in Keys, NEW l \in Levels, StopTriggers(k, l), VenueStep
      PROVE  CoreTyped'
  <2>1. stops[k] \in Bundles
    OBVIOUS
  <2>2. stops[k][l] - 1 \in 0..MaxStops
    BY <1>1, <2>1, BundleTyped DEF StopTriggers, Levels
  <2>3. [stops[k] EXCEPT ![l] = @ - 1] \in Bundles
    BY <2>1, <2>2 DEF Bundles
  <2>4. stops' \in [Keys -> Bundles]
    BY <1>1, <2>3 DEF StopTriggers
  <2> QED BY <1>1, <2>4 DEF StopTriggers, VenueStep
<1>2. ASSUME NEW k \in Keys, PositionTaken(k) \/ EntryFillsLate(k), VenueStep
      PROVE  CoreTyped'
  BY <1>2 DEF PositionTaken, EntryFillsLate, VenueStep
<1>3. CASE Pause \/ Resume \/ CooldownOver \/ Shutdown \/ UNCHANGED vars
  BY <1>3 DEF Pause, Resume, CooldownOver, Shutdown, vars
<1>4. CASE Crash
  BY <1>4 DEF Crash, Blank
<1> QED BY <1>1, <1>2, <1>3, <1>4 DEF VenueStep, VenueMoves

(* The flags are assigned constants or left alone.                           *)
LEMMA FlagsTyped ==
    ASSUME FlagsTypeOK, [Next]_vars
    PROVE  FlagsTypeOK'
<1> USE DEF FlagsTypeOK, memory, switches
<1>1. CASE StartUp
  BY <1>1, Zenon DEF StartUp, Start, CloseStaleRow, CancelStaleStops, AdoptPositions,
     CancelStaleEntries
<1>2. CASE HeadOfCycle
  BY <1>2, ZenonT(30) DEF HeadOfCycle, PausedCycle, BeginCycle, CloseCommand, CloseAllCommand,
     BreakerCloses, BeginEmergency, ReadAccount, TripBreaker, BreakerHolds, GuardTrips,
     GuardHolds, GuardPasses, EndCycle, Blank
<1>3. CASE Reconcile \/ Enter
  BY <1>3, Zenon DEF Reconcile, Enter, GatherSignals, TakeSignal, CycleOver, EndCycle, Blank
<1>4. CASE Monitor
  BY <1>4, ZenonT(30) DEF Monitor, CheckPositions, Settle, KeepRow, SettleMonitored, SettleEmergency,
     SettleCommand, SettleRaises, EmergencyRaises, CloseLoopDone, EndCycle, Blank,
     CancelOldStop, PlaceMovedStop
<1>5. CASE ExecutorStep
  <2> USE DEF ExecutorStep
  <2>1. CASE ClosePosition \/ CancelEntries \/ CancelAllStops
    BY <1>5, <2>1, ZenonT(30) DEF ClosePosition, CloseFills, CloseUnconfirmed, CloseRejected,
       CloseRaises, BeginClose, CancelClosed, CancelEntries, CancelAllStops, Blank
  <2>2. CASE Execute
    BY <1>5, <2>2, ZenonT(60) DEF Execute, EntryFills, EntryMisses, EntryUnfilled, EntryAssumed,
       EntryRaises, LadderRests, LadderRaises, ProtectEntry, ProtectRaises, RecordEntry,
       TryAgain, TrancheOver, GiveUp, Blank
  <2>3. CASE EnsureStops
    BY <1>5, <2>3, Zenon DEF EnsureStops, QueryStops, EnsureStop, CleanOrphan, EnsureDone, Blank
  <2> QED BY <1>5, <2>1, <2>2, <2>3
<1>6. CASE VenueStep \/ Pause \/ Resume \/ CooldownOver \/ Shutdown \/ Crash \/ UNCHANGED vars
  BY <1>6, Zenon DEF VenueStep, Pause, Resume, CooldownOver, Shutdown, Crash, Blank, vars
<1> QED BY <1>1, <1>2, <1>3, <1>4, <1>5, <1>6 DEF Next, BotStep

LEMMA StepTyped == Typed /\ [Next]_vars => Typed'
BY ExecutorTyped, CycleTyped, OthersTyped, FlagsTyped DEF Typed, Next, BotStep

LEMMA AlwaysTyped == Spec => []Typed
BY InitTyped, StepTyped, PTL DEF Spec

(* Every variable keeps its type: what tlc finds on small sets of keys holds *)
(* for every number of symbols, sides, stops, retries and positions.         *)
THEOREM TypeCorrect == Spec => []TypeOK
<1>1. Typed => TypeOK
  BY DEF Typed, CoreTyped, TypeOK
<1> QED BY <1>1, AlwaysTyped, PTL

-----------------------------------------------------------------------------
(* Where the task is in its cycle.                                           *)

(* The loop that closes what step 7 found due.                               *)
Monitoring == pc \in {"close", "cancel", "settle"} /\ caller = "monitor"

(* The steps of a cycle after the breaker and the defense manager let it go  *)
(* on.  ensure_sl_orders also runs at start-up, where they are not asked.    *)
PastGuard ==
    \/ pc \in {"sync", "check", "moves", "move", "open", "entry", "ladder"}
    \/ pc \in {"query", "ensure"} /\ caller # "startup"
    \/ Monitoring

(* The start-up says who it is, and an emergency close or a shutdown never   *)
(* turns into step 7.                                                        *)
CallerKnown ==
    /\ pc \in {"stale", "staleStops", "tidy"} => caller = "startup"
    /\ pc \in {"cancelEntries", "cancelAll"} => caller # "monitor"

-----------------------------------------------------------------------------
(* The position list read in step 3, and how long it can be trusted.         *)

(* Orders fill before their reply or not at all: no reply is lost, none      *)
(* predates its fill, and no entry stays on the book.                        *)
PromptVenue ==
    /\ Faults \cap {"reply", "ack", "rest"} = {}
    /\ "dca" \notin Events

(* Account reads and writes to the table do not both fail.  If they do, the  *)
(* handler after a tripped breaker can send a cycle on to its entries with a *)
(* list that came from the table.                                            *)
TrustedList == "account" \notin Faults \/ "database" \notin Faults

(* No entry can fill behind the task's back.                                 *)
QuietBook == working = {} /\ pc # "ladder"

(* The list may show positions that have gone, and misses none, from the     *)
(* read to the entry that relies on it.                                      *)
FreshList ==
    PastGuard \/ pc \in {"stale", "staleStops", "tidy", "query", "ensure", "guard"}
        => pos \subseteq positions

(* The list of a tripped breaker, while its loop may still fail to write.    *)
BreakerList ==
    caller = "breaker" /\ pc \in {"cancelEntries", "cancelAll", "close", "cancel", "settle"}
        => pos \subseteq positions \/ "account" \in Faults

(* Every key the entry loop has still to visit is permitted by that list.    *)
Permitted ==
    /\ pc \in {"open", "entry"} => \A k \in todo : MayEnter(k)
    /\ pc = "entry" => MayEnter(target)

SnapshotInv == QuietBook /\ FreshList /\ BreakerList /\ CallerKnown /\ Permitted

(* From AdoptPositions to the end of the start-up no position lacks a row.   *)
AdoptInv ==
    pc \in {"tidy", "query", "ensure"} /\ caller = "startup" => pos \subseteq Tracked

(* A confirmed close, or a rejected one, means that the position has gone.   *)
GoneInv ==
    /\ pc = "cancel" => target \notin pos
    /\ pc = "settle" /\ verdict = "success" => target \notin pos
    /\ caller # "close"

-----------------------------------------------------------------------------
(* One OPEN row per key.                                                     *)

(* The steps that write the table.                                           *)
TableStep ==
    \/ \E k \in Keys : CloseStaleRow(k)
    \/ AdoptPositions \/ Reconcile \/ CheckPositions \/ Settle
    \/ RecordEntry
    \/ \E k \in Keys : EnsureStop(k)

LEMMA TableKept ==
    ASSUME [Next]_vars, ~TableStep
    PROVE  UNCHANGED rows
<1> USE DEF table, TableStep
<1>1. CASE StartUp
  BY <1>1 DEF StartUp, Start, CancelStaleStops, CancelStaleEntries
<1>2. CASE HeadOfCycle
  BY <1>2 DEF HeadOfCycle, PausedCycle, BeginCycle, CloseCommand, CloseAllCommand,
     BreakerCloses, BeginEmergency, ReadAccount, TripBreaker, BreakerHolds, GuardTrips,
     GuardHolds, GuardPasses
<1>3. CASE Reconcile \/ Monitor \/ Enter
  BY <1>3 DEF Monitor, SettleRaises, EmergencyRaises, CloseLoopDone, CancelOldStop,
     PlaceMovedStop, Enter, GatherSignals, TakeSignal, CycleOver
<1>4. CASE ExecutorStep
  <2>1. CASE ClosePosition \/ CancelEntries \/ CancelAllStops
    BY <2>1 DEF ClosePosition, CloseFills, CloseUnconfirmed, CloseRejected,
       CloseRaises, BeginClose, CancelClosed, CancelEntries, CancelAllStops
  <2>2. CASE Execute
    BY <2>2 DEF Execute, EntryFills, EntryMisses, EntryUnfilled, EntryAssumed,
       EntryRaises, LadderRests, LadderRaises, ProtectEntry, ProtectRaises
  <2>3. CASE EnsureStops
    BY <2>3 DEF EnsureStops, QueryStops, CleanOrphan, EnsureDone
  <2> QED BY <1>4, <2>1, <2>2, <2>3 DEF ExecutorStep
<1>5. CASE VenueStep \/ Pause \/ Resume \/ CooldownOver \/ Shutdown \/ Crash \/ UNCHANGED vars
  BY <1>5 DEF VenueStep, Pause, Resume, CooldownOver, Shutdown, Crash, vars
<1> QED BY <1>1, <1>2, <1>3, <1>4, <1>5 DEF Next, BotStep

LEMMA RowsStep ==
    ASSUME Typed, OneOpenRowPerKey, [Next]_vars
    PROVE  OneOpenRowPerKey'
<1> USE DEF OneOpenRowPerKey
<1>0. rows \in [Keys -> Nat]
  BY DEF Typed, CoreTyped, TableTypeOK
<1>1. ASSUME NEW k \in Keys, CloseStaleRow(k) PROVE OneOpenRowPerKey'
  BY <1>0, <1>1 DEF CloseStaleRow, CloseRows
<1>2. CASE AdoptPositions
  BY <1>0, <1>2 DEF AdoptPositions
<1>3. CASE Reconcile
  BY <1>0, <1>3 DEF Reconcile, SyncedRows
<1>4. CASE CheckPositions
  BY <1>4 DEF CheckPositions
<1>5. CASE Settle
  BY <1>0, <1>5 DEF Settle, KeepRow, SettleMonitored, SettleEmergency, SettleCommand,
     CloseRows, table
<1>6. CASE RecordEntry
  BY <1>0, <1>6 DEF RecordEntry, UpsertRow
<1>7. ASSUME NEW k \in Keys, EnsureStop(k) PROVE OneOpenRowPerKey'
  BY <1>7 DEF EnsureStop
<1>8. CASE ~TableStep
  BY <1>8, TableKept
<1> QED BY <1>1, <1>2, <1>3, <1>4, <1>5, <1>6, <1>7, <1>8 DEF TableStep

(* Whatever faults the venue shows and whoever writes the table, it never    *)
(* holds two OPEN rows for one symbol and side.                              *)
THEOREM NoDuplicateRows == Spec => []OneOpenRowPerKey
<1>1. Init => OneOpenRowPerKey
  BY DEF Init, OneOpenRowPerKey
<1> QED BY <1>1, RowsStep, AlwaysTyped, PTL DEF Spec

-----------------------------------------------------------------------------
(* Limits that are checked on an old position list.                          *)

(* On a prompt venue positions only go, but for the entry being executed.    *)
LEMMA PositionsOnlyGo ==
    ASSUME PromptVenue, QuietBook, [Next]_vars
    PROVE  \/ pos' \subseteq pos
           \/ pc = "entry" /\ pos' = pos \cup {target}
<1> USE DEF PromptVenue, QuietBook, venue
<1>1. CASE StartUp
  BY <1>1 DEF StartUp, Start, CloseStaleRow, CancelStaleStops, AdoptPositions,
     CancelStaleEntries
<1>2. CASE HeadOfCycle
  BY <1>2 DEF HeadOfCycle, PausedCycle, BeginCycle, CloseCommand, CloseAllCommand,
     BreakerCloses, BeginEmergency, ReadAccount, TripBreaker, BreakerHolds, GuardTrips,
     GuardHolds, GuardPasses
<1>3. CASE Reconcile \/ Monitor \/ Enter
  BY <1>3 DEF Reconcile, Monitor, CheckPositions, Settle, SettleRaises, EmergencyRaises,
     CloseLoopDone, CancelOldStop, PlaceMovedStop, Enter, GatherSignals, TakeSignal, CycleOver
<1>4. CASE ExecutorStep
  <2>1. CASE ClosePosition \/ CancelEntries \/ CancelAllStops
    BY <2>1 DEF ClosePosition, CloseFills, CloseUnconfirmed, CloseRejected,
       CloseRaises, BeginClose, CancelClosed, CancelEntries, CancelAllStops
  <2>2. CASE Execute
    BY <2>2 DEF Execute, EntryFills, EntryMisses, EntryUnfilled, EntryAssumed,
       EntryRaises, LadderRests, LadderRaises, ProtectEntry, ProtectRaises, RecordEntry,
       Opens, RestsOnBook
  <2>3. CASE EnsureStops
    BY <2>3 DEF EnsureStops, QueryStops, EnsureStop, CleanOrphan, EnsureDone
  <2> QED BY <1>4, <2>1, <2>2, <2>3 DEF ExecutorStep
<1>5. CASE VenueStep
  BY <1>5 DEF VenueStep, VenueMoves, StopTriggers, PositionTaken, EntryFillsLate
<1>6. CASE Pause \/ Resume \/ CooldownOver \/ Shutdown \/ Crash \/ UNCHANGED vars
  BY <1>6 DEF Pause, Resume, CooldownOver, Shutdown, Crash, vars
<1> QED BY <1>1, <1>2, <1>3, <1>4, <1>5, <1>6 DEF Next, BotStep

LEMMA SnapshotStep ==
    ASSUME PromptVenue, TrustedList, SnapshotInv, [Next]_vars
    PROVE  SnapshotInv'
<1> USE DEF SnapshotInv, QuietBook, FreshList, BreakerList, CallerKnown, Permitted, PastGuard, Monitoring,
            venue, memory
<1>1. CASE StartUp
  <2>1. CASE Start
    BY <2>1 DEF Start
  <2>2. ASSUME NEW k \in Keys, CloseStaleRow(k) PROVE SnapshotInv'
    BY <2>2 DEF CloseStaleRow
  <2>3. CASE CancelStaleStops \/ AdoptPositions \/ CancelStaleEntries
    BY <2>3 DEF CancelStaleStops, AdoptPositions, CancelStaleEntries
  <2> QED BY <1>1, <2>1, <2>2, <2>3 DEF StartUp
<1>2. CASE HeadOfCycle
  <2>1. CASE PausedCycle \/ BeginCycle \/ ReadAccount \/ TripBreaker \/ BreakerHolds
    BY <2>1 DEF PausedCycle, BeginCycle, ReadAccount, TripBreaker, BreakerHolds,
       EndCycle, Blank
  <2>2. CASE CloseAllCommand \/ BreakerCloses
    BY <2>2 DEF CloseAllCommand, BreakerCloses, BeginEmergency, GetPositions, AccountRead
  <2>3. ASSUME NEW s \in Symbols, CloseCommand(s) PROVE SnapshotInv'
    BY <2>3 DEF CloseCommand
  <2>4. CASE GuardTrips \/ GuardHolds \/ GuardPasses
    BY <2>4 DEF GuardTrips, GuardHolds, GuardPasses, EndCycle, Blank
  <2> QED BY <1>2, <2>1, <2>2, <2>3, <2>4 DEF HeadOfCycle
<1>3. CASE Reconcile
  BY <1>3 DEF Reconcile, ThenEnsure
<1>4. CASE Monitor
  <2>1. CASE CheckPositions
    BY <2>1 DEF CheckPositions
  <2>2. CASE Settle
    BY <2>2 DEF Settle
  <2>3. CASE SettleRaises
    BY <2>3 DEF SettleRaises, TrustedList
  <2>6. CASE EmergencyRaises \/ CloseLoopDone
    BY <2>6 DEF EmergencyRaises, CloseLoopDone, EndCycle, Blank
  <2>4. CASE PlaceMovedStop
    BY <2>4 DEF PlaceMovedStop
  <2>5. ASSUME NEW k \in Keys, CancelOldStop(k) PROVE SnapshotInv'
    BY <2>5 DEF CancelOldStop
  <2> QED BY <1>4, <2>1, <2>2, <2>3, <2>4, <2>5, <2>6 DEF Monitor
<1>5. CASE Enter
  <2>1. CASE GatherSignals
    BY <2>1 DEF GatherSignals, MayEnter
  <2>2. ASSUME NEW k \in Keys, TakeSignal(k) PROVE SnapshotInv'
    BY <2>2 DEF TakeSignal, MayEnter
  <2>3. CASE CycleOver
    BY <2>3 DEF CycleOver, EndCycle, Blank
  <2> QED BY <1>5, <2>1, <2>2, <2>3 DEF Enter
<1>6. CASE ExecutorStep
  <2> USE <1>6 DEF ExecutorStep
  <2>1. CASE ClosePosition
    BY <2>1 DEF ClosePosition, CloseFills, CloseUnconfirmed, CloseRejected, CloseRaises,
       BeginClose, CancelClosed
  <2>2. CASE CancelEntries \/ CancelAllStops
    BY <2>2 DEF CancelEntries, CancelAllStops, Blank
  <2>3. CASE EntryFills \/ EntryMisses \/ EntryAssumed
    BY <2>3 DEF PromptVenue, EntryFills, EntryMisses, EntryAssumed, Opens, RestsOnBook,
       TrancheOver, GiveUp, MayEnter
  <2>4. CASE EntryUnfilled
    BY <2>4 DEF PromptVenue, EntryUnfilled, TryAgain, TrancheOver, GiveUp, MayEnter
  <2>5. CASE EntryRaises
    BY <2>5 DEF PromptVenue, EntryRaises, TryAgain, GiveUp, MayEnter
  <2>6. CASE LadderRests \/ LadderRaises
    BY <2>6 DEF LadderRests, LadderRaises
  <2>7. CASE ProtectEntry \/ ProtectRaises \/ RecordEntry
    BY <2>7 DEF ProtectEntry, ProtectRaises, RecordEntry, Blank
  <2>8. CASE EnsureStops
    BY <2>8 DEF EnsureStops, QueryStops, EnsureStop, CleanOrphan, EnsureDone, Blank
  <2> QED BY <2>1, <2>2, <2>3, <2>4, <2>5, <2>6, <2>7, <2>8 DEF Execute
<1>7. CASE VenueStep
  BY <1>7 DEF VenueStep, VenueMoves, StopTriggers, PositionTaken, EntryFillsLate, MayEnter
<1>8. CASE Pause \/ Resume \/ CooldownOver \/ Shutdown \/ Crash \/ UNCHANGED vars
  BY <1>8 DEF Pause, Resume, CooldownOver, Shutdown, Crash, Blank, vars, MayEnter
<1> QED BY <1>1, <1>2, <1>3, <1>4, <1>5, <1>6, <1>7, <1>8 DEF Next, BotStep

LEMMA AlwaysSnapshot ==
    ASSUME PromptVenue, TrustedList
    PROVE  Spec => []SnapshotInv
<1>1. Init => SnapshotInv
  BY DEF Init, VenueInit, SnapshotInv, QuietBook, FreshList, BreakerList, CallerKnown, Permitted, PastGuard,
         Monitoring
<1> QED BY <1>1, SnapshotStep, PTL DEF Spec

(* The entry that is executed fits under the limit of the moment, too.       *)
LEMMA CapStep ==
    ASSUME PromptVenue, Typed, SnapshotInv, PositionCap, [Next]_vars
    PROVE  PositionCap'
<1> USE DEF PositionCap
<1>1. IsFiniteSet(Keys)
  BY VenueAssumption, FS_Product DEF Keys
<1>2. pos \subseteq Keys /\ positions \subseteq Keys
  BY DEF Typed, CoreTyped, VenueTypeOK, MemoryTypeOK
<1>3. IsFiniteSet(pos) /\ IsFiniteSet(positions)
  BY <1>1, <1>2, FS_Subset
<1>4. MaxPositions \in Nat
  BY CycleAssumption
<1>5. CASE pos' \subseteq pos
  <2>1. Cardinality(pos') <= Cardinality(pos)
    BY <1>3, <1>5, FS_Subset
  <2>2. Cardinality(pos') \in Nat /\ Cardinality(pos) \in Nat
    BY <1>3, <1>5, FS_Subset, FS_CardinalityType
  <2> QED BY <1>4, <2>1, <2>2
<1>6. CASE pc = "entry" /\ pos' = pos \cup {target}
  <2>1. pos \subseteq positions
    BY <1>6 DEF SnapshotInv, FreshList, PastGuard
  <2>2. Cardinality(positions) < MaxPositions
    BY <1>6 DEF SnapshotInv, Permitted, MayEnter
  <2>3. Cardinality(pos) <= Cardinality(positions)
    BY <1>3, <2>1, FS_Subset
  <2>4. Cardinality(pos) \in Nat /\ Cardinality(positions) \in Nat
    BY <1>3, FS_CardinalityType
  <2>5. Cardinality(pos') = Cardinality(pos) \/ Cardinality(pos') = Cardinality(pos) + 1
    BY <1>3, <1>6, FS_AddElement
  <2> QED BY <1>4, <2>2, <2>3, <2>4, <2>5
<1> QED BY <1>5, <1>6, PositionsOnlyGo DEF SnapshotInv

LEMMA HedgeStep ==
    ASSUME PromptVenue, SnapshotInv, NeverHedged, [Next]_vars
    PROVE  NeverHedged'
<1> USE DEF NeverHedged
<1>1. CASE pos' \subseteq pos
  BY <1>1
<1>2. CASE pc = "entry" /\ pos' = pos \cup {target}
  <2>1. pos \subseteq positions
    BY <1>2 DEF SnapshotInv, FreshList, PastGuard
  <2>2. \A p \in positions : Symbol(p) # Symbol(target)
    BY <1>2 DEF SnapshotInv, Permitted, MayEnter
  <2> QED BY <1>2, <2>1, <2>2
<1> QED BY <1>1, <1>2, PositionsOnlyGo DEF SnapshotInv

(* On a prompt venue, and with account reads or the table to rely on, the    *)
(* limit on open positions holds whatever stop, or operator, closes a        *)
(* position after the list was read.                                         *)
THEOREM LimitRespected ==
    ASSUME PromptVenue, TrustedList
    PROVE  Spec => []PositionCap
<1>1. Init => PositionCap
  BY CycleAssumption, FS_EmptySet DEF Init, VenueInit, PositionCap
<1> QED BY <1>1, CapStep, AlwaysTyped, AlwaysSnapshot, PTL DEF Spec

(* On a prompt venue, and with account reads or the table to rely on, the    *)
(* bot never holds both sides of a symbol.                                   *)
THEOREM OneSidePerSymbol ==
    ASSUME PromptVenue, TrustedList
    PROVE  Spec => []NeverHedged
<1>1. Init => NeverHedged
  BY DEF Init, VenueInit, NeverHedged
<1> QED BY <1>1, HedgeStep, AlwaysSnapshot, PTL DEF Spec

-----------------------------------------------------------------------------
(* The start-up reconciliation.                                              *)

LEMMA AdoptStep ==
    ASSUME PromptVenue, Typed, SnapshotInv, AdoptInv, [Next]_vars
    PROVE  AdoptInv'
<1> USE DEF AdoptInv, Tracked, table, memory
<1>1. CASE StartUp
  <2>1. CASE Start
    BY <2>1 DEF Start
  <2>2. ASSUME NEW k \in Keys, CloseStaleRow(k) PROVE AdoptInv'
    BY <2>2 DEF CloseStaleRow
  <2>3. CASE AdoptPositions
    <3>1. pos \subseteq positions /\ positions \subseteq Keys /\ pos' = pos
      BY <2>3 DEF AdoptPositions, SnapshotInv, FreshList, Typed, CoreTyped, MemoryTypeOK, venue
    <3> QED BY <2>3, <3>1 DEF AdoptPositions
  <2>4. CASE CancelStaleStops \/ CancelStaleEntries
    BY <2>4 DEF CancelStaleStops, CancelStaleEntries
  <2> QED BY <1>1, <2>1, <2>2, <2>3, <2>4 DEF StartUp
<1>2. CASE HeadOfCycle
  BY <1>2 DEF HeadOfCycle, PausedCycle, BeginCycle, CloseCommand, CloseAllCommand,
     BreakerCloses, BeginEmergency, ReadAccount, TripBreaker, BreakerHolds, GuardTrips,
     GuardHolds, GuardPasses, EndCycle
<1>3. CASE Reconcile
  BY <1>3 DEF Reconcile, ThenEnsure
<1>4. CASE Monitor \/ Enter
  BY <1>4 DEF Monitor, CheckPositions, Settle, SettleRaises, EmergencyRaises,
     CloseLoopDone, CancelOldStop, PlaceMovedStop, Enter, GatherSignals, TakeSignal, CycleOver, EndCycle
<1>5. CASE ExecutorStep
  <2>1. CASE ClosePosition \/ CancelEntries \/ CancelAllStops
    BY <2>1 DEF ClosePosition, CloseFills, CloseUnconfirmed, CloseRejected,
       CloseRaises, BeginClose, CancelClosed, CancelEntries, CancelAllStops
  <2>2. CASE Execute
    BY <2>2 DEF Execute, EntryFills, EntryMisses, EntryUnfilled, EntryAssumed,
       EntryRaises, LadderRests, LadderRaises, ProtectEntry, ProtectRaises, RecordEntry,
       TryAgain, TrancheOver, GiveUp
  <2>3. CASE EnsureStops
    BY <2>3 DEF EnsureStops, QueryStops, EnsureStop, CleanOrphan, EnsureDone, venue
  <2> QED BY <1>5, <2>1, <2>2, <2>3 DEF ExecutorStep
<1>6. CASE VenueStep
  BY <1>6 DEF SnapshotInv, QuietBook, VenueStep, VenueMoves, StopTriggers, PositionTaken,
     EntryFillsLate
<1>7. CASE Pause \/ Resume \/ CooldownOver \/ Shutdown \/ Crash \/ UNCHANGED vars
  BY <1>7 DEF Pause, Resume, CooldownOver, Shutdown, Crash, vars, venue
<1> QED BY <1>1, <1>2, <1>3, <1>4, <1>5, <1>6, <1>7 DEF Next, BotStep

(* On a prompt venue, and with account reads or the table to rely on, every  *)
(* position has its row when the start-up gives out stops, whatever the      *)
(* process that died before had done.                                        *)
THEOREM StartupLeavesNoOrphan ==
    ASSUME PromptVenue, TrustedList
    PROVE  Spec => []StartupAdopts
<1>1. Init => AdoptInv
  BY DEF Init, AdoptInv
<1>2. AdoptInv => StartupAdopts
  BY DEF AdoptInv, StartupAdopts
<1> QED BY <1>1, <1>2, AdoptStep, AlwaysTyped, AlwaysSnapshot, PTL DEF Spec

-----------------------------------------------------------------------------
(* No row is closed under an open position.                                  *)

(* Account reads never raise, and the operator closes nothing.               *)
HonestAccount == "account" \notin Faults /\ "close" \notin Events

LEMMA GoneStep ==
    ASSUME PromptVenue, HonestAccount, SnapshotInv, GoneInv, [Next]_vars
    PROVE  GoneInv'
<1> USE DEF GoneInv, HonestAccount, memory
<1>1. CASE StartUp
  BY <1>1 DEF StartUp, Start, CloseStaleRow, CancelStaleStops, AdoptPositions,
     CancelStaleEntries
<1>2. CASE HeadOfCycle
  <2>1. CASE \E s \in Symbols : CloseCommand(s)
    BY <2>1 DEF CloseCommand
  <2>2. CASE CloseAllCommand \/ BreakerCloses
    BY <2>2 DEF CloseAllCommand, BreakerCloses, BeginEmergency
  <2>3. CASE PausedCycle \/ BeginCycle \/ ReadAccount \/ TripBreaker \/ BreakerHolds
             \/ GuardTrips \/ GuardHolds \/ GuardPasses
    BY <2>3 DEF PausedCycle, BeginCycle, ReadAccount, TripBreaker, BreakerHolds, GuardTrips,
       GuardHolds, GuardPasses, EndCycle, Blank, venue
  <2> QED BY <1>2, <2>1, <2>2, <2>3 DEF HeadOfCycle
<1>3. CASE Reconcile
  BY <1>3 DEF Reconcile, ThenEnsure
<1>4. CASE Monitor
  BY <1>4 DEF Monitor, CheckPositions, Settle, SettleRaises, EmergencyRaises,
     CloseLoopDone, CancelOldStop, PlaceMovedStop, EndCycle, Blank
<1>5. CASE Enter
  BY <1>5 DEF Enter, GatherSignals, TakeSignal, CycleOver, EndCycle, Blank
<1>6. CASE ExecutorStep
  <2>1. CASE ClosePosition
    BY <2>1 DEF ClosePosition, CloseFills, CloseUnconfirmed, CloseRejected,
       CloseRaises, BeginClose, CancelClosed
  <2>2. CASE CancelEntries \/ CancelAllStops
    BY <2>2 DEF CancelEntries, CancelAllStops, Blank
  <2>3. CASE Execute
    BY <2>3 DEF Execute, EntryFills, EntryMisses, EntryUnfilled, EntryAssumed,
       EntryRaises, LadderRests, LadderRaises, ProtectEntry, ProtectRaises, RecordEntry,
       TryAgain, TrancheOver, GiveUp, Blank
  <2>4. CASE EnsureStops
    BY <2>4 DEF EnsureStops, QueryStops, EnsureStop, CleanOrphan, EnsureDone, Blank
  <2> QED BY <1>6, <2>1, <2>2, <2>3, <2>4 DEF ExecutorStep
<1>7. CASE VenueStep
  BY <1>7 DEF SnapshotInv, QuietBook, VenueStep, VenueMoves, StopTriggers, PositionTaken,
     EntryFillsLate
<1>8. CASE Pause \/ Resume \/ CooldownOver \/ Shutdown \/ Crash \/ UNCHANGED vars
  BY <1>8 DEF Pause, Resume, CooldownOver, Shutdown, Crash, Blank, vars, venue
<1> QED BY <1>1, <1>2, <1>3, <1>4, <1>5, <1>6, <1>7, <1>8 DEF Next, BotStep

(* The three places that close rows, each behind its evidence.               *)
LEMMA CloseHasEvidence ==
    ASSUME PromptVenue, HonestAccount, Typed, SnapshotInv, GoneInv, [Next]_vars
    PROVE  \A k \in Keys : rows[k] > 0 /\ rows'[k] = 0 => k \notin pos
<1> SUFFICES ASSUME NEW k \in Keys, rows[k] > 0, rows'[k] = 0
             PROVE  k \notin pos
  OBVIOUS
<1>0. rows \in [Keys -> Nat]
  BY DEF Typed, CoreTyped, TableTypeOK
<1>1. CASE ~TableStep
  BY <1>1, TableKept
<1>2. ASSUME NEW j \in Keys, CloseStaleRow(j) PROVE k \notin pos
  BY <1>0, <1>2 DEF CloseStaleRow, CloseRows, SnapshotInv, FreshList
<1>3. CASE AdoptPositions
  BY <1>0, <1>3 DEF AdoptPositions
<1>4. CASE Reconcile
  BY <1>0, <1>4 DEF Reconcile, AccountRead, SyncedRows, HonestAccount
<1>5. CASE CheckPositions
  BY <1>5 DEF CheckPositions
<1>6. CASE Settle
  <2>1. CASE KeepRow
    BY <1>6, <2>1 DEF KeepRow, table
  <2>2. CASE SettleMonitored
    BY <1>0, <1>6, <2>2 DEF Settle, SettleMonitored, CloseRows, VerifiedGone, AccountRead,
       GoneInv, HonestAccount
  <2>3. CASE SettleEmergency
    BY <1>0, <1>6, <2>3 DEF Settle, SettleEmergency, CloseRows, GoneInv
  <2>4. CASE SettleCommand
    BY <2>4 DEF SettleCommand, GoneInv
  <2> QED BY <1>6, <2>1, <2>2, <2>3, <2>4 DEF Settle
<1>7. CASE RecordEntry
  BY <1>0, <1>7 DEF RecordEntry, UpsertRow
<1>8. ASSUME NEW j \in Keys, EnsureStop(j) PROVE k \notin pos
  BY <1>8 DEF EnsureStop
<1> QED BY <1>1, <1>2, <1>3, <1>4, <1>5, <1>6, <1>7, <1>8 DEF TableStep

(* As long as account reads do not raise, no row is closed while its         *)
(* position is open, by whichever of the closing paths.                      *)
THEOREM NoRowClosedBlindly ==
    ASSUME PromptVenue, HonestAccount
    PROVE  Spec => NoBlindClose
<1>0. TrustedList
  BY DEF HonestAccount, TrustedList
<1>1. Init => GoneInv
  BY DEF Init, GoneInv
<1>2. Typed /\ SnapshotInv /\ GoneInv /\ [Next]_vars
        => [\A k \in Keys : rows[k] > 0 /\ rows'[k] = 0 => k \notin pos]_vars
  BY CloseHasEvidence
<1> QED BY <1>0, <1>1, <1>2, GoneStep, AlwaysTyped, AlwaysSnapshot, PTL DEF Spec, NoBlindClose
=============================================================================
