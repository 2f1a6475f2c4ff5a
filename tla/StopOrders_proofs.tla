---------------------------- MODULE StopOrders_proofs ----------------------------
(* Theorems about TradingCycle that need to know where the stop orders are: in  *)
(* every step of the task, which positions may lack one and which keys may have *)
(* one at a level that is no longer theirs.                                     *)
EXTENDS TradingCycle_proofs

-----------------------------------------------------------------------------
(* What the requests do to the stops of each key.                              *)

(* A request to delete stops leaves those of other keys alone.                 *)
LEMMA DeleteElsewhere ==
    ASSUME stops \in [Keys -> Bundles], NEW K, DeleteStops(K),
           NEW k \in Keys, k \notin K
    PROVE  stops'[k] = stops[k]
<1>1. CASE stops' = [j \in Keys |-> IF j \in K THEN NoStops ELSE stops[j]]
  BY <1>1
<1>2. ASSUME NEW kept \in SUBSET ((K \cap Stopped) \X Levels),
             stops' = [j \in Keys |-> [l \in Levels |->
                        IF j \in K /\ <<j, l>> \notin kept THEN 0 ELSE stops[j][l]]]
      PROVE  stops'[k] = stops[k]
  <2>1. stops'[k] = [l \in Levels |-> stops[k][l]]
    BY <1>2
  <2> QED BY <2>1 DEF Bundles
<1> QED BY <1>1, <1>2 DEF DeleteStops

(* Nor does cancelling stops do anything to the stops of other keys.          *)
LEMMA CancelElsewhere ==
    ASSUME stops \in [Keys -> Bundles], NEW K, CancelStops(K),
           NEW k \in Keys, k \notin K
    PROVE  stops'[k] = stops[k]
BY DeleteElsewhere DEF CancelStops

(* A stop that was accepted is a stop of its key, and of no other.             *)
LEMMA AcceptedStops ==
    ASSUME stops \in [Keys -> Bundles], NEW k \in Keys, NEW l \in Levels,
           StopAccepted(k, l)
    PROVE  /\ stops'[k] # NoStops
           /\ \A j \in Keys \ {k} : stops'[j] = stops[j]
<1>1. stops[k] \in Bundles /\ MaxStops \in Nat
  BY VenueAssumption
<1>2. stops[k][l] \in 0..MaxStops
  BY <1>1 DEF Bundles
<1>3. stops' = [stops EXCEPT ![k] = [stops[k] EXCEPT ![l] = @ + 1]]
  BY DEF StopAccepted, AddStop
<1>4. stops'[k][l] = stops[k][l] + 1
  BY <1>1, <1>3 DEF Bundles
<1>5. stops'[k][l] # NoStops[l]
  BY <1>1, <1>2, <1>4 DEF NoStops
<1> QED BY <1>3, <1>5

(* While the venue answers, a stop is refused only where there is one.         *)
LEMMA RefusedStops ==
    ASSUME stops \in [Keys -> Bundles], NEW k \in Keys, NEW l \in Levels,
           "algo" \notin Faults, StopRaised(k, l)
    PROVE  stops'[k] # NoStops /\ UNCHANGED stops
<1>1. UNCHANGED stops /\ StopCount(k) >= MaxStops
  BY DEF StopRaised
<1>2. NoStops["initial"] + NoStops["breakeven"] = 0
  BY DEF NoStops, Levels
<1>3. stops[k] # NoStops
  BY <1>1, <1>2, VenueAssumption DEF StopCount
<1> QED BY <1>1, <1>3

(* Asking for a stop gives the key one.                                        *)
LEMMA AskedStops ==
    ASSUME stops \in [Keys -> Bundles], NEW k \in Keys, NEW l \in Levels,
           "algo" \notin Faults, StopAccepted(k, l) \/ StopRaised(k, l)
    PROVE  /\ stops'[k] # NoStops
           /\ \A j \in Keys \ {k} : stops'[j] = stops[j]
BY AcceptedStops, RefusedStops

-----------------------------------------------------------------------------
(* Positions and their stops.                                                  *)

(* The venue answers what it is asked about positions and stops, and nothing   *)
(* deletes every stop under a process that goes on: requests to close a        *)
(* position or to delete a stop may fail, and the process may die anywhere.    *)
NoEmergency ==
    /\ {"account", "algo"} \cap Faults = {}
    /\ {"wallet", "drawdown", "closeall"} \cap Events = {}

(* Every recorded position outside K has a stop.                               *)
Covered(K) == pos \cap Tracked \subseteq Stopped \cup K

(* What makes ProtectedAtRest inductive: the positions that lack a stop are    *)
(* those on the list of ensure_sl_orders, the one whose stop is being moved,   *)
(* and the one that was just entered; the list of stops to be deleted names no *)
(* recorded position.  From a crash to the query of the next process nothing   *)
(* is known.                                                                   *)
CoverInv ==
    /\ pc \in {"idle", "account", "guard", "sync", "check", "close", "cancel", "settle",
               "moves", "open", "entry"} => Covered({})
    /\ pc = "ensure" => Covered(todo) /\ orphans \cap Tracked = {}
    /\ pc \in {"move", "protect"} => Covered({target})
    /\ pc = "record" => Covered({}) /\ (target \in pos => target \in Stopped)
    /\ pc = "cancel" => target \notin pos
    /\ pc \in {"cancelEntries", "cancelAll"} => caller = "shutdown"
    /\ pc # "tripped" /\ ~breaker

(* Who may lack a stop stays known in the steps of the executor.              *)
LEMMA CoverExecutor ==
    ASSUME PromptVenue, NoEmergency, Typed, SnapshotInv, CoverInv, ExecutorStep
    PROVE  CoverInv'
<1> USE DEF CoverInv, Covered, Tracked, Stopped, NoEmergency, table, memory, switches
<1>0. /\ stops \in [Keys -> Bundles] /\ rows \in [Keys -> Nat]
      /\ pos \subseteq Keys /\ (pc \in {"cancel", "protect", "record"} => target \in Keys)
  BY DEF Typed, CoreTyped, VenueTypeOK, TableTypeOK, TargetNamed
<1>1. ASSUME NEW k \in Keys,
             CloseFills(k) \/ CloseUnconfirmed(k) \/ CloseRejected(k) \/ CloseRaises(k)
      PROVE  CoverInv'
  BY <1>1 DEF PromptVenue, CloseFills, CloseUnconfirmed, CloseRejected,
     CloseRaises, BeginClose, ExecutorStep
<1>2. CASE CancelClosed
  <2>1. \A k \in Keys \ {target} : stops'[k] = stops[k]
    BY <1>0, <1>2, CancelElsewhere DEF CancelClosed
  <2>2. target \notin pos
    BY <1>2 DEF CancelClosed
  <2> QED BY <1>0, <1>2, <2>1, <2>2 DEF CancelClosed, ExecutorStep
<1>3. CASE CancelEntries \/ CancelAllStops
  BY <1>3 DEF CancelEntries, CancelAllStops, Blank, ExecutorStep
<1>4. CASE EntryFills \/ EntryMisses
  BY <1>0, <1>4 DEF PromptVenue, EntryFills, EntryMisses, Opens, TrancheOver,
     GiveUp, ExecutorStep
<1>5. CASE EntryUnfilled \/ EntryAssumed \/ EntryRaises
  BY <1>0, <1>5 DEF PromptVenue, EntryUnfilled, EntryAssumed, EntryRaises, Opens,
     TrancheOver, TryAgain, GiveUp, ExecutorStep
<1>6. CASE LadderRests \/ LadderRaises
  BY <1>6 DEF SnapshotInv, QuietBook, LadderRests, LadderRaises
<1>7. CASE ProtectEntry \/ ProtectRaises
  <2>1. /\ stops'[target] # NoStops
        /\ \A j \in Keys \ {target} : stops'[j] = stops[j]
    BY <1>0, <1>7, AskedStops DEF ProtectEntry, ProtectRaises, Levels
  <2> QED BY <1>0, <1>7, <2>1 DEF ProtectEntry, ProtectRaises, ExecutorStep
<1>8. CASE RecordEntry
  BY <1>0, <1>8 DEF RecordEntry, UpsertRow, Blank, venue, ExecutorStep
<1>9. CASE QueryStops
  BY <1>0, <1>9 DEF QueryStops, venue, ExecutorStep
<1>10. ASSUME NEW k \in Keys, EnsureStop(k) PROVE CoverInv'
  <2>1. /\ stops'[k] # NoStops
        /\ \A j \in Keys \ {k} : stops'[j] = stops[j]
    <3>1. StopLevel(k) \in Levels
      BY <1>10 DEF Typed, CoreTyped, TableTypeOK, RowLevels, StopLevel, Levels
    <3> QED BY <1>0, <1>10, <3>1, AskedStops DEF EnsureStop
  <2> QED BY <1>0, <1>10, <2>1 DEF EnsureStop, ExecutorStep
<1>11. ASSUME NEW k \in Keys, CleanOrphan(k) PROVE CoverInv'
  <2>1. \A j \in Keys \ {k} : stops'[j] = stops[j]
    BY <1>0, <1>11, DeleteElsewhere DEF CleanOrphan
  <2> QED BY <1>0, <1>11, <2>1 DEF CleanOrphan, ExecutorStep
<1>12. CASE EnsureDone
  BY <1>0, <1>12 DEF EnsureDone, Blank, venue, ExecutorStep
<1> QED
  BY <1>1, <1>2, <1>3, <1>4, <1>5, <1>6, <1>7, <1>8, <1>9, <1>10, <1>11, <1>12
  DEF ExecutorStep, ClosePosition, Execute, EnsureStops

(* And in those of the cycle.                                                 *)
LEMMA CoverCycle ==
    ASSUME PromptVenue, NoEmergency, Typed, SnapshotInv, CoverInv,
           StartUp \/ HeadOfCycle \/ Reconcile \/ Monitor \/ Enter
    PROVE  CoverInv'
<1> USE DEF CoverInv, Covered, Tracked, Stopped, NoEmergency, venue, table, memory, switches
<1>0. /\ stops \in [Keys -> Bundles] /\ rows \in [Keys -> Nat]
      /\ pos \subseteq Keys /\ (pc = "move" => target \in Keys)
  BY DEF Typed, CoreTyped, VenueTypeOK, TableTypeOK, TargetNamed
<1>1. CASE StartUp
  <2>1. CASE Start
    BY <2>1 DEF Start
  <2>2. ASSUME NEW k \in Keys, CloseStaleRow(k) PROVE CoverInv'
    BY <2>2 DEF CloseStaleRow
  <2>3. CASE CancelStaleStops \/ AdoptPositions \/ CancelStaleEntries
    BY <2>3 DEF CancelStaleStops, AdoptPositions, CancelStaleEntries
  <2> QED BY <1>1, <2>1, <2>2, <2>3 DEF StartUp
<1>2. CASE HeadOfCycle
  BY <1>2 DEF HeadOfCycle, PausedCycle, BeginCycle, CloseCommand, CloseAllCommand,
     BreakerCloses, ReadAccount, TripBreaker, BreakerHolds, GuardTrips, GuardHolds,
     GuardPasses, EndCycle, Blank
<1>3. CASE Reconcile
  <2>1. pos \subseteq positions
    BY <1>3 DEF Reconcile, SnapshotInv, FreshList, PastGuard
  <2> QED BY <1>3, <2>1 DEF Reconcile, ThenEnsure
<1>4. CASE CheckPositions
  BY <1>4 DEF CheckPositions
<1>5. CASE Settle
  BY <1>0, <1>5 DEF Settle, KeepRow, SettleMonitored, SettleEmergency, SettleCommand,
     CloseRows
<1>6. CASE SettleRaises \/ EmergencyRaises \/ CloseLoopDone
  BY <1>6 DEF SettleRaises, EmergencyRaises, CloseLoopDone, EndCycle, Blank
<1>7. ASSUME NEW k \in Keys, CancelOldStop(k) PROVE CoverInv'
  <2>1. \A j \in Keys \ {k} : stops'[j] = stops[j]
    BY <1>0, <1>7, CancelElsewhere DEF CancelOldStop
  <2> QED BY <1>0, <1>7, <2>1 DEF CancelOldStop
<1>8. CASE PlaceMovedStop
  <2>1. /\ stops'[target] # NoStops
        /\ \A j \in Keys \ {target} : stops'[j] = stops[j]
    BY <1>0, <1>8, AskedStops DEF PlaceMovedStop, Levels
  <2> QED BY <1>0, <1>8, <2>1 DEF PlaceMovedStop
<1>9. CASE Enter
  BY <1>9 DEF Enter, GatherSignals, TakeSignal, CycleOver, EndCycle, Blank
<1> QED BY <1>1, <1>2, <1>3, <1>4, <1>5, <1>6, <1>7, <1>8, <1>9 DEF Monitor

(* The venue spends a stop only together with its position.                    *)
LEMMA CoverOthers ==
    ASSUME Typed, SnapshotInv, CoverInv,
           VenueStep \/ Pause \/ Resume \/ CooldownOver \/ Shutdown \/ Crash \/ UNCHANGED vars
    PROVE  CoverInv'
<1> USE DEF CoverInv, Covered, Tracked, Stopped, table, memory, switches
<1>0. stops \in [Keys -> Bundles] /\ pos \subseteq Keys
  BY DEF Typed, CoreTyped, VenueTypeOK
<1>1. ASSUME NEW k \in Keys, NEW l \in Levels, StopTriggers(k, l), VenueStep
      PROVE  CoverInv'
  <2>1. /\ \A j \in Keys \ {k} : stops'[j] = stops[j]
        /\ pos' = pos \ {k}
    BY <1>0, <1>1 DEF StopTriggers
  <2> QED BY <1>0, <1>1, <2>1 DEF VenueStep
<1>2. ASSUME NEW k \in Keys, PositionTaken(k) \/ EntryFillsLate(k), VenueStep
      PROVE  CoverInv'
  BY <1>2 DEF SnapshotInv, QuietBook, PositionTaken, EntryFillsLate, VenueStep
<1>3. CASE Pause \/ Resume \/ CooldownOver \/ Shutdown \/ Crash \/ UNCHANGED vars
  BY <1>3 DEF Pause, Resume, CooldownOver, Shutdown, Crash, Blank, venue, vars
<1> QED BY <1>1, <1>2, <1>3 DEF VenueStep, VenueMoves

(* Between cycles every recorded position has a stop, although requests to     *)
(* close or to cancel fail, stops are moved by deleting them first, and the    *)
(* process dies or is stopped between any two of its steps.                    *)
THEOREM RestIsProtected ==
    ASSUME PromptVenue, NoEmergency
    PROVE  Spec => []ProtectedAtRest
<1>0. TrustedList
  BY DEF NoEmergency, TrustedList
<1>1. Init => CoverInv
  BY DEF Init, VenueInit, CoverInv, Covered
<1>2. Typed /\ SnapshotInv /\ CoverInv /\ [Next]_vars => CoverInv'
  BY CoverExecutor, CoverCycle, CoverOthers DEF Next, BotStep
<1>3. CoverInv => ProtectedAtRest
  BY DEF CoverInv, Covered, ProtectedAtRest
<1> QED BY <1>0, <1>1, <1>2, <1>3, AlwaysTyped, AlwaysSnapshot, PTL DEF Spec

-----------------------------------------------------------------------------
(* Stops that were moved.                                                      *)

(* Deletions reach the venue and the process lives.                            *)
CancelsWork == {"algoQuery", "algoCancel", "crash"} \cap Faults = {}

(* What makes BreakevenHonoured inductive: a stop at the entry level of a row  *)
(* that says breakeven is queued to be moved, or belongs to an entry that is   *)
(* about to rewrite the row; and the queue is worked off by the monitor alone. *)
MoveInv ==
    /\ moves # {} => pc \in {"moves", "move"} \/ Monitoring
    /\ pc \in {"cancelEntries", "cancelAll"} => caller # "monitor"
    /\ \A k \in Keys : level[k] = "breakeven" /\ stops[k]["initial"] # 0
          => k \in moves \/ (pc \in {"protect", "record"} /\ k = target)

(* With them a request to delete deletes every stop of its keys.               *)
LEMMA CancelledStops ==
    ASSUME CancelsWork, NEW K, DeleteStops(K) \/ CancelStops(K)
    PROVE  stops' = [k \in Keys |-> IF k \in K THEN NoStops ELSE stops[k]]
BY DEF CancelsWork, DeleteStops, CancelStops

(* A stop is added at the level that was asked for.                            *)
LEMMA AddedLevel ==
    ASSUME stops \in [Keys -> Bundles], NEW k \in Keys, NEW l \in Levels,
           StopAccepted(k, l) \/ StopRaised(k, l)
    PROVE  /\ \A j \in Keys \ {k} : stops'[j] = stops[j]
           /\ l = "breakeven" => stops'[k]["initial"] = stops[k]["initial"]
<1>1. CASE UNCHANGED stops
  BY <1>1
<1>2. CASE AddStop(k, l)
  BY <1>2 DEF AddStop, Bundles, Levels
<1> QED BY <1>1, <1>2 DEF StopAccepted, StopRaised

(* The key that is named loses its stops or rewrites its row, or gets a stop   *)
(* at the level of its row.                                                    *)
LEMMA MoveExecutor ==
    ASSUME CancelsWork, Typed, MoveInv, ExecutorStep
    PROVE  MoveInv'
<1> USE DEF MoveInv, Monitoring, venue, table, memory, ExecutorStep
<1>0. /\ stops \in [Keys -> Bundles] /\ level \in [Keys -> RowLevels]
      /\ pc \in {"cancel", "protect", "record"} => target \in Keys
      /\ NoStops["initial"] = 0
  BY DEF Typed, CoreTyped, VenueTypeOK, TableTypeOK, TargetNamed, NoStops, Levels
<1>1. ASSUME NEW k \in Keys,
             CloseFills(k) \/ CloseUnconfirmed(k) \/ CloseRejected(k) \/ CloseRaises(k)
      PROVE  MoveInv'
  BY <1>1 DEF CloseFills, CloseUnconfirmed, CloseRejected, CloseRaises, BeginClose
<1>2. CASE CancelClosed
  BY <1>0, <1>2, CancelledStops DEF CancelClosed
<1>3. CASE CancelEntries
  BY <1>3 DEF CancelEntries
<1>4. CASE CancelAllStops
  BY <1>0, <1>4, CancelledStops DEF CancelAllStops, Blank
<1>5. CASE EntryFills \/ EntryMisses
  BY <1>5 DEF EntryFills, EntryMisses, TrancheOver, GiveUp
<1>6. CASE EntryUnfilled \/ EntryAssumed \/ EntryRaises
  BY <1>6 DEF EntryUnfilled, EntryAssumed, EntryRaises, TrancheOver, TryAgain, GiveUp
<1>7. CASE LadderRests \/ LadderRaises
  BY <1>7 DEF LadderRests, LadderRaises, TryAgain, GiveUp
<1>8. CASE ProtectEntry \/ ProtectRaises
  <2>1. \A j \in Keys \ {target} : stops'[j] = stops[j]
    BY <1>0, <1>8, AddedLevel DEF ProtectEntry, ProtectRaises, Levels
  <2> QED BY <1>0, <1>8, <2>1 DEF ProtectEntry, ProtectRaises
<1>9. CASE RecordEntry
  BY <1>0, <1>9 DEF RecordEntry, UpsertRow, Blank
<1>10. CASE QueryStops
  BY <1>10 DEF QueryStops
<1>11. ASSUME NEW k \in Keys, EnsureStop(k) PROVE MoveInv'
  <2>1. StopLevel(k) \in Levels /\ (level[k] = "breakeven" => StopLevel(k) = "breakeven")
    BY <1>0 DEF RowLevels, StopLevel, Levels
  <2>2. /\ \A j \in Keys \ {k} : stops'[j] = stops[j]
        /\ StopLevel(k) = "breakeven" => stops'[k]["initial"] = stops[k]["initial"]
    BY <1>0, <1>11, <2>1, AddedLevel DEF EnsureStop
  <2>3. /\ level'[k] = StopLevel(k)
        /\ \A j \in Keys \ {k} : level'[j] = level[j]
    BY <1>0, <1>11 DEF EnsureStop
  <2>4. StopLevel(k) = "breakeven" => level[k] = "breakeven"
    BY DEF StopLevel
  <2> QED BY <1>11, <2>2, <2>3, <2>4 DEF EnsureStop
<1>12. ASSUME NEW k \in Keys, CleanOrphan(k) PROVE MoveInv'
  BY <1>0, <1>12, CancelledStops DEF CleanOrphan
<1>13. CASE EnsureDone
  BY <1>13 DEF EnsureDone, Blank
<1> QED
  BY <1>1, <1>2, <1>3, <1>4, <1>5, <1>6, <1>7, <1>8, <1>9, <1>10, <1>11, <1>12, <1>13
  DEF ClosePosition, Execute, EnsureStops

(* Which keys may have a stop at an old level stays known in the steps of the *)
(* cycle.                                                                     *)
LEMMA MoveCycle ==
    ASSUME CancelsWork, Typed, MoveInv,
           StartUp \/ HeadOfCycle \/ Reconcile \/ Monitor \/ Enter
    PROVE  MoveInv'
<1> USE DEF MoveInv, Monitoring, venue, table, memory
<1>0. /\ stops \in [Keys -> Bundles] /\ level \in [Keys -> RowLevels]
      /\ pc \in {"staleStops", "move"} => target \in Keys
      /\ NoStops["initial"] = 0
  BY DEF Typed, CoreTyped, VenueTypeOK, TableTypeOK, TargetNamed, NoStops, Levels
<1>1. CASE StartUp
  <2>1. CASE Start
    BY <2>1 DEF Start
  <2>2. ASSUME NEW k \in Keys, CloseStaleRow(k) PROVE MoveInv'
    BY <2>2 DEF CloseStaleRow, CloseRows
  <2>3. CASE CancelStaleStops
    BY <1>0, <2>3, CancelledStops DEF CancelStaleStops
  <2>4. CASE AdoptPositions \/ CancelStaleEntries
    BY <2>4 DEF AdoptPositions, CancelStaleEntries
  <2> QED BY <1>1, <2>1, <2>2, <2>3, <2>4 DEF StartUp
<1>2. CASE HeadOfCycle
  <2>1. CASE PausedCycle \/ BeginCycle \/ ReadAccount \/ TripBreaker \/ BreakerHolds
    BY <2>1 DEF PausedCycle, BeginCycle, ReadAccount, TripBreaker, BreakerHolds,
       EndCycle, Blank
  <2>2. CASE CloseAllCommand \/ BreakerCloses
    BY <2>2 DEF CloseAllCommand, BreakerCloses, BeginEmergency
  <2>3. ASSUME NEW s \in Symbols, CloseCommand(s) PROVE MoveInv'
    BY <2>3 DEF CloseCommand
  <2>4. CASE GuardTrips \/ GuardHolds \/ GuardPasses
    BY <2>4 DEF GuardTrips, GuardHolds, GuardPasses, EndCycle, Blank
  <2> QED BY <1>2, <2>1, <2>2, <2>3, <2>4 DEF HeadOfCycle
<1>3. CASE Reconcile
  BY <1>3 DEF Reconcile, SyncedLevel, ThenEnsure
<1>4. CASE CheckPositions
  BY <1>4 DEF CheckPositions
<1>5. CASE Settle
  BY <1>5 DEF Settle, KeepRow, SettleMonitored, SettleEmergency, SettleCommand, CloseRows
<1>6. CASE SettleRaises \/ EmergencyRaises \/ CloseLoopDone
  BY <1>6 DEF SettleRaises, EmergencyRaises, CloseLoopDone, EndCycle, Blank
<1>7. ASSUME NEW k \in Keys, CancelOldStop(k) PROVE MoveInv'
  BY <1>0, <1>7, CancelledStops DEF CancelOldStop
<1>8. CASE PlaceMovedStop
  <2>1. \A j \in Keys : stops'[j]["initial"] = stops[j]["initial"]
    BY <1>0, <1>8, AddedLevel DEF PlaceMovedStop, Levels
  <2> QED BY <1>8, <2>1 DEF PlaceMovedStop
<1>9. CASE Enter
  BY <1>9 DEF Enter, GatherSignals, TakeSignal, CycleOver, EndCycle, Blank
<1> QED BY <1>1, <1>2, <1>3, <1>4, <1>5, <1>6, <1>7, <1>8, <1>9 DEF Monitor

(* And in those of the venue, the table's other writers, and a stop of the    *)
(* process.                                                                   *)
LEMMA MoveOthers ==
    ASSUME CancelsWork, Typed, MoveInv,
           VenueStep \/ Pause \/ Resume \/ CooldownOver \/ Shutdown \/ Crash \/ UNCHANGED vars
    PROVE  MoveInv'
<1> USE DEF MoveInv, Monitoring, venue, table, memory
<1>0. stops \in [Keys -> Bundles]
  BY DEF Typed, CoreTyped, VenueTypeOK
<1>1. ASSUME NEW k \in Keys, NEW l \in Levels, StopTriggers(k, l), VenueStep
      PROVE  MoveInv'
  <2>1. \A j \in Keys : stops[j]["initial"] = 0 => stops'[j]["initial"] = 0
    BY <1>0, <1>1 DEF StopTriggers, Bundles, Levels
  <2> QED BY <1>1, <2>1 DEF VenueStep
<1>2. ASSUME NEW k \in Keys, PositionTaken(k) \/ EntryFillsLate(k), VenueStep
      PROVE  MoveInv'
  BY <1>2 DEF PositionTaken, EntryFillsLate, VenueStep
<1>3. CASE Pause \/ Resume \/ CooldownOver \/ Shutdown \/ Crash \/ UNCHANGED vars
  BY <1>3 DEF CancelsWork, Pause, Resume, CooldownOver, Shutdown, Crash, vars
<1> QED BY <1>1, <1>2, <1>3 DEF VenueStep, VenueMoves

(* Once a cycle is over no position whose row says breakeven has a stop at its *)
(* entry level, whatever the venue answers to orders, stops and account reads, *)
(* as long as deletions reach it and the process lives.                        *)
THEOREM MovedStopsStay ==
    ASSUME CancelsWork
    PROVE  Spec => []BreakevenHonoured
<1>1. Init => MoveInv
  BY DEF Init, VenueInit, MoveInv, NoStops, Levels
<1>2. Typed /\ MoveInv /\ [Next]_vars => MoveInv'
  BY MoveExecutor, MoveCycle, MoveOthers DEF Next, BotStep
<1>3. MoveInv => BreakevenHonoured
  BY DEF MoveInv, Monitoring, BreakevenHonoured, Tracked
<1> QED BY <1>1, <1>2, <1>3, AlwaysTyped, PTL DEF Spec
=============================================================================
