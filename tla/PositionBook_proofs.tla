-------------------------- MODULE PositionBook_proofs --------------------------
(* TradingCycle implements PositionBook, for every number of symbols, stops,    *)
(* retries and positions, with crashes, failed stops and failed closes, as long *)
(* as the venue answers at once and account reads do not fail.                  *)
EXTENDS TradingCycle_proofs

(* A step moves at most one position: it ends, or it is the entry that is being *)
(* executed.                                                                    *)
LEMMA OneMove ==
    ASSUME PromptVenue, Typed, QuietBook, [Next]_vars
    PROVE  \/ pos' = pos
           \/ \E k \in pos : pos' = pos \ {k}
           \/ pc = "entry" /\ target \in Keys /\ pos' = pos \cup {target}
<1> USE DEF PromptVenue, QuietBook, venue
<1>1. CASE StartUp
  BY <1>1 DEF StartUp, Start, CloseStaleRow, CancelStaleStops, AdoptPositions,
     CancelStaleEntries
<1>2. CASE HeadOfCycle
  BY <1>2 DEF HeadOfCycle, PausedCycle, BeginCycle, CloseCommand, CloseAllCommand,
     BreakerCloses, BeginEmergency, ReadAccount, TripBreaker, BreakerHolds, GuardTrips,
     GuardHolds, GuardPasses
<1>3. CASE Reconcile \/ Monitor \/ Enter
  BY <1>3 DEF Reconcile, Monitor, CheckPositions, Settle, SettleRaises, EmergencyRaises,
     CloseLoopDone, CancelOldStop, PlaceMovedStop, Enter, GatherSignals, TakeSignal, CycleOver
<1>4. CASE ExecutorStep
  <2>1. CASE ClosePosition \/ CancelEntries \/ CancelAllStops
    BY <2>1 DEF ClosePosition, CloseFills, CloseUnconfirmed, CloseRejected,
       CloseRaises, BeginClose, CancelClosed, CancelEntries, CancelAllStops
  <2>2. CASE Execute
    <3>1. pc = "entry" => target \in Keys
      BY DEF Typed, CoreTyped, TargetNamed
    <3> QED BY <2>2, <3>1 DEF Execute, EntryFills, EntryMisses, EntryUnfilled, EntryAssumed,
       EntryRaises, LadderRests, LadderRaises, ProtectEntry, ProtectRaises, RecordEntry,
       Opens, RestsOnBook
  <2>3. CASE EnsureStops
    BY <2>3 DEF EnsureStops, QueryStops, EnsureStop, CleanOrphan, EnsureDone
  <2> QED BY <1>4, <2>1, <2>2, <2>3 DEF ExecutorStep
<1>5. CASE VenueStep
  <2>1. ASSUME NEW k \in Keys, NEW l \in Levels, StopTriggers(k, l)
        PROVE  pos' = pos \/ \E j \in pos : pos' = pos \ {j}
    BY <2>1 DEF StopTriggers
  <2>2. ASSUME NEW k \in Keys, PositionTaken(k)
        PROVE  \E j \in pos : pos' = pos \ {j}
    BY <2>2 DEF PositionTaken
  <2>3. ASSUME NEW k \in Keys, EntryFillsLate(k)
        PROVE  FALSE
    BY <2>3 DEF EntryFillsLate
  <2> QED BY <1>5, <2>1, <2>2, <2>3 DEF VenueStep, VenueMoves
<1>6. CASE Pause \/ Resume \/ CooldownOver \/ Shutdown \/ Crash \/ UNCHANGED vars
  BY <1>6 DEF Pause, Resume, CooldownOver, Shutdown, Crash, vars
<1> QED BY <1>1, <1>2, <1>3, <1>4, <1>5, <1>6 DEF Next, BotStep

(* The steps that write the table leave the positions alone.                    *)
LEMMA TableOrPositions ==
    ASSUME [Next]_vars
    PROVE  UNCHANGED rows \/ UNCHANGED pos
<1> USE DEF venue, table
<1>1. CASE ~TableStep
  BY <1>1, TableKept
<1>2. CASE TableStep
  BY <1>2 DEF TableStep, CloseStaleRow, AdoptPositions, Reconcile, CheckPositions, Settle,
     RecordEntry, EnsureStop
<1> QED BY <1>1, <1>2

(* The instance has a copy of the library's operator.                           *)
LEMMA SameCardinality ==
    ASSUME NEW S
    PROVE  Book!Cardinality(S) = Cardinality(S)
BY DEF Book!Cardinality, Cardinality, Book!IsFiniteSet, IsFiniteSet

LEMMA HeldIsPos ==
    ASSUME Typed
    PROVE  Book!Held = pos
BY DEF Typed, CoreTyped, VenueTypeOK, Book!Held, Phase, Book!Keys, Keys

(* A step that only writes the table gives rows to positions, or changes        *)
(* nothing the book shows.                                                      *)
LEMMA TableStepManages ==
    ASSUME Typed, Typed', UNCHANGED pos,
           \A k \in Keys : rows[k] > 0 /\ rows'[k] = 0 => k \notin pos
    PROVE  Book!Manage({k \in Keys : k \in pos /\ k \in Tracked' /\ k \notin Tracked})
<1> DEFINE K == {k \in Keys : k \in pos /\ k \in Tracked' /\ k \notin Tracked}
<1>0. rows \in [Keys -> Nat] /\ rows' \in [Keys -> Nat]
  BY DEF Typed, CoreTyped, TableTypeOK
<1>1. \A k \in K : Phase[k] = "open"
  BY DEF Phase
<1>2. ASSUME NEW k \in Keys
      PROVE  Phase'[k] = IF k \in K THEN "managed" ELSE Phase[k]
  <2>1. CASE k \notin pos
    BY <2>1 DEF Phase
  <2>2. CASE k \in pos /\ k \in Tracked
    <3>1. k \in Tracked'
      BY <1>0, <2>2 DEF Tracked
    <3> QED BY <2>2, <3>1 DEF Phase
  <2>3. CASE k \in pos /\ k \notin Tracked
    BY <2>3 DEF Phase
  <2> QED BY <2>1, <2>2, <2>3
<1>3. Phase' = [k \in Keys |-> IF k \in K THEN "managed" ELSE Phase[k]]
  BY <1>2 DEF Phase
<1> QED BY <1>1, <1>3 DEF Book!Manage, Book!Keys, Keys

(* Every step of the bot and of the venue is a step of the book, or none.       *)
LEMMA StepOfTheBook ==
    ASSUME PromptVenue, HonestAccount, Typed, Typed', SnapshotInv, GoneInv, PositionCap,
           [Next]_vars
    PROVE  [Book!Next]_Phase
<1>0. pos \subseteq Keys /\ pos' \subseteq Keys /\ Book!Keys = Keys
  BY DEF Typed, CoreTyped, VenueTypeOK, Book!Keys, Keys
<1>1. CASE UNCHANGED pos
  <2> DEFINE K == {k \in Keys : k \in pos /\ k \in Tracked' /\ k \notin Tracked}
  <2>1. Book!Manage(K)
    BY <1>1, CloseHasEvidence, TableStepManages
  <2>2. K \in SUBSET Book!Keys
    BY <1>0
  <2> QED BY <2>1, <2>2 DEF Book!Next
<1>2. ASSUME NEW k \in pos, pos' = pos \ {k}, UNCHANGED rows
      PROVE  Book!Next
  <2>1. Phase[k] # "flat"
    BY <1>0 DEF Phase
  <2>2. Phase' = [Phase EXCEPT ![k] = "flat"]
    BY <1>0, <1>2 DEF Phase, Tracked
  <2> QED BY <1>0, <2>1, <2>2 DEF Book!Next, Book!End
<1>3. ASSUME pc = "entry", target \in Keys, pos' = pos \cup {target}, UNCHANGED rows
      PROVE  Book!Next
  <2>1. pos \subseteq positions
    BY <1>3 DEF SnapshotInv, FreshList, PastGuard
  <2>2. Cardinality(positions) < MaxPositions /\ \A p \in positions : Symbol(p) # Symbol(target)
    BY <1>3 DEF SnapshotInv, Permitted, MayEnter
  <2>3. IsFiniteSet(positions)
    <3>1. IsFiniteSet(Keys)
      BY VenueAssumption, FS_Product DEF Keys
    <3> QED BY <3>1, FS_Subset DEF Typed, CoreTyped, MemoryTypeOK
  <2>4. Cardinality(pos) < MaxPositions
    <3>1. Cardinality(pos) <= Cardinality(positions) /\ IsFiniteSet(pos)
      BY <2>1, <2>3, FS_Subset
    <3>2. Cardinality(pos) \in Nat /\ Cardinality(positions) \in Nat
      BY <2>3, <3>1, FS_CardinalityType
    <3> QED BY <2>2, <3>1, <3>2, CycleAssumption
  <2>5. \A j \in pos : j[1] # target[1]
    BY <2>1, <2>2 DEF Symbol
  <2>6. Phase' = [Phase EXCEPT ![target] = IF target \in Tracked THEN "managed" ELSE "open"]
    BY <1>0, <1>3 DEF Phase, Tracked
  <2>7. Book!Enter(target)
    BY <2>4, <2>5, <2>6, HeldIsPos, SameCardinality DEF Book!Enter
  <2> QED BY <1>3, <1>0, <2>7 DEF Book!Next
<1> QED BY <1>1, <1>2, <1>3, OneMove, TableOrPositions DEF SnapshotInv

(* The trading cycle implements the book: whatever crashes, stops that fire and *)
(* reconciliations come in between, positions are entered one at a time below   *)
(* the limit on free symbols, and their rows are closed after them.             *)
THEOREM CycleImplementsBook ==
    ASSUME PromptVenue, HonestAccount
    PROVE  Spec => LivesAsPromised
<1>0. TrustedList
  BY DEF HonestAccount, TrustedList
<1>1. Init => Book!Init
  BY DEF Init, VenueInit, Book!Init, Phase, Book!Keys, Keys
<1>2. Init => GoneInv
  BY DEF Init, GoneInv
<1>3. Typed /\ Typed' /\ SnapshotInv /\ GoneInv /\ PositionCap /\ [Next]_vars
        => [Book!Next]_Phase
  BY StepOfTheBook
<1>4. SnapshotInv /\ GoneInv /\ [Next]_vars => GoneInv'
  BY GoneStep
<1> QED BY <1>0, <1>1, <1>2, <1>3, <1>4, AlwaysTyped, AlwaysSnapshot, LimitRespected, PTL
        DEF Spec, LivesAsPromised, Book!Spec
=============================================================================
