------------------------- MODULE WatchdogDaemon_proofs -------------------------
(* Theorems about WatchdogDaemon, for any number of processes and workers and   *)
(* any limits.                                                                  *)
EXTENDS WatchdogDaemon, FiniteSetTheorems, TLAPS

(* A thread that is about to append or to filter has bound a list to do it to.  *)
HoldsList == \A t \in Threads : at[t] \in {"append", "filter"} => bound[t] # NoList

Inv == TypeOK /\ HoldsList

-----------------------------------------------------------------------------
(* Where threads go.                                                         *)

Elsewhere == Labels \ {"append", "filter"}

LEMMA ThreadsFinite ==
  /\ IsFiniteSet(Threads) /\ Cardinality(Threads) \in Nat
  /\ 1 \in Lists /\ NoList \notin Lists
<1>1. IsFiniteSet({"heartbeat", "log"})
  <2>1. {"heartbeat", "log"} = {"heartbeat"} \cup {"log"}
    OBVIOUS
  <2>2. IsFiniteSet({"heartbeat"}) /\ IsFiniteSet({"log"})
    BY FS_Singleton
  <2> QED
    BY <2>1, <2>2, FS_Union
<1>2. IsFiniteSet(Threads)
  BY <1>1, FS_Union, RouterAssumption DEF RouterAssumption, Threads
<1>3. Cardinality(Threads) \in Nat
  BY <1>2, FS_CardinalityType
<1> QED
  BY <1>2, <1>3 DEF Lists, NoList

LEMMA AfterRestartElsewhere ==
  ASSUME NEW t \in Threads PROVE AfterRestart(t) \in Elsewhere
BY DEF AfterRestart, Elsewhere, Labels

LEMMA AfterStopElsewhere ==
  ASSUME NEW g \in Goals PROVE AfterStop(g) \in Elsewhere
BY DEF AfterStop, Elsewhere, Labels, Goals

(* A thread that goes where no list is needed.                                  *)
LEMMA GotoElsewhere ==
  ASSUME Inv, NEW t \in Threads, NEW l \in Elsewhere, Goto(t, l), UNCHANGED bound
  PROVE  at' \in [Threads -> Labels] /\ HoldsList'
<1>1. at \in [Threads -> Labels] /\ l \in Labels /\ l \notin {"append", "filter"}
  BY DEF Inv, TypeOK, Elsewhere
<1>2. at' \in [Threads -> Labels]
  BY <1>1 DEF Goto
<1>3. \A u \in Threads : at'[u] \in {"append", "filter"} => at[u] = at'[u]
  BY <1>1 DEF Goto
<1> QED
  BY <1>2, <1>3 DEF HoldsList, Inv

(* The state without the threads' places and the restart limit.                 *)
RestTyped ==
    /\ alive \subseteq Processes /\ held \in ProcessOrNone
    /\ status \in Statuses /\ calls \in 0..MaxCalls
    /\ stopping \in BOOLEAN /\ lock \in LockStates /\ asked \in BOOLEAN
    /\ joined \in [Threads -> ProcessOrNone] /\ goal \in [Threads -> Goals]
    /\ job \in [Workers -> Jobs] /\ seen \in [Workers -> 0..MaxCalls]

LEMMA InvParts ==
  ASSUME Inv
  PROVE  /\ TypeOK /\ RestTyped /\ at \in [Threads -> Labels]
         /\ RouterTypeOK /\ HoldsList
BY DEF Inv, TypeOK, RestTyped

LEMMA InvFromParts ==
  ASSUME RestTyped', at' \in [Threads -> Labels], RouterTypeOK', HoldsList'
  PROVE  Inv'
BY DEF Inv, TypeOK, RestTyped

LEMMA RouterKept ==
  ASSUME Inv, RestTyped', at' \in [Threads -> Labels], HoldsList', UNCHANGED router
  PROVE  Inv'
<1>1. RouterTypeOK'
  BY DEF router, RouterTypeOK, Inv, TypeOK
<1> QED
  BY <1>1, InvFromParts

-----------------------------------------------------------------------------
(* The restart limit's own steps.                                            *)

LEMMA ReferredTyped ==
  ASSUME NEW objects \in [Lists -> SUBSET Records], NEW now, NEW refs
  PROVE  Referred(objects, now, refs) \in [Lists -> SUBSET Records]
BY DEF Referred

LEMMA UnboundTyped ==
  ASSUME RouterTypeOK, NEW t \in Threads, Unbound(t)
  PROVE  /\ bound' \in [Threads -> Lists \cup {NoList}]
         /\ \A u \in Threads \ {t} : bound'[u] = bound[u]
BY DEF RouterTypeOK, Unbound

LEMMA BindListTyped ==
  ASSUME RouterTypeOK, NEW t \in Threads, BindList(t)
  PROVE  /\ RouterTypeOK' /\ bound'[t] \in Lists
         /\ \A u \in Threads \ {t} : bound'[u] = bound[u]
BY DEF RouterTypeOK, BindList

LEMMA AppendRecordTyped ==
  ASSUME RouterTypeOK, NEW t \in Threads, AppendRecord(t)
  PROVE  RouterTypeOK' /\ \A u \in Threads \ {t} : bound'[u] = bound[u]
<1>1. PICK r \in Records :
        /\ content' = Referred([content EXCEPT ![bound[t]] = @ \cup {r}], current, bound')
        /\ mine' = [mine EXCEPT ![t] = r]
        /\ Unbound(t) /\ UNCHANGED <<current, kept, restarted>>
  BY DEF AppendRecord
<1> DEFINE appended == [content EXCEPT ![bound[t]] = @ \cup {r}]
<1>2. appended \in [Lists -> SUBSET Records]
  BY DEF RouterTypeOK
<1>3. content' \in [Lists -> SUBSET Records]
  BY <1>1, <1>2, ReferredTyped
<1>4. mine' \in [Threads -> Records \cup {NoRecord}]
  BY <1>1 DEF RouterTypeOK
<1> QED
  BY <1>1, <1>3, <1>4, UnboundTyped DEF RouterTypeOK

LEMMA FilterRecordsTyped ==
  ASSUME RouterTypeOK, NEW t \in Threads, bound[t] # NoList, FilterRecords(t)
  PROVE  RouterTypeOK' /\ \A u \in Threads \ {t} : bound'[u] = bound[u]
<1>1. content' \in [Lists -> SUBSET Records]
  BY ReferredTyped DEF FilterRecords, RouterTypeOK
<1>2. kept' \in [Threads -> SUBSET Records]
  BY DEF FilterRecords, RouterTypeOK
<1>3. Unbound(t) /\ UNCHANGED <<current, mine, restarted>>
  BY DEF FilterRecords
<1> QED
  BY <1>1, <1>2, <1>3, UnboundTyped DEF RouterTypeOK

LEMMA RebindListTyped ==
  ASSUME RouterTypeOK, NEW t \in Threads, RebindList(t)
  PROVE  RouterTypeOK' /\ UNCHANGED bound
<1>1. PICK l \in Lists :
        /\ current' = l
        /\ content' = Referred([content EXCEPT ![l] = kept[t]], l, bound)
  BY DEF RebindList, Unreferred
<1> DEFINE renewed == [content EXCEPT ![l] = kept[t]]
<1>2. renewed \in [Lists -> SUBSET Records]
  BY DEF RouterTypeOK
<1>3. content' \in [Lists -> SUBSET Records]
  BY <1>1, <1>2, ReferredTyped
<1>4. kept' \in [Threads -> SUBSET Records] /\ UNCHANGED <<bound, mine, restarted>>
  BY DEF RebindList, RouterTypeOK
<1> QED
  BY <1>1, <1>3, <1>4 DEF RouterTypeOK

LEMMA RestartOverTyped ==
  ASSUME RouterTypeOK, NEW t \in Threads, RestartDone(t) \/ RestartGivenUp(t)
  PROVE  RouterTypeOK' /\ UNCHANGED bound
<1>1. mine' \in [Threads -> Records \cup {NoRecord}]
  BY DEF RestartDone, RestartGivenUp, RouterTypeOK
<1>2. restarted' \subseteq Records /\ UNCHANGED <<content, current, bound, kept>>
  BY DEF RestartDone, RestartGivenUp, RouterTypeOK
<1> QED
  BY <1>1, <1>2 DEF RouterTypeOK

LEMMA RouterForgottenTyped ==
  ASSUME RouterTypeOK, RouterForgotten
  PROVE  RouterTypeOK'
BY ThreadsFinite DEF RouterForgotten, RouterTypeOK

LEMMA RecordExpiresTyped ==
  ASSUME RouterTypeOK, NEW r \in Records, RecordExpires(r)
  PROVE  RouterTypeOK' /\ UNCHANGED bound
BY DEF RecordExpires, RouterTypeOK

LEMMA ForgottenTyped ==
  ASSUME Forgotten
  PROVE  /\ held' \in ProcessOrNone /\ stopping' \in BOOLEAN /\ lock' \in LockStates
         /\ asked' \in BOOLEAN /\ joined' \in [Threads -> ProcessOrNone]
         /\ goal' \in [Threads -> Goals] /\ job' \in [Workers -> Jobs]
         /\ seen' \in [Workers -> 0..MaxCalls]
<1>1. held' \in ProcessOrNone /\ lock' \in LockStates
  BY DEF Forgotten, ProcessOrNone, LockStates
<1>2. stopping' \in BOOLEAN /\ asked' \in BOOLEAN
  BY Zenon DEF Forgotten
<1>3. joined' \in [Threads -> ProcessOrNone] /\ goal' \in [Threads -> Goals]
  BY DEF Forgotten, ProcessOrNone, Goals
<1>4. job' \in [Workers -> Jobs]
  BY DEF Forgotten, Jobs
<1>5. seen' \in [Workers -> 0..MaxCalls]
  BY DaemonAssumption DEF DaemonAssumption, Forgotten
<1> QED
  BY <1>1, <1>2, <1>3, <1>4, <1>5

(* The daemon has ended, or has just started.                                *)
LEMMA NoneHolds ==
  ASSUME NEW l \in {"down", "idle"}, at' = [t \in Threads |-> l]
  PROVE  at' \in [Threads -> Labels] /\ HoldsList'
BY DEF Labels, HoldsList

LEMMA EndedStep ==
  ASSUME Inv, Forgotten, at' = [t \in Threads |-> "down"],
         alive' \subseteq Processes, status' \in Statuses, UNCHANGED calls
  PROVE  Inv'
<1>1. RouterTypeOK'
  BY InvParts, RouterForgottenTyped DEF Forgotten
<1>2. RestTyped'
  BY InvParts, ForgottenTyped DEF RestTyped
<1>3. at' \in [Threads -> Labels] /\ HoldsList'
  BY NoneHolds
<1> QED
  BY <1>1, <1>2, <1>3, InvFromParts

-----------------------------------------------------------------------------
(* The steps of restart_bot.                                                 *)

(* A thread goes on inside restart_bot; the others' lists are what they were.   *)
LEMMA RouterStep ==
  ASSUME Inv, NEW t \in Threads, NEW l \in Labels, Goto(t, l), RouterTypeOK', RestTyped',
         \A u \in Threads \ {t} : bound'[u] = bound[u],
         l \in {"append", "filter"} => bound'[t] # NoList
  PROVE  Inv'
<1>1. at \in [Threads -> Labels] /\ HoldsList
  BY InvParts
<1>2. at' \in [Threads -> Labels] /\ HoldsList'
  BY <1>1 DEF Goto, HoldsList
<1> QED
  BY <1>2, InvFromParts

LEMMA RestartAcceptedStep ==
  ASSUME Inv, NEW t \in Threads, RestartAccepted(t)
  PROVE  Inv'
<1>1. RestTyped'
  BY InvParts DEF RestartAccepted, RestTyped
<1>2. RouterTypeOK' /\ bound'[t] # NoList /\ \A u \in Threads \ {t} : bound'[u] = bound[u]
  BY InvParts, BindListTyped, ThreadsFinite DEF RestartAccepted
<1> QED
  BY <1>1, <1>2, RouterStep DEF RestartAccepted, Labels

LEMMA RecordRestartStep ==
  ASSUME Inv, NEW t \in Threads, RecordRestart(t)
  PROVE  Inv'
<1>1. RestTyped'
  BY InvParts DEF RecordRestart, RestTyped
<1>2. RouterTypeOK' /\ \A u \in Threads \ {t} : bound'[u] = bound[u]
  BY InvParts, AppendRecordTyped DEF RecordRestart
<1> QED
  BY <1>1, <1>2, RouterStep DEF RecordRestart, Labels

LEMMA DropOldRestartsStep ==
  ASSUME Inv, NEW t \in Threads, DropOldRestarts(t)
  PROVE  Inv'
<1>1. RestTyped'
  BY InvParts DEF DropOldRestarts, RestTyped
<1>2. CASE at[t] = "limit" /\ BindList(t) /\ Goto(t, "filter")
  <2>1. RouterTypeOK' /\ bound'[t] # NoList /\ \A u \in Threads \ {t} : bound'[u] = bound[u]
    BY <1>2, InvParts, BindListTyped, ThreadsFinite
  <2> QED
    BY <1>1, <1>2, <2>1, RouterStep DEF Labels
<1>3. CASE at[t] = "filter" /\ FilterRecords(t) /\ Goto(t, "rebind")
  <2>1. bound[t] # NoList
    BY <1>3, InvParts DEF HoldsList
  <2>2. RouterTypeOK' /\ \A u \in Threads \ {t} : bound'[u] = bound[u]
    BY <1>3, <2>1, InvParts, FilterRecordsTyped
  <2> QED
    BY <1>1, <1>3, <2>2, RouterStep DEF Labels
<1>4. CASE at[t] = "rebind" /\ RebindList(t) /\ Goto(t, "check")
  <2>1. RouterTypeOK' /\ \A u \in Threads \ {t} : bound'[u] = bound[u]
    BY <1>4, InvParts, RebindListTyped
  <2> QED
    BY <1>1, <1>4, <2>1, RouterStep DEF Labels
<1> QED
  BY <1>2, <1>3, <1>4 DEF DropOldRestarts

LEMMA CheckLimitStep ==
  ASSUME Inv, NEW t \in Threads, CheckLimit(t)
  PROVE  Inv'
<1>1. goal' \in [Threads -> Goals]
  BY InvParts DEF CheckLimit, RestTyped, Goals
<1>2. RestTyped'
  BY <1>1, InvParts DEF CheckLimit, RestTyped
<1>3. RouterTypeOK' /\ UNCHANGED bound
  <2>1. CASE RestartGivenUp(t)
    BY <2>1, InvParts, RestartOverTyped
  <2>2. CASE UNCHANGED router
    BY <2>2, InvParts DEF router, RouterTypeOK
  <2> QED
    BY <2>1, <2>2 DEF CheckLimit
<1> QED
  BY <1>2, <1>3, RouterStep DEF CheckLimit, Labels

LEMMA StopBotStep ==
  ASSUME Inv, NEW t \in Threads, StopBot(t)
  PROVE  Inv'
<1>1. TypeOK /\ RestTyped /\ goal[t] \in Goals
  BY InvParts DEF RestTyped
<1>2. AfterStop(goal[t]) \in Elsewhere
  BY <1>1, AfterStopElsewhere
<1>3. ASSUME Stopped(t), UNCHANGED router
      PROVE  /\ at' \in [Threads -> Labels] /\ HoldsList'
             /\ stopping' \in BOOLEAN /\ goal' \in [Threads -> Goals]
             /\ joined' \in [Threads -> ProcessOrNone]
             /\ UNCHANGED <<asked, job, seen>>
  <2>1. at' \in [Threads -> Labels] /\ HoldsList'
    BY <1>1, <1>2, <1>3, GotoElsewhere DEF Stopped, router
  <2>2. stopping' \in BOOLEAN
    BY <1>1, <1>3 DEF Stopped, RestTyped
  <2> QED
    BY <1>1, <1>3, <2>1, <2>2 DEF Stopped, RestTyped, Goals, ProcessOrNone
<1>4. CASE NothingToStop(t)
  <2>1. RestTyped'
    BY <1>1, <1>3, <1>4 DEF NothingToStop, RestTyped
  <2> QED
    BY <1>3, <1>4, <2>1, RouterKept DEF NothingToStop
<1>5. CASE Terminate(t)
  <2>1. RestTyped'
    BY <1>1, <1>5 DEF Terminate, RestTyped
  <2>2. at' \in [Threads -> Labels] /\ HoldsList'
    BY <1>1, <1>5, GotoElsewhere DEF Terminate, Elsewhere, Labels, router
  <2> QED
    BY <1>5, <2>1, <2>2, RouterKept DEF Terminate
<1>6. CASE Exited(t)
  <2>1. RestTyped'
    BY <1>1, <1>3, <1>6 DEF Exited, LetGo, RestTyped, ProcessOrNone, Statuses
  <2> QED
    BY <1>3, <1>6, <2>1, RouterKept DEF Exited, LetGo
<1>7. CASE Kill(t)
  <2>1. RestTyped'
    BY <1>1, <1>3, <1>7 DEF Kill, LetGo, RestTyped, ProcessOrNone, Statuses
  <2> QED
    BY <1>3, <1>7, <2>1, RouterKept DEF Kill, LetGo
<1>8. CASE KillRaises(t)
  <2>1. asked' \in BOOLEAN
    BY <1>1, <1>8 DEF KillRaises, Thrown, RestTyped
  <2>2. RestTyped'
    BY <1>1, <1>8, <2>1 DEF KillRaises, Thrown, RestTyped, ProcessOrNone, Goals
  <2>3. RouterTypeOK' /\ UNCHANGED bound
    BY <1>8, InvParts, RestartOverTyped DEF KillRaises, Thrown
  <2>4. at' \in [Threads -> Labels] /\ HoldsList'
    BY <1>8, <2>3, GotoElsewhere DEF KillRaises, Thrown, Elsewhere, Labels
  <2> QED
    BY <2>2, <2>3, <2>4, InvFromParts
<1>9. CASE LastKillRaises(t)
  BY <1>1, <1>9, EndedStep DEF LastKillRaises, RestTyped
<1> QED
  BY <1>4, <1>5, <1>6, <1>7, <1>8, <1>9 DEF StopBot

LEMMA RestartBotStep ==
  ASSUME Inv, NEW t \in Threads, RestartBot(t)
  PROVE  Inv'
<1>1. TypeOK /\ RestTyped /\ AfterRestart(t) \in Elsewhere
  BY InvParts, AfterRestartElsewhere
<1>2. CASE RestartRefused(t)
  <2>1. RestTyped'
    BY <1>1, <1>2 DEF RestartRefused, RestTyped
  <2>2. at' \in [Threads -> Labels] /\ HoldsList'
    BY <1>1, <1>2, GotoElsewhere DEF RestartRefused, router
  <2> QED
    BY <1>2, <2>1, <2>2, RouterKept DEF RestartRefused
<1>3. CASE StartBot(t)
  <2>0. RouterTypeOK' /\ UNCHANGED bound
    BY <1>3, InvParts, RestartOverTyped DEF StartBot
  <2>1. RestTyped'
    BY <1>1, <1>3 DEF StartBot, RestTyped, Unused, ProcessOrNone, Statuses
  <2>2. at' \in [Threads -> Labels] /\ HoldsList'
    BY <1>1, <1>3, <2>0, GotoElsewhere DEF StartBot
  <2> QED
    BY <2>0, <2>1, <2>2, InvFromParts
<1>4. CASE MarkTerminal(t)
  <2>1. RestTyped'
    BY <1>1, <1>4 DEF MarkTerminal, RestTyped, Statuses
  <2>2. at' \in [Threads -> Labels] /\ HoldsList'
    BY <1>1, <1>4, GotoElsewhere DEF MarkTerminal, router
  <2> QED
    BY <1>4, <2>1, <2>2, RouterKept DEF MarkTerminal
<1> QED
  BY <1>2, <1>3, <1>4, RestartAcceptedStep, RecordRestartStep, DropOldRestartsStep,
     CheckLimitStep, StopBotStep DEF RestartBot

-----------------------------------------------------------------------------
(* The steps of the heartbeat and of the log thread.                         *)

LEMMA HeartbeatStep ==
  ASSUME Inv, Heartbeat
  PROVE  Inv'
<1>1. TypeOK /\ RestTyped /\ "heartbeat" \in Threads /\ MaxCalls \in Nat
  BY InvParts, DaemonAssumption DEF DaemonAssumption, Threads
<1>2. CASE RestartCommand
  <2>1. RestTyped'
    BY <1>1, <1>2 DEF RestartCommand, RestTyped
  <2>2. at' \in [Threads -> Labels] /\ HoldsList'
    BY <1>1, <1>2, GotoElsewhere DEF RestartCommand, Elsewhere, Labels, Beating, Threads, router
  <2> QED
    BY <1>2, <2>1, <2>2, RouterKept DEF RestartCommand
<1>3. CASE AckRestart
  <2>1. RestTyped'
    BY <1>1, <1>3 DEF AckRestart, RestTyped, Statuses
  <2>2. at' \in [Threads -> Labels] /\ HoldsList'
    BY <1>1, <1>3, GotoElsewhere DEF AckRestart, Elsewhere, Labels, Beating, Threads, router
  <2> QED
    BY <1>3, <2>1, <2>2, RouterKept DEF AckRestart
<1>4. CASE StopCommand
  <2>1. RestTyped'
    BY <1>1, <1>4 DEF StopCommand, RestTyped, Goals
  <2>2. at' \in [Threads -> Labels] /\ HoldsList'
    BY <1>1, <1>4, GotoElsewhere DEF StopCommand, Elsewhere, Labels, Beating, Threads, router
  <2> QED
    BY <1>4, <2>1, <2>2, RouterKept DEF StopCommand
<1>5. CASE BeatTerminal
  <2>1. RestTyped'
    BY <1>1, <1>5 DEF BeatTerminal, RestTyped
  <2>2. at' \in [Threads -> Labels] /\ HoldsList'
    BY <1>1, <1>5, GotoElsewhere DEF BeatTerminal, Elsewhere, Labels, Beating, Threads, router
  <2> QED
    BY <1>5, <2>1, <2>2, RouterKept DEF BeatTerminal
<1>6. CASE BeatFails
  <2>1. RestTyped'
    BY <1>1, <1>6 DEF BeatFails, RestTyped
  <2>2. at' \in [Threads -> Labels] /\ HoldsList'
    BY <1>1, <1>6, GotoElsewhere DEF BeatFails, Elsewhere, Labels, Beating, Threads, router
  <2> QED
    BY <1>6, <2>1, <2>2, RouterKept DEF BeatFails
<1>7. CASE BeatSucceeds
  <2>1. RestTyped'
    BY <1>1, <1>7 DEF BeatSucceeds, RestTyped
  <2>2. at' \in [Threads -> Labels] /\ HoldsList'
    BY <1>1, <1>7, GotoElsewhere DEF BeatSucceeds, Elsewhere, Labels, Beating, Threads, router
  <2> QED
    BY <1>7, <2>1, <2>2, RouterKept DEF BeatSucceeds
<1>8. CASE LeaveLoop
  <2>1. RestTyped'
    BY <1>1, <1>8 DEF LeaveLoop, RestTyped, Goals
  <2>2. at' \in [Threads -> Labels] /\ HoldsList'
    BY <1>1, <1>8, GotoElsewhere DEF LeaveLoop, Elsewhere, Labels, Beating, Threads, router
  <2> QED
    BY <1>8, <2>1, <2>2, RouterKept DEF LeaveLoop
<1>9. ASSUME NEW w \in Workers, StartJob(w) PROVE Inv'
  <2>1. RestTyped'
    BY <1>1, <1>9 DEF StartJob, RestTyped, Jobs
  <2>2. /\ at' \in [Threads -> Labels]
        /\ \A t \in Threads : at'[t] \in {"append", "filter"} => at[t] = at'[t]
    BY <1>1, <1>9 DEF StartJob, Idle, TypeOK, Labels, Threads
  <2>3. HoldsList'
    BY <1>9, <2>2, InvParts DEF StartJob, router, HoldsList
  <2> QED
    BY <1>9, <2>1, <2>2, <2>3, RouterKept DEF StartJob
<1>10. CASE Leave
  BY <1>1, <1>10, EndedStep DEF Leave, RestTyped, Statuses
<1> QED
  BY <1>2, <1>3, <1>4, <1>5, <1>6, <1>7, <1>8, <1>9, <1>10 DEF Heartbeat

LEMMA OnLogLineStep ==
  ASSUME Inv, OnLogLine
  PROVE  Inv'
<1>1. TypeOK /\ RestTyped /\ "log" \in Threads
  BY InvParts DEF Threads
<1>2. CASE DiskError
  <2>1. RestTyped'
    BY <1>1, <1>2 DEF DiskError, SpareOne, RestTyped
  <2>2. at' \in [Threads -> Labels] /\ HoldsList'
    BY <1>1, <1>2, GotoElsewhere DEF DiskError, SpareOne, Elsewhere, Labels, Beating, Threads, router
  <2> QED
    BY <1>2, <2>1, <2>2, RouterKept DEF DiskError, SpareOne
<1>3. ASSUME NEW w \in Workers, UnknownError(w) PROVE Inv'
  <2>1. RestTyped'
    BY <1>1, <1>3 DEF UnknownError, RestTyped, Jobs
  <2>2. at' \in [Threads -> Labels] /\ HoldsList'
    BY <1>1, <1>3, GotoElsewhere DEF UnknownError, Idle, Threads, Elsewhere, Labels, router
  <2> QED
    BY <1>3, <2>1, <2>2, RouterKept DEF UnknownError
<1> QED
  BY <1>2, <1>3 DEF OnLogLine

-----------------------------------------------------------------------------
(* The steps of a worker.                                                    *)

LEMMA WorkStep ==
  ASSUME Inv, NEW w \in Workers, Work(w)
  PROVE  Inv'
<1>1. TypeOK /\ RestTyped /\ w \in Threads /\ MaxCalls \in Nat
  BY InvParts, DaemonAssumption DEF DaemonAssumption, Threads
<1>2. CASE CheckBudget(w)
  <2>1. RestTyped'
    BY <1>1, <1>2 DEF CheckBudget, JobOver, RestTyped, Jobs
  <2>2. at' \in [Threads -> Labels] /\ HoldsList'
    BY <1>1, <1>2, GotoElsewhere DEF CheckBudget, JobOver, Elsewhere, Labels, Beating, Threads, router
  <2> QED
    BY <1>2, <2>1, <2>2, RouterKept DEF CheckBudget, JobOver
<1>3. CASE LockBusy(w)
  <2>1. RestTyped'
    BY <1>1, <1>3 DEF LockBusy, JobOver, RestTyped, Jobs
  <2>2. at' \in [Threads -> Labels] /\ HoldsList'
    BY <1>1, <1>3, GotoElsewhere DEF LockBusy, JobOver, Elsewhere, Labels, Beating, Threads, router
  <2> QED
    BY <1>3, <2>1, <2>2, RouterKept DEF LockBusy, JobOver
<1>4. CASE LockFree(w)
  <2>1. RestTyped'
    BY <1>1, <1>4 DEF LockFree, RestTyped, LockStates
  <2>2. at' \in [Threads -> Labels] /\ HoldsList'
    BY <1>1, <1>4, GotoElsewhere DEF LockFree, Elsewhere, Labels, Beating, Threads, router
  <2> QED
    BY <1>4, <2>1, <2>2, RouterKept DEF LockFree
<1>5. CASE Acquire(w)
  <2>1. RestTyped'
    BY <1>1, <1>5 DEF Acquire, RestTyped, LockStates
  <2>2. at' \in [Threads -> Labels] /\ HoldsList'
    BY <1>1, <1>5, GotoElsewhere DEF Acquire, Elsewhere, Labels, Beating, Threads, router
  <2> QED
    BY <1>5, <2>1, <2>2, RouterKept DEF Acquire
<1>6. CASE EscalationEnds(w)
  <2>1. RestTyped'
    BY <1>1, <1>6 DEF EscalationEnds, Counted, RestTyped
  <2>2. at' \in [Threads -> Labels] /\ HoldsList'
    BY <1>1, <1>6, GotoElsewhere DEF EscalationEnds, Counted, Elsewhere, Labels, Beating, Threads, router
  <2> QED
    BY <1>6, <2>1, <2>2, RouterKept DEF EscalationEnds, Counted
<1>7. CASE EscalationFailed(w)
  <2>1. RestTyped'
    BY <1>1, <1>7 DEF EscalationFailed, RestTyped, Statuses
  <2>2. at' \in [Threads -> Labels] /\ HoldsList'
    BY <1>1, <1>7, GotoElsewhere DEF EscalationFailed, Elsewhere, Labels, Beating, Threads, router
  <2> QED
    BY <1>7, <2>1, <2>2, RouterKept DEF EscalationFailed
<1>8. CASE ReviewEnds(w)
  <2>1. RestTyped'
    BY <1>1, <1>8 DEF ReviewEnds, RestTyped
  <2>2. at' \in [Threads -> Labels] /\ HoldsList'
    BY <1>1, <1>8, GotoElsewhere DEF ReviewEnds, Elsewhere, Labels, Beating, Threads, router
  <2> QED
    BY <1>8, <2>1, <2>2, RouterKept DEF ReviewEnds
<1>9. CASE CountReview(w)
  <2>1. RestTyped'
    BY <1>1, <1>9 DEF CountReview, Counted, RestTyped
  <2>2. at' \in [Threads -> Labels] /\ HoldsList'
    BY <1>1, <1>9, GotoElsewhere DEF CountReview, Counted, Elsewhere, Labels, Beating, Threads, router
  <2> QED
    BY <1>9, <2>1, <2>2, RouterKept DEF CountReview, Counted
<1>10. CASE ChangeEnds(w)
  <2>1. RestTyped'
    BY <1>1, <1>10 DEF ChangeEnds, RestTyped
  <2>2. at' \in [Threads -> Labels] /\ HoldsList'
    BY <1>1, <1>10, GotoElsewhere DEF ChangeEnds, Elsewhere, Labels, Beating, Threads, router
  <2> QED
    BY <1>10, <2>1, <2>2, RouterKept DEF ChangeEnds
<1>11. CASE Release(w)
  <2>1. RestTyped'
    BY <1>1, <1>11 DEF Release, JobOver, RestTyped, Jobs, LockStates
  <2>2. at' \in [Threads -> Labels] /\ HoldsList'
    BY <1>1, <1>11, GotoElsewhere DEF Release, JobOver, Elsewhere, Labels, Beating, Threads, router
  <2> QED
    BY <1>11, <2>1, <2>2, RouterKept DEF Release, JobOver
<1> QED
  BY <1>2, <1>3, <1>4, <1>5, <1>6, <1>7, <1>8, <1>9, <1>10, <1>11 DEF Work

-----------------------------------------------------------------------------
(* The steps of the bot, the daemon's own life, and time.                    *)

LEMMA DaemonStartsStep ==
  ASSUME Inv, DaemonStarts
  PROVE  Inv'
<1>1. RestTyped'
  BY InvParts DEF DaemonStarts, RestTyped, Statuses, ProcessOrNone
<1>2. at' \in [Threads -> Labels] /\ HoldsList'
  BY NoneHolds DEF DaemonStarts
<1> QED
  BY <1>1, <1>2, RouterKept DEF DaemonStarts

LEMMA RestartExpiresStep ==
  ASSUME Inv, RestartExpires
  PROVE  Inv'
<1>1. RestTyped' /\ at' \in [Threads -> Labels]
  BY InvParts DEF RestartExpires, locals, RestTyped
<1>2. RouterTypeOK' /\ UNCHANGED bound
  BY InvParts, RecordExpiresTyped DEF RestartExpires
<1>3. HoldsList'
  BY <1>2, InvParts DEF RestartExpires, locals, HoldsList
<1> QED
  BY <1>1, <1>2, <1>3, InvFromParts

LEMMA WorldStep ==
  ASSUME Inv, World
  PROVE  Inv'
<1>1. RestTyped /\ at \in [Threads -> Labels]
  BY InvParts
<1>2. ASSUME NEW p \in Processes, BotExits(p) PROVE Inv'
  <2>1. RestTyped' /\ at' \in [Threads -> Labels] /\ HoldsList'
    BY <1>1, InvParts, <1>2 DEF BotExits, locals, router, RestTyped, HoldsList
  <2> QED
    BY <1>2, <2>1, RouterKept DEF BotExits
<1>3. CASE Signal
  <2>1. RestTyped' /\ at' \in [Threads -> Labels] /\ HoldsList'
    BY <1>1, InvParts, <1>3 DEF Signal, locals, router, RestTyped, HoldsList
  <2> QED
    BY <1>3, <2>1, RouterKept DEF Signal
<1>4. CASE LockAges
  <2>1. RestTyped' /\ at' \in [Threads -> Labels] /\ HoldsList'
    BY <1>1, InvParts, <1>4 DEF LockAges, locals, router, RestTyped, HoldsList, LockStates
  <2> QED
    BY <1>4, <2>1, RouterKept DEF LockAges
<1>5. CASE DaemonExits
  <2>1. alive' \subseteq Processes
    BY <1>1, <1>5 DEF DaemonExits, RestTyped
  <2> QED
    BY <1>1, <1>5, <2>1, EndedStep DEF DaemonExits, RestTyped
<1> QED
  BY <1>2, <1>3, <1>4, <1>5, RestartExpiresStep DEF World

LEMMA StutterStep ==
  ASSUME Inv, UNCHANGED vars
  PROVE  Inv'
<1>1. RestTyped' /\ at' \in [Threads -> Labels] /\ HoldsList'
  BY InvParts DEF vars, locals, router, RestTyped, HoldsList
<1> QED
  BY <1>1, RouterKept DEF vars

LEMMA Initially == Init => Inv
<1> SUFFICES ASSUME Init PROVE Inv
  OBVIOUS
<1>1. TypeOK
  <2>1. stopping \in BOOLEAN /\ asked \in BOOLEAN
    BY Zenon DEF Init
  <2>2. /\ alive \subseteq Processes /\ held \in ProcessOrNone /\ status \in Statuses
        /\ lock \in LockStates /\ at \in [Threads -> Labels]
        /\ joined \in [Threads -> ProcessOrNone] /\ goal \in [Threads -> Goals]
        /\ job \in [Workers -> Jobs]
    BY DEF Init, ProcessOrNone, Statuses, LockStates, Labels, Goals, Jobs
  <2>3. calls \in 0..MaxCalls /\ seen \in [Workers -> 0..MaxCalls]
    BY DaemonAssumption DEF DaemonAssumption, Init
  <2>4. RouterTypeOK
    BY ThreadsFinite DEF Init, RouterInit, RouterTypeOK
  <2> QED
    BY <2>1, <2>2, <2>3, <2>4 DEF TypeOK
<1>2. HoldsList
  BY DEF Init, HoldsList
<1> QED
  BY <1>1, <1>2 DEF Inv

LEMMA Invariance == Spec => []Inv
<1>1. Inv /\ [Next]_vars => Inv'
  <2> SUFFICES ASSUME Inv, [Next]_vars PROVE Inv'
    OBVIOUS
  <2>1. ASSUME NEW t \in Threads, ThreadStep(t) PROVE Inv'
    BY <2>1, RestartBotStep, HeartbeatStep, WorkStep DEF ThreadStep
  <2> QED
    BY <2>1, OnLogLineStep, DaemonStartsStep, WorldStep, StutterStep DEF Next
<1> QED
  BY <1>1, Initially, PTL DEF Spec

(* The daemon's state keeps its types however its threads overtake each other.  *)
THEOREM DaemonTypeCorrect == Spec => []TypeOK
<1>1. Inv => TypeOK
  BY DEF Inv
<1> QED
  BY <1>1, Invariance, PTL

-----------------------------------------------------------------------------
(* One bot, when only the heartbeat restarts it: there are no errors in the     *)
(* log, no approved changes, and the daemon does not die.                       *)

HeartbeatAlone == Sources \subseteq {"command", "stopall", "signal", "review"}

OthersKeepOut ==
    /\ at["log"] \in {"down", "idle"}
    /\ \A w \in Workers :
          /\ at[w] \in {"down", "idle", "lock", "session", "count", "release"}
          /\ at[w] \in {"lock", "session"} => job[w] = "review"

(* The bot that runs is the one the daemon holds, wait() waits for that one,    *)
(* and what follows stop_bot finds none.                                        *)
HeldIsAlive ==
    /\ alive \subseteq {held} \ {NoProcess}
    /\ at["heartbeat"] = "join" => joined["heartbeat"] = held /\ held # NoProcess
    /\ at["heartbeat"] \in {"down", "start", "terminal", "exit"} => held = NoProcess

Alone == OthersKeepOut /\ HeldIsAlive

LEMMA AloneInit == Init => Alone
BY DEF Init, Alone, OthersKeepOut, HeldIsAlive, Threads

(* Steps of the heartbeat that only move it.                                    *)
LEMMA AloneMoved ==
  ASSUME TypeOK, Alone, NEW l \in Labels, Goto("heartbeat", l),
         UNCHANGED <<alive, held, job, joined>>,
         l # "join", l \in {"down", "start", "terminal", "exit"} => held = NoProcess
  PROVE  Alone'
<1>1. at' = [at EXCEPT !["heartbeat"] = l] /\ at \in [Threads -> Labels]
  BY DEF Goto, TypeOK
<1>2. at'["heartbeat"] = l /\ \A t \in Threads \ {"heartbeat"} : at'[t] = at[t]
  BY <1>1 DEF Threads
<1>3. Workers \subseteq Threads \ {"heartbeat"} /\ "log" \in Threads \ {"heartbeat"}
  BY RouterAssumption DEF RouterAssumption, Threads
<1> QED
  BY <1>2, <1>3 DEF Alone, OthersKeepOut, HeldIsAlive

LEMMA AloneStopBot ==
  ASSUME TypeOK, Alone, StopBot("heartbeat")
  PROVE  Alone'
<1>1. /\ at \in [Threads -> Labels] /\ "heartbeat" \in Threads /\ "log" \in Threads
      /\ Workers \subseteq Threads \ {"heartbeat"}
      /\ joined \in [Threads -> ProcessOrNone] /\ alive \subseteq Processes
      /\ goal["heartbeat"] \in Goals
  BY RouterAssumption DEF RouterAssumption, TypeOK, Threads
<1>2. ASSUME Stopped("heartbeat"), held' = NoProcess, alive' = {} PROVE Alone'
  <2>1. AfterStop(goal["heartbeat"]) # "join"
    BY <1>1 DEF AfterStop, Goals
  <2>2. /\ at'["heartbeat"] # "join"
        /\ \A t \in Threads \ {"heartbeat"} : at'[t] = at[t]
        /\ job' = job
    BY <1>1, <1>2, <2>1 DEF Stopped, Goto
  <2> QED
    BY <1>1, <1>2, <2>2 DEF Alone, OthersKeepOut, HeldIsAlive
<1>3. CASE NothingToStop("heartbeat")
  BY <1>2, <1>3 DEF NothingToStop, Alone, HeldIsAlive
<1>4. CASE Terminate("heartbeat")
  <2>1. /\ at'["heartbeat"] = "join" /\ joined'["heartbeat"] = held /\ held # NoProcess
        /\ \A t \in Threads \ {"heartbeat"} : at'[t] = at[t]
        /\ UNCHANGED <<alive, held, job>>
    BY <1>1, <1>4 DEF Terminate, Goto
  <2> QED
    BY <1>1, <2>1 DEF Alone, OthersKeepOut, HeldIsAlive
<1>5. CASE Exited("heartbeat")
  BY <1>2, <1>5 DEF Exited, LetGo, Alone, HeldIsAlive
<1>6. CASE Kill("heartbeat")
  BY <1>2, <1>6 DEF Kill, LetGo, Alone, HeldIsAlive
<1>7. CASE KillRaises("heartbeat")
  BY <1>7 DEF KillRaises, Thrown, Alone, HeldIsAlive
<1>8. CASE LastKillRaises("heartbeat")
  BY <1>8 DEF LastKillRaises, Alone, HeldIsAlive
<1> QED
  BY <1>3, <1>4, <1>5, <1>6, <1>7, <1>8 DEF StopBot

LEMMA AloneRestartBot ==
  ASSUME TypeOK, Alone, RestartBot("heartbeat")
  PROVE  Alone'
<1>1. /\ at \in [Threads -> Labels] /\ "heartbeat" \in Threads /\ "log" \in Threads
      /\ Workers \subseteq Threads \ {"heartbeat"}
  BY RouterAssumption DEF RouterAssumption, TypeOK, Threads
<1>2. AfterRestart("heartbeat") \in {"ack", "idle"}
  BY RouterAssumption DEF RouterAssumption, AfterRestart
<1>3. CASE RestartRefused("heartbeat")
  BY <1>2, <1>3, AloneMoved DEF RestartRefused, Labels
<1>4. CASE RestartAccepted("heartbeat") \/ RecordRestart("heartbeat")
          \/ DropOldRestarts("heartbeat")
  BY <1>4, AloneMoved DEF RestartAccepted, RecordRestart, DropOldRestarts, Labels
<1>5. CASE CheckLimit("heartbeat")
  BY <1>5, AloneMoved DEF CheckLimit, Labels
<1>6. CASE StartBot("heartbeat")
  <2>1. alive = {}
    BY <1>6 DEF StartBot, Alone, HeldIsAlive
  <2>2. PICK p \in Processes : alive' = {p} /\ held' = p
    BY <1>6, <2>1 DEF StartBot, Unused
  <2>3. p # NoProcess
    BY DaemonAssumption DEF DaemonAssumption
  <2>4. /\ at'["heartbeat"] \in {"ack", "idle"} /\ job' = job
        /\ \A t \in Threads \ {"heartbeat"} : at'[t] = at[t]
    BY <1>1, <1>2, <1>6 DEF StartBot, Goto
  <2> QED
    BY <1>1, <2>2, <2>3, <2>4 DEF Alone, OthersKeepOut, HeldIsAlive
<1>7. CASE MarkTerminal("heartbeat")
  BY <1>2, <1>7, AloneMoved DEF MarkTerminal, Labels
<1> QED
  BY <1>3, <1>4, <1>5, <1>6, <1>7, AloneStopBot DEF RestartBot

LEMMA AloneHeartbeat ==
  ASSUME TypeOK, Alone, HeartbeatAlone, Heartbeat
  PROVE  Alone'
<1>1. CASE RestartCommand
  BY <1>1, AloneMoved DEF RestartCommand, Labels
<1>2. CASE AckRestart
  BY <1>2, AloneMoved DEF AckRestart, Labels
<1>3. CASE StopCommand
  BY <1>3, AloneMoved DEF StopCommand, Labels
<1>4. ASSUME NEW w \in Workers, StartJob(w) PROVE Alone'
  <2>1. /\ at \in [Threads -> Labels] /\ job \in [Workers -> Jobs]
        /\ Workers \subseteq Threads /\ Workers \cap {"heartbeat", "log"} = {}
        /\ {"heartbeat", "log"} \subseteq Threads
    BY RouterAssumption DEF RouterAssumption, TypeOK, Threads
  <2>2. job' = [job EXCEPT ![w] = "review"]
    BY <1>4 DEF StartJob, HeartbeatAlone
  <2>3. /\ at'["heartbeat"] = "status" /\ at'[w] = "lock" /\ at'["log"] = at["log"]
        /\ \A v \in Workers \ {w} : at'[v] = at[v]
        /\ UNCHANGED <<alive, held, joined>>
    BY <1>4, <2>1 DEF StartJob
  <2> QED
    BY <2>1, <2>2, <2>3 DEF Alone, OthersKeepOut, HeldIsAlive
<1>5. CASE BeatTerminal
  BY <1>5, AloneMoved DEF BeatTerminal, Labels
<1>6. CASE BeatFails
  BY <1>6, AloneMoved DEF BeatFails, Labels
<1>7. CASE BeatSucceeds
  BY <1>7, AloneMoved DEF BeatSucceeds, Labels
<1>8. CASE LeaveLoop
  BY <1>8, AloneMoved DEF LeaveLoop, Labels
<1>9. CASE Leave
  <2>1. /\ \A t \in Threads : at'[t] = "down"
        /\ held' = NoProcess /\ alive' = {}
    BY <1>9 DEF Leave, Forgotten, Alone, HeldIsAlive
  <2> QED
    BY <2>1 DEF Alone, OthersKeepOut, HeldIsAlive, Threads
<1> QED
  BY <1>1, <1>2, <1>3, <1>4, <1>5, <1>6, <1>7, <1>8, <1>9 DEF Heartbeat

(* A worker is running a review, which does not touch the bot.                  *)
LEMMA AloneWork ==
  ASSUME TypeOK, Alone, NEW w \in Workers, RestartBot(w) \/ Work(w)
  PROVE  Alone'
<1>1. /\ at \in [Threads -> Labels] /\ job \in [Workers -> Jobs]
      /\ w \in Threads /\ w # "heartbeat" /\ w # "log"
      /\ Workers \subseteq Threads /\ {"heartbeat", "log"} \subseteq Threads
  BY RouterAssumption DEF RouterAssumption, TypeOK, Threads
<1>2. /\ at[w] \in {"down", "idle", "lock", "session", "count", "release"}
      /\ at[w] \in {"lock", "session"} => job[w] = "review"
  BY DEF Alone, OthersKeepOut
<1>3. ~RestartBot(w)
  BY <1>2
  DEF RestartBot, RestartRefused, RestartAccepted, RecordRestart, DropOldRestarts, CheckLimit,
      StopBot, NothingToStop, Terminate, Exited, Kill, KillRaises, Thrown, LastKillRaises,
      StartBot, MarkTerminal
<1>4. /\ UNCHANGED <<alive, held, joined>>
      /\ \E l \in {"idle", "session", "count", "release"} : Goto(w, l)
      /\ \A v \in Workers \ {w} : job'[v] = job[v]
      /\ job'[w] = job[w] \/ at'[w] = "idle"
  BY <1>1, <1>2, <1>3
  DEF Work, CheckBudget, LockBusy, LockFree, Acquire, EscalationEnds, EscalationFailed,
      ReviewEnds, CountReview, ChangeEnds, Release, JobOver, Goto
<1>5. /\ at'[w] \in {"idle", "session", "count", "release"}
      /\ \A t \in Threads \ {w} : at'[t] = at[t]
  BY <1>1, <1>4 DEF Goto
<1>6. at'[w] = "session" => at[w] = "lock"
  BY <1>1, <1>2, <1>3, <1>5
  DEF Work, CheckBudget, LockBusy, LockFree, Acquire, EscalationEnds, EscalationFailed,
      ReviewEnds, CountReview, ChangeEnds, Release, JobOver, Goto
<1> QED
  BY <1>1, <1>2, <1>4, <1>5, <1>6 DEF Alone, OthersKeepOut, HeldIsAlive

LEMMA AloneRest ==
  ASSUME TypeOK, Alone, HeartbeatAlone,
         OnLogLine \/ DaemonStarts \/ World \/ UNCHANGED vars
  PROVE  Alone'
<1>1. CASE OnLogLine
  BY <1>1 DEF OnLogLine, DiskError, UnknownError, HeartbeatAlone
<1>2. CASE DaemonStarts
  <2>1. alive = {}
    BY <1>2 DEF DaemonStarts, Up, Alone, HeldIsAlive
  <2>2. PICK p \in Processes : alive' = {p} /\ held' = p
    <3>1. Cardinality(alive) = 0
      BY <2>1, FS_EmptySet
    <3> QED
      BY <1>2, <2>1, <3>1 DEF DaemonStarts
  <2>3. p # NoProcess /\ \A t \in Threads : at'[t] = "idle"
    BY <1>2, DaemonAssumption DEF DaemonAssumption, DaemonStarts
  <2> QED
    BY <2>2, <2>3 DEF Alone, OthersKeepOut, HeldIsAlive, Threads
<1>3. CASE World
  <2>1. UNCHANGED <<at, job, joined>> /\ held' = held /\ alive' \subseteq alive
    BY <1>3
    DEF World, BotExits, Signal, DaemonExits, RestartExpires, LockAges, locals, HeartbeatAlone
  <2> QED
    BY <2>1 DEF Alone, OthersKeepOut, HeldIsAlive
<1>4. CASE UNCHANGED vars
  BY <1>4 DEF vars, locals, Alone, OthersKeepOut, HeldIsAlive
<1> QED
  BY <1>1, <1>2, <1>3, <1>4

LEMMA AloneStep ==
  ASSUME TypeOK, Alone, HeartbeatAlone, [Next]_vars
  PROVE  Alone'
<1>1. ASSUME RestartBot("log") PROVE FALSE
  BY <1>1
  DEF Alone, OthersKeepOut, RestartBot, RestartRefused, RestartAccepted, RecordRestart,
      DropOldRestarts, CheckLimit, StopBot, NothingToStop, Terminate, Exited, Kill,
      KillRaises, Thrown, LastKillRaises, StartBot, MarkTerminal
<1>2. ASSUME NEW t \in Threads, ThreadStep(t) PROVE Alone'
  BY <1>1, <1>2, AloneRestartBot, AloneHeartbeat, AloneWork DEF ThreadStep, Threads
<1> QED
  BY <1>2, AloneRest DEF Next

(* As long as only the heartbeat thread restarts the bot and the daemon does    *)
(* not die, no sequence of operator commands, bot exits, frozen bots and        *)
(* signals makes two bots trade at once, for any number of processes.           *)
THEOREM OneBotAlone ==
  ASSUME HeartbeatAlone
  PROVE  Spec => []OneBot
<1>1. Alone => OneBot
  <2> SUFFICES ASSUME Alone PROVE OneBot
    OBVIOUS
  <2>1. alive = {} \/ alive = {held}
    BY DEF Alone, HeldIsAlive
  <2>2. Cardinality(alive) = 0 \/ Cardinality(alive) = 1
    BY <2>1, FS_EmptySet, FS_Singleton
  <2> QED
    BY <2>2 DEF OneBot
<1>2. TypeOK /\ Alone /\ [Next]_vars => Alone'
  BY AloneStep
<1> QED
  BY <1>1, <1>2, AloneInit, DaemonTypeCorrect, PTL DEF Spec

(* Under the same conditions /stopall and signals leave no bot behind: the last *)
(* stop_bot stops the only one, and nothing starts another before the end.      *)
THEOREM AloneStopsEverything ==
  ASSUME HeartbeatAlone
  PROVE  Spec => StopsEverything
<1>1. Alone' => (~Up' => alive' = {})
  BY DEF Alone, HeldIsAlive, Up
<1>2. TypeOK /\ Alone /\ [Next]_vars => Alone'
  BY AloneStep
<1>3. Alone' => [Up /\ stopping /\ ~Up' => alive' = {}]_vars
  BY <1>1
<1> QED
  BY <1>2, <1>3, AloneInit, DaemonTypeCorrect, PTL DEF Spec, StopsEverything

-----------------------------------------------------------------------------
(* The restart limit, when moreover the daemon is not stopped: with one thread  *)
(* in restart_bot no record is lost, and with one daemon none is forgotten.     *)

OneLife == Sources \subseteq {"command", "review"}

NeverStopped ==
    /\ ~stopping
    /\ at["heartbeat"] # "exit"
    /\ goal["heartbeat"] \in {"none", "start", "terminal"}

(* The heartbeat is to start a bot.                                             *)
ToStart ==
    \/ at["heartbeat"] \in {"stop", "join"} /\ goal["heartbeat"] = "start"
    \/ at["heartbeat"] = "start"

Busy == at["heartbeat"] \in {"limit", "filter", "rebind", "check"} \/ ToStart

(* Every restart of the window is in the current list, the one under way too,   *)
(* and a bot is started only while the list is below the limit.                 *)
Counting ==
    /\ restarted \subseteq content[current]
    /\ at["heartbeat"] \in {"append", "filter"} => bound["heartbeat"] = current
    /\ Busy => mine["heartbeat"] \in content[current]
    /\ at["heartbeat"] = "rebind" =>
          restarted \cup {mine["heartbeat"]} \subseteq kept["heartbeat"]
    /\ ToStart => Cardinality(content[current]) < MaxRestarts
    /\ RestartsLimited

LEMMA CountingInit == Init => NeverStopped /\ Counting
<1> SUFFICES ASSUME Init PROVE NeverStopped /\ Counting
  OBVIOUS
<1>1. "heartbeat" \in Threads
  BY DEF Threads
<1>2. NeverStopped /\ ~Busy /\ ~ToStart
  BY <1>1 DEF Init, NeverStopped, Busy, ToStart
<1>3. Cardinality(restarted) = 0
  BY FS_EmptySet DEF Init, RouterInit
<1> QED
  BY <1>1, <1>2, <1>3, RouterAssumption
  DEF RouterAssumption, Init, RouterInit, Counting, RestartsLimited

LEMMA RecordsFinite ==
  ASSUME NEW A, NEW B, A \subseteq B, B \subseteq Records
  PROVE  /\ IsFiniteSet(A) /\ Cardinality(A) \in Nat /\ Cardinality(B) \in Nat
         /\ Cardinality(A) <= Cardinality(B)
<1>1. IsFiniteSet(Records)
  BY FS_Interval, RouterAssumption DEF RouterAssumption, Records
<1>2. IsFiniteSet(B)
  BY <1>1, FS_Subset
<1> QED
  BY <1>2, FS_Subset, FS_CardinalityType

(* Steps that leave the restart limit alone and are not inside restart_bot.     *)
LEMMA CountingMoved ==
  ASSUME Inv, NeverStopped, Counting, UNCHANGED router,
         at'["heartbeat"] \in {"down", "idle", "restart", "ack", "status", "terminal"},
         goal'["heartbeat"] \in {"none", "start", "terminal"}, ~stopping'
  PROVE  NeverStopped' /\ Counting'
<1>1. ~Busy' /\ ~ToStart'
  BY DEF Busy, ToStart
<1> QED
  BY <1>1 DEF NeverStopped, Counting, RestartsLimited, router

(* Steps of other threads and of the bots.                                      *)
LEMMA CountingAside ==
  ASSUME NeverStopped, Counting, UNCHANGED router, UNCHANGED stopping,
         at'["heartbeat"] = at["heartbeat"], goal'["heartbeat"] = goal["heartbeat"]
  PROVE  NeverStopped' /\ Counting'
BY DEF NeverStopped, Counting, RestartsLimited, router, Busy, ToStart

LEMMA CountingRouter ==
  ASSUME Inv, NeverStopped, Counting,
         \/ RestartAccepted("heartbeat") \/ RecordRestart("heartbeat")
         \/ DropOldRestarts("heartbeat")
  PROVE  NeverStopped' /\ Counting'
<1>1. /\ "heartbeat" \in Threads /\ at \in [Threads -> Labels] /\ RouterTypeOK
      /\ bound \in [Threads -> Lists \cup {NoList}]
      /\ mine \in [Threads -> Records \cup {NoRecord}]
      /\ kept \in [Threads -> SUBSET Records]
      /\ content \in [Lists -> SUBSET Records] /\ current \in Lists
  BY InvParts DEF Threads, RouterTypeOK
<1>2. ASSUME NEW l \in {"append", "limit", "filter", "rebind", "check"}, Goto("heartbeat", l),
             UNCHANGED <<stopping, goal>>
      PROVE  NeverStopped' /\ ~ToStart' /\ at'["heartbeat"] = l
  BY <1>1, <1>2 DEF Goto, NeverStopped, ToStart
<1>3. CASE RestartAccepted("heartbeat")
  <2>1. /\ at'["heartbeat"] = "append" /\ NeverStopped' /\ ~ToStart'
        /\ bound'["heartbeat"] = current
        /\ UNCHANGED <<content, current, kept, mine, restarted>>
    BY <1>1, <1>2, <1>3 DEF RestartAccepted, BindList
  <2> QED
    BY <2>1 DEF Counting, Busy, RestartsLimited
<1>4. CASE RecordRestart("heartbeat")
  <2>1. at'["heartbeat"] = "limit" /\ NeverStopped' /\ ~ToStart'
    BY <1>1, <1>2, <1>4 DEF RecordRestart
  <2>2. bound["heartbeat"] = current
    BY <1>4 DEF RecordRestart, Counting
  <2>3. PICK r \in Records :
          /\ content' = Referred([content EXCEPT ![current] = @ \cup {r}], current, bound')
          /\ mine' = [mine EXCEPT !["heartbeat"] = r]
          /\ UNCHANGED <<current, kept, restarted>>
    BY <1>4, <2>2 DEF RecordRestart, AppendRecord
  <2>4. content'[current] = content[current] \cup {r} /\ mine'["heartbeat"] = r
    BY <1>1, <2>3 DEF Referred
  <2> QED
    BY <2>1, <2>3, <2>4 DEF Counting, Busy, RestartsLimited
<1>5. CASE at["heartbeat"] = "limit" /\ BindList("heartbeat") /\ Goto("heartbeat", "filter")
           /\ UNCHANGED <<stopping, goal>>
  <2>1. /\ at'["heartbeat"] = "filter" /\ NeverStopped' /\ ~ToStart'
        /\ bound'["heartbeat"] = current
        /\ UNCHANGED <<content, current, kept, mine, restarted>>
    BY <1>1, <1>2, <1>5 DEF BindList
  <2> QED
    BY <1>5, <2>1 DEF Counting, Busy, RestartsLimited
<1>6. CASE at["heartbeat"] = "filter" /\ FilterRecords("heartbeat")
           /\ Goto("heartbeat", "rebind") /\ UNCHANGED <<stopping, goal>>
  <2>1. at'["heartbeat"] = "rebind" /\ NeverStopped' /\ ~ToStart'
    BY <1>1, <1>2, <1>6
  <2>2. bound["heartbeat"] = current
    BY <1>6 DEF Counting
  <2>3. /\ kept'["heartbeat"] = content[current]
        /\ content'[current] = content[current]
        /\ UNCHANGED <<current, mine, restarted>>
    BY <1>1, <1>6, <2>2 DEF FilterRecords, Referred
  <2> QED
    BY <1>6, <2>1, <2>3 DEF Counting, Busy, RestartsLimited
<1>7. CASE at["heartbeat"] = "rebind" /\ RebindList("heartbeat")
           /\ Goto("heartbeat", "check") /\ UNCHANGED <<stopping, goal>>
  <2>1. at'["heartbeat"] = "check" /\ NeverStopped' /\ ~ToStart'
    BY <1>1, <1>2, <1>7
  <2>2. PICK l \in Lists :
          /\ current' = l
          /\ content' = Referred([content EXCEPT ![l] = kept["heartbeat"]], l, bound)
          /\ UNCHANGED <<bound, mine, restarted>>
    BY <1>7 DEF RebindList, Unreferred
  <2>3. content'[current'] = kept["heartbeat"]
    BY <1>1, <2>2 DEF Referred
  <2>4. restarted \cup {mine["heartbeat"]} \subseteq kept["heartbeat"]
    BY <1>7 DEF Counting
  <2> QED
    BY <2>1, <2>2, <2>3, <2>4 DEF Counting, Busy, RestartsLimited
<1> QED
  BY <1>3, <1>4, <1>5, <1>6, <1>7 DEF DropOldRestarts

LEMMA CountingCheck ==
  ASSUME Inv, NeverStopped, Counting, CheckLimit("heartbeat")
  PROVE  NeverStopped' /\ Counting'
<1>1. /\ "heartbeat" \in Threads /\ at \in [Threads -> Labels]
      /\ goal \in [Threads -> Goals] /\ content \in [Lists -> SUBSET Records]
      /\ current \in Lists
  BY InvParts DEF Threads, RouterTypeOK, RestTyped
<1>2. /\ at'["heartbeat"] = "stop" /\ goal'["heartbeat"] \in {"start", "terminal"}
      /\ NeverStopped' /\ UNCHANGED <<content, current, restarted>>
  BY <1>1
  DEF CheckLimit, Goto, NeverStopped, RestartGivenUp, router
<1>3. CASE LimitExceeded /\ RestartGivenUp("heartbeat")
           /\ goal' = [goal EXCEPT !["heartbeat"] = "terminal"]
  <2>1. ~ToStart' /\ ~Busy'
    BY <1>1, <1>2, <1>3 DEF ToStart, Busy
  <2> QED
    BY <1>2, <2>1 DEF Counting, RestartsLimited
<1>4. CASE ~LimitExceeded /\ UNCHANGED router /\ goal' = [goal EXCEPT !["heartbeat"] = "start"]
  <2>1. Cardinality(content[current]) \in Nat /\ Cardinality(content[current]) < MaxRestarts
    BY <1>1, <1>4, RecordsFinite, RouterAssumption DEF RouterAssumption, LimitExceeded
  <2>2. mine' = mine /\ mine["heartbeat"] \in content[current]
    BY <1>4 DEF CheckLimit, Counting, Busy, router
  <2> QED
    BY <1>2, <2>1, <2>2 DEF Counting, RestartsLimited
<1> QED
  BY <1>3, <1>4 DEF CheckLimit

LEMMA CountingStop ==
  ASSUME Inv, NeverStopped, Counting, StopBot("heartbeat")
  PROVE  NeverStopped' /\ Counting'
<1>1. /\ "heartbeat" \in Threads /\ at \in [Threads -> Labels]
      /\ goal \in [Threads -> Goals] /\ stopping \in BOOLEAN
  BY InvParts DEF Threads, RestTyped
<1>2. goal["heartbeat"] \in {"none", "start", "terminal"} /\ ~stopping
  BY DEF NeverStopped
<1>3. ASSUME Stopped("heartbeat"), UNCHANGED router, at["heartbeat"] \in {"stop", "join"}
      PROVE  NeverStopped' /\ Counting'
  <2>1. /\ at'["heartbeat"] = AfterStop(goal["heartbeat"]) /\ goal'["heartbeat"] = "none"
        /\ ~stopping'
    BY <1>1, <1>2, <1>3 DEF Stopped, Goto
  <2>2. CASE goal["heartbeat"] = "start"
    <3>1. at'["heartbeat"] = "start" /\ ToStart /\ Busy
      BY <1>3, <2>1, <2>2 DEF AfterStop, ToStart, Busy
    <3> QED
      BY <1>3, <2>1, <3>1 DEF Counting, RestartsLimited, NeverStopped, router
  <2>3. CASE goal["heartbeat"] # "start"
    <3>1. at'["heartbeat"] \in {"idle", "terminal"}
      BY <1>2, <2>1, <2>3 DEF AfterStop
    <3> QED
      BY <1>2, <1>3, <2>1, <3>1, CountingMoved
  <2> QED
    BY <2>2, <2>3
<1>4. CASE Terminate("heartbeat")
  <2>1. /\ at'["heartbeat"] = "join" /\ at["heartbeat"] = "stop"
        /\ UNCHANGED <<goal, router, stopping>>
    BY <1>1, <1>4 DEF Terminate, Goto
  <2>2. ToStart' <=> ToStart
    BY <2>1 DEF ToStart
  <2> QED
    BY <2>1, <2>2 DEF Counting, RestartsLimited, NeverStopped, router, Busy
<1>5. CASE KillRaises("heartbeat")
  <2>1. /\ at'["heartbeat"] = "idle" /\ goal'["heartbeat"] = "none"
        /\ UNCHANGED <<stopping, content, current, restarted>>
    BY <1>1, <1>5, RouterAssumption
    DEF RouterAssumption, KillRaises, Thrown, Goto, RestartGivenUp
  <2>2. ~Busy' /\ ~ToStart'
    BY <2>1 DEF Busy, ToStart
  <2> QED
    BY <1>2, <2>1, <2>2 DEF Counting, RestartsLimited, NeverStopped
<1>6. ~LastKillRaises("heartbeat")
  BY <1>2 DEF LastKillRaises
<1> QED
  BY <1>3, <1>4, <1>5, <1>6
  DEF StopBot, NothingToStop, Exited, Kill, LetGo, router

LEMMA CountingStart ==
  ASSUME Inv, NeverStopped, Counting, StartBot("heartbeat")
  PROVE  NeverStopped' /\ Counting'
<1>1. /\ "heartbeat" \in Threads /\ at \in [Threads -> Labels] /\ RouterTypeOK
      /\ content[current] \subseteq Records
  BY InvParts DEF Threads, RouterTypeOK
<1>2. AfterRestart("heartbeat") \in {"ack", "idle"}
  BY RouterAssumption DEF RouterAssumption, AfterRestart
<1>3. /\ at'["heartbeat"] \in {"ack", "idle"} /\ UNCHANGED <<stopping, goal, content, current>>
      /\ restarted' = restarted \cup ({mine["heartbeat"]} \ {NoRecord})
  BY <1>1, <1>2 DEF StartBot, Goto, RestartDone
<1>4. NeverStopped' /\ ~Busy' /\ ~ToStart'
  BY <1>3 DEF NeverStopped, Busy, ToStart
<1>5. /\ mine["heartbeat"] \in content[current]
      /\ Cardinality(content[current]) < MaxRestarts
  BY DEF StartBot, Counting, Busy, ToStart
<1>6. restarted' \subseteq content[current]
  BY <1>3, <1>5 DEF Counting
<1>7. Cardinality(restarted') < MaxRestarts
  BY <1>1, <1>5, <1>6, RecordsFinite, RouterAssumption DEF RouterAssumption
<1> QED
  BY <1>3, <1>4, <1>6, <1>7 DEF Counting, RestartsLimited

LEMMA CountingExpires ==
  ASSUME Inv, NeverStopped, Counting, RestartExpires
  PROVE  NeverStopped' /\ Counting'
<1>1. PICK r \in Records : RecordExpires(r)
  BY DEF RestartExpires
<1>2. /\ "heartbeat" \in Threads /\ current \in Lists
      /\ content[current] \subseteq Records /\ restarted \subseteq Records
  BY InvParts DEF Threads, RouterTypeOK
<1>3. /\ content'[current] = content[current] \ {r} /\ restarted' = restarted \ {r}
      /\ kept'["heartbeat"] = kept["heartbeat"] \ {r} /\ r # mine["heartbeat"]
      /\ UNCHANGED <<current, bound, mine>>
  BY <1>1, <1>2 DEF RecordExpires
<1>4. UNCHANGED <<at, goal, stopping>>
  BY DEF RestartExpires, locals
<1>5. NeverStopped' /\ (Busy' <=> Busy) /\ (ToStart' <=> ToStart)
  BY <1>4 DEF NeverStopped, Busy, ToStart
<1>6. RestartsLimited'
  BY <1>2, <1>3, RecordsFinite, RouterAssumption
  DEF RouterAssumption, Counting, RestartsLimited
<1>7. ToStart => Cardinality(content[current] \ {r}) < MaxRestarts
  <2>1. Cardinality(content[current] \ {r}) <= Cardinality(content[current])
        /\ Cardinality(content[current] \ {r}) \in Nat /\ Cardinality(content[current]) \in Nat
    BY <1>2, RecordsFinite
  <2> QED
    BY <2>1, RouterAssumption DEF RouterAssumption, Counting
<1> QED
  BY <1>3, <1>4, <1>5, <1>6, <1>7 DEF Counting

LEMMA CountingHeartbeat ==
  ASSUME Inv, NeverStopped, Counting, OneLife, Heartbeat
  PROVE  NeverStopped' /\ Counting'
<1>1. /\ "heartbeat" \in Threads /\ at \in [Threads -> Labels]
      /\ Workers \subseteq Threads \ {"heartbeat"}
      /\ goal["heartbeat"] \in {"none", "start", "terminal"} /\ ~stopping
  BY InvParts, RouterAssumption DEF RouterAssumption, Threads, NeverStopped
<1>2. ~StopCommand /\ ~LeaveLoop /\ ~Leave
  BY <1>1 DEF StopCommand, LeaveLoop, Leave, OneLife, NeverStopped
<1>3. ASSUME NEW l \in {"idle", "restart", "status"}, Goto("heartbeat", l),
             UNCHANGED <<router, goal, stopping>>
      PROVE  NeverStopped' /\ Counting'
  <2>1. at'["heartbeat"] = l
    BY <1>1, <1>3 DEF Goto
  <2> QED
    BY <1>1, <1>3, <2>1, CountingMoved
<1>4. ASSUME NEW w \in Workers, StartJob(w) PROVE NeverStopped' /\ Counting'
  <2>1. at'["heartbeat"] = "status"
    BY <1>1, <1>4 DEF StartJob
  <2>2. UNCHANGED <<router, goal, stopping>>
    BY <1>4 DEF StartJob
  <2> QED
    BY <1>1, <2>1, <2>2, CountingMoved
<1> QED
  BY <1>2, <1>3, <1>4
  DEF Heartbeat, RestartCommand, AckRestart, BeatTerminal, BeatFails, BeatSucceeds

LEMMA CountingStep ==
  ASSUME Inv, Alone, NeverStopped, Counting, OneLife, [Next]_vars
  PROVE  NeverStopped' /\ Counting'
<1>1. /\ "heartbeat" \in Threads /\ at \in [Threads -> Labels]
      /\ Workers \subseteq Threads \ {"heartbeat"} /\ "log" \in Threads
  BY InvParts, RouterAssumption DEF RouterAssumption, Threads
<1>2. CASE RestartBot("heartbeat")
  <2>1. ASSUME RestartRefused("heartbeat") PROVE FALSE
    BY <2>1 DEF RestartRefused, NeverStopped
  <2>2. CASE MarkTerminal("heartbeat")
    <3>1. AfterRestart("heartbeat") \in {"ack", "idle"}
      BY RouterAssumption DEF RouterAssumption, AfterRestart
    <3>2. at'["heartbeat"] \in {"ack", "idle"} /\ UNCHANGED <<router, goal, stopping>>
      BY <1>1, <2>2, <3>1 DEF MarkTerminal, Goto
    <3> QED
      BY <3>2, CountingMoved DEF NeverStopped
  <2> QED
    BY <1>2, <2>1, <2>2, CountingRouter, CountingCheck, CountingStop, CountingStart
    DEF RestartBot
<1>3. ASSUME RestartBot("log") PROVE FALSE
  BY <1>3
  DEF Alone, OthersKeepOut, RestartBot, RestartRefused, RestartAccepted, RecordRestart,
      DropOldRestarts, CheckLimit, StopBot, NothingToStop, Terminate, Exited, Kill,
      KillRaises, Thrown, LastKillRaises, StartBot, MarkTerminal
<1>4. ASSUME NEW w \in Workers, RestartBot(w) PROVE FALSE
  BY <1>4
  DEF Alone, OthersKeepOut, RestartBot, RestartRefused, RestartAccepted, RecordRestart,
      DropOldRestarts, CheckLimit, StopBot, NothingToStop, Terminate, Exited, Kill,
      KillRaises, Thrown, LastKillRaises, StartBot, MarkTerminal
<1>5. ASSUME NEW w \in Workers, Work(w) PROVE NeverStopped' /\ Counting'
  <2>1. \E l \in Labels : Goto(w, l)
    BY <1>5
    DEF Work, CheckBudget, LockBusy, LockFree, Acquire, EscalationEnds, EscalationFailed,
        ReviewEnds, CountReview, ChangeEnds, Release, JobOver, Labels
  <2>2. at'["heartbeat"] = at["heartbeat"]
    BY <1>1, <2>1 DEF Goto
  <2>3. UNCHANGED <<router, goal, stopping>>
    BY <1>5
    DEF Work, CheckBudget, LockBusy, LockFree, Acquire, EscalationEnds, EscalationFailed,
        ReviewEnds, CountReview, ChangeEnds, Release
  <2> QED
    BY <2>2, <2>3, CountingAside
<1>6. ASSUME NEW t \in Threads, ThreadStep(t) PROVE NeverStopped' /\ Counting'
  BY <1>2, <1>3, <1>4, <1>5, <1>6, CountingHeartbeat DEF ThreadStep, Threads
<1>7. ~OnLogLine
  BY DEF OnLogLine, DiskError, UnknownError, OneLife
<1>8. CASE DaemonStarts
  <2>1. at'["heartbeat"] = "idle" /\ UNCHANGED <<router, goal, stopping>>
    BY <1>1, <1>8 DEF DaemonStarts
  <2> QED
    BY <2>1, CountingMoved DEF NeverStopped
<1>9. CASE World
  <2>1. ~Signal /\ ~DaemonExits
    BY DEF Signal, DaemonExits, OneLife
  <2>2. ASSUME (\E p \in Processes : BotExits(p)) \/ LockAges
        PROVE NeverStopped' /\ Counting'
    BY <2>2, CountingAside DEF BotExits, LockAges, locals
  <2> QED
    BY <1>9, <2>1, <2>2, CountingExpires DEF World
<1>10. CASE UNCHANGED vars
  BY <1>10, CountingAside DEF vars, locals
<1> QED
  BY <1>6, <1>7, <1>8, <1>9, <1>10 DEF Next

(* As long as only the heartbeat restarts the bot and one daemon lives on,      *)
(* fewer than watchdog_max_restarts restarts start a bot within the window, for *)
(* any limit: frozen bots, exits and commands are all counted together.         *)
THEOREM RestartLimit ==
  ASSUME OneLife
  PROVE  Spec => []RestartsLimited
<1>1. HeartbeatAlone
  BY DEF OneLife, HeartbeatAlone
<1>2. TypeOK /\ Alone /\ [Next]_vars => Alone'
  BY <1>1, AloneStep
<1>3. Inv /\ Alone /\ (NeverStopped /\ Counting) /\ [Next]_vars
        => (NeverStopped /\ Counting)'
  BY CountingStep
<1>4. NeverStopped /\ Counting => RestartsLimited
  BY DEF Counting
<1> QED
  BY <1>2, <1>3, <1>4, AloneInit, CountingInit, DaemonTypeCorrect, Invariance, PTL DEF Spec

-----------------------------------------------------------------------------
(* The Claude lock, whatever happens.                                           *)

Outside == {"down", "idle", "budget", "lock", "acquire"}

(* A worker that comes out of stop_bot goes on, and the daemon's threads end    *)
(* together, so that a daemon that is down holds no lock.                       *)
Owned ==
    /\ LockHasOwner
    /\ \A w \in Workers : at[w] \in {"stop", "join"} => goal[w] \in {"start", "terminal"}
    /\ ~Up => \A t \in Threads : at[t] = "down"

LEMMA OwnedInit == Init => Owned
<1>1. Workers \subseteq Threads
  BY DEF Threads
<1> QED
  BY <1>1 DEF Init, Owned, LockHasOwner

LEMMA OwnedDown ==
  ASSUME Forgotten, at' = [t \in Threads |-> "down"]
  PROVE  Owned'
<1>1. \A t \in Threads : at'[t] = "down"
  OBVIOUS
<1>2. \A w \in Workers : at'[w] = "down"
  BY <1>1 DEF Threads
<1> QED
  BY <1>1, <1>2 DEF Owned, LockHasOwner, Forgotten

(* One thread moves, a worker not out of the section that holds the lock.       *)
LEMMA OwnedMoved ==
  ASSUME Inv, Owned, NEW t \in Threads, NEW l \in Labels \ {"down"}, Goto(t, l),
         at[t] # "down", lock' = lock \/ lock' = "free",
         \A u \in Threads \ {t} : goal'[u] = goal[u],
         t \in Workers /\ lock' # "free" => l \notin Outside \/ at[t] \in Outside,
         t \in Workers /\ l \in {"stop", "join"} => goal'[t] \in {"start", "terminal"}
  PROVE  Owned'
<1>1. /\ at \in [Threads -> Labels] /\ Workers \subseteq Threads
      /\ "heartbeat" \in Threads
  BY InvParts DEF Threads
<1>2. at'[t] = l /\ \A u \in Threads \ {t} : at'[u] = at[u]
  BY <1>1 DEF Goto
<1>3. LockHasOwner'
  BY <1>1, <1>2 DEF Owned, LockHasOwner, Outside
<1>4. \A w \in Workers : at'[w] \in {"stop", "join"} => goal'[w] \in {"start", "terminal"}
  BY <1>1, <1>2 DEF Owned
<1>5. Up'
  BY <1>1, <1>2 DEF Owned, Up
<1> QED
  BY <1>3, <1>4, <1>5 DEF Owned

LEMMA OwnedStop ==
  ASSUME Inv, Owned, NEW t \in Threads, StopBot(t)
  PROVE  Owned'
<1>0. goal \in [Threads -> Goals] /\ goal[t] \in Goals
  BY InvParts DEF RestTyped
<1>1. t \in Workers => goal[t] \in {"start", "terminal"}
  BY DEF Owned, StopBot, NothingToStop, Terminate, Exited, Kill, KillRaises, Thrown,
         LastKillRaises
<1>2. ASSUME Stopped(t), at[t] \in {"stop", "join"}, UNCHANGED lock PROVE Owned'
  <2>1. /\ AfterStop(goal[t]) \in Labels \ {"down", "stop", "join"}
        /\ t \in Workers => AfterStop(goal[t]) \in {"start", "terminal"}
    BY <1>0, <1>1 DEF AfterStop, Goals, Labels
  <2>2. \A u \in Threads \ {t} : goal'[u] = goal[u]
    BY <1>2, InvParts DEF Stopped, RestTyped
  <2> QED
    BY <1>2, <2>1, <2>2, OwnedMoved DEF Stopped, Outside
<1>3. CASE Terminate(t)
  BY <1>1, <1>3, OwnedMoved DEF Terminate, Outside, Labels
<1>4. CASE KillRaises(t)
  <2>1. \A u \in Threads \ {t} : goal'[u] = goal[u]
    BY <1>4, InvParts DEF KillRaises, Thrown, RestTyped
  <2> QED
    BY <1>4, <2>1, OwnedMoved DEF KillRaises, Thrown, Outside, Labels
<1>5. CASE LastKillRaises(t)
  BY <1>5, OwnedDown DEF LastKillRaises
<1> QED
  BY <1>2, <1>3, <1>4, <1>5 DEF StopBot, NothingToStop, Exited, Kill, LetGo

LEMMA OwnedRestart ==
  ASSUME Inv, Owned, NEW t \in Threads, RestartBot(t)
  PROVE  Owned'
<1>1. /\ AfterRestart(t) \in {"release", "ack", "idle"}
      /\ t \in Workers => AfterRestart(t) = "release"
  BY DEF AfterRestart
<1>2. CASE RestartRefused(t) \/ StartBot(t) \/ MarkTerminal(t)
  BY <1>1, <1>2, OwnedMoved DEF RestartRefused, StartBot, MarkTerminal, Outside, Labels
<1>3. CASE RestartAccepted(t) \/ RecordRestart(t) \/ DropOldRestarts(t)
  BY <1>3, OwnedMoved DEF RestartAccepted, RecordRestart, DropOldRestarts, Outside, Labels
<1>4. CASE CheckLimit(t)
  <2>1. /\ goal'[t] \in {"start", "terminal"}
        /\ \A u \in Threads \ {t} : goal'[u] = goal[u]
    BY <1>4, InvParts DEF CheckLimit, RestTyped
  <2> QED
    BY <1>4, <2>1, OwnedMoved DEF CheckLimit, Outside, Labels
<1> QED
  BY <1>2, <1>3, <1>4, OwnedStop DEF RestartBot

LEMMA OwnedHeartbeat ==
  ASSUME Inv, Owned, Heartbeat
  PROVE  Owned'
<1>1. /\ "heartbeat" \in Threads /\ "heartbeat" \notin Workers
      /\ at \in [Threads -> Labels] /\ goal \in [Threads -> Goals]
      /\ Workers \subseteq Threads
  BY InvParts, RouterAssumption DEF RouterAssumption, Threads, RestTyped
<1>2. CASE StopCommand \/ LeaveLoop
  <2>1. \A u \in Threads \ {"heartbeat"} : goal'[u] = goal[u]
    BY <1>1, <1>2 DEF StopCommand, LeaveLoop
  <2> QED
    BY <1>1, <1>2, <2>1, OwnedMoved DEF StopCommand, LeaveLoop, Labels
<1>3. CASE RestartCommand \/ AckRestart \/ BeatTerminal \/ BeatFails \/ BeatSucceeds
  BY <1>1, <1>3, OwnedMoved
  DEF RestartCommand, AckRestart, BeatTerminal, BeatFails, BeatSucceeds, Beating, Labels
<1>4. ASSUME NEW w \in Workers, StartJob(w) PROVE Owned'
  <2>1. /\ at'["heartbeat"] = "status" /\ at'[w] = "lock" /\ at[w] = "idle"
        /\ \A u \in Threads \ {"heartbeat", w} : at'[u] = at[u]
        /\ UNCHANGED <<lock, goal>>
    BY <1>1, <1>4 DEF StartJob, Idle
  <2> QED
    BY <1>1, <2>1 DEF Owned, LockHasOwner, Up
<1>5. CASE Leave
  BY <1>5, OwnedDown DEF Leave
<1> QED
  BY <1>2, <1>3, <1>4, <1>5 DEF Heartbeat

LEMMA OwnedWork ==
  ASSUME Inv, Owned, NEW w \in Workers, Work(w)
  PROVE  Owned'
<1>1. w \in Threads /\ at \in [Threads -> Labels] /\ "heartbeat" \in Threads
      /\ Workers \subseteq Threads /\ w # "heartbeat"
  BY InvParts, RouterAssumption DEF RouterAssumption, Threads
<1>2. CASE CheckBudget(w)
  BY <1>1, <1>2, OwnedMoved DEF CheckBudget, JobOver, Outside, Labels
<1>3. CASE LockBusy(w) \/ LockFree(w)
  BY <1>1, <1>3, OwnedMoved DEF LockBusy, LockFree, JobOver, Outside, Labels
<1>4. CASE Acquire(w)
  <2>1. /\ at'[w] = "session" /\ at[w] # "down"
        /\ \A u \in Threads \ {w} : at'[u] = at[u]
        /\ UNCHANGED goal
    BY <1>1, <1>4 DEF Acquire, Goto
  <2> QED
    BY <1>1, <2>1 DEF Owned, LockHasOwner, Up
<1>5. CASE EscalationEnds(w) \/ EscalationFailed(w)
  BY <1>1, <1>5, OwnedMoved DEF EscalationEnds, EscalationFailed, Outside, Labels
<1>6. CASE ReviewEnds(w) \/ CountReview(w) \/ ChangeEnds(w)
  BY <1>1, <1>6, OwnedMoved DEF ReviewEnds, CountReview, ChangeEnds, Outside, Labels
<1>7. CASE Release(w)
  BY <1>1, <1>7, OwnedMoved DEF Release, JobOver, Outside, Labels
<1> QED
  BY <1>2, <1>3, <1>4, <1>5, <1>6, <1>7 DEF Work

LEMMA OwnedRest ==
  ASSUME Inv, Owned, OnLogLine \/ DaemonStarts \/ World \/ UNCHANGED vars
  PROVE  Owned'
<1>1. /\ at \in [Threads -> Labels] /\ {"heartbeat", "log"} \subseteq Threads
      /\ "log" \notin Workers /\ Workers \subseteq Threads
  BY InvParts, RouterAssumption DEF RouterAssumption, Threads
<1>2. CASE DiskError
  BY <1>1, <1>2, OwnedMoved DEF DiskError, Labels
<1>3. ASSUME NEW w \in Workers, UnknownError(w) PROVE Owned'
  BY <1>1, <1>3, OwnedMoved DEF UnknownError, Idle, Outside, Labels
<1>4. CASE DaemonStarts
  <2>1. \A w \in Workers : at[w] = "down"
    BY <1>1, <1>4 DEF DaemonStarts, Owned
  <2>2. lock' = "free"
    BY <1>4, <2>1 DEF DaemonStarts, Owned, LockHasOwner
  <2>3. \A t \in Threads : at'[t] = "idle"
    BY <1>4 DEF DaemonStarts
  <2> QED
    BY <1>1, <2>2, <2>3 DEF Owned, LockHasOwner, Up
<1>5. CASE DaemonExits
  BY <1>5, OwnedDown DEF DaemonExits
<1>6. CASE LockAges
  BY <1>6 DEF LockAges, locals, Owned, LockHasOwner, Up
<1>7. ASSUME (\E p \in Processes : BotExits(p)) \/ Signal \/ RestartExpires \/ UNCHANGED vars
      PROVE  Owned'
  BY <1>7 DEF BotExits, Signal, RestartExpires, vars, locals, Owned, LockHasOwner, Up
<1> QED
  BY <1>2, <1>3, <1>4, <1>5, <1>6, <1>7 DEF OnLogLine, World

(* For any number of workers, whatever they run into, overtake or take over,    *)
(* and wherever stop_bot throws: a Claude lock that is taken has a worker that  *)
(* is still to give it back.                                                    *)
THEOREM LockIsGivenBack == Spec => []LockHasOwner
<1>1. Inv /\ Owned /\ [Next]_vars => Owned'
  <2> SUFFICES ASSUME Inv, Owned, [Next]_vars PROVE Owned'
    OBVIOUS
  <2>1. ASSUME NEW t \in Threads, ThreadStep(t) PROVE Owned'
    BY <2>1, OwnedRestart, OwnedHeartbeat, OwnedWork DEF ThreadStep
  <2> QED
    BY <2>1, OwnedRest DEF Next
<1>2. Owned => LockHasOwner
  BY DEF Owned
<1> QED
  BY <1>1, <1>2, OwnedInit, Invariance, PTL DEF Spec
=============================================================================
