----------------------------- MODULE WatchdogDaemon -----------------------------
(* The watchdog daemon, crypto_guardian.py with EventRouter: the heartbeat      *)
(* thread, the log thread and the worker threads they start all reach           *)
(* restart_bot, stop_bot and start_bot, which share _bot_process without a      *)
(* lock.  A label is a place where a thread blocks, in a wait, a sleep, a file  *)
(* write or a message, and others overtake it; in the restart limit it is also  *)
(* a place between two bytecodes.  How a command gets from Telegram to the      *)
(* heartbeat is left open here.                                                 *)
EXTENDS EventRouter

CONSTANTS
    Processes,      \* bot processes that can exist at the same time
    NoProcess,
    Budget,         \* Claude calls per day before escalations stop
    MaxCalls,       \* bound on counted Claude calls
    Sources         \* what may happen, a subset of SourceKinds

(* command     the operator sends /restart                                      *)
(* stopall     the operator sends /stopall and /confirm                         *)
(* signal      the daemon gets SIGTERM or SIGINT                                *)
(* exit        the daemon dies, or its self-check thread ends it                *)
(* disk        the bot logs a disk I/O error                                    *)
(* escalation  the bot logs an unknown error                                    *)
(* review      a review is due or asked for                                     *)
(* change      the operator approves a change or asks for a rollback            *)
SourceKinds == {"command", "stopall", "signal", "exit", "disk", "escalation",
                "review", "change"}

ASSUME DaemonAssumption ==
    /\ IsFiniteSet(Processes) /\ Processes # {} /\ NoProcess \notin Processes
    /\ Budget \in Nat /\ MaxCalls \in Nat
    /\ Sources \subseteq SourceKinds

VARIABLES
    alive,      \* bot processes that run
    held,       \* _bot_process
    status,     \* "status" in watchdog.state
    calls,      \* "claude_calls_today" in watchdog.state
    stopping,   \* _shutting_down
    lock,       \* _claude_lock: free, taken, or taken 900 seconds ago
    asked,      \* the heartbeat's restart answers a RESTART command
    at,         \* where each thread is
    joined,     \* the process whose wait() a thread is in
    goal,       \* what a thread's stop_bot is for
    job,        \* what a worker was started for
    seen        \* claude_calls_today as a worker read it

locals == <<at, joined, goal, job, seen>>
vars == <<alive, held, status, calls, router, stopping, lock, asked, locals>>

ProcessOrNone == Processes \cup {NoProcess}
Statuses == {"running", "stopped", "L2-TERMINAL"}
LockStates == {"free", "taken", "old"}
Goals == {"none", "start", "terminal", "halt", "exit"}
Jobs == {"none", "escalation", "review", "change"}
Labels == {"down", "idle", "restart", "append", "limit", "filter", "rebind", "check", "stop", "join", "start",
           "terminal", "ack", "status", "exit", "budget", "lock", "acquire",
           "session", "count", "failed", "release"}

TypeOK ==
    /\ alive \subseteq Processes /\ held \in ProcessOrNone
    /\ status \in Statuses /\ calls \in 0..MaxCalls
    /\ RouterTypeOK
    /\ stopping \in BOOLEAN /\ lock \in LockStates /\ asked \in BOOLEAN
    /\ at \in [Threads -> Labels] /\ joined \in [Threads -> ProcessOrNone]
    /\ goal \in [Threads -> Goals]
    /\ job \in [Workers -> Jobs] /\ seen \in [Workers -> 0..MaxCalls]

Goto(t, label) == at' = [at EXCEPT ![t] = label]

(* The daemon is not running: nothing of its memory is left.                 *)
Forgotten ==
    /\ held' = NoProcess /\ RouterForgotten
    /\ stopping' = FALSE /\ lock' = "free" /\ asked' = FALSE
    /\ joined' = [t \in Threads |-> NoProcess]
    /\ goal' = [t \in Threads |-> "none"]
    /\ job' = [w \in Workers |-> "none"] /\ seen' = [w \in Workers |-> 0]

Init ==
    /\ alive = {} /\ held = NoProcess /\ status = "stopped" /\ calls = 0
    /\ RouterInit
    /\ stopping = FALSE /\ lock = "free" /\ asked = FALSE
    /\ at = [t \in Threads |-> "down"]
    /\ joined = [t \in Threads |-> NoProcess]
    /\ goal = [t \in Threads |-> "none"]
    /\ job = [w \in Workers |-> "none"] /\ seen = [w \in Workers |-> 0]

Up == at["heartbeat"] # "down"

(* Popen makes a process that nothing refers to yet.                         *)
Unused == {p \in Processes : p \notin alive /\ p # held /\ \A t \in Threads : joined[t] # p}

-----------------------------------------------------------------------------
(* restart_bot(reason), in any thread.                                       *)

(* Where a thread goes on after restart_bot.  A worker gives the Claude lock *)
(* back in its finally.                                                      *)
AfterRestart(t) ==
    IF t \in Workers THEN "release"
    ELSE IF t = "heartbeat" /\ asked THEN "ack" ELSE "idle"

RestartRefused(t) ==
    /\ at[t] = "restart"
    /\ stopping
    /\ Goto(t, AfterRestart(t))
    /\ UNCHANGED <<alive, held, status, calls, router, stopping, lock, asked,
                   joined, goal, job, seen>>

RestartAccepted(t) ==
    /\ at[t] = "restart"
    /\ ~stopping
    /\ BindList(t)
    /\ Goto(t, "append")
    /\ UNCHANGED <<alive, held, status, calls, stopping, lock, asked, joined, goal, job, seen>>

RecordRestart(t) ==
    /\ at[t] = "append"
    /\ AppendRecord(t)
    /\ Goto(t, "limit")
    /\ UNCHANGED <<alive, held, status, calls, stopping, lock, asked, joined, goal, job, seen>>

(* restart_limit_exceeded, up to the count.                                  *)
DropOldRestarts(t) ==
    /\ \/ at[t] = "limit" /\ BindList(t) /\ Goto(t, "filter")
       \/ at[t] = "filter" /\ FilterRecords(t) /\ Goto(t, "rebind")
       \/ at[t] = "rebind" /\ RebindList(t) /\ Goto(t, "check")
    /\ UNCHANGED <<alive, held, status, calls, stopping, lock, asked, joined, goal, job, seen>>

(* The restart just recorded counts.                                         *)
CheckLimit(t) ==
    /\ at[t] = "check"
    /\ \/ LimitExceeded /\ RestartGivenUp(t) /\ goal' = [goal EXCEPT ![t] = "terminal"]
       \/ ~LimitExceeded /\ UNCHANGED router /\ goal' = [goal EXCEPT ![t] = "start"]
    /\ Goto(t, "stop")
    /\ UNCHANGED <<alive, held, status, calls, stopping, lock, asked, joined, job, seen>>

-----------------------------------------------------------------------------
(* stop_bot                                                                  *)

AfterStop(g) ==
    CASE g = "start" -> "start"
      [] g = "terminal" -> "terminal"
      [] g = "halt" -> "status"
      [] g = "exit" -> "exit"
      [] OTHER -> "idle"

(* The STOP command sets _shutting_down once stop_bot has returned.          *)
Stopped(t) ==
    /\ Goto(t, AfterStop(goal[t]))
    /\ stopping' = (stopping \/ goal[t] = "halt")
    /\ goal' = [goal EXCEPT ![t] = "none"]
    /\ joined' = [joined EXCEPT ![t] = NoProcess]
    /\ UNCHANGED <<asked, job, seen>>

NothingToStop(t) ==
    /\ at[t] = "stop"
    /\ held = NoProcess
    /\ Stopped(t)
    /\ UNCHANGED <<alive, held, status, calls, router, lock>>

(* SIGTERM, then wait(timeout=30) on the process held now.                   *)
Terminate(t) ==
    /\ at[t] = "stop"
    /\ held # NoProcess
    /\ joined' = [joined EXCEPT ![t] = held]
    /\ Goto(t, "join")
    /\ UNCHANGED <<alive, held, status, calls, router, stopping, lock, asked,
                   goal, job, seen>>

(* _bot_process = None, whatever it is by now.                               *)
LetGo(t) ==
    /\ held' = NoProcess
    /\ status' = "stopped"
    /\ Stopped(t)

Exited(t) ==
    /\ at[t] = "join"
    /\ joined[t] \notin alive
    /\ LetGo(t)
    /\ UNCHANGED <<alive, calls, router, lock>>

(* The wait timed out: kill() whatever _bot_process is by now.               *)
Kill(t) ==
    /\ at[t] = "join"
    /\ joined[t] \in alive
    /\ held # NoProcess
    /\ alive' = alive \ {held}
    /\ LetGo(t)
    /\ UNCHANGED <<calls, router, lock>>

(* Another thread has let go of it: None has no kill().  The heartbeat loop  *)
(* and the log monitor catch the exception, a worker's finally releases the  *)
(* Claude lock.                                                              *)
Thrown(t, label) ==
    /\ at[t] = "join"
    /\ joined[t] \in alive
    /\ held = NoProcess
    /\ goal[t] # "exit"
    /\ Goto(t, label)
    /\ goal' = [goal EXCEPT ![t] = "none"]
    /\ joined' = [joined EXCEPT ![t] = NoProcess]
    /\ asked' = (asked /\ t # "heartbeat")
    /\ RestartGivenUp(t)
    /\ UNCHANGED <<alive, held, status, calls, stopping, lock, job, seen>>

(* Variant: a worker gives the lock back only where its job ends well.       *)
KillRaisesUnhandled(t) == Thrown(t, "idle")

KillRaises(t) == Thrown(t, IF t \in Workers THEN "release" ELSE "idle")

(* Nothing catches it in the last stop_bot: the daemon ends.                 *)
LastKillRaises(t) ==
    /\ at[t] = "join"
    /\ joined[t] \in alive
    /\ held = NoProcess
    /\ goal[t] = "exit"
    /\ at' = [u \in Threads |-> "down"]
    /\ Forgotten
    /\ UNCHANGED <<alive, status, calls>>

StopBot(t) ==
    \/ NothingToStop(t) \/ Terminate(t) \/ Exited(t) \/ Kill(t)
    \/ KillRaises(t) \/ LastKillRaises(t)

-----------------------------------------------------------------------------
(* The end of restart_bot: start_bot after two seconds, or the terminal state. *)

StartBot(t) ==
    /\ at[t] = "start"
    /\ \E p \in Unused : alive' = alive \cup {p} /\ held' = p
    /\ status' = "running"
    /\ RestartDone(t)
    /\ Goto(t, AfterRestart(t))
    /\ UNCHANGED <<calls, stopping, lock, asked, joined, goal, job, seen>>

(* Variant: the bot stays stopped but the status does not say so.            *)
GiveUpSilently(t) ==
    /\ at[t] = "terminal"
    /\ Goto(t, AfterRestart(t))
    /\ UNCHANGED <<alive, held, status, calls, router, stopping, lock, asked,
                   joined, goal, job, seen>>

MarkTerminal(t) ==
    /\ at[t] = "terminal"
    /\ status' = "L2-TERMINAL"
    /\ Goto(t, AfterRestart(t))
    /\ UNCHANGED <<alive, held, calls, router, stopping, lock, asked,
                   joined, goal, job, seen>>

RestartBot(t) ==
    \/ RestartRefused(t) \/ RestartAccepted(t) \/ RecordRestart(t)
    \/ DropOldRestarts(t) \/ CheckLimit(t) \/ StopBot(t) \/ StartBot(t) \/ MarkTerminal(t)

-----------------------------------------------------------------------------
(* run_heartbeat                                                             *)

Idle(w) == at[w] = "idle"

RestartCommand ==
    /\ at["heartbeat"] = "idle"
    /\ ~stopping
    /\ "command" \in Sources
    /\ asked' = TRUE
    /\ Goto("heartbeat", "restart")
    /\ UNCHANGED <<alive, held, status, calls, router, stopping, lock,
                   joined, goal, job, seen>>

(* The status is set to running whatever restart_bot has just made of it.    *)
AckRestart ==
    /\ at["heartbeat"] = "ack"
    /\ status' = "running"
    /\ asked' = FALSE
    /\ Goto("heartbeat", "status")
    /\ UNCHANGED <<alive, held, calls, router, stopping, lock,
                   joined, goal, job, seen>>

StopCommand ==
    /\ at["heartbeat"] = "idle"
    /\ ~stopping
    /\ "stopall" \in Sources
    /\ goal' = [goal EXCEPT !["heartbeat"] = "halt"]
    /\ Goto("heartbeat", "stop")
    /\ UNCHANGED <<alive, held, status, calls, router, stopping, lock, asked,
                   joined, job, seen>>

(* A review or change that is due or asked for runs in a thread of its own.  *)
StartJob(w) ==
    /\ at["heartbeat"] = "idle"
    /\ ~stopping
    /\ Idle(w)
    /\ \E j \in Sources \cap {"review", "change"} : job' = [job EXCEPT ![w] = j]
    /\ at' = [at EXCEPT !["heartbeat"] = "status", ![w] = "lock"]
    /\ UNCHANGED <<alive, held, status, calls, router, stopping, lock, asked,
                   joined, goal, seen>>

Running == held # NoProcess /\ held \in alive

(* The rest of a beat, after a command or without one (CLOSE and CLOSEALL    *)
(* are popped and dropped).  At midnight the daily counters are reset.       *)
Beating == at["heartbeat"] = "status" \/ (at["heartbeat"] = "idle" /\ ~stopping)

(* No automatic restart in the terminal state.                               *)
BeatTerminal ==
    /\ Beating
    /\ status = "L2-TERMINAL"
    /\ Goto("heartbeat", "idle")
    /\ UNCHANGED <<alive, held, status, calls, router, stopping, lock, asked,
                   joined, goal, job, seen>>

(* is_bot_running or _check_frozen; a bot that runs may look frozen.         *)
BeatFails ==
    /\ Beating
    /\ status # "L2-TERMINAL"
    /\ Goto("heartbeat", "restart")
    /\ UNCHANGED <<alive, held, status, calls, router, stopping, lock, asked,
                   joined, goal, job, seen>>

BeatSucceeds ==
    /\ Beating
    /\ status # "L2-TERMINAL"
    /\ Running
    /\ calls' \in {calls, 0}
    /\ Goto("heartbeat", "idle")
    /\ UNCHANGED <<alive, held, status, router, stopping, lock, asked,
                   joined, goal, job, seen>>

(* The loop is left once _shutting_down is set: a last stop_bot, then the    *)
(* process ends, and its threads with it.                                    *)
LeaveLoop ==
    /\ at["heartbeat"] = "idle"
    /\ stopping
    /\ goal' = [goal EXCEPT !["heartbeat"] = "exit"]
    /\ Goto("heartbeat", "stop")
    /\ UNCHANGED <<alive, held, status, calls, router, stopping, lock, asked,
                   joined, job, seen>>

Leave ==
    /\ at["heartbeat"] = "exit"
    /\ status' = "stopped"
    /\ at' = [t \in Threads |-> "down"]
    /\ Forgotten
    /\ UNCHANGED <<alive, calls>>

Heartbeat ==
    \/ RestartCommand \/ AckRestart \/ StopCommand
    \/ \E w \in Workers : StartJob(w)
    \/ BeatTerminal \/ BeatFails \/ BeatSucceeds \/ LeaveLoop \/ Leave

-----------------------------------------------------------------------------
(* _on_log_line                                                              *)

(* kill_zombie_processes spares the last process that pgrep lists.           *)
SpareOne == \/ Cardinality(alive) <= 1 /\ UNCHANGED alive
            \/ Cardinality(alive) > 1 /\ \E p \in alive : alive' = {p}

DiskError ==
    /\ at["log"] = "idle"
    /\ "disk" \in Sources
    /\ SpareOne
    /\ Goto("log", "restart")
    /\ UNCHANGED <<held, status, calls, router, stopping, lock, asked,
                   joined, goal, job, seen>>

UnknownError(w) ==
    /\ at["log"] = "idle"
    /\ "escalation" \in Sources
    /\ Idle(w)
    /\ job' = [job EXCEPT ![w] = "escalation"]
    /\ Goto(w, "budget")
    /\ UNCHANGED <<alive, held, status, calls, router, stopping, lock, asked,
                   joined, goal, seen>>

OnLogLine == DiskError \/ \E w \in Workers : UnknownError(w)

-----------------------------------------------------------------------------
(* escalate_to_claude, run_review, _apply_approved_changes, _run_rollback    *)

JobOver(w) ==
    /\ Goto(w, "idle")
    /\ job' = [job EXCEPT ![w] = "none"]
    /\ seen' = [seen EXCEPT ![w] = 0]

CheckBudget(w) ==
    /\ at[w] = "budget"
    /\ IF stopping \/ calls >= Budget
       THEN JobOver(w)
       ELSE seen' = [seen EXCEPT ![w] = calls] /\ Goto(w, "lock") /\ UNCHANGED job
    /\ UNCHANGED <<alive, held, status, calls, router, stopping, lock, asked,
                   joined, goal>>

(* An escalation takes over a lock that is 900 seconds old.                  *)
LockBusy(w) ==
    /\ at[w] = "lock"
    /\ lock # "free"
    /\ ~(job[w] = "escalation" /\ lock = "old")
    /\ JobOver(w)
    /\ UNCHANGED <<alive, held, status, calls, router, stopping, lock, asked,
                   joined, goal>>

(* An escalation writes its context file between the look at the lock and    *)
(* taking it.                                                                *)
LockFree(w) ==
    /\ at[w] = "lock"
    /\ job[w] = "escalation"
    /\ lock \in {"free", "old"}
    /\ lock' = "free"
    /\ Goto(w, "acquire")
    /\ UNCHANGED <<alive, held, status, calls, router, stopping, asked,
                   joined, goal, job, seen>>

Acquire(w) ==
    /\ \/ at[w] = "acquire"
       \/ at[w] = "lock" /\ job[w] # "escalation" /\ lock = "free"
    /\ lock' = "taken"
    /\ Goto(w, "session")
    /\ UNCHANGED <<alive, held, status, calls, router, stopping, asked,
                   joined, goal, job, seen>>

(* MaxCalls bounds the counter; only its comparison with Budget matters.     *)
Counted(w) == IF seen[w] < MaxCalls THEN seen[w] + 1 ELSE MaxCalls

(* An escalation writes back the count it read before the session.           *)
EscalationEnds(w) ==
    /\ at[w] = "session" /\ job[w] = "escalation"
    /\ \/ calls' = Counted(w) /\ (Goto(w, "restart") \/ Goto(w, "failed"))
       \/ UNCHANGED calls /\ (Goto(w, "failed") \/ Goto(w, "release"))
    /\ UNCHANGED <<alive, held, status, router, stopping, lock, asked,
                   joined, goal, job, seen>>

EscalationFailed(w) ==
    /\ at[w] = "failed"
    /\ status' = "L2-TERMINAL"
    /\ Goto(w, "release")
    /\ UNCHANGED <<alive, held, calls, router, stopping, lock, asked,
                   joined, goal, job, seen>>

(* A review reads the count after its session, or was timed out.             *)
ReviewEnds(w) ==
    /\ at[w] = "session" /\ job[w] = "review"
    /\ \/ seen' = [seen EXCEPT ![w] = calls] /\ Goto(w, "count")
       \/ UNCHANGED seen /\ Goto(w, "release")
    /\ UNCHANGED <<alive, held, status, calls, router, stopping, lock, asked,
                   joined, goal, job>>

CountReview(w) ==
    /\ at[w] = "count"
    /\ calls' = Counted(w)
    /\ Goto(w, "release")
    /\ UNCHANGED <<alive, held, status, router, stopping, lock, asked,
                   joined, goal, job, seen>>

ChangeEnds(w) ==
    /\ at[w] = "session" /\ job[w] = "change"
    /\ Goto(w, "restart") \/ Goto(w, "release")
    /\ UNCHANGED <<alive, held, status, calls, router, stopping, lock, asked,
                   joined, goal, job, seen>>

Release(w) ==
    /\ at[w] = "release"
    /\ lock' = "free"
    /\ JobOver(w)
    /\ UNCHANGED <<alive, held, status, calls, router, stopping, asked,
                   joined, goal>>

Work(w) ==
    \/ CheckBudget(w) \/ LockBusy(w) \/ LockFree(w) \/ Acquire(w)
    \/ EscalationEnds(w) \/ EscalationFailed(w)
    \/ ReviewEnds(w) \/ CountReview(w) \/ ChangeEnds(w) \/ Release(w)

-----------------------------------------------------------------------------
(* The bot, the daemon's own life, and time.                                 *)

BotExits(p) ==
    /\ p \in alive
    /\ alive' = alive \ {p}
    /\ UNCHANGED <<held, status, calls, router, stopping, lock, asked, locals>>

Signal ==
    /\ "signal" \in Sources
    /\ Up /\ ~stopping
    /\ stopping' = TRUE
    /\ UNCHANGED <<alive, held, status, calls, router, lock, asked, locals>>

(* The daemon's process ends without a word; launchd takes the bot with it,  *)
(* or, if the daemon was started by hand, the bot stays.                     *)
DaemonExits ==
    /\ "exit" \in Sources
    /\ Up
    /\ alive' \in {alive, {}}
    /\ at' = [t \in Threads |-> "down"]
    /\ Forgotten
    /\ UNCHANGED <<status, calls>>

(* run(): zombies are killed, down to one, and a bot is started.             *)
DaemonStarts ==
    /\ ~Up
    /\ \E p \in Processes :
          /\ \/ Cardinality(alive) <= 1 /\ p \notin alive /\ alive' = alive \cup {p}
             \/ Cardinality(alive) > 1 /\ \E z \in alive \ {p} : alive' = {z, p}
          /\ held' = p
    /\ status' = "running"
    /\ at' = [t \in Threads |-> "idle"]
    /\ UNCHANGED <<calls, router, stopping, lock, asked, joined, goal, job, seen>>

RestartExpires ==
    /\ \E r \in Records : RecordExpires(r)
    /\ UNCHANGED <<alive, held, status, calls, stopping, lock, asked, locals>>

(* A session ends within 900 seconds of the lock; what follows it may not.   *)
LockAges ==
    /\ lock = "taken"
    /\ \A w \in Workers : at[w] # "session"
    /\ lock' = "old"
    /\ UNCHANGED <<alive, held, status, calls, router, stopping, asked, locals>>

World ==
    \/ \E p \in Processes : BotExits(p)
    \/ Signal \/ DaemonExits \/ RestartExpires \/ LockAges

ThreadStep(t) ==
    \/ RestartBot(t)
    \/ t = "heartbeat" /\ Heartbeat
    \/ t \in Workers /\ Work(t)

Next ==
    \/ \E t \in Threads : ThreadStep(t)
    \/ OnLogLine \/ DaemonStarts \/ World

Spec == Init /\ [][Next]_vars

(* Every thread that has something to do goes on, launchd keeps the daemon   *)
(* alive, and restarts grow old.                                             *)
FairSpec ==
    /\ Spec
    /\ \A t \in Threads : WF_vars(ThreadStep(t))
    /\ WF_vars(DaemonStarts)
    /\ WF_vars(RestartExpires)

-----------------------------------------------------------------------------
(* Properties.                                                               *)

(* As long as one thread restarts the bot and the daemon lives, fewer than      *)
(* watchdog_max_restarts restarts start a bot within 600 seconds, through all   *)
(* the steps between record_restart, restart_limit_exceeded and start_bot.      *)
RestartsLimited == Cardinality(restarted) < MaxRestarts

(* "At most 3 restarts in 10 minutes", whatever threads ask for them, and       *)
(* whichever daemon counted them.                                               *)
NoRestartStorm == Cardinality(restarted) <= MaxRestarts

(* A Claude lock is never left taken with no worker to give it back: a review   *)
(* or a change never takes over an old lock and would not run again.            *)
LockHasOwner ==
    lock # "free" =>
        \E w \in Workers : at[w] \notin {"down", "idle", "budget", "lock", "acquire"}

(* /stopall and a signal stop everything: when the daemon ends, no bot is left. *)
StopsEverything == [][Up /\ stopping /\ ~Up' => alive' = {}]_vars

(* There is never more than one trading bot: stop_bot, start_bot and the     *)
(* daemon's own start each leave at most the process the daemon holds.       *)
OneBot == Cardinality(alive) <= 1

(* A bot that is gone comes back, unless the watchdog has given up or is     *)
(* being stopped: the heartbeat, whichever thread an exception has thrown    *)
(* out of stop_bot, neither leaves the bot down nor uses up the window with  *)
(* restarts that are refused.                                                *)
BotComesBack == alive = {} ~> alive # {} \/ status = "L2-TERMINAL" \/ stopping
=============================================================================
