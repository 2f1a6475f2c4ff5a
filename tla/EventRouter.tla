------------------------------- MODULE EventRouter -------------------------------
(* The restart limit of watchdog_event_router.py: record_restart and            *)
(* restart_limit_exceeded, called by several threads without a lock.            *)
(* _restart_times is a list that every check replaces by a new one; a thread    *)
(* may hold the old one meanwhile, so that the lists are objects here.  The     *)
(* operators are steps of one thread; where the thread goes is its caller's     *)
(* business.  Records older than the window are gone at once: every check drops *)
(* them before it counts.                                                       *)
EXTENDS Integers, FiniteSets

CONSTANTS
    Workers,        \* threads for escalations, reviews and changes
    MaxRestarts,    \* config.watchdog_max_restarts
    MaxRecent       \* bound on the restarts of one window

Threads == {"heartbeat", "log"} \cup Workers

ASSUME RouterAssumption ==
    /\ IsFiniteSet(Workers) /\ Workers \cap {"heartbeat", "log"} = {}
    /\ MaxRestarts \in Nat \ {0} /\ MaxRecent \in Nat

Records == 1..MaxRecent
NoRecord == 0
Lists == 1..(Cardinality(Threads) + 1)
NoList == 0

VARIABLES
    content,    \* what each list object holds
    current,    \* the object that _restart_times is
    bound,      \* the object a thread has evaluated _restart_times to
    kept,       \* what a thread's comprehension has kept
    mine,       \* the record of the restart a thread is busy with
    restarted   \* restarts that started a bot within the window (history)

router == <<content, current, bound, kept, mine, restarted>>

RouterTypeOK ==
    /\ content \in [Lists -> SUBSET Records] /\ current \in Lists
    /\ bound \in [Threads -> Lists \cup {NoList}]
    /\ kept \in [Threads -> SUBSET Records]
    /\ mine \in [Threads -> Records \cup {NoRecord}]
    /\ restarted \subseteq Records

RouterInit ==
    /\ content = [l \in Lists |-> {}] /\ current = 1
    /\ bound = [t \in Threads |-> NoList] /\ kept = [t \in Threads |-> {}]
    /\ mine = [t \in Threads |-> NoRecord]
    /\ restarted = {}

(* The process ends, and the list with it.  What was restarted within the       *)
(* window was restarted all the same.                                           *)
RouterForgotten ==
    /\ content' = [l \in Lists |-> {}] /\ current' = 1
    /\ bound' = [t \in Threads |-> NoList] /\ kept' = [t \in Threads |-> {}]
    /\ mine' = [t \in Threads |-> NoRecord]
    /\ UNCHANGED restarted

(* An object nobody refers to is gone.                                          *)
Referred(objects, now, refs) ==
    [l \in Lists |-> IF l = now \/ \E t \in Threads : refs[t] = l THEN objects[l] ELSE {}]

Unreferred == {l \in Lists : l # current /\ \A t \in Threads : bound[t] # l}

InUse ==
    restarted \cup UNION {content[l] : l \in Lists} \cup UNION {kept[t] : t \in Threads}
              \cup {mine[t] : t \in Threads}

(* self._restart_times is evaluated, before time.time() is called or the        *)
(* comprehension runs.                                                          *)
BindList(t) ==
    /\ bound' = [bound EXCEPT ![t] = current]
    /\ UNCHANGED <<content, current, kept, mine, restarted>>

Unbound(t) == bound' = [bound EXCEPT ![t] = NoList]

(* append, to the object bound before, whatever _restart_times is by now.       *)
AppendRecord(t) ==
    /\ \E r \in Records \ InUse :
          /\ \A q \in Records \ InUse : r <= q
          /\ Unbound(t)
          /\ content' = Referred([content EXCEPT ![bound[t]] = @ \cup {r}], current, bound')
          /\ mine' = [mine EXCEPT ![t] = r]
    /\ UNCHANGED <<current, kept, restarted>>

(* The comprehension has gone through the list bound before.                    *)
FilterRecords(t) ==
    /\ kept' = [kept EXCEPT ![t] = content[bound[t]]]
    /\ Unbound(t)
    /\ content' = Referred(content, current, bound')
    /\ UNCHANGED <<current, mine, restarted>>

(* _restart_times becomes the new list.                                         *)
RebindList(t) ==
    /\ \E l \in Unreferred :
          /\ \A k \in Unreferred : l <= k
          /\ current' = l
          /\ content' = Referred([content EXCEPT ![l] = kept[t]], l, bound)
    /\ kept' = [kept EXCEPT ![t] = {}]
    /\ UNCHANGED <<bound, mine, restarted>>

(* len(self._restart_times) >= self._max_restarts                               *)
LimitExceeded == Cardinality(content[current]) >= MaxRestarts

(* The restart has started a bot, or ended without.                             *)
RestartDone(t) ==
    /\ mine' = [mine EXCEPT ![t] = NoRecord]
    /\ restarted' = restarted \cup ({mine[t]} \ {NoRecord})
    /\ UNCHANGED <<content, current, bound, kept>>

RestartGivenUp(t) ==
    /\ mine' = [mine EXCEPT ![t] = NoRecord]
    /\ UNCHANGED <<content, current, bound, kept, restarted>>

(* A restart leaves the window; it is over long before it is 600 seconds old.   *)
RecordExpires(r) ==
    /\ r \in InUse \ {mine[t] : t \in Threads}
    /\ content' = [l \in Lists |-> content[l] \ {r}]
    /\ kept' = [t \in Threads |-> kept[t] \ {r}]
    /\ restarted' = restarted \ {r}
    /\ UNCHANGED <<current, bound, mine>>
=============================================================================
