-------------------------------- MODULE Mailbox --------------------------------
(* watchdog.state, which the daemon and the bot share.  The daemon              *)
(* (watchdog_state.py) reads the file and puts a new one in its place, under a  *)
(* lock of its own threads.  The bot (crypto_system.py) opens the file, reads   *)
(* it and rewrites it in place: what it writes after the daemon has put a new   *)
(* file there lands in the old one, which nobody can read.  The bot's flock is  *)
(* taken by the bot alone.  Between the truncation and the flush the file is    *)
(* torn: readers find no JSON.                                                  *)
EXTENDS Integers, Sequences

CONSTANTS
    MaxOrders,      \* bound on the orders the operator sends
    Orders          \* the orders sent, a subset of OrderKinds

(* CLOSEALL stands for CLOSE and CLOSEALL, which only the bot carries out;      *)
(* RESTART for the orders that only the daemon carries out.                     *)
OrderKinds == {"CLOSEALL", "RESTART"}

ASSUME MailboxAssumption == MaxOrders \in Nat /\ Orders \subseteq OrderKinds

VARIABLES
    file,       \* what a reader of the path finds: torn, paused, command
    handle,     \* the file the bot has open: none, the one at the path, an old one
    lock,       \* the daemon's read-modify-write under _lock: operation, data read
    orders,     \* the orders written so far; a command is an index into it
    begun,      \* the last order taken up by who carries it out (history)
    told        \* /pause was acknowledged and no /resume came since (history)

mailbox == <<file, handle, lock, orders, begun, told>>

NoOrder == 0
Files == [torn : BOOLEAN, paused : BOOLEAN, command : 0..MaxOrders]
Operations == {"none", "pause", "resume", "pop", "touch"} \cup Orders
Content == [torn |-> FALSE, paused |-> FALSE, command |-> NoOrder]

MailboxType ==
    /\ file \in Files /\ handle \in {"none", "current", "old"}
    /\ lock \in [op : Operations, data : Files]
    /\ orders \in Seq(Orders) /\ Len(orders) <= MaxOrders
    /\ begun \in 0..MaxOrders /\ told \in BOOLEAN

MailboxInit ==
    /\ file = Content /\ handle = "none" /\ lock = [op |-> "none", data |-> Content]
    /\ orders = <<>> /\ begun = NoOrder /\ told = FALSE

-----------------------------------------------------------------------------
(* The daemon.                                                                  *)

(* Variant: a command is written without the lock.                              *)
ReadStateUnlocked(op) ==
    \/ /\ lock.op = "none" /\ ~file.torn
       /\ op \in Orders => Len(orders) < MaxOrders
       /\ op = "pop" => file.command # NoOrder
       /\ lock' = [op |-> op, data |-> file]
       /\ told' = (told /\ op # "resume")
       /\ UNCHANGED <<file, handle, orders, begun>>
    \/ /\ op \in Orders /\ lock.op \notin Orders /\ Len(orders) < MaxOrders
       /\ orders' = Append(orders, op)
       /\ file' = [file EXCEPT !.command = Len(orders) + 1]
       /\ handle' = IF handle = "none" THEN "none" ELSE "old"
       /\ UNCHANGED <<lock, begun, told>>

(* An operation starts.  Reading a torn file raises and leaves everything as    *)
(* it is; a pop that finds no command writes nothing.                           *)
ReadState(op) ==
    /\ lock.op = "none" /\ ~file.torn
    /\ op \in Orders => Len(orders) < MaxOrders
    /\ op = "pop" => file.command # NoOrder
    /\ lock' = [op |-> op, data |-> file]
    /\ told' = (told /\ op # "resume")
    /\ UNCHANGED <<file, handle, orders, begun>>

Updated(op, data) ==
    CASE op = "pause"     -> [data EXCEPT !.paused = TRUE]
      [] op = "resume"    -> [data EXCEPT !.paused = FALSE]
      [] op = "pop"       -> [data EXCEPT !.command = NoOrder]
      [] op \in Orders    -> [data EXCEPT !.command = Len(orders) + 1]
      [] OTHER            -> data

(* os.replace; the message to the operator follows.                             *)
ReplaceState ==
    /\ lock.op # "none"
    /\ file' = Updated(lock.op, lock.data)
    /\ handle' = IF handle = "none" THEN "none" ELSE "old"
    /\ lock' = [op |-> "none", data |-> Content]
    /\ orders' = IF lock.op \in Orders THEN Append(orders, lock.op) ELSE orders
    /\ told' = (told \/ lock.op = "pause")

-----------------------------------------------------------------------------
(* The bot.  data: what it read from the file it has open.                      *)

OpenFile == handle' = "current"
CloseFile == handle' = "none"

(* Variant: the bot writes to the path, whatever file is there.                 *)
FlushAnyFile(data) == file' = data /\ CloseFile

TruncateFile ==
    /\ file' = IF handle = "current" THEN [Content EXCEPT !.torn = TRUE] ELSE file
    /\ UNCHANGED handle

FlushFile(data) ==
    /\ file' = IF handle = "current" THEN data ELSE file
    /\ CloseFile
=============================================================================
