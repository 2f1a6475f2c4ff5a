------------------------------ MODULE PositionBook ------------------------------
(* What the bot promises about a position's life, without saying how: one       *)
(* variable and three actions, in place of the venue, the trades table, the     *)
(* orders, the stops and the cycle of TradingCycle, which implements this.      *)
EXTENDS Integers, FiniteSets

CONSTANTS
    Symbols,        \* traded symbols
    Sides,          \* LONG and SHORT
    MaxPositions    \* config.max_concurrent_positions

VARIABLE
    phase           \* flat; open, without a row; managed, with its OPEN row

Keys == Symbols \X Sides
Phases == {"flat", "open", "managed"}
Held == {k \in Keys : phase[k] # "flat"}

Init == phase = [k \in Keys |-> "flat"]

(* A position is opened below the limit, on a symbol that is not held.  A row   *)
(* that outlived an earlier position of the key manages the new one at once.    *)
Enter(k) ==
    /\ Cardinality(Held) < MaxPositions
    /\ \A j \in Held : j[1] # k[1]
    /\ \E p \in {"open", "managed"} : phase' = [phase EXCEPT ![k] = p]

(* Positions get their rows: from the entry itself or from a reconciliation.    *)
Manage(K) ==
    /\ \A k \in K : phase[k] = "open"
    /\ phase' = [k \in Keys |-> IF k \in K THEN "managed" ELSE phase[k]]

(* A position ends, and only its end takes it out of management.                *)
End(k) ==
    /\ phase[k] # "flat"
    /\ phase' = [phase EXCEPT ![k] = "flat"]

Next ==
    \/ \E k \in Keys : Enter(k) \/ End(k)
    \/ \E K \in SUBSET Keys : Manage(K)

Spec == Init /\ [][Next]_phase
=============================================================================
