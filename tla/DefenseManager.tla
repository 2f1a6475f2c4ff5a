----------------------------- MODULE DefenseManager -----------------------------
(* DefenseManager (defense/defense_manager.py): the drawdown and daily-loss     *)
(* guard a trading cycle asks before it trades, and the copy of it that         *)
(* shield.state keeps for the next process.  A cooldown is the ticks left of    *)
(* it: the file holds an instant, so a tick passes for both copies, also while  *)
(* no bot runs.  A write of the file is one step.                               *)
EXTENDS Integers

CONSTANTS
    Cooldown        \* halt_cooldown_hours, in ticks

ASSUME CooldownAssumption == Cooldown \in Nat \ {0}

NoCooldown == -1    \* cooldown_until is None
Ticks == {NoCooldown} \cup 0..Cooldown
Drawdowns == {"normal", "cautious", "recovery", "critical", "limit"}

(* Parameters of a recovery state: leverage cap, confidence floor in percent,   *)
(* multi-timeframe score from which a conflict blocks.                          *)
RecoveryParams(s) ==
    CASE s = "normal"   -> [max_leverage |-> 10, min_confidence |-> 40, mtf_min_score |-> 4]
      [] s = "cautious" -> [max_leverage |-> 7, min_confidence |-> 45, mtf_min_score |-> 5]
      [] s = "recovery" -> [max_leverage |-> 5, min_confidence |-> 50, mtf_min_score |-> 6]
      [] OTHER          -> [max_leverage |-> 3, min_confidence |-> 60, mtf_min_score |-> 7]

Actions == {"none", "EMERGENCY_CLOSE", "HALT"}
Shields == [halted : BOOLEAN, cooldown : Ticks, last : Actions]
Defenses == [halted : BOOLEAN, cooldown : Ticks, last : Actions, resumed : BOOLEAN]

NoShield == [halted |-> FALSE, cooldown |-> NoCooldown, last |-> "none"]

Saved(d) == [halted |-> d.halted, cooldown |-> d.cooldown, last |-> d.last]

(* Variant: a new process knows nothing of a halt.                              *)
LoadNothing(shield) == [halted |-> FALSE, cooldown |-> NoCooldown, last |-> "none", resumed |-> FALSE]

(* _load_state()                                                                *)
Load(shield) ==
    IF shield.cooldown = 0
    THEN [halted |-> FALSE, cooldown |-> NoCooldown, last |-> shield.last, resumed |-> TRUE]
    ELSE [halted |-> shield.halted, cooldown |-> shield.cooldown, last |-> shield.last,
          resumed |-> FALSE]

(* The state is saved before _last_action is set.  saved: what the file holds.  *)
EmergencyCheck(d) ==
    LET h == [d EXCEPT !.halted = TRUE, !.cooldown = NoCooldown]
    IN [action |-> IF d.last = "EMERGENCY_CLOSE" THEN "ALREADY_NOTIFIED" ELSE "EMERGENCY_CLOSE",
        defense |-> [h EXCEPT !.last = "EMERGENCY_CLOSE"],
        shield |-> Saved(h)]

(* Variant: a loss halts what is halted already.                                *)
LossCheckAgain(d, shield) ==
    LET h == [d EXCEPT !.halted = TRUE, !.cooldown = Cooldown]
    IN [action |-> IF d.last = "HALT" THEN "ALREADY_NOTIFIED" ELSE "HALT",
        defense |-> [h EXCEPT !.last = "HALT"],
        shield |-> Saved(h)]

LossCheck(d, shield) ==
    LET h == IF d.halted THEN d ELSE [d EXCEPT !.halted = TRUE, !.cooldown = Cooldown]
    IN [action |-> IF d.last = "HALT" THEN "ALREADY_NOTIFIED" ELSE "HALT",
        defense |-> [h EXCEPT !.last = "HALT"],
        shield |-> IF d.halted THEN shield ELSE Saved(h)]

(* check(portfolio)                                                             *)
Check(d, shield, drawdown, loss) ==
    IF drawdown = "limit" THEN EmergencyCheck(d)
    ELSE IF loss THEN LossCheck(d, shield)
    ELSE [action |-> "CONTINUE", defense |-> [d EXCEPT !.last = "none"], shield |-> shield]

(* is_in_cooldown(): asking is what ends a cooldown.                            *)

(* Variant: nothing ends it.                                                    *)
InCooldownForEver(d) == d.halted

InCooldown(d) == d.halted /\ d.cooldown # 0
EndCooldown(d, shield) ==
    IF d.halted /\ d.cooldown = 0
    THEN LET r == [halted |-> FALSE, cooldown |-> NoCooldown, last |-> "none", resumed |-> TRUE]
         IN [defense |-> r, shield |-> Saved(r)]
    ELSE [defense |-> d, shield |-> shield]

(* pop_just_resumed()                                                           *)
PopResumed(d) == [d EXCEPT !.resumed = FALSE]

(* Time passes.                                                                 *)
Aged(r) == IF r.cooldown > 0 THEN [r EXCEPT !.cooldown = @ - 1] ELSE r
=============================================================================
