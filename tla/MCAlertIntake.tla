--------------------------- MODULE MCAlertIntake ---------------------------
(* An instance of AlertIntake for TLC: a burst of two alerts of one rule     *)
(* and container, one of another to evict entries, and three that never reach*)
(* the handler or should not.  Falco spells priorities with capitals.        *)
EXTENDS AlertIntake, TLC

CONSTANTS burst1, burst2, other, debug, host, broken, NoKey

MCAlert    == {burst1, burst2, other, debug, host, broken}
MCKey      == {"web|shell", "db|shell"}
MCKeyOf    == [a \in MCAlert |-> CASE a = host -> NoKey
                                   [] a = other -> "db|shell"
                                   [] OTHER -> "web|shell"]
MCSeverity == [a \in MCAlert |-> IF a = debug THEN 0 ELSE 5]
MCMalformed == {broken}
MCLowerCase == {debug, other}
============================================================================
