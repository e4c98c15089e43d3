------------------------ MODULE MCContainerWatcher ------------------------
(* An instance of ContainerWatcher for TLC: two containers, one of the       *)
(* agent's own, and one with an overlong line die in any order.              *)
EXTENDS ContainerWatcher

CONSTANTS d1, d2, own, long

MCDeath    == {d1, d2, own, long}
MCInternal == {own}
MCOverlong == {long}
============================================================================
