----------------------------- MODULE MCScheduler -----------------------------
(* Two pages that share an offset in an interval of two minutes, so ticks   *)
(* alternate between two publishes and none.                                *)
EXTENDS Scheduler

CONSTANTS p1, p2

TwoPages == <<p1, p2>>
Offsets == [p \in {p1, p2} |-> 1]
=============================================================================
