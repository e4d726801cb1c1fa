----------------------------- MODULE MCStatsVFS -----------------------------
(* Two concurrent reads of trigger_deadlock: four threads on two locks. *)
EXTENDS StatsVFS

CONSTANTS r1, r2

Workers == Requests \X {1, 2}
Exclusive == [t \in Threads |-> {"write"}]
==============================================================================
