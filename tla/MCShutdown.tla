----------------------------- MODULE MCShutdown -----------------------------
(* A small instance of SchedulerShutdown for TLC: two tasks, one after the *)
(* other.                                                                  *)
EXTENDS SchedulerShutdown

Chain == {[t \in Tasks |-> IF t = 1 THEN {2} ELSE {}]}
OnCpu == [t \in Tasks |-> {"CPU"}]
SameRank == [t \in Tasks |-> 1]
==============================================================================
