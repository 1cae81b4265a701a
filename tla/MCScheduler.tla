----------------------------- MODULE MCScheduler -----------------------------
(* Small instances of Scheduler for TLC. *)
EXTENDS Scheduler

(* Every graph over the tasks whose edges go from a lower to a higher id:  *)
(* up to renaming, every acyclic graph.                                    *)
AllGraphs == {adj \in [Tasks -> SUBSET Tasks] :
                 \A s, t \in Tasks : t \in adj[s] => s < t}

(* The third task waits for the first. *)
OneWaits == {[t \in Tasks |-> IF t = 1 THEN {3} ELSE {}]}

(* The second and the third task wait for the first. *)
TwoWait == {[t \in Tasks |-> IF t = 1 THEN {2, 3} ELSE {}]}

OnCpu == [t \in Tasks |-> {"CPU"}]
Mixed == [t \in Tasks |-> IF t = 1 THEN {"GPU"} ELSE {"CPU"}]
Anywhere == [t \in Tasks |-> Device]
SameRank == [t \in Tasks |-> 1]
LaterFirst == [t \in Tasks |-> t]
==============================================================================
