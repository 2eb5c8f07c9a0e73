----------------------------- MODULE MCTaskRuns -----------------------------
(* Two tasks of a feature; they may reserve the path, or one may depend on  *)
(* the other.                                                               *)
EXTENDS TaskRuns

CONSTANTS t1, t2, p1, nobody

MCTasks == {t1, t2}
MCPaths == {p1}
InOrder == [t \in MCTasks |-> IF t = t1 THEN 1 ELSE 2]
Independent == [t \in MCTasks |-> {}]
SecondNeedsFirst == [t \in MCTasks |-> IF t = t2 THEN {t1} ELSE {}]
NothingReserved == [t \in MCTasks |-> {}]
SameReserved == [t \in MCTasks |-> MCPaths]
OnlyFirst == {t1}
OneSlot == {1}
TwoSlots == {1, 2}
=============================================================================
