--------------------------- MODULE MCCrossFeature ---------------------------
(* Two features; a task of each writes to the same path, and the second has  *)
(* another task, which writes to none.                                       *)
EXTENDS CrossFeature

CONSTANTS f1, f2, t1, t2, t3, p1

TwoFeatures == {f1, f2}
ThreeTasks == {t1, t2, t3}
OnePath == {p1}
TwoInSecond == [t \in ThreeTasks |-> IF t = t1 THEN f1 ELSE f2]
FirstTwoMeet == [t \in ThreeTasks |-> IF t = t3 THEN {} ELSE {p1}]
Unrelated == [f \in TwoFeatures |-> {}]
ByName == [f \in TwoFeatures |-> IF f = f1 THEN 1 ELSE 2]
=============================================================================
