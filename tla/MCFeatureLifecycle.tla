------------------------- MODULE MCFeatureLifecycle -------------------------
(* Two features for TLC: independent ones, and one that depends on the    *)
(* other.  The dependency functions are chosen in the .cfg files.         *)
EXTENDS FeatureLifecycle

CONSTANTS f1, f2

MCFeatures == {f1, f2}
Independent == [f \in MCFeatures |-> {}]
SecondNeedsFirst == [f \in MCFeatures |-> IF f = f2 THEN {f1} ELSE {}]
NoPositions == [f \in MCFeatures |-> NoPosition]
NoEdges == {}
LateEdge == {<< f2, f1 >>}
SecondPlaced == [f \in MCFeatures |-> IF f = f2 THEN 1 ELSE NoPosition]
=============================================================================
