---------------------------- MODULE MCIntegration ----------------------------
(* Two independent features, both about to pass their first verification. *)
EXTENDS Integration

CONSTANTS f1, f2, nobody

MCFeatures == {f1, f2}
Independent == [f \in MCFeatures |-> {}]
NoEdges == {}
NoPositions == [f \in MCFeatures |-> NoPosition]
=============================================================================
