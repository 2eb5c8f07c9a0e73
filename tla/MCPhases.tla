------------------------------ MODULE MCPhases ------------------------------
(* One feature, with the bounds its configurations give.                    *)
EXTENDS Phases
=============================================================================
