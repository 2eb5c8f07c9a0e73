------------------------------ MODULE MCWorker ------------------------------
(* One task's worker, with the bounds its configurations give.              *)
EXTENDS Worker
=============================================================================
