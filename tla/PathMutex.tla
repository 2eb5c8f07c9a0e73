------------------------------ MODULE PathMutex ------------------------------
(***************************************************************************)
(* What the registry of active path locks promises: every path has at most *)
(* one holder, a claim takes all of its paths or none, only paths that are *)
(* free or already the claimant's are taken, and a holder gives up all it  *)
(* holds at once.                                                          *)
(***************************************************************************)
CONSTANTS Paths, Runs, NoRun

VARIABLE holder       \* of each path: a run, or NoRun

Init == holder = [p \in Paths |-> NoRun]

Take(r, ps) == /\ \A p \in ps : holder[p] \in {NoRun, r}
               /\ holder' = [p \in Paths |-> IF p \in ps THEN r ELSE holder[p]]

Give(r) == holder' = [p \in Paths |-> IF holder[p] = r THEN NoRun
                                                       ELSE holder[p]]

\* The registry lives in memory: a restart of the process frees every path.
Forget == holder' = [p \in Paths |-> NoRun]

Next == \/ \E r \in Runs : Give(r) \/ \E ps \in SUBSET Paths : Take(r, ps)
        \/ Forget

Spec == Init /\ [][Next]_holder
=============================================================================
