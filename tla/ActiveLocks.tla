----------------------------- MODULE ActiveLocks -----------------------------
(***************************************************************************)
(* The registry of active path locks (orchestrator/scheduler/              *)
(* active-locks.ts).  Two maps are kept in step by hand: byPath says who   *)
(* holds a path and is what a claim is checked against, byRun says what a  *)
(* run holds and is what a release goes through.  A run that byRun forgets *)
(* would keep its paths for ever.  A task has one run, named after it, so  *)
(* a task's later attempts share the locks of its earlier ones.            *)
(***************************************************************************)
CONSTANTS
    Paths,       \* files a worker may want to write
    Runs,        \* the holders
    NoRun        \* an absent entry of byPath

ASSUME NoRunIsNone == NoRun \notin Runs

VARIABLES
    byPath,      \* path -> the run that holds it, or NoRun
    byRun        \* run -> the paths it holds; {} is an absent entry

locks == << byPath, byRun >>

LocksTypeOK == /\ byPath \in [Paths -> Runs \cup {NoRun}]
               /\ byRun \in [Runs -> SUBSET Paths]

NoLocks == /\ byPath = [p \in Paths |-> NoRun]
           /\ byRun = [r \in Runs |-> {}]

----------------------------------------------------------------------------
(* Operations *)

Conflicts(r, ps) == {p \in ps : byPath[p] \notin {NoRun, r}}

\* Granted, were conflicts overlooked.
GrantedUnchecked(r, ps) ==
    /\ byPath' = [p \in Paths |-> IF p \in ps THEN r ELSE byPath[p]]
    /\ byRun' = [byRun EXCEPT ![r] = @ \cup ps]

\* tryClaim, granted; it is denied when there are conflicts, and then
\* nothing is recorded.
Granted(r, ps) ==
    /\ Conflicts(r, ps) = {}
    /\ byPath' = [p \in Paths |-> IF p \in ps THEN r ELSE byPath[p]]
    /\ byRun' = [byRun EXCEPT ![r] = @ \cup ps]

\* releaseByRun: through byRun, and only what byPath still says is r's.
ReleaseByRun(r) ==
    /\ byPath' = [p \in Paths |-> IF p \in byRun[r] /\ byPath[p] = r
                                     THEN NoRun ELSE byPath[p]]
    /\ byRun' = [byRun EXCEPT ![r] = {}]

\* A new process starts with empty maps.
LoseLocks == /\ byPath' = [p \in Paths |-> NoRun]
             /\ byRun' = [r \in Runs |-> {}]

LocksNext ==
    \/ \E r \in Runs : \/ \E ps \in SUBSET Paths : Granted(r, ps)
                       \/ ReleaseByRun(r)
    \/ LoseLocks

LocksSpec == NoLocks /\ [][LocksNext]_locks

----------------------------------------------------------------------------
(* Properties *)

\* The two maps of ActiveLocks say the same: byRun lists exactly the paths
\* byPath gives to a run, so that releaseByRun frees all of them.
TablesAgree == \A r \in Runs : byRun[r] = {p \in Paths : byPath[p] = r}

Mutex == INSTANCE PathMutex WITH holder <- byPath

\* The registry is a mutual exclusion on paths with all-or-nothing claims:
\* every claim, release and restart is a step of PathMutex.
LocksAreMutex == Mutex!Spec
=============================================================================
