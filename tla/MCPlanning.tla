------------------------------ MODULE MCPlanning ------------------------------
EXTENDS Planning

\* A feature in execution, whose second task waits for the first, and one that
\* is to be planned.
F(work, collab) == [NewFeature(1, 0) EXCEPT !.work = work, !.collab = collab]
T(f, weight, deps, status) ==
    [NewTask(f, 0, weight) EXCEPT !.deps = deps, !.status = status]

Built(fs, ts) ==
    Loaded([Empty EXCEPT !.ms = << NewMilestone(0) >>, !.fs = fs, !.ts = ts])

UnderWay ==
    Built(<< F("executing", "branch_open"), F("planning", "none") >>,
          << T(1, "small", {}, "ready"), T(1, "small", {1}, "pending") >>)

\* A feature to be planned again, one of its tasks lost.
Again ==
    Built(<< F("replanning", "branch_open") >>,
          << T(1, "small", {}, "failed"), T(1, "small", {1}, "pending") >>)

\* Tasks that compete: in one feature, in two, and before a third feature.
Competing ==
    Built(<< F("executing", "branch_open"), F("executing", "branch_open"),
             [F("discussing", "none") EXCEPT !.deps = {1, 2}] >>,
          << T(1, "small", {}, "ready"), T(1, "medium", {}, "ready"),
             T(1, "heavy", {1}, "pending"), T(2, "heavy", {}, "ready") >>)

StartOf(g, m, p, n) == [graph |-> g, ops |-> m, projects |-> p, turns |-> n]
StartGraphs ==
    {StartOf(Empty, 3, 1, 1), StartOf(Empty, 2, 2, 1), StartOf(UnderWay, 2, 1, 0),
     StartOf(UnderWay, 1, 1, 1), StartOf(UnderWay, 1, 2, 0),
     StartOf(Again, 3, 0, 1), StartOf(Again, 1, 0, 2), StartOf(UnderWay, 2, 0, 1),
     StartOf(Competing, 1, 1, 0)}
=============================================================================
