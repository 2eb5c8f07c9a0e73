------------------------------ MODULE Scheduling ------------------------------
(***************************************************************************)
(* The order of ready work: milestones as queued, then the tier of the     *)
(* work, then what holds up most work, then reservations.                  *)
(*                                                                         *)
(* A unit is a ready task or a feature whose next phase is ready, as       *)
(* <<"ts" or "fs", identifier>>.  The age of a unit and its identifier,    *)
(* which decide between equals, are left out: any first unit may be taken. *)
(* No code sets a task's failure count, and a ready task is never stuck or *)
(* failed, so two further keys are the same for all units.                 *)
(***************************************************************************)
EXTENDS Graph

WeightValue == [trivial |-> 1, small |-> 4, medium |-> 10, heavy |-> 30]

Category(work) ==
    CASE work \in {"discussing", "researching", "planning", "replanning"} -> "pre"
      [] work = "executing" -> "executing"
      [] work \in {"ci_check", "verifying", "summarizing", "awaiting_merge"} -> "post"
      [] OTHER -> "done"

Tier(work) ==
    CASE work \in {"verifying", "ci_check"} -> 0
      [] work = "executing" -> 1
      [] work \in {"discussing", "researching", "planning", "replanning"} -> 2
      [] OTHER -> 3

----------------------------------------------------------------------------
(* The combined graph: a node for each task of an executing feature, and one *)
(* for every other feature that is not done                                  *)

Expanded(g, f) == Category(g.fs[f].work) = "executing"
Unfinished(g) == {f \in DOMAIN g.fs : Category(g.fs[f].work) # "done"}
NodesOf(g, f) ==
    IF f \notin Unfinished(g) THEN {}
    ELSE IF Expanded(g, f) THEN {<< "ts", t >> : t \in TasksOf(g, f)}
    ELSE {<< "fs", f >>}
Nodes(g) == UNION {NodesOf(g, f) : f \in DOMAIN g.fs}

NodeWeight(g, node) ==
    LET weigh(t) == WeightValue[g.ts[t].weight] IN
    IF node[1] = "ts" THEN weigh(node[2])
    ELSE IF TasksOf(g, node[2]) = {} THEN WeightValue.medium
    ELSE MapThenSumSet(weigh, TasksOf(g, node[2]))

TaskEdges(g, f) ==
    IF Expanded(g, f)
    THEN {<< << "ts", e[1] >>, << "ts", e[2] >> >> :
            e \in {p \in Pairs(g.ts) : g.ts[p[2]].feature = f}}
    ELSE {}
Roots(g, f) == {n \in NodesOf(g, f) : \A e \in TaskEdges(g, f) : e[2] # n}
\* The mutant takes the first tasks of a feature for its last.
RootsAsTerminals(g, f) == Roots(g, f)
Terminals(g, f) == {n \in NodesOf(g, f) : \A e \in TaskEdges(g, f) : e[1] # n}

\* The last nodes of a feature lead to the first of one that depends on it.
Successors(g) ==
    (UNION {TaskEdges(g, f) : f \in DOMAIN g.fs}) \cup
    (UNION {UNION {Terminals(g, d) \X Roots(g, f) : d \in g.fs[f].deps \cap DOMAIN g.fs} :
              f \in Unfinished(g)})

MaxDepth(g) ==
    LET succ == Successors(g)
        depth[n \in Nodes(g)] ==
          NodeWeight(g, n) + Max({0} \cup {depth[e[2]] : e \in {d \in succ : d[1] = n}})
    IN depth

----------------------------------------------------------------------------
(* Ready units, and which go first *)

FeatureOf(g, unit) == IF unit[1] = "ts" THEN g.ts[unit[2]].feature ELSE unit[2]

\* "busy" are the features whose phase has a run that is not to be repeated.
Units(g, busy) ==
    {<< "ts", t >> : t \in {u \in DOMAIN g.ts : ReadyTask(g, u)}} \cup
    {<< "fs", f >> : f \in {h \in DOMAIN g.fs \ busy : ReadyFeature(g, h)}}

Overlapping(g, units, unit) ==
    /\ unit[1] = "ts"
    /\ \E other \in units \ {unit} :
          other[1] = "ts" /\ g.ts[other[2]].paths \cap g.ts[unit[2]].paths # {}

\* A unit without a node has no depth.
DepthOf(depth, unit) == IF unit \in DOMAIN depth THEN depth[unit] ELSE 0

Keys(g, depth, units, unit) ==
    LET feature == g.fs[FeatureOf(g, unit)] IN
    << g.ms[feature.milestone].queued, Tier(feature.work),
       - DepthOf(depth, unit), IF Overlapping(g, units, unit) THEN 1 ELSE 0 >>

Precedes(a, b) ==
    \E i \in DOMAIN a : a[i] < b[i] /\ \A j \in 1..(i - 1) : a[j] = b[j]

\* Of the units that may be dispatched, those no other precedes.
FirstUnits(g, units, candidates) ==
    LET depth == MaxDepth(g)
        keys == [u \in candidates |-> Keys(g, depth, units, u)]
    IN {u \in candidates : \A o \in candidates : ~ Precedes(keys[o], keys[u])}
=============================================================================
