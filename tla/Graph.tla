------------------------------- MODULE Graph -------------------------------
(***************************************************************************)
(* The feature graph: milestones, features and tasks with the edges       *)
(* between them, the successor index kept beside the edges, and the       *)
(* operations that edit all of it.  An operation either returns a new      *)
(* graph or is refused (GraphValidationError).                             *)
(*                                                                         *)
(* Identifiers are numbers, one sequence per kind of row: the code's       *)
(* "f-3" is 3.  An edge says that a row depends on another one of its     *)
(* kind.  Abstracted: names, descriptions and the other texts of a row    *)
(* (one of them is kept, "text"), branch names, and the columns of the    *)
(* merge train and of conflicts (modules FeatureLifecycle, CrossFeature). *)
(***************************************************************************)
EXTENDS SequencesExt

----------------------------------------------------------------------------
(* Rows *)

Weights == {"trivial", "small", "medium", "heavy"}
Unqueued == 99

NewMilestone(order) == [order |-> order, queued |-> Unqueued]
NewFeature(milestone, order) ==
    [milestone |-> milestone, order |-> order, deps |-> {}, text |-> "",
     status |-> "pending", work |-> "discussing", collab |-> "none",
     blocked |-> FALSE]
NewTask(feature, order, weight) ==
    [feature |-> feature, order |-> order, deps |-> {}, status |-> "pending",
     weight |-> weight, paths |-> {}]

Completed(feature) == feature.work = "work_complete" /\ feature.collab = "merged"
Editable(feature) == feature.collab # "cancelled" /\ ~ Completed(feature)

MaxId(rows) == Max({0} \cup DOMAIN rows)
TasksOf(g, f) == {t \in DOMAIN g.ts : g.ts[t].feature = f}

\* The rows with one of them written, or added.
Put(rows, i, row) ==
    [j \in DOMAIN rows \cup {i} |-> IF j = i THEN row ELSE rows[j]]

\* The rows of a kind, and the index of their edges.
Index(rows) == IF rows = "fs" THEN "fsucc" ELSE "tsucc"
Pairs(rows) == UNION {{<< d, i >> : d \in rows[i].deps} : i \in DOMAIN rows}

----------------------------------------------------------------------------
(* Paths *)

\* What is reached from a row along the successor index.
Reach(from, succ) ==
    LET step[n \in 0..Cardinality(succ)] ==
          IF n = 0 THEN {from}
          ELSE step[n - 1] \cup {e[2] : e \in {d \in succ : d[1] \in step[n - 1]}}
    IN step[Cardinality(succ)]

\* The mutant walks the edges the wrong way.
HasPathBack(from, to, succ) == from \in Reach(to, succ)
HasPath(from, to, succ) == to \in Reach(from, succ)

----------------------------------------------------------------------------
(* Creation *)

Empty == [ms |-> << >>, fs |-> << >>, ts |-> << >>,
          fsucc |-> {}, tsucc |-> {}, counter |-> 0]

\* One place after the last of the same milestone or feature.
OrderAfter(rows, mates) == 1 + Max({-1} \cup {rows[i].order : i \in mates})

CanCreateMilestone(g, m) == m \notin DOMAIN g.ms
CreateMilestone(g, m) ==
    [g EXCEPT !.ms = Put(@, m, NewMilestone(Cardinality(DOMAIN g.ms)))]

CanCreateFeature(g, f, m) == f \notin DOMAIN g.fs /\ m \in DOMAIN g.ms
CreateFeature(g, f, m) ==
    LET mates == {h \in DOMAIN g.fs : g.fs[h].milestone = m} IN
    [g EXCEPT !.fs = Put(@, f, NewFeature(m, OrderAfter(g.fs, mates)))]

CanCreateTask(g, t, f) ==
    t \notin DOMAIN g.ts /\ f \in DOMAIN g.fs /\ Editable(g.fs[f])
CreateTask(g, t, f, weight) ==
    [g EXCEPT !.ts = Put(@, t, NewTask(f, OrderAfter(g.ts, TasksOf(g, f)), weight))]

\* addTask numbers the task itself.
NextTask(g) == 1 + Max({g.counter} \cup DOMAIN g.ts)

----------------------------------------------------------------------------
(* Dependencies between features, or between tasks of a feature *)

SameFeature(g, rows, from, to) ==
    rows = "ts" => g.ts[from].feature = g.ts[to].feature

CanDepend(g, rows, from, to) ==
    /\ {from, to} \subseteq DOMAIN g[rows]
    /\ SameFeature(g, rows, from, to)
    /\ to \notin g[rows][from].deps
    /\ ~ HasPath(from, to, g[Index(rows)])
Depend(g, rows, from, to) ==
    [g EXCEPT ![rows][from].deps = @ \cup {to},
              ![Index(rows)] = @ \cup {<< to, from >>}]

CanUndepend(g, rows, from, to) ==
    from \in DOMAIN g[rows] /\ to \in g[rows][from].deps
Undepend(g, rows, from, to) ==
    [g EXCEPT ![rows][from].deps = @ \ {to},
              ![Index(rows)] = @ \ {<< to, from >>}]

----------------------------------------------------------------------------
(* Edits and removals *)

\* The rows that remain, without their edges to those that do not.
Without(rows, gone) ==
    [i \in DOMAIN rows \ gone |-> [rows[i] EXCEPT !.deps = @ \ gone]]
EdgesWithout(succ, gone) == {e \in succ : e[1] \notin gone /\ e[2] \notin gone}

RemoveFeature(g, f) ==
    [g EXCEPT !.fs = Without(g.fs, {f}),
              !.fsucc = EdgesWithout(@, {f}),
              !.ts = Without(g.ts, TasksOf(g, f)),
              !.tsucc = EdgesWithout(@, TasksOf(g, f))]

EditFeature(g, f, text) == [g EXCEPT !.fs[f].text = text]

CanRemoveTask(g, t) == t \in DOMAIN g.ts /\ g.ts[t].status \in {"pending", "cancelled"}
RemoveTask(g, t) == [g EXCEPT !.ts = Without(g.ts, {t}),
                              !.tsucc = EdgesWithout(@, {t})]

EditTask(g, t, weight) == [g EXCEPT !.ts[t].weight = weight]

\* Cancelling a feature leaves its finished tasks, and clears its block.
CancelFeature(g, f) ==
    [g EXCEPT
        !.fs[f].collab = "cancelled", !.fs[f].blocked = FALSE,
        !.ts = [t \in DOMAIN @ |->
                  IF @[t].feature = f /\ @[t].status # "done"
                     THEN [@[t] EXCEPT !.status = "cancelled"] ELSE @[t]]]

----------------------------------------------------------------------------
(* The queue of milestones *)

Queued(g) == {m \in DOMAIN g.ms : g.ms[m].queued # Unqueued}
QueueMilestone(g, m) ==
    [g EXCEPT !.ms[m].queued = 1 + Max({-1} \cup {g.ms[n].queued : n \in Queued(g)})]
DequeueMilestone(g, m) == [g EXCEPT !.ms[m].queued = Unqueued]

----------------------------------------------------------------------------
(* What is ready *)

DependenciesMerged(g, f) ==
    \A d \in g.fs[f].deps : d \in DOMAIN g.fs /\ Completed(g.fs[d])
DependenciesDone(g, t) ==
    \A d \in g.ts[t].deps : d \in DOMAIN g.ts /\ g.ts[d].status = "done"

ReadyFeature(g, f) ==
    /\ g.fs[f].work \in {"discussing", "researching", "planning", "ci_check",
                         "verifying", "replanning", "summarizing"}
    /\ g.fs[f].collab \notin {"cancelled", "conflict", "merge_queued", "integrating"}
    /\ ~ g.fs[f].blocked
    /\ g.fs[f].collab = "merged" => g.fs[f].work = "summarizing"
    /\ DependenciesMerged(g, f)

ReadyTask(g, t) ==
    /\ g.ts[t].status = "ready"
    /\ g.fs[g.ts[t].feature].collab # "cancelled"
    /\ ~ g.fs[g.ts[t].feature].blocked
    /\ DependenciesDone(g, t)

----------------------------------------------------------------------------
(* What a graph must be *)

\* Loading a graph makes the index and the task counter anew.
Loaded(g) == [g EXCEPT !.fsucc = Pairs(g.fs), !.tsucc = Pairs(g.ts),
                       !.counter = MaxId(g.ts)]

Acyclic(rows) ==
    \A i \in DOMAIN rows : \A d \in rows[i].deps :
        d \notin Reach(i, Pairs(rows))

\* validateInvariants.
ValidGraph(g) ==
    /\ \A f \in DOMAIN g.fs : /\ g.fs[f].milestone \in DOMAIN g.ms
                              /\ g.fs[f].deps \subseteq DOMAIN g.fs
    /\ \A t \in DOMAIN g.ts :
          /\ g.ts[t].feature \in DOMAIN g.fs
          /\ \A d \in g.ts[t].deps : /\ d \in DOMAIN g.ts
                                     /\ g.ts[d].feature = g.ts[t].feature
    /\ Acyclic(g.fs)
    /\ Acyclic(g.ts)

\* A valid graph whose index agrees with its edges.
Sound(g) == ValidGraph(g) /\ g.fsucc = Pairs(g.fs) /\ g.tsucc = Pairs(g.ts)

\* The columns of the rows, and the maps that hold them.
MilestoneFields == {"order", "queued"}
FeatureFields == {"milestone", "order", "deps", "text", "status", "work",
                  "collab", "blocked"}
TaskFields == {"feature", "order", "deps", "status", "weight", "paths"}
GraphFields == {"ms", "fs", "ts", "fsucc", "tsucc", "counter"}

Keyed(f, keys) == DOMAIN f = keys /\ f = [k \in keys |-> f[k]]
Table(rows, fields) ==
    /\ Keyed(rows, DOMAIN rows)
    /\ IsFiniteSet(DOMAIN rows)
    /\ \A i \in DOMAIN rows : Keyed(rows[i], fields)
WellFormed(g) ==
    /\ Keyed(g, GraphFields)
    /\ Table(g.ms, MilestoneFields)
    /\ Table(g.fs, FeatureFields)
    /\ Table(g.ts, TaskFields)

\* Identifiers are numbers.
Kinds == {"ms", "fs", "ts"}
Numbered(g) == \A kind \in Kinds : DOMAIN g[kind] \subseteq Nat

\* Tasks have a weight; one that is not given any counts as medium.
Weighed(g) == \A t \in DOMAIN g.ts : g.ts[t].weight \in Weights
=============================================================================
