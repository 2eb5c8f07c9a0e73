------------------------------- MODULE Planning -------------------------------
(***************************************************************************)
(* The graph as several planners edit it: sessions that record proposals   *)
(* for the project or for one feature, the user who approves them, the     *)
(* scheduler that dispatches the ready work of the same graph, and crashes *)
(* between the writes of an approval.                                      *)
(*                                                                         *)
(* A session of a feature parks the tick that dispatched it: nothing else  *)
(* is dispatched, approved or finished until it ends.  Sessions of the     *)
(* project, and the user's cancellations, go on beside it.                 *)
(*                                                                         *)
(* Abstracted: the list of a tick, its size and its age (a unit is chosen  *)
(* anew each time; TaskRuns has the list), the run of a phase that plans   *)
(* nothing (one step; Phases has it), runs of tasks (TaskRuns), the train  *)
(* (FeatureLifecycle) and git (Integration).                               *)
(***************************************************************************)
EXTENDS Proposals, Scheduling

CONSTANTS
    Starts         \* graphs the program may find in its store, each with
                   \*   ops: bound on operations recorded
                   \*   projects: bound on sessions of the project
                   \*   turns: bound on crashes, errors, cancellations,
                   \*     resumptions, failures and changes of the queue,
                   \*     taken together

ASSUME PlanningConstants ==
    \A s \in Starts : /\ {s.ops, s.projects, s.turns} \subseteq Nat
                      /\ WellFormed(s.graph) /\ Sound(s.graph)
                      /\ Numbered(s.graph) /\ Weighed(s.graph)

VARIABLES
    graph,      \* the feature graph
    version,    \* graphVersion
    runs,       \* rows of the store, by <<"project", n>> or <<phase, feature>>
    sessions,   \* live tool hosts, by <<row, number>>
    torn,       \* a crash has cut an approval before the version was written
    left        \* what is left of the bounds

planVars == << graph, version, runs, sessions, torn, left >>

----------------------------------------------------------------------------
(* State *)

ProposalPhases == {"plan", "replan"}
PhaseWork == [plan |-> "planning", replan |-> "replanning"]

IsProject(key) == key[1] = "project"
StatusOf(key) == IF key \in DOMAIN runs THEN runs[key].status ELSE "none"

\* What a row holds of its proposal: the record, the version it was submitted
\* at, and, for the properties, the graph and the draft of then.
Nothing == [ops |-> << >>]
Row(status, payload) == [status |-> status, payload |-> payload]
SetRun(key, status, payload) == runs' = Put(runs, key, Row(status, payload))

SessionsOf(key) == {s \in DOMAIN sessions : s[1] = key}
Opens(key, n) == sessions' = Put(sessions, << key, n >>, Host(graph))
Keep(domain) == sessions' = [s \in domain |-> sessions[s]]

\* The tick waits for the session of a feature.
Parked == \E s \in DOMAIN sessions : ~ IsProject(s[1])

Spend(bound) == left[bound] > 0 /\ left' = [left EXCEPT ![bound] = @ - 1]
Turn == Spend("turns")

\* The rows of the graph without what running the work changes.
Structure(g) ==
    [ms |-> DOMAIN g.ms,
     fs |-> [f \in DOMAIN g.fs |->
               [milestone |-> g.fs[f].milestone, order |-> g.fs[f].order,
                deps |-> g.fs[f].deps, text |-> g.fs[f].text]],
     ts |-> [t \in DOMAIN g.ts |->
               [feature |-> g.ts[t].feature, order |-> g.ts[t].order,
                deps |-> g.ts[t].deps, weight |-> g.ts[t].weight]]]

InitPlanning ==
    /\ \E s \in Starts : /\ graph = s.graph
                         /\ left = [ops |-> s.ops, projects |-> s.projects,
                                    turns |-> s.turns]
    /\ version = 0
    /\ runs = << >>
    /\ sessions = << >>
    /\ torn = FALSE

----------------------------------------------------------------------------
(* Dispatch *)

\* The next phase, after one that proposes nothing.
NextWork ==
    [discussing |-> "researching", researching |-> "planning",
     ci_check |-> "verifying", verifying |-> "awaiting_merge",
     summarizing |-> "work_complete"]

PhaseOf(f) ==
    CHOOSE p \in ProposalPhases : PhaseWork[p] = graph.fs[f].work
Proposes(f) == \E p \in ProposalPhases : PhaseWork[p] = graph.fs[f].work

\* A proposal that waits, failed or was decided is not dispatched again.
Busy == {f \in DOMAIN graph.fs :
            /\ Proposes(f)
            /\ StatusOf(<< PhaseOf(f), f >>) \in
                 {"running", "failed", "await_approval", "completed"}}

\* The dispatch guard passes over the work of a feature whose dependencies
\* have not landed.
Guarded(unit) == ~ DependenciesMerged(graph, FeatureOf(graph, unit))
ReadyUnits == Units(graph, Busy)
Dispatchable == {u \in ReadyUnits : ~ Guarded(u)}

\* A feature whose session failed waits for its time; any may still have to.
Waits == {f \in DOMAIN graph.fs :
             Proposes(f) /\ StatusOf(<< PhaseOf(f), f >>) = "retry_await"}
First(waiting) ==
    FirstUnits(graph, ReadyUnits, Dispatchable \ {<< "fs", f >> : f \in waiting})

LaunchTask(t) ==
    /\ graph' = [graph EXCEPT !.ts[t].status = "running"]
    /\ UNCHANGED << runs, sessions >>

LaunchPlanner(f) ==
    LET key == << PhaseOf(f), f >>
        g == [graph EXCEPT !.fs[f].status = "in_progress"]
    IN /\ graph' = g
       /\ SetRun(key, "running", Nothing)
       /\ sessions' = Put(sessions, << key, 1 >>, Host(g))

\* A verified feature enters the train.
PassPhase(f) ==
    /\ graph' = [graph EXCEPT
          !.fs[f].work = NextWork[@], !.fs[f].status = "pending",
          !.fs[f].collab = IF graph.fs[f].work = "verifying" THEN "merge_queued" ELSE @]
    /\ UNCHANGED << runs, sessions >>

Dispatch ==
    /\ ~ Parked
    /\ \E unit \in UNION {First(waiting) : waiting \in SUBSET Waits} :
          \/ unit[1] = "ts" /\ LaunchTask(unit[2])
          \/ unit[1] = "fs" /\ Proposes(unit[2]) /\ LaunchPlanner(unit[2])
          \/ unit[1] = "fs" /\ ~ Proposes(unit[2]) /\ PassPhase(unit[2])
    /\ UNCHANGED << version, torn, left >>

----------------------------------------------------------------------------
(* The work goes on *)

TaskLands(t) ==
    LET f == graph.ts[t].feature
        last == \A u \in TasksOf(graph, f) \ {t} : graph.ts[u].status = "done"
    IN
    /\ ~ Parked
    /\ graph.ts[t].status = "running"
    /\ graph' = [graph EXCEPT
          !.ts[t].status = "done",
          !.fs[f].work = IF @ = "executing" /\ last THEN "ci_check" ELSE @]
    /\ UNCHANGED << version, runs, sessions, torn, left >>

\* The squash of a task keeps failing: its feature is planned again.
TaskConflicts(t) ==
    LET f == graph.ts[t].feature IN
    /\ ~ Parked /\ Turn
    /\ graph.ts[t].status = "running"
    /\ graph.fs[f].work = "executing" /\ graph.fs[f].collab # "cancelled"
    /\ graph' = [graph EXCEPT !.ts[t].status = "failed",
                              !.fs[f].work = "replanning", !.fs[f].status = "pending"]
    /\ UNCHANGED << version, runs, sessions, torn >>

Lands(f) ==
    /\ ~ Parked
    /\ graph.fs[f].collab = "merge_queued"
    /\ graph' = [graph EXCEPT !.fs[f].collab = "merged", !.fs[f].work = "summarizing"]
    /\ UNCHANGED << version, runs, sessions, torn, left >>

----------------------------------------------------------------------------
(* The user beside it *)

\* Rows of the feature become cancelled, whatever they were; its session is
\* told to stop.
UserCancels(f) ==
    LET mine == {key \in DOMAIN runs : ~ IsProject(key) /\ key[2] = f} IN
    /\ Turn
    /\ graph.fs[f].collab # "cancelled"
    /\ graph' = CancelFeature(graph, f)
    /\ runs' = [key \in DOMAIN runs |->
                  IF key \in mine THEN Row("cancelled", Nothing) ELSE runs[key]]
    /\ sessions' = [s \in DOMAIN sessions |->
                      IF s[1] \in mine THEN [sessions[s] EXCEPT !.aborted = TRUE]
                      ELSE sessions[s]]
    /\ UNCHANGED << version, torn >>

TogglesMilestone(m) ==
    /\ Turn
    /\ graph' = IF m \in Queued(graph) THEN DequeueMilestone(graph, m)
                ELSE QueueMilestone(graph, m)
    /\ UNCHANGED << version, runs, sessions, torn >>

----------------------------------------------------------------------------
(* Sessions of the project *)

StartProject ==
    LET key == << "project", 1 + Cardinality({k \in DOMAIN runs : IsProject(k)}) >> IN
    /\ Spend("projects")
    /\ SetRun(key, "running", Nothing)
    /\ Opens(key, 1)
    /\ UNCHANGED << graph, version, torn >>

\* A row that runs may be resumed too, beside the session it has.
ResumeProject(key) ==
    /\ Turn
    /\ IsProject(key) /\ runs[key].status \in {"running", "retry_await"}
    /\ Cardinality(SessionsOf(key)) < 2
    /\ SetRun(key, "running", Nothing)
    /\ Opens(key, CHOOSE n \in 1..2 : << key, n >> \notin DOMAIN sessions)
    /\ UNCHANGED << graph, version, torn >>

CancelProject(key) ==
    /\ Turn
    /\ IsProject(key)
    /\ runs[key].status \notin {"completed", "cancelled", "failed"}
    /\ SetRun(key, "cancelled", Nothing)
    /\ sessions' = [s \in DOMAIN sessions |->
                      IF s[1] = key THEN [sessions[s] EXCEPT !.aborted = TRUE]
                      ELSE sessions[s]]
    /\ UNCHANGED << graph, version, torn >>

----------------------------------------------------------------------------
(* What a session records *)

Pick(kinds, ids, refs, vals) ==
    {Op(k, i, r, v) : k \in kinds, i \in ids, r \in refs, v \in vals}

ProjectOps(g) ==
    LET fs == DOMAIN g.fs IN
    Pick({"add_milestone"}, {MaxId(g.ms) + 1}, {0}, {""}) \cup
    Pick({"add_feature"}, {MaxId(g.fs) + 1}, DOMAIN g.ms, {""}) \cup
    Pick({"remove_feature"}, fs, {0}, {""}) \cup
    Pick({"edit_feature"}, fs, {0}, {"new"}) \cup
    Pick({"add_feature_dep", "remove_feature_dep"}, fs, fs, {""})

FeatureOps(g) ==
    LET ts == DOMAIN g.ts IN
    Pick({"add_task"}, {NextTask(g)}, DOMAIN g.fs, {"heavy"}) \cup
    Pick({"remove_task"}, ts, {0}, {""}) \cup
    Pick({"edit_task"}, ts, {0}, {"trivial"}) \cup
    Pick({"edit_feature"}, DOMAIN g.fs, {0}, {"new"}) \cup
    Pick({"add_task_dep", "remove_task_dep"}, ts, ts, {""})

\* The draft refuses what the graph would; a refused operation is not recorded.
RecordOp(s) ==
    LET host == sessions[s] IN
    /\ Spend("ops")
    /\ ~ host.aborted
    /\ \E op \in IF IsProject(s[1]) THEN ProjectOps(host.draft) ELSE FeatureOps(host.draft) :
          /\ Accepts(host.draft, op)
          /\ sessions' = [sessions EXCEPT ![s] = Record(@, op)]
    /\ UNCHANGED << graph, version, runs, torn >>

\* The session ends with a proposal: its row waits for the user, whatever
\* happened to it meanwhile.
Submit(s) ==
    LET host == sessions[s] IN
    /\ SetRun(s[1], "await_approval",
              [ops |-> host.ops, baseline |-> version, at |-> Structure(graph),
               names |-> host.names, from |-> host.from, draft |-> host.draft])
    /\ Keep(DOMAIN sessions \ {s})
    /\ UNCHANGED << graph, version, torn, left >>

\* The session ends without one.
SessionErrs(s) ==
    /\ Turn
    /\ \E status \in {"retry_await", "failed"} :
          IF ~ IsProject(s[1]) /\ graph.fs[s[1][2]].collab = "cancelled"
          THEN UNCHANGED runs
          ELSE SetRun(s[1], status, Nothing)
    /\ Keep(DOMAIN sessions \ {s})
    /\ UNCHANGED << graph, version, torn >>

----------------------------------------------------------------------------
(* Decisions *)

Waiting(key) == ~ Parked /\ runs[key].status = "await_approval"
Whole(payload) == Applied(graph, payload.ops, Len(payload.ops))
\* The mutant counts no change that comes from a feature.
BumpForProjects(key, result) == IF IsProject(key) /\ result.applied # << >> THEN 1 ELSE 0
Bump(key, result) == IF result.applied # << >> THEN 1 ELSE 0

\* The user is asked about the phase the feature is in.
Offered(key) ==
    /\ graph.fs[key[2]].collab # "cancelled"
    /\ graph.fs[key[2]].work = PhaseWork[key[1]]

\* Tasks whose dependencies are done are made ready: new ones, and, when
\* planned again, those that were stuck.
PromotedOf(g, f, phase, tasks) ==
    [g EXCEPT !.ts = [t \in DOMAIN @ |->
        IF /\ t \in tasks /\ @[t].feature = f
           /\ \/ @[t].status = "pending"
              \/ @[t].status = "stuck" /\ phase = "replan"
           /\ DependenciesDone(g, t)
        THEN [@[t] EXCEPT !.status = "ready"] ELSE @[t]]]
Promoted(g, f, phase) == PromotedOf(g, f, phase, DOMAIN g.ts)

ShouldAdvance(g, f, phase, result) ==
    IF phase = "replan" THEN \E t \in TasksOf(g, f) : g.ts[t].status = "ready"
    ELSE result.applied # << >>

Advanced(g, f) ==
    [g EXCEPT !.fs[f].work = "executing", !.fs[f].status = "pending",
              !.fs[f].collab = "branch_open"]

\* A proposal that leaves the feature without tasks cancels it.  The branch is
\* made before the feature advances, and may fail to be.
ApproveFeature(key, branch) ==
    LET f == key[2]
        result == Whole(runs[key].payload)
        g == Promoted(result.graph, f, key[1])
    IN
    /\ ~ IsProject(key) /\ Waiting(key) /\ Offered(key)
    /\ ~ branch => ShouldAdvance(g, f, key[1], result) /\ TasksOf(g, f) # {} /\ Turn
    /\ branch => UNCHANGED left
    /\ graph' = IF TasksOf(g, f) = {} THEN CancelFeature(g, f)
                ELSE IF branch /\ ShouldAdvance(g, f, key[1], result) THEN Advanced(g, f)
                ELSE g
    /\ version' = version + Bump(key, result)
    /\ SetRun(key, "completed", Nothing)
    /\ UNCHANGED << sessions, torn >>

RejectFeature(key) ==
    /\ ~ IsProject(key) /\ Waiting(key) /\ Offered(key)
    /\ SetRun(key, "completed", Nothing)
    /\ UNCHANGED << graph, version, sessions, torn, left >>

RunningWork(f) ==
    \/ \E t \in TasksOf(graph, f) : graph.ts[t].status = "running"
    \/ \E p \in ProposalPhases : StatusOf(<< p, f >>) = "running"

Untouched(payload) ==
    \A f \in Affected(graph, payload.ops) : ~ RunningWork(f)
Current(payload) == payload.baseline = version /\ Untouched(payload)

\* A proposal that is refused leaves its row running, with no session.
ApproveProject(key) ==
    LET payload == runs[key].payload
        result == Whole(payload)
    IN
    /\ IsProject(key) /\ Waiting(key)
    /\ \/ /\ Current(payload)
          /\ graph' = result.graph
          /\ version' = version + Bump(key, result)
          /\ SetRun(key, "completed", Nothing)
       \/ /\ ~ Current(payload)
          /\ SetRun(key, "running", Nothing)
          /\ UNCHANGED << graph, version >>
    /\ UNCHANGED << sessions, torn, left >>

RejectProject(key) ==
    /\ IsProject(key) /\ Waiting(key)
    /\ SetRun(key, "cancelled", Nothing)
    /\ UNCHANGED << graph, version, sessions, torn, left >>

----------------------------------------------------------------------------
(* Crash and restart *)

\* Recovery dispatches every running row again, with an empty host.
Restarted(g) ==
    [s \in {<< key, 1 >> : key \in {k \in DOMAIN runs : runs[k].status = "running"}}
       |-> Host(g)]

Crash ==
    /\ Turn
    /\ graph' = Loaded(graph)
    /\ sessions' = Restarted(graph')
    /\ UNCHANGED << version, runs, torn >>

\* Every operation of a proposal is written by itself, then the version, then
\* the row.
CrashInApproval(key) ==
    LET payload == runs[key].payload IN
    /\ Turn
    /\ Waiting(key)
    /\ IF IsProject(key) THEN Current(payload) ELSE Offered(key)
    /\ \E n \in 1..Len(payload.ops), bumped \in BOOLEAN :
          LET result == Applied(graph, payload.ops, n) IN
          /\ result.applied # << >>
          /\ bumped => n = Len(payload.ops)
          /\ graph' = Loaded(result.graph)
          /\ version' = IF bumped THEN version + 1 ELSE version
          /\ torn' = (torn \/ ~ bumped)
    /\ sessions' = Restarted(graph')
    /\ UNCHANGED << runs >>

\* Of a feature, what follows the version is written before the row: tasks
\* made ready one by one, stuck ones first (their order in the feature, which
\* the user may change, is left out), then the feature done with its phase
\* and moved on; or its cancellation.  The user may be asked once more.
StuckFirst(g, f, tasks) ==
    \A t \in tasks, u \in TasksOf(g, f) :
        g.ts[t].status = "pending" /\ g.ts[u].status = "stuck" => u \in tasks

Advancing(g, f) ==
    {[g EXCEPT !.fs[f].status = s] :
        s \in {"done"} \cup
              (IF g.fs[f].status = "pending" THEN {"in_progress"} ELSE {})}
    \cup {Advanced(g, f)}

CrashAfterApplying(key) ==
    LET f == key[2]
        result == Whole(runs[key].payload)
        g == Promoted(result.graph, f, key[1])
    IN
    /\ Turn
    /\ ~ IsProject(key) /\ Waiting(key) /\ Offered(key)
    /\ \/ /\ TasksOf(g, f) = {}
          /\ graph' = Loaded(CancelFeature(g, f))
       \/ \E tasks \in SUBSET TasksOf(g, f) :
             /\ StuckFirst(result.graph, f, tasks)
             /\ graph' = Loaded(PromotedOf(result.graph, f, key[1], tasks))
       \/ /\ TasksOf(g, f) # {} /\ ShouldAdvance(g, f, key[1], result)
          /\ \E h \in Advancing(g, f) : graph' = Loaded(h)
    /\ version' = version + Bump(key, result)
    /\ sessions' = Restarted(graph')
    /\ UNCHANGED << runs, torn >>

----------------------------------------------------------------------------

NextPlanning ==
    \/ Dispatch
    \/ \E t \in DOMAIN graph.ts : TaskLands(t) \/ TaskConflicts(t)
    \/ \E f \in DOMAIN graph.fs : Lands(f) \/ UserCancels(f)
    \/ \E m \in DOMAIN graph.ms : TogglesMilestone(m)
    \/ StartProject
    \/ \E s \in DOMAIN sessions : RecordOp(s) \/ Submit(s) \/ SessionErrs(s)
    \/ \E key \in DOMAIN runs :
          \/ ResumeProject(key) \/ CancelProject(key)
          \/ \E branch \in BOOLEAN : ApproveFeature(key, branch)
          \/ RejectFeature(key)
          \/ ApproveProject(key) \/ RejectProject(key)
          \/ CrashInApproval(key) \/ CrashAfterApplying(key)
    \/ Crash

SpecPlanning == InitPlanning /\ [][NextPlanning]_planVars

----------------------------------------------------------------------------
(* Properties *)

\* Whatever is recorded, approved, skipped or cut short by a crash, the graph
\* and every draft stay acyclic and closed under their references, and the
\* index that cycle checks walk agrees with the edges (graph/validation.ts,
\* graph/dependencies.ts).
GraphValid ==
    /\ Sound(graph)
    /\ \A s \in DOMAIN sessions : Sound(sessions[s].draft)

\* A draft under the names its proposal gets when it is applied: each row by
\* its name in the record, resolved.
NameOf(names, bound, kind, id) == Bound(bound, AliasFor(names, << kind, id >>))
Renamed(g, names, bound) ==
    LET name(kind, id) == NameOf(names, bound, kind, id)
        rename(kind, ids) == {name(kind, i) : i \in ids}
        row(kind, j) == g[kind][CHOOSE i \in DOMAIN g[kind] : name(kind, i) = j]
        pairs(kind, edges) == {<< name(kind, e[1]), name(kind, e[2]) >> : e \in edges}
    IN [ms |-> [j \in rename("ms", DOMAIN g.ms) |-> row("ms", j)],
        fs |-> [j \in rename("fs", DOMAIN g.fs) |->
                  [row("fs", j) EXCEPT !.milestone = name("ms", @),
                                       !.deps = rename("fs", @)]],
        ts |-> [j \in rename("ts", DOMAIN g.ts) |->
                  [row("ts", j) EXCEPT !.feature = name("fs", @),
                                       !.deps = rename("ts", @)]],
        fsucc |-> pairs("fs", g.fsucc), tsucc |-> pairs("ts", g.tsucc)]

Plain(g) == [k \in {"ms", "fs", "ts", "fsucc", "tsucc"} |-> g[k]]

\* What the user approves is what the draft showed: on the graph the session
\* started from, a proposal applies in full, up to the names of new rows,
\* unless it removes a feature that has started or that others depend on
\* (proposals/index.ts resolves aliases the draft knows under other names).
PreviewIsApplied ==
    \A key \in DOMAIN runs :
        LET p == runs[key].payload
            result == Whole(p)
        IN runs[key].status = "await_approval" /\ p.from = graph =>
             IF result.skipped = << >>
             THEN Plain(result.graph) = Renamed(p.draft, p.names, result.bound)
             ELSE result.skipped[1].kind = "remove_feature"

ProjectApplied(key) ==
    /\ IsProject(key)
    /\ runs[key].status = "await_approval"
    /\ runs'[key].status = "completed"

\* A proposal of the project is applied to the graph it was submitted against
\* and to no other, unless a crash cut an approval before it counted
\* (orchestrator/proposals/index.ts, applyProjectProposal).
AppliedToItsBaseline ==
    [][\A key \in DOMAIN runs :
         ProjectApplied(key) /\ ~ torn =>
             Structure(graph) = runs[key].payload.at]_planVars

\* Nodes a unit holds up, taken from the rows alone: later tasks of its
\* feature, and the work of features that depend on it.
FeatureBefore(g, a, b) ==
    LET edges == {e \in Pairs(g.fs) : {e[1], e[2]} \subseteq Unfinished(g)} IN
    a # b /\ b \in Reach(a, edges)
NodeBefore(g, a, b) ==
    \/ FeatureBefore(g, FeatureOf(g, a), FeatureOf(g, b))
    \/ /\ a[1] = "ts" /\ b[1] = "ts" /\ a # b
       /\ FeatureOf(g, a) = FeatureOf(g, b)
       /\ b[2] \in Reach(a[2], Pairs(g.ts))

\* The heaviest chain of nodes that starts with one.
ChainWeight(g, node) ==
    LET weigh(n) == NodeWeight(g, n)
        after == {n \in Nodes(g) : NodeBefore(g, node, n)}
        chains == {c \in SUBSET after : \A a, b \in c :
                      a = b \/ NodeBefore(g, a, b) \/ NodeBefore(g, b, a)}
    IN weigh(node) + Max({MapThenSumSet(weigh, c) : c \in chains})

\* Of ready tasks of equal milestone and tier, the one dispatched holds up the
\* heaviest chain of remaining work, counted over the dependencies of tasks
\* and of features and not over the graph of nodes the code builds from them
\* (core/scheduling/index.ts); an executing feature without tasks has no node
\* and breaks the chain, so there must be none.
HeaviestChainFirst ==
    [][\A t \in DOMAIN graph.ts, u \in Dispatchable :
         LET key(unit) == SubSeq(Keys(graph, << >>, ReadyUnits, unit), 1, 2) IN
         /\ graph.ts[t].status = "ready"
         /\ t \in DOMAIN graph'.ts /\ graph'.ts[t].status = "running"
         /\ \A f \in DOMAIN graph.fs :
               Expanded(graph, f) => TasksOf(graph, f) # {}
         /\ {<< "ts", t >>, u} \subseteq Nodes(graph)
         /\ key(u) = key(<< "ts", t >>)
         => ChainWeight(graph, u) <= ChainWeight(graph, << "ts", t >>)]_planVars
=============================================================================
