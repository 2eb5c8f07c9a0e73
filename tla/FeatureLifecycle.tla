-------------------------- MODULE FeatureLifecycle --------------------------
(***************************************************************************)
(* The life of a feature from discussion to work_complete, and the merge   *)
(* train it passes through: FeatureLifecycleCoordinator, the               *)
(* MergeTrainCoordinator it owns, SummaryCoordinator, the approval of a    *)
(* plan, and cancellation from the user interface.                         *)
(*                                                                         *)
(* The scheduler is one asynchronous loop, so a handler is never           *)
(* interleaved with another one; but every graph write of a handler is a   *)
(* database transaction of its own.  A handler is therefore a sequence of  *)
(* writes, kept in todo.  A write the transition guards refuse throws and  *)
(* drops the rest of the handler; a crash of the process drops it too.     *)
(* What was already written stays.                                         *)
(*                                                                         *)
(* Abstracted: names, descriptions and issue lists (an edit only matters   *)
(* by being refused), tasks (whether all of them landed is an input), the  *)
(* set of features (constant here).                                        *)
(***************************************************************************)
EXTENDS FeatureFsm

CONSTANTS
    Features,          \* feature ids
    DependsOn,         \* DependsOn[f]: what f depends on at first
    PlannerEdges,      \* the dependencies a project planner may add or remove
    ManualPosition,    \* merge_train_manual_position found in the database
    SkipSummary,       \* TRUE when the token profile is 'budget'
    MaxEntries,        \* bound on the times a feature enters the train
    MaxCrashes         \* bound on process crashes

NoPosition == 0        \* a feature without a manual position

ASSUME DependsOnType == DependsOn \in [Features -> SUBSET Features]
ASSUME PlannerEdgesType == PlannerEdges \in SUBSET (Features \X Features)
ASSUME ManualPositionType == ManualPosition \in [Features -> Nat]
ASSUME BoundsType == /\ SkipSummary \in BOOLEAN
                     /\ MaxEntries \in Nat
                     /\ MaxCrashes \in Nat

VARIABLES
    features,   \* the feature table, as persisted
    dependsOn,  \* its dependency edges
    entrySeq,   \* MergeTrainCoordinator._entrySeq, in memory only
    clock,      \* wall-clock time, advanced when it is recorded
    todo,       \* writes the running handler has still to make
    crashes     \* crashes so far

lifecycleVars == << features, dependsOn, entrySeq, clock, todo, crashes >>

----------------------------------------------------------------------------
(* Feature rows and writes *)

FeatureRow == [work : WorkControl, status : UnitStatus, collab : CollabControl,
               seq : Nat, enteredAt : Nat, reentry : Nat, manual : Nat]

Triple(row) ==
    [work |-> row.work, status |-> row.status, collab |-> row.collab]

Keep == "keep"         \* an axis a write does not mention

WriteOp == {"start", "done", "fail", "running", "advance", "collab",
            "clear_conflict", "edit", "enqueue", "stamp", "begin",
            "unstamp", "count_reentry", "forget"}

Writes == [feature : Features, op : WriteOp, work : WorkControl \cup {Keep},
           collab : {"branch_open", "conflict", "merged", Keep}]

Write(f, op, work, collab) ==
    [feature |-> f, op |-> op, work |-> work, collab |-> collab]

W(f, op) == Write(f, op, Keep, Keep)
MoveTo(f, collab) == Write(f, "collab", Keep, collab)
Advance(f, work) == << Write(f, "advance", work, Keep) >>
AdvanceWith(f, work, collab) == << Write(f, "advance", work, collab) >>

MarkPhaseDone(f) == << W(f, "start"), W(f, "done") >>
MarkPhaseFailed(f) == << W(f, "start"), W(f, "fail") >>

\* Writes that are made only when they change something.
Skipped(w, row) ==
    \/ w.op = "start" /\ row.status # "pending"
    \/ w.op = "done" /\ row.status = "done"
    \/ w.op = "fail" /\ row.status = "failed"
    \/ w.op = "clear_conflict" /\ row.collab # "conflict"

\* The row transitionFeature would store for a write on the state axes.
Transitioned(w, row) ==
    [row EXCEPT
        !.work = IF w.work = Keep THEN @ ELSE w.work,
        !.status = CASE w.op \in {"start", "running"} -> "in_progress"
                     [] w.op = "done" -> "done"
                     [] w.op = "fail" -> "failed"
                     [] w.op = "advance" ->
                           IF w.work = "work_complete" THEN "done"
                                                       ELSE "pending"
                     [] OTHER -> @,
        !.collab = CASE w.op = "enqueue" -> "merge_queued"
                     [] w.op = "begin" -> "integrating"
                     [] w.op = "clear_conflict" -> "branch_open"
                     [] w.collab # Keep -> w.collab
                     [] OTHER -> @]

\* Writes through editFeature and updateMergeTrainState, which touch no axis.
FieldWrite(w) ==
    w.op \in {"edit", "stamp", "unstamp", "count_reentry", "forget"}

\* Mutant of NewRow: the re-entry counter is counted down.
NewRowCountingDown(w, row) ==
    IF w.op = "count_reentry" THEN [row EXCEPT !.reentry = @ - 1]
    ELSE IF FieldWrite(w) THEN row ELSE Transitioned(w, row)

NewRow(w, row) ==
    CASE w.op \in {"edit", "forget"} -> row
      [] w.op = "stamp" -> [row EXCEPT !.seq = entrySeq, !.enteredAt = clock + 1]
      [] w.op = "unstamp" ->
            [row EXCEPT !.seq = 0, !.enteredAt = 0, !.manual = NoPosition]
      [] w.op = "count_reentry" ->
            [row EXCEPT !.seq = 0, !.enteredAt = 0, !.manual = NoPosition,
                        !.reentry = @ + 1]
      [] OTHER -> Transitioned(w, row)

Editable(row) ==
    /\ row.collab # "cancelled"
    /\ ~ (row.work = "work_complete" /\ row.collab = "merged")

\* Mutant of OthersIntegrating: only features that entered before f count.
OthersIntegratingAhead(f) ==
    {g \in Features \ {f} : /\ features[g].collab = "integrating"
                            /\ features[g].seq < features[f].seq}

\* The features whose integration keeps f out: main is merged into by one
\* feature at a time.
OthersIntegrating(f) ==
    {g \in Features \ {f} : features[g].collab = "integrating"}

\* Mutant of Accepted: the queue does not look at dependencies.
AcceptedWithoutDependencies(w, row) ==
    /\ w.op = "edit" => Editable(row)
    /\ w.op = "enqueue" => row.work = "awaiting_merge"
    /\ w.op = "begin" => OthersIntegrating(w.feature) = {}
    /\ ~ FieldWrite(w) =>
          ValidFeatureTransition(Triple(row), Triple(Transitioned(w, row)))

Accepted(w, row) ==
    /\ w.op = "edit" => Editable(row)
    /\ w.op = "enqueue" =>
          /\ row.work = "awaiting_merge"
          /\ \A d \in dependsOn[w.feature] : features[d].collab = "merged"
    /\ w.op = "begin" => OthersIntegrating(w.feature) = {}
    /\ ~ FieldWrite(w) =>
          ValidFeatureTransition(Triple(row), Triple(Transitioned(w, row)))

----------------------------------------------------------------------------
(* Making the writes of a handler *)

SkipWrite ==
    /\ todo # << >>
    /\ Skipped(Head(todo), features[Head(todo).feature])
    /\ todo' = Tail(todo)
    /\ UNCHANGED << features, dependsOn, entrySeq, clock, crashes >>

CommitWrite ==
    /\ todo # << >>
    /\ LET w == Head(todo)
           row == features[w.feature]
       IN  /\ ~ Skipped(w, row)
           /\ Accepted(w, row)
           /\ features' = [features EXCEPT ![w.feature] = NewRow(w, row)]
           /\ entrySeq' = IF w.op = "enqueue" THEN entrySeq + 1
                          ELSE IF w.op = "forget" THEN 0 ELSE entrySeq
           /\ clock' = IF w.op = "stamp" THEN clock + 1 ELSE clock
    /\ todo' = Tail(todo)
    /\ UNCHANGED << dependsOn, crashes >>

RefuseWrite ==
    /\ todo # << >>
    /\ LET w == Head(todo)
           row == features[w.feature]
       IN  ~ Skipped(w, row) /\ ~ Accepted(w, row)
    /\ todo' = << >>
    /\ UNCHANGED << features, dependsOn, entrySeq, clock, crashes >>

TakeWrite == SkipWrite \/ CommitWrite \/ RefuseWrite

\* A handler starts when the previous one is finished.
Handle(writes) ==
    /\ todo = << >>
    /\ todo' = writes
    /\ UNCHANGED << features, dependsOn, entrySeq, clock, crashes >>

----------------------------------------------------------------------------
(* Phases *)

\* readyFeatures: what the scheduler may dispatch.
ReadyFeature(f) ==
    /\ features[f].work \in {"discussing", "researching", "planning",
                             "ci_check", "verifying", "replanning",
                             "summarizing"}
    /\ features[f].collab \notin {"cancelled", "conflict", "merge_queued",
                                  "integrating"}
    /\ features[f].collab = "merged" => features[f].work = "summarizing"
    /\ \A d \in dependsOn[f] : /\ features[d].work = "work_complete"
                               /\ features[d].collab = "merged"

MarkFeaturePhaseRunning(f) ==
    /\ ReadyFeature(f)
    /\ features[f].status # "in_progress"
    /\ Handle(<< W(f, "running") >>)

\* A phase run reports: one that was marked running or, after a restart, one
\* whose stored report recovery replays, which looks at the phase alone.  The
\* report may be of an earlier pass, its phase not begun again, and the row may
\* have been written already.
Reports(f, work) ==
    /\ features[f].work = work
    /\ features[f].collab # "cancelled"
    /\ features[f].status # "pending" \/ crashes > 0

\* Mutants of RerouteToReplan: the phase fails before the feature leaves the
\* queue; an integrating feature is left integrating, or in conflict.
FailAndReplan(f) ==
    << W(f, "edit") >> \o MarkPhaseFailed(f) \o Advance(f, "replanning")

RerouteBeforeEjecting(f) ==
    FailAndReplan(f) \o << MoveTo(f, "branch_open"), W(f, "count_reentry") >>

RerouteStillIntegrating(f) == FailAndReplan(f)

RerouteLeavingConflict(f) ==
    IF features[f].collab = "integrating"
    THEN << MoveTo(f, "conflict") >> \o FailAndReplan(f)
    ELSE RerouteBeforeEjecting(f)

\* What rerouteToReplan writes, by the collab it finds.
RerouteToReplan(f) ==
    LET failed == << W(f, "edit") >> \o MarkPhaseFailed(f)
                     \o Advance(f, "replanning")
    IN  CASE features[f].collab = "merge_queued" ->
               << MoveTo(f, "branch_open"), W(f, "count_reentry") >> \o failed
          [] features[f].collab = "integrating" ->
               << MoveTo(f, "conflict") >> \o failed
                 \o << MoveTo(f, "branch_open"), W(f, "count_reentry") >>
          [] OTHER -> failed

\* A feature discusses once: whose report is there has begun to.
CompleteDiscuss(f) ==
    /\ Reports(f, "discussing")
    /\ features[f].status # "pending"
    /\ Handle(MarkPhaseDone(f) \o Advance(f, "researching"))

CompleteResearch(f) ==
    /\ Reports(f, "researching")
    /\ Handle(MarkPhaseDone(f) \o Advance(f, "planning"))

\* A plan or replan proposal with work to do is approved.
ApproveProposal(f) ==
    /\ Reports(f, "planning") \/ Reports(f, "replanning")
    /\ Handle(MarkPhaseDone(f) \o AdvanceWith(f, "executing", "branch_open"))

\* The last task of the feature lands on the feature branch.
OnTaskLanded(f) ==
    /\ features[f].work = "executing"
    /\ features[f].collab # "cancelled"
    /\ Handle(MarkPhaseDone(f) \o Advance(f, "ci_check"))

CiCheckPasses(f) ==
    /\ Reports(f, "ci_check")
    /\ Handle(MarkPhaseDone(f) \o Advance(f, "verifying"))

CiCheckFails(f) ==
    /\ Reports(f, "ci_check")
    /\ Handle(RerouteToReplan(f))

\* The writes of a passed verification.
EnterTrain(f) ==
    MarkPhaseDone(f) \o Advance(f, "awaiting_merge")
        \o << W(f, "clear_conflict"), W(f, "enqueue"), W(f, "stamp") >>

VerifyPasses(f) ==
    /\ Reports(f, "verifying")
    /\ features[f].reentry < MaxEntries
    /\ Handle(EnterTrain(f))

\* Recovery replays the report of a run that completed before a crash, with
\* a merge train coordinator of its own that counts from zero and is dropped
\* afterwards; the scheduler has not queued anything yet.
ReplayVerifyPasses(f) ==
    /\ crashes > 0
    /\ entrySeq = 0
    /\ Reports(f, "verifying")
    /\ features[f].reentry < MaxEntries
    /\ Handle(EnterTrain(f) \o << W(f, "forget") >>)

VerifyFails(f) ==
    /\ Reports(f, "verifying")
    /\ Handle(MarkPhaseFailed(f) \o Advance(f, "replanning"))

\* A task's squash merge is exhausted, or the release of an overlap finds
\* the feature's branch in conflict.  Tasks keep running while the feature
\* replans, so a second failure may arrive there.
TaskWorkFails(f) ==
    /\ features[f].work \in {"executing", "replanning"}
    /\ features[f].collab # "cancelled"
    /\ Handle(RerouteToReplan(f))

\* The release of a cross-feature overlap hits a feature that is queued.
EjectFromQueue(f) ==
    /\ features[f].collab = "merge_queued"
    /\ Handle(RerouteToReplan(f))

----------------------------------------------------------------------------
(* The merge train *)

Queued == {f \in Features : features[f].collab = "merge_queued"}

HasPosition(f) == features[f].manual # NoPosition

\* Mutants of SortsBefore: fewest re-entries first, and last in, first out.
SortsBeforeByFewestReentries(f, g) ==
    \/ HasPosition(f) /\ ~ HasPosition(g)
    \/ features[f].reentry < features[g].reentry

SortsBeforeLastIn(f, g) ==
    \/ features[f].reentry > features[g].reentry
    \/ /\ features[f].reentry = features[g].reentry
       /\ features[f].seq > features[g].seq

\* The comparator of nextToIntegrate: f sorts strictly before g.
SortsBefore(f, g) ==
    LET a == features[f]
        b == features[g]
    IN  \/ HasPosition(f) /\ ~ HasPosition(g)
        \/ HasPosition(f) /\ HasPosition(g) /\ a.manual < b.manual
        \/ /\ a.manual = b.manual
           /\ \/ a.reentry > b.reentry
              \/ a.reentry = b.reentry /\ a.seq < b.seq

\* Rows that compare equal are taken in the order of the feature map, which
\* the model leaves open.
NextToIntegrate(f) == f \in Queued /\ \A g \in Queued : ~ SortsBefore(g, f)

BeginNextIntegration(f) ==
    /\ OthersIntegrating(f) = {}
    /\ NextToIntegrate(f)
    /\ Handle(<< W(f, "start"), W(f, "begin") >>)

CompleteIntegration(f) == << MoveTo(f, "merged"), W(f, "unstamp") >>

\* The feature whose integration ends.  It may have been cancelled while the
\* integration ran; recovery may find it merged already.  The writes are
\* refused then.
Integrated(f) ==
    \/ features[f].collab \in {"integrating", "merged"}
    \/ features[f].collab = "cancelled" /\ features[f].work = "awaiting_merge"

IntegrationLands(f) ==
    /\ Integrated(f)
    /\ Handle(CompleteIntegration(f))

IntegrationFails(f) ==
    /\ Integrated(f)
    /\ features[f].collab # "merged"
    /\ Handle(RerouteToReplan(f))

----------------------------------------------------------------------------
(* After the merge *)

ReconcilePostMerge(f) ==
    /\ features[f].collab = "merged"
    /\ features[f].work = "awaiting_merge"
    /\ Handle(MarkPhaseDone(f)
                \o Advance(f, IF SkipSummary THEN "work_complete"
                                             ELSE "summarizing"))

CompleteSummary(f) ==
    /\ Reports(f, "summarizing")
    /\ Handle(MarkPhaseDone(f) \o << W(f, "edit") >>
                \o Advance(f, "work_complete"))

----------------------------------------------------------------------------
(* Dependencies, cancellation and crashes *)

\* No feature depends on itself, through others or directly.
Acyclic(edges) ==
    \A S \in (SUBSET Features) \ {{}} : \E f \in S : edges[f] \cap S = {}

\* A project proposal is applied.  Whether a run of the two features is
\* running, which would refuse it, is left open.
AddDependency(f, d) ==
    /\ todo = << >>
    /\ << f, d >> \in PlannerEdges
    /\ d \notin dependsOn[f]
    /\ Acyclic([dependsOn EXCEPT ![f] = @ \cup {d}])
    /\ dependsOn' = [dependsOn EXCEPT ![f] = @ \cup {d}]
    /\ UNCHANGED << features, entrySeq, clock, todo, crashes >>

RemoveDependency(f, d) ==
    /\ todo = << >>
    /\ << f, d >> \in PlannerEdges
    /\ d \in dependsOn[f]
    /\ dependsOn' = [dependsOn EXCEPT ![f] = @ \ {d}]
    /\ UNCHANGED << features, entrySeq, clock, todo, crashes >>

ApplyProjectProposal(f) ==
    \E d \in Features : AddDependency(f, d) \/ RemoveDependency(f, d)

\* graph.cancelFeature writes the row without consulting the guards.
CancelFeature(f) ==
    /\ todo = << >>
    /\ features[f].collab # "cancelled"
    /\ features' = [features EXCEPT ![f].collab = "cancelled"]
    /\ UNCHANGED << dependsOn, entrySeq, clock, todo, crashes >>

\* The process dies and starts again: memory is lost, the rows are not.
Crash ==
    /\ crashes < MaxCrashes
    /\ crashes' = crashes + 1
    /\ todo' = << >>
    /\ entrySeq' = 0
    /\ UNCHANGED << features, dependsOn, clock >>

----------------------------------------------------------------------------

Init ==
    /\ features = [f \in Features |->
                     [work |-> "discussing", status |-> "pending",
                      collab |-> "none", seq |-> 0, enteredAt |-> 0,
                      reentry |-> 0, manual |-> ManualPosition[f]]]
    /\ dependsOn = DependsOn
    /\ entrySeq = 0
    /\ clock = 0
    /\ todo = << >>
    /\ crashes = 0

PhaseStep(f) ==
    \/ MarkFeaturePhaseRunning(f)
    \/ CompleteDiscuss(f)
    \/ CompleteResearch(f)
    \/ ApproveProposal(f)
    \/ CiCheckPasses(f)
    \/ CiCheckFails(f)
    \/ VerifyPasses(f)
    \/ ReplayVerifyPasses(f)
    \/ VerifyFails(f)
    \/ TaskWorkFails(f)
    \/ EjectFromQueue(f)
    \/ ReconcilePostMerge(f)
    \/ CompleteSummary(f)

IntegrationOutcome(f) == IntegrationLands(f) \/ IntegrationFails(f)

Next ==
    \/ TakeWrite
    \/ Crash
    \/ \E f \in Features : \/ PhaseStep(f)
                           \/ OnTaskLanded(f)
                           \/ BeginNextIntegration(f)
                           \/ IntegrationOutcome(f)
                           \/ ApplyProjectProposal(f)
                           \/ CancelFeature(f)

Spec == Init /\ [][Next]_lifecycleVars

----------------------------------------------------------------------------
(* Properties *)

\* Every variable has its type.
TypeOK ==
    /\ features \in [Features -> FeatureRow]
    /\ dependsOn \in [Features -> SUBSET Features]
    /\ entrySeq \in Nat
    /\ clock \in Nat
    /\ todo \in Seq(Writes)
    /\ crashes \in 0..MaxCrashes

\* The merge train is serialized: at most one feature integrates, whatever
\* handlers were cut short (beginIntegration, beginNextIntegration).
AtMostOneIntegrating ==
    \A f, g \in Features :
        features[f].collab = "integrating" /\ features[g].collab = "integrating"
            => f = g

InTrain(f) == features[f].collab \in {"merge_queued", "integrating"}

\* A feature in the train is waiting for its merge and has not failed:
\* every way out of awaiting_merge leaves the train first, even when the
\* handler that does so is cut short (rerouteToReplan).
TrainAwaitsMerge ==
    \A f \in Features : InTrain(f) =>
        /\ features[f].work = "awaiting_merge"
        /\ features[f].status \in {"pending", "in_progress"}

\* A feature enters the queue only when all it depends on at that time is
\* merged, though the dependencies may change while it is verified
\* (enqueueFeatureMerge, addFeatureDependency).
QueuedAfterDependencies ==
    [][\A f \in Features :
          /\ features[f].collab # "merge_queued"
          /\ features'[f].collab = "merge_queued"
          => \A d \in dependsOn[f] : features[d].collab = "merged"]_lifecycleVars

\* Between handlers a feature that awaits its merge is in the train, past
\* it, or cancelled, unless a cancelled dependency kept it out; and none is
\* left in the transient conflict state (completePhase, rerouteToReplan).
NoneStranded ==
    todo = << >> => \A f \in Features :
        /\ features[f].collab # "conflict"
        /\ features[f].work = "awaiting_merge" /\ ~ InTrain(f) =>
              \/ features[f].collab \in {"merged", "cancelled"}
              \/ \E d \in dependsOn[f] : features[d].collab = "cancelled"

Selected(f) ==
    features[f].collab = "merge_queued" /\ features'[f].collab = "integrating"

\* First in, first out among features of equal manual position and re-entry
\* count: none is selected ahead of one that entered earlier.
FifoStep ==
    \A f, g \in Features :
        /\ Selected(f)
        /\ features[g].collab = "merge_queued"
        /\ features[f].manual = features[g].manual
        /\ features[f].reentry = features[g].reentry
        => features[f].enteredAt <= features[g].enteredAt

FifoAmongEquals == [][FifoStep]_lifecycleVars

\* A feature selected for integration is never overtaken by one that was
\* ejected less often, unless that one holds a manual position.
ReentryGoesFirst ==
    [][\A f, g \in Features :
          /\ Selected(f)
          /\ features[g].collab = "merge_queued"
          /\ ~ HasPosition(f)
          => /\ ~ HasPosition(g)
             /\ features[f].reentry >= features[g].reentry]_lifecycleVars

\* Every queued feature leaves the queue again: it integrates, is ejected or
\* is cancelled.  MaxEntries bounds how often others may overtake it.
QueueDrains ==
    \A f \in Features : features[f].collab = "merge_queued"
                            ~> features[f].collab # "merge_queued"
=============================================================================
