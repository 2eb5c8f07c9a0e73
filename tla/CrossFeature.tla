---------------------------- MODULE CrossFeature ----------------------------
(***************************************************************************)
(* Features that write to the same paths: the scheduler blocks one of the  *)
(* two (the secondary) behind the other (the primary), suspends its tasks, *)
(* and releases it when the primary has merged.                            *)
(*                                                                         *)
(* The loop handles worker messages and landings at "idle", then goes on   *)
(* to an integration, the overlaps of reserved paths and the dispatch.     *)
(* Each graph write is a transaction of its own, each git command an       *)
(* await: the worker pool, the user and a crash come in between.  A write  *)
(* the graph refuses throws and drops what is left of the handler.         *)
(*                                                                         *)
(* Abstracted: the phases between executing and the merge train (module    *)
(* FeatureLifecycle), the end of a worker process and its retry (module    *)
(* TaskRuns), overlaps inside a feature (there are none here).             *)
(***************************************************************************)
EXTENDS FeatureFsm, FiniteSets

CONSTANTS
    Features, Tasks, Paths,
    None,              \* no feature, no task, no path
    FeatureOf,         \* the feature of a task
    Wants,             \* the paths a task may write to
    Reserved,          \* its reserved write paths
    DependsOn,         \* the features a feature depends on
    Age,               \* milestone order, orderInMilestone, dependents, id
    MaxClaims,         \* bound on path claims
    MaxReplans,        \* bound on approved replans
    MaxFaults,         \* bound on cancellations and crashes
    MaxTurns           \* bound on all of these together

ASSUME TaskConstants ==
    /\ FeatureOf \in [Tasks -> Features]
    /\ Wants \in [Tasks -> SUBSET Paths]
    /\ Reserved \in [Tasks -> SUBSET Paths]
ASSUME NoOverlapInside ==
    \A t, u \in Tasks : t # u /\ FeatureOf[t] = FeatureOf[u]
        => /\ Wants[t] \cap Wants[u] = {}
           /\ Reserved[t] \cap Reserved[u] = {}
ASSUME FeatureConstants ==
    /\ DependsOn \in [Features -> SUBSET Features]
    /\ Age \in [Features -> Nat]
    /\ \A f, g \in Features : f # g => Age[f] # Age[g]
    /\ None \notin Features \cup Tasks \cup Paths
    /\ {MaxClaims, MaxReplans, MaxFaults, MaxTurns} \subseteq Nat

VARIABLES
    feature,   \* the feature rows; block is runtimeBlockedByFeatureId
    task,      \* the task rows; by is blockedByFeatureId
    worker,    \* what the worker of a task does, or ended with
    claim,     \* the path it waits for
    holder,    \* the task an active path lock belongs to
    landed,    \* feature_integration_complete events in the queue
    sched,     \* where the loop is, and its locals
    dropped,   \* a handler was cut short by a throw or a crash
    spent      \* what is used up of each bound

crossVars == << feature, task, worker, claim, holder, landed, sched, dropped,
                spent >>

----------------------------------------------------------------------------
(* State *)

Phases == {"executing", "replanning", "awaiting_merge", "work_complete"}
Ends == {"submitted", "implicit", "error"}

Idle == [at |-> "idle", primary |-> None, other |-> None, todo |-> {},
         back |-> "idle", replan |-> {}, pairs |-> {}]
At(place) == sched.at = place
EndTick == sched' = Idle
Goto(place) == sched' = [sched EXCEPT !.at = place]

CrossTypeOK ==
    /\ feature \in [Features -> [work : Phases,
                                 status : {"in_progress", "failed"},
                                 collab : CollabControl,
                                 block : Features \cup {None},
                                 planner : BOOLEAN]]
    /\ task \in [Tasks -> [status : TaskStatus, collab : TaskCollab,
                           by : Features \cup {None}]]
    /\ worker \in [Tasks -> Ends \cup {"none", "working"}]
    /\ claim \in [Tasks -> Paths \cup {None}]
    /\ holder \in [Paths -> Tasks \cup {None}]
    /\ landed \subseteq Features
    /\ \A t \in Tasks : claim[t] # None => worker[t] = "working"
    /\ \A t \in Tasks : task[t].by # None => task[t].collab = "suspended"
    /\ sched.at = "resuming" => sched.other \in Features

InitCross ==
    /\ feature = [f \in Features |->
                    [work |-> "executing", status |-> "in_progress",
                     collab |-> "branch_open", block |-> None,
                     planner |-> FALSE]]
    /\ task = [t \in Tasks |-> [status |-> "ready", collab |-> "none",
                                by |-> None]]
    /\ worker = [t \in Tasks |-> "none"]
    /\ claim = [t \in Tasks |-> None]
    /\ holder = [p \in Paths |-> None]
    /\ landed = {}
    /\ sched = Idle
    /\ dropped = FALSE
    /\ spent = [claims |-> 0, replans |-> 0, faults |-> 0]

Spend(bound, max) == /\ spent[bound] < max
                     /\ spent.claims + spent.replans + spent.faults < MaxTurns
                     /\ spent' = [spent EXCEPT ![bound] = @ + 1]

TasksOf(f) == {t \in Tasks : FeatureOf[t] = f}
Running(t) == task[t].status = "running" /\ task[t].collab = "branch_open"
Live(t) == worker[t] = "working"

Done(f) == feature[f].work = "work_complete" /\ feature[f].collab = "merged"
\* It has landed on main; to be cancelled afterwards does not undo that.
OnMain(f) == /\ feature[f].work = "work_complete"
             /\ feature[f].collab \in {"merged", "cancelled"}
Editable(f) == feature[f].collab # "cancelled" /\ ~ Done(f)
Block(f, p) == feature' = [feature EXCEPT ![f].block = p]

Axes(row) == [status |-> row.status, collab |-> row.collab]
Allowed(t, new) == ValidTaskTransition(Axes(task[t]), new)

\* Moved, were a task to remember for whom it was suspended.
MovedRemembering(t, new) ==
    [task[t] EXCEPT !.status = new.status, !.collab = new.collab]

\* transitionTask: leaving suspension forgets who it was for.
Moved(t, new) ==
    [task[t] EXCEPT !.status = new.status, !.collab = new.collab,
                    !.by = IF new.collab = "suspended" THEN @ ELSE None]
Transition(t, new) == task' = [task EXCEPT ![t] = Moved(t, new)]
WithStatus(t, status) == [status |-> status, collab |-> task[t].collab]

Throw == /\ EndTick
         /\ dropped' = TRUE

----------------------------------------------------------------------------
(* Priority between two features *)

CollabRank(collab) ==
    CASE collab = "integrating" -> 5  [] collab = "merge_queued" -> 4
      [] collab = "branch_open" -> 3  [] collab = "none" -> 2
      [] collab = "conflict" -> 1     [] OTHER -> 0

WorkRank(work) ==
    CASE work = "awaiting_merge" -> 6 [] work = "verifying" -> 5
      [] work = "ci_check" -> 4       [] work = "executing" -> 2
      [] work \in {"discussing", "researching", "planning"} -> 1
      [] OTHER -> 0

Above(f, g) ==
    LET a == feature[f]
        b == feature[g]
    IN  \/ f \in DependsOn[g]
        \/ /\ g \notin DependsOn[f]
           /\ \/ CollabRank(a.collab) > CollabRank(b.collab)
              \/ /\ CollabRank(a.collab) = CollabRank(b.collab)
                 /\ \/ WorkRank(a.work) > WorkRank(b.work)
                    \/ /\ WorkRank(a.work) = WorkRank(b.work)
                       /\ Age[f] < Age[g]

\* rankCrossFeaturePair: << primary, secondary >>
Ranked(f, g) == IF Above(f, g) THEN << f, g >> ELSE << g, f >>

----------------------------------------------------------------------------
(* Workers and the user *)

\* Between two suspensions of one overlap nothing is read but a crash.
AtAwait == ~ At("suspending")
Outside == UNCHANGED << landed, sched, dropped >>

\* A suspended worker is only told so: it goes on until it ends.
Claim(t, p) ==
    /\ Live(t) /\ claim[t] = None
    /\ p \in Wants[t] /\ holder[p] # t
    /\ Spend("claims", MaxClaims)
    /\ claim' = [claim EXCEPT ![t] = p]
    /\ UNCHANGED << feature, task, worker, holder >>
    /\ Outside

EndWorker(t, how) ==
    /\ AtAwait
    /\ Live(t) /\ claim[t] = None
    /\ worker' = [worker EXCEPT ![t] = how]
    /\ UNCHANGED << feature, task, claim, holder, spent >>
    /\ Outside

\* cancelFeature and the abort of its runs, of a merged feature too.
Cancel(f) ==
    /\ AtAwait
    /\ Spend("faults", MaxFaults)
    /\ feature' = [feature EXCEPT ![f].collab = "cancelled", ![f].block = None]
    /\ task' = [t \in Tasks |->
                  IF FeatureOf[t] = f /\ task[t].status # "done"
                     THEN [task[t] EXCEPT !.status = "cancelled"] ELSE task[t]]
    /\ worker' = [t \in Tasks |-> IF FeatureOf[t] = f THEN "none"
                                                     ELSE worker[t]]
    /\ claim' = [t \in Tasks |-> IF FeatureOf[t] = f THEN None ELSE claim[t]]
    /\ UNCHANGED holder
    /\ Outside

\* The proposal of a replan is approved: failed tasks, and whichever landed
\* ones it likes, give way to new ones.  The block is not looked at.
ApproveReplan(f, new) ==
    /\ At("idle")
    /\ feature[f].work = "replanning" /\ feature[f].planner
    /\ feature[f].status = "in_progress" /\ feature[f].collab # "cancelled"
    /\ new # {} /\ new \subseteq TasksOf(f)
    /\ {t \in TasksOf(f) : task[t].status = "failed"} \subseteq new
    /\ \A t \in new : task[t].status \in {"failed", "done"}
    /\ Spend("replans", MaxReplans)
    /\ feature' = [feature EXCEPT ![f].work = "executing", ![f].planner = FALSE]
    /\ task' = [t \in Tasks |->
                  IF t \in new THEN [status |-> "ready", collab |-> "none",
                                     by |-> None] ELSE task[t]]
    /\ UNCHANGED << worker, claim, holder >>
    /\ Outside

----------------------------------------------------------------------------
(* Blocking the secondary *)

\* BlockSecondary, were only the tasks that wanted a path paused.
BlockOverlapping(pair, back) ==
    IF Editable(pair[2])
       THEN /\ Block(pair[2], pair[1])
            /\ sched' = [sched EXCEPT !.at = "suspending", !.back = back,
                           !.primary = pair[1], !.other = pair[2],
                           !.todo = {t \in TasksOf(pair[2]) : Running(t) /\
                                        \E u \in TasksOf(pair[1]) :
                                           Reserved[t] \cap Reserved[u] # {}},
                           !.pairs = @ \ {pair}]
       ELSE EndTick /\ UNCHANGED feature

\* handleCrossFeatureOverlap: the block first, then one transaction a task.
BlockSecondary(pair, back) ==
    IF Editable(pair[2])
       THEN /\ Block(pair[2], pair[1])
            /\ sched' = [sched EXCEPT !.at = "suspending", !.back = back,
                           !.primary = pair[1], !.other = pair[2],
                           !.todo = {t \in TasksOf(pair[2]) : Running(t)},
                           !.pairs = @ \ {pair}]
       ELSE EndTick /\ UNCHANGED feature

SuspendNext(t) ==
    /\ At("suspending")
    /\ t \in sched.todo
    /\ sched' = [sched EXCEPT !.todo = @ \ {t}]
    /\ task' = [task EXCEPT ![t].collab = "suspended", ![t].by = sched.primary]
    /\ UNCHANGED << feature, worker, claim, holder, landed, dropped, spent >>

SuspendedAll ==
    /\ At("suspending")
    /\ sched.todo = {}
    /\ sched' = [sched EXCEPT !.at = sched.back, !.primary = None,
                              !.other = None]
    /\ UNCHANGED << feature, task, worker, claim, holder, landed, dropped,
                    spent >>

\* handleClaimLock
GrantClaim(t) ==
    /\ At("idle")
    /\ claim[t] # None
    /\ holder[claim[t]] \in {None, t}
    /\ holder' = [holder EXCEPT ![claim[t]] = t]
    /\ claim' = [claim EXCEPT ![t] = None]
    /\ UNCHANGED << feature, task, worker, landed, sched, dropped, spent >>

\* routeCrossFeatureDenial does not ask whether either is blocked already.
DenyClaim(t) ==
    LET other == holder[claim[t]] IN
    /\ At("idle")
    /\ claim[t] # None
    /\ other \notin {None, t}
    /\ claim' = [claim EXCEPT ![t] = None]
    /\ BlockSecondary(Ranked(FeatureOf[t], FeatureOf[other]), "idle")
    /\ UNCHANGED << task, worker, holder, landed, dropped, spent >>

Overlap(t, u) == /\ FeatureOf[t] # FeatureOf[u]
                 /\ Reserved[t] \cap Reserved[u] # {}

\* OverlapPairs, were the paths that are locked the only ones looked at.
OverlapPairsLocked ==
    {Ranked(FeatureOf[tu[1]], FeatureOf[tu[2]]) :
        tu \in {tu \in Tasks \X Tasks :
                  /\ Running(tu[1]) /\ Running(tu[2])
                  /\ Overlap(tu[1], tu[2])
                  /\ \E p \in Reserved[tu[1]] : holder[p] # None}}

\* coordinateCrossFeatureRuntimeOverlaps chooses the pairs once; one with a
\* blocked feature is passed over when its turn comes.
OverlapPairs ==
    {Ranked(FeatureOf[tu[1]], FeatureOf[tu[2]]) :
        tu \in {tu \in Tasks \X Tasks : /\ Running(tu[1]) /\ Running(tu[2])
                                       /\ Overlap(tu[1], tu[2])}}

CoordinatePair(pair) ==
    /\ At("overlaps")
    /\ pair \in sched.pairs
    /\ IF \E f \in {pair[1], pair[2]} : feature[f].block # None
          THEN /\ sched' = [sched EXCEPT !.pairs = @ \ {pair}]
               /\ UNCHANGED feature
          ELSE BlockSecondary(pair, "overlaps")
    /\ UNCHANGED << task, worker, claim, holder, landed, dropped, spent >>

----------------------------------------------------------------------------
(* The end of a worker *)

ReleaseLocks(t) == holder' = [p \in Paths |-> IF holder[p] = t THEN None
                                                             ELSE holder[p]]

\* rerouteToReplan takes a feature out of the train; while it is replanning
\* already its phase is marked failed, and the advance is refused.
Reroutable(f) == /\ feature[f].collab # "cancelled"
                 /\ feature[f].work \in {"executing", "awaiting_merge"}
\* Rerouted, were the block forgotten with the plan.
RerouteUnblocking(f) ==
    [feature[f] EXCEPT !.work = "replanning", !.planner = FALSE,
                       !.collab = "branch_open", !.block = None]
Rerouted(f) ==
    IF Reroutable(f)
       THEN [feature[f] EXCEPT !.work = "replanning", !.planner = FALSE,
                               !.collab = "branch_open"]
       ELSE IF Editable(f) THEN [feature[f] EXCEPT !.status = "failed"]
                           ELSE feature[f]
RerouteToReplan(f) == feature' = [feature EXCEPT ![f] = Rerouted(f)]

\* A message of a cancelled task is dropped, and so is the release.
HandleEnd(t, squashed) ==
    LET new == CASE worker[t] = "implicit" -> WithStatus(t, "done")
                 [] worker[t] = "error" -> WithStatus(t, "ready")
                 [] worker[t] = "submitted" /\ squashed ->
                       [status |-> "done", collab |-> "merged"]
                 [] OTHER -> WithStatus(t, "failed")
    IN
    /\ At("idle")
    /\ worker[t] \in Ends
    /\ squashed => worker[t] = "submitted"
    /\ worker' = [worker EXCEPT ![t] = "none"]
    /\ IF task[t].status = "cancelled"
          THEN UNCHANGED << holder, task, feature >>
          ELSE /\ ReleaseLocks(t)
               /\ IF Allowed(t, new) THEN Transition(t, new) ELSE UNCHANGED task
               /\ IF new.status = "failed" /\ Allowed(t, new)
                     THEN RerouteToReplan(FeatureOf[t]) ELSE UNCHANGED feature
    /\ UNCHANGED << claim, landed, sched, dropped, spent >>

----------------------------------------------------------------------------
(* Releasing the features behind one that merged *)

BlockedBehind(p) ==
    {f \in Features :
        \/ feature[f].collab # "cancelled" /\ feature[f].block = p
        \/ \E t \in TasksOf(f) : /\ task[t].status # "cancelled"
                                 /\ task[t].collab = "suspended"
                                 /\ task[t].by = p}

ReleaseOnly == UNCHANGED << worker, claim, holder, spent >>

\* feature_integration_complete.  A feature that is cancelled by now is merged
\* once more, which the graph refuses, and nothing is released.
HandleLanded(p) ==
    /\ At("idle")
    /\ p \in landed
    /\ landed' = landed \ {p}
    /\ IF feature[p].collab = "merged"
          THEN /\ sched' = [sched EXCEPT !.at = "releasing", !.primary = p,
                                         !.todo = BlockedBehind(p)]
               /\ UNCHANGED dropped
          ELSE Throw
    /\ UNCHANGED << feature, task >>
    /\ ReleaseOnly

\* The feature branch is rebased onto main; a dirty or missing worktree or a
\* conflict leaves the block in place and asks for a replan.
ReleaseOne(f, clean) ==
    /\ At("releasing")
    /\ f \in sched.todo
    /\ IF ~ clean
          THEN /\ sched' = [sched EXCEPT !.todo = @ \ {f}, !.replan = @ \cup {f}]
               /\ UNCHANGED << feature, dropped >>
          ELSE IF Editable(f)
                  THEN /\ Block(f, None)
                       /\ sched' = [sched EXCEPT !.at = "resuming", !.other = f]
                       /\ UNCHANGED dropped
                  ELSE Throw /\ UNCHANGED feature
    /\ UNCHANGED << task, landed >>
    /\ ReleaseOnly

Suspended(t) == task[t].status # "cancelled" /\ task[t].collab = "suspended"

\* resumeCrossFeatureTasks: a worker that is still there goes on, otherwise
\* the task is made ready, which the graph refuses of one that is done.
ResumeTask(t) ==
    LET new == [status |-> IF Live(t) THEN task[t].status ELSE "ready",
                collab |-> "branch_open"]
    IN
    /\ At("resuming")
    /\ FeatureOf[t] = sched.other /\ Suspended(t)
    /\ IF Allowed(t, new) THEN Transition(t, new) /\ UNCHANGED << sched, dropped >>
                          ELSE Throw /\ UNCHANGED task
    /\ UNCHANGED << feature, landed >>
    /\ ReleaseOnly

BackToReleasing(replan) ==
    sched' = [sched EXCEPT !.at = "releasing", !.todo = @ \ {sched.other},
                           !.other = None, !.replan = @ \cup replan]

\* ResumeFails, were the feature not blocked again.
ResumeFailsUnblocked(t) ==
    /\ At("resuming")
    /\ FeatureOf[t] = sched.other /\ Suspended(t)
    /\ BackToReleasing({sched.other})
    /\ UNCHANGED << feature, task, landed, dropped >>
    /\ ReleaseOnly

\* A task that cannot be rebased: the feature is blocked again, though some
\* of its tasks run already.
ResumeFails(t) ==
    /\ At("resuming")
    /\ FeatureOf[t] = sched.other /\ Suspended(t)
    /\ IF Editable(sched.other)
          THEN /\ Block(sched.other, sched.primary)
               /\ BackToReleasing({sched.other})
               /\ UNCHANGED dropped
          ELSE Throw /\ UNCHANGED feature
    /\ UNCHANGED << task, landed >>
    /\ ReleaseOnly

\* The user cancels while a task is rebased.
ResumeCancelled ==
    /\ At("resuming")
    /\ feature[sched.other].collab = "cancelled"
    /\ Throw
    /\ UNCHANGED << feature, task, landed >>
    /\ ReleaseOnly

ResumedAll ==
    /\ At("resuming")
    /\ \A t \in TasksOf(sched.other) : ~ Suspended(t)
    /\ BackToReleasing({})
    /\ UNCHANGED << feature, task, landed, dropped >>
    /\ ReleaseOnly

ReleasedAll ==
    /\ At("releasing")
    /\ sched.todo = {}
    /\ sched' = [sched EXCEPT !.at = "rerouting"]
    /\ UNCHANGED << feature, task, landed, dropped >>
    /\ ReleaseOnly

\* The features to replan come last; one that is refused drops the others.
RerouteNext(f) ==
    /\ At("rerouting")
    /\ f \in sched.replan
    /\ RerouteToReplan(f)
    /\ IF Reroutable(f)
          THEN sched' = [sched EXCEPT !.replan = @ \ {f}] /\ UNCHANGED dropped
          ELSE Throw
    /\ UNCHANGED << task, landed >>
    /\ ReleaseOnly

ReroutedAll ==
    /\ At("rerouting")
    /\ sched.replan = {}
    /\ EndTick
    /\ UNCHANGED << feature, task, landed, dropped >>
    /\ ReleaseOnly

----------------------------------------------------------------------------
(* The rest of a tick *)

\* Phases after execution, of a feature that readyFeatures would offer.
EnterTrain(f) ==
    /\ At("idle")
    /\ feature[f].work = "executing" /\ feature[f].collab = "branch_open"
    /\ feature[f].block = None
    /\ \A t \in TasksOf(f) : Axes(task[t]) = [status |-> "done",
                                               collab |-> "merged"]
    /\ \A g \in DependsOn[f] : Done(g)
    /\ feature' = [feature EXCEPT ![f].work = "awaiting_merge",
                                  ![f].collab = "merge_queued"]
    /\ UNCHANGED << task, landed, sched, dropped >>
    /\ ReleaseOnly

Integrated == /\ sched' = [sched EXCEPT !.at = "overlaps", !.pairs = OverlapPairs]
              /\ UNCHANGED << task, dropped >>
              /\ ReleaseOnly

Messages == landed # {} \/ \E t \in Tasks : worker[t] \in Ends \/ claim[t] # None

\* Integrate, were the landing not reported.
IntegrateSilently(f, merges) ==
    /\ At("idle")
    /\ ~ Messages
    /\ feature[f].collab = "merge_queued"
    /\ feature' = IF merges
                     THEN [feature EXCEPT ![f].work = "work_complete",
                                          ![f].collab = "merged"]
                     ELSE [feature EXCEPT ![f] = Rerouted(f)]
    /\ UNCHANGED landed
    /\ Integrated

\* runIntegration of the next in the train, with its two outcomes.
Integrate(f, merges) ==
    /\ At("idle")
    /\ ~ Messages
    /\ feature[f].collab = "merge_queued"
    /\ feature' = IF merges
                     THEN [feature EXCEPT ![f].work = "work_complete",
                                          ![f].collab = "merged"]
                     ELSE [feature EXCEPT ![f] = Rerouted(f)]
    /\ landed' = IF merges THEN landed \cup {f} ELSE landed
    /\ Integrated

NothingToIntegrate ==
    /\ At("idle")
    /\ ~ Messages
    /\ \A f \in Features : feature[f].collab # "merge_queued"
    /\ Integrated
    /\ UNCHANGED << feature, landed >>

ReadyTasks ==
    {t \in Tasks :
        /\ task[t].status = "ready" /\ task[t].collab # "suspended"
        /\ worker[t] = "none"
        /\ feature[FeatureOf[t]].collab # "cancelled"
        /\ feature[FeatureOf[t]].block = None
        /\ \A g \in DependsOn[FeatureOf[t]] : Done(g)}

BeginDispatch ==
    /\ At("overlaps")
    /\ sched.pairs = {}
    /\ sched' = [sched EXCEPT !.at = "dispatching", !.todo = ReadyTasks]
    /\ UNCHANGED << feature, task, landed, dropped >>
    /\ ReleaseOnly

\* The worker is launched before the task is marked running.
DispatchTask(t) ==
    LET opened == [status |-> "running", collab |-> "branch_open"] IN
    /\ At("dispatching")
    /\ t \in sched.todo
    /\ worker' = [worker EXCEPT ![t] = "working"]
    /\ IF Allowed(t, opened)
          THEN /\ Transition(t, opened)
               /\ sched' = [sched EXCEPT !.todo = @ \ {t}]
          ELSE EndTick /\ UNCHANGED task
    /\ UNCHANGED << feature, claim, holder, landed, dropped, spent >>

\* readyFeatures passes over a blocked feature.
ReplanReady(f) == /\ feature[f].work = "replanning"
                  /\ feature[f].collab # "cancelled"
                  /\ feature[f].block = None
                  /\ \A g \in DependsOn[f] : Done(g)

DispatchReplan(f) ==
    /\ At("dispatching")
    /\ ReplanReady(f) /\ ~ feature[f].planner
    /\ feature' = [feature EXCEPT ![f].planner = TRUE]
    /\ UNCHANGED << task, landed, sched, dropped >>
    /\ ReleaseOnly

EndDispatch ==
    /\ At("dispatching")
    /\ EndTick
    /\ UNCHANGED << feature, task, landed, dropped >>
    /\ ReleaseOnly

----------------------------------------------------------------------------
(* Crash and restart *)

\* The rows stay.  Recovery resumes the running tasks that are not suspended;
\* locks and queued events are gone.
CrossCrash ==
    /\ Spend("faults", MaxFaults)
    /\ dropped' = (\/ dropped \/ landed # {}
                   \/ sched.at \in {"suspending", "releasing", "resuming",
                                   "rerouting"})
    /\ landed' = {}
    /\ sched' = Idle
    /\ worker' = [t \in Tasks |-> IF Running(t) THEN "working" ELSE "none"]
    /\ claim' = [t \in Tasks |-> None]
    /\ holder' = [p \in Paths |-> None]
    /\ UNCHANGED << feature, task >>

----------------------------------------------------------------------------
(* Specification *)

HandleWork ==
    \/ \E t \in Tasks : GrantClaim(t) \/ DenyClaim(t)
    \/ \E t \in Tasks, squashed \in BOOLEAN : HandleEnd(t, squashed)
    \/ \E p \in Features : HandleLanded(p)

Suspending == SuspendedAll \/ \E t \in Tasks : SuspendNext(t)

Releasing ==
    \/ \E f \in Features, clean \in BOOLEAN : ReleaseOne(f, clean)
    \/ \E t \in Tasks : ResumeTask(t) \/ ResumeFails(t)
    \/ ResumeCancelled \/ ResumedAll \/ ReleasedAll
    \/ \E f \in Features : RerouteNext(f)
    \/ ReroutedAll

RestOfTick ==
    \/ \E f \in Features, merges \in BOOLEAN : Integrate(f, merges)
    \/ NothingToIntegrate
    \/ \E pair \in Features \X Features : CoordinatePair(pair)
    \/ BeginDispatch
    \/ \E t \in Tasks : DispatchTask(t)
    \/ \E f \in Features : DispatchReplan(f)
    \/ EndDispatch

CrossLoop == HandleWork \/ Suspending \/ Releasing \/ RestOfTick

CrossNext ==
    \/ CrossLoop
    \/ \E t \in Tasks, p \in Paths : Claim(t, p)
    \/ \E t \in Tasks, how \in Ends : EndWorker(t, how)
    \/ \E f \in Features : EnterTrain(f) \/ Cancel(f)
    \/ \E f \in Features, new \in SUBSET Tasks : ApproveReplan(f, new)
    \/ CrossCrash

CrossSpec == InitCross /\ [][CrossNext]_crossVars

\* The loop runs on: handlers first, and a tick to its end.
FairCrossSpec == /\ CrossSpec
                 /\ WF_crossVars(HandleWork)
                 /\ WF_crossVars(Suspending \/ Releasing)
                 /\ WF_crossVars(RestOfTick)

----------------------------------------------------------------------------
(* Safety *)

Standing(f) == feature[f].collab # "cancelled"

\* "All running tasks in the secondary feature are paused": when no handler
\* was cut short, a blocked feature that executes has no running task.
SecondaryPaused ==
    At("idle") /\ ~ dropped =>
        \A t \in Tasks : LET f == FeatureOf[t] IN
            feature[f].work = "executing" /\ feature[f].block # None
                => ~ Running(t)

\* A task suspended for another feature waits behind a block that a later
\* landing releases: resuming leaves none of them behind.
SuspendedAreBlocked ==
    At("idle") /\ ~ dropped =>
        \A t \in Tasks : Suspended(t) /\ Standing(FeatureOf[t])
                            => feature[FeatureOf[t]].block # None

\* When the overlaps of a tick have been coordinated, no two features that
\* execute run tasks that reserve the same path.
OverlapsCoordinated ==
    [][BeginDispatch /\ ~ dropped =>
          \A t, u \in Tasks :
              /\ Running(t) /\ Running(u)
              /\ feature[FeatureOf[t]].work = "executing"
              /\ feature[FeatureOf[u]].work = "executing"
              => ~ Overlap(t, u)]_crossVars

\* "the secondary feature remains blocked behind the primary until rebase or
\* replanning outcome resolves the overlap": a block goes when what the primary
\* wrote is on main, even if the primary is cancelled while it is released, or
\* with the secondary itself.
BlockedUntilLanded ==
    [][\A f \in Features :
          LET p == feature[f].block IN
          /\ p # None
          /\ feature'[f].block # p
          => OnMain(p) \/ feature'[f].collab = "cancelled"]_crossVars

----------------------------------------------------------------------------
(* Liveness *)

\* The landing of the primary reaches every feature behind it, unless a handler
\* was cut short, that of a landing whose feature was cancelled among them.
LandingReleases ==
    \A f, p \in Features :
        (feature[f].block = p /\ OnMain(p))
            ~> (\/ feature[f].block # p \/ feature[f].work = "replanning"
                \/ dropped)
=============================================================================
