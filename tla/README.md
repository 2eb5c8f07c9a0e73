# A verification project for vcode0

vcode0 (package gvc0) orchestrates coding agents: a planner splits a project into
*features*, features into *tasks*; workers execute tasks in git worktrees, a
feature's tasks are squashed onto its branch, and a *merge train* lands one
feature at a time on `main`.  This directory models the orchestrator's protocols
in TLA+, checks them with TLC on small instances and proves what matters most
with TLAPS.

## The system

The orchestrator is one Node process around a SQLite database.  A scheduler loop
ticks every second: it drains a queue of events, advances merged features, starts
or continues one integration, coordinates overlaps and dispatches work.  Workers
and the terminal interface call back into the process between its awaits.

| Component | State | Operations | Talks to |
|---|---|---|---|
| State machines (`core/fsm`) | none | guards of three feature axes and two task axes | called on every `transitionFeature` / `transitionTask` |
| Feature graph (`core/graph`, `persistence/feature-graph`) | features, tasks, dependency edges, each change a database transaction | transition, edit, cancel, dependencies, ready queries | every component |
| Feature lifecycle (`orchestrator/features`) | none of its own | phase completion, reroute to replanning, begin and complete integration | graph, merge train |
| Merge train (`core/merge-train`) | `_entrySeq` in memory; queue fields in the rows | enqueue, select, begin, complete, eject | graph |
| Summaries (`orchestrator/summaries`) | none | after the merge: summarize or complete | graph |
| Integration (`orchestrator/integration`) | the `integration_state` marker, branches, `main` | rebase, verify, merge with a lease on `main` | git, graph, lifecycle |
| Reconciler (`integration/reconciler`) | reads the marker at start-up | retry, complete, halt | git, graph, lifecycle |
| Proposals (`core/proposals`, `agents/tools/proposal-host`, `orchestrator/proposals`) | drafts with their aliases, graph version | record on a draft, apply feature and project proposals | graph |
| Recovery (`services/recovery-service`) | reads runs and events at start-up | replay phase reports, resume or requeue tasks | graph, runs |
| Scheduler (`orchestrator/scheduler`) | event queue, locks | events, dispatch, overlaps | all of the above |
| Path locks (`scheduler/active-locks`, `claim-lock-handler`) | lock table in memory | claim, release, route overlaps | conflicts |
| Conflicts (`orchestrator/conflicts`) | suspended tasks, blocked features | suspend, resume, block, release | graph, worktrees |
| Runs, retry (`dispatch`, `retry-policy`) | `agent_runs` rows | dispatch, retry, wait for help or approval | worker pool |
| Worker pool, IPC (`runtime`) | child processes, sessions | start, steer, abort, frames | scheduler events |
| Scheduling order (`core/scheduling`) | none | critical path, priorities | dispatch |
| Project planner (`project-planner-coordinator`) | sessions | start, resume, cancel | proposals |
| Worker (`runtime/worker`) | a conversation, a call that waits, its session file | ask the operator, checkpoint, resume | pool |
| Phase agents (`agents/runtime`) | sessions of feature phases | discuss, research, plan, check, verify, replan, summarize | pool, proposals |
| User's draft (`tui/proposal-controller`) | a draft, auto execution | open, submit, discard | graph, runs |

Not candidates for a model: prompts and model calls, shell verification,
configuration, usage roll-ups, warnings, the terminal interface's presentation,
codecs and migrations.

What is hard here:

* **Partial handlers.**  Within a handler nothing else runs, but each graph write
  is its own transaction, so a crash, or a write the guards refuse, leaves what was
  written before.
* **Awaits.**  `runIntegration` awaits git between reading `main` and moving it;
  others push, users cancel, the process dies.
* **Restarts.**  Rows survive; `_entrySeq`, locks and queued events do not.
* **Order.**  Re-entries overtake, dependencies change late, reports are replayed,
  an exit is heard before the last message.
* **Things held twice.**  A graph and the index of its edges, a draft and the graph it
  becomes, two maps of locks, a conversation and its checkpoint.
* **Waits.**  A tick is parked while a phase agent works; a worker waits for the
  operator, a secondary feature for its primary, a dependent task for another.

The properties that make each component correct: the train is serialized and
fair; what enters it is ready and waits for its merge; what lands is what was
verified and what counts as merged is on `main`; the reconciler leaves the
state a finished or never started integration would; locks exclude; a task's and
a feature's status agree with their runs; a graph stays acyclic whatever is applied
to it, and what is applied is what was shown; an answer is kept across deaths;
nothing waits for ever.

## Modules

| Module | Models |
|---|---|
| `FeatureFsm` | the transition guards, as operators without state |
| `FeatureLifecycle` | features from discussion to `work_complete`, and the merge train |
| `Integration` | `runIntegration`, the marker and the reconciler, composed with `FeatureLifecycle` |
| `PathMutex` | what the lock registry promises: a mutual exclusion on paths |
| `ActiveLocks` | the registry of path locks, which implements `PathMutex` |
| `TaskRuns` | the tasks of a feature, their runs, workers, sessions and messages, composed with `ActiveLocks` |
| `CrossFeature` | two features whose tasks want the same paths: claims, suspension, blocks, release |
| `Phases` | one feature's phase agents: dispatch, report, approval, retries, the operator beside it, recovery |
| `Graph` | the feature graph as values, its operations and the index of its edges |
| `Proposals` | how a proposal is recorded on a draft and applied to the graph |
| `Scheduling` | the order of ready work |
| `Planning` | sessions that edit the graph, the user's decisions, dispatch and crashes, composed of the three above |
| `Worker` | one task's worker process, its session file, its calls that wait for the operator |
| `FeatureLifecycleProofs`, `IntegrationProofs`, `TaskRunsProofs`, `CrossFeatureProofs`, `PhasesProofs`, `PlanningProofs`, `WorkerProofs` | the theorems about each; `TaskRunsProofs` has those about `ActiveLocks` too |
| `SchedulingProofs` | the theorems about the order of dispatch, in `Planning` |
| `MCFeatureLifecycle`, `MCIntegration`, `MCTaskRuns`, `MCCrossFeature`, `MCPhases`, `MCPlanning`, `MCWorker` | the instances TLC checks |

### FeatureLifecycle

`features[f]` is the persisted row: the three axes `work`, `status`, `collab` and
the queue fields `seq`, `reentry`, `manual`; `enteredAt` is `mergeTrainEnteredAt`
with a logical clock.  `entrySeq` is `_entrySeq`.  `todo` holds the writes the
running handler has still to make: a handler (`CompleteDiscuss`, `VerifyPasses`,
`BeginNextIntegration`, ...) starts when `todo` is empty and sets it to the writes
its code makes in order.  `CommitWrite` makes the next one if the guards and the
merge train accept it, `RefuseWrite` is the exception that drops the rest,
`SkipWrite` a write that is conditional and not needed, `Crash` drops `todo` and
`entrySeq`.  So every prefix of every handler is a state the checks see.

Decisions:

* Features are constant; creation and removal are not modelled.
* `mergeTrainManualPosition` has no setter in the code, so it is an initial value.
* Rows that compare equal in `nextToIntegrate` may be taken in any order.
* Whether all tasks have landed, and what a phase run reports, are inputs.  A
  report may come late or, after a restart, be replayed (`Reports`): recovery looks at
  the phase alone, so the phase need not have begun again.  Discussion is the exception,
  since it comes once.
* Recovery replays a passed verification with a merge train coordinator of its
  own (`ReplayVerifyPasses`): it counts from zero and its count is dropped.
* `TaskWorkFails` and `EjectFromQueue` stand for the callers of
  `rerouteToReplan` outside an integration: an exhausted squash, and the release
  of a cross-feature overlap, whatever the feature does then.
* `cancelFeature` is modelled for one feature; the cascade is a sequence of them.
* Whether runs are running, which would refuse a project proposal, is left open.

### Integration

`main` is a sequence of commits that only grows; a commit is named by its place.
`tip[f]` is a branch tip: the revision of the work it carries (`rev`), the commit
of `main` it is based on, and whether it is a commit of its own (a rebase drops
work that is on `main` already and leaves the branch at `main`'s head).
`marker` is the `integration_state` row and `run` the program counter and locals
of `runIntegration`, or of start-up (`boot`, `reconciling`, `aborted`).  Each
action is the code between two awaits.  The outcomes are the lifecycle's own
handlers: `GiveUp` is `clearIntegrationState` and `rerouteToReplan`, `RecordMerge`
is `editFeature`, `clearIntegrationState` and `completeIntegration`.
The initial state has every feature in its first verification: nothing earlier
touches `main` or the marker.  A missing worktree (a skip without a change) and a
feature deleted while the marker names it are not modelled.

### ActiveLocks and PathMutex

`ActiveLocks` has the two maps of `scheduler/active-locks.ts`: `byPath` decides
claims, `byRun` is what a release goes through.  `PathMutex` is the abstract
object: one holder per path, a claim of several paths takes all or none, a holder
gives up everything at once, a restart frees all.  `LocksAreMutex` is `PathMutex`'s
specification with `holder` replaced by `byPath`.

### TaskRuns

`task` and `run` are the rows, `saved` what the session file of a run holds,
`worker` the processes (a task may have two at a time, named by `Slots`), `pipe` what
each wrote and nobody has read, `live` the pool's `liveRuns`, `events` the
scheduler's queue and `sched` where its loop is.  Three parties act:

* **workers** claim paths, ask for help or approval, write checkpoints, submit, end,
  die;
* **the pool** turns a message (`Read`), an exit (`ExitSeen`) or a missing pong
  (`HealthTimeout`) into an event;
* **the scheduler loop** handles the events of a tick one by one, then suspends
  overlapping tasks and dispatches (`Coordinate`, `DispatchTask`, `Launch`,
  `Persist`).

The process is single-threaded, so the pool and the user act only where the loop
awaits something that takes time: between ticks, while the error log is written,
during a squash or a rebase, while worktrees are prepared, during recovery
(`Awaits`).  Awaits on promises that are resolved already let nothing else in.  A
crash comes between any two transactions.  A guard that refuses a write
(`Allowed`) throws: the handler and the tick end there, the event is gone.

Decisions:

* The feature is executing for the whole run, unless it is cancelled.  Approved plans
  are given by the initial state; tasks are not edited.
* `Deps`, `Reserved`, `Order` are constants.  The order of priority of dispatch is any
  order (`DispatchTask`).
* Whether a squash or the rebase before a retry meets a conflict is any outcome; the
  retries are counted (`MaxSquashRetries`).  `SquashExhausts` may throw after the task is failed, as the reroute does
  from a phase that cannot be rerouted.
* After it submitted a worker only ends.  A suspended worker is told so and goes on
  as it likes, since the message only enters its conversation.  A worker that is
  denied a claim may go on: the error is a tool's result to the model.
* Which suspended tasks a landing concerns depends on the files a worker says it
  changed: any subset, one by one (`RebaseSuspended`).
* A request is told from another by its kind and by whether it was handled; an
  answer to one the worker no longer waits for has no effect.
* A message may be read after the exit of its process (`MaxLateReads` bounds how
  often), and two processes of a task may exist, but what an attempt wrote is read
  before the next attempt starts (`Settled`): the next tick is a second later.
* A crash ends the workers: recovery kills those of attended runs, others fail at
  their next write to the broken pipe.  The short life of the latter is left out.

### CrossFeature

`feature` and `task` are the rows as far as conflicts are concerned (`block` is
`runtimeBlockedByFeatureId`, `by` is `blockedByFeatureId`), `holder` the active locks,
`claim` the claim a worker waits for, `landed` the `feature_integration_complete`
events that are queued.  The loop is at `sched.at`: a denied claim or an overlap
of reserved paths makes it block the secondary and suspend its tasks one by one, a
landing makes it release every feature behind the primary, with a rebase, a
resumption or a replan for each suspended task.  Whatever acts between two awaits
(worker messages, the user, a crash) does so here too.  A write the guards
refuse, or a resumption that throws, cuts the handler short; `dropped` remembers it,
and properties about complete handlers are stated while nothing was dropped.

A feature is `work_complete` here from its merge on, and `Cancel` may cancel it even
then, as `cancelFeature` does.  `OnMain` therefore asks for a feature that completed, be it
merged or cancelled since: the block of another is lifted when the work has landed, not
when the row still says so.  When the primary is cancelled before its landing is handled,
the handler throws (`completeIntegration` refuses a cancelled feature) and releases nothing
(`HandleLanded`); cancelled during the release, the release goes on.

What the model also reaches, and no property claims otherwise:

* With three features and two denied claims, a denial overwrites a block that is held
  for another primary; `BlockedUntilLanded` holds for two features.  Two features may
  end up blocked behind each other, although `docs/operations/conflict-coordination.md:180`
  asks for one choice per pair.
* A primary that is cancelled, before its merge or between its merge and the handling of
  it (`scheduler/events.ts:920`), or whose completion event is lost in a crash, leaves its
  secondary blocked.
* Resuming a task that is done or no longer suspended throws and drops the other
  releases of the landing.
* The locks of a cancelled task are never released: its last message is dropped first
  (`scheduler/events.ts:188`).
* A release that needs a replan leaves the block in place
  (`specs/test_integration_cross_feature_blocked_reroute.md:30` speaks of the reroute).

### Phases

`row[p]` is the run row of phase `p`, one per phase for the whole life of the feature,
used again on every pass.  `first[p]` is the first completion event of its session,
the one recovery looks up; `pass` counts how often the work was executed, and
`judged[c]` says for which pass check `c` last succeeded: it is a variable of the
properties only.  A tick that dispatched a phase is parked until the session ends
(`sched.at = "parked"`), then writes row, event and advance, each a transaction.
`queue` has what the user asked for meanwhile; attaching, the user's own draft and
cancellation act at once.  `CancelPhases` cancels whatever there is, a merged feature too,
and an aborted session that had submitted before still ends well.  Recovery goes through
the rows in their order.

### Graph, Proposals, Scheduling and Planning

A graph is a record of three functions (milestones, features, tasks), each row with
its dependencies, and the two successor indexes the code walks to find cycles.  The
index is updated by each operation as the code does, and derived again by `Loaded`,
as the code does when it loads the store; `GraphValid` says that both agree.
Operations that a `GraphValidationError` refuses are guards (`CanCreateTask`,
`CanDepend`, ...).

A proposal is a sequence of operations recorded on a draft, in which rows it adds have
aliases; applying it resolves aliases to new identifiers, skips what is stale or
refused, and bumps the version if anything was applied.  `Scheduling` builds the
combined graph of nodes, the heaviest chain from each, and the order of the ready
units.

`Planning` lets sessions of the project and of features record operations, submit,
fail and be cancelled, lets the user approve and reject, lets work be dispatched
and land, and crashes the program anywhere, also in the middle of an approval: between
two operations, before the version (`CrashInApproval`), and after it while tasks are made
ready, the feature advances or is cancelled (`CrashAfterApplying`).  `version` is
`graphVersion`.

What the model shows beside the properties:

* The baseline of a project proposal is the version at *submission*, not at the start of
  the session whose draft it is, so an edit made during the session is not noticed by
  the compare-and-swap: `AppliedToItsBaseline` is about the former.
* Only applied proposals bump the version; the user's cancellation does not.
* After a crash between the operations of a proposal and the version, the version is
  that of an older graph (`torn`).
* After a crash between the advance of a feature and the end of its row, the proposal that
  was applied still waits.  The user is offered it when the feature is in that phase again,
  after another failure, and approving it applies it a second time.
* A refused project proposal leaves its row `running` without a session, until the user
  resumes it or the program restarts; resuming a run that has a session gives it two.
* A cancelled project run comes back when its aborted session still submits.
* No code writes the status `stuck` or a failure count, so two of the sort keys never
  decide.

### Worker

`file` is the session file, `worker` the process with the conversation it holds
(`log`: the calls whose results it has), `inbox` and `outbox` the two pipes, `run` and
`live` what the orchestrator knows.  A call that asks the operator goes
`asking -> waiting -> answering -> recording -> thinking`, with a checkpoint before
the request goes out, one before the answer is given to the agent, and one when it is
in the conversation.  A worker that is resumed while it waited sends the
request again; its answer is delivered by running the rest of the agent (`nested`).
Either process may die at any step, and a checkpoint may fail to be written.

* The agent library is external: it makes calls, calls listeners and waits for
  them.  A turn holds one call here; a turn of several calls, resumed after the first,
  would go on with calls that have no result.
* `BlockCommand`: a destructive command asks for approval, but nothing waits for the
  decision, which is dropped.
* An answer that was saved after the worker submitted is lost when the worker dies before
  its next save: a resumed worker with a result returns before it merges the answers of its
  file (`runtime/worker/index.ts:454`), and its last save leaves them out.
* An answer that cannot be saved is dropped and the worker goes on waiting, while its
  row says running.
* A restart keeps the status `await_response` of a run that was answered already.
* An answer that arrives before the resumed worker waits again is dropped too.
* After an implicit end whose result was lost, a worker is resumed from a conversation
  that is complete; the model lets it go on.

## Runs

Twelve runs, three of which end in a violation on purpose.

| Run | Shows | Bounds |
|---|---|---|
| `train_crash` | serialized train, only waiting features in it, re-entries first, queued only after the dependencies, across a crash between any two writes and a changing edge | 2 features, one with a manual position, 2 entries, 1 crash |
| `landing_crash` | landed as verified, merged is on main, the marker follows the train, main only grows, refinement of the lifecycle | 2 features, 1 entry, 1 revision, 1 crash, 1 push, 1 git error |
| `landing_steady` | FIFO among equals, none stranded outside the train, every queued feature leaves it, every integration ends, landed work is never replanned | 2 features, 2 entries, 2 revisions, 1 git error, no crash, fairness |
| `tasks_steady` | exclusive writers, running tasks are attended to, the lock registry is a mutex, claims are answered, retries come | 2 tasks, 1 path, 2 claims, 1 retry, 2 squash retries, pool of 2, no faults, fairness |
| `tasks_crash` | one worker per task, bounded retries, the pool is not overfilled | 2 tasks that reserve the same path, two processes each, pool of 1, 1 request, 1 retry, 1 squash retry, 1 late read, one fault out of: crash, silent worker, git error, cancellation |
| `cross_feature` | a secondary is paused as a whole, stays blocked until the primary landed, every landing that is handled reaches those behind it | 2 features, 3 tasks, two of which want and reserve one path, 2 claims, 1 replan, 1 cancellation or crash, 3 of these together, fairness |
| `phases` | what waits in the train was verified as it is, running runs have sessions, phases come to an end | 2 passes, a crash in the first only, 1 retry, 2 queued requests, 2 turns, fairness |
| `graph_edits` | the graph and its index stay sound, a proposal gives what its draft showed and only on the graph it was made against, the heaviest chain goes first | 4 start graphs in 9 starts, each with up to 3 operations, 2 project sessions and 1 turn, or 2 turns for one to be planned again |
| `worker_ipc` | a saved answer is never asked for again, is in every conversation that goes on, and in the file unless only a submitted result is left to report | 3 calls, 2 deaths, 1 failed save |
| `stale_verdict` | *violated*: a feature queued with work that was never verified | 2 passes, a crash in the second |
| `dependent_waits` | *violated*: a dependent task is never made ready | 2 tasks, one depends on the other, fairness |
| `second_request` | *violated*: a resumed worker waits for ever | 2 calls, 1 death, fairness |

**Tasks.**  Two tasks and one path are the smallest case of a conflict: claims are of one
path in the code, and a denial concerns two tasks.  Two claims let one be denied; one
request is enough to wait, be answered and be resumed; one fault can come at any
point of any handler, and every kind does.  Claims and faults are in different runs
because their product is too large, so what a fault does to a *held lock* is not
checked.

**Train and landing.**  Two features are enough for order and exclusion, which relate
two at a time; two entries let a feature re-enter the train with a higher count than
another; one crash reaches every intermediate state of every handler, since a
handler's writes are explored one by one.  `MaxEntries` bounds re-entry in
`VerifyPasses` (the code has no such bound: `docs/concerns/merge-train-reentry-cap.md`
discusses one, and no caller enforces the single replan of `core/fsm/index.ts:61`),
`MaxRevisions` the work that is added to a branch, `MaxPushes` and `MaxGitErrors` what
others and git do.

**Conflicts across features.**  The secondary has a second task that touches nothing, to
see that it is paused too.  Two claims let one be denied; with a third turn a replan, a
cancellation or a crash meets the denial.  A third feature is left out because of the overwritten
block described above.

**Phases.**  Two passes are needed for anything stale.  A crash in the second pass breaks
`VerifiedBeforeMerge` (`stale_verdict`), so `phases` confines it to the first.  A turn is
a crash, a transient error, a failure outside a session, a request for help, an
attachment, a draft or a cancellation; two of them can meet.

**Planning.**  An operation needs at most two rows to be refused, a cycle of two edges
two operations, and an alias that is used by a later operation two as well.  The start graphs are
an empty one, one under way, one to be planned again and one whose tasks compete for
dispatch; each comes with the bounds that its size allows.

**Worker.**  Three calls: one answered before a death, one pending at it, one new after
it.  Two deaths: the resumed worker dies too.

`CHECK_DEADLOCK FALSE` is set everywhere: a system whose features are all complete or
cancelled stops, and so does one that used up its bounds.  Symmetry is not used: the
runs with liveness do not allow it and the others are small enough.

### Disagreements between the code and what is said of it

Each of these runs checks one property that a comment or document states, and TLC
shows a behaviour of the code that violates it.

| Run | Stated | Behaviour |
|---|---|---|
| `stale_verdict` | only a full rerun lets a feature into the train (`specs/test_feature_verification_replan_loop.md:38`) | recovery replays the verdict of the pass before the replan |
| `dependent_waits` | a dependent task becomes ready (`specs/test_scheduler_frontier_priority.md:14`) | tasks are made ready at approval only |
| `second_request` | the call blocks until the answer is delivered (`agents/worker/tools/request-help.ts:24`) | the answer is dropped while the restored one counts as being delivered |

Behaviours the models reach although something else is said or expected of the code; no
run is spent on them:

* The entry sequence restarts with the process, so a later entry sorts first
  (`core/merge-train/index.ts:51`): `FifoAmongEquals` holds without a crash only.
* Marker and merge are three transactions, not one (`scheduler/events.ts:915`): after a
  crash in between, landed work is integrated again, or replanned.
  `LandedNeverReplanned` holds without a crash only.
* The reconciler's outcome `halted` is ignored at start-up
  (`docs/operations/verification-and-recovery.md:187`), a second reconciliation after a
  crash throws (`:189` calls it idempotent), and so does one after the feature was
  cancelled.
* A task in conflict that submits is squashed, and the write that should record it is
  refused (`docs/operations/conflict-coordination.md:149`).
* An edge added while a feature verifies makes the train refuse it after it was advanced
  to `awaiting_merge`, and nothing queues it again: `NoneStranded` is checked with
  independent features.
* A second failure while replanning marks the phase failed and then cannot advance.
* A task that ends without submitting is done and not merged, so its feature never
  leaves executing.
* A running task may be stranded by the reset of its run, or run twice after a crash
  between the two writes of a retry.
* `cancelFeature` bypasses the guards, so a merged feature may be cancelled; cancelled
  before its landing is handled, it releases nobody.
* An answer given after a submission may be lost (`runtime/worker/index.ts:454`), although
  `:459` is there to keep it.

## Fairness

`HandlerWrites` is weakly fair: a handler that runs makes its writes.  The loop ticks
every second for as long as the process runs, and every tick ends with the next step
of the train; `SelectNext`, which takes the next feature, and `ReadMain`, which starts its
integration, are strongly fair, because other handlers come in between, each of which
is finite.  The steps of a running integration and of the reconciler are weakly fair: git
commands return.
For tasks, the scheduler's steps are weakly fair (`LoopStep`: the loop runs on, what
it awaits returns), recovery too, pipes are read and exits heard, timers fire
(`Backoff`).  Nothing is assumed of workers, which may work for ever: `ClaimsAnswered`
and `RetryWaitEnds` follow from the orchestrator's fairness alone.
In `CrossFeature` the loop runs on; that a primary lands at all is not assumed.  In
`Phases` the loop and dispatch are weakly fair, and so is the end of a session
(`Ending`): an agent that asks nothing comes to an end.  Of the user nothing is
assumed: `PhasesMoveOn` counts a run that waits for the user as held.
`FairWorkerSpec`, used for a violation only, assumes as much as one can: processes run
on, messages arrive, and the operator answers every request that is shown.
Most runs with liveness have no crash, since a process that keeps dying makes no
progress; `phases` and `cross_feature` have at most one.

## Proofs

Each module `XProofs` proves theorems of the specification in `X` (`SchedulingProofs` of that
in `Planning`), for every value of its constants: any number of features, tasks, paths, processes, commits, passes, retries,
pushes and, unless said otherwise, crashes.  The assumptions are those the modules
declare: the types of the constants, that `NoRun` and `NoFeature` name nothing, that
the set of tasks is finite (`TasksFinite`: `LaunchWithinPool` counts sessions), and in
`CrossFeature` that tasks of one feature do not overlap (`NoOverlapInside`: that case
is `TaskRuns`').  Each theorem rests on an inductive
invariant that was first checked by TLC; the step of each action is a lemma or a named
step, and a step that does not concern a row is dealt with once.

### The merge train (`FeatureLifecycleProofs`)

* `LifecycleInv == TypeOK /\ TodoShape /\ AtMostOneIntegrating` gives
  `TypeCorrectness`, `SerializedTrain` and `ReentryFirst`.  `AtMostOneIntegrating` is
  inductive with the types, since `begin` looks at every other feature.
  `ReentryGoesFirst` is not a matter of one step: the feature is chosen when the handler
  starts, and written one or two transactions later.  `TodoShape` says that in between
  either the running handler starts no integration, or its feature is *still* next in the
  queue.
* `TrainInv` orders the writes a handler has still to make: a feature in the train is
  moved out before anything ends its phase or gives up its place, and it is queued right
  after the phase before `awaiting_merge` ended.  It gives `TrainWaits` and
  `DependenciesBeforeQueue`.
* `FifoInv` compares sequence numbers with times of entry: `FirstComeFirstServed`, *as long
  as nothing crashes*.  A restart begins the numbers again.
* `MergedInv`: no handler takes a merged feature back to a phase before the merge.
* `SettledInv` follows the three handlers that pass through a state nobody may be left in
  (the entry into the train, the ejection, the start of an integration) write by write to
  their end: `NothingStranded`, *without crashes and without edges added while a feature is
  verified*.  Both do strand a feature: a crash between two writes of `completePhase`, and an edge that
  makes the train refuse a feature that was advanced already.

### Integration (`IntegrationProofs`)

`ImplementsLifecycle` shows that every step of the composition is a step of the lifecycle
or leaves its rows alone; the invariants above therefore hold of it
(`OneIntegrationAtATime`, `IntegrationsStrandNothing`).  What is added:

* `RunInv`: what is known at every await of `runIntegration`.  Nothing but pushes by
  others came after the commit it expects, until its own merge did; from the rebase on the
  branch is based on a commit not before that one.
* `MarkerInv`: the first commit after the one a marker expects is the merge it announces,
  if it is a merge at all, and its feature does not go back to work.  That is what lets the
  reconciler tell a landed from a lost integration.
* `MainInv`, `RecordInv`: what is on `main` was verified, and what is recorded as merged is
  on it.

They give `LandsAsVerified`, `MergedWorkIsOnMain`, `MarkerNamesTheTrain` and
`MainIsNeverRewritten` through crashes and reconciliations at any step, and
`LandedIsNotReplanned` *as long as nothing crashes* (merge and record are separate
transactions).

### Path locks and task runs (`TaskRunsProofs`)

`LockTablesAgree` says that the two maps of the registry say the same.
`LocksImplementMutex`, the refinement of `PathMutex`, needs it: a release goes through
`byRun`, so it frees what `byPath` gives to the run only as long as the maps agree.
`TaskLocks` is the same refinement for the composition.  The invariants of `TaskRuns`:

* `TypeInv`: types, with the shape of what is in flight (a message names its process, the
  loop has a task in hand where its code does).
* `RetryInv`: a restart that is due is still under the cap (`RestartsBounded`, with one
  more for each crash).
* `PoolInv` follows the idle workers a tick counted through its launches
  (`LaunchesWithinPool`): sessions end while the loop awaits, and only it starts any.
* `SoleInv`: while a process works nothing of an earlier one is left, neither running, nor
  in a pipe, nor queued, nor in the loop's hand; and a task the loop has chosen for dispatch
  is quiet.  It holds in a life *without a crash* (`OneProcessPerTask`); a crash between the
  two writes of a retry leaves a ready task whose run recovery resumes.
* `HeldInv` ties what a process was granted to the table: `WritersExclude`, again *as long
  as nothing crashes*.  After the crash above, TLC finds the end of one process of a task
  releasing the paths of the other.
* `AttendedInv` follows the end of a run from the process over its pipe and the queue into
  the loop's hand: an end is the last that is heard of a run, a session stands for a process whose
  end was not heard of, a run without a session has nothing in flight.  It gives
  `NoTaskForgotten`, *without crashes, git errors and late messages*.  TLC finds a
  counterexample without each of the three: a crash before `Persist`, a git command that throws while a
  task is squashed, a request read after the failure of its process was handled.

### Conflicts across features (`CrossFeatureProofs`)

* `PausedInv`: a blocked feature has no running task, with what is owed to it in the middle
  of a handler, namely the tasks the loop has still to suspend, or the replan that is to come
  (`SecondaryStopped`).
* `SuspendedInv`: who is suspended belongs to a blocked feature (`SuspendedWaitBehind`).
* `OverlapsInv`: the pairs a tick has been through are settled (`OverlapsSettled`).
* `WantedInv`, `ApartInv`, `MergedInv`: claims, blocks and reported landings are between two
  different features, and a reported landing was merged.  They need no handler to run
  to its end.  `BlocksLiftedByLandings`: for any number of features, a block is lifted only of a
  cancelled feature or in the release after another's merge.  `BlockOfTwoLasts`: with
  *two* features it lasts until the one it waits for is on `main`, even if that one is
  cancelled while its landing is handled (`OnMainStays`: what is on `main` stays there); with
  three a denied claim writes over the block.

### Phases (`PhasesProofs`)

* `TypeInv`: types, the shape of a row by its status, which phase the loop has in hand.
* `AttendedInv`: who will end a run that is under way, the loop that has it in hand or
  recovery that has read its row but not come to it (`RunsHaveSessions`).
* `InItsPhase`: the feature does not leave a phase that runs (`PhaseOfItsRun`).
* `VerdictInv` (`RowVerdict`, `LoopVerdict`, `WorkVerdict`) follows a verdict from its
  session over row, event and advance into the merge train, and over recovery.
  `CheckedBeforeMerge` holds for `LastCrashPass <= 1`: crashes in the first pass only.
  `stale_verdict` shows what one in the second does.

### Planning (`PlanningProofs`)

`GraphAlwaysValid`, `PreviewAlwaysApplied` and `BaselineAlwaysApplied` hold for every set of
graphs to start from (`PlanningConstants`: rows with their columns, numbers as identifiers
and weights of tasks, `Sound` as loading a valid store makes them) and every bound.  The argument
goes up from the edges:

* Paths.  `Reach` is the least set that has its start and is closed under edges: a walk of
  as many steps as there are edges is long enough, since each step that adds a row adds
  the end of an edge.  So the check before an edge is added keeps the index free of
  cycles (`OneMoreEdge`).
* Operations.  `EffectGood`: whatever a good graph accepts leaves it good, row and index
  alike.  `Good` is `Sound` with `WellFormed`.
* Records.  `AppliedGood`: so does any first part of any record, whatever is skipped and
  whatever its aliases stand for; and a record of which nothing applied changed nothing.
  A crash before the version leaves such a first part; one after it, the whole with some of
  what `Keeps` covers.
* Names.  A draft knows the rows its session added by its own numbers, the graph by those
  that applying the record gives: `GraphRenamed` says that one graph is the other under
  such names, for each kind of row.  `EffectAlike`: of two graphs that are alike, what one
  accepts the other accepts under its name, and they stay alike, for each operation; a
  path leads from one row to another exactly if it does under their names, so both refuse
  the same cycles.  This needs that the names tell the rows apart (`NamesTell`): every
  alias stands for a row of its own and for a number above all of the graph the session
  started from (`NamesFine`), even when a row was removed and its number given again.
* Drafts.  `Previewed` is the invariant of a session: its draft, under the names that
  resolving gives, is the graph that its record gives, unless an operation was skipped, and
  the first to be skipped removes a feature (the draft takes any such removal, applying
  takes only one of a feature that has not started and that none depends on).
  `RecordPreviews` keeps it over one more operation, since what was resolved before stays
  so (`ResolvedAppend`) and the graph advances by that operation alone
  (`AppliedAppend`).  The edit that is not recorded changes nothing (`SilentSame`).  A
  proposal that waits has this from its session, whatever happens to the graph meanwhile;
  `PreviewPlain` turns it into the equation of `PreviewIsApplied`.
* `Keeps`: every other step writes only what running the work changes, so structure, index
  and validity stay.
* `PlanStep` says what a step does to the graph (keep its structure, count the change, or
  be cut short), to sessions and to rows, and `PlanInv` follows from the three: a proposal of
  the project is submitted at the version and against the structure of now, and while its
  version is the graph's nothing has changed the structure.  The comparison of versions in
  `applyProjectProposal` is therefore enough, until a crash leaves changes that were not
  counted (`torn`).

Induction over steps of a path or operations of a record is induction on the naturals,
through the least number at which a property would fail (`NatSteps`); the recursive
functions behind `Reach` and the folds are shown to exist by extending them one step at a
time.

### The order of dispatch (`SchedulingProofs`)

`HeaviestChainAlwaysFirst`: `SpecPlanning => HeaviestChainFirst`.  The code builds a graph of
nodes (tasks of executing features, and the other features whole), joins features through
their last and first nodes, and adds weights along its edges; the property adds weights over
chains of dependencies and knows nothing of joints.  `DepthIsChainWeight` is the equality of
the two, for every good graph whose executing features have tasks:

* `NodeBefore` is a finite strict order on nodes (`NodesOrdered`), since features and tasks
  have no cycles.
* `Generates`: every edge of the combined graph is in that order (`SuccessorAfter`), and
  every pair of the order is an edge or passes through the end of one
  (`SuccessorsReach`): from a task to a next one of its feature, and from the last tasks to
  a first node of the next feature on the way, which exists because that feature has
  tasks.
* Along edges that generate the order, the depth of a node is its weight and that of the
  heaviest chain after it (`ChainsAreDepths`), and there is one such function
  (`DepthsUnique`).  The sum over a set picks members in an order it does not tell;
  `SumIsTotal` shows that it is additive all the same.

The hypothesis on executing features is needed: without a node, a feature interrupts the
chains that lead through it.  `WeightsInv` says that a task, and what a recorded operation
gives one, has a weight there is; it is kept beside `PlanInv` (`WeightsInvariant`).  That the
task which starts is the one chosen needs `OthersRest`: no step but a dispatch makes a
task run, neither an operation (`EffectWeighed`) nor an approval, a cancellation or a restart.
`FirstIsDeepest` compares it with every ready unit, also with one that only waits for its
retry: such a feature is not executing and is in another tier (`TiersTell`).

### Worker (`WorkerProofs`)

`SavedAnswersKept`: `WorkerSpec => []AnswersKept`, for any number of calls, deaths and failed
saves.  `AnswersKept` says where a saved answer is: never among the calls that are pending, in
the conversation of every agent that goes on, and in the file, unless a result was submitted
and nothing is pending.  The exception is the code's: with a submitted result a resumed worker
does not put the answers back, and its last save drops them.  It is not inductive: a
process that has just been spawned holds nothing, and a save writes what the worker
holds over what the file holds.  `KeptInv` adds what makes the two agree: a file without a
submitted result holds every answer (`FileHolds`), one with a pending call has them all in its
conversation (`FileEnds`), a process that starts afresh has no session file, a file with a pending call has no answer beside it
(so `RestoreWait`, which reads only the conversation, misses none), a worker that waits
has every answer in its conversation already, the call it waits for is the one it made,
and calls are numbered, so a new one is not an answered one.  `SavedKept` is the heart:
every save but that of an answer keeps all this, whatever it is part of.

### Only model-checked

Liveness only (`QueueDrains`, `IntegrationEnds`, `ClaimsAnswered`, `RetryWaitEnds`,
`LandingReleases`, `PhasesMoveOn`): fairness is beyond the prover.  Every invariant and every
action property that a passing run checks is also stated by a theorem, some of them under
the hypotheses named above.

## Not modelled

* Model calls, prompts and the contents of conversations: inputs.
* Shell verification: its verdict is an input of `Phases`, `FeatureLifecycle` and
  `Integration`.
* Frames and the quarantine of malformed ones, row codecs, migrations: conversions without
  protocol state; a transaction is taken to be atomic and durable.
* Warnings, budget, usage roll-ups, routing, configuration: derived data.
* The terminal interface, except for the user's draft: presentation.
* Worktree and lock-file repair at start-up; the contents of branches beyond what
  `Integration` distinguishes.
* The cascade of a cancellation, reordering of tasks and milestones: sequences of
  operations that are modelled.

## Plan

1. *Done*: guards, lifecycle and merge train, integration and reconciler; path locks and
   task runs; conflicts across features; phase runs; graph, proposals, scheduling order
   and planning; the worker's waits.  The invariants and action properties of every
   component are proved, with the refinements and the crash-free results listed above.
2. `BlockedUntilLanded` with three features, stated so that a block that is overwritten is
   told from one that is kept; `BlocksLiftedByLandings` gives the half that holds for any
   number of features.
3. A held lock across a crash: the product of claims and faults in `TaskRuns`.
