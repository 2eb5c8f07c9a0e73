----------------------------- MODULE Integration -----------------------------
(***************************************************************************)
(* Landing a feature on main: IntegrationCoordinator.runIntegration, the   *)
(* singleton integration_state marker, and the IntegrationReconciler that  *)
(* runs at start-up.  Composed with FeatureLifecycle: the outcomes of an   *)
(* integration are the graph writes of that module's handlers.             *)
(*                                                                         *)
(* runIntegration is awaited by the scheduler tick, so no other handler    *)
(* runs until it ends; between two awaits of it, main can be pushed to by  *)
(* somebody else, a user can cancel a feature, and the process can die.    *)
(*                                                                         *)
(* Git is external.  main grows only: a commit's name is its place in it.  *)
(* A branch tip is named by the work it carries and the commit of main it  *)
(* is based on; own is FALSE once a rebase found that work on main already *)
(* and moved the branch to the head of main itself.                        *)
(***************************************************************************)
EXTENDS FeatureLifecycle, SequencesExt

CONSTANTS
    NoFeature,         \* in a commit somebody else pushed; in no marker
    MaxRevisions,      \* bound on the revisions of a feature branch
    MaxPushes,         \* bound on pushes by others
    MaxGitErrors       \* bound on git commands that throw

ASSUME NoFeatureIsNone == NoFeature \notin Features
ASSUME IntegrationBounds == /\ MaxRevisions \in Nat \ {0}
                            /\ MaxPushes \in Nat
                            /\ MaxGitErrors \in Nat

VARIABLES
    main,        \* the commits of the main branch, oldest first
    tip,         \* the tip of each feature branch
    marker,      \* the integration_state row
    run,         \* where runIntegration or the start-up is, and its locals
    pushes,      \* pushes by others so far
    gitErrors    \* git commands that threw so far

gitVars == << main, tip, marker, run, pushes, gitErrors >>
vars == << lifecycleVars, gitVars >>

----------------------------------------------------------------------------
(* Git *)

Sha == Nat             \* a commit of main, by its place; 0 is the first one
Tip == [rev : Nat, base : Sha, own : BOOLEAN]
NoTip == [rev |-> 0, base |-> 0, own |-> FALSE]

Commit == [feature : Features \cup {NoFeature}, second : Tip]

Pushed == [feature |-> NoFeature, second |-> NoTip]
MergeOf(f) == [feature |-> f, second |-> tip[f]]

Head_ == Len(main)     \* git rev-parse main

\* The current work of f is on main.
OnMain(f) == \E i \in DOMAIN main : /\ main[i].feature = f
                                    /\ main[i].second.rev = tip[f].rev

\* git rebase main; a branch whose work is on main moves to its head.
RebasedTip(f) == [tip[f] EXCEPT !.base = Head_, !.own = @ /\ ~ OnMain(f)]

----------------------------------------------------------------------------
(* The marker and the running integration *)

Marker == [feature : Features \cup {NoFeature}, expected : Sha,
           pre : Tip, post : Tip]
NoMarker == [feature |-> NoFeature, expected |-> 0, pre |-> NoTip,
             post |-> NoTip]

Stage == {"boot", "reconciling", "aborted", "idle", "read", "marked",
          "rebased", "recorded", "verified", "checked", "landed"}
Run == [at : Stage, feature : Features \cup {NoFeature}, expected : Sha]

NotRunning(stage) == [at |-> stage, feature |-> NoFeature, expected |-> 0]
Idle == NotRunning("idle")

At(stage) == run.at = stage /\ todo = << >>
Goto(stage) == run' = [run EXCEPT !.at = stage]

\* An await that only moves the run on.
Silent == UNCHANGED << lifecycleVars, main, tip, pushes, gitErrors >>

\* Mutants of GiveUp: the marker stays; the feature is not rerouted.
GiveUpKeepingMarker(f) ==
    /\ run' = Idle
    /\ Handle(RerouteToReplan(f))
    /\ UNCHANGED << main, tip, marker, pushes, gitErrors >>

GiveUpWithoutReroute(f) ==
    /\ marker' = NoMarker
    /\ run' = Idle
    /\ Silent

\* clearIntegrationState and then rerouteToReplan.
GiveUp(f) ==
    /\ marker' = NoMarker
    /\ run' = Idle
    /\ Handle(RerouteToReplan(f))
    /\ UNCHANGED << main, tip, pushes, gitErrors >>

----------------------------------------------------------------------------
(* runIntegration *)

\* Mutant of ReadMain: rev-parse of main's parent.
ReadMainParent(f) ==
    /\ At("idle")
    /\ features[f].collab = "integrating"
    /\ run' = [at |-> "read", feature |-> f, expected |-> Head_ - 1]
    /\ UNCHANGED marker
    /\ Silent

\* rev-parse main.
ReadMain(f) ==
    /\ At("idle")
    /\ features[f].collab = "integrating"
    /\ run' = [at |-> "read", feature |-> f, expected |-> Head_]
    /\ UNCHANGED marker
    /\ Silent

\* rev-parse of the feature branch, then the marker.
WriteMarker ==
    /\ At("read")
    /\ marker' = [feature |-> run.feature, expected |-> run.expected,
                  pre |-> tip[run.feature], post |-> NoTip]
    /\ Goto("marked")
    /\ Silent

\* Mutant of Rebase: the branch is left where it is.
RebaseSkipped ==
    /\ At("marked")
    /\ Goto("rebased")
    /\ UNCHANGED marker
    /\ Silent

Rebase ==
    /\ At("marked")
    /\ tip' = [tip EXCEPT ![run.feature] = RebasedTip(run.feature)]
    /\ Goto("rebased")
    /\ UNCHANGED << lifecycleVars, main, marker, pushes, gitErrors >>

\* Whatever git rebase fails with counts as a conflict.
RebaseConflicts == At("marked") /\ GiveUp(run.feature)

RecordRebasedTip ==
    /\ At("rebased")
    /\ marker' = [marker EXCEPT !.post = tip[run.feature]]
    /\ Goto("recorded")
    /\ Silent

VerificationPasses ==
    /\ At("recorded")
    /\ Goto("verified")
    /\ UNCHANGED marker
    /\ Silent

VerificationFails == At("recorded") /\ GiveUp(run.feature)

MainUnmoved ==
    /\ At("verified")
    /\ Head_ = run.expected
    /\ Goto("checked")
    /\ UNCHANGED marker
    /\ Silent

MainMoved ==
    /\ At("verified")
    /\ Head_ # run.expected
    /\ GiveUp(run.feature)

MergeTreeConflicts == At("checked") /\ GiveUp(run.feature)

\* The main that update-ref leaves: the merge on top of its first parent.
MainAfterUpdateRef == SubSeq(main, 1, run.expected) \o << MergeOf(run.feature) >>

\* Mutant of LeaseHolds: update-ref without the old value.
LeaseNotTaken == TRUE

\* update-ref compares main with the old value it is given.
LeaseHolds == Head_ = run.expected

UpdateRef ==
    /\ At("checked")
    /\ LeaseHolds
    /\ main' = MainAfterUpdateRef
    /\ Goto("landed")
    /\ UNCHANGED << lifecycleVars, tip, marker, pushes, gitErrors >>

LeaseFails ==
    /\ At("checked")
    /\ ~ LeaseHolds
    /\ GiveUp(run.feature)

\* Mutants of RecordMerge: half of completeIntegration, and none of it.
RecordMergeHalf ==
    /\ At("landed")
    /\ marker' = NoMarker
    /\ run' = Idle
    /\ Handle(<< MoveTo(run.feature, "merged") >>)
    /\ UNCHANGED << main, tip, pushes, gitErrors >>

RecordMergeNot ==
    /\ At("landed")
    /\ marker' = NoMarker
    /\ run' = Idle
    /\ Silent

\* editFeature, clearIntegrationState, completeIntegration: no await between
\* them, but a transaction each.
RecordMerge ==
    /\ At("landed")
    /\ Editable(features[run.feature])
    /\ marker' = NoMarker
    /\ run' = Idle
    /\ Handle(CompleteIntegration(run.feature))
    /\ UNCHANGED << main, tip, pushes, gitErrors >>

\* editFeature throws: the feature was cancelled after the merge landed.
RecordMergeThrows ==
    /\ At("landed")
    /\ ~ Editable(features[run.feature])
    /\ run' = Idle
    /\ UNCHANGED marker
    /\ Silent

\* A git command throws, the tick ends; the next one starts over.
GitThrows ==
    /\ run.at \in {"read", "marked", "rebased", "recorded", "verified",
                   "checked"}
    /\ todo = << >>
    /\ gitErrors < MaxGitErrors
    /\ gitErrors' = gitErrors + 1
    /\ run' = Idle
    /\ UNCHANGED << lifecycleVars, main, tip, marker, pushes >>

----------------------------------------------------------------------------
(* The reconciler, at start-up and before the scheduler runs *)

HasMarker == marker # NoMarker

ExpectedSecondParent == IF marker.post = NoTip THEN marker.pre ELSE marker.post

\* Mutant of HeadIsMarkedMerge: any commit on the expected one will do.
HeadIsOnExpected == Head_ > 0 /\ Head_ - 1 = marker.expected

\* The head of main is the two-parent merge the marker announces.
HeadIsMarkedMerge ==
    /\ Head_ > 0
    /\ Head_ - 1 = marker.expected
    /\ main[Head_].second.own
    /\ main[Head_].second = ExpectedSecondParent

ReconcileIdle ==
    /\ At("boot")
    /\ ~ HasMarker
    /\ run' = Idle
    /\ UNCHANGED marker
    /\ Silent

\* main has not moved: the merge never ran.
ReconcileRetry ==
    /\ At("boot")
    /\ HasMarker
    /\ Head_ = marker.expected
    /\ marker' = NoMarker
    /\ run' = Idle
    /\ Silent

\* The merge ran: record it and complete the integration.
ReconcileCompletes ==
    /\ At("boot")
    /\ HasMarker
    /\ HeadIsMarkedMerge
    /\ Editable(features[marker.feature])
    /\ Goto("reconciling")
    /\ Handle(CompleteIntegration(marker.feature))
    /\ UNCHANGED << main, tip, marker, pushes, gitErrors >>

ReconcileClears ==
    /\ At("reconciling")
    /\ marker' = NoMarker
    /\ run' = Idle
    /\ Silent

\* editFeature throws, and the start of the application with it.
ReconcileThrows ==
    /\ At("boot")
    /\ HasMarker
    /\ HeadIsMarkedMerge
    /\ ~ Editable(features[marker.feature])
    /\ run' = NotRunning("aborted")
    /\ UNCHANGED marker
    /\ Silent

\* A git command of the reconciler throws.
ReconcileGitThrows ==
    /\ At("boot")
    /\ HasMarker
    /\ gitErrors < MaxGitErrors
    /\ gitErrors' = gitErrors + 1
    /\ run' = NotRunning("aborted")
    /\ UNCHANGED << lifecycleVars, main, tip, marker, pushes >>

\* Anything else: the outcome says halted, and the caller goes on.
ReconcileHalts ==
    /\ At("boot")
    /\ HasMarker
    /\ Head_ # marker.expected
    /\ ~ HeadIsMarkedMerge
    /\ run' = Idle
    /\ UNCHANGED marker
    /\ Silent

----------------------------------------------------------------------------
(* The rest of the system *)

\* A write made by a handler.  A refused one ends the start-up when the
\* reconciler made it.
HandlerWrites ==
    /\ TakeWrite
    /\ run' = IF RefuseWrite /\ run.at = "reconciling"
              THEN NotRunning("aborted") ELSE run
    /\ UNCHANGED << main, tip, marker, pushes, gitErrors >>

\* The scheduler's other handlers run between integrations.
OtherHandlers(f) ==
    /\ run.at = "idle"
    /\ PhaseStep(f) \/ ApplyProjectProposal(f)
    /\ UNCHANGED gitVars

SelectNext(f) ==
    /\ run.at = "idle"
    /\ BeginNextIntegration(f)
    /\ UNCHANGED gitVars

\* Before it reconciles, the start-up replays the reports of phase runs that
\* completed without their effects.  Features are past discussion here.
RecoveryReplays(f) ==
    /\ run.at = "boot"
    /\ \/ CiCheckPasses(f) \/ CiCheckFails(f)
       \/ ReplayVerifyPasses(f) \/ VerifyFails(f)
       \/ CompleteSummary(f)
    /\ UNCHANGED gitVars

TasksLand(f) ==
    /\ run.at = "idle"
    /\ tip[f].rev < MaxRevisions
    /\ OnTaskLanded(f)
    /\ tip' = [tip EXCEPT ![f].rev = @ + 1, ![f].own = TRUE]
    /\ UNCHANGED << main, marker, run, pushes, gitErrors >>

\* A user cancels a feature: the interface is up for as long as the process.
UserCancels(f) ==
    /\ run.at # "aborted"
    /\ CancelFeature(f)
    /\ UNCHANGED gitVars

SomeonePushes ==
    /\ pushes < MaxPushes
    /\ pushes' = pushes + 1
    /\ main' = Append(main, Pushed)
    /\ UNCHANGED << lifecycleVars, tip, marker, run, gitErrors >>

ProcessDies ==
    /\ Crash
    /\ run' = NotRunning("boot")
    /\ UNCHANGED << main, tip, marker, pushes, gitErrors >>

----------------------------------------------------------------------------

\* Every feature is being verified for the first time: nothing before that
\* touches main or the marker.
IntegrationInit ==
    /\ features = [f \in Features |->
                     [work |-> "verifying", status |-> "in_progress",
                      collab |-> "branch_open", seq |-> 0, enteredAt |-> 0,
                      reentry |-> 0, manual |-> ManualPosition[f]]]
    /\ dependsOn = DependsOn
    /\ entrySeq = 0
    /\ clock = 0
    /\ todo = << >>
    /\ crashes = 0
    /\ main = << >>
    /\ tip = [f \in Features |-> [rev |-> 1, base |-> 0, own |-> TRUE]]
    /\ marker = NoMarker
    /\ run = Idle
    /\ pushes = 0
    /\ gitErrors = 0

RunStep == \/ WriteMarker \/ Rebase \/ RebaseConflicts \/ RecordRebasedTip
           \/ VerificationPasses \/ VerificationFails
           \/ MainUnmoved \/ MainMoved
           \/ MergeTreeConflicts \/ UpdateRef \/ LeaseFails
           \/ RecordMerge \/ RecordMergeThrows

Reconcile == \/ ReconcileIdle \/ ReconcileRetry \/ ReconcileCompletes
             \/ ReconcileClears \/ ReconcileThrows \/ ReconcileHalts

IntegrationNext ==
    \/ RunStep
    \/ Reconcile
    \/ GitThrows
    \/ ReconcileGitThrows
    \/ HandlerWrites
    \/ SomeonePushes
    \/ ProcessDies
    \/ \E f \in Features : \/ ReadMain(f)
                           \/ SelectNext(f)
                           \/ OtherHandlers(f)
                           \/ RecoveryReplays(f)
                           \/ TasksLand(f)
                           \/ UserCancels(f)

IntegrationSpec == IntegrationInit /\ [][IntegrationNext]_vars

\* Awaits return, and every tick ends with the next step of the train: it
\* selects a feature, or runs the integration of the one selected.
IntegrationFairness ==
    /\ WF_vars(RunStep)
    /\ WF_vars(Reconcile)
    /\ WF_vars(HandlerWrites)
    /\ \A f \in Features : SF_vars(SelectNext(f)) /\ SF_vars(ReadMain(f))

FairIntegrationSpec == IntegrationSpec /\ IntegrationFairness

----------------------------------------------------------------------------
(* Properties *)

\* Every variable has its type.
IntegrationTypeOK ==
    /\ TypeOK
    /\ main \in Seq(Commit)
    /\ tip \in [Features -> Tip]
    /\ marker \in Marker
    /\ run \in Run
    /\ pushes \in 0..MaxPushes
    /\ gitErrors \in 0..MaxGitErrors

\* A step of the composed system does to the features what a handler of the
\* lifecycle does, or nothing (runIntegration and reconcile change the graph
\* only through rerouteToReplan and completeIntegration).
StepsAreLifecycleSteps == [][Next]_lifecycleVars

\* What somebody else pushed stays on main: no merge replaces it (update-ref
\* with the old value).
MainOnlyGrows == [][IsPrefix(main, main')]_vars

\* Every merge on main joins its first parent with a branch that was rebased
\* onto exactly that commit, so the tree that was verified is the tree that
\* landed.
LandedAsVerified ==
    \A i \in DOMAIN main : main[i].feature # NoFeature =>
        main[i].second.base = i - 1

\* A feature that counts as merged has its current work on main
\* (completeIntegration, the reconciler's parent check).
MergedIsOnMain ==
    \A f \in Features : features[f].collab = "merged" => OnMain(f)

\* The marker names the feature that integrates, except after a merge was
\* recorded or the feature was cancelled.
MarkerFollowsTrain ==
    HasMarker /\ todo = << >> =>
        features[marker.feature].collab \in {"integrating", "merged", "cancelled"}

\* Work that is on main is not planned again: once a feature's merge has
\* landed the feature is merged or cancelled, whatever happens in between.
LandedNeverReplanned ==
    [][\A f \in Features : OnMain(f) /\ features[f].work = "awaiting_merge"
          => features'[f].work # "replanning"]_vars

\* The train moves on: the feature that integrates lands, is sent back or is
\* cancelled, for as long as the process lives.
IntegrationEnds ==
    \A f \in Features : features[f].collab = "integrating"
                            ~> features[f].collab # "integrating"

=============================================================================
