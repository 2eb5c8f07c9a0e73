--------------------------- MODULE IntegrationProofs ---------------------------
(***************************************************************************)
(* Theorems about Integration: for every set of features, any number of    *)
(* pushes by others, of git errors and of crashes at any point.            *)
(*                                                                         *)
(* The composed system takes only steps of the lifecycle, so the           *)
(* invariants proved there hold here too.  What is added says how main,    *)
(* the feature branches and the marker agree with the run that is going on *)
(* and with each other when no run is.                                     *)
(***************************************************************************)
EXTENDS Integration, FeatureLifecycleProofs

----------------------------------------------------------------------------
(* The inductive invariant *)

\* runIntegration is between two of its awaits.
Landing == {"read", "marked", "rebased", "recorded", "verified", "checked",
            "landed"}

BeforeMerge == Landing \ {"landed"}

\* The branch is rebased, and the merge not made.
Rebased == {"rebased", "recorded", "verified", "checked"}

\* The merge of f with the current work of its branch is commit i.
IsMergeOf(i, f) == /\ main[i].feature = f
                   /\ main[i].second.rev = tip[f].rev

\* Nothing but pushes by others came after the commit the running
\* integration expects, until its own merge did.
RunInv ==
    /\ run.at \in Landing =>
          /\ todo = << >>
          /\ run.feature \in Features
          /\ features[run.feature].work = "awaiting_merge"
          /\ features[run.feature].collab \in {"integrating", "cancelled"}
          /\ run.expected <= Head_
    /\ run.at \in Landing \ {"read"} =>
          /\ marker.feature = run.feature
          /\ marker.expected = run.expected
    /\ run.at \in BeforeMerge =>
          \A i \in DOMAIN main : run.expected < i => main[i].feature = NoFeature
    /\ run.at \in Rebased =>
          tip[run.feature].base \in run.expected..Head_
    /\ run.at = "landed" =>
          /\ run.expected + 1 \in DOMAIN main
          /\ IsMergeOf(run.expected + 1, run.feature)

\* The first commit after the one a marker expects is the merge it announces
\* if it is a merge at all, and its feature does not go back to work.
MarkerInv ==
    HasMarker =>
        /\ marker.feature \in Features
        /\ marker.expected <= Head_
        /\ features[marker.feature].collab
              \in {"integrating", "merged", "cancelled"}
        /\ /\ marker.expected + 1 \in DOMAIN main
           /\ main[marker.expected + 1].feature # NoFeature
           => IsMergeOf(marker.expected + 1, marker.feature)
        /\ features[marker.feature].collab = "integrating" /\ todo # << >>
              => \/ todo[1].feature # marker.feature
                 \/ todo[1].op = "collab" /\ todo[1].collab = "merged"

\* Merges carry the work of a branch, past or present; pushes carry none.
MainInv ==
    /\ LandedAsVerified
    /\ \A i \in DOMAIN main :
          /\ main[i].feature = NoFeature => ~ main[i].second.own
          /\ main[i].feature # NoFeature =>
                main[i].second.rev <= tip[main[i].feature].rev

\* A merge is recorded only for work that is on main.
RecordInv ==
    /\ MergedIsOnMain
    /\ \A i \in DOMAIN todo :
          todo[i].collab = "merged" => OnMain(todo[i].feature)

IntegrationInv ==
    /\ IntegrationTypeOK
    /\ MergedInv
    /\ RunInv
    /\ MarkerInv
    /\ MainInv
    /\ RecordInv

\* While the process lives, work that is on main is merged, about to be
\* recorded as merged, or cancelled.
Landed(f) ==
    \/ features[f].collab \in {"merged", "cancelled"}
    \/ run.at = "landed" /\ run.feature = f
    \/ /\ features[f].collab = "integrating"
       /\ todo # << >>
       /\ todo[1] = MoveTo(f, "merged")

LandedInv ==
    crashes = 0 =>
        /\ run.at \in Landing \cup {"idle"}
        /\ \A f \in Features : OnMain(f) => Landed(f)

----------------------------------------------------------------------------
(* main, tips and the lifecycle *)

\* What a commit appended to main leaves as it was.
LEMMA Grown ==
    ASSUME NEW c \in Commit, main \in Seq(Commit), main' = Append(main, c)
    PROVE  /\ main' \in Seq(Commit)
           /\ Len(main) \in Nat /\ Len(main') = Len(main) + 1
           /\ DOMAIN main = 1..Len(main)
           /\ DOMAIN main' = 1..(Len(main) + 1)
           /\ \A i \in DOMAIN main : main'[i] = main[i]
           /\ main'[Len(main) + 1] = c
  BY AppendProperties

LEMMA TipTypes ==
    ASSUME NEW f \in Features, IntegrationTypeOK
    PROVE  /\ NoTip \in Tip
           /\ tip[f] \in Tip
           /\ RebasedTip(f) \in Tip
           /\ RebasedTip(f).rev = tip[f].rev
           /\ RebasedTip(f).base = Head_
           /\ MergeOf(f) \in Commit
           /\ Pushed \in Commit
  <1> DEFINE moved(o) == [tip[f] EXCEPT !.base = Head_, !.own = o]
  <1>1. tip[f] \in Tip /\ Head_ \in Nat
    BY DEF IntegrationTypeOK, Head_
  <1>2. /\ NoTip \in Tip
        /\ MergeOf(f) \in Commit
        /\ Pushed \in Commit
    BY <1>1 DEF Tip, NoTip, MergeOf, Commit, Pushed, Sha
  <1>3. \A o \in BOOLEAN : /\ moved(o) \in Tip
                           /\ moved(o).rev = tip[f].rev
                           /\ moved(o).base = Head_
    BY <1>1 DEF Tip, Sha
  <1>4. tip[f].own \in BOOLEAN
    BY <1>1 DEF Tip
  <1>5. (tip[f].own /\ ~ OnMain(f)) \in BOOLEAN
    OBVIOUS
  <1>6. RebasedTip(f) = moved(tip[f].own /\ ~ OnMain(f))
    BY Zenon DEF RebasedTip
  <1> HIDE DEF moved
  <1> QED BY <1>1, <1>2, <1>3, <1>5, <1>6

\* The merge that update-ref installs is the next commit of main.
LEMMA UpdateRefAppends ==
    ASSUME IntegrationInv, UpdateRef
    PROVE  /\ main' = Append(main, MergeOf(run.feature))
           /\ run.feature \in Features
           /\ MergeOf(run.feature) \in Commit
           /\ run.expected = Len(main)
           /\ tip[run.feature].base = Len(main)
  <1>1. /\ run.feature \in Features
        /\ main \in Seq(Commit)
        /\ Len(main) \in Nat
        /\ run.expected = Len(main)
        /\ tip[run.feature].base \in run.expected..Len(main)
    BY DEF IntegrationInv, IntegrationTypeOK, RunInv, UpdateRef, At, LeaseHolds,
           Head_, Landing, Rebased
  <1>2. MergeOf(run.feature) \in Commit
    BY <1>1, TipTypes DEF IntegrationInv
  <1>3. SubSeq(main, 1, run.expected) = main
    BY <1>1, SubSeqFull
  <1>4. main' = main \o << MergeOf(run.feature) >>
    BY <1>3 DEF UpdateRef, MainAfterUpdateRef
  <1> QED BY <1>1, <1>2, <1>4, AppendIsConcat

\* main grows by a merge or by a push.
LEMMA MainGrows ==
    ASSUME IntegrationInv, IntegrationNext
    PROVE  \/ main' = main
           \/ /\ UpdateRef
              /\ main' = Append(main, MergeOf(run.feature))
              /\ MergeOf(run.feature) \in Commit
           \/ /\ SomeonePushes
              /\ main' = Append(main, Pushed)
              /\ Pushed \in Commit
  <1>1. CASE UpdateRef
    BY <1>1, UpdateRefAppends
  <1>2. CASE SomeonePushes
    BY <1>2 DEF SomeonePushes, Pushed, Commit, NoTip, Tip, Sha
  <1>3. CASE ~ UpdateRef /\ ~ SomeonePushes
    BY <1>3
       DEF IntegrationNext, RunStep, Reconcile, WriteMarker, Rebase,
           RebaseConflicts, RecordRebasedTip, VerificationPasses,
           VerificationFails, MainUnmoved, MainMoved, MergeTreeConflicts,
           LeaseFails, RecordMerge, RecordMergeThrows, ReconcileIdle,
           ReconcileRetry, ReconcileCompletes, ReconcileClears,
           ReconcileThrows, ReconcileHalts, GitThrows, ReconcileGitThrows,
           HandlerWrites, ProcessDies, ReadMain, SelectNext, OtherHandlers,
           RecoveryReplays, TasksLand, UserCancels, GiveUp, Silent, gitVars
  <1> QED BY <1>1, <1>2, <1>3

\* The steps that change no feature and start no handler.
Quiet == \/ WriteMarker \/ Rebase \/ RecordRebasedTip \/ VerificationPasses
         \/ MainUnmoved \/ UpdateRef \/ RecordMergeThrows
         \/ ReconcileIdle \/ ReconcileRetry \/ ReconcileClears
         \/ ReconcileThrows \/ ReconcileHalts
         \/ GitThrows \/ ReconcileGitThrows \/ SomeonePushes
         \/ \E f \in Features : ReadMain(f)

\* The steps that give an integration up.
GivesUp == \/ RebaseConflicts \/ VerificationFails \/ MainMoved
           \/ MergeTreeConflicts \/ LeaseFails

LEMMA QuietSteps ==
    ASSUME Quiet
    PROVE  UNCHANGED lifecycleVars
  BY DEF Quiet, WriteMarker, Rebase, RecordRebasedTip, VerificationPasses,
         MainUnmoved, UpdateRef, RecordMergeThrows, ReconcileIdle,
         ReconcileRetry, ReconcileClears, ReconcileThrows, ReconcileHalts,
         GitThrows, ReconcileGitThrows, SomeonePushes, ReadMain, Silent

\* An integration is given up only from between two awaits, before its merge.
LEMMA GivesUpSteps ==
    ASSUME IntegrationInv, GivesUp
    PROVE  /\ run.at \in BeforeMerge
           /\ run.feature \in Features
           /\ features[run.feature].work = "awaiting_merge"
           /\ features[run.feature].collab \in {"integrating", "cancelled"}
           /\ IntegrationFails(run.feature)
           /\ marker' = NoMarker
           /\ run' = Idle
           /\ UNCHANGED << main, tip, pushes, gitErrors >>
  <1>1. /\ run.at \in BeforeMerge
        /\ GiveUp(run.feature)
    BY DEF GivesUp, RebaseConflicts, VerificationFails, MainMoved,
           MergeTreeConflicts, LeaseFails, At, BeforeMerge, Landing
  <1>2. /\ run.feature \in Features
        /\ features[run.feature].work = "awaiting_merge"
        /\ features[run.feature].collab \in {"integrating", "cancelled"}
    BY <1>1 DEF IntegrationInv, RunInv, BeforeMerge
  <1> QED BY <1>1, <1>2 DEF GiveUp, IntegrationFails, Integrated

\* The steps that complete an integration.
LEMMA CompletesSteps ==
    ASSUME IntegrationInv, RecordMerge \/ ReconcileCompletes
    PROVE  LET f == IF RecordMerge THEN run.feature ELSE marker.feature
           IN  f \in Features /\ IntegrationLands(f)
  <1>1. CASE RecordMerge
    <2>1. /\ run.feature \in Features
          /\ features[run.feature].collab \in {"integrating", "cancelled"}
          /\ features[run.feature].collab # "cancelled"
      BY <1>1 DEF IntegrationInv, RunInv, RecordMerge, At, Landing, Editable
    <2> QED BY <1>1, <2>1 DEF RecordMerge, IntegrationLands, Integrated
  <1>2. CASE ReconcileCompletes
    <2>1. /\ marker.feature \in Features
          /\ features[marker.feature].collab
                \in {"integrating", "merged", "cancelled"}
          /\ features[marker.feature].collab # "cancelled"
      BY <1>2 DEF IntegrationInv, MarkerInv, ReconcileCompletes, Editable
    <2>2. IntegrationLands(marker.feature)
      BY <1>2, <2>1 DEF ReconcileCompletes, IntegrationLands, Integrated
    <2>3. RecordMerge => /\ run.feature \in Features
                         /\ IntegrationLands(run.feature)
      BY <1>2 DEF RecordMerge, ReconcileCompletes, At
    <2> QED BY <2>1, <2>2, <2>3
  <1> QED BY <1>1, <1>2

\* Every step does to the features what a handler of the lifecycle does.
LEMMA LifecycleStep ==
    ASSUME IntegrationInv, [IntegrationNext]_vars
    PROVE  [Next]_lifecycleVars
  <1>1. CASE Quiet
    BY <1>1, QuietSteps
  <1>2. CASE GivesUp
    BY <1>2, GivesUpSteps DEF Next, IntegrationOutcome
  <1>3. CASE RecordMerge \/ ReconcileCompletes
    BY <1>3, CompletesSteps DEF Next, IntegrationOutcome
  <1>4. CASE HandlerWrites \/ ProcessDies
    BY <1>4 DEF HandlerWrites, ProcessDies, Next
  <1>5. ASSUME NEW f \in Features,
               \/ SelectNext(f) \/ OtherHandlers(f) \/ RecoveryReplays(f)
               \/ TasksLand(f) \/ UserCancels(f)
        PROVE  Next
    BY <1>5 DEF SelectNext, OtherHandlers, RecoveryReplays, TasksLand,
                UserCancels, Next, PhaseStep
  <1>6. CASE UNCHANGED vars
    BY <1>6 DEF vars
  <1> QED BY <1>1, <1>2, <1>3, <1>4, <1>5, <1>6
          DEF IntegrationNext, RunStep, Reconcile, Quiet, GivesUp

LEMMA LandedTip ==
    ASSUME NEW f \in Features, IntegrationTypeOK, TasksLand(f)
    PROVE  /\ tip' \in [Features -> Tip]
           /\ tip'[f].rev = tip[f].rev + 1
           /\ tip[f].rev \in Nat
           /\ \A g \in Features \ {f} : tip'[g] = tip[g]
  <1>1. /\ tip \in [Features -> Tip]
        /\ tip' = [tip EXCEPT ![f] = [tip[f] EXCEPT !.rev = tip[f].rev + 1,
                                                    !.own = TRUE]]
    BY DEF IntegrationTypeOK, TasksLand
  <1>2. tip[f] \in Tip /\ tip[f].rev \in Nat
    BY <1>1 DEF Tip
  <1>3. \A n \in Nat : /\ [tip[f] EXCEPT !.rev = n, !.own = TRUE] \in Tip
                       /\ [tip[f] EXCEPT !.rev = n, !.own = TRUE].rev = n
    BY <1>2 DEF Tip
  <1>4. tip[f].rev + 1 \in Nat
    BY <1>2
  <1> QED BY <1>1, <1>2, <1>3, <1>4

\* A rebase moves one branch, and not to other work.
LEMMA RebaseMoves ==
    ASSUME IntegrationInv, Rebase
    PROVE  /\ run.feature \in Features
           /\ tip' \in [Features -> Tip]
           /\ \A g \in Features : /\ tip'[g].rev = tip[g].rev
                                  /\ g # run.feature => tip'[g] = tip[g]
           /\ tip'[run.feature].base = Head_
  <1>1. /\ run.feature \in Features
        /\ tip \in [Features -> Tip]
        /\ tip' = [tip EXCEPT ![run.feature] = RebasedTip(run.feature)]
    BY DEF IntegrationInv, IntegrationTypeOK, RunInv, Rebase, At, Landing
  <1>2. /\ RebasedTip(run.feature) \in Tip
        /\ RebasedTip(run.feature).rev = tip[run.feature].rev
        /\ RebasedTip(run.feature).base = Head_
    BY <1>1, TipTypes DEF IntegrationInv
  <1> QED BY <1>1, <1>2

\* Branches only gain work.
LEMMA TipsGrow ==
    ASSUME IntegrationInv, IntegrationNext
    PROVE  /\ tip' \in [Features -> Tip]
           /\ \A f \in Features :
                 /\ tip[f].rev \in Nat /\ tip'[f].rev \in Nat
                 /\ tip[f].rev <= tip'[f].rev
                 /\ tip'[f].rev # tip[f].rev => TasksLand(f)
  <1>0. /\ tip \in [Features -> Tip]
        /\ \A f \in Features : tip[f].rev \in Nat
    BY DEF IntegrationInv, IntegrationTypeOK, Tip
  <1>1. CASE Rebase
    BY <1>0, <1>1, RebaseMoves
  <1>2. ASSUME NEW f \in Features, TasksLand(f)
        PROVE  /\ tip' \in [Features -> Tip]
               /\ \A g \in Features :
                     /\ tip[g].rev \in Nat /\ tip'[g].rev \in Nat
                     /\ tip[g].rev <= tip'[g].rev
                     /\ tip'[g].rev # tip[g].rev => TasksLand(g)
    <2>1. IntegrationTypeOK
      BY DEF IntegrationInv
    <2>2. /\ tip' \in [Features -> Tip]
          /\ tip'[f].rev = tip[f].rev + 1
          /\ \A g \in Features \ {f} : tip'[g] = tip[g]
      BY <1>2, <2>1, LandedTip
    <2>3. ASSUME NEW g \in Features
          PROVE  /\ tip[g].rev \in Nat /\ tip'[g].rev \in Nat
                 /\ tip[g].rev <= tip'[g].rev
                 /\ tip'[g].rev # tip[g].rev => TasksLand(g)
      <3>1. CASE g = f
        BY <1>0, <1>2, <2>2, <3>1
      <3>2. CASE g # f
        BY <1>0, <2>2, <3>2
      <3> QED BY <3>1, <3>2
    <2> QED BY <2>2, <2>3
  <1>3. CASE ~ Rebase /\ \A f \in Features : ~ TasksLand(f)
    <2>1. UNCHANGED tip
      BY <1>3
         DEF IntegrationNext, RunStep, Reconcile, WriteMarker, RebaseConflicts,
             RecordRebasedTip, VerificationPasses, VerificationFails,
             MainUnmoved, MainMoved, MergeTreeConflicts, UpdateRef, LeaseFails,
             RecordMerge, RecordMergeThrows, ReconcileIdle, ReconcileRetry,
             ReconcileCompletes, ReconcileClears, ReconcileThrows,
             ReconcileHalts, GitThrows, ReconcileGitThrows, HandlerWrites,
             SomeonePushes, ProcessDies, ReadMain, SelectNext, OtherHandlers,
             RecoveryReplays, UserCancels, GiveUp, Silent, gitVars
    <2> QED BY <1>0, <2>1
  <1> QED BY <1>1, <1>2, <1>3

\* Work stays on main until the branch gains new work.
LEMMA StaysOnMain ==
    ASSUME IntegrationInv, IntegrationNext, NEW f \in Features, OnMain(f),
           tip'[f].rev = tip[f].rev
    PROVE  OnMain(f)'
  <1>1. main \in Seq(Commit)
    BY DEF IntegrationInv, IntegrationTypeOK
  <1>2. CASE main' = main
    BY <1>2 DEF OnMain
  <1>3. ASSUME NEW c \in Commit, main' = Append(main, c)
        PROVE  OnMain(f)'
    <2>1. /\ DOMAIN main \subseteq DOMAIN main'
          /\ \A i \in DOMAIN main : main'[i] = main[i]
      BY <1>1, <1>3, Grown
    <2> QED BY <2>1 DEF OnMain
  <1> QED BY <1>2, <1>3, MainGrows

LEMMA MarkersAndRuns ==
    ASSUME IntegrationInv, IntegrationNext
    PROVE  /\ marker' \in Marker /\ run' \in Run
           /\ pushes' \in 0..MaxPushes /\ gitErrors' \in 0..MaxGitErrors
  <1>1. /\ marker \in Marker /\ run \in Run
        /\ pushes \in 0..MaxPushes /\ gitErrors \in 0..MaxGitErrors
        /\ tip \in [Features -> Tip]
        /\ Head_ \in Nat
    BY DEF IntegrationInv, IntegrationTypeOK, Head_
  <1>2. NoMarker \in Marker
    BY DEF NoMarker, Marker, NoTip, Tip, Sha
  <1>3. \A s \in Stage : /\ NotRunning(s) \in Run
                         /\ [run EXCEPT !.at = s] \in Run
    BY <1>1 DEF NotRunning, Run, Sha
  <1>4. \A s \in {"marked", "rebased", "recorded", "verified", "checked",
                  "landed", "reconciling", "boot", "idle", "aborted"} :
           s \in Stage
    BY DEF Stage
  <1>5. Idle \in Run
    BY <1>3, <1>4 DEF Idle
  <1>6. CASE WriteMarker
    <2>1. run.feature \in Features /\ run.expected \in Sha
      BY <1>1, <1>6 DEF IntegrationInv, RunInv, WriteMarker, At, Landing, Run
    <2>2. [feature |-> run.feature, expected |-> run.expected,
           pre |-> tip[run.feature], post |-> NoTip] \in Marker
      BY <1>1, <2>1 DEF Marker, NoTip, Tip, Sha
    <2> QED BY <1>1, <1>3, <1>4, <1>6, <2>2 DEF WriteMarker, Goto, Silent
  <1>7. CASE RecordRebasedTip
    <2>1. run.feature \in Features
      BY <1>7 DEF IntegrationInv, RunInv, RecordRebasedTip, At, Landing
    <2>2. [marker EXCEPT !.post = tip[run.feature]] \in Marker
      BY <1>1, <2>1 DEF Marker
    <2> QED BY <1>1, <1>3, <1>4, <1>7, <2>2 DEF RecordRebasedTip, Goto, Silent
  <1>8. ASSUME NEW f \in Features, ReadMain(f)
        PROVE  /\ marker' \in Marker /\ run' \in Run
               /\ pushes' \in 0..MaxPushes /\ gitErrors' \in 0..MaxGitErrors
    <2>1. [at |-> "read", feature |-> f, expected |-> Head_] \in Run
      BY <1>1 DEF Run, Stage, Sha
    <2> QED BY <1>1, <1>8, <2>1 DEF ReadMain, Silent
  <1>9. CASE \/ Rebase \/ VerificationPasses \/ MainUnmoved \/ UpdateRef
             \/ RecordMerge \/ RecordMergeThrows
    BY <1>1, <1>2, <1>3, <1>4, <1>5, <1>9
       DEF Rebase, VerificationPasses, MainUnmoved, UpdateRef, RecordMerge,
           RecordMergeThrows, Goto, Silent
  <1>10. CASE GivesUp
    BY <1>1, <1>2, <1>5, <1>10, GivesUpSteps
  <1>11. CASE Reconcile
    BY <1>1, <1>2, <1>3, <1>4, <1>5, <1>11
       DEF Reconcile, ReconcileIdle, ReconcileRetry, ReconcileCompletes,
           ReconcileClears, ReconcileThrows, ReconcileHalts, Goto, Silent
  <1>12. CASE GitThrows \/ ReconcileGitThrows \/ SomeonePushes
    <2>1. /\ gitErrors < MaxGitErrors => gitErrors + 1 \in 0..MaxGitErrors
          /\ pushes < MaxPushes => pushes + 1 \in 0..MaxPushes
      BY <1>1, IntegrationBounds
    <2> QED BY <1>1, <1>3, <1>4, <1>5, <1>12, <2>1
            DEF GitThrows, ReconcileGitThrows, SomeonePushes
  <1>13. CASE HandlerWrites \/ ProcessDies
    BY <1>1, <1>3, <1>4, <1>13 DEF HandlerWrites, ProcessDies
  <1>14. ASSUME NEW f \in Features,
                \/ SelectNext(f) \/ OtherHandlers(f) \/ RecoveryReplays(f)
                \/ TasksLand(f) \/ UserCancels(f)
         PROVE  UNCHANGED << marker, run, pushes, gitErrors >>
    BY <1>14 DEF SelectNext, OtherHandlers, RecoveryReplays, TasksLand,
                 UserCancels, gitVars
  <1> QED BY <1>1, <1>6, <1>7, <1>8, <1>9, <1>10, <1>11, <1>12, <1>13, <1>14
          DEF IntegrationNext, RunStep, GivesUp

LEMMA TypesHold ==
    ASSUME IntegrationInv, IntegrationNext
    PROVE  IntegrationTypeOK' /\ MergedInv'
  <1>1. MergedInv'
    BY LifecycleStep, MergedHolds DEF IntegrationInv
  <1>2. TypeOK'
    BY <1>1 DEF MergedInv, TrainInv, LifecycleInv
  <1>3. main' \in Seq(Commit)
    <2>1. main \in Seq(Commit)
      BY DEF IntegrationInv, IntegrationTypeOK
    <2> QED BY <2>1, MainGrows, Grown
  <1> QED BY <1>1, <1>2, <1>3, TipsGrow, MarkersAndRuns DEF IntegrationTypeOK

----------------------------------------------------------------------------
(* What the steps do to handlers and rows *)

\* A handler that starts between two integrations is not about a feature that
\* integrates, and records no merge.
LEMMA HandlerStarts ==
    ASSUME IntegrationInv, NEW f \in Features,
           \/ SelectNext(f) \/ OtherHandlers(f) \/ RecoveryReplays(f)
           \/ TasksLand(f)
    PROVE  /\ run.at \notin Landing
           /\ todo = << >>
           /\ UNCHANGED << features, main, marker, run >>
           /\ todo' # << >> => features[f].collab # "integrating"
           /\ \A i \in DOMAIN todo' : /\ todo'[i].feature = f
                                      /\ todo'[i].collab # "merged"
  <1>0. /\ run.at \notin Landing
        /\ UNCHANGED << main, marker, run >>
    BY DEF SelectNext, OtherHandlers, RecoveryReplays, TasksLand, gitVars,
           Landing
  <1>t. todo = << >>
    BY DEF SelectNext, OtherHandlers, RecoveryReplays, TasksLand, PhaseStep,
           MarkFeaturePhaseRunning, CompleteDiscuss, CompleteResearch,
           ApproveProposal, CiCheckPasses, CiCheckFails, VerifyPasses,
           ReplayVerifyPasses, VerifyFails, TaskWorkFails, EjectFromQueue,
           ReconcilePostMerge, CompleteSummary, OnTaskLanded,
           BeginNextIntegration, ApplyProjectProposal, AddDependency,
           RemoveDependency, Handle
  <1>1. features[f].collab = "integrating"
           => features[f].work = "awaiting_merge"
    BY DEF IntegrationInv, MergedInv, TrainInv, TrainAwaitsMerge, InTrain
  <1>2. CASE \/ MarkFeaturePhaseRunning(f) \/ CompleteDiscuss(f)
             \/ CompleteResearch(f) \/ ApproveProposal(f) \/ OnTaskLanded(f)
             \/ CiCheckPasses(f) \/ CiCheckFails(f) \/ VerifyFails(f)
             \/ TaskWorkFails(f) \/ EjectFromQueue(f)
             \/ ReconcilePostMerge(f) \/ CompleteSummary(f)
    <2>1. /\ todo' \in Seq(OwnWrites(f))
          /\ UNCHANGED features
      BY <1>2, OwnHandlers DEF OwnHandler
    <2>2. features[f].collab # "integrating"
      BY <1>1, <1>2
         DEF MarkFeaturePhaseRunning, ReadyFeature, CompleteDiscuss,
             CompleteResearch, ApproveProposal, OnTaskLanded, CiCheckPasses,
             CiCheckFails, VerifyFails, TaskWorkFails, EjectFromQueue,
             ReconcilePostMerge, CompleteSummary, Reports
    <2>3. \A i \in DOMAIN todo' : todo'[i] \in OwnWrites(f)
      BY <2>1
    <2> QED BY <1>0, <1>t, <2>1, <2>2, <2>3 DEF OwnWrites
  <1>3. CASE Queues(f)
    <2>1. UNCHANGED features
      BY <1>3 DEF Queues, VerifyPasses, ReplayVerifyPasses, Handle
    <2>2. features[f].collab # "integrating"
      BY <1>1, <1>3 DEF Queues, VerifyPasses, ReplayVerifyPasses, Reports
    <2> DEFINE a == W(f, "start")
               b == W(f, "done")
               c == Write(f, "advance", "awaiting_merge", Keep)
               d == W(f, "clear_conflict")
               e == W(f, "enqueue")
               g == W(f, "stamp")
               h == W(f, "forget")
    <2>3. \/ todo' = << a, b, c, d, e, g >>
          \/ todo' = << a, b, c, d, e, g, h >>
      BY <1>3, EnterTrainIs
         DEF Queues, VerifyPasses, ReplayVerifyPasses, Handle
    <2>4. \A x \in {a, b, c, d, e, g, h} : x.feature = f /\ x.collab = Keep
      BY DEF W, Write
    <2> HIDE DEF a, b, c, d, e, g, h
    <2>5. \A i \in DOMAIN todo' : todo'[i] \in {a, b, c, d, e, g, h}
      BY <2>3
    <2> QED BY <1>0, <1>t, <2>1, <2>2, <2>4, <2>5 DEF Keep
  <1>4. CASE BeginNextIntegration(f)
    <2> DEFINE a == W(f, "start")
               b == W(f, "begin")
    <2>1. /\ todo' = << a, b >>
          /\ UNCHANGED features
          /\ features[f].collab # "integrating"
      BY <1>4 DEF BeginNextIntegration, Handle, NextToIntegrate, Queued
    <2>2. \A x \in {a, b} : x.feature = f /\ x.collab = Keep
      BY DEF W, Write
    <2> HIDE DEF a, b
    <2>3. \A i \in DOMAIN todo' : todo'[i] \in {a, b}
      BY <2>1
    <2> QED BY <1>0, <1>t, <2>1, <2>2, <2>3 DEF Keep
  <1>5. CASE ApplyProjectProposal(f)
    <2>1. todo' = << >> /\ UNCHANGED features
      BY <1>5 DEF ApplyProjectProposal, AddDependency, RemoveDependency
    <2> QED BY <1>0, <1>t, <2>1
  <1> QED BY <1>2, <1>3, <1>4, <1>5
          DEF SelectNext, OtherHandlers, RecoveryReplays, TasksLand, PhaseStep,
              Queues

\* A write of a handler changes its own row only, and makes a row merged only
\* when it says so.
LEMMA WriteMade ==
    ASSUME IntegrationInv, TakeWrite
    PROVE  /\ todo # << >>
           /\ run.at \notin Landing
           /\ 1 \in DOMAIN todo
           /\ \A g \in Features :
                 /\ todo[1].feature # g => features'[g] = features[g]
                 /\ features[g].collab \in {"merged", "cancelled"}
                       => features'[g].collab = features[g].collab
                 /\ features'[g].collab = "merged"
                    /\ features[g].collab # "merged"
                       => todo[1].feature = g /\ todo[1].collab = "merged"
                 /\ /\ todo[1].feature = g
                    /\ todo[1].op = "collab" /\ todo[1].collab = "merged"
                    => \/ features'[g].collab = "merged"
                       \/ RefuseWrite /\ todo' = << >> /\ features' = features
           /\ \A i \in DOMAIN todo' : /\ i + 1 \in DOMAIN todo
                                      /\ todo'[i] = todo[i + 1]
                                      /\ todo'[i].feature = todo[1].feature
  <1>w. PICK w : w = Head(todo)
    OBVIOUS
  <1>f. PICK f : f = w.feature
    OBVIOUS
  <1> DEFINE row == features[f]
             new == NewRow(w, row)
  <1>1. /\ \A g \in Features : features[g] \in FeatureRow
        /\ features \in [Features -> FeatureRow]
        /\ entrySeq \in Nat /\ clock \in Nat
        /\ todo \in Seq(ProperWrites)
        /\ \A i, j \in DOMAIN todo : todo[i].feature = todo[j].feature
    BY DEF IntegrationInv, MergedInv, TrainInv, LifecycleInv, TypeOK, InOrder
  <1>2. todo # << >>
    BY DEF TakeWrite, SkipWrite, CommitWrite, RefuseWrite
  <1>3. run.at \notin Landing
    BY <1>2 DEF IntegrationInv, RunInv
  <1>4. /\ 1 \in DOMAIN todo /\ w = todo[1] /\ w \in ProperWrites
        /\ f = todo[1].feature
        /\ f \in Features
    <2>1. 1 \in DOMAIN todo /\ w = todo[1] /\ w \in ProperWrites
      BY <1>w, <1>1, <1>2
    <2> QED BY <1>f, <2>1 DEF ProperWrites, Writes
  <1>5. todo' = << >> \/ todo' = Tail(todo)
    BY DEF TakeWrite, SkipWrite, CommitWrite, RefuseWrite
  <1>6. \A i \in DOMAIN todo' : /\ i + 1 \in DOMAIN todo
                                /\ todo'[i] = todo[i + 1]
                                /\ todo'[i].feature = todo[1].feature
    <2>1. \A i \in DOMAIN todo' : /\ i + 1 \in DOMAIN todo
                                  /\ todo'[i] = todo[i + 1]
      BY <1>1, <1>2, <1>5
    <2> QED BY <1>1, <1>4, <2>1
  <1>7. CASE SkipWrite
    <2>1. UNCHANGED features /\ Skipped(w, row)
      BY <1>w, <1>f, <1>7 DEF SkipWrite
    <2>2. w.op # "collab"
      BY <2>1 DEF Skipped
    <2> QED BY <1>2, <1>3, <1>4, <1>6, <2>1, <2>2
  <1>8. CASE CommitWrite
    <2>1. /\ Accepted(w, row)
          /\ features' = [features EXCEPT ![f] = new]
      BY <1>w, <1>f, <1>8 DEF CommitWrite
    <2>2. /\ features'[f] = new
          /\ row \in FeatureRow
          /\ \A g \in Features \ {f} : features'[g] = features[g]
      BY <1>1, <1>4, <2>1
    <2>3. /\ row.collab \in {"merged", "cancelled"} => new.collab = row.collab
          /\ new.collab = "merged" /\ row.collab # "merged"
                => w.collab = "merged"
      BY <1>1, <1>4, <2>1, <2>2, MergedRows
    <2>4. w.op = "collab" /\ w.collab = "merged" => new.collab = "merged"
      BY <2>2 DEF NewRow, Transitioned, Keep, FeatureRow
    <2> HIDE DEF row, new
    <2> QED BY <1>2, <1>3, <1>4, <1>6, <2>2, <2>3, <2>4 DEF row
  <1>9. CASE RefuseWrite
    <2>1. UNCHANGED features /\ todo' = << >>
      BY <1>9 DEF RefuseWrite
    <2> QED BY <1>2, <1>3, <1>4, <1>9, <2>1
  <1> QED BY <1>7, <1>8, <1>9 DEF TakeWrite

LEMMA Cancels ==
    ASSUME IntegrationInv, NEW f \in Features, UserCancels(f)
    PROVE  /\ UNCHANGED << main, tip, marker, run, todo >>
           /\ todo = << >>
           /\ \A g \in Features :
                 /\ features'[g].work = features[g].work
                 /\ \/ features'[g].collab = features[g].collab
                    \/ features'[g].collab = "cancelled"
  <1>1. features \in [Features -> FeatureRow]
    BY DEF IntegrationInv, IntegrationTypeOK, TypeOK
  <1>2. features' = [features EXCEPT ![f].collab = "cancelled"]
    BY DEF UserCancels, CancelFeature
  <1> QED BY <1>1, <1>2 DEF UserCancels, CancelFeature, gitVars, FeatureRow

----------------------------------------------------------------------------
(* The parts of the invariant *)

LEMMA MainHolds ==
    ASSUME IntegrationInv, IntegrationNext
    PROVE  MainInv'
  <1> DEFINE Sound(i, c, t) ==
               /\ c.feature # NoFeature => c.second.base = i - 1
               /\ c.feature = NoFeature => ~ c.second.own
               /\ c.feature # NoFeature => c.second.rev <= t[c.feature].rev
  <1>1. /\ main \in Seq(Commit)
        /\ Len(main) \in Nat
        /\ DOMAIN main = 1..Len(main)
        /\ \A i \in DOMAIN main : main[i] \in Commit
    BY DEF IntegrationInv, IntegrationTypeOK
  <1>2. ASSUME NEW i \in DOMAIN main
        PROVE  Sound(i, main[i], tip')
    <2>1. Sound(i, main[i], tip)
      BY DEF IntegrationInv, MainInv, LandedAsVerified
    <2>2. main[i].feature # NoFeature =>
             /\ main[i].feature \in Features
             /\ main[i].second.rev \in Nat
      BY <1>1 DEF Commit, Tip
    <2>3. \A f \in Features : /\ tip[f].rev \in Nat /\ tip'[f].rev \in Nat
                              /\ tip[f].rev <= tip'[f].rev
      BY TipsGrow
    <2>4. ASSUME main[i].feature # NoFeature
          PROVE  main[i].second.rev <= tip'[main[i].feature].rev
      BY <2>1, <2>2, <2>3, <2>4
    <2> QED BY <2>1, <2>4
  <1>3. SUFFICES \A i \in DOMAIN main' : Sound(i, main'[i], tip')
    BY DEF MainInv, LandedAsVerified
  <1>4. CASE UpdateRef
    <2>1. /\ main' = Append(main, MergeOf(run.feature))
          /\ run.feature \in Features
          /\ MergeOf(run.feature) \in Commit
          /\ tip[run.feature].base = Len(main)
          /\ tip' = tip
      BY <1>4, UpdateRefAppends DEF UpdateRef
    <2>2. /\ DOMAIN main' = 1..(Len(main) + 1)
          /\ \A i \in DOMAIN main : main'[i] = main[i]
          /\ main'[Len(main) + 1] = MergeOf(run.feature)
      BY <1>1, <2>1, Grown
    <2>3. /\ MergeOf(run.feature).feature = run.feature
          /\ MergeOf(run.feature).second = tip[run.feature]
          /\ run.feature # NoFeature
          /\ tip[run.feature].rev \in Nat
      BY <2>1, NoFeatureIsNone
         DEF MergeOf, IntegrationInv, IntegrationTypeOK, Tip
    <2>4. Sound(Len(main) + 1, MergeOf(run.feature), tip')
      BY <1>1, <2>1, <2>3
    <2> HIDE DEF Sound
    <2> QED BY <1>1, <1>2, <2>2, <2>4
  <1>5. CASE SomeonePushes
    <2>1. /\ main' = Append(main, Pushed)
          /\ Pushed \in Commit
          /\ tip' = tip
      BY <1>5 DEF SomeonePushes, Pushed, Commit, NoTip, Tip, Sha
    <2>2. /\ DOMAIN main' = 1..(Len(main) + 1)
          /\ \A i \in DOMAIN main : main'[i] = main[i]
          /\ main'[Len(main) + 1] = Pushed
      BY <1>1, <2>1, Grown
    <2>3. Sound(Len(main) + 1, Pushed, tip')
      BY DEF Pushed, NoTip
    <2> HIDE DEF Sound
    <2> QED BY <1>1, <1>2, <2>2, <2>3
  <1>6. CASE ~ UpdateRef /\ ~ SomeonePushes
    <2>1. main' = main
      BY <1>6, MainGrows
    <2> QED BY <1>2, <2>1
  <1> QED BY <1>4, <1>5, <1>6

\* The commit the reconciler recognizes is the merge the marker announces.
LEMMA MarkedMergeIsOnMain ==
    ASSUME IntegrationInv, HasMarker, HeadIsMarkedMerge
    PROVE  marker.feature \in Features /\ OnMain(marker.feature)
  <1>1. /\ main \in Seq(Commit) /\ Len(main) \in Nat
        /\ marker.expected \in Nat
        /\ DOMAIN main = 1..Len(main)
    BY DEF IntegrationInv, IntegrationTypeOK, Marker, Sha
  <1>2. /\ marker.expected + 1 = Len(main)
        /\ marker.expected + 1 \in DOMAIN main
        /\ main[marker.expected + 1].second.own
    BY <1>1 DEF HeadIsMarkedMerge, Head_
  <1>3. main[marker.expected + 1].feature # NoFeature
    BY <1>2 DEF IntegrationInv, MainInv
  <1> QED BY <1>2, <1>3 DEF IntegrationInv, MarkerInv, IsMergeOf, OnMain

\* What completeIntegration writes, and for whom.
LEMMA Completes ==
    ASSUME IntegrationInv, RecordMerge \/ ReconcileCompletes
    PROVE  \E f \in Features :
              /\ OnMain(f)
              /\ todo' = << MoveTo(f, "merged"), W(f, "unstamp") >>
              /\ RecordMerge => run.at = "landed" /\ run.feature = f
              /\ ReconcileCompletes => run.at = "boot" /\ marker.feature = f
              /\ UNCHANGED << features, main, tip >>
  <1>1. CASE RecordMerge
    <2>1. /\ run.at = "landed"
          /\ run.feature \in Features
          /\ run.expected + 1 \in DOMAIN main
          /\ IsMergeOf(run.expected + 1, run.feature)
      BY <1>1 DEF IntegrationInv, RunInv, RecordMerge, At, Landing
    <2>2. OnMain(run.feature)
      BY <2>1 DEF OnMain, IsMergeOf
    <2>3. ~ ReconcileCompletes
      BY <2>1 DEF ReconcileCompletes, At
    <2> QED BY <1>1, <2>1, <2>2, <2>3
            DEF RecordMerge, Handle, CompleteIntegration
  <1>2. CASE ReconcileCompletes
    <2>1. marker.feature \in Features /\ OnMain(marker.feature)
      BY <1>2, MarkedMergeIsOnMain DEF ReconcileCompletes
    <2>2. run.at = "boot" /\ ~ RecordMerge
      BY <1>2 DEF ReconcileCompletes, RecordMerge, At
    <2> QED BY <1>2, <2>1, <2>2
            DEF ReconcileCompletes, Handle, CompleteIntegration
  <1> QED BY <1>1, <1>2

LEMMA RecordHolds ==
    ASSUME IntegrationInv, IntegrationNext
    PROVE  RecordInv'
  <1>0. /\ \A f \in Features : features[f].collab = "merged" => OnMain(f)
        /\ \A i \in DOMAIN todo :
              todo[i].collab = "merged" => OnMain(todo[i].feature)
    BY DEF IntegrationInv, RecordInv, MergedIsOnMain
  <1>t. \A i \in DOMAIN todo : todo[i].feature \in Features
    <2>1. todo \in Seq(Writes)
      BY DEF IntegrationInv, IntegrationTypeOK, TypeOK
    <2>2. \A i \in DOMAIN todo : todo[i] \in Writes
      BY <2>1
    <2> QED BY <2>2 DEF Writes
  <1>1. \A f \in Features : TasksLand(f) => features[f].collab # "merged"
    BY DEF TasksLand, OnTaskLanded, IntegrationInv, MergedInv, MergedOnward
  <1>2. ASSUME \A f \in Features : features'[f].collab = "merged" =>
                  OnMain(f) /\ ~ TasksLand(f),
               \A i \in DOMAIN todo' : todo'[i].collab = "merged" =>
                  /\ todo'[i].feature \in Features
                  /\ OnMain(todo'[i].feature) /\ ~ TasksLand(todo'[i].feature)
        PROVE  RecordInv'
    <2>1. \A f \in Features : OnMain(f) /\ ~ TasksLand(f) => OnMain(f)'
      BY TipsGrow, StaysOnMain
    <2> QED BY <1>2, <2>1 DEF RecordInv, MergedIsOnMain
  <1>3. CASE Quiet
    <2>1. UNCHANGED << features, todo >>
      BY <1>3, QuietSteps DEF lifecycleVars
    <2>2. \A f \in Features : ~ TasksLand(f) \/ tip' = tip
      <3>1. CASE Rebase
        BY <3>1 DEF Rebase, TasksLand, At
      <3>2. CASE ~ Rebase
        BY <1>3, <3>2
           DEF Quiet, WriteMarker, RecordRebasedTip, VerificationPasses,
               MainUnmoved, UpdateRef, RecordMergeThrows, ReconcileIdle,
               ReconcileRetry, ReconcileClears, ReconcileThrows,
               ReconcileHalts, GitThrows, ReconcileGitThrows, SomeonePushes,
               ReadMain, Silent
      <3> QED BY <3>1, <3>2
    <2>3. \A f \in Features : OnMain(f) => OnMain(f)'
      BY <2>2, TipsGrow, StaysOnMain
    <2> QED BY <1>0, <1>t, <2>1, <2>3 DEF RecordInv, MergedIsOnMain
  <1>4. CASE GivesUp
    <2>1. /\ UNCHANGED << features, main, tip >>
          /\ todo' \in Seq(OwnWrites(run.feature))
      BY <1>4, GivesUpSteps, OwnHandlers DEF OwnHandler
    <2>2. \A i \in DOMAIN todo' : todo'[i].collab # "merged"
      BY <2>1 DEF OwnWrites
    <2> QED BY <1>0, <2>1, <2>2 DEF RecordInv, MergedIsOnMain, OnMain
  <1>5. CASE RecordMerge \/ ReconcileCompletes
    <2>1. PICK f \in Features :
             /\ OnMain(f)
             /\ todo' = << MoveTo(f, "merged"), W(f, "unstamp") >>
             /\ UNCHANGED << features, main, tip >>
      BY <1>5, Completes
    <2> DEFINE a == MoveTo(f, "merged")
               b == W(f, "unstamp")
    <2>2. a.feature = f /\ b.feature = f
      BY DEF MoveTo, W, Write
    <2> HIDE DEF a, b
    <2>3. \A i \in DOMAIN todo' : todo'[i].feature = f
      <3>1. todo' = << a, b >>
        BY <2>1 DEF a, b
      <3> QED BY <2>2, <3>1
    <2> QED BY <1>0, <2>1, <2>3 DEF RecordInv, MergedIsOnMain, OnMain
  <1>6. CASE HandlerWrites
    <2>1. TakeWrite /\ UNCHANGED << main, tip >>
      BY <1>6 DEF HandlerWrites
    <2>2. /\ 1 \in DOMAIN todo
          /\ \A g \in Features :
                features'[g].collab = "merged" /\ features[g].collab # "merged"
                   => todo[1].feature = g /\ todo[1].collab = "merged"
          /\ \A i \in DOMAIN todo' : /\ i + 1 \in DOMAIN todo
                                     /\ todo'[i] = todo[i + 1]
      BY <2>1, WriteMade
    <2>3. \A f \in Features : features'[f].collab = "merged" => OnMain(f)
      BY <1>0, <2>2
    <2>4. \A i \in DOMAIN todo' :
             todo'[i].collab = "merged" => OnMain(todo'[i].feature)
      BY <1>0, <2>2
    <2> QED BY <2>1, <2>3, <2>4 DEF RecordInv, MergedIsOnMain, OnMain
  <1>7. CASE ProcessDies
    BY <1>0, <1>7 DEF ProcessDies, Crash, RecordInv, MergedIsOnMain, OnMain
  <1>8. ASSUME NEW f \in Features,
               \/ SelectNext(f) \/ OtherHandlers(f) \/ RecoveryReplays(f)
               \/ TasksLand(f)
        PROVE  RecordInv'
    <2>1. /\ UNCHANGED features
          /\ \A i \in DOMAIN todo' : todo'[i].collab # "merged"
      BY <1>8, HandlerStarts
    <2> QED BY <1>0, <1>1, <1>2, <2>1
  <1>9. ASSUME NEW f \in Features, UserCancels(f)
        PROVE  RecordInv'
    <2>1. /\ UNCHANGED << main, tip, todo >>
          /\ \A g \in Features : \/ features'[g].collab = features[g].collab
                                 \/ features'[g].collab = "cancelled"
      BY <1>9, Cancels
    <2> QED BY <1>0, <2>1 DEF RecordInv, MergedIsOnMain, OnMain
  <1> QED BY <1>3, <1>4, <1>5, <1>6, <1>7, <1>8, <1>9
          DEF IntegrationNext, RunStep, Reconcile, Quiet, GivesUp

\* Nothing is asked of a run that does not land a feature.
LEMMA NothingRuns ==
    ASSUME run'.at \notin Landing
    PROVE  RunInv'
  BY DEF RunInv, Landing, BeforeMerge, Rebased

\* An integration goes from one await to the next.
LEMMA RunMoves ==
    ASSUME IntegrationInv, UNCHANGED lifecycleVars,
           \/ WriteMarker \/ Rebase \/ RecordRebasedTip \/ VerificationPasses
           \/ MainUnmoved
    PROVE  RunInv'
  <1>1. /\ run.at \in Landing /\ run.at # "landed"
        /\ todo = << >>
        /\ run.feature \in Features
        /\ features[run.feature].work = "awaiting_merge"
        /\ features[run.feature].collab \in {"integrating", "cancelled"}
        /\ run.expected <= Head_
        /\ run.at # "read" => /\ marker.feature = run.feature
                              /\ marker.expected = run.expected
        /\ \A i \in DOMAIN main :
              run.expected < i => main[i].feature = NoFeature
    BY DEF IntegrationInv, RunInv, WriteMarker, Rebase, RecordRebasedTip,
           VerificationPasses, MainUnmoved, At, Landing, BeforeMerge
  <1>2. /\ Head_ \in Nat
        /\ run.expected \in Nat
        /\ run \in Run
        /\ marker \in Marker
    BY DEF IntegrationInv, IntegrationTypeOK, Head_, Run, Sha
  <1>3. /\ run'.feature = run.feature
        /\ run'.expected = run.expected
        /\ run'.at \in {"marked", "rebased", "recorded", "verified", "checked"}
        /\ UNCHANGED main
    BY <1>2 DEF WriteMarker, Rebase, RecordRebasedTip, VerificationPasses,
                MainUnmoved, Goto, Silent, Run
  <1>4. /\ marker'.feature = run.feature
        /\ marker'.expected = run.expected
    <2>1. CASE WriteMarker
      BY <2>1 DEF WriteMarker
    <2>2. CASE ~ WriteMarker
      BY <1>1, <1>2, <2>2
         DEF Rebase, RecordRebasedTip, VerificationPasses, MainUnmoved, At,
             Marker
    <2> QED BY <2>1, <2>2
  <1>5. run'.at \in Rebased => tip'[run.feature].base \in run.expected..Head_
    <2>1. CASE WriteMarker
      BY <2>1, <1>2 DEF WriteMarker, Goto, Rebased, Run
    <2>2. CASE Rebase
      BY <1>1, <1>2, <2>2, RebaseMoves
    <2>3. CASE RecordRebasedTip \/ VerificationPasses \/ MainUnmoved
      <3>1. UNCHANGED tip /\ run.at \in Rebased
        BY <2>3 DEF RecordRebasedTip, VerificationPasses, MainUnmoved, At,
                    Silent, Rebased
      <3>2. tip[run.feature].base \in run.expected..Head_
        BY <3>1 DEF IntegrationInv, RunInv
      <3> QED BY <3>1, <3>2
    <2> QED BY <2>1, <2>2, <2>3
  <1> QED BY <1>1, <1>3, <1>4, <1>5
          DEF RunInv, Landing, BeforeMerge, Head_, lifecycleVars

LEMMA RunHolds ==
    ASSUME IntegrationInv, IntegrationNext
    PROVE  RunInv'
  <1>0. /\ main \in Seq(Commit)
        /\ Len(main) \in Nat /\ DOMAIN main = 1..Len(main)
        /\ run \in Run /\ run.expected \in Nat
        /\ \A g \in Features : tip[g] \in Tip
    BY DEF IntegrationInv, IntegrationTypeOK, Run, Sha
  <1>1. CASE \/ WriteMarker \/ Rebase \/ RecordRebasedTip
             \/ VerificationPasses \/ MainUnmoved
    BY <1>1, RunMoves, QuietSteps DEF Quiet
  <1>2. ASSUME NEW f \in Features, ReadMain(f)
        PROVE  RunInv'
    <2>1. /\ run' = [at |-> "read", feature |-> f, expected |-> Head_]
          /\ UNCHANGED << features, todo, main, tip >>
          /\ todo = << >>
          /\ features[f].collab = "integrating"
      BY <1>2 DEF ReadMain, At, Silent, lifecycleVars
    <2>2. features[f].work = "awaiting_merge"
      BY <2>1 DEF IntegrationInv, MergedInv, TrainInv, TrainAwaitsMerge, InTrain
    <2>3. \A i \in DOMAIN main : ~ (Head_ < i)
      BY <1>0 DEF Head_
    <2> QED BY <1>0, <2>1, <2>2, <2>3
            DEF RunInv, Landing, BeforeMerge, Rebased, Head_
  <1>3. CASE UpdateRef
    <2>1. /\ main' = Append(main, MergeOf(run.feature))
          /\ run.feature \in Features
          /\ MergeOf(run.feature) \in Commit
          /\ run.expected = Len(main)
      BY <1>3, UpdateRefAppends
    <2>2. /\ DOMAIN main' = 1..(Len(main) + 1)
          /\ Len(main') = Len(main) + 1
          /\ main'[Len(main) + 1] = MergeOf(run.feature)
      BY <1>0, <2>1, Grown
    <2>3. /\ run'.at = "landed" /\ run'.feature = run.feature
          /\ run'.expected = run.expected
          /\ UNCHANGED << lifecycleVars, tip, marker >>
          /\ run.at = "checked"
      BY <1>0, <1>3 DEF UpdateRef, Goto, Run, At
    <2>4. /\ todo = << >>
          /\ features[run.feature].work = "awaiting_merge"
          /\ features[run.feature].collab \in {"integrating", "cancelled"}
          /\ marker.feature = run.feature
          /\ marker.expected = run.expected
      BY <2>3 DEF IntegrationInv, RunInv, Landing
    <2>5. IsMergeOf(run.expected + 1, run.feature)'
      BY <2>1, <2>2, <2>3 DEF IsMergeOf, MergeOf
    <2> QED BY <1>0, <2>1, <2>2, <2>3, <2>4, <2>5
            DEF RunInv, BeforeMerge, Rebased, Head_, lifecycleVars
  <1>4. CASE SomeonePushes
    <2>1. /\ main' = Append(main, Pushed)
          /\ Pushed \in Commit
          /\ UNCHANGED << features, todo, tip, marker, run >>
      BY <1>4 DEF SomeonePushes, Pushed, Commit, NoTip, Tip, Sha, lifecycleVars
    <2>2. /\ DOMAIN main' = 1..(Len(main) + 1)
          /\ Len(main') = Len(main) + 1
          /\ \A i \in DOMAIN main : main'[i] = main[i]
          /\ main'[Len(main) + 1] = Pushed
      BY <1>0, <2>1, Grown
    <2>3. run.at \in BeforeMerge =>
             \A i \in DOMAIN main' :
                run.expected < i => main'[i].feature = NoFeature
      BY <1>0, <2>2 DEF IntegrationInv, RunInv, Pushed
    <2>4. run.at \in Landing =>
             /\ run.feature \in Features
             /\ run.expected <= Len(main')
      BY <1>0, <2>2 DEF IntegrationInv, RunInv, Head_
    <2>5. run.at \in Rebased =>
             tip[run.feature].base \in run.expected..Len(main')
      <3>1. run.at \in Rebased => /\ run.feature \in Features
                                  /\ tip[run.feature].base \in Nat
        BY <1>0, <2>4 DEF Rebased, Landing, Tip, Sha
      <3> QED BY <1>0, <2>2, <3>1 DEF IntegrationInv, RunInv, Head_
    <2>6. run.at = "landed" => /\ run.expected + 1 \in DOMAIN main'
                               /\ IsMergeOf(run.expected + 1, run.feature)'
      <3>1. run.at = "landed" => /\ run.expected + 1 \in DOMAIN main
                                 /\ IsMergeOf(run.expected + 1, run.feature)
        BY DEF IntegrationInv, RunInv
      <3> QED BY <1>0, <2>1, <2>2, <3>1 DEF IsMergeOf
    <2> QED BY <2>1, <2>3, <2>4, <2>5, <2>6
            DEF IntegrationInv, RunInv, Head_
  <1>5. ASSUME NEW f \in Features, UserCancels(f)
        PROVE  RunInv'
    <2>1. /\ UNCHANGED << main, tip, marker, run, todo >>
          /\ \A g \in Features :
                /\ features'[g].work = features[g].work
                /\ \/ features'[g].collab = features[g].collab
                   \/ features'[g].collab = "cancelled"
      BY <1>5, Cancels
    <2>2. run.at \in Landing =>
             /\ features'[run.feature].work = "awaiting_merge"
             /\ features'[run.feature].collab \in {"integrating", "cancelled"}
      BY <2>1 DEF IntegrationInv, RunInv
    <2> QED BY <2>1, <2>2
            DEF IntegrationInv, RunInv, IsMergeOf, Head_
  <1>6. CASE \/ GivesUp \/ RecordMerge \/ RecordMergeThrows \/ Reconcile
             \/ GitThrows \/ ReconcileGitThrows \/ ProcessDies
    <2>1. Idle.at \notin Landing
      BY DEF Idle, NotRunning, Landing
    <2>2. run'.at \notin Landing
      BY <1>0, <1>6, <2>1, GivesUpSteps
         DEF RecordMerge, RecordMergeThrows, Reconcile, ReconcileIdle,
             ReconcileRetry, ReconcileCompletes, ReconcileClears,
             ReconcileThrows, ReconcileHalts, GitThrows, ReconcileGitThrows,
             ProcessDies, Goto, NotRunning, Landing, Run
    <2> QED BY <2>2, NothingRuns
  <1>7. CASE HandlerWrites
    <2>1. run.at \notin Landing
      BY <1>7, WriteMade DEF HandlerWrites
    <2>2. run' = run \/ run' = NotRunning("aborted")
      BY <1>7 DEF HandlerWrites
    <2>3. run'.at \notin Landing
      BY <2>1, <2>2 DEF NotRunning, Landing
    <2> QED BY <2>3, NothingRuns
  <1>8. ASSUME NEW f \in Features,
               \/ SelectNext(f) \/ OtherHandlers(f) \/ RecoveryReplays(f)
               \/ TasksLand(f)
        PROVE  RunInv'
    <2>1. run'.at \notin Landing
      BY <1>8, HandlerStarts
    <2> QED BY <2>1, NothingRuns
  <1> QED BY <1>1, <1>2, <1>3, <1>4, <1>5, <1>6, <1>7, <1>8
          DEF IntegrationNext, RunStep, GivesUp

\* The merge a marker announces stays the one it announces.
LEMMA MarkedMerge ==
    ASSUME IntegrationInv, IntegrationNext, HasMarker,
           marker'.feature = marker.feature, marker'.expected = marker.expected
    PROVE  /\ marker'.feature \in Features
           /\ marker'.expected <= Len(main')
           /\ /\ marker'.expected + 1 \in DOMAIN main'
              /\ main'[marker'.expected + 1].feature # NoFeature
              => IsMergeOf(marker.expected + 1, marker.feature)'
  <1>f. PICK f : f = marker.feature
    OBVIOUS
  <1>n. PICK next : next = marker.expected + 1
    OBVIOUS
  <1>1. /\ f \in Features
        /\ marker.expected <= Len(main)
        /\ features[f].collab \in {"integrating", "merged", "cancelled"}
        /\ next \in DOMAIN main /\ main[next].feature # NoFeature
              => IsMergeOf(next, f)
    BY <1>f, <1>n DEF IntegrationInv, MarkerInv, Head_
  <1>2. /\ main \in Seq(Commit)
        /\ Len(main) \in Nat /\ DOMAIN main = 1..Len(main)
        /\ marker.expected \in Nat
    BY DEF IntegrationInv, IntegrationTypeOK, Marker, Sha
  <1>3. tip'[f].rev = tip[f].rev
    <2>1. features[f].work = "executing" => features[f].collab = "cancelled"
      BY <1>1 DEF IntegrationInv, MergedInv, TrainInv, TrainAwaitsMerge,
                  InTrain, MergedOnward
    <2>2. ~ TasksLand(f)
      BY <2>1 DEF TasksLand, OnTaskLanded
    <2> QED BY <1>1, <2>2, TipsGrow
  <1>4. CASE main' = main
    BY <1>f, <1>n, <1>1, <1>3, <1>4 DEF IsMergeOf
  <1>5. ASSUME NEW c \in Commit, main' = Append(main, c)
        PROVE  /\ marker.expected <= Len(main')
               /\ next \in DOMAIN main' /\ main'[next].feature # NoFeature
                     => IsMergeOf(next, f)'
    <2>1. /\ DOMAIN main' = 1..(Len(main) + 1)
          /\ Len(main') = Len(main) + 1
          /\ \A i \in DOMAIN main : main'[i] = main[i]
          /\ main'[Len(main) + 1] = c
      BY <1>2, <1>5, Grown
    <2>2. CASE next \in DOMAIN main
      <3>1. main'[next] = main[next]
        BY <2>1, <2>2
      <3>2. marker.expected <= Len(main')
        BY <1>1, <1>2, <2>1
      <3> QED BY <1>1, <1>3, <2>2, <3>1, <3>2 DEF IsMergeOf
    <2>3. CASE next \notin DOMAIN main
      <3>1. /\ marker.expected = Len(main)
            /\ next = Len(main) + 1
        BY <1>n, <1>1, <1>2, <2>3
      <3>2. CASE UpdateRef
        <4>1. /\ main' = Append(main, MergeOf(run.feature))
              /\ MergeOf(run.feature) \in Commit
              /\ run.at = "checked"
          BY <3>2, UpdateRefAppends DEF UpdateRef, At
        <4>2. f = run.feature
          BY <1>f, <4>1 DEF IntegrationInv, RunInv, Landing
        <4>3. main'[next] = MergeOf(f)
          BY <1>2, <3>1, <4>1, <4>2, Grown
        <4> QED BY <1>3, <1>1, <1>2, <2>1, <3>1, <4>3 DEF IsMergeOf, MergeOf
      <3>3. CASE ~ UpdateRef
        <4>1. main' # main
          <5> SUFFICES ASSUME main' = main PROVE FALSE
            OBVIOUS
          <5>1. Len(main) = Len(main) + 1
            BY <2>1
          <5> QED BY ONLY <1>2, <5>1
        <4>2. SomeonePushes
          BY <3>3, <4>1, MainGrows
        <4>3. main' = Append(main, Pushed) /\ Pushed \in Commit
          BY <4>2 DEF SomeonePushes, Pushed, Commit, NoTip, Tip, Sha
        <4>4. main'[next] = Pushed
          BY <1>2, <3>1, <4>3, Grown
        <4> QED BY <1>1, <1>2, <2>1, <3>1, <4>4 DEF Pushed
      <3> QED BY <3>2, <3>3
    <2> QED BY <2>2, <2>3
  <1>6. CASE \E c \in Commit : main' = Append(main, c)
    BY <1>f, <1>n, <1>1, <1>5, <1>6
  <1> QED BY <1>4, <1>6, MainGrows

\* The feature a marker names does not go back to work.
MarkedRow(rows, writes) ==
    LET f == marker.feature
    IN  /\ rows[f].collab \in {"integrating", "merged", "cancelled"}
        /\ rows[f].collab = "integrating" /\ writes # << >>
              => \/ writes[1].feature # f
                 \/ writes[1].op = "collab" /\ writes[1].collab = "merged"

LEMMA MarkedRowHolds ==
    ASSUME IntegrationInv, IntegrationNext, HasMarker,
           ~ GivesUp, ~ RecordMerge
    PROVE  MarkedRow(features', todo')
  <1> DEFINE f == marker.feature
  <1>1. /\ f \in Features
        /\ MarkedRow(features, todo)
    BY DEF IntegrationInv, MarkerInv, MarkedRow
  <1>2. todo \in Seq(Writes) /\ todo' \in Seq(Writes)
    BY TypesHold DEF IntegrationInv, IntegrationTypeOK, TypeOK
  <1>3. todo' # << >> => 1 \in DOMAIN todo'
    BY <1>2
  <1>4. CASE Quiet
    <2>1. UNCHANGED << features, todo >>
      BY <1>4, QuietSteps DEF lifecycleVars
    <2> QED BY <1>1, <2>1
  <1>5. CASE ReconcileCompletes
    <2>1. PICK g \in Features :
             /\ todo' = << MoveTo(g, "merged"), W(g, "unstamp") >>
             /\ UNCHANGED features
      BY <1>5, Completes
    <2>2. /\ MoveTo(g, "merged").op = "collab"
          /\ MoveTo(g, "merged").collab = "merged"
      BY DEF MoveTo, Write
    <2> DEFINE a == MoveTo(g, "merged")
               b == W(g, "unstamp")
    <2> HIDE DEF a, b
    <2>3. todo'[1] = a
      <3>1. todo' = << a, b >>
        BY <2>1 DEF a, b
      <3> QED BY <3>1
    <2> QED BY <1>1, <2>1, <2>2, <2>3 DEF MarkedRow, a
  <1>6. CASE HandlerWrites
    <2>1. /\ 1 \in DOMAIN todo
          /\ todo # << >>
          /\ todo[1].feature # f => features'[f] = features[f]
          /\ features[f].collab \in {"merged", "cancelled"}
                => features'[f].collab = features[f].collab
          /\ /\ todo[1].feature = f
             /\ todo[1].op = "collab" /\ todo[1].collab = "merged"
             => \/ features'[f].collab = "merged"
                \/ todo' = << >> /\ features' = features
          /\ \A i \in DOMAIN todo' : todo'[i].feature = todo[1].feature
      BY <1>1, <1>6, WriteMade DEF HandlerWrites
    <2>2. CASE features[f].collab \in {"merged", "cancelled"}
      BY <2>1, <2>2 DEF MarkedRow
    <2>3. CASE features[f].collab = "integrating" /\ todo[1].feature # f
      <3>1. todo' # << >> => todo'[1].feature # f
        BY <1>3, <2>1, <2>3
      <3> QED BY <2>1, <2>3, <3>1 DEF MarkedRow
    <2>4. CASE features[f].collab = "integrating" /\ todo[1].feature = f
      <3>1. todo[1].op = "collab" /\ todo[1].collab = "merged"
        BY <1>1, <2>1, <2>4 DEF MarkedRow
      <3> QED BY <2>1, <2>4, <3>1 DEF MarkedRow
    <2> QED BY <1>1, <2>2, <2>3, <2>4 DEF MarkedRow
  <1>7. CASE ProcessDies
    BY <1>1, <1>7 DEF ProcessDies, Crash, MarkedRow
  <1>8. ASSUME NEW g \in Features,
               \/ SelectNext(g) \/ OtherHandlers(g) \/ RecoveryReplays(g)
               \/ TasksLand(g)
        PROVE  MarkedRow(features', todo')
    <2>1. /\ UNCHANGED features
          /\ todo' # << >> => features[g].collab # "integrating"
          /\ \A i \in DOMAIN todo' : todo'[i].feature = g
      BY <1>8, HandlerStarts
    <2> QED BY <1>1, <1>3, <2>1 DEF MarkedRow
  <1>9. ASSUME NEW g \in Features, UserCancels(g)
        PROVE  MarkedRow(features', todo')
    <2>1. /\ todo = << >> /\ UNCHANGED todo
          /\ \/ features'[f].collab = features[f].collab
             \/ features'[f].collab = "cancelled"
      BY <1>1, <1>9, Cancels
    <2> QED BY <1>1, <2>1 DEF MarkedRow
  <1> QED BY <1>4, <1>5, <1>6, <1>7, <1>8, <1>9
          DEF IntegrationNext, RunStep, Reconcile, Quiet, GivesUp

LEMMA MarkerHolds ==
    ASSUME IntegrationInv, IntegrationNext
    PROVE  MarkerInv'
  <1> SUFFICES ASSUME marker' # NoMarker PROVE MarkerInv'
    BY DEF MarkerInv, HasMarker
  <1>1. CASE WriteMarker
    <2>1. /\ run.at = "read"
          /\ marker'.feature = run.feature
          /\ marker'.expected = run.expected
          /\ UNCHANGED << features, todo, main, tip >>
      BY <1>1 DEF WriteMarker, At, Silent, lifecycleVars
    <2>2. /\ todo = << >>
          /\ run.feature \in Features
          /\ features[run.feature].collab \in {"integrating", "cancelled"}
          /\ run.expected <= Head_
          /\ \A i \in DOMAIN main :
                run.expected < i => main[i].feature = NoFeature
      BY <2>1 DEF IntegrationInv, RunInv, Landing, BeforeMerge
    <2>3. run.expected \in Nat
      BY DEF IntegrationInv, IntegrationTypeOK, Run, Sha
    <2>4. run.expected + 1 \in DOMAIN main =>
             main[run.expected + 1].feature = NoFeature
      BY <2>2, <2>3
    <2> QED BY <2>1, <2>2, <2>4 DEF MarkerInv, Head_
  <1>2. CASE ~ WriteMarker
    <2>1. /\ HasMarker
          /\ marker'.feature = marker.feature
          /\ marker'.expected = marker.expected
          /\ ~ GivesUp /\ ~ RecordMerge
      <3>0. NoMarker.feature = NoFeature /\ marker \in Marker
        BY DEF NoMarker, IntegrationInv, IntegrationTypeOK
      <3>1. ~ GivesUp /\ ~ RecordMerge
        BY GivesUpSteps DEF RecordMerge
      <3>2. CASE RecordRebasedTip
        <4>1. /\ run.at = "rebased"
              /\ marker' = [marker EXCEPT !.post = tip[run.feature]]
          BY <3>2 DEF RecordRebasedTip, At
        <4>2. marker.feature = run.feature /\ run.feature \in Features
          BY <4>1 DEF IntegrationInv, RunInv, Landing
        <4>3. HasMarker
          BY <3>0, <4>2, NoFeatureIsNone DEF HasMarker
        <4> QED BY <3>0, <3>1, <4>1, <4>3 DEF Marker
      <3>3. CASE ~ RecordRebasedTip
        <4>1. marker' = marker
          BY <1>2, <3>1, <3>3
             DEF IntegrationNext, RunStep, Reconcile, Rebase, GivesUp,
                 VerificationPasses, MainUnmoved, UpdateRef, RecordMergeThrows,
                 ReconcileIdle, ReconcileRetry, ReconcileCompletes,
                 ReconcileClears, ReconcileThrows, ReconcileHalts, GitThrows,
                 ReconcileGitThrows, HandlerWrites, SomeonePushes, ProcessDies,
                 ReadMain, SelectNext, OtherHandlers, RecoveryReplays,
                 TasksLand, UserCancels, gitVars
        <4> QED BY <3>1, <4>1 DEF HasMarker
      <3> QED BY <3>2, <3>3
    <2>2. /\ marker'.feature \in Features
          /\ marker'.expected <= Len(main')
          /\ /\ marker'.expected + 1 \in DOMAIN main'
             /\ main'[marker'.expected + 1].feature # NoFeature
             => IsMergeOf(marker.expected + 1, marker.feature)'
      BY <2>1, MarkedMerge
    <2>3. MarkedRow(features', todo')
      BY <2>1, MarkedRowHolds
    <2>4. MarkerInv'
      BY <2>1, <2>2, <2>3 DEF MarkerInv, MarkedRow, Head_
    <2> QED BY <2>4
  <1> QED BY <1>1, <1>2

LEMMA IntegrationStarts == IntegrationInit => IntegrationInv
  <1> SUFFICES ASSUME IntegrationInit PROVE IntegrationInv
    OBVIOUS
  <1>1. /\ todo = << >> /\ main = << >> /\ marker = NoMarker /\ run = Idle
        /\ \A f \in Features : /\ features[f].work = "verifying"
                               /\ features[f].collab = "branch_open"
    BY DEF IntegrationInit
  <1>2. TypeOK
    <2>1. ASSUME NEW f \in Features
          PROVE  features[f] \in FeatureRow
      BY ManualPositionType
         DEF IntegrationInit, FeatureRow, WorkControl, UnitStatus, CollabControl
    <2>2. features \in [Features -> FeatureRow]
      BY <2>1 DEF IntegrationInit
    <2> QED BY <2>2, DependsOnType, BoundsType DEF TypeOK, IntegrationInit
  <1>3. MergedInv
    BY <1>1, <1>2
       DEF MergedInv, MergedOnward, TrainInv, InOrder, TrainAwaitsMerge,
           InTrain, LifecycleInv, TodoShape, TodoPlain, AtMostOneIntegrating
  <1>4. IntegrationTypeOK
    <2>1. /\ tip \in [Features -> Tip]
          /\ pushes \in 0..MaxPushes /\ gitErrors \in 0..MaxGitErrors
      BY IntegrationBounds DEF IntegrationInit, Tip, Sha
    <2>2. marker \in Marker /\ run \in Run
      BY <1>1
         DEF NoMarker, Marker, NoTip, Tip, Sha, Idle, NotRunning, Run, Stage
    <2>3. main \in Seq(Commit)
      BY <1>1
    <2> QED BY <1>2, <2>1, <2>2, <2>3 DEF IntegrationTypeOK
  <1>5. RunInv
    BY <1>1 DEF RunInv, Idle, NotRunning, Landing, BeforeMerge, Rebased
  <1>6. MarkerInv
    BY <1>1 DEF MarkerInv, HasMarker
  <1>7. MainInv /\ RecordInv
    BY <1>1 DEF MainInv, LandedAsVerified, RecordInv, MergedIsOnMain
  <1> QED BY <1>3, <1>4, <1>5, <1>6, <1>7 DEF IntegrationInv

LEMMA IntegrationHolds ==
    IntegrationInv /\ [IntegrationNext]_vars => IntegrationInv'
  <1>1. CASE IntegrationNext
    BY <1>1, TypesHold, RunHolds, MarkerHolds, MainHolds, RecordHolds
       DEF IntegrationInv
  <1>2. CASE UNCHANGED vars
    <2> SUFFICES ASSUME IntegrationInv PROVE IntegrationInv'
      OBVIOUS
    <2>1. MergedInv'
      BY <1>2, MergedHolds DEF IntegrationInv, vars
    <2>2. TypeOK'
      BY <2>1 DEF MergedInv, TrainInv, LifecycleInv
    <2>3. /\ UNCHANGED << features, todo, main, tip, marker, run, pushes >>
          /\ UNCHANGED gitErrors
      BY <1>2 DEF vars, lifecycleVars, gitVars
    <2>4. IntegrationTypeOK'
      BY <2>2, <2>3 DEF IntegrationInv, IntegrationTypeOK
    <2>5. RunInv'
      BY <2>3 DEF IntegrationInv, RunInv, IsMergeOf, Head_
    <2>6. MarkerInv'
      BY <2>3 DEF IntegrationInv, MarkerInv, IsMergeOf, Head_, HasMarker
    <2>7. MainInv' /\ RecordInv'
      BY <2>3 DEF IntegrationInv, MainInv, LandedAsVerified, RecordInv,
                  MergedIsOnMain, OnMain
    <2> QED BY <2>1, <2>4, <2>5, <2>6, <2>7 DEF IntegrationInv
  <1> QED BY <1>1, <1>2

----------------------------------------------------------------------------
(* Theorems *)

\* In every behaviour main, the branches, the marker, the running integration
\* and the feature table agree.
THEOREM IntegrationInvariant == IntegrationSpec => []IntegrationInv
  BY IntegrationStarts, IntegrationHolds, PTL DEF IntegrationSpec

\* Every variable keeps its type.
THEOREM IntegrationTypes == IntegrationSpec => []IntegrationTypeOK
  <1>1. IntegrationInv => IntegrationTypeOK
    BY DEF IntegrationInv
  <1> QED BY <1>1, IntegrationInvariant, PTL

\* The tree that was verified is the tree that lands, whoever pushes to main
\* while it is verified and wherever the process dies (rebase, the comparison
\* of main with the expected parent, update-ref with the old value).
THEOREM LandsAsVerified == IntegrationSpec => []LandedAsVerified
  <1>1. IntegrationInv => LandedAsVerified
    BY DEF IntegrationInv, MainInv
  <1> QED BY <1>1, IntegrationInvariant, PTL

\* A feature is recorded as merged only when its current work is on main,
\* whether the integration recorded it or the reconciler after a crash
\* (completeIntegration, reconcile).
THEOREM MergedWorkIsOnMain == IntegrationSpec => []MergedIsOnMain
  <1>1. IntegrationInv => MergedIsOnMain
    BY DEF IntegrationInv, RecordInv
  <1> QED BY <1>1, IntegrationInvariant, PTL

\* The marker never names a feature that went back to work, so the reconciler
\* never completes the integration of one (writeIntegrationState,
\* clearIntegrationState).
THEOREM MarkerNamesTheTrain == IntegrationSpec => []MarkerFollowsTrain
  <1>1. IntegrationInv => MarkerFollowsTrain
    BY DEF IntegrationInv, MarkerInv, MarkerFollowsTrain
  <1> QED BY <1>1, IntegrationInvariant, PTL

\* The composed system implements the lifecycle: git, the marker and the
\* reconciler change the features only as the lifecycle's handlers do.
THEOREM ImplementsLifecycle == IntegrationSpec => StepsAreLifecycleSteps
  <1>1. IntegrationInv /\ [IntegrationNext]_vars => [Next]_lifecycleVars
    BY LifecycleStep
  <1> QED BY <1>1, IntegrationInvariant, PTL
          DEF IntegrationSpec, StepsAreLifecycleSteps

\* One feature at a time merges into main, with git and its failures in the
\* picture.
THEOREM OneIntegrationAtATime == IntegrationSpec => []AtMostOneIntegrating
  <1>1. IntegrationInv => AtMostOneIntegrating
    BY DEF IntegrationInv, MergedInv, TrainInv, LifecycleInv
  <1> QED BY <1>1, IntegrationInvariant, PTL

\* No merge replaces what somebody else pushed (update-ref with the old
\* value, never forced).
THEOREM MainIsNeverRewritten == IntegrationSpec => MainOnlyGrows
  <1>1. ASSUME IntegrationInv, IntegrationNext
        PROVE  IsPrefix(main, main')
    <2>1. main \in Seq(Commit) /\ Len(main) \in Nat
      BY <1>1 DEF IntegrationInv, IntegrationTypeOK
    <2>2. CASE main' = main
      BY <2>1, <2>2 DEF IsPrefix
    <2>3. ASSUME NEW c \in Commit, main' = Append(main, c)
          PROVE  IsPrefix(main, main')
      <3>1. main' = main \o << c >>
        BY <2>1, <2>3, AppendIsConcat
      <3>2. /\ << c >> \in Seq(Commit)
            /\ Len(main) + 1 \in Nat
        BY <2>1
      <3>3. SubSeq(main \o << c >>, 1, Len(main)) = SubSeq(main, 1, Len(main))
        BY <2>1, <3>2, SubSeqOfConcat1
      <3>4. Len(main) <= Len(main')
        BY <2>1, <2>3, Grown
      <3> QED BY <3>1, <3>3, <3>4 DEF IsPrefix
    <2> QED BY <1>1, <2>2, <2>3, MainGrows
  <1>2. IntegrationInv /\ [IntegrationNext]_vars
           => [IsPrefix(main, main')]_vars
    BY <1>1
  <1> QED BY <1>2, IntegrationInvariant, PTL
          DEF IntegrationSpec, MainOnlyGrows

----------------------------------------------------------------------------
(* Work on main is not planned again, while the process lives *)

\* Work comes to be on main by a merge only, and new work is not on it.
LEMMA ComesToMain ==
    ASSUME IntegrationInv, IntegrationNext, NEW f \in Features, OnMain(f)'
    PROVE  /\ \/ OnMain(f)
              \/ UpdateRef /\ f = run.feature
           /\ ~ TasksLand(f)
  <1>1. /\ main \in Seq(Commit)
        /\ Len(main) \in Nat /\ DOMAIN main = 1..Len(main)
        /\ tip[f].rev \in Nat /\ f # NoFeature
        /\ \A i \in DOMAIN main : main[i].feature = f =>
              /\ main[i].second.rev \in Nat
              /\ main[i].second.rev <= tip[f].rev
    <2>1. \A i \in DOMAIN main : main[i] \in Commit
      BY DEF IntegrationInv, IntegrationTypeOK
    <2>2. f # NoFeature
      BY NoFeatureIsNone
    <2> QED BY <2>1, <2>2
            DEF IntegrationInv, IntegrationTypeOK, MainInv, Commit, Tip
  <1>2. ~ TasksLand(f)
    <2> SUFFICES ASSUME TasksLand(f) PROVE FALSE
      OBVIOUS
    <2>1. main' = main /\ tip'[f].rev = tip[f].rev + 1
      BY LandedTip DEF TasksLand, IntegrationInv
    <2>2. PICK i \in DOMAIN main : /\ main[i].feature = f
                                   /\ main[i].second.rev = tip[f].rev + 1
      BY <2>1 DEF OnMain
    <2> QED BY <1>1, <2>2
  <1>3. tip'[f].rev = tip[f].rev
    BY <1>2, TipsGrow
  <1>4. CASE main' = main
    BY <1>2, <1>3, <1>4 DEF OnMain
  <1>5. CASE UpdateRef
    <2>1. /\ main' = Append(main, MergeOf(run.feature))
          /\ MergeOf(run.feature) \in Commit
      BY <1>5, UpdateRefAppends
    <2>2. /\ DOMAIN main' = 1..(Len(main) + 1)
          /\ \A i \in DOMAIN main : main'[i] = main[i]
          /\ main'[Len(main) + 1] = MergeOf(run.feature)
      BY <1>1, <2>1, Grown
    <2>3. PICK i \in DOMAIN main' : /\ main'[i].feature = f
                                    /\ main'[i].second.rev = tip[f].rev
      BY <1>3 DEF OnMain
    <2>4. i \in DOMAIN main \/ i = Len(main) + 1
      BY <1>1, <2>2
    <2> QED BY <1>2, <1>5, <2>2, <2>3, <2>4 DEF OnMain, MergeOf
  <1>6. CASE SomeonePushes
    <2>1. main' = Append(main, Pushed) /\ Pushed \in Commit
      BY <1>6 DEF SomeonePushes, Pushed, Commit, NoTip, Tip, Sha
    <2>2. /\ DOMAIN main' = 1..(Len(main) + 1)
          /\ \A i \in DOMAIN main : main'[i] = main[i]
          /\ main'[Len(main) + 1] = Pushed
      BY <1>1, <2>1, Grown
    <2>3. PICK i \in DOMAIN main' : /\ main'[i].feature = f
                                    /\ main'[i].second.rev = tip[f].rev
      BY <1>3 DEF OnMain
    <2>4. i \in DOMAIN main
      BY <1>1, <2>2, <2>3 DEF Pushed
    <2> QED BY <1>2, <2>2, <2>3, <2>4 DEF OnMain
  <1>7. CASE ~ UpdateRef /\ ~ SomeonePushes
    <2>1. main' = main
      BY <1>7, MainGrows
    <2> QED BY <1>4, <2>1
  <1> QED BY <1>5, <1>6, <1>7

\* No guard refuses the record of a merge to a feature that integrates.
LEMMA RecordAccepted ==
    ASSUME NEW f \in Features, features[f] \in FeatureRow,
           features[f].collab = "integrating"
    PROVE  LET w == MoveTo(f, "merged")
           IN  ~ Skipped(w, features[f]) /\ Accepted(w, features[f])
  <1> DEFINE w == MoveTo(f, "merged")
             row == features[f]
             new == Transitioned(w, row)
  <1>1. /\ w.op = "collab" /\ w.work = Keep /\ w.collab = "merged"
        /\ w.feature = f
    BY DEF MoveTo, Write
  <1>2. /\ new.work = row.work /\ new.status = row.status
        /\ new.collab = "merged"
    BY <1>1 DEF Transitioned, FeatureRow, Keep
  <1>3. ValidFeatureTransition(Triple(row), Triple(new))
    BY <1>2 DEF ValidFeatureTransition, ValidFeatureCollab, CollabEdge, Triple
  <1> QED BY <1>1, <1>3 DEF Skipped, Accepted, FieldWrite

LEMMA RecordMade ==
    ASSUME IntegrationInv, TakeWrite, NEW f \in Features,
           features[f].collab = "integrating", todo[1] = MoveTo(f, "merged")
    PROVE  features'[f].collab = "merged"
  <1>w. PICK w : w = MoveTo(f, "merged")
    OBVIOUS
  <1>1. /\ todo # << >> /\ todo \in Seq(Writes)
        /\ w.feature = f /\ w.op = "collab" /\ w.collab = "merged"
    BY <1>w, WriteMade
       DEF IntegrationInv, IntegrationTypeOK, TypeOK, MoveTo, Write
  <1>2. Head(todo) = w
    BY <1>w, <1>1
  <1>3. ~ Skipped(w, features[f]) /\ Accepted(w, features[f])
    BY <1>w, RecordAccepted DEF IntegrationInv, IntegrationTypeOK, TypeOK
  <1>4. ~ RefuseWrite
    BY <1>1, <1>2, <1>3 DEF RefuseWrite
  <1> QED BY <1>w, <1>1, <1>4, WriteMade

\* No write moves a cancelled feature to another phase.
LEMMA CancelledKeepsWork ==
    ASSUME IntegrationInv, TakeWrite, NEW f \in Features,
           features[f].collab = "cancelled"
    PROVE  features'[f].work = features[f].work
  <1>w. PICK w : w = Head(todo)
    OBVIOUS
  <1>1. /\ \A g \in Features : features[g] \in FeatureRow
        /\ features \in [Features -> FeatureRow]
        /\ entrySeq \in Nat /\ clock \in Nat
        /\ todo \in Seq(ProperWrites)
    BY DEF IntegrationInv, MergedInv, TrainInv, LifecycleInv, TypeOK, InOrder
  <1>2. w \in ProperWrites
    <2>1. todo # << >>
      BY WriteMade
    <2> QED BY <1>w, <1>1, <2>1
  <1>3. CASE CommitWrite
    <2>1. /\ Accepted(w, features[w.feature])
          /\ features' = [features EXCEPT
                            ![w.feature] = NewRow(w, features[w.feature])]
      BY <1>w, <1>3 DEF CommitWrite
    <2>2. CASE w.feature = f
      <3>1. NewRow(w, features[f]).work = features[f].work
        BY <1>1, <1>2, <2>1, <2>2, MergedRows
      <3> QED BY <1>1, <2>1, <2>2, <3>1
    <2>3. CASE w.feature # f
      BY <1>1, <2>1, <2>3
    <2> QED BY <2>2, <2>3
  <1>4. CASE SkipWrite \/ RefuseWrite
    BY <1>4 DEF SkipWrite, RefuseWrite
  <1> QED BY <1>3, <1>4 DEF TakeWrite

\* Crashes are only counted up.
LEMMA NoCrashYet ==
    ASSUME IntegrationInv, IntegrationNext, crashes' = 0
    PROVE  crashes = 0 /\ ~ ProcessDies
  <1>1. crashes \in Nat
    BY BoundsType DEF IntegrationInv, IntegrationTypeOK, TypeOK
  <1>2. ~ Crash
    BY <1>1 DEF Crash
  <1>3. [Next]_lifecycleVars
    BY LifecycleStep
  <1>4. crashes' = crashes
    BY <1>2, <1>3
       DEF Next, TakeWrite, SkipWrite, CommitWrite, RefuseWrite, PhaseStep,
           MarkFeaturePhaseRunning, CompleteDiscuss, CompleteResearch,
           ApproveProposal, CiCheckPasses, CiCheckFails, VerifyPasses,
           ReplayVerifyPasses, VerifyFails, TaskWorkFails, EjectFromQueue,
           ReconcilePostMerge, CompleteSummary, OnTaskLanded,
           BeginNextIntegration, IntegrationOutcome, IntegrationLands,
           IntegrationFails, ApplyProjectProposal, AddDependency,
           RemoveDependency, CancelFeature, Handle, lifecycleVars
  <1> QED BY <1>2, <1>4 DEF ProcessDies

\* Where no crash was yet, the reconciler has nothing to do.
LEMMA LandedHolds ==
    ASSUME IntegrationInv, IntegrationNext, LandedInv
    PROVE  LandedInv'
  <1> SUFFICES ASSUME crashes' = 0
               PROVE  /\ run'.at \in Landing \cup {"idle"}
                      /\ \A f \in Features : OnMain(f)' => Landed(f)'
    BY DEF LandedInv
  <1>0. /\ crashes = 0 /\ ~ ProcessDies
        /\ run.at \in Landing \cup {"idle"}
        /\ \A f \in Features : OnMain(f) => Landed(f)
        /\ run \in Run
    BY NoCrashYet DEF LandedInv, IntegrationInv, IntegrationTypeOK
  <1>1. run'.at \in Landing \cup {"idle"}
    <2>1. Idle.at = "idle" /\ run.at \notin {"boot", "reconciling"}
      BY <1>0 DEF Idle, NotRunning, Landing
    <2>2. CASE GivesUp
      BY <2>1, <2>2, GivesUpSteps
    <2>3. ASSUME NEW f \in Features,
                 \/ SelectNext(f) \/ OtherHandlers(f) \/ RecoveryReplays(f)
                 \/ TasksLand(f)
          PROVE  run' = run
      BY <2>3, HandlerStarts
    <2>4. CASE Quiet \/ RecordMerge \/ ReconcileCompletes
      BY <1>0, <2>1, <2>4
         DEF Quiet, WriteMarker, Rebase, RecordRebasedTip, VerificationPasses,
             MainUnmoved, UpdateRef, RecordMergeThrows, ReconcileIdle,
             ReconcileRetry, ReconcileClears, ReconcileThrows, ReconcileHalts,
             GitThrows, ReconcileGitThrows, SomeonePushes, ReadMain,
             RecordMerge, ReconcileCompletes, At, Goto, Run, Landing
    <2>5. HandlerWrites => run' = run
      BY <2>1 DEF HandlerWrites
    <2>6. \A f \in Features : UserCancels(f) => run' = run
      BY DEF UserCancels, gitVars
    <2> QED BY <1>0, <2>2, <2>3, <2>4, <2>5, <2>6
            DEF IntegrationNext, RunStep, Reconcile, Quiet, GivesUp
  <1>2. SUFFICES ASSUME NEW f \in Features, OnMain(f)'
                 PROVE  Landed(f)'
    BY <1>1
  <1>3. \/ UpdateRef /\ f = run.feature
        \/ OnMain(f) /\ Landed(f)
    BY <1>0, <1>2, ComesToMain
  <1>4. CASE UpdateRef /\ f = run.feature
    BY <1>0, <1>4 DEF UpdateRef, Goto, Run, Landed
  <1>5. CASE ~ (UpdateRef /\ f = run.feature)
    <2>0. Landed(f)
      BY <1>3, <1>5
    <2>1. /\ run.at \in Landing =>
                /\ todo = << >>
                /\ features[run.feature].collab \in {"integrating", "cancelled"}
          /\ features[f] \in FeatureRow
      BY DEF IntegrationInv, RunInv, IntegrationTypeOK, TypeOK
    <2>2. CASE HandlerWrites
      <3>1. TakeWrite
        BY <2>2 DEF HandlerWrites
      <3>2. /\ run.at \notin Landing
            /\ features[f].collab \in {"merged", "cancelled"}
                  => features'[f].collab = features[f].collab
        BY <3>1, WriteMade
      <3>3. CASE features[f].collab \in {"merged", "cancelled"}
        BY <3>2, <3>3 DEF Landed
      <3>4. CASE features[f].collab \notin {"merged", "cancelled"}
        <4>1. /\ features[f].collab = "integrating"
              /\ todo[1] = MoveTo(f, "merged")
          BY <2>0, <3>2, <3>4 DEF Landed, Landing
        <4> QED BY <3>1, <4>1, RecordMade DEF Landed
      <3> QED BY <3>3, <3>4
    <2>3. CASE GivesUp
      <3>1. /\ run.at \in Landing /\ run.at # "landed"
            /\ UNCHANGED features
        BY <2>3, GivesUpSteps DEF BeforeMerge, IntegrationFails, Handle
      <3> QED BY <2>0, <2>1, <3>1 DEF Landed
    <2>4. CASE RecordMerge
      <3>1. /\ run.at = "landed" /\ Editable(features[run.feature])
            /\ UNCHANGED features
            /\ todo' = << MoveTo(run.feature, "merged"),
                          W(run.feature, "unstamp") >>
        BY <2>4 DEF RecordMerge, At, Handle, CompleteIntegration
      <3>2. todo = << >>
        BY <2>1, <3>1 DEF Landing
      <3>3. CASE f = run.feature
        <4>1. features[f].collab = "integrating"
          BY <2>1, <3>1, <3>3 DEF Landing, Editable
        <4> DEFINE a == MoveTo(f, "merged")
                   b == W(f, "unstamp")
        <4>2. todo' = << a, b >>
          BY <3>1, <3>3
        <4> HIDE DEF a, b
        <4>3. todo' # << >> /\ todo'[1] = a
          BY <4>2
        <4> QED BY <3>1, <4>1, <4>3 DEF Landed, a
      <3>4. CASE f # run.feature
        BY <2>0, <3>1, <3>2, <3>4 DEF Landed
      <3> QED BY <3>3, <3>4
    <2>5. ASSUME NEW g \in Features,
                 \/ SelectNext(g) \/ OtherHandlers(g) \/ RecoveryReplays(g)
                 \/ TasksLand(g)
          PROVE  Landed(f)'
      <3>1. /\ run.at \notin Landing /\ todo = << >>
            /\ UNCHANGED features
        BY <2>5, HandlerStarts
      <3> QED BY <2>0, <3>1 DEF Landed, Landing
    <2>6. ASSUME NEW g \in Features, UserCancels(g)
          PROVE  Landed(f)'
      <3>1. /\ UNCHANGED run
            /\ todo = << >>
            /\ \/ features'[f].collab = features[f].collab
               \/ features'[f].collab = "cancelled"
        BY <2>6, Cancels
      <3> QED BY <2>0, <3>1 DEF Landed
    <2>7. CASE ReconcileCompletes
      BY <1>0, <2>7 DEF ReconcileCompletes, At, Landing
    <2>8. CASE Quiet
      <3>1. UNCHANGED << features, todo >>
        BY <2>8, QuietSteps DEF lifecycleVars
      <3>2. CASE run.at = "landed" /\ run.feature = f
        <4>1. CASE RecordMergeThrows
          <5>1. features[f].collab \in {"merged", "cancelled"}
            BY <3>2, <4>1 DEF RecordMergeThrows, Editable
          <5> QED BY <3>1, <5>1 DEF Landed
        <4>2. CASE ~ RecordMergeThrows
          <5>1. UNCHANGED run
            BY <2>8, <3>2, <4>2
               DEF Quiet, WriteMarker, Rebase, RecordRebasedTip,
                   VerificationPasses, MainUnmoved, UpdateRef, ReconcileIdle,
                   ReconcileRetry, ReconcileClears, ReconcileThrows,
                   ReconcileHalts, GitThrows, ReconcileGitThrows,
                   SomeonePushes, ReadMain, At
          <5> QED BY <3>2, <5>1 DEF Landed
        <4> QED BY <4>1, <4>2
      <3>3. CASE ~ (run.at = "landed" /\ run.feature = f)
        BY <2>0, <3>1, <3>3 DEF Landed
      <3> QED BY <3>2, <3>3
    <2> QED BY <1>0, <2>2, <2>3, <2>4, <2>5, <2>6, <2>7, <2>8
            DEF IntegrationNext, RunStep, Reconcile, Quiet, GivesUp
  <1> QED BY <1>4, <1>5

\* Once a feature's merge has landed, nothing plans its work again: not a
\* cancellation, not a push, not a git command that throws.  A crash between
\* the merge and its record is excluded: the reconciler that follows it may
\* halt with the feature still integrating (updateRef, completeIntegration).
THEOREM LandedIsNotReplanned ==
    IntegrationSpec /\ [](crashes = 0) => LandedNeverReplanned
  <1> DEFINE Step == \A f \in Features :
                        OnMain(f) /\ features[f].work = "awaiting_merge"
                           => features'[f].work # "replanning"
  <1>1. ASSUME IntegrationInv, LandedInv, crashes = 0, IntegrationNext,
               NEW f \in Features, OnMain(f),
               features[f].work = "awaiting_merge"
        PROVE  features'[f].work # "replanning"
    <2>1. CASE HandlerWrites
      <3>1. TakeWrite
        BY <2>1 DEF HandlerWrites
      <3>2. /\ run.at \notin Landing
            /\ features[f].collab \in {"merged", "cancelled"}
                  => features'[f].collab = features[f].collab
        BY <1>1, <3>1, WriteMade
      <3>3. CASE features[f].collab = "merged"
        <4>1. features'[f].collab = "merged" /\ MergedOnward'
          BY <1>1, <3>2, <3>3, TypesHold DEF MergedInv
        <4> QED BY <4>1 DEF MergedOnward
      <3>4. CASE features[f].collab = "cancelled"
        BY <1>1, <3>1, <3>4, CancelledKeepsWork
      <3>5. CASE features[f].collab \notin {"merged", "cancelled"}
        <4>1. /\ features[f].collab = "integrating"
              /\ todo[1] = MoveTo(f, "merged")
          BY <1>1, <3>2, <3>5 DEF LandedInv, Landed, Landing
        <4>2. features'[f].collab = "merged" /\ MergedOnward'
          BY <1>1, <3>1, <4>1, RecordMade, TypesHold DEF MergedInv
        <4> QED BY <4>2 DEF MergedOnward
      <3> QED BY <3>3, <3>4, <3>5
    <2>2. ASSUME NEW g \in Features, UserCancels(g)
          PROVE  features'[f].work = features[f].work
      BY <1>1, <2>2, Cancels
    <2>3. CASE ~ HandlerWrites /\ \A g \in Features : ~ UserCancels(g)
      <3>1. UNCHANGED features
        BY <1>1, <2>3, QuietSteps, GivesUpSteps, Completes, HandlerStarts
           DEF IntegrationNext, RunStep, Reconcile, Quiet, GivesUp,
               lifecycleVars, IntegrationFails, Handle, ProcessDies, Crash
      <3> QED BY <1>1, <3>1
    <2> QED BY <1>1, <2>1, <2>2, <2>3
  <1>2. IntegrationInv /\ LandedInv /\ [IntegrationNext]_vars => LandedInv'
    <2>1. LandedInv /\ UNCHANGED vars => LandedInv'
      BY DEF LandedInv, Landed, OnMain, vars, lifecycleVars, gitVars
    <2> QED BY <2>1, LandedHolds
  <1>3. IntegrationInit => LandedInv
    BY DEF IntegrationInit, LandedInv, OnMain, Idle, NotRunning
  <1>4. /\ IntegrationInv /\ LandedInv /\ crashes = 0
        /\ [IntegrationNext]_vars
        => [Step]_vars
    BY <1>1
  <1> QED BY <1>2, <1>3, <1>4, IntegrationInvariant, PTL
          DEF IntegrationSpec, LandedNeverReplanned

\* With independent features and no crash no integration, however it ends,
\* leaves its feature half way between the train and the work it goes back to
\* (runIntegration, rerouteToReplan).
THEOREM IntegrationsStrandNothing ==
    ASSUME MaxCrashes = 0, PlannerEdges = {},
           \A f \in Features : DependsOn[f] = {}
    PROVE  IntegrationSpec => []NoneStranded
<1>1. IntegrationInit => SettledInv
  <2> SUFFICES ASSUME IntegrationInit PROVE SettledInv
    OBVIOUS
  <2>1. MergedInv
    BY IntegrationStarts DEF IntegrationInv
  <2>2. /\ todo = << >> /\ dependsOn = DependsOn
        /\ \A f \in Features : /\ features[f].work = "verifying"
                               /\ features[f].collab = "branch_open"
    BY DEF IntegrationInit
  <2>3. BegunInv
    BY <2>2 DEF BegunInv, DepsDone
  <2>4. StageInv
    BY <2>2 DEF StageInv, Settled
  <2> QED BY <2>1, <2>3, <2>4 DEF SettledInv
<1>2. SettledInv /\ [Next]_lifecycleVars => SettledInv'
  BY SettledStep
<1>3. SettledInv => NoneStranded
  BY SettledBetween DEF SettledInv, NoneStranded, Settled
<1>4. IntegrationSpec => IntegrationInit
  BY DEF IntegrationSpec
<1> QED BY <1>1, <1>2, <1>3, <1>4, ImplementsLifecycle, PTL
        DEF StepsAreLifecycleSteps
=============================================================================
