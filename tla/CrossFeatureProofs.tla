-------------------------- MODULE CrossFeatureProofs --------------------------
(***************************************************************************)
(* What holds of features that write to the same paths, for any number of  *)
(* features, tasks, paths, claims, replans and faults.                     *)
(*                                                                         *)
(* TypeInv is CrossTypeOK with the types of the loop's locals.  PausedInv  *)
(* is the rule that a feature has no running task while it is blocked,     *)
(* with what is owed to it in the middle of a handler: the tasks of the    *)
(* feature that is just being blocked are those the loop has still to      *)
(* suspend, and a feature whose rebase failed is blocked with some of its  *)
(* tasks resumed already, but is to be replanned before the loop is idle   *)
(* again.  SuspendedInv follows the suspended tasks, OverlapsInv the pairs *)
(* a tick has not come to.                                                 *)
(*                                                                         *)
(* These three are about handlers that ran to their end: a refused write   *)
(* or a crash in between (dropped) leaves a feature half blocked.          *)
(* WantedInv, ApartInv and MergedInv need no such thing: blocks, claims    *)
(* and reported landings are between two features, whatever was lost, and  *)
(* what has landed stays on main though its feature be cancelled.          *)
(***************************************************************************)
EXTENDS CrossFeature, TLAPS

----------------------------------------------------------------------------
(* Types *)

FeatureRow == [work : Phases, status : {"in_progress", "failed"},
               collab : CollabControl, block : Features \cup {None},
               planner : BOOLEAN]
TaskRow == [status : TaskStatus, collab : TaskCollab,
            by : Features \cup {None}]

Places == {"idle", "suspending", "releasing", "resuming", "rerouting",
           "overlaps", "dispatching"}

SchedType == [at : Places, primary : Features \cup {None},
              other : Features \cup {None}, todo : SUBSET (Tasks \cup Features),
              back : {"idle", "overlaps"}, replan : SUBSET Features,
              pairs : SUBSET (Features \X Features)]

Bounds == {"claims", "replans", "faults"}

\* Where the loop is, it has the features and tasks its code works on.
TypeInv ==
    /\ CrossTypeOK
    /\ sched \in SchedType
    /\ At("suspending") =>
          /\ sched.primary \in Features /\ sched.other \in Features
          /\ sched.todo \subseteq TasksOf(sched.other)
    /\ sched.at \in {"releasing", "resuming"} =>
          sched.primary \in Features /\ sched.todo \subseteq Features
    /\ At("dispatching") => sched.todo \subseteq Tasks

\* A row that a transition writes is a row, and only a suspended task
\* remembers for whom.
LEMMA MovedTyped ==
    ASSUME NEW t \in Tasks, task[t] \in TaskRow, NEW new,
           new.status \in TaskStatus, new.collab \in TaskCollab,
           task[t].by # None => task[t].collab = "suspended"
    PROVE  /\ Moved(t, new) \in TaskRow
           /\ Moved(t, new).status = new.status
           /\ Moved(t, new).collab = new.collab
           /\ Moved(t, new).by # None => Moved(t, new).collab = "suspended"
           /\ Moved(t, new).by \in {None, task[t].by}
BY DEF TaskRow, Moved

\* Any two features are ranked one way or the other.
LEMMA RankedTyped ==
    ASSUME NEW f \in Features, NEW g \in Features
    PROVE  /\ Ranked(f, g) \in Features \X Features
           /\ Ranked(f, g)[1] \in Features /\ Ranked(f, g)[2] \in Features
           /\ {Ranked(f, g)[1], Ranked(f, g)[2]} = {f, g}
BY DEF Ranked

\* The pairs of a tick are pairs of features.
LEMMA OverlapPairsTyped == OverlapPairs \subseteq Features \X Features
BY RankedTyped, TaskConstants DEF OverlapPairs

\* The loop at rest.
LEMMA IdleTyped == Idle \in SchedType /\ Idle.at = "idle"
BY DEF Idle, SchedType, Places

\* Blocking a feature.
LEMMA BlockTyped ==
    ASSUME TypeInv, NEW pair \in Features \X Features, NEW back \in {"idle", "overlaps"},
           BlockSecondary(pair, back)
    PROVE  /\ feature' \in [Features -> FeatureRow]
           /\ sched' \in SchedType
           /\ \/ sched' = Idle /\ UNCHANGED feature
              \/ /\ sched'.at = "suspending" /\ sched'.back = back
                 /\ sched'.primary = pair[1] /\ sched'.other = pair[2]
                 /\ sched'.todo = {t \in TasksOf(pair[2]) : Running(t)}
                 /\ sched'.pairs = sched.pairs \ {pair}
                 /\ feature' = [feature EXCEPT ![pair[2]].block = pair[1]]
<1>0. feature \in [Features -> FeatureRow] /\ sched \in SchedType
  BY DEF TypeInv, CrossTypeOK, FeatureRow
<1>1. CASE Editable(pair[2])
  <2> DEFINE todo == {t \in TasksOf(pair[2]) : Running(t)}
  <2>1. todo \subseteq Tasks
    BY DEF TasksOf
  <2>2. /\ feature' = [feature EXCEPT ![pair[2]].block = pair[1]]
        /\ sched' = [sched EXCEPT !.at = "suspending", !.back = back,
                       !.primary = pair[1], !.other = pair[2],
                       !.todo = todo, !.pairs = @ \ {pair}]
    BY <1>1 DEF BlockSecondary, Block
  <2> HIDE DEF todo
  <2>3. feature' \in [Features -> FeatureRow]
    BY <1>0, <2>2 DEF FeatureRow
  <2>4. /\ sched' \in SchedType
        /\ sched'.at = "suspending" /\ sched'.back = back
        /\ sched'.primary = pair[1] /\ sched'.other = pair[2]
        /\ sched'.todo = todo /\ sched'.pairs = sched.pairs \ {pair}
    BY <1>0, <2>1, <2>2 DEF SchedType, Places
  <2> QED
    BY <2>2, <2>3, <2>4 DEF todo
<1>2. CASE ~ Editable(pair[2])
  BY <1>0, <1>2, IdleTyped DEF BlockSecondary, EndTick
<1> QED
  BY <1>1, <1>2


\* The types, one variable at a time.
LEMMA TypeParts ==
    TypeInv <=>
      /\ feature \in [Features -> FeatureRow]
      /\ task \in [Tasks -> TaskRow]
      /\ \A t \in Tasks : task[t].by # None => task[t].collab = "suspended"
      /\ worker \in [Tasks -> Ends \cup {"none", "working"}]
      /\ claim \in [Tasks -> Paths \cup {None}]
      /\ \A t \in Tasks : claim[t] # None => worker[t] = "working"
      /\ holder \in [Paths -> Tasks \cup {None}]
      /\ landed \subseteq Features
      /\ sched \in SchedType
      /\ At("suspending") =>
            /\ sched.primary \in Features /\ sched.other \in Features
            /\ sched.todo \subseteq TasksOf(sched.other)
      /\ sched.at \in {"releasing", "resuming"} =>
            sched.primary \in Features /\ sched.todo \subseteq Features
      /\ At("dispatching") => sched.todo \subseteq Tasks
      /\ At("resuming") => sched.other \in Features
BY DEF TypeInv, CrossTypeOK, FeatureRow, TaskRow, At

\* Rerouting leaves a row, without a planner when it goes to replanning.
LEMMA ReroutedTyped ==
    ASSUME feature \in [Features -> FeatureRow], NEW f \in Features
    PROVE  /\ Rerouted(f) \in FeatureRow
           /\ Rerouted(f).block = feature[f].block
           /\ \/ Rerouted(f).work = "replanning" /\ ~ Rerouted(f).planner
              \/ /\ ~ Reroutable(f)
                 /\ Rerouted(f).work = feature[f].work
                 /\ Rerouted(f).planner = feature[f].planner
           /\ Reroutable(f) => Rerouted(f).work = "replanning" /\ ~ Rerouted(f).planner
           /\ feature[f].collab = "cancelled" => Rerouted(f).collab = "cancelled"
BY DEF FeatureRow, Rerouted, Reroutable, Phases, CollabControl

\* The program starts with rows of these types.
LEMMA InitTyped == InitCross => TypeInv
BY IdleTyped DEF InitCross, TypeParts, TypeInv, CrossTypeOK, At, Phases, CollabControl,
   TaskStatus, TaskCollab, Ends

\* Every handler, every command and a crash keep the types.
LEMMA TypeStep == TypeInv /\ [CrossNext]_crossVars => TypeInv'
<1> SUFFICES ASSUME TypeInv, [CrossNext]_crossVars PROVE TypeInv'
  OBVIOUS
<1>0. /\ feature \in [Features -> FeatureRow]
      /\ task \in [Tasks -> TaskRow]
      /\ \A t \in Tasks : task[t].by # None => task[t].collab = "suspended"
      /\ worker \in [Tasks -> Ends \cup {"none", "working"}]
      /\ claim \in [Tasks -> Paths \cup {None}]
      /\ \A t \in Tasks : claim[t] # None => worker[t] = "working"
      /\ holder \in [Paths -> Tasks \cup {None}]
      /\ landed \subseteq Features
      /\ sched \in SchedType
      /\ At("suspending") =>
            /\ sched.primary \in Features /\ sched.other \in Features
            /\ sched.todo \subseteq TasksOf(sched.other)
      /\ sched.at \in {"releasing", "resuming"} =>
            sched.primary \in Features /\ sched.todo \subseteq Features
      /\ At("dispatching") => sched.todo \subseteq Tasks
      /\ At("resuming") => sched.other \in Features
  BY TypeParts
<1> DEFINE Rows == /\ feature' \in [Features -> FeatureRow]
                   /\ task' \in [Tasks -> TaskRow]
                   /\ \A t \in Tasks : task'[t].by # None
                                          => task'[t].collab = "suspended"
           Works == /\ worker' \in [Tasks -> Ends \cup {"none", "working"}]
                    /\ claim' \in [Tasks -> Paths \cup {None}]
                    /\ \A t \in Tasks : claim'[t] # None => worker'[t] = "working"
                    /\ holder' \in [Paths -> Tasks \cup {None}]
                    /\ landed' \subseteq Features
           Loop == /\ sched' \in SchedType
                   /\ sched'.at = "suspending" =>
                         /\ sched'.primary \in Features /\ sched'.other \in Features
                         /\ sched'.todo \subseteq TasksOf(sched'.other)
                   /\ sched'.at \in {"releasing", "resuming"} =>
                         sched'.primary \in Features /\ sched'.todo \subseteq Features
                   /\ sched'.at = "dispatching" => sched'.todo \subseteq Tasks
                   /\ sched'.at = "resuming" => sched'.other \in Features
<1>s. ASSUME Rows, Works, Loop PROVE TypeInv'
  BY <1>s DEF TypeInv, CrossTypeOK, FeatureRow, TaskRow, At, TasksOf
<1>r. UNCHANGED << feature, task >> => Rows
  BY <1>0
<1>w. UNCHANGED << worker, claim, holder, landed >> => Works
  BY <1>0
<1>l. sched' = sched => Loop
  BY <1>0 DEF At
<1>i. sched' = Idle => Loop
  BY IdleTyped
<1>m. ASSUME NEW t \in Tasks, NEW new, Transition(t, new), UNCHANGED feature,
             new.status \in TaskStatus, new.collab \in TaskCollab
      PROVE  Rows
  BY <1>0, <1>m, MovedTyped DEF Transition
<1>b. \A t \in Tasks : \A s \in TaskStatus :
          WithStatus(t, s).status \in TaskStatus /\ WithStatus(t, s).collab \in TaskCollab
  BY <1>0 DEF WithStatus, TaskRow
<1> HIDE DEF Rows, Works, Loop
<1>1. ASSUME NEW t \in Tasks, NEW p \in Paths, Claim(t, p) PROVE TypeInv'
  <2>1. Works
    BY <1>0, <1>1 DEF Works, Claim, Live, Outside
  <2> QED
    BY <2>1, <1>1, <1>s, <1>r, <1>l DEF Claim, Outside
<1>2. ASSUME NEW t \in Tasks, NEW how \in Ends, EndWorker(t, how) PROVE TypeInv'
  <2>1. Works
    BY <1>0, <1>2 DEF Works, EndWorker, Outside, Ends
  <2> QED
    BY <2>1, <1>2, <1>s, <1>r, <1>l DEF EndWorker, Outside
<1>3. ASSUME NEW f \in Features, Cancel(f) PROVE TypeInv'
  <2>1. feature' \in [Features -> FeatureRow]
    <3> DEFINE row == [feature[f] EXCEPT !.collab = "cancelled", !.block = None]
    <3>1. row \in FeatureRow
      <4>1. feature[f] \in FeatureRow /\ "cancelled" \in CollabControl
        BY <1>0 DEF CollabControl
      <4> QED
        BY <4>1 DEF FeatureRow
    <3>2. feature' = [feature EXCEPT ![f] = row]
      BY <1>0, <1>3 DEF Cancel, FeatureRow
    <3> QED
      BY <1>0, <3>1, <3>2
  <2>2. /\ task' \in [Tasks -> TaskRow]
        /\ \A t \in Tasks : task'[t].by # None => task'[t].collab = "suspended"
    BY <1>0, <1>3 DEF Cancel, TaskRow, TaskStatus
  <2>3. Works
    BY <1>0, <1>3 DEF Works, Cancel, Outside
  <2>4. Rows
    BY <2>1, <2>2 DEF Rows
  <2> QED
    BY <2>3, <2>4, <1>3, <1>s, <1>l DEF Cancel, Outside
<1>4. ASSUME NEW f \in Features, NEW new \in SUBSET Tasks, ApproveReplan(f, new)
      PROVE  TypeInv'
  <2>1. feature' \in [Features -> FeatureRow]
    BY <1>0, <1>4 DEF ApproveReplan, FeatureRow, Phases
  <2>2. /\ task' \in [Tasks -> TaskRow]
        /\ \A t \in Tasks : task'[t].by # None => task'[t].collab = "suspended"
    BY <1>0, <1>4 DEF ApproveReplan, TaskRow, TaskStatus, TaskCollab
  <2>3. Rows
    BY <2>1, <2>2 DEF Rows
  <2> QED
    BY <2>3, <1>4, <1>s, <1>l, <1>w DEF ApproveReplan, Outside
<1>5. ASSUME NEW t \in Tasks, SuspendNext(t) PROVE TypeInv'
  <2>1. Rows
    <3>1. /\ task' = [task EXCEPT ![t] = [task[t] EXCEPT !.collab = "suspended",
                                                        !.by = sched.primary]]
          /\ UNCHANGED feature /\ At("suspending")
      BY <1>5 DEF SuspendNext
    <3>2. task[t] \in TaskRow /\ sched.primary \in Features
      BY <1>0, <3>1 DEF At
    <3>3. /\ [task[t] EXCEPT !.collab = "suspended", !.by = sched.primary] \in TaskRow
          /\ [task[t] EXCEPT !.collab = "suspended", !.by = sched.primary].collab = "suspended"
      BY <3>2 DEF TaskRow, TaskCollab
    <3> QED
      BY <1>0, <3>1, <3>3 DEF Rows
  <2>2. Loop
    <3>1. sched' = [sched EXCEPT !.todo = sched.todo \ {t}] /\ sched.at = "suspending"
      BY <1>5 DEF SuspendNext, At
    <3> QED
      BY <1>0, <3>1 DEF Loop, SchedType, At
  <2> QED
    BY <2>1, <2>2, <1>5, <1>s, <1>w DEF SuspendNext
<1>6. CASE SuspendedAll
  <2>1. Loop
    BY <1>0, <1>6 DEF Loop, SuspendedAll, SchedType, At, Places
  <2> QED
    BY <2>1, <1>6, <1>s, <1>r, <1>w DEF SuspendedAll
<1>7. ASSUME NEW t \in Tasks, GrantClaim(t) PROVE TypeInv'
  <2>1. Works
    BY <1>0, <1>7 DEF Works, GrantClaim
  <2> QED
    BY <2>1, <1>7, <1>s, <1>r, <1>l DEF GrantClaim
<1>8. ASSUME NEW pair \in Features \X Features, NEW back \in {"idle", "overlaps"},
             BlockSecondary(pair, back), UNCHANGED task
      PROVE  Rows /\ Loop
  <2>1. Rows
    BY <1>0, <1>8, BlockTyped DEF Rows
  <2>2. CASE sched' = Idle
    BY <2>1, <2>2, <1>i
  <2>3. CASE /\ sched'.at = "suspending" /\ sched'.back = back
             /\ sched'.primary = pair[1] /\ sched'.other = pair[2]
             /\ sched'.todo = {t \in TasksOf(pair[2]) : Running(t)}
    BY <2>1, <2>3, <1>8, BlockTyped DEF Loop
  <2> QED
    BY <2>2, <2>3, <1>8, BlockTyped
<1>9. ASSUME NEW t \in Tasks, DenyClaim(t) PROVE TypeInv'
  <2>1. claim[t] \in Paths /\ holder[claim[t]] \in Tasks
    BY <1>0, <1>9, FeatureConstants DEF DenyClaim
  <2>2. Ranked(FeatureOf[t], FeatureOf[holder[claim[t]]]) \in Features \X Features
    BY <2>1, RankedTyped, TaskConstants
  <2>3. Rows /\ Loop
    BY <2>2, <1>8, <1>9 DEF DenyClaim
  <2>4. Works
    BY <1>0, <1>9 DEF Works, DenyClaim
  <2> QED
    BY <2>3, <2>4, <1>s
<1>10. ASSUME NEW pair \in Features \X Features, CoordinatePair(pair) PROVE TypeInv'
  <2>1. CASE BlockSecondary(pair, "overlaps")
    BY <2>1, <1>8, <1>10, <1>s, <1>w DEF CoordinatePair
  <2>2. CASE sched' = [sched EXCEPT !.pairs = @ \ {pair}] /\ UNCHANGED feature
    <3>1. Loop
      BY <1>0, <1>10, <2>2 DEF CoordinatePair, Loop, SchedType, At
    <3> QED
      BY <3>1, <2>2, <1>10, <1>s, <1>r, <1>w DEF CoordinatePair
  <2> QED
    BY <2>1, <2>2, <1>10 DEF CoordinatePair
<1>11. ASSUME NEW t \in Tasks, NEW squashed \in BOOLEAN, HandleEnd(t, squashed)
       PROVE  TypeInv'
  <2> DEFINE new == CASE worker[t] = "implicit" -> WithStatus(t, "done")
                      [] worker[t] = "error" -> WithStatus(t, "ready")
                      [] worker[t] = "submitted" /\ squashed ->
                            [status |-> "done", collab |-> "merged"]
                      [] OTHER -> WithStatus(t, "failed")
  <2>1. new.status \in TaskStatus /\ new.collab \in TaskCollab
    BY <1>b DEF TaskStatus, TaskCollab
  <2>2. /\ worker' = [worker EXCEPT ![t] = "none"] /\ claim' = claim
        /\ landed' = landed /\ sched' = sched /\ worker[t] \in Ends
        /\ UNCHANGED holder \/ ReleaseLocks(t)
        /\ UNCHANGED task \/ Transition(t, new)
        /\ UNCHANGED feature \/ RerouteToReplan(FeatureOf[t])
    BY <1>11 DEF HandleEnd
  <2> HIDE DEF new
  <2>3. Works
    BY <1>0, <2>2 DEF Works, ReleaseLocks, Ends
  <2>4. /\ task' \in [Tasks -> TaskRow]
        /\ \A u \in Tasks : task'[u].by # None => task'[u].collab = "suspended"
    BY <1>0, <2>1, <2>2, MovedTyped DEF Transition
  <2>5. feature' \in [Features -> FeatureRow]
    BY <1>0, <2>2, ReroutedTyped, TaskConstants DEF RerouteToReplan
  <2> QED
    BY <2>2, <2>3, <2>4, <2>5, <1>s, <1>l DEF Rows
<1>12. ASSUME NEW p \in Features, HandleLanded(p) PROVE TypeInv'
  <2>1. BlockedBehind(p) \subseteq Features
    BY DEF BlockedBehind
  <2>2. Loop
    <3>1. CASE sched' = [sched EXCEPT !.at = "releasing", !.primary = p,
                                      !.todo = BlockedBehind(p)]
      BY <2>1, <1>0, <3>1 DEF Loop, SchedType, Places
    <3>2. CASE Throw
      BY <3>2, <1>i DEF Throw, EndTick
    <3> QED
      BY <3>1, <3>2, <1>12 DEF HandleLanded
  <2>3. Works
    BY <1>0, <1>12 DEF HandleLanded, ReleaseOnly, Works
  <2> QED
    BY <2>2, <2>3, <1>12, <1>s, <1>r DEF HandleLanded
<1>13. ASSUME NEW f \in Features, NEW clean \in BOOLEAN, ReleaseOne(f, clean)
       PROVE  TypeInv'
  <2>0. /\ sched.at = "releasing"
        /\ sched.primary \in Features /\ sched.todo \subseteq Features
    BY <1>0, <1>13 DEF ReleaseOne, At
  <2>1. Loop
    <3>1. CASE sched' = Idle
      BY <3>1, <1>i
    <3>2. CASE sched' = [sched EXCEPT !.todo = @ \ {f}, !.replan = @ \cup {f}]
      BY <1>0, <2>0, <3>2 DEF Loop, SchedType
    <3>3. CASE sched' = [sched EXCEPT !.at = "resuming", !.other = f]
      BY <1>0, <2>0, <3>3 DEF Loop, SchedType, Places
    <3> QED
      BY <1>13, <3>1, <3>2, <3>3 DEF ReleaseOne, Throw, EndTick
  <2>2. Rows
    BY <1>0, <1>13 DEF ReleaseOne, Block, Throw, Rows, FeatureRow
  <2> QED
    BY <2>1, <2>2, <1>13, <1>s, <1>w DEF ReleaseOne, ReleaseOnly
<1>14. ASSUME NEW t \in Tasks, ResumeTask(t) PROVE TypeInv'
  <2>1. Loop
    BY <1>14, <1>i, <1>l DEF ResumeTask, Throw, EndTick
  <2> DEFINE new == [status |-> IF Live(t) THEN task[t].status ELSE "ready",
                     collab |-> "branch_open"]
  <2>2. new.status \in TaskStatus /\ new.collab \in TaskCollab
    BY <1>0 DEF TaskRow, TaskStatus, TaskCollab
  <2>3. Transition(t, new) \/ UNCHANGED task
    BY <1>14 DEF ResumeTask
  <2> HIDE DEF new
  <2>4. Rows
    BY <2>2, <2>3, <1>14, <1>m, <1>r DEF ResumeTask
  <2> QED
    BY <2>1, <2>4, <1>14, <1>s, <1>w DEF ResumeTask, ReleaseOnly
<1>15. ASSUME NEW t \in Tasks, ResumeFails(t) PROVE TypeInv'
  <2>1. sched.at = "resuming" /\ sched.primary \in Features /\ sched.other \in Features
    BY <1>0, <1>15 DEF ResumeFails, At
  <2>2. Loop
    <3>1. CASE BackToReleasing({sched.other})
      BY <1>0, <2>1, <3>1 DEF BackToReleasing, Loop, SchedType, Places
    <3>2. CASE Throw
      BY <3>2, <1>i DEF Throw, EndTick
    <3> QED
      BY <3>1, <3>2, <1>15 DEF ResumeFails
  <2>3. Rows
    BY <1>0, <1>15, <2>1 DEF ResumeFails, Block, Rows, FeatureRow
  <2> QED
    BY <2>2, <2>3, <1>15, <1>s, <1>w DEF ResumeFails, ReleaseOnly
<1>16. CASE ResumeCancelled
  BY <1>16, <1>s, <1>r, <1>w, <1>i DEF ResumeCancelled, ReleaseOnly, Throw, EndTick
<1>17. CASE ResumedAll
  <2>1. Loop
    BY <1>0, <1>17 DEF ResumedAll, BackToReleasing, Loop, SchedType, Places, At
  <2> QED
    BY <2>1, <1>17, <1>s, <1>r, <1>w DEF ResumedAll, ReleaseOnly
<1>18. CASE ReleasedAll
  <2>1. Loop
    BY <1>0, <1>18 DEF ReleasedAll, Loop, SchedType, Places, At
  <2> QED
    BY <2>1, <1>18, <1>s, <1>r, <1>w DEF ReleasedAll, ReleaseOnly
<1>19. ASSUME NEW f \in Features, RerouteNext(f) PROVE TypeInv'
  <2>1. Loop
    BY <1>0, <1>19, <1>i DEF RerouteNext, Loop, SchedType, Throw, EndTick, At
  <2>2. Rows
    BY <1>0, <1>19, ReroutedTyped DEF RerouteNext, RerouteToReplan, Rows
  <2> QED
    BY <2>1, <2>2, <1>19, <1>s, <1>w DEF RerouteNext, ReleaseOnly
<1>20. CASE ReroutedAll
  BY <1>20, <1>s, <1>r, <1>w, <1>i DEF ReroutedAll, ReleaseOnly, EndTick
<1>21. ASSUME NEW f \in Features, EnterTrain(f) PROVE TypeInv'
  <2>1. Rows
    BY <1>0, <1>21 DEF EnterTrain, Rows, FeatureRow, Phases, CollabControl
  <2> QED
    BY <2>1, <1>21, <1>s, <1>w, <1>l DEF EnterTrain, ReleaseOnly
<1>22. ASSUME Integrated PROVE Loop
  BY <1>0, <1>22, OverlapPairsTyped DEF Integrated, Loop, SchedType, Places
<1>23. ASSUME NEW f \in Features, NEW merges \in BOOLEAN, Integrate(f, merges)
       PROVE  TypeInv'
  <2>1. Rows
    BY <1>0, <1>23, ReroutedTyped
       DEF Integrate, Integrated, Rows, FeatureRow, Phases, CollabControl
  <2>2. Works
    BY <1>0, <1>23 DEF Integrate, Integrated, ReleaseOnly, Works
  <2>3. Loop
    BY <1>22, <1>23 DEF Integrate
  <2> QED
    BY <2>1, <2>2, <2>3, <1>s
<1>24. CASE NothingToIntegrate
  <2>1. Loop
    BY <1>22, <1>24 DEF NothingToIntegrate
  <2> QED
    BY <2>1, <1>24, <1>s, <1>r, <1>w DEF NothingToIntegrate, Integrated, ReleaseOnly
<1>25. CASE BeginDispatch
  <2>1. ReadyTasks \subseteq Tasks
    BY DEF ReadyTasks
  <2>2. Loop
    BY <2>1, <1>0, <1>25 DEF BeginDispatch, Loop, SchedType, Places
  <2> QED
    BY <2>2, <1>25, <1>s, <1>r, <1>w DEF BeginDispatch, ReleaseOnly
<1>26. ASSUME NEW t \in Tasks, DispatchTask(t) PROVE TypeInv'
  <2> DEFINE opened == [status |-> "running", collab |-> "branch_open"]
  <2>1. opened.status \in TaskStatus /\ opened.collab \in TaskCollab
    BY DEF TaskStatus, TaskCollab
  <2>2. /\ Transition(t, opened) \/ UNCHANGED task
        /\ sched' = [sched EXCEPT !.todo = @ \ {t}] \/ EndTick
        /\ sched.at = "dispatching"
    BY <1>26 DEF DispatchTask, At
  <2> HIDE DEF opened
  <2>3. Rows
    BY <2>1, <2>2, <1>26, <1>m, <1>r DEF DispatchTask
  <2>4. Loop
    BY <1>0, <2>2, <1>i DEF Loop, SchedType, EndTick, At
  <2>5. Works
    BY <1>0, <1>26 DEF DispatchTask, Works
  <2> QED
    BY <2>3, <2>4, <2>5, <1>s
<1>27. ASSUME NEW f \in Features, DispatchReplan(f) PROVE TypeInv'
  <2>1. Rows
    <3>1. feature' = [feature EXCEPT ![f] = [feature[f] EXCEPT !.planner = TRUE]]
          /\ UNCHANGED task
      BY <1>27 DEF DispatchReplan
    <3>2. feature[f] \in FeatureRow
      BY <1>0
    <3>3. [feature[f] EXCEPT !.planner = TRUE] \in FeatureRow
      BY <3>2 DEF FeatureRow
    <3> QED
      BY <1>0, <3>1, <3>3 DEF Rows
  <2> QED
    BY <2>1, <1>27, <1>s, <1>w, <1>l DEF DispatchReplan, ReleaseOnly
<1>28. CASE EndDispatch
  BY <1>28, <1>s, <1>r, <1>w, <1>i DEF EndDispatch, ReleaseOnly, EndTick
<1>29. CASE CrossCrash
  <2>1. Works
    BY <1>0, <1>29, FeatureConstants DEF CrossCrash, Works
  <2> QED
    BY <2>1, <1>29, <1>s, <1>r, <1>i DEF CrossCrash
<1>30. CASE UNCHANGED crossVars
  BY <1>30, <1>s, <1>r, <1>w, <1>l DEF crossVars
<1> QED
  BY <1>1, <1>2, <1>3, <1>4, <1>5, <1>6, <1>7, <1>9, <1>10, <1>11, <1>12, <1>13, <1>14,
     <1>15, <1>16, <1>17, <1>18, <1>19, <1>20, <1>21, <1>23, <1>24, <1>25, <1>26, <1>27,
     <1>28, <1>29, <1>30
     DEF CrossNext, CrossLoop, HandleWork, Suspending, Releasing, RestOfTick

\* TypeInv holds whatever overlaps, lands, is replanned, cancelled or lost in a
\* crash.
THEOREM CrossInvariant == CrossSpec => []TypeInv
BY InitTyped, TypeStep, PTL DEF CrossSpec

\* Every row is one the store can hold: a task is remembered to be suspended for
\* a feature only while it is suspended, and only a live worker waits for a claim.
THEOREM CrossTypes == CrossSpec => []CrossTypeOK
<1>1. TypeInv => CrossTypeOK
  BY DEF TypeInv
<1> QED
  BY <1>1, CrossInvariant, PTL

----------------------------------------------------------------------------
(* A blocked feature is paused *)

Blocked(f) == feature[f].block # None

\* Its tasks are dispatched when it is not blocked.
Planned(f) == feature[f].work = "executing" \/ feature[f].planner

Paused(f) == Blocked(f) /\ Planned(f) => \A t \in TasksOf(f) : ~ Running(t)

Replans == {"releasing", "resuming", "rerouting"}

\* Its tasks are being suspended, or it is to be replanned before the loop is
\* idle again.
Exempt(f) == \/ At("suspending") /\ f = sched.other
             \/ sched.at \in Replans /\ f \in sched.replan

\* No blocked feature that executes has a running task, but for what a handler
\* still owes it.
PausedInv ==
    ~ dropped =>
      /\ \A f \in Features : Paused(f) \/ Exempt(f)
      /\ At("suspending") =>
            /\ feature[sched.other].block = sched.primary
            /\ \A t \in TasksOf(sched.other) : Running(t) => t \in sched.todo
      /\ At("resuming") => ~ Blocked(sched.other)
      /\ At("dispatching") => \A t \in sched.todo : ~ Blocked(FeatureOf[t])

\* Steps that start no task, and steps that neither block a feature nor give
\* a blocked one something to run.
NoneStarted == \A t \in Tasks : Running(t)' => Running(t)
NoneBlocked ==
    \A f \in Features : Blocked(f)' => Blocked(f) /\ (Planned(f)' => Planned(f))

\* Such steps leave paused what was paused.
LEMMA StaysPaused ==
    ASSUME NEW f \in Features, Paused(f),
           \A t \in TasksOf(f) : Running(t)' => Running(t),
           Blocked(f)' => Blocked(f) /\ (Planned(f)' => Planned(f))
    PROVE  Paused(f)'
BY DEF Paused, TasksOf

\* The step of somebody else than the loop, or of a handler that is one step.
LEMMA AsidePaused ==
    ASSUME TypeInv, PausedInv, NoneStarted, NoneBlocked,
           sched' = sched, dropped' = dropped,
           At("suspending") => feature' = feature
    PROVE  PausedInv'
<1> SUFFICES ASSUME ~ dropped PROVE PausedInv'
  BY DEF PausedInv
<1>1. ASSUME NEW f \in Features PROVE Paused(f)' \/ Exempt(f)'
  <2>1. Exempt(f)' <=> Exempt(f)
    BY DEF Exempt, At
  <2> QED
    BY <2>1, StaysPaused DEF PausedInv, NoneStarted, NoneBlocked, TasksOf
<1>2. At("suspending") =>
         sched.other \in Features /\ sched.todo \subseteq TasksOf(sched.other)
  BY TypeParts
<1>3. At("resuming") => sched.other \in Features
  BY TypeParts
<1>4. At("dispatching") => sched.todo \subseteq Tasks
  BY TypeParts
<1> QED
  BY <1>1, <1>2, <1>3, <1>4, TaskConstants
     DEF PausedInv, At, NoneStarted, NoneBlocked, TasksOf

\* The loop goes on from a place where nothing is exempt.
LEMMA OnwardPaused ==
    ASSUME PausedInv, NoneStarted, NoneBlocked, ~ dropped,
           \A f \in Features : ~ Exempt(f),
           sched'.at \notin {"suspending", "resuming", "dispatching"}
    PROVE  PausedInv'
<1>1. ASSUME NEW f \in Features PROVE Paused(f)'
  BY StaysPaused DEF PausedInv, NoneStarted, NoneBlocked, TasksOf
<1> QED
  BY <1>1 DEF PausedInv, At

\* While features are released, those to be replanned are remembered.
LEMMA ReleasingPaused ==
    ASSUME PausedInv, NoneStarted, NoneBlocked, ~ dropped,
           sched.at \in Replans, sched'.at \in Replans,
           sched.replan \subseteq sched'.replan,
           sched'.at = "resuming" => feature'[sched'.other].block = None
    PROVE  PausedInv'
<1>1. ASSUME NEW f \in Features PROVE Paused(f)' \/ Exempt(f)'
  <2>1. Exempt(f) => Exempt(f)'
    BY DEF Exempt, At, Replans
  <2> QED
    BY <2>1, StaysPaused DEF PausedInv, NoneStarted, NoneBlocked, TasksOf
<1> QED
  BY <1>1 DEF PausedInv, At, Replans, Blocked

\* What rerouting does to a feature is neither.
LEMMA ReroutedOnward ==
    ASSUME TypeInv, NEW f \in Features,
           \A g \in Features : feature'[g] = IF g = f THEN Rerouted(f) ELSE feature[g]
    PROVE  NoneBlocked
<1>1. feature \in [Features -> FeatureRow]
  BY TypeParts
<1>2. Planned(f)' => Planned(f)
  BY ReroutedTyped, <1>1 DEF Planned
<1> QED
  BY <1>1, <1>2, ReroutedTyped DEF NoneBlocked, Blocked, Planned

\* A cancelled, ended or suspended task does not start.
LEMMA MovedStarts ==
    ASSUME TypeInv, NEW t \in Tasks, NEW new, Transition(t, new), new.status # "running"
    PROVE  NoneStarted
<1>1. task \in [Tasks -> TaskRow]
  BY TypeParts
<1> QED
  BY <1>1 DEF NoneStarted, Running, Transition, Moved, TaskRow

\* Nothing is exempt outside suspending and releasing.
LEMMA NoneExempt ==
    sched.at \in {"idle", "overlaps", "dispatching"} => \A f \in Features : ~ Exempt(f)
BY DEF Exempt, At, Replans

\* A feature is blocked, and the tasks to suspend are its running ones.
LEMMA BlockPaused ==
    ASSUME TypeInv, PausedInv, ~ dropped, dropped' = dropped, UNCHANGED task,
           NEW pair \in Features \X Features, NEW back \in {"idle", "overlaps"},
           BlockSecondary(pair, back), sched.at \in {"idle", "overlaps"}
    PROVE  PausedInv'
<1>1. NoneStarted
  BY DEF NoneStarted, Running
<1>2. CASE sched' = Idle /\ UNCHANGED feature
  <2>1. NoneBlocked
    BY <1>2 DEF NoneBlocked, Blocked, Planned
  <2> QED
    BY <1>1, <1>2, <2>1, OnwardPaused, NoneExempt, IdleTyped
<1>3. CASE /\ sched'.at = "suspending" /\ sched'.back = back
           /\ sched'.primary = pair[1] /\ sched'.other = pair[2]
           /\ sched'.todo = {t \in TasksOf(pair[2]) : Running(t)}
           /\ feature' = [feature EXCEPT ![pair[2]].block = pair[1]]
  <2>0. feature \in [Features -> FeatureRow]
    BY TypeParts
  <2>1. ASSUME NEW f \in Features PROVE Paused(f)' \/ Exempt(f)'
    <3>1. CASE f = pair[2]
      BY <1>3, <3>1 DEF Exempt, At
    <3>2. CASE f # pair[2]
      <4>1. feature'[f] = feature[f]
        BY <2>0, <1>3, <3>2
      <4>2. Paused(f)
        BY NoneExempt DEF PausedInv
      <4> QED
        BY <1>1, <4>1, <4>2, StaysPaused DEF Blocked, Planned, NoneStarted, TasksOf
    <3> QED
      BY <3>1, <3>2
  <2>2. feature'[sched'.other].block = sched'.primary
    BY <2>0, <1>3 DEF FeatureRow
  <2>3. \A t \in TasksOf(sched'.other) : Running(t)' => t \in sched'.todo
    BY <1>3 DEF Running
  <2> QED
    BY <1>3, <2>1, <2>2, <2>3 DEF PausedInv, At, TasksOf
<1> QED
  BY <1>2, <1>3, BlockTyped

\* What was cut short stays so.
LEMMA DroppedStays == [CrossNext]_crossVars /\ dropped => dropped'
<1> SUFFICES ASSUME [CrossNext]_crossVars, dropped PROVE dropped'
  OBVIOUS
<1>1. CASE HandleWork
  BY <1>1 DEF HandleWork, GrantClaim, DenyClaim, HandleEnd, HandleLanded, Throw
<1>2. CASE Suspending \/ Releasing
  BY <1>2 DEF Suspending, SuspendedAll, SuspendNext, Releasing, ReleaseOne, ResumeTask,
     ResumeFails, ResumeCancelled, ResumedAll, ReleasedAll, RerouteNext, ReroutedAll,
     Throw
<1>3. CASE RestOfTick
  BY <1>3 DEF RestOfTick, Integrate, NothingToIntegrate, Integrated, CoordinatePair,
     BeginDispatch, DispatchTask, DispatchReplan, EndDispatch
<1>4. ASSUME ~ CrossLoop PROVE dropped'
  BY <1>4 DEF CrossNext, Claim, EndWorker, EnterTrain, Cancel, ApproveReplan, CrossCrash,
     Outside, crossVars
<1> QED
  BY <1>1, <1>2, <1>3, <1>4 DEF CrossLoop

\* Each step of a handler keeps what is paused so, or is owed the rest.
LEMMA PausedStep == TypeInv /\ PausedInv /\ [CrossNext]_crossVars => PausedInv'
<1> SUFFICES ASSUME TypeInv, PausedInv, [CrossNext]_crossVars, ~ dropped, ~ dropped'
             PROVE PausedInv'
  BY DroppedStays DEF PausedInv
<1>0. /\ feature \in [Features -> FeatureRow]
      /\ task \in [Tasks -> TaskRow]
      /\ sched \in SchedType
      /\ At("suspending") =>
            /\ sched.primary \in Features /\ sched.other \in Features
            /\ sched.todo \subseteq TasksOf(sched.other)
      /\ sched.at \in {"releasing", "resuming"} =>
            sched.primary \in Features /\ sched.todo \subseteq Features
      /\ At("dispatching") => sched.todo \subseteq Tasks
      /\ At("resuming") => sched.other \in Features
  BY TypeParts
<1>p. /\ \A f \in Features : Paused(f) \/ Exempt(f)
      /\ At("suspending") =>
            /\ feature[sched.other].block = sched.primary
            /\ \A t \in TasksOf(sched.other) : Running(t) => t \in sched.todo
      /\ At("resuming") => ~ Blocked(sched.other)
      /\ At("dispatching") => \A t \in sched.todo : ~ Blocked(FeatureOf[t])
  BY DEF PausedInv
<1>s. UNCHANGED task => NoneStarted
  BY DEF NoneStarted, Running
<1>b. UNCHANGED feature => NoneBlocked
  BY DEF NoneBlocked, Blocked, Planned
<1>1. ASSUME NEW t \in Tasks, NEW p \in Paths, Claim(t, p) PROVE PausedInv'
  BY <1>1, <1>s, <1>b, AsidePaused DEF Claim, Outside
<1>2. ASSUME NEW t \in Tasks, NEW how \in Ends, EndWorker(t, how) PROVE PausedInv'
  BY <1>2, <1>s, <1>b, AsidePaused DEF EndWorker, Outside
<1>3. ASSUME NEW f \in Features, Cancel(f) PROVE PausedInv'
  <2>1. NoneStarted
    BY <1>0, <1>3 DEF Cancel, NoneStarted, Running, TaskRow
  <2>2. \A g \in Features : /\ feature'[g].work = feature[g].work
                            /\ feature'[g].planner = feature[g].planner
                            /\ feature'[g].block \in {None, feature[g].block}
    BY <1>0, <1>3 DEF Cancel, FeatureRow
  <2>3. NoneBlocked
    BY <2>2 DEF NoneBlocked, Blocked, Planned
  <2> QED
    BY <2>1, <2>3, <1>3, AsidePaused DEF Cancel, Outside, AtAwait
<1>4. ASSUME NEW f \in Features, NEW new \in SUBSET Tasks, ApproveReplan(f, new)
      PROVE  PausedInv'
  <2>1. NoneStarted
    BY <1>0, <1>4 DEF ApproveReplan, NoneStarted, Running, TaskRow
  <2>2. \A g \in Features : /\ feature'[g].block = feature[g].block
                            /\ g # f => feature'[g] = feature[g]
    BY <1>0, <1>4 DEF ApproveReplan, FeatureRow
  <2>3. feature[f].planner
    BY <1>4 DEF ApproveReplan
  <2>4. NoneBlocked
    BY <2>2, <2>3 DEF NoneBlocked, Blocked, Planned
  <2> QED
    BY <2>1, <2>4, <1>4, AsidePaused DEF ApproveReplan, Outside, At
<1>5. ASSUME NEW t \in Tasks, SuspendNext(t) PROVE PausedInv'
  <2>1. At("suspending") /\ t \in sched.todo /\ UNCHANGED feature
    BY <1>5 DEF SuspendNext
  <2>2. /\ sched' = [sched EXCEPT !.todo = sched.todo \ {t}]
        /\ \A u \in Tasks : Running(u)' => Running(u) /\ u # t
    <3>1. t \in Tasks /\ task'[t].collab = "suspended"
      BY <1>0, <1>5 DEF SuspendNext, TaskRow
    <3>2. \A u \in Tasks \ {t} : task'[u] = task[u]
      BY <1>0, <1>5 DEF SuspendNext
    <3> QED
      BY <3>1, <3>2, <1>5 DEF SuspendNext, Running
  <2>3. /\ sched'.at = "suspending" /\ sched'.other = sched.other
        /\ sched'.primary = sched.primary /\ sched'.todo = sched.todo \ {t}
    BY <1>0, <2>1, <2>2 DEF SchedType, At
  <2>4. ASSUME NEW f \in Features PROVE Paused(f)' \/ Exempt(f)'
    <3>1. Exempt(f)' <=> Exempt(f)
      BY <2>1, <2>3 DEF Exempt, At, Replans
    <3> QED
      BY <1>p, <2>1, <2>2, <3>1 DEF Paused, Blocked, Planned, TasksOf
  <2> QED
    BY <1>p, <2>1, <2>2, <2>3, <2>4 DEF PausedInv, At, TasksOf
<1>6. CASE SuspendedAll
  <2>1. At("suspending") /\ sched.todo = {} /\ UNCHANGED << feature, task >>
    BY <1>6 DEF SuspendedAll
  <2>2. sched'.at \in {"idle", "overlaps"}
    BY <1>0, <1>6 DEF SuspendedAll, SchedType
  <2>3. ASSUME NEW f \in Features PROVE Paused(f)'
    <3>1. Paused(f)
      BY <1>p, <2>1 DEF Exempt, Paused, At, Replans
    <3> QED
      BY <3>1, <2>1 DEF Paused, Blocked, Planned, Running
  <2> QED
    BY <2>2, <2>3 DEF PausedInv, At
<1>7. ASSUME NEW t \in Tasks, GrantClaim(t) PROVE PausedInv'
  BY <1>7, <1>s, <1>b, AsidePaused DEF GrantClaim
<1>9. ASSUME NEW t \in Tasks, DenyClaim(t) PROVE PausedInv'
  <2>1. claim[t] \in Paths /\ holder[claim[t]] \in Tasks
    BY <1>9, TypeParts, FeatureConstants DEF DenyClaim
  <2>2. Ranked(FeatureOf[t], FeatureOf[holder[claim[t]]]) \in Features \X Features
    BY <2>1, RankedTyped, TaskConstants
  <2> QED
    BY <2>2, <1>9, BlockPaused DEF DenyClaim, At
<1>10. ASSUME NEW pair \in Features \X Features, CoordinatePair(pair) PROVE PausedInv'
  <2>1. CASE BlockSecondary(pair, "overlaps")
    BY <2>1, <1>10, BlockPaused DEF CoordinatePair, At
  <2>2. CASE sched' = [sched EXCEPT !.pairs = @ \ {pair}] /\ UNCHANGED feature
    <3>1. sched.at = "overlaps" /\ sched'.at = "overlaps" /\ UNCHANGED task
      BY <1>0, <1>10, <2>2 DEF CoordinatePair, SchedType, At
    <3> QED
      BY <3>1, <2>2, <1>s, <1>b, OnwardPaused, NoneExempt
  <2> QED
    BY <2>1, <2>2, <1>10 DEF CoordinatePair
<1>11. ASSUME NEW t \in Tasks, NEW squashed \in BOOLEAN, HandleEnd(t, squashed)
       PROVE  PausedInv'
  <2> DEFINE new == CASE worker[t] = "implicit" -> WithStatus(t, "done")
                      [] worker[t] = "error" -> WithStatus(t, "ready")
                      [] worker[t] = "submitted" /\ squashed ->
                            [status |-> "done", collab |-> "merged"]
                      [] OTHER -> WithStatus(t, "failed")
  <2>1. new.status # "running"
    BY DEF WithStatus
  <2>2. /\ sched' = sched /\ dropped' = dropped /\ At("idle")
        /\ UNCHANGED task \/ Transition(t, new)
        /\ UNCHANGED feature \/ RerouteToReplan(FeatureOf[t])
    BY <1>11 DEF HandleEnd
  <2> HIDE DEF new
  <2>3. NoneStarted
    BY <1>s, <2>1, <2>2, MovedStarts
  <2>4. NoneBlocked
    <3>1. FeatureOf[t] \in Features
      BY TaskConstants
    <3> QED
      BY <1>0, <1>b, <2>2, <3>1, ReroutedOnward DEF RerouteToReplan
  <2> QED
    BY <2>2, <2>3, <2>4, AsidePaused DEF At
<1>12. ASSUME NEW p \in Features, HandleLanded(p) PROVE PausedInv'
  <2>1. sched.at = "idle" /\ sched'.at = "releasing"
    BY <1>0, <1>12 DEF HandleLanded, Throw, SchedType, At
  <2> QED
    BY <2>1, <1>12, <1>s, <1>b, OnwardPaused, NoneExempt DEF HandleLanded
<1>t. ~ Throw
  BY DEF Throw
<1>13. ASSUME NEW f \in Features, NEW clean \in BOOLEAN, ReleaseOne(f, clean)
       PROVE  PausedInv'
  <2>1. sched.at = "releasing" /\ NoneStarted
    BY <1>13, <1>s DEF ReleaseOne, At
  <2>2. CASE /\ sched' = [sched EXCEPT !.todo = @ \ {f}, !.replan = @ \cup {f}]
             /\ UNCHANGED feature
    <3>1. sched'.at = "releasing" /\ sched.replan \subseteq sched'.replan
      BY <1>0, <2>1, <2>2 DEF SchedType
    <3> QED
      BY <2>1, <2>2, <3>1, <1>b, ReleasingPaused DEF Replans
  <2>3. CASE sched' = [sched EXCEPT !.at = "resuming", !.other = f] /\ Block(f, None)
    <3>1. /\ sched'.at = "resuming" /\ sched.replan = sched'.replan
          /\ sched'.other = f
      BY <1>0, <2>1, <2>3 DEF SchedType
    <3>2. feature'[f].block = None
      BY <1>0, <2>3 DEF Block, FeatureRow
    <3>3. NoneBlocked
      BY <1>0, <2>3 DEF Block, FeatureRow, NoneBlocked, Blocked, Planned
    <3> QED
      BY <2>1, <3>1, <3>2, <3>3, ReleasingPaused DEF Replans
  <2> QED
    BY <1>13, <1>t, <2>2, <2>3 DEF ReleaseOne
<1>14. ASSUME NEW t \in Tasks, ResumeTask(t) PROVE PausedInv'
  <2>1. /\ sched.at = "resuming" /\ sched' = sched /\ UNCHANGED feature
        /\ FeatureOf[t] = sched.other
        /\ \E new : Transition(t, new)
    BY <1>14, <1>t DEF ResumeTask, At
  <2>2. \A u \in Tasks \ {t} : task'[u] = task[u]
    BY <1>0, <2>1 DEF Transition
  <2>3. ASSUME NEW f \in Features PROVE Paused(f)' \/ Exempt(f)'
    <3>1. Exempt(f)' <=> Exempt(f)
      BY <2>1 DEF Exempt, At
    <3>2. CASE f = sched.other
      BY <1>p, <2>1, <3>2 DEF Paused, Blocked, At
    <3>3. CASE f # sched.other
      <4>1. \A u \in TasksOf(f) : task'[u] = task[u]
        BY <2>1, <2>2, <3>3 DEF TasksOf
      <4> QED
        BY <1>p, <2>1, <3>1, <4>1 DEF Paused, Blocked, Planned, Running, TasksOf
    <3> QED
      BY <3>2, <3>3
  <2> QED
    BY <1>p, <2>1, <2>3 DEF PausedInv, At, Blocked
<1>15. ASSUME NEW t \in Tasks, ResumeFails(t) PROVE PausedInv'
  <2>1. /\ sched.at = "resuming" /\ UNCHANGED task /\ sched.other \in Features
        /\ feature' = [feature EXCEPT ![sched.other].block = sched.primary]
        /\ BackToReleasing({sched.other})
    BY <1>0, <1>15, <1>t DEF ResumeFails, At, Block
  <2>2. /\ sched'.at = "releasing"
        /\ sched'.replan = sched.replan \cup {sched.other}
    BY <1>0, <2>1 DEF BackToReleasing, SchedType
  <2>3. ASSUME NEW f \in Features PROVE Paused(f)' \/ Exempt(f)'
    <3>1. CASE f \in sched'.replan
      BY <2>2, <3>1 DEF Exempt, Replans
    <3>2. CASE f \notin sched'.replan
      <4>1. f # sched.other /\ ~ Exempt(f)
        BY <2>1, <2>2, <3>2 DEF Exempt, At
      <4>2. feature'[f] = feature[f]
        BY <1>0, <2>1, <4>1
      <4> QED
        BY <1>p, <2>1, <4>1, <4>2 DEF Paused, Blocked, Planned, Running
    <3> QED
      BY <3>1, <3>2
  <2> QED
    BY <2>2, <2>3 DEF PausedInv, At
<1>16. CASE ResumeCancelled
  BY <1>16, <1>t DEF ResumeCancelled
<1>17. CASE ResumedAll
  <2>1. sched.at = "resuming" /\ UNCHANGED << feature, task >> /\ BackToReleasing({})
    BY <1>17 DEF ResumedAll, At
  <2>2. sched'.at = "releasing" /\ sched.replan \subseteq sched'.replan
    BY <1>0, <2>1 DEF BackToReleasing, SchedType
  <2> QED
    BY <2>1, <2>2, <1>s, <1>b, ReleasingPaused DEF Replans
<1>18. CASE ReleasedAll
  <2>1. sched.at = "releasing" /\ UNCHANGED << feature, task >>
    BY <1>18 DEF ReleasedAll, At
  <2>2. sched'.at = "rerouting" /\ sched.replan = sched'.replan
    BY <1>0, <1>18 DEF ReleasedAll, SchedType
  <2> QED
    BY <2>1, <2>2, <1>s, <1>b, ReleasingPaused DEF Replans
<1>19. ASSUME NEW f \in Features, RerouteNext(f) PROVE PausedInv'
  <2>1. /\ sched.at = "rerouting" /\ UNCHANGED task /\ Reroutable(f)
        /\ sched' = [sched EXCEPT !.replan = @ \ {f}]
        /\ feature' = [feature EXCEPT ![f] = Rerouted(f)]
    BY <1>19, <1>t DEF RerouteNext, At, RerouteToReplan
  <2>2. sched'.at = "rerouting" /\ sched'.replan = sched.replan \ {f}
    BY <1>0, <2>1 DEF SchedType
  <2>3. ASSUME NEW g \in Features PROVE Paused(g)' \/ Exempt(g)'
    <3>1. CASE g = f
      <4>1. feature'[g].work = "replanning" /\ ~ feature'[g].planner
        BY <1>0, <2>1, <3>1, ReroutedTyped
      <4> QED
        BY <4>1 DEF Paused, Planned
    <3>2. CASE g # f
      <4>1. feature'[g] = feature[g]
        BY <1>0, <2>1, <3>2
      <4>2. Exempt(g) => Exempt(g)'
        BY <2>1, <2>2, <3>2 DEF Exempt, At, Replans
      <4> QED
        BY <1>p, <2>1, <4>1, <4>2 DEF Paused, Blocked, Planned, Running
    <3> QED
      BY <3>1, <3>2
  <2> QED
    BY <2>2, <2>3 DEF PausedInv, At
<1>20. CASE ReroutedAll
  <2>1. /\ sched.at = "rerouting" /\ sched.replan = {} /\ sched' = Idle
        /\ UNCHANGED << feature, task >>
    BY <1>20 DEF ReroutedAll, EndTick, At
  <2>2. \A f \in Features : ~ Exempt(f)
    BY <2>1 DEF Exempt, At
  <2> QED
    BY <2>1, <2>2, <1>s, <1>b, OnwardPaused, IdleTyped
<1>21. ASSUME NEW f \in Features, EnterTrain(f) PROVE PausedInv'
  <2>1. NoneBlocked
    BY <1>0, <1>21 DEF EnterTrain, NoneBlocked, Blocked, Planned, FeatureRow
  <2> QED
    BY <2>1, <1>21, <1>s, AsidePaused DEF EnterTrain, At
<1>22. ASSUME Integrated PROVE sched'.at = "overlaps"
  BY <1>0, <1>22 DEF Integrated, SchedType
<1>23. ASSUME NEW f \in Features, NEW merges \in BOOLEAN, Integrate(f, merges)
       PROVE  PausedInv'
  <2>1. sched.at = "idle" /\ UNCHANGED task /\ sched'.at = "overlaps"
    BY <1>22, <1>23 DEF Integrate, Integrated, At
  <2>2. NoneBlocked
    <3>1. CASE merges
      BY <1>0, <1>23, <3>1 DEF Integrate, NoneBlocked, Blocked, Planned, FeatureRow
    <3>2. CASE ~ merges
      <4>1. feature' = [feature EXCEPT ![f] = Rerouted(f)]
        BY <1>23, <3>2 DEF Integrate
      <4> QED
        BY <1>0, <4>1, ReroutedOnward
    <3> QED
      BY <3>1, <3>2
  <2> QED
    BY <2>1, <2>2, <1>s, OnwardPaused, NoneExempt
<1>24. CASE NothingToIntegrate
  <2>1. sched.at = "idle" /\ UNCHANGED << feature, task >> /\ sched'.at = "overlaps"
    BY <1>22, <1>24 DEF NothingToIntegrate, Integrated, At
  <2> QED
    BY <2>1, <1>s, <1>b, OnwardPaused, NoneExempt
<1>25. CASE BeginDispatch
  <2>1. /\ sched.at = "overlaps" /\ UNCHANGED << feature, task >>
    BY <1>25 DEF BeginDispatch, At
  <2>2. sched'.at = "dispatching" /\ sched'.todo = ReadyTasks
    BY <1>0, <1>25 DEF BeginDispatch, SchedType
  <2>3. ASSUME NEW f \in Features PROVE Paused(f)'
    BY <1>p, <2>1, NoneExempt DEF Paused, Blocked, Planned, Running
  <2>4. \A t \in ReadyTasks : feature[FeatureOf[t]].block = None
    BY DEF ReadyTasks
  <2> QED
    BY <2>1, <2>2, <2>3, <2>4 DEF PausedInv, At, Blocked
<1>26. ASSUME NEW t \in Tasks, DispatchTask(t) PROVE PausedInv'
  <2>1. /\ sched.at = "dispatching" /\ t \in sched.todo /\ UNCHANGED feature
        /\ \/ /\ sched' = [sched EXCEPT !.todo = @ \ {t}]
              /\ \E new : Transition(t, new)
           \/ sched' = Idle /\ UNCHANGED task
    BY <1>26 DEF DispatchTask, EndTick, At
  <2>2. CASE sched' = Idle /\ UNCHANGED task
    BY <2>1, <2>2, <1>s, <1>b, OnwardPaused, NoneExempt, IdleTyped
  <2>3. CASE sched' = [sched EXCEPT !.todo = @ \ {t}] /\ \E new : Transition(t, new)
    <3>1. sched'.at = "dispatching" /\ sched'.todo = sched.todo \ {t}
      BY <1>0, <2>1, <2>3 DEF SchedType
    <3>2. \A u \in Tasks \ {t} : task'[u] = task[u]
      BY <1>0, <2>3 DEF Transition
    <3>3. ~ Blocked(FeatureOf[t])
      BY <1>p, <2>1 DEF At
    <3>4. ASSUME NEW f \in Features PROVE Paused(f)'
      <4>1. CASE f = FeatureOf[t]
        BY <2>1, <3>3, <4>1 DEF Paused, Blocked
      <4>2. CASE f # FeatureOf[t]
        <5>1. \A u \in TasksOf(f) : task'[u] = task[u]
          BY <3>2, <4>2 DEF TasksOf
        <5>2. Paused(f)
          BY <1>p, <2>1, NoneExempt
        <5> QED
          BY <2>1, <5>1, <5>2 DEF Paused, Blocked, Planned, Running, TasksOf
      <4> QED
        BY <4>1, <4>2
    <3> QED
      BY <1>p, <2>1, <3>1, <3>4 DEF PausedInv, At, Blocked
  <2> QED
    BY <2>1, <2>2, <2>3
<1>27. ASSUME NEW f \in Features, DispatchReplan(f) PROVE PausedInv'
  <2>1. /\ sched.at = "dispatching" /\ UNCHANGED << task, sched, dropped >>
        /\ feature[f].block = None
        /\ feature' = [feature EXCEPT ![f].planner = TRUE]
    BY <1>27 DEF DispatchReplan, ReplanReady, At
  <2>2. NoneBlocked
    BY <1>0, <2>1 DEF NoneBlocked, Blocked, Planned, FeatureRow
  <2> QED
    BY <2>1, <2>2, <1>s, AsidePaused DEF At
<1>28. CASE EndDispatch
  BY <1>28, <1>s, <1>b, OnwardPaused, NoneExempt, IdleTyped DEF EndDispatch, EndTick, At
<1>29. CASE CrossCrash
  <2>1. sched.at \in {"idle", "overlaps", "dispatching"}
    BY <1>0, <1>29 DEF CrossCrash, SchedType, Places
  <2> QED
    BY <2>1, <1>29, <1>s, <1>b, OnwardPaused, NoneExempt, IdleTyped DEF CrossCrash
<1>30. CASE UNCHANGED crossVars
  BY <1>30, <1>s, <1>b, AsidePaused DEF crossVars
<1> QED
  BY <1>1, <1>2, <1>3, <1>4, <1>5, <1>6, <1>7, <1>9, <1>10, <1>11, <1>12, <1>13, <1>14,
     <1>15, <1>16, <1>17, <1>18, <1>19, <1>20, <1>21, <1>23, <1>24, <1>25, <1>26, <1>27,
     <1>28, <1>29, <1>30
     DEF CrossNext, CrossLoop, HandleWork, Suspending, Releasing, RestOfTick

\* Nothing is blocked at first.
LEMMA PausedInit == InitCross => PausedInv
BY DEF InitCross, PausedInv, Paused, Blocked, Planned, TasksOf, Running, At, Idle

\* PausedInv holds across denied claims, overlaps, landings, failed rebases,
\* replans and cancellations, until a handler is cut short.
THEOREM PausedInvariant == CrossSpec => []PausedInv
<1>1. InitCross => PausedInv
  BY PausedInit
<1>2. TypeInv /\ PausedInv /\ [CrossNext]_crossVars => PausedInv'
  BY PausedStep
<1> QED
  BY <1>1, <1>2, CrossInvariant, PTL DEF CrossSpec

\* Whenever the loop is between two handlers, the secondary feature is paused as a
\* whole: no task of a blocked feature that executes is running.
THEOREM SecondaryStopped == CrossSpec => []SecondaryPaused
<1>1. PausedInv => SecondaryPaused
  <2> SUFFICES ASSUME PausedInv, At("idle"), ~ dropped, NEW t \in Tasks,
                      feature[FeatureOf[t]].work = "executing", Blocked(FeatureOf[t])
               PROVE  ~ Running(t)
    BY DEF SecondaryPaused, Blocked
  <2>1. FeatureOf[t] \in Features /\ t \in TasksOf(FeatureOf[t])
    BY TaskConstants DEF TasksOf
  <2>2. Paused(FeatureOf[t])
    BY <2>1, NoneExempt DEF PausedInv, At
  <2> QED
    BY <2>1, <2>2 DEF Paused, Planned
<1> QED
  BY <1>1, PausedInvariant, PTL

----------------------------------------------------------------------------
(* A suspended task waits behind a block *)

\* A suspended task waits behind the block of its feature, or is about to be
\* resumed.
SuspendedInv ==
    ~ dropped =>
        \A t \in Tasks : Suspended(t) /\ Standing(FeatureOf[t]) =>
            Blocked(FeatureOf[t]) \/ (At("resuming") /\ FeatureOf[t] = sched.other)

\* Steps that suspend no task, and that unblock none but a cancelled feature.
NoneSuspended == \A t \in Tasks : Suspended(t)' => Suspended(t)
NoneUnblocked ==
    \A f \in Features : Standing(f)' => Standing(f) /\ (Blocked(f) => Blocked(f)')

\* Such steps leave the suspended tasks where they are.
LEMMA StaysBehind ==
    ASSUME SuspendedInv, NoneSuspended, NoneUnblocked, ~ dropped,
           sched' = sched \/ ~ At("resuming")
    PROVE  SuspendedInv'
<1> SUFFICES ASSUME NEW t \in Tasks, Suspended(t)', Standing(FeatureOf[t])'
             PROVE  (\/ Blocked(FeatureOf[t])
                     \/ At("resuming") /\ FeatureOf[t] = sched.other)'
  BY DEF SuspendedInv
<1>1. FeatureOf[t] \in Features
  BY TaskConstants
<1>2. Suspended(t) /\ Standing(FeatureOf[t])
  BY <1>1 DEF NoneSuspended, NoneUnblocked
<1>3. Blocked(FeatureOf[t]) \/ (At("resuming") /\ FeatureOf[t] = sched.other)
  BY <1>2 DEF SuspendedInv
<1> QED
  BY <1>1, <1>3 DEF At, NoneUnblocked

\* Rerouting keeps the block, and only of a feature that stands.
LEMMA ReroutedStands ==
    ASSUME TypeInv, NEW f \in Features,
           \A g \in Features : feature'[g] = IF g = f THEN Rerouted(f) ELSE feature[g]
    PROVE  NoneUnblocked
<1>1. feature \in [Features -> FeatureRow]
  BY TypeParts
<1> QED
  BY <1>1, ReroutedTyped DEF NoneUnblocked, Blocked, Standing

\* A transition that keeps the worktree suspended nobody.
LEMMA MovedSuspends ==
    ASSUME TypeInv, NEW t \in Tasks, NEW new, Transition(t, new),
           new.collab = "suspended" => Suspended(t)
    PROVE  NoneSuspended
<1>1. task \in [Tasks -> TaskRow]
  BY TypeParts
<1> QED
  BY <1>1 DEF NoneSuspended, Suspended, Transition, Moved, TaskRow

\* A block that is put suspends nobody yet.
LEMMA BlockStays ==
    ASSUME TypeInv, SuspendedInv, ~ dropped, UNCHANGED task,
           NEW pair \in Features \X Features, NEW back \in {"idle", "overlaps"},
           BlockSecondary(pair, back), sched.at \in {"idle", "overlaps"}
    PROVE  SuspendedInv'
<1>1. NoneSuspended
  BY DEF NoneSuspended, Suspended
<1>2. NoneUnblocked
  <2>0. feature \in [Features -> FeatureRow] /\ pair[1] # None
    BY TypeParts, FeatureConstants
  <2>1. CASE UNCHANGED feature
    BY <2>1 DEF NoneUnblocked, Blocked, Standing
  <2>2. CASE feature' = [feature EXCEPT ![pair[2]].block = pair[1]]
    BY <2>0, <2>2 DEF NoneUnblocked, Blocked, Standing, FeatureRow
  <2> QED
    BY <2>1, <2>2, BlockTyped
<1> QED
  BY <1>1, <1>2, StaysBehind DEF At

\* A task is suspended after its feature is blocked, and resumed or left behind a
\* new block before its feature is let go.
LEMMA SuspendedStep ==
    TypeInv /\ PausedInv /\ SuspendedInv /\ [CrossNext]_crossVars => SuspendedInv'
<1> SUFFICES ASSUME TypeInv, PausedInv, SuspendedInv, [CrossNext]_crossVars,
                    ~ dropped, ~ dropped'
             PROVE SuspendedInv'
  BY DroppedStays DEF SuspendedInv
<1>0. /\ feature \in [Features -> FeatureRow]
      /\ task \in [Tasks -> TaskRow]
      /\ sched \in SchedType
      /\ At("suspending") =>
            /\ sched.primary \in Features /\ sched.other \in Features
            /\ sched.todo \subseteq TasksOf(sched.other)
            /\ feature[sched.other].block = sched.primary
      /\ At("resuming") => sched.primary \in Features /\ sched.other \in Features
  BY TypeParts DEF PausedInv, At
<1>c. None \notin Features
  BY FeatureConstants
<1>s. UNCHANGED task => NoneSuspended
  BY DEF NoneSuspended, Suspended
<1>u. UNCHANGED feature => NoneUnblocked
  BY DEF NoneUnblocked, Blocked, Standing
<1>t. ~ Throw
  BY DEF Throw
<1>1. ASSUME NEW t \in Tasks, NEW p \in Paths, Claim(t, p) PROVE SuspendedInv'
  BY <1>1, <1>s, <1>u, StaysBehind DEF Claim, Outside
<1>2. ASSUME NEW t \in Tasks, NEW how \in Ends, EndWorker(t, how) PROVE SuspendedInv'
  BY <1>2, <1>s, <1>u, StaysBehind DEF EndWorker, Outside
<1>3. ASSUME NEW f \in Features, Cancel(f) PROVE SuspendedInv'
  <2>1. NoneSuspended
    BY <1>0, <1>3 DEF Cancel, NoneSuspended, Suspended, TaskRow
  <2>2. NoneUnblocked
    <3>1. feature'[f].collab = "cancelled"
      BY <1>0, <1>3 DEF Cancel, FeatureRow
    <3>2. \A g \in Features \ {f} : feature'[g] = feature[g]
      BY <1>0, <1>3 DEF Cancel
    <3> QED
      BY <3>1, <3>2 DEF NoneUnblocked, Blocked, Standing
  <2> QED
    BY <2>1, <2>2, <1>3, StaysBehind DEF Cancel, Outside
<1>4. ASSUME NEW f \in Features, NEW new \in SUBSET Tasks, ApproveReplan(f, new)
      PROVE  SuspendedInv'
  <2>1. NoneSuspended
    BY <1>0, <1>4 DEF ApproveReplan, NoneSuspended, Suspended, TaskRow
  <2>2. NoneUnblocked
    BY <1>0, <1>4 DEF ApproveReplan, NoneUnblocked, Blocked, Standing, FeatureRow
  <2> QED
    BY <2>1, <2>2, <1>4, StaysBehind DEF ApproveReplan, Outside
<1>5. ASSUME NEW t \in Tasks, SuspendNext(t) PROVE SuspendedInv'
  <2>1. /\ FeatureOf[t] = sched.other /\ Blocked(FeatureOf[t])' /\ At("suspending")
        /\ UNCHANGED feature
    BY <1>0, <1>5, <1>c DEF SuspendNext, TasksOf, Blocked
  <2>2. \A u \in Tasks \ {t} : task'[u] = task[u]
    BY <1>0, <1>5 DEF SuspendNext
  <2>3. ASSUME NEW u \in Tasks, Suspended(u)', Standing(FeatureOf[u])'
        PROVE  Blocked(FeatureOf[u])'
    <3>1. CASE u = t
      BY <2>1, <3>1
    <3>2. CASE u # t
      BY <2>1, <2>2, <2>3, <3>2 DEF SuspendedInv, Suspended, Standing, Blocked, At
    <3> QED
      BY <3>1, <3>2
  <2> QED
    BY <2>3 DEF SuspendedInv
<1>6. CASE SuspendedAll
  BY <1>6, <1>s, <1>u, StaysBehind DEF SuspendedAll, At
<1>7. ASSUME NEW t \in Tasks, GrantClaim(t) PROVE SuspendedInv'
  BY <1>7, <1>s, <1>u, StaysBehind DEF GrantClaim
<1>9. ASSUME NEW t \in Tasks, DenyClaim(t) PROVE SuspendedInv'
  <2>1. claim[t] \in Paths /\ holder[claim[t]] \in Tasks
    BY <1>9, TypeParts, FeatureConstants DEF DenyClaim
  <2>2. Ranked(FeatureOf[t], FeatureOf[holder[claim[t]]]) \in Features \X Features
    BY <2>1, RankedTyped, TaskConstants
  <2> QED
    BY <2>2, <1>9, BlockStays DEF DenyClaim, At
<1>10. ASSUME NEW pair \in Features \X Features, CoordinatePair(pair) PROVE SuspendedInv'
  <2>1. CASE BlockSecondary(pair, "overlaps")
    BY <2>1, <1>10, BlockStays DEF CoordinatePair, At
  <2>2. CASE UNCHANGED feature
    BY <2>2, <1>10, <1>s, <1>u, StaysBehind DEF CoordinatePair, At
  <2> QED
    BY <2>1, <2>2, <1>10 DEF CoordinatePair
<1>11. ASSUME NEW t \in Tasks, NEW squashed \in BOOLEAN, HandleEnd(t, squashed)
       PROVE  SuspendedInv'
  <2> DEFINE new == CASE worker[t] = "implicit" -> WithStatus(t, "done")
                      [] worker[t] = "error" -> WithStatus(t, "ready")
                      [] worker[t] = "submitted" /\ squashed ->
                            [status |-> "done", collab |-> "merged"]
                      [] OTHER -> WithStatus(t, "failed")
  <2>1. new.collab \in {"merged", task[t].collab}
    BY DEF WithStatus
  <2>2. /\ sched' = sched /\ At("idle")
        /\ UNCHANGED task \/ (Transition(t, new) /\ task[t].status # "cancelled")
        /\ UNCHANGED feature \/ RerouteToReplan(FeatureOf[t])
    BY <1>11 DEF HandleEnd
  <2> HIDE DEF new
  <2>3. NoneSuspended
    BY <1>s, <2>1, <2>2, MovedSuspends DEF Suspended
  <2>4. NoneUnblocked
    <3>1. FeatureOf[t] \in Features
      BY TaskConstants
    <3> QED
      BY <1>0, <1>u, <2>2, <3>1, ReroutedStands DEF RerouteToReplan
  <2> QED
    BY <2>2, <2>3, <2>4, StaysBehind DEF At
<1>12. ASSUME NEW p \in Features, HandleLanded(p) PROVE SuspendedInv'
  BY <1>12, <1>s, <1>u, StaysBehind DEF HandleLanded, At
<1>13. ASSUME NEW f \in Features, NEW clean \in BOOLEAN, ReleaseOne(f, clean)
       PROVE  SuspendedInv'
  <2>1. sched.at = "releasing" /\ UNCHANGED task
    BY <1>13 DEF ReleaseOne, At
  <2>2. CASE UNCHANGED feature
    BY <2>1, <2>2, <1>s, <1>u, StaysBehind DEF At
  <2>3. CASE sched' = [sched EXCEPT !.at = "resuming", !.other = f] /\ Block(f, None)
    <3>1. sched'.at = "resuming" /\ sched'.other = f
      BY <1>0, <2>3 DEF SchedType
    <3>2. /\ \A g \in Features \ {f} : feature'[g] = feature[g]
          /\ feature'[f].collab = feature[f].collab
      BY <1>0, <2>3 DEF Block, FeatureRow
    <3>3. ASSUME NEW t \in Tasks, Suspended(t)', Standing(FeatureOf[t])', FeatureOf[t] # f
          PROVE  Blocked(FeatureOf[t])'
      <4>1. FeatureOf[t] \in Features \ {f}
        BY <3>3, TaskConstants
      <4> QED
        BY <2>1, <3>2, <3>3, <4>1 DEF SuspendedInv, Suspended, Standing, Blocked, At
    <3> QED
      BY <3>1, <3>3 DEF SuspendedInv, At
  <2> QED
    BY <1>13, <1>t, <2>2, <2>3 DEF ReleaseOne
<1>14. ASSUME NEW t \in Tasks, ResumeTask(t) PROVE SuspendedInv'
  <2> DEFINE new == [status |-> IF Live(t) THEN task[t].status ELSE "ready",
                     collab |-> "branch_open"]
  <2>1. Transition(t, new) /\ UNCHANGED << feature, sched >>
    BY <1>14, <1>t DEF ResumeTask
  <2> HIDE DEF new
  <2>2. NoneSuspended
    BY <2>1, MovedSuspends DEF new
  <2> QED
    BY <2>1, <2>2, <1>u, StaysBehind
<1>15. ASSUME NEW t \in Tasks, ResumeFails(t) PROVE SuspendedInv'
  <2>1. /\ At("resuming") /\ UNCHANGED task /\ sched.other \in Features
        /\ sched.primary # None
        /\ feature' = [feature EXCEPT ![sched.other].block = sched.primary]
    BY <1>0, <1>15, <1>t, <1>c DEF ResumeFails, Block
  <2>2. /\ feature'[sched.other].block # None
        /\ \A g \in Features \ {sched.other} : feature'[g] = feature[g]
    BY <1>0, <2>1 DEF FeatureRow
  <2>3. ASSUME NEW u \in Tasks, Suspended(u)', Standing(FeatureOf[u])'
        PROVE  Blocked(FeatureOf[u])'
    <3>1. CASE FeatureOf[u] = sched.other
      BY <2>2, <3>1 DEF Blocked
    <3>2. CASE FeatureOf[u] # sched.other
      <4>1. FeatureOf[u] \in Features \ {sched.other}
        BY <3>2, TaskConstants
      <4> QED
        BY <2>1, <2>2, <2>3, <3>2, <4>1 DEF SuspendedInv, Suspended, Standing, Blocked
    <3> QED
      BY <3>1, <3>2
  <2> QED
    BY <2>3 DEF SuspendedInv
<1>16. CASE ResumeCancelled
  BY <1>16, <1>t DEF ResumeCancelled
<1>17. CASE ResumedAll
  <2>1. /\ UNCHANGED << feature, task >>
        /\ \A t \in TasksOf(sched.other) : ~ Suspended(t)
    BY <1>17 DEF ResumedAll
  <2>2. ASSUME NEW t \in Tasks, Suspended(t), Standing(FeatureOf[t])
        PROVE  Blocked(FeatureOf[t])
    BY <2>1, <2>2 DEF SuspendedInv, TasksOf
  <2> QED
    BY <2>1, <2>2 DEF SuspendedInv, Suspended, Standing, Blocked
<1>18. CASE ReleasedAll
  BY <1>18, <1>s, <1>u, StaysBehind DEF ReleasedAll, At
<1>19. ASSUME NEW f \in Features, RerouteNext(f) PROVE SuspendedInv'
  <2>1. NoneUnblocked
    BY <1>0, <1>19, ReroutedStands DEF RerouteNext, RerouteToReplan
  <2> QED
    BY <1>19, <1>s, <2>1, StaysBehind DEF RerouteNext, At
<1>20. CASE ReroutedAll
  BY <1>20, <1>s, <1>u, StaysBehind DEF ReroutedAll, At
<1>21. ASSUME NEW f \in Features, EnterTrain(f) PROVE SuspendedInv'
  <2>1. NoneUnblocked
    BY <1>0, <1>21 DEF EnterTrain, NoneUnblocked, Blocked, Standing, FeatureRow
  <2> QED
    BY <2>1, <1>21, <1>s, StaysBehind DEF EnterTrain
<1>23. ASSUME NEW f \in Features, NEW merges \in BOOLEAN, Integrate(f, merges)
       PROVE  SuspendedInv'
  <2>1. NoneUnblocked
    <3>1. CASE merges
      BY <1>0, <1>23, <3>1 DEF Integrate, NoneUnblocked, Blocked, Standing, FeatureRow
    <3>2. CASE ~ merges
      <4>1. feature' = [feature EXCEPT ![f] = Rerouted(f)]
        BY <1>23, <3>2 DEF Integrate
      <4> QED
        BY <1>0, <4>1, ReroutedStands
    <3> QED
      BY <3>1, <3>2
  <2> QED
    BY <2>1, <1>23, <1>s, StaysBehind DEF Integrate, Integrated, At
<1>24. CASE NothingToIntegrate
  BY <1>24, <1>s, <1>u, StaysBehind DEF NothingToIntegrate, Integrated, At
<1>25. CASE BeginDispatch
  BY <1>25, <1>s, <1>u, StaysBehind DEF BeginDispatch, At
<1>26. ASSUME NEW t \in Tasks, DispatchTask(t) PROVE SuspendedInv'
  <2> DEFINE opened == [status |-> "running", collab |-> "branch_open"]
  <2>1. /\ At("dispatching") /\ UNCHANGED feature
        /\ Transition(t, opened) \/ UNCHANGED task
    BY <1>26 DEF DispatchTask
  <2> HIDE DEF opened
  <2>2. NoneSuspended
    BY <2>1, <1>s, MovedSuspends DEF opened
  <2> QED
    BY <2>1, <2>2, <1>u, StaysBehind DEF At
<1>27. ASSUME NEW f \in Features, DispatchReplan(f) PROVE SuspendedInv'
  <2>1. NoneUnblocked
    BY <1>0, <1>27 DEF DispatchReplan, NoneUnblocked, Blocked, Standing, FeatureRow
  <2> QED
    BY <2>1, <1>27, <1>s, StaysBehind DEF DispatchReplan
<1>28. CASE EndDispatch
  BY <1>28, <1>s, <1>u, StaysBehind DEF EndDispatch, At
<1>29. CASE CrossCrash
  BY <1>29, <1>s, <1>u, StaysBehind DEF CrossCrash, At
<1>30. CASE UNCHANGED crossVars
  BY <1>30, <1>s, <1>u, StaysBehind DEF crossVars
<1> QED
  BY <1>1, <1>2, <1>3, <1>4, <1>5, <1>6, <1>7, <1>9, <1>10, <1>11, <1>12, <1>13, <1>14,
     <1>15, <1>16, <1>17, <1>18, <1>19, <1>20, <1>21, <1>23, <1>24, <1>25, <1>26, <1>27,
     <1>28, <1>29, <1>30
     DEF CrossNext, CrossLoop, HandleWork, Suspending, Releasing, RestOfTick

\* Whenever the loop is between two handlers, a task suspended for another feature
\* has a block that a later landing will find: none is left behind for ever.
THEOREM SuspendedWaitBehind == CrossSpec => []SuspendedAreBlocked
<1>1. InitCross => SuspendedInv
  BY DEF InitCross, SuspendedInv, Suspended
<1>2. TypeInv /\ PausedInv /\ SuspendedInv /\ [CrossNext]_crossVars => SuspendedInv'
  BY SuspendedStep
<1>3. SuspendedInv => SuspendedAreBlocked
  BY DEF SuspendedInv, SuspendedAreBlocked, Blocked, At
<1> QED
  BY <1>1, <1>2, <1>3, CrossInvariant, PausedInvariant, PTL DEF CrossSpec

----------------------------------------------------------------------------
(* The overlaps of a tick *)

Executing(t) == feature[FeatureOf[t]].work = "executing"

\* While the pairs are gone through, two running tasks that overlap are of a
\* pair that is left, or of the one being suspended.
Coordinating == At("overlaps") \/ (At("suspending") /\ sched.back = "overlaps")

Pending(f, g) == \/ \E pair \in sched.pairs : {pair[1], pair[2]} = {f, g}
                 \/ At("suspending") /\ sched.other \in {f, g}

\* No overlap of two executing features is passed over.
OverlapsInv ==
    Coordinating /\ ~ dropped =>
        \A t, u \in Tasks :
            Running(t) /\ Running(u) /\ Executing(t) /\ Executing(u) /\ Overlap(t, u)
                => Pending(FeatureOf[t], FeatureOf[u])

\* The pairs of a tick are those of the tasks that run then.
LEMMA PairsPending ==
    ASSUME TypeInv, NEW t \in Tasks, NEW u \in Tasks,
           Running(t), Running(u), Overlap(t, u)
    PROVE  \E pair \in OverlapPairs : {pair[1], pair[2]} = {FeatureOf[t], FeatureOf[u]}
<1> DEFINE pair == Ranked(FeatureOf[t], FeatureOf[u])
<1>1. << t, u >> \in {tu \in Tasks \X Tasks : /\ Running(tu[1]) /\ Running(tu[2])
                                              /\ Overlap(tu[1], tu[2])}
  OBVIOUS
<1>2. pair \in OverlapPairs
  BY <1>1 DEF OverlapPairs
<1>3. {pair[1], pair[2]} = {FeatureOf[t], FeatureOf[u]}
  BY RankedTyped, TaskConstants
<1> QED
  BY <1>2, <1>3

\* Who is not the loop starts nothing while the pairs are gone through.
LEMMA AsidePending ==
    ASSUME OverlapsInv, ~ dropped, NoneStarted, sched' = sched,
           \A f \in Features :
              feature'[f].work = "executing" => feature[f].work = "executing"
    PROVE  OverlapsInv'
<1> SUFFICES ASSUME Coordinating', NEW t \in Tasks, NEW u \in Tasks,
                    Running(t)', Running(u)', Executing(t)', Executing(u)', Overlap(t, u)
             PROVE  Pending(FeatureOf[t], FeatureOf[u])'
  BY DEF OverlapsInv, Overlap
<1>1. Coordinating /\ Running(t) /\ Running(u) /\ Executing(t) /\ Executing(u)
  BY TaskConstants DEF Coordinating, At, NoneStarted, Executing
<1>2. Pending(FeatureOf[t], FeatureOf[u])
  BY <1>1 DEF OverlapsInv
<1> QED
  BY <1>2 DEF Pending, At

\* A pair is struck off when one of its features is blocked, and so has no
\* running task, or when its secondary has been suspended.
LEMMA OverlapsStep ==
    TypeInv /\ PausedInv /\ OverlapsInv /\ [CrossNext]_crossVars => OverlapsInv'
<1> SUFFICES ASSUME TypeInv, PausedInv, OverlapsInv, [CrossNext]_crossVars,
                    ~ dropped, ~ dropped', Coordinating'
             PROVE  OverlapsInv'
  BY DroppedStays DEF OverlapsInv
<1>0. /\ feature \in [Features -> FeatureRow]
      /\ task \in [Tasks -> TaskRow]
      /\ sched \in SchedType
      /\ At("suspending") =>
            /\ sched.primary \in Features /\ sched.other \in Features
            /\ sched.todo \subseteq TasksOf(sched.other)
            /\ \A t \in TasksOf(sched.other) : Running(t) => t \in sched.todo
  BY TypeParts DEF PausedInv, At
<1>p. sched'.at \in {"overlaps", "suspending"}
  BY DEF Coordinating, At
<1>i. sched' # Idle
  BY <1>p, IdleTyped
<1>t. ~ Throw
  BY DEF Throw
<1>a. ASSUME sched' = sched, UNCHANGED << feature, task >> PROVE OverlapsInv'
  BY <1>a, AsidePending DEF NoneStarted, Running
<1>1. ASSUME NEW t \in Tasks, NEW p \in Paths, Claim(t, p) PROVE OverlapsInv'
  BY <1>1, <1>a DEF Claim, Outside
<1>2. ASSUME NEW t \in Tasks, NEW how \in Ends, EndWorker(t, how) PROVE OverlapsInv'
  BY <1>2, <1>a DEF EndWorker, Outside
<1>3. ASSUME NEW f \in Features, Cancel(f) PROVE OverlapsInv'
  <2>1. NoneStarted
    BY <1>0, <1>3 DEF Cancel, NoneStarted, Running, TaskRow
  <2>2. \A g \in Features : feature'[g].work = feature[g].work
    BY <1>0, <1>3 DEF Cancel, FeatureRow
  <2> QED
    BY <2>1, <2>2, <1>3, AsidePending DEF Cancel, Outside
<1>4. ASSUME NEW t \in Tasks, SuspendNext(t) PROVE OverlapsInv'
  <2>1. At("suspending") /\ UNCHANGED feature
    BY <1>4 DEF SuspendNext
  <2>2. /\ sched'.at = "suspending" /\ sched'.other = sched.other
        /\ sched'.back = sched.back /\ sched'.pairs = sched.pairs
    BY <1>0, <1>4, <2>1 DEF SuspendNext, SchedType, At
  <2>3. \A u \in Tasks : Running(u)' => Running(u)
    BY <1>0, <1>4 DEF SuspendNext, Running, TaskRow
  <2>4. \A f, g \in Features : Pending(f, g) => Pending(f, g)'
    BY <2>1, <2>2 DEF Pending, At
  <2>5. Coordinating
    BY <2>1, <2>2 DEF Coordinating, At
  <2> QED
    BY <2>1, <2>3, <2>4, <2>5, TaskConstants DEF OverlapsInv, Executing, Overlap
<1>5. CASE SuspendedAll
  <2>1. /\ At("suspending") /\ UNCHANGED << feature, task >>
        /\ \A t \in TasksOf(sched.other) : ~ Running(t)
    BY <1>0, <1>5 DEF SuspendedAll
  <2>2. sched'.at = sched.back /\ sched'.pairs = sched.pairs
    BY <1>0, <1>5 DEF SuspendedAll, SchedType
  <2>3. Coordinating
    BY <1>0, <2>1, <2>2 DEF Coordinating, At, SchedType
  <2>4. ASSUME NEW t \in Tasks, NEW u \in Tasks, Running(t), Running(u), Executing(t),
               Executing(u), Overlap(t, u)
        PROVE  \E pair \in sched.pairs : {pair[1], pair[2]} = {FeatureOf[t], FeatureOf[u]}
    <3>1. sched.other \notin {FeatureOf[t], FeatureOf[u]}
      BY <2>1, <2>4 DEF TasksOf
    <3> QED
      BY <2>3, <2>4, <3>1 DEF OverlapsInv, Pending
  <2> QED
    BY <2>1, <2>2, <2>4 DEF OverlapsInv, Pending, Running, Executing, Overlap
<1>6. ASSUME NEW pair \in Features \X Features, CoordinatePair(pair) PROVE OverlapsInv'
  <2>1. At("overlaps") /\ UNCHANGED task /\ pair \in sched.pairs /\ Coordinating
    BY <1>6 DEF CoordinatePair, Coordinating
  <2>2. ASSUME BlockSecondary(pair, "overlaps") PROVE OverlapsInv'
    <3>1. /\ sched'.at = "suspending" /\ sched'.other = pair[2]
          /\ sched'.pairs = sched.pairs \ {pair}
          /\ feature' = [feature EXCEPT ![pair[2]].block = pair[1]]
      BY <2>2, <1>i, BlockTyped
    <3>2. \A f \in Features : feature'[f].work = feature[f].work
      BY <1>0, <3>1 DEF FeatureRow
    <3>3. \A f, g \in Features : Pending(f, g) => Pending(f, g)'
      BY <2>1, <3>1 DEF Pending, At
    <3> QED
      BY <2>1, <3>2, <3>3, TaskConstants DEF OverlapsInv, Running, Executing, Overlap
  <2>3. ASSUME sched' = [sched EXCEPT !.pairs = @ \ {pair}], UNCHANGED feature,
               \E f \in {pair[1], pair[2]} : Blocked(f)
        PROVE  OverlapsInv'
    <3>1. sched'.at = "overlaps" /\ sched'.pairs = sched.pairs \ {pair}
      BY <1>0, <2>1, <2>3 DEF SchedType, At
    <3>2. \A t \in Tasks : Running(t) /\ Executing(t) => ~ Blocked(FeatureOf[t])
      <4>1. \A f \in Features : Paused(f)
        BY <2>1, NoneExempt DEF PausedInv, At
      <4> QED
        BY <4>1, TaskConstants DEF Paused, Planned, TasksOf, Executing
    <3>3. ASSUME NEW t \in Tasks, NEW u \in Tasks, Running(t), Running(u), Executing(t),
                 Executing(u), Overlap(t, u)
          PROVE  \E p \in sched'.pairs : {p[1], p[2]} = {FeatureOf[t], FeatureOf[u]}
      <4>1. PICK p \in sched.pairs : {p[1], p[2]} = {FeatureOf[t], FeatureOf[u]}
        BY <2>1, <3>3 DEF OverlapsInv, Pending, At
      <4>2. p # pair
        BY <2>3, <3>2, <3>3, <4>1
      <4> QED
        BY <3>1, <4>1, <4>2
    <3> QED
      BY <2>1, <2>3, <3>3 DEF OverlapsInv, Pending, Running, Executing, Overlap
  <2> QED
    BY <1>6, <2>2, <2>3 DEF CoordinatePair, Blocked
<1>7. ASSUME NEW t \in Tasks, DenyClaim(t) PROVE FALSE
  <2>1. claim[t] \in Paths /\ holder[claim[t]] \in Tasks
    BY <1>7, TypeParts, FeatureConstants DEF DenyClaim
  <2> DEFINE pair == Ranked(FeatureOf[t], FeatureOf[holder[claim[t]]])
  <2>2. pair \in Features \X Features
    BY <2>1, RankedTyped, TaskConstants
  <2>3. BlockSecondary(pair, "idle")
    BY <1>7 DEF DenyClaim
  <2> HIDE DEF pair
  <2>4. sched'.at = "suspending" /\ sched'.back = "idle"
    BY <2>2, <2>3, <1>i, BlockTyped
  <2> QED
    BY <2>4 DEF Coordinating, At
<1>8. ASSUME Integrated, UNCHANGED task PROVE OverlapsInv'
  <2>1. sched'.pairs = OverlapPairs
    BY <1>0, <1>8 DEF Integrated, SchedType
  <2> QED
    BY <1>8, <2>1, PairsPending DEF OverlapsInv, Pending, Running, Overlap
<1>9. CASE HandleWork
  <2>1. ASSUME NEW t \in Tasks, NEW squashed \in BOOLEAN, HandleEnd(t, squashed)
        PROVE  FALSE
    BY <2>1, <1>p DEF HandleEnd, At
  <2>2. ASSUME NEW t \in Tasks, GrantClaim(t) PROVE FALSE
    BY <2>2, <1>p DEF GrantClaim, At
  <2>3. ASSUME NEW p \in Features, HandleLanded(p) PROVE FALSE
    BY <2>3, <1>0, <1>p, <1>i DEF HandleLanded, Throw, EndTick, SchedType
  <2> QED
    BY <1>7, <1>9, <2>1, <2>2, <2>3 DEF HandleWork
<1>10. CASE Releasing
  <2>1. sched.at \in {"releasing", "resuming", "rerouting"}
    BY <1>10 DEF Releasing, ReleaseOne, ResumeTask, ResumeFails, ResumeCancelled,
       ResumedAll, ReleasedAll, RerouteNext, ReroutedAll, At
  <2>2. \/ sched' = sched
        \/ sched'.at \in {"releasing", "resuming", "rerouting"}
    <3>1. ASSUME NEW f \in Features, NEW clean \in BOOLEAN, ReleaseOne(f, clean)
          PROVE  sched'.at \in {"releasing", "resuming"}
      BY <3>1, <1>0, <1>t DEF ReleaseOne, SchedType, At
    <3>2. ASSUME NEW t \in Tasks, ResumeTask(t) PROVE sched' = sched
      BY <3>2, <1>t DEF ResumeTask
    <3>3. \A replan : BackToReleasing(replan) => sched'.at = "releasing"
      BY <1>0 DEF BackToReleasing, SchedType
    <3>4. CASE ReleasedAll
      BY <3>4, <1>0 DEF ReleasedAll, SchedType
    <3>5. ASSUME NEW f \in Features, RerouteNext(f) PROVE sched'.at = "rerouting"
      BY <3>5, <1>0, <1>t DEF RerouteNext, SchedType, At
    <3> QED
      BY <1>10, <3>1, <3>2, <3>3, <3>4, <3>5, <1>t, <1>i
         DEF Releasing, ResumeFails, ResumeCancelled, ResumedAll, ReroutedAll, EndTick
  <2> QED
    BY <2>1, <2>2, <1>p
<1>11. CASE RestOfTick
  <2>1. ASSUME NEW f \in Features, NEW merges \in BOOLEAN, Integrate(f, merges)
        PROVE  OverlapsInv'
    BY <1>8, <2>1 DEF Integrate, Integrated
  <2>2. CASE NothingToIntegrate
    BY <1>8, <2>2 DEF NothingToIntegrate, Integrated
  <2>3. CASE BeginDispatch
    BY <1>0, <1>p, <2>3 DEF BeginDispatch, SchedType
  <2>4. ASSUME NEW t \in Tasks, DispatchTask(t) PROVE FALSE
    BY <1>0, <1>p, <1>i, <2>4 DEF DispatchTask, SchedType, At, EndTick
  <2>5. ASSUME NEW f \in Features, DispatchReplan(f) PROVE FALSE
    BY <1>p, <2>5 DEF DispatchReplan, At
  <2>6. ~ EndDispatch
    BY <1>i DEF EndDispatch, EndTick
  <2> QED
    BY <1>6, <1>11, <2>1, <2>2, <2>3, <2>4, <2>5, <2>6 DEF RestOfTick
<1>12. ASSUME NEW f \in Features, EnterTrain(f) PROVE FALSE
  BY <1>12, <1>p DEF EnterTrain, At
<1>13. ASSUME NEW f \in Features, NEW new \in SUBSET Tasks, ApproveReplan(f, new)
       PROVE  FALSE
  BY <1>13, <1>p DEF ApproveReplan, At, Outside
<1>14. ~ CrossCrash
  BY <1>i DEF CrossCrash
<1>15. CASE UNCHANGED crossVars
  BY <1>15, <1>a DEF crossVars
<1> QED
  BY <1>1, <1>2, <1>3, <1>4, <1>5, <1>9, <1>10, <1>11, <1>12, <1>13, <1>14, <1>15
     DEF CrossNext, CrossLoop, Suspending

\* When a tick goes on to dispatch, no two executing features run tasks that
\* reserve the same path, however many pairs the tick found.
THEOREM OverlapsSettled == CrossSpec => OverlapsCoordinated
<1>1. InitCross => OverlapsInv
  BY DEF InitCross, OverlapsInv, Coordinating, At, Idle
<1>2. TypeInv /\ PausedInv /\ OverlapsInv /\ [CrossNext]_crossVars => OverlapsInv'
  BY OverlapsStep
<1> DEFINE Settled == BeginDispatch /\ ~ dropped =>
          \A t, u \in Tasks :
              /\ Running(t) /\ Running(u)
              /\ feature[FeatureOf[t]].work = "executing"
              /\ feature[FeatureOf[u]].work = "executing"
              => ~ Overlap(t, u)
<1>3. OverlapsInv => Settled
  BY DEF OverlapsInv, Settled, BeginDispatch, Coordinating, Pending, Executing, At
<1>4. OverlapsInv /\ [CrossNext]_crossVars => [Settled]_crossVars
  BY <1>3
<1> HIDE DEF Settled
<1>5. CrossSpec => [][Settled]_crossVars
  BY <1>1, <1>2, <1>4, CrossInvariant, PausedInvariant, PTL DEF CrossSpec
<1> QED
  BY <1>5 DEF OverlapsCoordinated, Settled

----------------------------------------------------------------------------
(* Blocks and landings *)

\* Paths are claimed and held by tasks that may write to them.
WantedInv ==
    /\ \A t \in Tasks : claim[t] # None => claim[t] \in Wants[t]
    /\ \A p \in Paths : holder[p] # None => p \in Wants[holder[p]]

\* Nothing waits behind itself.
ApartInv ==
    /\ \A f \in Features : feature[f].block # f
    /\ \A t \in Tasks : task[t].by # FeatureOf[t]
    /\ \A pair \in sched.pairs : pair[1] # pair[2]
    /\ At("suspending") => sched.primary # sched.other
    /\ sched.at \in {"releasing", "resuming"} => sched.primary \notin sched.todo
    /\ At("resuming") => sched.primary # sched.other

\* A landing is reported, and features are released, after the merge.
MergedInv ==
    /\ \A p \in landed : OnMain(p)
    /\ sched.at \in {"releasing", "resuming"} => OnMain(sched.primary)

\* Work that has landed stays on main: what is merged can still be cancelled, but
\* neither rerouted nor integrated again.
LEMMA OnMainStays ==
    ASSUME TypeInv, [CrossNext]_crossVars, NEW f \in Features, OnMain(f)
    PROVE  OnMain(f)'
<1>0. feature \in [Features -> FeatureRow]
  BY TypeParts
<1>r. \A g \in Features : feature' = [feature EXCEPT ![g] = Rerouted(g)] => OnMain(f)'
  <2>1. Rerouted(f).work = feature[f].work /\ Rerouted(f).collab = feature[f].collab
    BY <1>0 DEF Rerouted, Reroutable, OnMain, FeatureRow
  <2> QED
    BY <1>0, <2>1 DEF OnMain
<1>b. \A g \in Features : \A p : Block(g, p) => OnMain(f)'
  BY <1>0 DEF Block, OnMain, FeatureRow
<1>u. UNCHANGED feature => OnMain(f)'
  BY DEF OnMain
<1>s. ASSUME NEW pair \in Features \X Features, NEW back, BlockSecondary(pair, back)
      PROVE  OnMain(f)'
  BY <1>s, <1>b, <1>u DEF BlockSecondary
<1>1. CASE HandleWork
  <2>1. ASSUME NEW t \in Tasks, DenyClaim(t) PROVE OnMain(f)'
    <3>1. claim[t] \in Paths /\ holder[claim[t]] \in Tasks
      BY <2>1, TypeParts, FeatureConstants DEF DenyClaim
    <3>2. Ranked(FeatureOf[t], FeatureOf[holder[claim[t]]]) \in Features \X Features
      BY <3>1, RankedTyped, TaskConstants
    <3> QED
      BY <2>1, <3>2, <1>s DEF DenyClaim
  <2>2. ASSUME NEW t \in Tasks, NEW squashed \in BOOLEAN, HandleEnd(t, squashed)
        PROVE  OnMain(f)'
    <3>1. UNCHANGED feature \/ RerouteToReplan(FeatureOf[t])
      BY <2>2 DEF HandleEnd
    <3>2. FeatureOf[t] \in Features
      BY TaskConstants
    <3> QED
      BY <3>1, <3>2, <1>r, <1>u DEF RerouteToReplan
  <2> QED
    BY <1>1, <2>1, <2>2, <1>u DEF HandleWork, GrantClaim, HandleLanded
<1>2. CASE Suspending
  BY <1>2, <1>u DEF Suspending, SuspendedAll, SuspendNext
<1>3. CASE Releasing
  <2>1. ASSUME NEW t \in Tasks, ResumeFails(t) PROVE OnMain(f)'
    <3>1. sched.other \in Features
      BY <2>1, TypeParts DEF ResumeFails
    <3> QED
      BY <2>1, <3>1, <1>b, <1>u DEF ResumeFails
  <2> QED
    BY <1>3, <2>1, <1>b, <1>r, <1>u
       DEF Releasing, ReleaseOne, ResumeTask, ResumeCancelled, ResumedAll, ReleasedAll,
           RerouteNext, RerouteToReplan, ReroutedAll
<1>4. CASE RestOfTick
  <2>1. ASSUME NEW g \in Features, NEW merges \in BOOLEAN, Integrate(g, merges)
        PROVE  OnMain(f)'
    <3>1. g # f
      BY <2>1 DEF Integrate, OnMain
    <3> QED
      BY <1>0, <2>1, <3>1 DEF Integrate, OnMain
  <2>2. ASSUME NEW g \in Features, DispatchReplan(g) PROVE OnMain(f)'
    BY <1>0, <2>2 DEF DispatchReplan, OnMain, FeatureRow
  <2>3. ASSUME NEW pair \in Features \X Features, CoordinatePair(pair) PROVE OnMain(f)'
    BY <2>3, <1>s, <1>u DEF CoordinatePair
  <2> QED
    BY <1>4, <2>1, <2>2, <2>3, <1>u
       DEF RestOfTick, NothingToIntegrate, BeginDispatch, DispatchTask, EndDispatch
<1>5. ASSUME NEW g \in Features, Cancel(g) PROVE OnMain(f)'
  BY <1>0, <1>5 DEF Cancel, OnMain
<1>6. ASSUME NEW g \in Features, EnterTrain(g) PROVE OnMain(f)'
  BY <1>0, <1>6 DEF EnterTrain, OnMain
<1>7. ASSUME NEW g \in Features, NEW new \in SUBSET Tasks, ApproveReplan(g, new)
      PROVE  OnMain(f)'
  BY <1>0, <1>7 DEF ApproveReplan, OnMain
<1>8. ASSUME NEW t \in Tasks, NEW p \in Paths, Claim(t, p) PROVE OnMain(f)'
  BY <1>8, <1>u DEF Claim
<1>9. ASSUME NEW t \in Tasks, NEW how \in Ends, EndWorker(t, how) PROVE OnMain(f)'
  BY <1>9, <1>u DEF EndWorker
<1> QED
  BY <1>1, <1>2, <1>3, <1>4, <1>5, <1>6, <1>7, <1>8, <1>9, <1>u
     DEF CrossNext, CrossLoop, CrossCrash, crossVars

\* A path is granted to the task that asked for it.
LEMMA WantedStep == TypeInv /\ WantedInv /\ [CrossNext]_crossVars => WantedInv'
<1> SUFFICES ASSUME TypeInv, WantedInv, [CrossNext]_crossVars PROVE WantedInv'
  OBVIOUS
<1>0. /\ claim \in [Tasks -> Paths \cup {None}]
      /\ holder \in [Paths -> Tasks \cup {None}]
  BY TypeParts
<1>c. None \notin Tasks \cup Paths
  BY FeatureConstants
<1>u. UNCHANGED << claim, holder >> => WantedInv'
  BY DEF WantedInv
<1>1. CASE HandleWork
  <2>1. ASSUME NEW t \in Tasks, GrantClaim(t) PROVE WantedInv'
    <3>1. claim[t] \in Paths /\ claim[t] \in Wants[t]
      BY <1>0, <2>1 DEF GrantClaim, WantedInv
    <3>2. /\ \A u \in Tasks : claim'[u] # None => claim'[u] = claim[u]
          /\ \A p \in Paths : holder'[p] = IF p = claim[t] THEN t ELSE holder[p]
      BY <1>0, <2>1, <3>1 DEF GrantClaim
    <3> QED
      BY <3>1, <3>2 DEF WantedInv
  <2>2. ASSUME NEW t \in Tasks, DenyClaim(t) PROVE WantedInv'
    BY <1>0, <2>2 DEF DenyClaim, WantedInv
  <2>3. ASSUME NEW t \in Tasks, NEW squashed \in BOOLEAN, HandleEnd(t, squashed)
        PROVE  WantedInv'
    <3>1. claim' = claim /\ (UNCHANGED holder \/ ReleaseLocks(t))
      BY <2>3 DEF HandleEnd
    <3> QED
      BY <1>0, <3>1 DEF WantedInv, ReleaseLocks
  <2> QED
    BY <1>1, <2>1, <2>2, <2>3, <1>u DEF HandleWork, HandleLanded, ReleaseOnly
<1>2. CASE Suspending \/ Releasing
  BY <1>2, <1>u
     DEF Suspending, SuspendedAll, SuspendNext, Releasing, ReleaseOne, ResumeTask,
         ResumeFails, ResumeCancelled, ResumedAll, ReleasedAll, RerouteNext, ReroutedAll,
         ReleaseOnly
<1>3. CASE RestOfTick
  BY <1>3, <1>u
     DEF RestOfTick, Integrate, NothingToIntegrate, Integrated, CoordinatePair,
         BeginDispatch, DispatchTask, DispatchReplan, EndDispatch, ReleaseOnly
<1>4. ASSUME NEW t \in Tasks, NEW p \in Paths, Claim(t, p) PROVE WantedInv'
  BY <1>0, <1>4 DEF Claim, WantedInv
<1>5. ASSUME NEW f \in Features, Cancel(f) PROVE WantedInv'
  BY <1>0, <1>5 DEF Cancel, WantedInv
<1>6. CASE CrossCrash
  BY <1>6 DEF CrossCrash, WantedInv
<1> QED
  BY <1>1, <1>2, <1>3, <1>4, <1>5, <1>6, <1>u
     DEF CrossNext, CrossLoop, EndWorker, EnterTrain, ApproveReplan, ReleaseOnly, crossVars

\* The features of a denied claim differ: inside one feature nothing overlaps.
LEMMA DenialApart ==
    ASSUME TypeInv, WantedInv, NEW t \in Tasks, DenyClaim(t)
    PROVE  \E pair \in Features \X Features :
              /\ pair[1] # pair[2]
              /\ BlockSecondary(pair, "idle")
<1>1. claim[t] \in Paths /\ holder[claim[t]] \in Tasks /\ holder[claim[t]] # t
  BY TypeParts, FeatureConstants DEF DenyClaim
<1> DEFINE other == holder[claim[t]]
           pair == Ranked(FeatureOf[t], FeatureOf[other])
<1>2. claim[t] \in Wants[t] /\ claim[t] \in Wants[other]
  BY <1>1, FeatureConstants DEF WantedInv
<1>3. FeatureOf[t] # FeatureOf[other]
  BY <1>1, <1>2, NoOverlapInside
<1>4. pair \in Features \X Features /\ pair[1] # pair[2]
  BY <1>1, <1>3, RankedTyped, TaskConstants
<1> QED
  BY <1>4 DEF DenyClaim

\* So do those of a pair of a tick.
LEMMA PairsApart == \A pair \in OverlapPairs : pair[1] # pair[2]
<1> SUFFICES ASSUME NEW pair \in OverlapPairs PROVE pair[1] # pair[2]
  OBVIOUS
<1>1. PICK tu \in Tasks \X Tasks : /\ Overlap(tu[1], tu[2])
                                  /\ pair = Ranked(FeatureOf[tu[1]], FeatureOf[tu[2]])
  BY DEF OverlapPairs
<1>2. /\ FeatureOf[tu[1]] \in Features /\ FeatureOf[tu[2]] \in Features
      /\ FeatureOf[tu[1]] # FeatureOf[tu[2]]
  BY <1>1, TaskConstants DEF Overlap
<1>3. {pair[1], pair[2]} = {FeatureOf[tu[1]], FeatureOf[tu[2]]}
  BY <1>1, <1>2, RankedTyped
<1> QED
  BY <1>2, <1>3

\* Pairs are of two features, and a feature is not among those behind it.
LEMMA ApartStep ==
    TypeInv /\ WantedInv /\ ApartInv /\ [CrossNext]_crossVars => ApartInv'
<1> SUFFICES ASSUME TypeInv, WantedInv, ApartInv, [CrossNext]_crossVars PROVE ApartInv'
  OBVIOUS
<1>0. /\ feature \in [Features -> FeatureRow]
      /\ task \in [Tasks -> TaskRow]
      /\ sched \in SchedType
      /\ At("suspending") =>
            /\ sched.primary \in Features /\ sched.other \in Features
            /\ sched.todo \subseteq TasksOf(sched.other)
      /\ sched.at \in {"releasing", "resuming"} =>
            sched.primary \in Features /\ sched.todo \subseteq Features
      /\ At("resuming") => sched.other \in Features
  BY TypeParts
<1>c. None \notin Features
  BY FeatureConstants
<1> DEFINE Blocks == \A f \in Features : feature'[f].block # f
           Owed == \A t \in Tasks : task'[t].by # FeatureOf[t]
           Loop == /\ \A pair \in sched'.pairs : pair[1] # pair[2]
                   /\ sched'.at = "suspending" => sched'.primary # sched'.other
                   /\ sched'.at \in {"releasing", "resuming"} =>
                         sched'.primary \notin sched'.todo
                   /\ sched'.at = "resuming" => sched'.primary # sched'.other
<1>q. Blocks /\ Owed /\ Loop => ApartInv'
  BY DEF ApartInv, At
<1>f. UNCHANGED feature => Blocks
  BY DEF ApartInv
<1>t. UNCHANGED task => Owed
  BY DEF ApartInv
<1>l. sched' = sched => Loop
  BY DEF ApartInv, At
<1>i. sched' = Idle => Loop
  BY DEF Idle
<1>m. \A t \in Tasks : \A new : Transition(t, new) => Owed
  <2>1. SUFFICES ASSUME NEW t \in Tasks, NEW new, Transition(t, new) PROVE Owed
    OBVIOUS
  <2>2. Moved(t, new).by \in {None, task[t].by}
    BY <1>0 DEF Moved, TaskRow
  <2> QED
    BY <1>0, <1>c, <2>1, <2>2, TaskConstants DEF Transition, ApartInv
<1>r. \A f \in Features : RerouteToReplan(f) => Blocks
  BY <1>0, ReroutedTyped DEF RerouteToReplan, ApartInv
<1>a. \A f \in Features, p \in Features \cup {None} : Block(f, p) /\ p # f => Blocks
  BY <1>0 DEF Block, ApartInv, FeatureRow
<1>b. ASSUME NEW pair \in Features \X Features, NEW back \in {"idle", "overlaps"},
             BlockSecondary(pair, back), pair[1] # pair[2]
      PROVE  Blocks /\ Loop
  <2>1. CASE sched' = Idle /\ UNCHANGED feature
    BY <2>1, <1>f, <1>i
  <2>2. CASE /\ sched'.at = "suspending" /\ sched'.back = back
             /\ sched'.primary = pair[1] /\ sched'.other = pair[2]
             /\ sched'.pairs = sched.pairs \ {pair}
             /\ feature' = [feature EXCEPT ![pair[2]].block = pair[1]]
    <3>1. Blocks
      BY <2>2, <1>a, <1>b DEF Block
    <3>2. Loop
      BY <2>2, <1>b DEF ApartInv
    <3> QED
      BY <3>1, <3>2
  <2> HIDE DEF Blocks, Loop
  <2>3. \/ sched' = Idle /\ UNCHANGED feature
        \/ /\ sched'.at = "suspending" /\ sched'.back = back
           /\ sched'.primary = pair[1] /\ sched'.other = pair[2]
           /\ sched'.pairs = sched.pairs \ {pair}
           /\ feature' = [feature EXCEPT ![pair[2]].block = pair[1]]
    BY <1>b, BlockTyped
  <2> QED
    BY <2>1, <2>2, <2>3
<1> HIDE DEF Blocks, Owed, Loop
<1>1. CASE HandleWork
  <2>1. ASSUME NEW t \in Tasks, DenyClaim(t) PROVE ApartInv'
    <3>1. UNCHANGED task
      BY <2>1 DEF DenyClaim
    <3> QED
      BY <2>1, <3>1, <1>b, <1>t, <1>q, DenialApart
  <2>2. ASSUME NEW t \in Tasks, NEW squashed \in BOOLEAN, HandleEnd(t, squashed)
        PROVE  ApartInv'
    <3>1. /\ sched' = sched
          /\ UNCHANGED task \/ \E new : Transition(t, new)
          /\ UNCHANGED feature \/ RerouteToReplan(FeatureOf[t])
      BY <2>2 DEF HandleEnd
    <3>2. FeatureOf[t] \in Features
      BY TaskConstants
    <3> QED
      BY <3>1, <3>2, <1>q, <1>f, <1>t, <1>l, <1>m, <1>r
  <2>3. ASSUME NEW p \in Features, HandleLanded(p) PROVE ApartInv'
    <3>1. p \notin BlockedBehind(p)
      BY DEF BlockedBehind, ApartInv, TasksOf
    <3>2. UNCHANGED << feature, task >>
      BY <2>3 DEF HandleLanded
    <3>3. CASE Throw
      BY <3>2, <3>3, <1>q, <1>f, <1>t, <1>i DEF Throw, EndTick
    <3>4. CASE sched' = [sched EXCEPT !.at = "releasing", !.primary = p,
                                      !.todo = BlockedBehind(p)]
      <4>1. /\ sched'.at = "releasing" /\ sched'.primary = p
            /\ sched'.todo = BlockedBehind(p) /\ sched'.pairs = sched.pairs
        BY <1>0, <3>4 DEF SchedType
      <4>2. Loop
        BY <3>1, <4>1 DEF Loop, ApartInv
      <4> QED
        BY <3>2, <4>2, <1>q, <1>f, <1>t
    <3> QED
      BY <2>3, <3>3, <3>4 DEF HandleLanded
  <2> QED
    BY <1>1, <2>1, <2>2, <2>3, <1>q, <1>f, <1>t, <1>l DEF HandleWork, GrantClaim
<1>2. ASSUME NEW t \in Tasks, SuspendNext(t) PROVE ApartInv'
  <2>1. /\ FeatureOf[t] = sched.other /\ sched.primary # sched.other
        /\ task' = [task EXCEPT ![t].collab = "suspended", ![t].by = sched.primary]
        /\ UNCHANGED feature /\ At("suspending")
    BY <1>0, <1>2 DEF SuspendNext, TasksOf, ApartInv
  <2>2. /\ sched'.at = sched.at /\ sched'.primary = sched.primary
        /\ sched'.other = sched.other /\ sched'.pairs = sched.pairs
    BY <1>0, <1>2 DEF SuspendNext, SchedType
  <2>3. Owed
    BY <1>0, <2>1 DEF Owed, ApartInv, TaskRow
  <2>4. Loop
    BY <2>1, <2>2 DEF Loop, ApartInv, At
  <2> QED
    BY <2>1, <2>3, <2>4, <1>q, <1>f
<1>3. CASE SuspendedAll
  <2>1. /\ sched'.at \in {"idle", "overlaps"} /\ sched'.pairs = sched.pairs
        /\ UNCHANGED << feature, task >>
    BY <1>0, <1>3 DEF SuspendedAll, SchedType
  <2>2. Loop
    BY <2>1 DEF Loop, ApartInv
  <2> QED
    BY <2>1, <2>2, <1>q, <1>f, <1>t
<1>4. ASSUME NEW f \in Features, NEW clean \in BOOLEAN, ReleaseOne(f, clean)
      PROVE  ApartInv'
  <2>1. /\ sched.at = "releasing" /\ UNCHANGED task /\ f \in sched.todo
        /\ sched.primary # f
    BY <1>4 DEF ReleaseOne, At, ApartInv
  <2>2. CASE sched' = Idle /\ UNCHANGED feature
    BY <2>1, <2>2, <1>q, <1>f, <1>t, <1>i
  <2>3. CASE /\ sched' = [sched EXCEPT !.todo = @ \ {f}, !.replan = @ \cup {f}]
             /\ UNCHANGED feature
    <3>1. /\ sched'.at = "releasing" /\ sched'.primary = sched.primary
          /\ sched'.todo \subseteq sched.todo /\ sched'.pairs = sched.pairs
      BY <1>0, <2>1, <2>3 DEF SchedType
    <3>2. Loop
      BY <2>1, <3>1 DEF Loop, ApartInv
    <3> QED
      BY <2>1, <2>3, <3>2, <1>q, <1>f, <1>t
  <2>4. CASE sched' = [sched EXCEPT !.at = "resuming", !.other = f] /\ Block(f, None)
    <3>1. /\ sched'.at = "resuming" /\ sched'.primary = sched.primary
          /\ sched'.other = f /\ sched'.todo = sched.todo /\ sched'.pairs = sched.pairs
      BY <1>0, <2>1, <2>4 DEF SchedType
    <3>2. Loop
      BY <2>1, <3>1 DEF Loop, ApartInv
    <3> QED
      BY <2>1, <2>4, <3>2, <1>q, <1>a, <1>c, <1>t
  <2> QED
    BY <1>4, <2>2, <2>3, <2>4 DEF ReleaseOne, Throw, EndTick
<1>5. ASSUME NEW t \in Tasks, ResumeTask(t) PROVE ApartInv'
  <2>1. /\ UNCHANGED feature
        /\ UNCHANGED task \/ \E new : Transition(t, new)
        /\ sched' = sched \/ sched' = Idle
    BY <1>5 DEF ResumeTask, Throw, EndTick
  <2> QED
    BY <2>1, <1>q, <1>f, <1>t, <1>m, <1>l, <1>i
<1>6. \A replan : At("resuming") /\ BackToReleasing(replan) => Loop
  <2> SUFFICES ASSUME NEW replan, At("resuming"), BackToReleasing(replan) PROVE Loop
    OBVIOUS
  <2>1. /\ sched'.at = "releasing" /\ sched'.primary = sched.primary
        /\ sched'.todo \subseteq sched.todo /\ sched'.pairs = sched.pairs
    BY <1>0 DEF BackToReleasing, SchedType
  <2> QED
    BY <2>1 DEF Loop, ApartInv, At
<1>7. ASSUME NEW t \in Tasks, ResumeFails(t) PROVE ApartInv'
  <2>1. /\ At("resuming") /\ UNCHANGED task
        /\ sched.primary \in Features /\ sched.other \in Features
        /\ sched.primary # sched.other
    BY <1>0, <1>7 DEF ResumeFails, ApartInv, At
  <2>2. \/ Block(sched.other, sched.primary) /\ BackToReleasing({sched.other})
        \/ UNCHANGED feature /\ sched' = Idle
    BY <1>7 DEF ResumeFails, Throw, EndTick
  <2> QED
    BY <2>1, <2>2, <1>6, <1>q, <1>a, <1>f, <1>t, <1>i
<1>8. CASE ReleasedAll
  <2>1. sched'.at = "rerouting" /\ sched'.pairs = sched.pairs
    BY <1>0, <1>8 DEF ReleasedAll, SchedType
  <2>2. Loop
    BY <2>1 DEF Loop, ApartInv
  <2> QED
    BY <1>8, <2>2, <1>q, <1>f, <1>t DEF ReleasedAll
<1>9. ASSUME NEW f \in Features, RerouteNext(f) PROVE ApartInv'
  <2>1. CASE sched' = [sched EXCEPT !.replan = @ \ {f}]
    <3>1. sched'.at = "rerouting" /\ sched'.pairs = sched.pairs
      BY <1>0, <1>9, <2>1 DEF RerouteNext, SchedType, At
    <3>2. Loop
      BY <3>1 DEF Loop, ApartInv
    <3> QED
      BY <1>9, <3>2, <1>q, <1>r, <1>t DEF RerouteNext
  <2>2. CASE sched' = Idle
    BY <1>9, <2>2, <1>q, <1>r, <1>t, <1>i DEF RerouteNext
  <2> QED
    BY <1>9, <2>1, <2>2 DEF RerouteNext, Throw, EndTick
<1>10. CASE Releasing
  BY <1>10, <1>4, <1>5, <1>6, <1>7, <1>8, <1>9, <1>q, <1>f, <1>t, <1>i
     DEF Releasing, ResumeCancelled, ResumedAll, ReroutedAll, Throw, EndTick
<1>11. ASSUME Integrated PROVE Loop
  <2>1. sched'.at = "overlaps" /\ sched'.pairs = OverlapPairs
    BY <1>0, <1>11 DEF Integrated, SchedType
  <2> QED
    BY <2>1, PairsApart DEF Loop
<1>12. ASSUME NEW f \in Features, NEW merges \in BOOLEAN, Integrate(f, merges)
       PROVE  ApartInv'
  <2>1. Blocks
    <3>1. CASE merges
      BY <1>0, <1>12, <3>1 DEF Integrate, Blocks, ApartInv, FeatureRow
    <3>2. CASE ~ merges
      BY <1>12, <3>2, <1>r DEF Integrate, RerouteToReplan
    <3> QED
      BY <3>1, <3>2
  <2> QED
    BY <2>1, <1>11, <1>12, <1>q, <1>t DEF Integrate, Integrated
<1>13. ASSUME NEW pair \in Features \X Features, CoordinatePair(pair) PROVE ApartInv'
  <2>1. pair[1] # pair[2] /\ UNCHANGED task
    BY <1>13 DEF CoordinatePair, ApartInv
  <2>2. CASE BlockSecondary(pair, "overlaps")
    BY <2>1, <2>2, <1>b, <1>q, <1>t
  <2>3. CASE sched' = [sched EXCEPT !.pairs = @ \ {pair}] /\ UNCHANGED feature
    <3>1. sched'.at = "overlaps" /\ sched'.pairs \subseteq sched.pairs
      BY <1>0, <1>13, <2>3 DEF CoordinatePair, SchedType, At
    <3>2. Loop
      BY <3>1 DEF Loop, ApartInv
    <3> QED
      BY <2>1, <2>3, <3>2, <1>q, <1>f, <1>t
  <2> QED
    BY <1>13, <2>2, <2>3 DEF CoordinatePair
<1>14. CASE BeginDispatch
  <2>1. sched'.at = "dispatching" /\ sched'.pairs = sched.pairs
    BY <1>0, <1>14 DEF BeginDispatch, SchedType
  <2>2. Loop
    BY <2>1 DEF Loop, ApartInv
  <2> QED
    BY <1>14, <2>2, <1>q, <1>f, <1>t DEF BeginDispatch
<1>15. ASSUME NEW t \in Tasks, DispatchTask(t) PROVE ApartInv'
  <2>1. /\ sched.at = "dispatching" /\ UNCHANGED feature
        /\ UNCHANGED task \/ \E new : Transition(t, new)
        /\ sched' = [sched EXCEPT !.todo = @ \ {t}] \/ sched' = Idle
    BY <1>15 DEF DispatchTask, EndTick, At
  <2>2. Loop
    <3>1. ASSUME sched' = [sched EXCEPT !.todo = @ \ {t}]
          PROVE  sched'.at = "dispatching" /\ sched'.pairs = sched.pairs
      BY <1>0, <2>1, <3>1 DEF SchedType
    <3> QED
      BY <2>1, <3>1, <1>i DEF Loop, ApartInv
  <2> QED
    BY <2>1, <2>2, <1>q, <1>f, <1>t, <1>m
<1>16. ASSUME NEW f \in Features, DispatchReplan(f) PROVE ApartInv'
  <2>1. Blocks
    BY <1>0, <1>16 DEF DispatchReplan, Blocks, ApartInv, FeatureRow
  <2> QED
    BY <2>1, <1>16, <1>q, <1>t, <1>l DEF DispatchReplan
<1>17. CASE RestOfTick
  BY <1>17, <1>11, <1>12, <1>13, <1>14, <1>15, <1>16, <1>q, <1>f, <1>t, <1>i
     DEF RestOfTick, NothingToIntegrate, Integrated, EndDispatch, EndTick
<1>18. ASSUME NEW f \in Features, Cancel(f) PROVE ApartInv'
  <2>1. Blocks
    BY <1>0, <1>18, <1>c DEF Cancel, Blocks, ApartInv, FeatureRow
  <2>2. Owed
    BY <1>0, <1>18 DEF Cancel, Owed, ApartInv, TaskRow
  <2> QED
    BY <2>1, <2>2, <1>18, <1>q, <1>l DEF Cancel, Outside
<1>19. ASSUME NEW f \in Features, EnterTrain(f) PROVE ApartInv'
  <2>1. Blocks
    BY <1>0, <1>19 DEF EnterTrain, Blocks, ApartInv, FeatureRow
  <2> QED
    BY <2>1, <1>19, <1>q, <1>t, <1>l DEF EnterTrain
<1>20. ASSUME NEW f \in Features, NEW new \in SUBSET Tasks, ApproveReplan(f, new)
       PROVE  ApartInv'
  <2>1. Blocks
    BY <1>0, <1>20 DEF ApproveReplan, Blocks, ApartInv, FeatureRow
  <2>2. Owed
    BY <1>0, <1>20, <1>c, TaskConstants DEF ApproveReplan, Owed, ApartInv, TaskRow
  <2> QED
    BY <2>1, <2>2, <1>20, <1>q, <1>l DEF ApproveReplan, Outside
<1> QED
  BY <1>1, <1>2, <1>3, <1>10, <1>17, <1>18, <1>19, <1>20, <1>q, <1>f, <1>t, <1>l, <1>i
     DEF CrossNext, CrossLoop, Suspending, Claim, EndWorker, Outside, CrossCrash, crossVars

\* A landing is put into the queue by the merge, and released from the queue.
LEMMA MergedStep == TypeInv /\ MergedInv /\ [CrossNext]_crossVars => MergedInv'
<1> SUFFICES ASSUME TypeInv, MergedInv, [CrossNext]_crossVars PROVE MergedInv'
  OBVIOUS
<1>0. /\ feature \in [Features -> FeatureRow]
      /\ sched \in SchedType
      /\ landed \subseteq Features
      /\ sched.at \in {"releasing", "resuming"} => sched.primary \in Features
  BY TypeParts
<1>d. \A p \in Features : OnMain(p) => OnMain(p)'
  BY OnMainStays
<1>1. ASSUME landed' \subseteq landed,
             sched'.at \in {"releasing", "resuming"} =>
                /\ sched.at \in {"releasing", "resuming"}
                /\ sched'.primary = sched.primary
      PROVE  MergedInv'
  <2>1. \A p \in landed' : OnMain(p)'
    BY <1>0, <1>1, <1>d DEF MergedInv
  <2>2. ASSUME sched'.at \in {"releasing", "resuming"}
        PROVE  feature'[sched'.primary].work = "work_complete"
               /\ feature'[sched'.primary].collab \in {"merged", "cancelled"}
    BY <1>0, <1>1, <1>d, <2>2 DEF MergedInv, OnMain
  <2> QED
    BY <2>1, <2>2 DEF MergedInv, OnMain
<1>k. landed' \subseteq landed /\ sched' = sched => MergedInv'
  BY <1>1
<1>i. landed' \subseteq landed /\ sched' = Idle => MergedInv'
  BY <1>1, IdleTyped
<1>b. ASSUME NEW pair \in Features \X Features, NEW back \in {"idle", "overlaps"},
             BlockSecondary(pair, back), UNCHANGED landed
      PROVE  MergedInv'
  BY <1>b, <1>1, <1>i, BlockTyped
<1>2. CASE HandleWork
  <2>1. ASSUME NEW t \in Tasks, DenyClaim(t) PROVE MergedInv'
    <3>1. claim[t] \in Paths /\ holder[claim[t]] \in Tasks
      BY <2>1, TypeParts, FeatureConstants DEF DenyClaim
    <3>2. Ranked(FeatureOf[t], FeatureOf[holder[claim[t]]]) \in Features \X Features
      BY <3>1, RankedTyped, TaskConstants
    <3> QED
      BY <2>1, <3>2, <1>b DEF DenyClaim
  <2>2. ASSUME NEW p \in Features, HandleLanded(p) PROVE MergedInv'
    <3>1. OnMain(p)' /\ landed' \subseteq landed
      BY <1>d, <2>2 DEF HandleLanded, MergedInv
    <3>2. \A q \in landed' : OnMain(q)'
      BY <1>0, <3>1, <1>d DEF MergedInv
    <3>3. sched' = Idle \/ sched'.primary = p
      BY <1>0, <2>2 DEF HandleLanded, Throw, EndTick, SchedType
    <3>4. CASE sched'.primary = p
      BY <3>1, <3>2, <3>4 DEF MergedInv, OnMain
    <3> QED
      BY <3>1, <3>3, <3>4, <1>i
  <2> QED
    BY <1>2, <2>1, <2>2, <1>k DEF HandleWork, GrantClaim, HandleEnd
<1>3. CASE Suspending
  <2>1. landed' = landed
    BY <1>3 DEF Suspending, SuspendedAll, SuspendNext
  <2>2. sched'.at \in {"suspending", "idle", "overlaps"}
    BY <1>0, <1>3 DEF Suspending, SuspendedAll, SuspendNext, SchedType, At
  <2> QED
    BY <2>1, <2>2, <1>1
<1>4. CASE Releasing
  <2>1. landed' = landed
    BY <1>4 DEF Releasing, ReleaseOne, ResumeTask, ResumeFails, ResumeCancelled,
       ResumedAll, ReleasedAll, RerouteNext, ReroutedAll
  <2>2. ASSUME NEW f \in Features, NEW clean \in BOOLEAN, ReleaseOne(f, clean)
        PROVE  MergedInv'
    <3>1. \/ sched' = Idle
          \/ sched.at = "releasing" /\ sched'.primary = sched.primary
      BY <1>0, <2>2 DEF ReleaseOne, Throw, EndTick, SchedType, At
    <3> QED
      BY <2>1, <3>1, <1>1, <1>i
  <2>3. \A replan : At("resuming") /\ BackToReleasing(replan) => MergedInv'
    <3>1. ASSUME NEW replan, At("resuming"), BackToReleasing(replan)
          PROVE  sched'.primary = sched.primary /\ sched.at = "resuming"
      BY <1>0, <3>1 DEF BackToReleasing, SchedType, At
    <3> QED
      BY <2>1, <3>1, <1>1
  <2>4. CASE ReleasedAll
    <3>1. sched'.at = "rerouting"
      BY <1>0, <2>4 DEF ReleasedAll, SchedType
    <3> QED
      BY <2>1, <3>1, <1>1
  <2>5. ASSUME NEW f \in Features, RerouteNext(f) PROVE MergedInv'
    <3>1. sched' = Idle \/ sched'.at = "rerouting"
      BY <1>0, <2>5 DEF RerouteNext, Throw, EndTick, SchedType, At
    <3> QED
      BY <2>1, <3>1, <1>1, <1>i
  <2> QED
    BY <1>4, <2>1, <2>2, <2>3, <2>4, <2>5, <1>k, <1>i
       DEF Releasing, ResumeTask, ResumeFails, ResumeCancelled, ResumedAll, ReroutedAll,
           Throw, EndTick
<1>5. ASSUME Integrated PROVE sched'.at = "overlaps"
  BY <1>0, <1>5 DEF Integrated, SchedType
<1>6. ASSUME NEW f \in Features, NEW merges \in BOOLEAN, Integrate(f, merges)
      PROVE  MergedInv'
  <2>1. sched'.at = "overlaps" /\ (landed' = IF merges THEN landed \cup {f} ELSE landed)
    BY <1>5, <1>6 DEF Integrate
  <2>2. merges => OnMain(f)'
    BY <1>0, <1>6 DEF Integrate, OnMain, FeatureRow
  <2>3. \A p \in landed' : OnMain(p)'
    BY <1>0, <1>d, <2>1, <2>2 DEF MergedInv
  <2> QED
    BY <2>1, <2>3 DEF MergedInv
<1>7. CASE RestOfTick
  <2>1. ASSUME NEW pair \in Features \X Features, CoordinatePair(pair) PROVE MergedInv'
    <3>1. ASSUME sched' = [sched EXCEPT !.pairs = @ \ {pair}] PROVE sched'.at = "overlaps"
      BY <1>0, <2>1, <3>1 DEF CoordinatePair, SchedType, At
    <3> QED
      BY <2>1, <3>1, <1>1, <1>b DEF CoordinatePair
  <2>2. CASE BeginDispatch
    <3>1. sched'.at = "dispatching"
      BY <1>0, <2>2 DEF BeginDispatch, SchedType
    <3> QED
      BY <2>2, <3>1, <1>1 DEF BeginDispatch
  <2>3. ASSUME NEW t \in Tasks, DispatchTask(t) PROVE MergedInv'
    <3>1. sched' = Idle \/ sched'.at = "dispatching"
      BY <1>0, <2>3 DEF DispatchTask, EndTick, SchedType, At
    <3> QED
      BY <2>3, <3>1, <1>1, <1>i DEF DispatchTask
  <2>4. CASE NothingToIntegrate
    BY <2>4, <1>1, <1>5 DEF NothingToIntegrate
  <2> QED
    BY <1>7, <2>1, <2>2, <2>3, <2>4, <1>6, <1>k, <1>i
       DEF RestOfTick, DispatchReplan, EndDispatch, EndTick
<1> QED
  BY <1>2, <1>3, <1>4, <1>7, <1>k, <1>i
     DEF CrossNext, CrossLoop, Claim, EndWorker, EnterTrain, Cancel, ApproveReplan, Outside,
         CrossCrash, crossVars

\* The three hold whatever the loop, the workers and the user do, crashes included.
THEOREM ApartInvariant == CrossSpec => [](WantedInv /\ ApartInv /\ MergedInv)
<1>1. InitCross => WantedInv /\ ApartInv /\ MergedInv
  BY FeatureConstants, TaskConstants DEF InitCross, WantedInv, ApartInv, MergedInv, Idle, At
<1>2. TypeInv /\ (WantedInv /\ ApartInv /\ MergedInv) /\ [CrossNext]_crossVars
         => (WantedInv /\ ApartInv /\ MergedInv)'
  BY WantedStep, ApartStep, MergedStep
<1> QED
  BY <1>1, <1>2, CrossInvariant, PTL DEF CrossSpec

\* A block that changes names another feature still, or was lifted: of a cancelled
\* feature, or in the release after the landing of another.
BlockSteps ==
    \A f \in Features :
        feature'[f].block # feature[f].block
            => \/ feature'[f].block \in Features \ {f}
               \/ feature'[f].collab = "cancelled"
               \/ /\ feature'[f].block = None
                  /\ OnMain(sched.primary) /\ sched.primary \in Features \ {f}

\* Only BlockSecondary, ReleaseOne, ResumeFails and Cancel write a block.
LEMMA BlocksChange ==
    ASSUME TypeInv, WantedInv, ApartInv, MergedInv, [CrossNext]_crossVars
    PROVE  BlockSteps
<1>0. /\ feature \in [Features -> FeatureRow]
      /\ feature' \in [Features -> FeatureRow]
      /\ sched.at \in {"releasing", "resuming"} =>
            sched.primary \in Features /\ sched.todo \subseteq Features
      /\ At("resuming") => sched.other \in Features
  <2>1. TypeInv'
    BY TypeStep
  <2>2. feature' \in [Features -> FeatureRow]
    BY <2>1 DEF TypeInv, CrossTypeOK, FeatureRow
  <2> QED
    BY <2>2, TypeParts
<1>1. \A f \in Features : feature'[f].block # f /\ feature'[f].block \in Features \cup {None}
  BY <1>0, ApartStep DEF ApartInv, FeatureRow
<1> SUFFICES ASSUME NEW f \in Features, feature[f].block # None, feature'[f].block = None,
                    feature'[f].collab # "cancelled"
             PROVE  OnMain(sched.primary) /\ sched.primary \in Features \ {f}
  BY <1>1, FeatureConstants DEF BlockSteps
<1>u. feature' # feature
  OBVIOUS
<1>r. \A g \in Features : ~ (feature' = [feature EXCEPT ![g] = Rerouted(g)])
  BY <1>0, ReroutedTyped
<1>b. \A g \in Features, p \in Features : ~ Block(g, p)
  BY <1>0, FeatureConstants DEF Block, FeatureRow
<1>s. \A pair \in Features \X Features, back \in {"idle", "overlaps"} :
          ~ BlockSecondary(pair, back)
  BY <1>b, <1>u DEF BlockSecondary
<1>2. ASSUME NEW g \in Features, NEW clean \in BOOLEAN, ReleaseOne(g, clean)
      PROVE  OnMain(sched.primary) /\ sched.primary \in Features \ {f}
  <2>1. Block(g, None) /\ g \in sched.todo /\ sched.at = "releasing"
    BY <1>2, <1>u DEF ReleaseOne, At
  <2>2. g = f
    BY <1>0, <2>1 DEF Block
  <2> QED
    BY <1>0, <2>1, <2>2 DEF MergedInv, ApartInv
<1>3. \A t \in Tasks : ~ DenyClaim(t)
  BY <1>s, DenialApart
<1>4. \A t \in Tasks : \A squashed \in BOOLEAN : ~ HandleEnd(t, squashed)
  BY <1>u, <1>r, TaskConstants DEF HandleEnd, RerouteToReplan
<1>5. ~ HandleWork
  BY <1>3, <1>4, <1>u DEF HandleWork, GrantClaim, HandleLanded
<1>6. ~ Suspending
  BY <1>u DEF Suspending, SuspendedAll, SuspendNext
<1>7. \A t \in Tasks : ~ ResumeFails(t)
  BY <1>0, <1>b, <1>u DEF ResumeFails, At
<1>8. CASE Releasing
  BY <1>8, <1>2, <1>7, <1>u, <1>r
     DEF Releasing, ResumeTask, ResumeCancelled, ResumedAll, ReleasedAll, RerouteNext,
         RerouteToReplan, ReroutedAll
<1>9. \A g \in Features : \A merges \in BOOLEAN : ~ Integrate(g, merges)
  <2> SUFFICES ASSUME NEW g \in Features, NEW merges \in BOOLEAN, Integrate(g, merges)
               PROVE  FALSE
    OBVIOUS
  <2>1. merges
    BY <1>r DEF Integrate
  <2>2. feature' = [feature EXCEPT ![g].work = "work_complete", ![g].collab = "merged"]
    BY <2>1 DEF Integrate
  <2> QED
    BY <1>0, <2>2 DEF FeatureRow
<1>10. \A pair \in Features \X Features : ~ CoordinatePair(pair)
  BY <1>s, <1>u DEF CoordinatePair
<1>11. \A g \in Features : ~ DispatchReplan(g)
  BY <1>0 DEF DispatchReplan, FeatureRow
<1>12. ~ RestOfTick
  BY <1>9, <1>10, <1>11, <1>u
     DEF RestOfTick, NothingToIntegrate, BeginDispatch, DispatchTask, EndDispatch
<1>13. \A g \in Features : ~ EnterTrain(g)
  BY <1>0 DEF EnterTrain, FeatureRow
<1>14. \A g \in Features : ~ Cancel(g)
  BY <1>0 DEF Cancel, FeatureRow
<1>15. \A g \in Features : \A new \in SUBSET Tasks : ~ ApproveReplan(g, new)
  BY <1>0 DEF ApproveReplan, FeatureRow
<1> QED
  BY <1>5, <1>6, <1>8, <1>12, <1>13, <1>14, <1>15, <1>u
     DEF CrossNext, CrossLoop, Claim, EndWorker, CrossCrash, crossVars

\* No feature is ever blocked behind itself, and none is let go without a landing,
\* whatever else is lost or cancelled; which merge is another matter, since with three features
\* a denied claim may put a new primary in the place of the old.
THEOREM BlocksLiftedByLandings == CrossSpec => [][BlockSteps]_crossVars
<1>1. TypeInv /\ (WantedInv /\ ApartInv /\ MergedInv) /\ [CrossNext]_crossVars
         => [BlockSteps]_crossVars
  BY BlocksChange
<1> QED
  BY <1>1, CrossInvariant, ApartInvariant, PTL DEF CrossSpec

\* Between two features there is nobody else to be blocked behind: the secondary
\* remains blocked behind its primary until the work of that one is on main, where
\* it stays though the primary be cancelled while its release is under way.
THEOREM BlockOfTwoLasts ==
    ASSUME \A f, g, h \in Features : f = g \/ g = h \/ f = h
    PROVE  CrossSpec => BlockedUntilLanded
<1> DEFINE Lasts == \A f \in Features :
                        LET p == feature[f].block IN
                        /\ p # None
                        /\ feature'[f].block # p
                        => OnMain(p) \/ feature'[f].collab = "cancelled"
<1>1. ASSUME TypeInv, WantedInv, ApartInv, MergedInv, [CrossNext]_crossVars PROVE Lasts
  <2> SUFFICES ASSUME NEW f \in Features, feature[f].block # None,
                      feature'[f].block # feature[f].block,
                      feature'[f].collab # "cancelled"
               PROVE  OnMain(feature[f].block)
    BY DEF Lasts
  <2>1. feature[f].block \in Features \ {f}
    BY <1>1, TypeParts DEF ApartInv, FeatureRow
  <2>2. feature'[f].block \notin Features \ {f}
    BY <2>1
  <2>3. OnMain(sched.primary) /\ sched.primary \in Features \ {f}
    BY <1>1, <2>2, BlocksChange DEF BlockSteps
  <2> QED
    BY <2>1, <2>3
<1>2. TypeInv /\ (WantedInv /\ ApartInv /\ MergedInv) /\ [CrossNext]_crossVars
         => [Lasts]_crossVars
  BY <1>1
<1> HIDE DEF Lasts
<1>3. CrossSpec => [][Lasts]_crossVars
  BY <1>2, CrossInvariant, ApartInvariant, PTL DEF CrossSpec
<1> QED
  BY <1>3 DEF BlockedUntilLanded, Lasts
=============================================================================
