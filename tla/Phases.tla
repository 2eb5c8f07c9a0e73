------------------------------- MODULE Phases -------------------------------
(***************************************************************************)
(* The life of one feature through its agent phases: dispatch of a phase,  *)
(* its session, its report, the approval of a proposal, retries, the       *)
(* operator beside all this, and recovery after a crash.                   *)
(*                                                                         *)
(* There is one run row per phase, used again on every pass.  A tick that  *)
(* dispatches a phase is parked until the session ends: requests of the    *)
(* user wait in the queue, while commands that write to the store act at   *)
(* once.  The writes after a session are transactions of their own, and    *)
(* the program may die between any two of them.                            *)
(*                                                                         *)
(* Abstracted: statuses of the feature and the writes inside an advance    *)
(* (module FeatureLifecycle), tasks (TaskRuns), git (Integration), the     *)
(* contents of proposals; time (a retry may come due at any moment).       *)
(***************************************************************************)
EXTENDS FeatureFsm, Sequences

CONSTANTS
    MaxPasses,        \* bound on completed executions
    LastCrashPass,    \* the program dies only up to this pass
    MaxRetries,       \* maxAttempts of the retry policy
    MaxQueue,         \* bound on requests in the queue
    MaxTurns          \* bound on crashes, transient errors, failures outside a
                      \* session, requests for help, attachments, drafts and
                      \* a cancellation, taken together

ASSUME PhaseConstants ==
    {MaxPasses, LastCrashPass, MaxRetries, MaxQueue, MaxTurns} \subseteq Nat

VARIABLES
    feature,     \* workControl and collabControl
    pass,        \* how often execution has completed: the version of the work
    judged,      \* the version a check last passed, for the properties
    row,         \* the run row of each phase
    first,       \* the first completion event of each phase
    session,     \* the live session
    sched,       \* where the loop, or recovery, is
    queue,       \* approvals and reruns the user asked for
    draft,       \* the phase of the user's own draft
    auto,        \* auto execution, and what it was before the draft
    turns        \* how many of MaxTurns are taken

phaseVars == << feature, pass, judged, row, first, session, sched, queue,
                draft, auto, turns >>

----------------------------------------------------------------------------
(* State *)

\* Rows in the order they are created, which is the order of recovery.
PhaseOrder == << "discuss", "research", "plan", "ci_check", "verify",
                 "replan", "summarize" >>
Phases == {PhaseOrder[i] : i \in DOMAIN PhaseOrder}
Proposals == {"plan", "replan"}
Checks == {"ci_check", "verify"}
NoPhase == "none"

WorkOf == [p \in Phases |->
              CASE p = "discuss" -> "discussing" [] p = "research" -> "researching"
                [] p = "plan" -> "planning"      [] p = "replan" -> "replanning"
                [] p = "verify" -> "verifying"   [] p = "summarize" -> "summarizing"
                [] OTHER -> "ci_check"]

\* The session of such a phase is a live conversation: it may ask for help, is
\* answered and may be told to stop.
Converses(p) == p \in Proposals \cup {"discuss"}
NeedsWorktree(p) == p \in Checks \cup {"summarize"}

NoRow == [status |-> "none", owner |-> "system", attention |-> "none",
          restarts |-> 0, payload |-> "none"]
NoSession == [phase |-> NoPhase, help |-> FALSE, aborted |-> FALSE]
SchedIdle == [at |-> "idle", phase |-> NoPhase, result |-> "none", next |-> 0,
              seen |-> <<>>]

At(place) == sched.at = place
Goto(place) == sched' = [sched EXCEPT !.at = place]
EndTick == sched' = SchedIdle

Standing == feature.collab # "cancelled"
In(p) == feature.work = WorkOf[p]

PhaseTypeOK ==
    /\ feature \in [work : WorkControl, collab : CollabControl]
    /\ pass \in 0..MaxPasses
    /\ judged \in [Checks -> 0..MaxPasses]
    /\ row \in [Phases ->
                  [status : {"none", "ready", "running", "await_response",
                             "await_approval", "retry_await", "completed",
                             "failed", "cancelled"},
                   owner : {"system", "manual"},
                   attention : {"none", "operator"},
                   restarts : 0..(MaxRetries + MaxTurns),
                   payload : {"none", "help", "agent", "draft"}]]
    /\ first \in [Phases -> {"none", "ok", "bad"}]
    /\ session.phase \in Phases \cup {NoPhase}
    /\ session.phase = NoPhase => session = NoSession
    /\ session.help => Converses(session.phase)
    /\ draft \in Proposals \cup {NoPhase}
    /\ \A p \in Phases : row[p].status = "await_approval" =>
           /\ p \in Proposals
           /\ row[p].payload \in {"agent", "draft"}

InitPhases ==
    /\ feature = [work |-> "discussing", collab |-> "none"]
    /\ pass = 0
    /\ judged = [c \in Checks |-> 0]
    /\ row = [p \in Phases |-> NoRow]
    /\ first = [p \in Phases |-> "none"]
    /\ session = NoSession
    /\ sched = SchedIdle
    /\ queue = <<>>
    /\ draft = NoPhase
    /\ auto = [on |-> TRUE, before |-> TRUE]
    /\ turns = 0

Turn == turns < MaxTurns /\ turns' = turns + 1

SetRow(p, new) == row' = [row EXCEPT ![p] = new]
System(p, status) == [row[p] EXCEPT !.status = status, !.owner = "system"]

TheUser == UNCHANGED << queue, draft, auto >>
TheWork == UNCHANGED << feature, pass, judged >>

----------------------------------------------------------------------------
(* Dispatch of a phase *)

\* Dispatchable, were a retry never due.
DispatchableOnce(p) ==
    /\ auto.on
    /\ In(p) /\ Standing
    /\ feature.collab # "merge_queued"
    /\ feature.collab = "merged" => p = "summarize"
    /\ row[p].status \notin {"running", "failed", "await_response",
                             "await_approval", "retry_await"}
    /\ p \in Proposals => row[p].status # "completed"

\* readyFeatures and isBlockedByRun; a completed proposal is never dispatched
\* again.
Dispatchable(p) ==
    /\ auto.on
    /\ In(p) /\ Standing
    /\ feature.collab # "merge_queued"
    /\ feature.collab = "merged" => p = "summarize"
    /\ row[p].status \notin {"running", "failed", "await_response",
                             "await_approval"}
    /\ p \in Proposals => row[p].status # "completed"

Started(p) ==
    [System(p, "running") EXCEPT
        !.restarts = @ + IF row[p].status = "retry_await" THEN 1 ELSE 0]

\* The pool's session of a phase, there until its outcome is known or it is
\* aborted.
Opened(p) == [NoSession EXCEPT !.phase = p]

\* The handle of any other phase has nothing to stop: it runs to its end.
Stoppable == Converses(session.phase)
Aborted == [session EXCEPT !.aborted = Stoppable, !.help = FALSE]

Begin(p, place) ==
    /\ session' = Opened(p)
    /\ sched' = [sched EXCEPT !.at = place, !.phase = p]

DispatchPhase(p) ==
    /\ At("idle") /\ queue = <<>>
    /\ Dispatchable(p)
    /\ SetRow(p, Started(p))
    /\ Begin(p, "parked")
    /\ TheWork /\ TheUser
    /\ UNCHANGED << first, turns >>

\* The worktree cannot be made: an error before the run is marked running.
DispatchFails(p) ==
    /\ At("idle") /\ queue = <<>>
    /\ Dispatchable(p) /\ NeedsWorktree(p)
    /\ Turn
    /\ SetRow(p, System(p, IF row[p].status = "none" THEN "ready"
                                                     ELSE row[p].status))
    /\ sched' = [sched EXCEPT !.at = "erroring", !.phase = p,
                              !.result = "permanent"]
    /\ TheWork /\ TheUser
    /\ UNCHANGED << first, session >>

----------------------------------------------------------------------------
(* Sessions *)

InSession == At("parked") \/ At("reparked")
SessionOnly == /\ TheWork /\ TheUser
               /\ UNCHANGED << first, sched >>

\* onHelpRequested
RequestHelp ==
    /\ InSession /\ Converses(session.phase)
    /\ ~ session.help /\ ~ session.aborted
    /\ Turn
    /\ session' = [session EXCEPT !.help = TRUE]
    /\ SetRow(session.phase, [row[session.phase] EXCEPT
                                !.status = "await_response", !.payload = "help"])
    /\ SessionOnly

\* onHelpResolved
HelpResolved(r) ==
    IF r.status = "await_response"
       THEN [r EXCEPT !.status = "running", !.payload = "none"] ELSE r

AnswerHelp ==
    /\ InSession /\ session.help
    /\ session' = [session EXCEPT !.help = FALSE]
    /\ SetRow(session.phase, HelpResolved(row[session.phase]))
    /\ SessionOnly
    /\ UNCHANGED turns

\* An aborted session ends well when it had submitted before.
Results(p) == {"ok", "transient", "permanent"} \cup
              (IF p \in Checks THEN {"bad"} ELSE {})

\* onPhaseEnded: help still asked for is refused, the operator is detached.
\* The error of a cancelled feature is dropped.
SessionEnds(result) ==
    LET p == session.phase
        left == IF session.help THEN HelpResolved(row[p]) ELSE row[p]
    IN
    /\ InSession
    /\ session.help => result \in {"transient", "permanent"}
    /\ result \in Results(p)
    /\ IF result = "transient" THEN Turn ELSE UNCHANGED turns
    /\ session' = NoSession
    /\ SetRow(p, IF Converses(p) THEN [left EXCEPT !.attention = "none"] ELSE left)
    /\ judged' = IF p \in Checks /\ result = "ok"
                    THEN [judged EXCEPT ![p] = pass] ELSE judged
    /\ sched' = [sched EXCEPT !.result = result,
                    !.at = CASE At("reparked") -> "recovered"
                             [] At("parked") /\ result \in {"ok", "bad"} -> "ended"
                             [] At("parked") /\ result \in {"transient", "permanent"}
                                   /\ Standing -> "erroring"
                             [] OTHER -> "idle"]
    /\ TheUser
    /\ UNCHANGED << feature, pass, first >>

----------------------------------------------------------------------------
(* The report of a session *)

\* AwaitingApproval, were the proposal not kept with the row.
AwaitingNothing(p) == [row[p] EXCEPT !.status = "await_approval",
                                     !.owner = "manual"]
AwaitingApproval(p) == [row[p] EXCEPT !.status = "await_approval",
                                      !.owner = "manual", !.payload = "agent"]
Filed(p, result) == [first EXCEPT ![p] = IF @ = "none" THEN result ELSE @]

\* The row first: for a proposal without asking whether it was cancelled, for
\* another phase it is running once more, and completed if it was not.
ReportWritesRow ==
    LET p == sched.phase IN
    /\ At("ended")
    /\ IF p \in Proposals
          THEN SetRow(p, AwaitingApproval(p)) /\ Goto("filing")
          ELSE IF Standing
                  THEN SetRow(p, System(p, "completed")) /\ Goto("filing")
                  ELSE SetRow(p, System(p, "running")) /\ EndTick
    /\ TheWork /\ TheUser
    /\ UNCHANGED << first, session, turns >>

\* Then the event.  Only the first of a phase is ever looked for again: the
\* session of a phase keeps its name.
ReportWritesEvent ==
    LET p == sched.phase IN
    /\ At("filing")
    /\ first' = Filed(p, sched.result)
    /\ IF p \in Proposals THEN EndTick ELSE Goto("advancing")
    /\ TheWork /\ TheUser
    /\ UNCHANGED << row, session, turns >>

\* After, were only the verdict of the last check looked at.
AfterVerifyAlone(p, result) ==
    CASE p = "discuss" -> [feature EXCEPT !.work = "researching"]
      [] p = "research" -> [feature EXCEPT !.work = "planning"]
      [] p = "verify" /\ result = "bad" -> [feature EXCEPT !.work = "replanning"]
      [] p = "ci_check" -> [feature EXCEPT !.work = "verifying"]
      [] p = "verify" /\ result # "bad" ->
            [work |-> "awaiting_merge", collab |-> "merge_queued"]
      [] OTHER -> [feature EXCEPT !.work = "work_complete"]

\* completePhase and completeSummary
After(p, result) ==
    CASE p = "discuss" -> [feature EXCEPT !.work = "researching"]
      [] p = "research" -> [feature EXCEPT !.work = "planning"]
      [] p \in Checks /\ result = "bad" -> [feature EXCEPT !.work = "replanning"]
      [] p = "ci_check" /\ result # "bad" -> [feature EXCEPT !.work = "verifying"]
      [] p = "verify" /\ result # "bad" ->
            [work |-> "awaiting_merge", collab |-> "merge_queued"]
      [] OTHER -> [feature EXCEPT !.work = "work_complete"]

\* The handler runs on without an await: a cancellation cannot come between.
ReportAdvances ==
    /\ At("advancing")
    /\ feature' = After(sched.phase, sched.result)
    /\ EndTick
    /\ TheUser
    /\ UNCHANGED << pass, judged, row, first, session, turns >>

\* feature_phase_error, after the error is written to its log.
Retries(result, r) == result = "transient" /\ r.restarts < MaxRetries

HandleError ==
    LET p == sched.phase IN
    /\ At("erroring")
    /\ SetRow(p, IF Retries(sched.result, row[p]) THEN System(p, "retry_await")
                                                  ELSE System(p, "failed"))
    /\ EndTick
    /\ TheWork /\ TheUser
    /\ UNCHANGED << first, session, turns >>

----------------------------------------------------------------------------
(* Requests of the user, handled before anything is dispatched *)

Request == Head(queue)
Handle(kind) == /\ At("idle") /\ queue # <<>>
                /\ Request.kind = kind
                /\ queue' = Tail(queue)
Decidable(p) == Standing /\ row[p].status = "await_approval"

\* A request that comes too late.
DropRequest ==
    /\ \/ Handle("rerun") /\ (~ Standing \/ row[Request.phase].status = "none")
       \/ \E k \in {"approve", "reject"} : Handle(k) /\ ~ Decidable(Request.phase)
    /\ TheWork
    /\ UNCHANGED << row, first, session, sched, draft, auto, turns >>

\* The session file is deleted, and the row made ready whatever its status.
HandleRerun ==
    /\ Handle("rerun")
    /\ Standing /\ row[Request.phase].status # "none"
    /\ sched' = [sched EXCEPT !.at = "deleting", !.phase = Request.phase]
    /\ TheWork
    /\ UNCHANGED << row, first, session, draft, auto, turns >>

RerunReady ==
    /\ At("deleting")
    /\ SetRow(sched.phase, [System(sched.phase, "ready") EXCEPT
                               !.payload = "none"])
    /\ EndTick
    /\ TheWork /\ TheUser
    /\ UNCHANGED << first, session, turns >>

Decided(p, owner) == [row[p] EXCEPT !.status = "completed", !.owner = owner,
                                    !.attention = "none"]

HandleReject ==
    /\ Handle("reject")
    /\ Decidable(Request.phase)
    /\ SetRow(Request.phase, Decided(Request.phase, "manual"))
    /\ TheWork
    /\ UNCHANGED << first, session, sched, draft, auto, turns >>

\* The proposal is applied to the graph.  A plan advances when anything was
\* applied, a replan when some task is ready; without tasks the feature is
\* cancelled; an error marks the run completed by hand.
HandleApprove(outcome) ==
    LET p == Request.phase IN
    /\ Handle("approve")
    /\ Decidable(p)
    /\ CASE outcome = "advances" ->
              /\ sched' = [sched EXCEPT !.at = "branching", !.phase = p]
              /\ UNCHANGED << feature, row >>
         [] outcome = "stays" ->
              SetRow(p, Decided(p, "system")) /\ UNCHANGED << feature, sched >>
         [] outcome = "empty" ->
              /\ feature' = [feature EXCEPT !.collab = "cancelled"]
              /\ SetRow(p, Decided(p, "system"))
              /\ UNCHANGED sched
         [] outcome = "throws" ->
              SetRow(p, Decided(p, "manual")) /\ UNCHANGED << feature, sched >>
    /\ UNCHANGED << pass, judged, first, session, draft, auto, turns >>

\* The branch is there: advanceFeatureAfterApproval, refused of a feature
\* that was cancelled or has moved on.
AdvanceApproved ==
    LET p == sched.phase IN
    /\ At("branching")
    /\ IF Standing /\ In(p)
          THEN /\ feature' = [work |-> "executing", collab |-> "branch_open"]
               /\ Goto("deciding")
               /\ UNCHANGED row
          ELSE /\ SetRow(p, Decided(p, "manual"))
               /\ EndTick
               /\ UNCHANGED feature
    /\ TheUser
    /\ UNCHANGED << pass, judged, first, session, turns >>

DecideApproved ==
    /\ At("deciding")
    /\ SetRow(sched.phase, Decided(sched.phase, "system"))
    /\ EndTick
    /\ TheWork /\ TheUser
    /\ UNCHANGED << first, session, turns >>

----------------------------------------------------------------------------
(* What tasks and the merge train do to the feature, other events of a tick *)

OtherEvent == /\ At("idle") /\ Standing
              /\ TheUser
              /\ UNCHANGED << judged, row, first, session, sched, turns >>

TasksLand ==
    /\ feature.work = "executing" /\ pass < MaxPasses
    /\ feature' = [feature EXCEPT !.work = "ci_check"]
    /\ pass' = pass + 1
    /\ OtherEvent

TasksFail ==
    /\ feature.work = "executing"
    /\ feature' = [feature EXCEPT !.work = "replanning"]
    /\ UNCHANGED pass
    /\ OtherEvent

FeatureLands(summary) ==
    /\ feature.work = "awaiting_merge"
    /\ feature' = [work |-> IF summary THEN "summarizing" ELSE "work_complete",
                   collab |-> "merged"]
    /\ UNCHANGED pass
    /\ OtherEvent

IntegrationFails ==
    /\ feature.work = "awaiting_merge"
    /\ feature' = [work |-> "replanning", collab |-> "branch_open"]
    /\ UNCHANGED pass
    /\ OtherEvent

----------------------------------------------------------------------------
(* Commands of the operator, which act at once *)

Operator == UNCHANGED << pass, judged, first >>

\* The handlers of a tick do not await: only at these places is the user heard.
Heard == sched.at \in {"idle", "parked", "reparked", "branching", "erroring",
                      "deleting"}

Ask(kind, p) ==
    /\ Heard
    /\ kind \in {"approve", "reject", "rerun"}
    /\ p \in Proposals /\ In(p) /\ row[p].status = "await_approval"
    /\ Len(queue) < MaxQueue
    /\ queue' = Append(queue, [kind |-> kind, phase |-> p])
    /\ UNCHANGED << feature, row, session, sched, draft, auto, turns >>
    /\ Operator

Attach(p) ==
    /\ Heard
    /\ p \in Proposals
    /\ row[p].status \in {"running", "await_response"}
    /\ row[p].owner # "manual"
    /\ Turn
    /\ SetRow(p, [row[p] EXCEPT !.owner = "manual", !.attention = "operator"])
    /\ UNCHANGED << feature, session, sched, queue, draft, auto >>
    /\ Operator

Release(p) ==
    /\ Heard
    /\ p \in Proposals
    /\ row[p].owner = "manual" /\ row[p].attention = "operator"
    /\ row[p].status # "await_response"
    /\ SetRow(p, [row[p] EXCEPT !.owner = "system", !.attention = "none"])
    /\ UNCHANGED << feature, session, sched, queue, draft, auto, turns >>
    /\ Operator

\* cancelFeatureRunWork
CancelPhases ==
    /\ Heard
    /\ Turn
    /\ feature' = [feature EXCEPT !.collab = "cancelled"]
    /\ row' = [p \in Phases |->
                 IF row[p].status = "none" THEN row[p]
                 ELSE [row[p] EXCEPT !.status = "cancelled", !.owner = "system",
                                     !.attention = "none"]]
    /\ session' = Aborted
    /\ UNCHANGED << sched, queue, draft, auto >>
    /\ Operator

OpenDraft(p) ==
    /\ Heard
    /\ draft = NoPhase
    /\ p \in Proposals /\ In(p)
    /\ Turn
    /\ draft' = p
    /\ auto' = [on |-> FALSE, before |-> auto.on]
    /\ UNCHANGED << feature, row, session, sched, queue >>
    /\ Operator

CloseDraft == /\ draft' = NoPhase
              /\ auto' = [auto EXCEPT !.on = auto.before]

\* The row is overwritten, whether or not a session is live.
SubmitDraft ==
    /\ Heard
    /\ draft # NoPhase
    /\ CloseDraft
    /\ SetRow(draft, [status |-> "await_approval", owner |-> "manual",
                      attention |-> "none", restarts |-> 0,
                      payload |-> "draft"])
    /\ UNCHANGED << feature, session, sched, queue, turns >>
    /\ Operator

DiscardDraft ==
    /\ Heard
    /\ draft # NoPhase
    /\ CloseDraft
    /\ UNCHANGED << feature, row, session, sched, queue, turns >>
    /\ Operator

----------------------------------------------------------------------------
(* Crash and recovery *)

\* Rows and events stay; recovery lists the rows once, before its first await.
Restart(rows) ==
    /\ row' = rows
    /\ session' = NoSession
    /\ sched' = [SchedIdle EXCEPT !.at = "recovering", !.next = 1, !.seen = rows]
    /\ queue' = <<>>
    /\ draft' = NoPhase
    /\ auto' = [on |-> TRUE, before |-> TRUE]

CrashPhases ==
    /\ ~ At("down")
    /\ pass <= LastCrashPass
    /\ Turn
    /\ Restart(row)
    /\ UNCHANGED << feature, pass, judged, first >>

Reviewed == sched.seen[PhaseOrder[sched.next]]
Reviewing(p) == /\ At("recovering")
                /\ sched.next <= Len(PhaseOrder)
                /\ p = PhaseOrder[sched.next]
NextRow == sched' = [sched EXCEPT !.at = "recovering", !.next = @ + 1,
                                  !.phase = NoPhase, !.result = "none"]
RecoveryOnly == TheUser /\ UNCHANGED << pass, judged >>

Reclaimed(p) == /\ p \in Proposals
                /\ Reviewed.attention = "operator" /\ Reviewed.owner = "manual"
Redispatched(p) == ~ Reclaimed(p) /\ Reviewed.status = "running" /\ Standing
\* A completed run of the phase the feature is in: its report is taken to be
\* the one the feature waits for.
Replayed(p) == /\ Reviewed.status = "completed" /\ p \notin Proposals
               /\ In(p) /\ Standing

\* Recovered, were a run that waits for an answer kept as it is.
RecoveredWaiting(p) ==
    LET r == Reviewed IN
    CASE r.status \in {"none", "retry_await"} -> row[p]
      [] r.status \notin {"none", "retry_await"} /\ Reclaimed(p) ->
            [row[p] EXCEPT !.status = "ready", !.owner = "system",
                           !.attention = "none", !.payload = "none"]
      [] ~ Reclaimed(p) /\ ~ Standing
            /\ r.status \notin {"none", "retry_await", "completed"} ->
            System(p, "cancelled")
      [] OTHER -> row[p]

\* What recovery writes to a row it neither dispatches nor replays.
Recovered(p) ==
    LET r == Reviewed IN
    CASE r.status \in {"none", "retry_await"} -> row[p]
      [] r.status \notin {"none", "retry_await"} /\ Reclaimed(p) ->
            [row[p] EXCEPT !.status = "ready", !.owner = "system",
                           !.attention = "none", !.payload = "none"]
      [] ~ Reclaimed(p) /\ ~ Standing
            /\ r.status \notin {"none", "retry_await", "completed"} ->
            System(p, "cancelled")
      [] ~ Reclaimed(p) /\ Standing
            /\ r.status = "await_response" /\ p \in Proposals ->
            [System(p, "ready") EXCEPT !.payload = "none"]
      [] OTHER -> row[p]

\* A proposal that waits for approval may lack its event.
RecoverRow(p) ==
    /\ Reviewing(p)
    /\ ~ Redispatched(p) /\ ~ Replayed(p)
    /\ SetRow(p, Recovered(p))
    /\ first' = IF /\ p \in Proposals /\ Standing /\ ~ Reclaimed(p)
                   /\ Reviewed.status = "await_approval"
                   /\ Reviewed.payload = "agent"
                   THEN Filed(p, "ok") ELSE first
    /\ NextRow
    /\ RecoveryOnly
    /\ UNCHANGED << feature, session, turns >>

RecoverReplays(p) ==
    /\ Reviewing(p)
    /\ Replayed(p) /\ first[p] # "none"
    /\ feature' = After(p, first[p])
    /\ NextRow
    /\ RecoveryOnly
    /\ UNCHANGED << row, first, session, turns >>

\* A running run, or a completed one without its event, is started again.
RecoverDispatches(p) ==
    /\ Reviewing(p)
    /\ Redispatched(p) \/ (Replayed(p) /\ first[p] = "none")
    /\ Begin(p, "reparked")
    /\ RecoveryOnly
    /\ UNCHANGED << feature, row, first, turns >>

\* The row, an event unless there is one, and the advance; nobody asks
\* whether the feature was cancelled, but the advance is refused then.
RecoverReports ==
    LET p == sched.phase
        counted == [row[p] EXCEPT !.restarts = Reviewed.restarts + 1]
    IN
    /\ At("recovered") /\ sched.result \in {"ok", "bad"}
    /\ Standing \/ p \in Proposals
    /\ SetRow(p, IF p \in Proposals
                    THEN [counted EXCEPT !.status = "await_approval",
                                         !.owner = "manual", !.payload = "agent"]
                    ELSE [counted EXCEPT !.status = "completed",
                                         !.owner = "system"])
    /\ first' = Filed(p, sched.result)
    /\ feature' = IF p \in Proposals THEN feature ELSE After(p, sched.result)
    /\ NextRow
    /\ RecoveryOnly
    /\ UNCHANGED << session, turns >>

\* An error in a session, or a refused advance, ends the start-up.
RecoveryDies ==
    LET p == sched.phase IN
    /\ At("recovered")
    /\ \/ sched.result \in {"transient", "permanent"}
       \/ ~ Standing /\ p \notin Proposals
    /\ SetRow(p, IF sched.result \in {"ok", "bad"}
                    THEN System(p, "completed") ELSE row[p])
    /\ Goto("down")
    /\ RecoveryOnly
    /\ UNCHANGED << feature, first, session, turns >>

UserRestarts ==
    /\ At("down")
    /\ Turn
    /\ Restart(row)
    /\ UNCHANGED << feature, pass, judged, first >>

RecoveryDone ==
    /\ At("recovering")
    /\ sched.next > Len(PhaseOrder)
    /\ EndTick
    /\ RecoveryOnly
    /\ UNCHANGED << feature, row, first, session, turns >>

----------------------------------------------------------------------------
(* Specification *)

Reporting == ReportWritesRow \/ ReportWritesEvent \/ ReportAdvances
Requests ==
    \/ DropRequest \/ HandleRerun \/ RerunReady \/ HandleReject
    \/ \E outcome \in {"advances", "stays", "empty", "throws"} :
          HandleApprove(outcome)
    \/ AdvanceApproved \/ DecideApproved
Recovering ==
    \/ \E p \in Phases : RecoverRow(p) \/ RecoverReplays(p) \/ RecoverDispatches(p)
    \/ RecoverReports \/ RecoveryDies \/ RecoveryDone

Loop == Reporting \/ HandleError \/ Requests \/ Recovering
Dispatching == \E p \in Phases : DispatchPhase(p)
Ending == \E result \in {"ok", "bad", "transient", "permanent"} :
             SessionEnds(result)
OtherEvents == \/ TasksLand \/ TasksFail \/ IntegrationFails
               \/ \E summary \in BOOLEAN : FeatureLands(summary)

Commands ==
    \/ \E p \in Proposals : \/ Attach(p) \/ Release(p) \/ OpenDraft(p)
                            \/ \E k \in {"approve", "reject", "rerun"} : Ask(k, p)
    \/ SubmitDraft \/ DiscardDraft \/ CancelPhases \/ AnswerHelp

PhasesNext ==
    \/ Loop \/ Dispatching \/ Ending \/ RequestHelp
    \/ OtherEvents \/ Commands \/ CrashPhases \/ UserRestarts
    \/ \E p \in Phases : DispatchFails(p)

PhasesSpec == InitPhases /\ [][PhasesNext]_phaseVars

\* The loop runs on, and an agent that asks nothing comes to an end.
FairPhasesSpec == /\ PhasesSpec
                  /\ WF_phaseVars(Loop)
                  /\ WF_phaseVars(Dispatching)
                  /\ WF_phaseVars(Ending)

----------------------------------------------------------------------------
(* Properties *)

\* "the feature may enter merge_queued only if that full rerun path passes":
\* what waits in the merge train passed both checks as it is.
VerifiedBeforeMerge ==
    feature.collab = "merge_queued" => \A c \in Checks : judged[c] = pass

\* A run that is running, or waits for an answer a proposal asked for, has its
\* session: nobody else would end it.
RunsAttended ==
    At("idle") /\ Standing =>
        \A p \in Phases :
            \/ row[p].status = "running"
            \/ row[p].status = "await_response" /\ p \in Proposals
            => session.phase = p

\* A run waits for the user, who may also have to start the program again,
\* or for nobody any more.
Held(p) == \/ row[p].status \in {"await_response", "await_approval", "failed"}
           \/ p \in Proposals /\ row[p].status = "completed"
           \/ ~ auto.on
           \/ At("down")

\* A phase comes to an end, over retries and a crash, unless it waits for the
\* user or has failed.
PhasesMoveOn ==
    \A p \in Phases : In(p) /\ Standing ~> \/ ~ In(p) \/ ~ Standing \/ Held(p)
=============================================================================
