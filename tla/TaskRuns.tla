------------------------------ MODULE TaskRuns ------------------------------
(***************************************************************************)
(* The tasks of one executing feature: dispatch to worker processes, path  *)
(* claims, suspension of overlapping tasks and their reconciliation after  *)
(* a landing, help and approval waits, retries, cancellation, and recovery *)
(* after a restart.                                                        *)
(*                                                                         *)
(* Three parties: worker processes; the worker pool, which reads their     *)
(* pipes and turns messages and exits into scheduler events; and the       *)
(* scheduler, one loop that handles the events of a tick one by one.       *)
(* Nothing else runs in the orchestrator between two awaits: the pool and  *)
(* the user act only where the loop is at an await (Awaits), a crash comes *)
(* between any two transactions.                                           *)
(*                                                                         *)
(* A task's status and collab are written by transitionTask, whose guards  *)
(* are those of FeatureFsm; a refused write throws and ends the tick, the  *)
(* event that caused it is gone and the later ones wait for the next tick. *)
(***************************************************************************)
EXTENDS ActiveLocks, FeatureFsm, Naturals, Sequences, FiniteSets

CONSTANTS
    Order,             \* orderInFeature of each task
    Deps,              \* the tasks a task depends on
    Reserved,          \* its reserved write paths
    Slots,             \* worker processes a task may have at once
    MaxConcurrency,    \* size of the worker pool
    RetryCap,          \* retryPolicy.retryCap
    MaxSquashRetries,  \* maxSquashRetries
    MaxLateReads,      \* bound on exits and timeouts heard before messages
    MaxAsks,           \* bound on help and approval requests
    Askers,            \* the tasks whose workers make them
    MaxClaims,         \* bound on path claims
    MaxTimeouts,       \* bound on workers that stop answering pings
    MaxCrashes,        \* bound on crashes of the orchestrator
    MaxGitErrors,      \* bound on git commands that throw
    MaxCancels,        \* 1 when the user may cancel the feature, else 0
    MaxFaults          \* bound on timeouts, crashes, git errors, cancels in all

Tasks == Runs          \* one run per task, 'run-task:<task>'

ASSUME TasksFinite == IsFiniteSet(Tasks)
ASSUME TasksOrdered == Order \in [Tasks -> Nat]
ASSUME RunBounds == /\ Deps \in [Tasks -> SUBSET Tasks]
                    /\ Reserved \in [Tasks -> SUBSET Paths]
                    /\ Slots \subseteq Nat \ {0}
                    /\ Askers \subseteq Tasks
                    /\ {MaxConcurrency, RetryCap, MaxSquashRetries, MaxAsks,
                        MaxClaims, MaxTimeouts, MaxCrashes, MaxGitErrors, MaxCancels,
                        MaxFaults, MaxLateReads} \subseteq Nat

VARIABLES
    task,        \* the task rows
    run,         \* the agent_runs rows
    saved,       \* what the session file of a run holds
    worker,      \* the worker processes
    pipe,        \* what each worker wrote and the pool has not read
    live,        \* the pool's liveRuns: the slot of a run's session, 0 if none
    events,      \* the scheduler's queue
    sched,       \* where the loop is, and its locals
    cancelled,   \* the feature was cancelled
    spent        \* what is used up of each bound

rows == << task, run, cancelled >>
processes == << worker, pipe, saved >>
vars == << rows, processes, live, events, sched, spent, byPath, byRun >>

----------------------------------------------------------------------------
(* State *)

Workers == Tasks \X Slots

RunStatus == {"none", "ready", "running", "retry_await", "await_response",
              "await_approval", "completed", "failed", "cancelled"}
Waits == {"await_response", "await_approval"}
Attended == {"running"} \cup Waits     \* shouldResumeTaskRun

Saved == {"none", "working", "submitted"} \cup Waits

\* "submitted": the worker called submit and only has to end; "aborted":
\* told to; "ended": the process is gone and the pool has not heard of it.
WorkerAt == {"none", "working", "submitted", "waiting", "claiming",
             "aborted", "ended"}
Alive == WorkerAt \ {"none", "ended"}

Gone == [at |-> "none", held |-> {}]

\* "sleeping" between ticks, "draining" between two events of a tick.
Awaits == {"sleeping", "recovering", "logging", "squashing", "catchingup",
           "rebasing", "preparing"}
SchedAt == Awaits \cup {"draining", "retrying", "completing", "dispatching",
                        "persisting"}

At(place) == sched.at = place
Goto(place) == sched' = [sched EXCEPT !.at = place]
Asleep == [at |-> "sleeping", task |-> NoRun, other |-> NoRun, todo |-> {},
           idle |-> 0, tries |-> 0, transient |-> FALSE]
EndTick == sched' = Asleep
NextEvent == sched' = [Asleep EXCEPT !.at = "draining"]

TasksTypeOK ==
    /\ LocksTypeOK
    /\ task \in [Tasks -> [status : TaskStatus, collab : TaskCollab]]
    /\ run \in [Tasks -> [status : RunStatus, restarts : Nat,
                          session : BOOLEAN, due : BOOLEAN]]
    /\ saved \in [Tasks -> Saved]
    /\ worker \in [Workers -> [at : WorkerAt, held : SUBSET Paths]]
    /\ live \in [Tasks -> Slots \cup {0}]
    /\ sched \in [at : SchedAt, task : Tasks \cup {NoRun},
                  other : Tasks \cup {NoRun}, todo : SUBSET Tasks,
                  idle : 0 .. MaxConcurrency, tries : 0 .. MaxSquashRetries,
                  transient : BOOLEAN]
    /\ cancelled \in BOOLEAN

\* A plan was approved: approval made the tasks without dependencies ready.
InitTasks ==
    /\ task = [t \in Tasks |->
                 [status |-> IF Deps[t] = {} THEN "ready" ELSE "pending",
                  collab |-> "none"]]
    /\ run = [t \in Tasks |-> [status |-> "none", restarts |-> 0,
                               session |-> FALSE, due |-> FALSE]]
    /\ saved = [t \in Tasks |-> "none"]
    /\ worker = [w \in Workers |-> Gone]
    /\ pipe = [w \in Workers |-> <<>>]
    /\ live = [t \in Tasks |-> 0]
    /\ events = <<>>
    /\ sched = Asleep
    /\ cancelled = FALSE
    /\ spent = [asks |-> 0, claims |-> 0, timeouts |-> 0, crashes |-> 0,
                git |-> 0, cancels |-> 0, late |-> 0]
    /\ NoLocks

Spend(bound, max) == /\ spent[bound] < max
                     /\ spent' = [spent EXCEPT ![bound] = @ + 1]

Faults == spent.timeouts + spent.crashes + spent.git + spent.cancels
Fault(bound, max) == Faults < MaxFaults /\ Spend(bound, max)

----------------------------------------------------------------------------
(* Worker processes *)

Message(w, kind, with) == [kind |-> kind, task |-> w[1], slot |-> w[2],
                           with |-> with]
Send(w, kind, with) ==
    pipe' = [pipe EXCEPT ![w] = Append(@, Message(w, kind, with))]
Becomes(w, place) == worker' = [worker EXCEPT ![w].at = place]
Saves(w, what) == saved' = [saved EXCEPT ![w[1]] = what]
WorkerOnly == UNCHANGED << rows, live, events, sched, locks >>

\* The first write to a path waits for its lock.
Claim(w, p) ==
    /\ worker[w].at = "working"
    /\ p \notin worker[w].held
    /\ Spend("claims", MaxClaims)
    /\ Send(w, "claim", p)
    /\ Becomes(w, "claiming")
    /\ UNCHANGED saved
    /\ WorkerOnly

\* requestHelp and requestApproval save the pending wait, then send and
\* block; a destructive command asks for approval and is refused at once.
Ask(w, wait) ==
    /\ w[1] \in Askers
    /\ worker[w].at = "working"
    /\ Spend("asks", MaxAsks)
    /\ Send(w, "ask", wait)
    /\ \/ Becomes(w, "waiting") /\ Saves(w, wait)
       \/ wait = "await_approval" /\ UNCHANGED << worker, saved >>
    /\ WorkerOnly

\* A checkpoint after a tool result.
Checkpoint(w) ==
    /\ worker[w].at = "working"
    /\ saved[w[1]] # "working"
    /\ Saves(w, "working")
    /\ UNCHANGED << worker, pipe, spent >>
    /\ WorkerOnly

Submit(w) ==
    /\ worker[w].at = "working"
    /\ Becomes(w, "submitted")
    /\ Saves(w, "submitted")
    /\ UNCHANGED << pipe, spent >>
    /\ WorkerOnly

\* The end of the agent loop: a last checkpoint, one message, exit.
Ends(w, kind, with) ==
    /\ worker[w].at \in {"working", "submitted"}
    /\ Saves(w, worker[w].at)
    /\ Send(w, kind, with)
    /\ Becomes(w, "ended")
    /\ UNCHANGED spent
    /\ WorkerOnly

Finish(w) == Ends(w, "result", worker[w].at = "submitted")
Fail(w, transient) == Ends(w, "error", transient)

\* A process that dies, or stops after an abort, without a word.
Die(w) ==
    /\ worker[w].at \in Alive
    /\ Becomes(w, "ended")
    /\ UNCHANGED << pipe, saved, spent >>
    /\ WorkerOnly

WorkerStep(w) ==
    \/ \E p \in Paths : Claim(w, p)
    \/ \E wait \in Waits : Ask(w, wait)
    \/ Checkpoint(w) \/ Submit(w) \/ Finish(w) \/ Die(w)
    \/ \E transient \in BOOLEAN : Fail(w, transient)

----------------------------------------------------------------------------
(* The worker pool *)

AtAwait == sched.at \in Awaits
Report(m) == events' = Append(events, m)

\* onWorkerMessage; the session is dropped when its run reports its end.
Read(w) ==
    /\ AtAwait
    /\ pipe[w] # <<>>
    /\ pipe' = [pipe EXCEPT ![w] = Tail(@)]
    /\ Report(Head(pipe[w]))
    /\ live' = IF Head(pipe[w]).kind \in {"result", "error"}
                  THEN [live EXCEPT ![w[1]] = 0] ELSE live
    /\ UNCHANGED << rows, worker, saved, sched, spent, locks >>

\* An end is heard of on another channel than what the process wrote before.
EndHeard(w) == IF pipe[w] = <<>> THEN UNCHANGED spent
                                ELSE Spend("late", MaxLateReads)

\* ExitSeen, were an end without a report taken for a normal one.
ExitUnheard(w) ==
    /\ AtAwait
    /\ worker[w].at = "ended"
    /\ EndHeard(w)
    /\ worker' = [worker EXCEPT ![w] = Gone]
    /\ live' = [live EXCEPT ![w[1]] = 0]
    /\ UNCHANGED << rows, pipe, saved, events, sched, locks >>

\* onExit: an end the run did not report is an error.  It asks whether the
\* run has a session, not whether this process is the session's.
ExitSeen(w) ==
    /\ AtAwait
    /\ worker[w].at = "ended"
    /\ EndHeard(w)
    /\ worker' = [worker EXCEPT ![w] = Gone]
    /\ live' = [live EXCEPT ![w[1]] = 0]
    /\ IF live[w[1]] = 0 THEN UNCHANGED events
                         ELSE Report(Message(w, "error", FALSE))
    /\ UNCHANGED << rows, pipe, saved, sched, locks >>

\* HealthTimeout, were the silent process not killed.
HealthTimeoutSparing(w) ==
    /\ AtAwait
    /\ worker[w].at \in Alive \ {"aborted"}
    /\ pipe[w] # <<>> => MaxLateReads > 0
    /\ Fault("timeouts", MaxTimeouts)
    /\ live' = [live EXCEPT ![w[1]] = 0]
    /\ Report(Message(w, "error", TRUE))
    /\ UNCHANGED << rows, worker, pipe, saved, sched, locks >>

\* No pong for too long: SIGKILL, and an error that counts as transient.
HealthTimeout(w) ==
    /\ AtAwait
    /\ worker[w].at \in Alive \ {"aborted"}
    /\ pipe[w] # <<>> => MaxLateReads > 0
    /\ Fault("timeouts", MaxTimeouts)
    /\ worker' = [worker EXCEPT ![w] = Gone]
    /\ live' = [live EXCEPT ![w[1]] = 0]
    /\ Report(Message(w, "error", TRUE))
    /\ UNCHANGED << rows, pipe, saved, sched, locks >>

\* A started worker begins anew; a resumed one takes up what its session
\* file holds, and sends a request it was waiting on again.
Starts(w, resumed) ==
    LET from == IF resumed THEN saved[w[1]] ELSE "working" IN
    /\ worker' = [worker EXCEPT ![w] =
                    [at |-> IF from \in Waits THEN "waiting" ELSE from,
                     held |-> {}]]
    /\ IF from \in Waits THEN Send(w, "again", from) ELSE UNCHANGED pipe
    /\ live' = [live EXCEPT ![w[1]] = w[2]]

\* dispatchRun resumes when the run has a session whose file exists.
Resumable(t) == run[t].session /\ saved[t] # "none"

\* A process that is gone and of which nothing is left to be read; the next
\* one takes the first such place.
Unused(w) == worker[w] = Gone /\ pipe[w] = <<>>
Free(w) == /\ Unused(w)
           /\ \A s \in Slots : s < w[2] => ~ Unused(<< w[1], s >>)

\* The next attempt comes a tick of a second or a backoff after the end of the
\* one before, which has been heard of, and read to its end, by then.
Settled(t) == \A s \in Slots : \/ worker[<< t, s >>].at \in Alive
                               \/ Unused(<< t, s >>)

----------------------------------------------------------------------------
(* The user *)

\* respondToPendingTaskHelp, decidePendingTaskApproval.  The answer names the
\* request the run recorded last: a worker that asked another one since
\* ignores it.  A request sent "again" is the one recorded before a restart.
Unhandled(w) ==
    \/ \E i \in DOMAIN pipe[w] : pipe[w][i].kind = "ask"
    \/ \E i \in DOMAIN events : /\ events[i].kind = "ask"
                                /\ << events[i].task, events[i].slot >> = w

AnswerRequest(t) ==
    LET w == << t, live[t] >> IN
    /\ AtAwait
    /\ ~ At("recovering")
    /\ run[t].status \in Waits
    /\ live[t] # 0
    /\ run' = [run EXCEPT ![t].status = "running"]
    /\ IF /\ worker[w].at = "waiting"
          /\ saved[t] = run[t].status
          /\ ~ Unhandled(w)
          THEN Becomes(w, "working") /\ Saves(w, "working")
          ELSE UNCHANGED << worker, saved >>
    /\ UNCHANGED << task, cancelled, pipe, live, events, sched, spent, locks >>

\* cancelFeatureRunWork: only running runs are aborted, all are cancelled.
CancelFeature ==
    LET aborted == {t \in Tasks : run[t].status = "running" /\ live[t] # 0} IN
    /\ AtAwait
    /\ ~ At("recovering")
    /\ ~ cancelled
    /\ Fault("cancels", MaxCancels)
    /\ cancelled' = TRUE
    /\ task' = [t \in Tasks |-> IF task[t].status = "done" THEN task[t]
                                ELSE [task[t] EXCEPT !.status = "cancelled"]]
    /\ worker' = [w \in Workers |->
                    IF /\ w[1] \in aborted
                       /\ live[w[1]] = w[2]
                       /\ worker[w].at \in Alive
                       THEN [worker[w] EXCEPT !.at = "aborted"] ELSE worker[w]]
    /\ live' = [t \in Tasks |-> IF t \in aborted THEN 0 ELSE live[t]]
    /\ run' = [t \in Tasks |-> IF run[t].status = "none" THEN run[t]
                               ELSE [run[t] EXCEPT !.status = "cancelled"]]
    /\ UNCHANGED << pipe, saved, events, sched, locks >>

----------------------------------------------------------------------------
(* The scheduler loop: handlers of worker messages *)

Backoff(t) ==
    /\ run[t].status = "retry_await"
    /\ ~ run[t].due
    /\ run' = [run EXCEPT ![t].due = TRUE]
    /\ UNCHANGED << task, cancelled, processes, live, events, sched, spent,
                    locks >>

LoopOnly == UNCHANGED << processes, live, cancelled >>
Kept == UNCHANGED << task, run >>

\* transitionTask; what follows a write that throws does not happen.
Allowed(t, new) == ValidTaskTransition(task[t], new)
Transition(t, new) == task' = [task EXCEPT ![t] = new]
WithStatus(t, status) == [task[t] EXCEPT !.status = status]

Handling(kinds) == /\ At("draining")
                   /\ events # <<>>
                   /\ Head(events).kind \in kinds
                   /\ events' = Tail(events)
                   /\ UNCHANGED spent
msg == Head(events)
Ignored(t) == run[t].status = "cancelled" \/ task[t].status = "cancelled"

\* Answered, were a denial taken for a grant.
AnsweredYes(ok) ==
    LET w == << msg.task, live[msg.task] >> IN
    worker' = IF live[msg.task] = msg.slot /\ worker[w].at = "claiming"
                 THEN [worker EXCEPT ![w] = [at |-> "working",
                                             held |-> @.held \cup {msg.with}]]
                 ELSE worker

\* handleClaimLock: the answer goes to the run's session and names the
\* claim; after a denial the later of the two tasks is suspended.
Answered(ok) ==
    LET w == << msg.task, live[msg.task] >> IN
    worker' = IF live[msg.task] = msg.slot /\ worker[w].at = "claiming"
                 THEN [worker EXCEPT ![w] =
                         [at |-> "working",
                          held |-> IF ok THEN @.held \cup {msg.with}
                                         ELSE @.held]]
                 ELSE worker

Later(t, u) == IF Order[t] > Order[u] THEN t ELSE u
Suspended(t) == [task[t] EXCEPT !.collab = "suspended"]

GrantClaim ==
    /\ Handling({"claim"})
    /\ Granted(msg.task, {msg.with})
    /\ Answered(TRUE)
    /\ Kept
    /\ UNCHANGED << pipe, saved, live, cancelled, sched >>

\* DenyClaim, were the claimant only told of a grant.
DenyClaimSilently ==
    /\ Handling({"claim"})
    /\ Conflicts(msg.task, {msg.with}) # {}
    /\ LET loser == Later(msg.task, byPath[msg.with]) IN
       IF Allowed(loser, Suspended(loser))
          THEN Transition(loser, Suspended(loser)) /\ UNCHANGED << run, sched >>
          ELSE Kept /\ UNCHANGED sched
    /\ UNCHANGED << processes, live, cancelled, locks >>

DenyClaim ==
    /\ Handling({"claim"})
    /\ Conflicts(msg.task, {msg.with}) # {}
    /\ Answered(FALSE)
    /\ LET loser == Later(msg.task, byPath[msg.with]) IN
       IF task[loser].collab = "suspended"
          THEN Kept /\ UNCHANGED sched
          ELSE IF Allowed(loser, Suspended(loser))
                  THEN Transition(loser, Suspended(loser)) /\ UNCHANGED << run, sched >>
                  ELSE Kept /\ EndTick
    /\ UNCHANGED << pipe, saved, live, cancelled, locks >>

\* Any other message of a cancelled run or task is dropped.
DropMessage ==
    /\ Handling({"ask", "again", "result", "error"})
    /\ Ignored(msg.task)
    /\ Kept /\ LoopOnly /\ UNCHANGED << sched, locks >>

HandleAsk ==
    /\ Handling({"ask", "again"})
    /\ ~ Ignored(msg.task)
    /\ run' = [run EXCEPT ![msg.task].status = msg.with]
    /\ UNCHANGED << task, sched, locks >>
    /\ LoopOnly

\* A run that ended without submit: done, and nothing of it is merged.
HandleImplicit ==
    LET t == msg.task IN
    /\ Handling({"result"})
    /\ ~ Ignored(t)
    /\ ~ msg.with
    /\ ReleaseByRun(t)
    /\ IF Allowed(t, WithStatus(t, "done"))
          THEN /\ Transition(t, WithStatus(t, "done"))
               /\ sched' = [sched EXCEPT !.at = "completing", !.task = t]
          ELSE UNCHANGED task /\ EndTick
    /\ UNCHANGED run
    /\ LoopOnly

HandleSubmitted ==
    /\ Handling({"result"})
    /\ ~ Ignored(msg.task)
    /\ msg.with
    /\ ReleaseByRun(msg.task)
    /\ sched' = [sched EXCEPT !.at = "squashing", !.task = msg.task]
    /\ Kept /\ LoopOnly

\* The squash-merge succeeded: whatever happens next, the work is on the
\* feature branch.
SquashMerges ==
    LET t == sched.task
        merged == [status |-> "done", collab |-> "merged"]
    IN
    /\ At("squashing")
    /\ IF Allowed(t, merged)
          THEN /\ Transition(t, merged)
               /\ sched' = [sched EXCEPT !.at = "completing", !.tries = 0,
                                         !.todo = Tasks \ {t}]
          ELSE UNCHANGED task /\ EndTick
    /\ UNCHANGED << run, events, spent, locks >>
    /\ LoopOnly

\* squashWithRetry: the squash, or the rebase a retry begins with, met a
\* conflict, and another retry is left.
SquashRetries ==
    /\ sched.at \in {"squashing", "catchingup"}
    /\ sched.tries < MaxSquashRetries
    /\ sched' = [sched EXCEPT !.at = "catchingup", !.tries = @ + 1]
    /\ Kept /\ LoopOnly /\ UNCHANGED << events, spent, locks >>

\* rebaseGitDir was clean: the squash is tried again.
CatchesUp == /\ At("catchingup")
             /\ Goto("squashing")
             /\ Kept /\ LoopOnly /\ UNCHANGED << events, spent, locks >>

\* Retries are used up: failed, and the feature is rerouted to replanning,
\* which throws when it is not in a phase it can be rerouted from.
SquashExhausts ==
    LET t == sched.task IN
    /\ sched.at \in {"squashing", "catchingup"}
    /\ sched.tries = MaxSquashRetries
    /\ IF Allowed(t, WithStatus(t, "failed"))
          THEN /\ Transition(t, WithStatus(t, "failed"))
               /\ \/ sched' = [sched EXCEPT !.at = "completing", !.tries = 0]
                  \/ EndTick
          ELSE UNCHANGED task /\ EndTick
    /\ UNCHANGED << run, events, spent, locks >>
    /\ LoopOnly

\* The log of the failure is awaited between the release and the decision.
HandleError ==
    /\ Handling({"error"})
    /\ ~ Ignored(msg.task)
    /\ ReleaseByRun(msg.task)
    /\ sched' = [sched EXCEPT !.at = "logging", !.task = msg.task,
                              !.transient = msg.with]
    /\ Kept /\ LoopOnly

\* Retries, were the cap compared one off.
RetriesOnceMore(t) == sched.transient /\ run[t].restarts <= RetryCap

\* decideRetry
Retries(t) == sched.transient /\ run[t].restarts < RetryCap

DecideRetry ==
    LET t == sched.task IN
    /\ At("logging")
    /\ IF ~ Retries(t)
          THEN /\ run' = [run EXCEPT ![t].status = "failed"]
               /\ NextEvent
               /\ UNCHANGED task
          ELSE /\ UNCHANGED run
               /\ IF Allowed(t, WithStatus(t, "ready"))
                     THEN Transition(t, WithStatus(t, "ready")) /\ Goto("retrying")
                     ELSE UNCHANGED task /\ EndTick
    /\ UNCHANGED << events, spent, locks >>
    /\ LoopOnly

AwaitRetry ==
    LET t == sched.task IN
    /\ At("retrying")
    /\ run' = [run EXCEPT ![t].status = "retry_await", ![t].due = FALSE]
    /\ NextEvent
    /\ UNCHANGED << task, events, spent, locks >>
    /\ LoopOnly

GitThrows ==
    /\ sched.at \in {"squashing", "catchingup", "rebasing", "preparing"}
    /\ Fault("git", MaxGitErrors)
    /\ EndTick
    /\ Kept /\ LoopOnly /\ UNCHANGED << events, locks >>

----------------------------------------------------------------------------
(* The scheduler loop: reconciling suspended tasks after a landing *)

\* reconcileSameFeatureTasks rebases the tasks the landed one suspended.  It
\* passes over those whose suspended files share nothing with the files the
\* landed task says it changed; the worker says what it likes, so any may be.
RebaseSuspended(o) ==
    /\ At("completing")
    /\ o \in sched.todo
    /\ task[o].collab = "suspended"
    /\ task[o].status # "cancelled"
    /\ sched' = [sched EXCEPT !.at = "rebasing", !.other = o,
                              !.todo = @ \ {o}]
    /\ Kept /\ LoopOnly /\ UNCHANGED << events, spent, locks >>

RebaseBlocked == /\ At("rebasing")
                 /\ Goto("completing")
                 /\ Kept /\ LoopOnly /\ UNCHANGED << events, spent, locks >>

\* A worker that still has a session goes on, or is told of the conflict;
\* otherwise the task is made ready, to be dispatched again.
Reopened(o) == IF live[o] # 0 THEN [task[o] EXCEPT !.collab = "branch_open"]
                              ELSE [status |-> "ready", collab |-> "branch_open"]

RebaseDone(clean) ==
    LET o == sched.other IN
    /\ At("rebasing")
    /\ IF Allowed(o, Reopened(o))
          THEN /\ Transition(o, IF clean \/ live[o] = 0 THEN Reopened(o)
                                ELSE [task[o] EXCEPT !.collab = "conflict"])
               /\ Goto("completing")
          ELSE UNCHANGED task /\ EndTick
    /\ UNCHANGED << run, events, spent, locks >>
    /\ LoopOnly

CompleteRun ==
    LET t == sched.task IN
    /\ At("completing")
    /\ run' = [run EXCEPT ![t].status = "completed"]
    /\ NextEvent
    /\ UNCHANGED << task, events, spent, locks >>
    /\ LoopOnly

----------------------------------------------------------------------------
(* The scheduler loop: overlaps and dispatch, at the end of a tick *)

\* coordinateSameFeatureRuntimeOverlaps: running tasks that reserved a
\* common path are grouped; all but the first of a group are suspended.
Running == {t \in Tasks : task[t] = [status |-> "running",
                                     collab |-> "branch_open"]}
Overlap(t, u) == Reserved[t] \cap Reserved[u] # {}
Group(t) ==
    {u \in Running : \A S \in SUBSET Running :
        /\ t \in S
        /\ \A a \in S, b \in Running : Overlap(a, b) => b \in S
        => u \in S}
Overlapping == {t \in Running : \E u \in Group(t) : Order[u] < Order[t]}

\* Dispatchable, were a retry due like any other wait.
DispatchableNoRetry ==
    {t \in Tasks : /\ ~ cancelled
                   /\ task[t].status = "ready"
                   /\ task[t].collab \notin {"suspended", "conflict"}
                   /\ \A d \in Deps[t] : task[d].status = "done"
                   /\ Settled(t)
                   /\ run[t].status \notin Waits \cup {"retry_await"}}

\* readyTasks, without the runs that wait; a failed or completed run of a
\* ready task does not wait.
Dispatchable ==
    {t \in Tasks : /\ ~ cancelled
                   /\ task[t].status = "ready"
                   /\ task[t].collab \notin {"suspended", "conflict"}
                   /\ \A d \in Deps[t] : task[d].status = "done"
                   /\ Settled(t)
                   /\ run[t].status \notin Waits
                   /\ run[t].status = "retry_await" => run[t].due}

Live == {t \in Tasks : live[t] # 0}
IdleWorkers == IF Cardinality(Live) >= MaxConcurrency THEN 0
               ELSE MaxConcurrency - Cardinality(Live)
WorkToDo == Overlapping # {} \/ (Dispatchable # {} /\ IdleWorkers > 0)

BeginTick == /\ At("sleeping")
             /\ events # <<>> \/ WorkToDo
             /\ NextEvent
             /\ Kept /\ LoopOnly /\ UNCHANGED << events, spent, locks >>

\* What is dispatched is chosen once, and not looked at again.
Coordinate ==
    /\ At("draining")
    /\ events = <<>>
    /\ task' = [t \in Tasks |-> IF t \in Overlapping THEN Suspended(t)
                                                    ELSE task[t]]
    /\ sched' = IF Dispatchable # {} /\ IdleWorkers > 0
                   THEN [sched EXCEPT !.at = "dispatching",
                                      !.todo = Dispatchable,
                                      !.idle = IdleWorkers]
                   ELSE Asleep
    /\ UNCHANGED << run, events, spent, locks >>
    /\ LoopOnly

\* dispatchTaskUnit: ensureTaskRun, then the worktrees are awaited.  The
\* order of priority is any order.
DispatchTask(t) ==
    /\ At("dispatching")
    /\ t \in sched.todo
    /\ run' = IF run[t].status = "none"
                 THEN [run EXCEPT ![t].status = "ready"] ELSE run
    /\ sched' = [sched EXCEPT !.at = "preparing", !.task = t, !.todo = @ \ {t}]
    /\ UNCHANGED << task, events, spent, locks >>
    /\ LoopOnly

Opened == [status |-> "running", collab |-> "branch_open"]

\* The worker is spawned before the task is marked running.
Launch(w) ==
    LET t == w[1] IN
    /\ At("preparing")
    /\ sched.task = t
    /\ Free(w)
    /\ Starts(w, Resumable(t))
    /\ IF Allowed(t, Opened)
          THEN Transition(t, Opened) /\ Goto("persisting")
          ELSE UNCHANGED task /\ EndTick
    /\ UNCHANGED << run, cancelled, saved, events, spent, locks >>

\* Persist, were restarts counted down.
PersistCountingDown ==
    LET t == sched.task IN
    /\ At("persisting")
    /\ run' = [run EXCEPT ![t] =
                 [status |-> "running", session |-> TRUE, due |-> FALSE,
                  restarts |-> IF @.status = "retry_await" THEN @.restarts - 1
                                                           ELSE @.restarts]]
    /\ IF sched.idle > 1 /\ sched.todo # {}
          THEN sched' = [sched EXCEPT !.at = "dispatching", !.task = NoRun]
          ELSE EndTick
    /\ UNCHANGED << task, events, spent, locks >>
    /\ LoopOnly

\* Persist, were idle workers not counted.
PersistPastPool ==
    LET t == sched.task IN
    /\ At("persisting")
    /\ run' = [run EXCEPT ![t] =
                 [status |-> "running", session |-> TRUE, due |-> FALSE,
                  restarts |-> IF @.status = "retry_await" THEN @.restarts + 1
                                                           ELSE @.restarts]]
    /\ IF sched.todo # {}
          THEN sched' = [sched EXCEPT !.at = "dispatching", !.task = NoRun]
          ELSE EndTick
    /\ UNCHANGED << task, events, spent, locks >>
    /\ LoopOnly

\* persistRunningTaskRun; a retry counts as a restart once it is running.
Persist ==
    LET t == sched.task IN
    /\ At("persisting")
    /\ run' = [run EXCEPT ![t] =
                 [status |-> "running", session |-> TRUE, due |-> FALSE,
                  restarts |-> IF @.status = "retry_await" THEN @.restarts + 1
                                                           ELSE @.restarts]]
    /\ IF sched.idle > 1 /\ sched.todo # {}
          THEN sched' = [sched EXCEPT !.at = "dispatching", !.task = NoRun,
                                      !.idle = @ - 1]
          ELSE EndTick
    /\ UNCHANGED << task, events, spent, locks >>
    /\ LoopOnly

----------------------------------------------------------------------------
(* Crash and recovery *)

\* killStaleWorkerIfNeeded: recovery kills the workers of attended runs, the
\* others end when they write to the pipe that is gone.
StaleKilled == [w \in Workers |-> Gone]

\* The rows and the session files stay.
Crash ==
    /\ Fault("crashes", MaxCrashes)
    /\ worker' = StaleKilled
    /\ pipe' = [w \in Workers |-> <<>>]
    /\ live' = [t \in Tasks |-> 0]
    /\ events' = <<>>
    /\ sched' = [Asleep EXCEPT !.at = "recovering", !.todo = Tasks]
    /\ LoseLocks
    /\ UNCHANGED << rows, saved >>

Recovering(t) == /\ At("recovering")
                 /\ t \in sched.todo
                 /\ sched' = IF sched.todo = {t} THEN Asleep
                             ELSE [sched EXCEPT !.todo = @ \ {t}]
                 /\ UNCHANGED << task, cancelled, saved, spent, locks >>

Requeued(t, session) ==
    run' = [run EXCEPT ![t].status = "ready", ![t].session = session,
                       ![t].restarts = @ + 1]

\* recoverTaskRun
RecoverResumes(w) ==
    LET t == w[1] IN
    /\ Recovering(t)
    /\ task[t].status # "cancelled" /\ task[t].collab # "suspended"
    /\ run[t].status \in Attended
    /\ Resumable(t)
    /\ Free(w)
    /\ Starts(w, TRUE)
    /\ run' = [run EXCEPT ![t].restarts = @ + 1]
    /\ UNCHANGED events

RecoverRequeues(t) ==
    /\ Recovering(t)
    /\ task[t].status # "cancelled"
    /\ run[t].status \in Attended
    /\ task[t].collab = "suspended" \/ ~ Resumable(t)
    /\ Requeued(t, run[t].session /\ task[t].collab = "suspended")
    /\ UNCHANGED << worker, pipe, live, events >>

RecoverKeeps(t) ==
    /\ Recovering(t)
    /\ task[t].status = "cancelled" \/ run[t].status \notin Attended
    /\ run' = IF /\ task[t].status = "cancelled"
                 /\ run[t].status \notin {"none", "retry_await", "completed"}
                 THEN [run EXCEPT ![t].status = "cancelled"] ELSE run
    /\ UNCHANGED << worker, pipe, live, events >>

----------------------------------------------------------------------------
(* Specification *)

HandleMessage == \/ GrantClaim \/ DenyClaim \/ DropMessage \/ HandleAsk
                 \/ HandleImplicit \/ HandleSubmitted \/ HandleError

LoopStep ==
    \/ BeginTick \/ HandleMessage
    \/ SquashMerges \/ SquashRetries \/ CatchesUp \/ SquashExhausts
    \/ CompleteRun
    \/ DecideRetry \/ AwaitRetry
    \/ \E t \in Tasks : RebaseSuspended(t) \/ DispatchTask(t)
    \/ RebaseBlocked \/ \E clean \in BOOLEAN : RebaseDone(clean)
    \/ Coordinate \/ \E w \in Workers : Launch(w)
    \/ Persist

Recover == \/ \E w \in Workers : RecoverResumes(w)
           \/ \E t \in Tasks : RecoverRequeues(t) \/ RecoverKeeps(t)

TasksNext ==
    \/ \E w \in Workers : WorkerStep(w) \/ Read(w) \/ ExitSeen(w)
                          \/ HealthTimeout(w)
    \/ \E t \in Tasks : AnswerRequest(t) \/ Backoff(t)
    \/ CancelFeature
    \/ LoopStep \/ GitThrows
    \/ Crash \/ Recover

TasksSpec == InitTasks /\ [][TasksNext]_vars

\* The loop runs on, the pool reads what it is sent, timers fire.  Nothing
\* is assumed of workers, which may work for ever, nor of the user.
FairTasksSpec ==
    /\ TasksSpec
    /\ WF_vars(LoopStep)
    /\ WF_vars(Recover)
    /\ WF_vars(\E w \in Workers : Read(w) \/ ExitSeen(w))
    /\ WF_vars(\E t \in Tasks : Backoff(t))

----------------------------------------------------------------------------
(* Safety *)

\* Two tasks never write to the same path at once: what a worker was granted
\* is its task's alone for as long as its process works.  A crash breaks it as
\* it breaks OneWorkerPerTask: the end of one process of a task releases the
\* paths of the other.
ExclusiveWriters ==
    \A v, w \in Workers :
        /\ v[1] # w[1]
        /\ worker[v].at \in Alive
        /\ worker[w].at \in Alive
        => worker[v].held \cap worker[w].held = {}

\* A task is "executed by a single worker process": no second process is
\* launched while an earlier one still works.  A crash breaks it: it can leave
\* a task ready whose run recovery resumes.
OneWorkerPerTask ==
    spent.crashes = 0 =>
        \A v, w \in Workers : /\ v # w
                              /\ v[1] = w[1]
                              /\ worker[v].at \in Alive
                              => worker[w].at \notin Alive

\* A running task is not forgotten: it has a session in the pool, or its last
\* message or exit is still to be handled, or the operator was told of its
\* failure.
Heard(t) == \/ live[t] # 0
            \/ \E i \in DOMAIN events : /\ events[i].task = t
                                        /\ events[i].kind \in {"result", "error"}
            \/ sched.task = t
RunningTasksAttended ==
    \A t \in Running : Heard(t) \/ run[t].status = "failed"

\* decideRetry bounds the restarts of a run; a restart of the orchestrator
\* adds at most one each.
RetryBounded == \A t \in Tasks : run[t].restarts <= RetryCap + spent.crashes

\* Dispatch never fills the pool beyond its size; only recovery, which
\* resumes every run there is, may.
LaunchWithinPool ==
    [][Cardinality(Live') > Cardinality(Live)
          => \/ At("recovering")
             \/ Cardinality(Live') <= MaxConcurrency]_vars

----------------------------------------------------------------------------
(* Liveness *)

\* A worker that waits for a lock gets an answer, unless its process ends.
ClaimsAnswered ==
    \A w \in Workers :
        (worker[w].at = "claiming") ~> (worker[w].at # "claiming")

\* "When the dependency task completes successfully, then the dependent task
\* enters the ready frontier."
DependentsBecomeReady ==
    \A t \in Tasks :
        (\A d \in Deps[t] : task[d].status = "done")
            ~> (task[t].status # "pending")

\* A run whose retry was decided runs again, unless its task was suspended
\* or in conflict when it failed.
RetryWaitEnds ==
    \A t \in Tasks :
        (run[t].status = "retry_await" /\ task[t].collab = "branch_open")
            ~> (run[t].status # "retry_await")
=============================================================================
