------------------------------- MODULE Worker -------------------------------
(***************************************************************************)
(* One task's worker process and the session file it is resumed from: the  *)
(* calls that wait for the operator, the checkpoints around them, and what *)
(* a death of either process leaves behind.                                *)
(*                                                                         *)
(* The worker's agent makes calls one after the other.  A call that asks   *)
(* the operator is saved as pending before the request is sent; its answer *)
(* is saved before the agent sees it.  A worker resumed while a call is    *)
(* pending asks again, and runs the rest of the agent INSIDE the delivery  *)
(* of the answer.                                                          *)
(*                                                                         *)
(* Abstracted: a conversation is the set of calls it has results for; an   *)
(* agent's turn holds one call; time (a retry may come due at any moment); *)
(* suspension, steering, locks and late exits, which are in TaskRuns.      *)
(***************************************************************************)
EXTENDS Naturals, Sequences

CONSTANTS
    MaxCalls,        \* bound on calls that ask the operator
    MaxDeaths,       \* bound on deaths of the worker and of the orchestrator
    MaxFailedSaves   \* bound on checkpoints that cannot be written

ASSUME WorkerConstants == {MaxCalls, MaxDeaths, MaxFailedSaves} \subseteq Nat

VARIABLES
    file,         \* the session file
    worker,       \* the process
    inbox,        \* answers on their way to it
    outbox,       \* messages, and the news of its end, on their way from it
    run,          \* the run row
    live,         \* the pool has a session for the run
    answered,     \* calls whose answer was saved, for the properties
    calls,        \* how many calls were made
    deaths,       \* how many of MaxDeaths and
    failedSaves   \* of MaxFailedSaves are taken

workerVars == << file, worker, inbox, outbox, run, live, answered, calls,
                 deaths, failedSaves >>

----------------------------------------------------------------------------
(* State *)

Kinds == {"help", "approval"}
NoCall == [kind |-> "none", n |-> 0]
AwaitOf(kind) == IF kind = "help" THEN "await_response" ELSE "await_approval"

NoFile == [log |-> {}, wait |-> NoCall, done |-> {}, submitted |-> FALSE,
           exists |-> FALSE]
DeadWorker == [at |-> "dead", mode |-> "start", log |-> {}, submitted |-> FALSE,
               pend |-> NoCall, call |-> NoCall, restored |-> FALSE,
               delivering |-> {}, nested |-> FALSE, failed |-> FALSE]

Is(place) == worker.at = place
Alive == ~ Is("dead")
Awaiting == \E k \in Kinds : run.status = AwaitOf(k)

InitWorker ==
    /\ file = NoFile
    /\ worker = DeadWorker
    /\ inbox = <<>>
    /\ outbox = <<>>
    /\ run = [status |-> "ready", call |-> NoCall]
    /\ live = FALSE
    /\ answered = {}
    /\ calls = 0
    /\ deaths = 0
    /\ failedSaves = 0

TheRun == UNCHANGED << run, live >>
Bounds == UNCHANGED << calls, deaths, failedSaves >>
Message(kind, call) == [kind |-> kind, call |-> call]
Send(message) == outbox' = Append(outbox, message)

\* saveCheckpoint replaces the file as a whole, or fails and leaves it.
Saves(wait, done) ==
    /\ file' = [log |-> worker.log, wait |-> wait, done |-> done,
                submitted |-> worker.submitted, exists |-> TRUE]
    /\ UNCHANGED failedSaves
CannotSave ==
    /\ failedSaves < MaxFailedSaves
    /\ failedSaves' = failedSaves + 1
    /\ UNCHANGED file

----------------------------------------------------------------------------
(* A process begins *)

\* The harness spawns the process; the pool has a session for it, whose handlers
\* hear what it sends.
Spawned == [DeadWorker EXCEPT !.at = "starting",
                              !.mode = IF file.exists THEN "resume" ELSE "start"]
TakesSession == live' = TRUE /\ inbox' = <<>>

\* The scheduler starts a run, or resumes it when its retry is due; a session
\* file that is not there makes it start anew.
DispatchRun ==
    /\ run.status \in {"ready", "retry_await"}
    /\ ~ Alive /\ outbox = <<>>
    /\ worker' = Spawned
    /\ run' = [status |-> "running", call |-> NoCall]
    /\ TakesSession
    /\ UNCHANGED << file, outbox, answered >>
    /\ Bounds

\* The messages of a conversation that waits for nobody.
LoadedLogWithoutAnswer == file.log
LoadedLog == file.log \cup file.done

\* A fresh conversation, or the one that was saved: with the answers saved
\* beside it, unless a result was submitted.  Then the run is at its end, and
\* what it saves last is the conversation alone.
Load ==
    LET loaded == worker.mode = "resume"
        over == loaded /\ file.submitted
    IN
    /\ Is("starting")
    /\ ~ loaded \/ file.wait = NoCall
    /\ worker' = [worker EXCEPT
                     !.at = IF over THEN "final" ELSE "thinking",
                     !.log = IF over THEN file.log
                             ELSE IF loaded THEN LoadedLog ELSE {},
                     !.submitted = over]
    /\ UNCHANGED << file, inbox, outbox, answered >>
    /\ TheRun /\ Bounds

\* The call that was pending is sent once more.
RestoreWait ==
    /\ Is("starting")
    /\ worker.mode = "resume" /\ file.wait # NoCall
    /\ worker' = [worker EXCEPT !.at = "waiting", !.log = file.log,
                                !.submitted = file.submitted,
                                !.pend = file.wait, !.call = file.wait,
                                !.restored = TRUE]
    /\ Send(Message("ask", file.wait))
    /\ UNCHANGED << file, inbox, answered >>
    /\ TheRun /\ Bounds

----------------------------------------------------------------------------
(* The agent *)

Ask(kind) ==
    LET call == [kind |-> kind, n |-> calls + 1] IN
    /\ Is("thinking")
    /\ calls < MaxCalls
    /\ calls' = calls + 1
    /\ worker' = [worker EXCEPT !.at = "asking", !.pend = call, !.call = call,
                                !.restored = FALSE]
    /\ UNCHANGED << file, inbox, outbox, answered, deaths, failedSaves >>
    /\ TheRun

\* A destructive command is blocked and its approval asked for, though nothing
\* waits for the decision.
BlockCommand ==
    LET call == [kind |-> "approval", n |-> calls + 1] IN
    /\ Is("thinking")
    /\ calls < MaxCalls
    /\ calls' = calls + 1
    /\ Send(Message("ask", call))
    /\ worker' = [worker EXCEPT !.at = "recording", !.log = @ \cup {call}]
    /\ UNCHANGED << file, inbox, answered, deaths, failedSaves >>
    /\ TheRun

\* requestHelp and requestApproval: the request goes out once it is saved, and
\* a request that cannot be saved is an error the agent sees.
SaveRequest ==
    /\ Is("asking")
    /\ \/ /\ Saves(worker.pend, {})
          /\ Send(Message("ask", worker.pend))
          /\ worker' = [worker EXCEPT !.at = "waiting"]
       \/ /\ CannotSave
          /\ worker' = [worker EXCEPT !.at = "recording", !.pend = NoCall,
                                      !.log = @ \cup {worker.call}]
          /\ UNCHANGED outbox
    /\ UNCHANGED << inbox, answered, calls, deaths >>
    /\ TheRun

SubmitCall ==
    /\ Is("thinking")
    /\ worker' = [worker EXCEPT !.at = "submitting", !.submitted = TRUE]
    /\ UNCHANGED << file, inbox, outbox, answered >>
    /\ TheRun /\ Bounds

SaveSubmission ==
    /\ Is("submitting")
    /\ Saves(worker.pend, {}) \/ CannotSave
    /\ worker' = [worker EXCEPT !.at = "recording"]
    /\ UNCHANGED << inbox, outbox, answered, calls, deaths >>
    /\ TheRun

\* An error inside the delivery of a restored answer is swallowed with it, and
\* the run never comes to an end.
AfterError == [worker EXCEPT !.at = IF worker.nested THEN "hung" ELSE "final",
                             !.failed = TRUE]

\* Every result of a tool is saved as it enters the conversation.
RecordResult ==
    /\ Is("recording")
    /\ \/ /\ Saves(worker.pend, {})
          /\ worker' = [worker EXCEPT !.at = "thinking"]
       \/ /\ CannotSave
          /\ worker' = AfterError
    /\ UNCHANGED << inbox, outbox, answered, calls, deaths >>
    /\ TheRun

\* The agent has nothing more to do: only now is a restored answer delivered.
AgentEnds ==
    /\ Is("thinking")
    /\ \/ worker' = [worker EXCEPT !.at = "final", !.delivering = {},
                                   !.nested = FALSE]
       \/ worker' = AfterError
    /\ UNCHANGED << file, inbox, outbox, answered >>
    /\ TheRun /\ Bounds

----------------------------------------------------------------------------
(* Answers *)

\* The result of a call as it enters the conversation.
WithResult(call) == worker.log \cup {call}

\* handleMessage: a response is taken by the call it is for, one at a time of
\* each kind.
Takes(call) == /\ Is("waiting")
               /\ worker.pend = call
               /\ call.kind \notin worker.delivering

TakeAnswer ==
    /\ Alive /\ inbox # <<>>
    /\ inbox' = Tail(inbox)
    /\ worker' = IF Takes(Head(inbox))
                    THEN [worker EXCEPT !.at = "answering",
                                        !.delivering = @ \cup {Head(inbox).kind}]
                    ELSE worker
    /\ UNCHANGED << file, outbox, answered >>
    /\ TheRun /\ Bounds

\* resolvePendingWait: the answer is saved beside the conversation, then given
\* to the call that waits for it.  An answer that cannot be saved is dropped.
SaveAnswer ==
    /\ Is("answering")
    /\ \/ /\ Saves(NoCall, {worker.pend})
          /\ answered' = answered \cup {worker.pend}
          /\ worker' = [worker EXCEPT
                           !.at = IF worker.restored THEN "rejoining" ELSE "recording",
                           !.pend = NoCall,
                           !.log = WithResult(worker.call),
                           !.delivering = IF worker.restored
                                             THEN @ ELSE @ \ {worker.call.kind}]
       \/ /\ CannotSave
          /\ worker' = [worker EXCEPT !.at = "waiting",
                                      !.delivering = @ \ {worker.call.kind}]
          /\ UNCHANGED answered
    /\ UNCHANGED << inbox, outbox, calls, deaths >>
    /\ TheRun

\* finishRestoredWait: save the conversation, and go on with the agent before
\* the answer counts as delivered.
Rejoin ==
    /\ Is("rejoining")
    /\ \/ /\ Saves(worker.pend, {})
          /\ worker' = [worker EXCEPT !.at = "thinking", !.nested = TRUE]
       \/ /\ CannotSave
          /\ worker' = [worker EXCEPT !.at = "hung", !.delivering = {}]
    /\ UNCHANGED << inbox, outbox, answered, calls, deaths >>
    /\ TheRun

----------------------------------------------------------------------------
(* A process ends *)

Final ==
    /\ Is("final")
    /\ \/ /\ Saves(NoCall, {})
          /\ Send(Message(IF worker.failed THEN "error" ELSE "result", NoCall))
       \/ /\ CannotSave
          /\ UNCHANGED outbox
    /\ worker' = [worker EXCEPT !.at = "exiting"]
    /\ UNCHANGED << inbox, answered, calls, deaths >>
    /\ TheRun

Dies(news) ==
    /\ worker' = DeadWorker
    /\ inbox' = <<>>
    /\ Send(Message(news, NoCall))
    /\ UNCHANGED << file, answered >>
    /\ TheRun

Exit == Is("exiting") /\ Dies("exit") /\ Bounds

\* The process crashes, or is silent for too long and is killed.
Die ==
    /\ Alive /\ deaths < MaxDeaths
    /\ deaths' = deaths + 1
    /\ \E news \in {"exit", "timeout"} : Dies(news)
    /\ UNCHANGED << calls, failedSaves >>

----------------------------------------------------------------------------
(* The orchestrator *)

Heard == outbox' = Tail(outbox)
Hears(kind) == outbox # <<>> /\ Head(outbox).kind = kind
TheWorker == UNCHANGED << file, worker, inbox, answered >>

HandleAsk ==
    LET call == Head(outbox).call IN
    /\ Hears("ask") /\ Heard
    /\ run' = [status |-> AwaitOf(call.kind), call |-> call]
    /\ UNCHANGED live
    /\ TheWorker /\ Bounds

HandleResult ==
    /\ Hears("result") /\ Heard
    /\ run' = [status |-> "completed", call |-> NoCall]
    /\ live' = FALSE
    /\ TheWorker /\ Bounds

\* decideRetry: a transient error, silence among them, is tried again while the
\* run has attempts left; both are open here.
Retried == {"retry_await", "failed"}
HandleFailure ==
    /\ Hears("error") \/ Hears("timeout")
    /\ Heard
    /\ \E status \in Retried : run' = [status |-> status, call |-> NoCall]
    /\ live' = FALSE
    /\ TheWorker /\ Bounds

\* The exit of a process whose run has no session is no news.
HandleExit ==
    /\ Hears("exit") /\ Heard
    /\ run' = IF live THEN [status |-> "failed", call |-> NoCall] ELSE run
    /\ live' = FALSE
    /\ TheWorker /\ Bounds

\* respondToRunHelp and decideRunApproval of the pool
Deliver(call) == inbox' = IF Alive THEN Append(inbox, call) ELSE inbox

\* The operator answers the request the row shows; the row is running again
\* whether or not the worker takes the answer.
Answer ==
    /\ Awaiting /\ live
    /\ Deliver(run.call)
    /\ run' = [status |-> "running", call |-> NoCall]
    /\ UNCHANGED << file, worker, outbox, live, answered >>
    /\ Bounds

\* The orchestrator dies with every message on its way; at its next start the
\* worker that is left is killed and an attended run is resumed, its status
\* kept, or made ready when there is nothing to resume it from.
Restart ==
    LET attended == run.status = "running" \/ Awaiting
        resumes == attended /\ file.exists
    IN
    /\ deaths < MaxDeaths
    /\ deaths' = deaths + 1
    /\ inbox' = <<>> /\ outbox' = <<>>
    /\ worker' = IF resumes THEN Spawned ELSE DeadWorker
    /\ live' = resumes
    /\ run' = IF attended /\ ~ resumes
                 THEN [status |-> "ready", call |-> NoCall] ELSE run
    /\ UNCHANGED << file, answered, calls, failedSaves >>

----------------------------------------------------------------------------
(* Specification *)

Working ==
    \/ Load \/ RestoreWait \/ (\E kind \in Kinds : Ask(kind)) \/ BlockCommand
    \/ SaveRequest \/ SubmitCall \/ SaveSubmission \/ RecordResult \/ AgentEnds
    \/ SaveAnswer \/ Rejoin \/ Final \/ Exit

Handling == HandleAsk \/ HandleResult \/ HandleFailure \/ HandleExit

WorkerNext == \/ Working \/ Handling
              \/ TakeAnswer \/ Answer \/ DispatchRun \/ Die \/ Restart

WorkerSpec == InitWorker /\ [][WorkerNext]_workerVars

\* Processes run on, messages arrive, the scheduler dispatches what is due and
\* the operator answers every request that is shown.
FairWorkerSpec ==
    /\ WorkerSpec
    /\ WF_workerVars(Working) /\ WF_workerVars(Handling)
    /\ WF_workerVars(TakeAnswer) /\ WF_workerVars(Answer)
    /\ WF_workerVars(DispatchRun)

----------------------------------------------------------------------------
(* Properties *)

\* The run is over but for its result, which was submitted.
Submitted == worker.at \in {"final", "exiting"} /\ worker.submitted

\* An answer that was saved is never asked for again, whichever process dies
\* when; it is in the conversation of every agent that goes on, and in the
\* session file, unless all that is left of the run is to report the result it
\* submitted (persistCheckpoint, resumeFromCheckpoint): an answer given after
\* the submission is lost when the worker dies before its next save.
AnswersKept ==
    /\ file.wait \notin answered
    /\ worker.pend \notin answered
    /\ \/ answered \subseteq file.log \cup file.done
       \/ file.submitted /\ file.wait = NoCall
    /\ \/ answered \subseteq worker.log
       \/ worker.at \in {"dead", "starting", "waiting", "answering"}
       \/ Submitted

\* "Blocks the agent until the orchestrator delivers a help response": a worker
\* that waits for the operator, who answers, does not wait for ever.
EveryWaitEnds ==
    \A n \in 1..MaxCalls :
        Is("waiting") /\ worker.call.n = n
            ~> ~ (Is("waiting") /\ worker.call.n = n)
=============================================================================
