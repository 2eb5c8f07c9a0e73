---------------------------- MODULE WorkerProofs ----------------------------
(***************************************************************************)
(* An answer that was saved is kept while its agent goes on, for any       *)
(* number of calls, deaths and failed saves.                               *)
(*                                                                         *)
(* AnswersKept alone is not inductive: a worker that has just been spawned *)
(* has no conversation, and a save writes what the worker holds over what  *)
(* the file holds.  KeptInv adds what makes the two agree: a process that  *)
(* starts afresh has no session file, a file with a pending call has no    *)
(* answers beside it, a worker that waits already has every answer in its  *)
(* conversation, and a new call is a new one.  What a run that submitted   *)
(* may have lost stays lost to it alone: its file sends every worker       *)
(* resumed from it to the end (FileEnds), and no agent goes on from it.    *)
(***************************************************************************)
EXTENDS Worker, TLAPS

Call == [kind : Kinds \cup {"none"}, n : Nat]

Places == {"dead", "starting", "thinking", "asking", "waiting", "answering",
           "rejoining", "recording", "submitting", "final", "exiting", "hung"}

FileType == [log : SUBSET Call, wait : Call, done : SUBSET Call,
             submitted : BOOLEAN, exists : BOOLEAN]
WorkerType == [at : Places, mode : {"start", "resume"}, log : SUBSET Call,
               submitted : BOOLEAN, pend : Call, call : Call,
               restored : BOOLEAN, delivering : SUBSET (Kinds \cup {"none"}),
               nested : BOOLEAN, failed : BOOLEAN]
MessageType == [kind : {"ask", "result", "error", "exit", "timeout"}, call : Call]
RunType == [status : {"ready", "running", "await_response", "await_approval",
                      "retry_await", "completed", "failed"},
            call : Call]

WorkerTypeOK ==
    /\ file \in FileType
    /\ worker \in WorkerType
    /\ inbox \in Seq(Call)
    /\ outbox \in Seq(MessageType)
    /\ run \in RunType
    /\ live \in BOOLEAN
    /\ answered \in SUBSET Call
    /\ calls \in Nat

FileHolds == answered \subseteq file.log \cup file.done
FileEnds == file.submitted /\ file.wait = NoCall
HoldsAnswers == worker.at \notin {"dead", "starting"} /\ ~ Submitted =>
                    answered \subseteq worker.log
NothingBesideWait == file.wait # NoCall => file.done = {}
AbsentFile == ~ file.exists => file = NoFile
StartsAfresh == Is("starting") /\ worker.mode = "start" => ~ file.exists
OneCall == worker.at \in {"asking", "waiting", "answering"} =>
               worker.pend # NoCall /\ worker.call = worker.pend
CallsNumbered == /\ \A c \in answered : c # NoCall /\ c.n <= calls
                 /\ file.wait.n <= calls
                 /\ worker.pend.n <= calls

Kept ==
    /\ FileHolds \/ FileEnds
    /\ file.wait \notin answered
    /\ worker.pend \notin answered
    /\ HoldsAnswers /\ NothingBesideWait /\ AbsentFile /\ StartsAfresh
    /\ OneCall /\ CallsNumbered
KeptInv == WorkerTypeOK /\ Kept

----------------------------------------------------------------------------

\* An agent that fails hangs, or comes to its end.
LEMMA ErrorTyped ==
    ASSUME WorkerTypeOK
    PROVE  AfterError \in WorkerType
<1>1. PICK at \in {"hung", "final"} :
         AfterError = [worker EXCEPT !.at = at, !.failed = TRUE]
  BY DEF AfterError
<1> QED
  BY <1>1 DEF WorkerTypeOK, WorkerType, Places

(* The constants of the state have their types. *)
LEMMA NoCallIsCall == NoCall \in Call
BY DEF NoCall, Call

LEMMA NoFileIsFile == NoFile \in FileType
BY NoCallIsCall DEF NoFile, FileType

LEMMA DeadIsWorker == DeadWorker \in WorkerType
BY NoCallIsCall DEF DeadWorker, WorkerType, Places

LEMMA InitKept == InitWorker => KeptInv
<1> SUFFICES ASSUME InitWorker PROVE KeptInv
  OBVIOUS
<1>1. WorkerTypeOK
  <2>1. run \in RunType
    BY NoCallIsCall DEF InitWorker, RunType
  <2>2. inbox \in Seq(Call) /\ outbox \in Seq(MessageType)
    BY DEF InitWorker
  <2> QED
    BY <2>1, <2>2, NoFileIsFile, DeadIsWorker DEF InitWorker, WorkerTypeOK
<1>2. worker.at = "dead" /\ worker.pend = NoCall
  BY DEF InitWorker, DeadWorker
<1>3. NoCall.n = 0
  BY DEF NoCall
<1>4. file = NoFile /\ file.wait = NoCall /\ answered = {} /\ calls = 0
  BY DEF InitWorker, NoFile
<1> QED
  BY <1>1, <1>2, <1>3, <1>4
  DEF KeptInv, Kept, HoldsAnswers, Submitted, FileHolds, FileEnds,
      NothingBesideWait, AbsentFile, StartsAfresh, OneCall, CallsNumbered, Is

----------------------------------------------------------------------------
(* Types.  A save and a message keep theirs whatever step they are part of. *)

LEMMA SavesTyped ==
    ASSUME WorkerTypeOK, NEW wait \in Call, NEW done \in SUBSET Call,
           Saves(wait, done)
    PROVE  file' \in FileType
BY DEF WorkerTypeOK, FileType, WorkerType, Saves

LEMMA SendTyped ==
    ASSUME WorkerTypeOK, NEW kind \in {"ask", "result", "error", "exit", "timeout"},
           NEW c \in Call, Send(Message(kind, c))
    PROVE  outbox' \in Seq(MessageType)
<1>1. Message(kind, c) \in MessageType
  BY DEF Message, MessageType
<1> QED
  BY <1>1 DEF WorkerTypeOK, Send

LEMMA HeardTyped ==
    ASSUME WorkerTypeOK, outbox # <<>>
    PROVE  Tail(outbox) \in Seq(MessageType) /\ Head(outbox).call \in Call
<1>1. Head(outbox) \in MessageType
  BY DEF WorkerTypeOK
<1> QED
  BY <1>1 DEF WorkerTypeOK, MessageType

(* Every variable keeps its type. *)
LEMMA TypeStep == WorkerTypeOK /\ [WorkerNext]_workerVars => WorkerTypeOK'
<1> SUFFICES ASSUME WorkerTypeOK, [WorkerNext]_workerVars PROVE WorkerTypeOK'
  OBVIOUS
<1> USE DEF TheRun, Bounds, TheWorker
<1>1. CASE Load
  <2>1. worker' \in WorkerType
    <3>1. PICK at, log, submitted :
             /\ worker' = [worker EXCEPT !.at = at, !.log = log, !.submitted = submitted]
             /\ at \in {"final", "thinking"} /\ log \in {file.log, LoadedLog, {}}
             /\ submitted \in BOOLEAN
      BY <1>1 DEF Load
    <3>2. file.log \in SUBSET Call /\ LoadedLog \in SUBSET Call
      BY DEF LoadedLog, WorkerTypeOK, FileType
    <3>3. log \in SUBSET Call
      BY <3>1, <3>2
    <3> QED
      BY <3>1, <3>3 DEF WorkerTypeOK, WorkerType, Places
  <2> QED
    BY <1>1, <2>1 DEF Load, WorkerTypeOK
<1>2. CASE RestoreWait
  <2>1. file.wait \in Call
    BY DEF WorkerTypeOK, FileType
  <2>2. worker' \in WorkerType
    BY <1>2 DEF RestoreWait, WorkerTypeOK, WorkerType, FileType, Places
  <2>3. outbox' \in Seq(MessageType)
    BY <1>2, <2>1, SendTyped DEF RestoreWait
  <2> QED
    BY <1>2, <2>2, <2>3 DEF RestoreWait, WorkerTypeOK
<1>3. ASSUME NEW kind \in Kinds, Ask(kind) PROVE WorkerTypeOK'
  <2>1. [kind |-> kind, n |-> calls + 1] \in Call /\ calls + 1 \in Nat
    BY DEF WorkerTypeOK, Call
  <2>2. worker' \in WorkerType
    BY <1>3, <2>1 DEF Ask, WorkerTypeOK, WorkerType, Places
  <2> QED
    BY <1>3, <2>1, <2>2 DEF Ask, WorkerTypeOK
<1>4. CASE BlockCommand
  <2> DEFINE c == [kind |-> "approval", n |-> calls + 1]
  <2>1. c \in Call /\ calls + 1 \in Nat
    BY DEF WorkerTypeOK, Call, Kinds
  <2>2. worker' \in WorkerType
    BY <1>4, <2>1 DEF BlockCommand, WorkerTypeOK, WorkerType, Places
  <2>3. outbox' \in Seq(MessageType)
    BY <1>4, <2>1, SendTyped DEF BlockCommand
  <2> QED
    BY <1>4, <2>1, <2>2, <2>3 DEF BlockCommand, WorkerTypeOK
<1>5. CASE SaveRequest
  <2>1. worker.pend \in Call /\ {} \in SUBSET Call
    BY DEF WorkerTypeOK, WorkerType
  <2>2. file' \in FileType
    BY <1>5, <2>1, SavesTyped DEF SaveRequest, CannotSave, WorkerTypeOK
  <2>3. worker' \in WorkerType
    <3>1. worker.log \cup {worker.call} \in SUBSET Call
      BY DEF WorkerTypeOK, WorkerType
    <3>2. CASE worker' = [worker EXCEPT !.at = "waiting"]
      BY <3>2 DEF WorkerTypeOK, WorkerType, Places
    <3>3. CASE worker' = [worker EXCEPT !.at = "recording", !.pend = NoCall,
                                        !.log = @ \cup {worker.call}]
      BY <3>1, <3>3, NoCallIsCall DEF WorkerTypeOK, WorkerType, Places
    <3> QED
      BY <1>5, <3>2, <3>3 DEF SaveRequest
  <2>4. outbox' \in Seq(MessageType)
    BY <1>5, <2>1, SendTyped DEF SaveRequest, WorkerTypeOK
  <2> QED
    BY <1>5, <2>2, <2>3, <2>4 DEF SaveRequest, WorkerTypeOK
<1>6. CASE SubmitCall
  <2>1. worker' \in WorkerType
    BY <1>6 DEF SubmitCall, WorkerTypeOK, WorkerType, Places
  <2> QED
    BY <1>6, <2>1 DEF SubmitCall, WorkerTypeOK
<1>7. CASE SaveSubmission
  <2>1. worker.pend \in Call /\ {} \in SUBSET Call
    BY DEF WorkerTypeOK, WorkerType
  <2>2. file' \in FileType
    BY <1>7, <2>1, SavesTyped DEF SaveSubmission, CannotSave, WorkerTypeOK
  <2>3. worker' \in WorkerType
    BY <1>7 DEF SaveSubmission, WorkerTypeOK, WorkerType, Places
  <2> QED
    BY <1>7, <2>2, <2>3 DEF SaveSubmission, WorkerTypeOK
<1>8. CASE RecordResult
  <2>1. worker.pend \in Call /\ {} \in SUBSET Call
    BY DEF WorkerTypeOK, WorkerType
  <2>2. file' \in FileType
    BY <1>8, <2>1, SavesTyped DEF RecordResult, CannotSave, WorkerTypeOK
  <2>3. worker' \in WorkerType
    <3>1. CASE worker' = [worker EXCEPT !.at = "thinking"]
      BY <3>1 DEF WorkerTypeOK, WorkerType, Places
    <3> QED
      BY <1>8, <3>1, ErrorTyped DEF RecordResult
  <2> QED
    BY <1>8, <2>2, <2>3 DEF RecordResult, WorkerTypeOK
<1>9. CASE AgentEnds
  <2>1. worker' \in WorkerType
    <3>1. CASE worker' = [worker EXCEPT !.at = "final", !.delivering = {},
                                        !.nested = FALSE]
      BY <3>1 DEF WorkerTypeOK, WorkerType, Places
    <3> QED
      BY <1>9, <3>1, ErrorTyped DEF AgentEnds
  <2> QED
    BY <1>9, <2>1 DEF AgentEnds, WorkerTypeOK
<1>10. CASE TakeAnswer
  <2>1. Head(inbox) \in Call /\ Tail(inbox) \in Seq(Call)
    BY <1>10 DEF TakeAnswer, WorkerTypeOK
  <2>2. worker' \in WorkerType
    BY <1>10, <2>1 DEF TakeAnswer, WorkerTypeOK, WorkerType, Places, Call
  <2> QED
    BY <1>10, <2>1, <2>2 DEF TakeAnswer, WorkerTypeOK
<1>11. CASE SaveAnswer
  <2>1. {worker.pend} \in SUBSET Call /\ answered' \in SUBSET Call
    BY <1>11 DEF SaveAnswer, WorkerTypeOK, WorkerType
  <2>2. file' \in FileType
    BY <1>11, <2>1, NoCallIsCall, SavesTyped DEF SaveAnswer, CannotSave, WorkerTypeOK
  <2>3. WithResult(worker.call) \in SUBSET Call
    BY DEF WithResult, WorkerTypeOK, WorkerType
  <2>4. worker' \in WorkerType
    <3> DEFINE fewer == worker.delivering \ {worker.call.kind}
               next == [worker EXCEPT
                          !.at = IF worker.restored THEN "rejoining" ELSE "recording",
                          !.pend = NoCall, !.log = WithResult(worker.call),
                          !.delivering = IF worker.restored THEN @ ELSE fewer]
               back == [worker EXCEPT !.at = "waiting", !.delivering = fewer]
    <3>1. worker \in WorkerType /\ fewer \in SUBSET (Kinds \cup {"none"})
      BY DEF WorkerTypeOK, WorkerType
    <3>2. worker' = next \/ worker' = back
      BY <1>11 DEF SaveAnswer
    <3> HIDE DEF fewer
    <3>3. CASE worker' = back
      BY <3>1, <3>3 DEF WorkerType, Places
    <3>4. CASE worker' = next
      <4>1. CASE worker.restored
        BY <2>3, <3>1, <3>4, <4>1, NoCallIsCall DEF WorkerType, Places
      <4>2. CASE ~ worker.restored
        BY <2>3, <3>1, <3>4, <4>2, NoCallIsCall DEF WorkerType, Places
      <4> QED
        BY <4>1, <4>2
    <3> QED
      BY <3>2, <3>3, <3>4
  <2> QED
    BY <1>11, <2>1, <2>2, <2>4 DEF SaveAnswer, WorkerTypeOK
<1>12. CASE Rejoin
  <2>1. worker.pend \in Call /\ {} \in SUBSET Call
    BY DEF WorkerTypeOK, WorkerType
  <2>2. file' \in FileType
    BY <1>12, <2>1, SavesTyped DEF Rejoin, CannotSave, WorkerTypeOK
  <2>3. worker' \in WorkerType
    <3>1. CASE worker' = [worker EXCEPT !.at = "thinking", !.nested = TRUE]
      BY <3>1 DEF WorkerTypeOK, WorkerType, Places
    <3>2. CASE worker' = [worker EXCEPT !.at = "hung", !.delivering = {}]
      BY <3>2 DEF WorkerTypeOK, WorkerType, Places
    <3> QED
      BY <1>12, <3>1, <3>2 DEF Rejoin
  <2> QED
    BY <1>12, <2>2, <2>3 DEF Rejoin, WorkerTypeOK
<1>13. CASE Final
  <2>1. file' \in FileType
    BY <1>13, NoCallIsCall, SavesTyped DEF Final, CannotSave, WorkerTypeOK
  <2>2. worker' \in WorkerType
    BY <1>13 DEF Final, WorkerTypeOK, WorkerType, Places
  <2>3. outbox' \in Seq(MessageType)
    BY <1>13, NoCallIsCall, SendTyped DEF Final, WorkerTypeOK
  <2> QED
    BY <1>13, <2>1, <2>2, <2>3 DEF Final, WorkerTypeOK
<1>14. ASSUME NEW news \in {"exit", "timeout"}, Dies(news), UNCHANGED calls
       PROVE  WorkerTypeOK'
  <2>1. outbox' \in Seq(MessageType)
    BY <1>14, NoCallIsCall, SendTyped DEF Dies
  <2>2. inbox' \in Seq(Call)
    BY <1>14 DEF Dies
  <2> QED
    BY <1>14, <2>1, <2>2, DeadIsWorker DEF Dies, WorkerTypeOK
<1>15. CASE Exit
  BY <1>14, <1>15 DEF Exit
<1>16. CASE Die
  BY <1>14, <1>16 DEF Die
<1>17. CASE DispatchRun
  <2>1. worker' \in WorkerType
    BY <1>17, DeadIsWorker DEF DispatchRun, Spawned, WorkerType, Places
  <2>2. run' \in RunType /\ inbox' \in Seq(Call)
    BY <1>17, NoCallIsCall DEF DispatchRun, TakesSession, RunType
  <2> QED
    BY <1>17, <2>1, <2>2 DEF DispatchRun, TakesSession, WorkerTypeOK
<1>18. CASE Handling
  <2>1. outbox' \in Seq(MessageType)
    BY <1>18, HeardTyped
    DEF Handling, HandleAsk, HandleResult, HandleFailure, HandleExit, Heard,
        Hears
  <2>2. run' \in RunType
    <3>1. CASE HandleAsk
      <4>1. Head(outbox) \in MessageType
        BY <3>1 DEF HandleAsk, Hears, WorkerTypeOK
      <4> QED
        BY <3>1, <4>1 DEF HandleAsk, Hears, AwaitOf, MessageType, RunType
    <3>2. CASE ~ HandleAsk
      BY <1>18, <3>2, NoCallIsCall
      DEF Handling, HandleResult, HandleFailure, Retried, HandleExit, RunType,
          WorkerTypeOK
    <3> QED
      BY <3>1, <3>2
  <2> QED
    BY <1>18, <2>1, <2>2
    DEF Handling, HandleAsk, HandleResult, HandleFailure, HandleExit,
        WorkerTypeOK
<1>19. CASE Answer
  <2>1. inbox' \in Seq(Call)
    BY <1>19 DEF Answer, Deliver, WorkerTypeOK, RunType
  <2>2. run' \in RunType
    BY <1>19, NoCallIsCall DEF Answer, RunType
  <2> QED
    BY <1>19, <2>1, <2>2 DEF Answer, WorkerTypeOK
<1>20. CASE Restart
  <2>1. worker' \in WorkerType
    BY <1>20, DeadIsWorker DEF Restart, Spawned, WorkerType, Places
  <2>2. run' \in RunType
    BY <1>20, NoCallIsCall DEF Restart, RunType, WorkerTypeOK
  <2>3. inbox' \in Seq(Call) /\ outbox' \in Seq(MessageType)
    BY <1>20 DEF Restart
  <2>4. live' \in BOOLEAN
    BY <1>20 DEF Restart
  <2> QED
    BY <1>20, <2>1, <2>2, <2>3, <2>4 DEF Restart, WorkerTypeOK
<1>21. CASE UNCHANGED workerVars
  BY <1>21 DEF workerVars, WorkerTypeOK
<1> QED
  BY <1>1, <1>2, <1>3, <1>4, <1>5, <1>6, <1>7, <1>8, <1>9, <1>10, <1>11, <1>12,
     <1>13, <1>15, <1>16, <1>17, <1>18, <1>19, <1>20, <1>21
  DEF WorkerNext, Working

----------------------------------------------------------------------------
(* The invariant is inductive. *)

(* A step that leaves the file, what was answered and what is pending, and
   keeps the conversation of a worker that runs on: most of the agent's. *)
LEMMA SameAnswers ==
    ASSUME KeptInv,
           UNCHANGED << file, answered >>, calls' = calls,
           worker'.log = worker.log, worker'.pend = worker.pend,
           worker'.call = worker.call,
           worker.at \notin {"dead", "starting"},
           worker'.at \notin {"dead", "starting", "asking"},
           Submitted => Submitted',
           worker'.at \in {"waiting", "answering"} =>
               worker.at \in {"asking", "waiting", "answering"}
    PROVE  Kept'
BY
  DEF KeptInv, Kept, HoldsAnswers, Submitted, FileHolds, FileEnds,
      NothingBesideWait, AbsentFile, StartsAfresh, OneCall, CallsNumbered, Is

(* A process that is gone has nothing to agree with; one that is spawned finds
   the file it is told to find. *)
LEMMA NoWorkerKept ==
    ASSUME KeptInv, UNCHANGED << file, answered >>, calls' = calls,
           worker' \in {DeadWorker, Spawned}
    PROVE  Kept'
<1>1. /\ worker'.pend = NoCall /\ NoCall.n = 0
      /\ worker'.at \in {"dead", "starting"}
      /\ worker'.at = "starting" /\ worker'.mode = "start" => ~ file.exists
  <2>1. CASE worker' = DeadWorker
    BY <2>1 DEF DeadWorker, NoCall
  <2>2. CASE worker' = Spawned
    <3>1. /\ Spawned.pend = NoCall /\ Spawned.at = "starting"
          /\ Spawned.mode = IF file.exists THEN "resume" ELSE "start"
      BY DEF Spawned, DeadWorker
    <3> QED
      BY <2>2, <3>1 DEF NoCall
  <2> QED
    BY <2>1, <2>2
<1>2. NoCall \notin answered /\ 0 <= calls
  BY DEF KeptInv, Kept, CallsNumbered, WorkerTypeOK
<1> QED
  BY <1>1, <1>2
    DEF KeptInv, Kept, HoldsAnswers, Submitted, FileHolds, FileEnds,
        NothingBesideWait, AbsentFile, StartsAfresh, OneCall, CallsNumbered,
        Is

(* A save writes a conversation that holds every answer, and the call that is
   pending or none. *)
LEMMA SavedKept ==
    ASSUME KeptInv, Saves(worker.pend, {}), answered' = answered, calls' = calls,
           worker.at \notin {"dead", "starting", "final", "exiting"},
           worker'.at \notin {"dead", "starting"},
           worker.log \subseteq worker'.log, worker'.pend = worker.pend,
           worker'.at \in {"asking", "waiting", "answering"} =>
               /\ worker'.call = worker.call
               /\ worker.at \in {"asking", "waiting", "answering"}
    PROVE  Kept'
<1>1. /\ file'.log = worker.log /\ file'.wait = worker.pend
      /\ file'.done = {} /\ file'.exists
  BY DEF Saves
<1> QED
  BY <1>1
    DEF KeptInv, Kept, HoldsAnswers, Submitted, FileHolds, FileEnds,
        NothingBesideWait, AbsentFile, StartsAfresh, OneCall, CallsNumbered,
        Is

LEMMA KeptStep == KeptInv /\ [WorkerNext]_workerVars => KeptInv'
<1> SUFFICES ASSUME KeptInv, [WorkerNext]_workerVars PROVE Kept'
  BY TypeStep DEF KeptInv
<1> USE DEF TheRun, Bounds, TheWorker
<1>a. WorkerTypeOK /\ worker \in WorkerType
  BY DEF KeptInv, WorkerTypeOK
<1>1. CASE Load
  <2> DEFINE over == worker.mode = "resume" /\ file.submitted
  <2>1. /\ worker'.at = IF over THEN "final" ELSE "thinking"
        /\ worker'.pend = worker.pend
        /\ worker'.submitted = over
        /\ ~ over => worker'.log = IF worker.mode = "resume" THEN LoadedLog ELSE {}
    BY <1>1, <1>a DEF Load, WorkerType
  <2>2. Submitted' \/ answered \subseteq worker'.log
    <3>1. CASE over
      BY <2>1, <3>1 DEF Submitted
    <3>2. CASE worker.mode = "resume" /\ ~ file.submitted
      BY <2>1, <3>2 DEF KeptInv, Kept, FileHolds, FileEnds, LoadedLog
    <3>3. CASE worker.mode # "resume"
      BY <1>1, <1>a, <2>1, <3>3 DEF KeptInv, Kept, FileHolds, FileEnds,
         StartsAfresh, AbsentFile, NoFile, Load, WorkerType
    <3> QED
      BY <3>1, <3>2, <3>3
  <2>3. worker'.at \in {"final", "thinking"}
    BY <2>1
  <2>4. HoldsAnswers'
    BY <1>1, <2>2 DEF HoldsAnswers, Load
  <2> HIDE DEF over
  <2> QED
    BY <1>1, <2>1, <2>3, <2>4
      DEF Load, KeptInv, Kept, FileHolds, FileEnds, NothingBesideWait,
          AbsentFile, StartsAfresh, OneCall, CallsNumbered, Is
<1>2. CASE RestoreWait
  <2>1. /\ worker'.at = "waiting" /\ worker'.log = file.log
        /\ worker'.pend = file.wait /\ worker'.call = file.wait
        /\ file.wait # NoCall
    BY <1>2, <1>a DEF RestoreWait, WorkerType
  <2> QED
    BY <1>2, <2>1
      DEF RestoreWait, KeptInv, Kept, HoldsAnswers, Submitted, FileHolds,
          FileEnds, NothingBesideWait, AbsentFile, StartsAfresh, OneCall,
          CallsNumbered, Is
<1>3. ASSUME NEW kind \in Kinds, Ask(kind) PROVE Kept'
  <2> DEFINE c == [kind |-> kind, n |-> calls + 1]
  <2>1. /\ worker.at = "thinking" /\ worker'.at = "asking"
        /\ worker'.log = worker.log /\ worker'.pend = c /\ worker'.call = c
    BY <1>3, <1>a DEF Ask, Is, WorkerType
  <2>2. c.n = calls + 1 /\ calls \in Nat /\ calls' = calls + 1
    BY <1>3, <1>a DEF Ask, WorkerTypeOK
  <2>3. c \notin answered /\ c # NoCall
    BY <2>2 DEF KeptInv, Kept, CallsNumbered, NoCall
  <2>4. \A d \in answered \cup {file.wait} : d.n \in Nat
    BY <1>a DEF WorkerTypeOK, FileType, Call
  <2> HIDE DEF c
  <2> QED
    BY <1>3, <2>1, <2>2, <2>3, <2>4
      DEF Ask, KeptInv, Kept, HoldsAnswers, Submitted, FileHolds, FileEnds,
          NothingBesideWait, AbsentFile, StartsAfresh, OneCall, CallsNumbered,
          Is
<1>4. CASE BlockCommand
  <2>1. /\ worker.at = "thinking" /\ worker'.at = "recording"
        /\ worker.log \subseteq worker'.log /\ worker'.pend = worker.pend
    BY <1>4, <1>a DEF BlockCommand, Is, WorkerType
  <2>2. calls \in Nat /\ calls' = calls + 1
    BY <1>4, <1>a DEF BlockCommand, WorkerTypeOK
  <2>3. \A d \in answered \cup {file.wait, worker.pend} : d.n \in Nat
    BY <1>a DEF WorkerTypeOK, FileType, WorkerType, Call
  <2> QED
    BY <1>4, <2>1, <2>2, <2>3
      DEF BlockCommand, KeptInv, Kept, HoldsAnswers, Submitted, FileHolds,
          FileEnds, NothingBesideWait, AbsentFile, StartsAfresh, OneCall,
          CallsNumbered, Is
<1>5. CASE SaveRequest
  <2>1. CASE Saves(worker.pend, {}) /\ worker' = [worker EXCEPT !.at = "waiting"]
    BY <1>5, <1>a, <2>1, SavedKept DEF SaveRequest, WorkerType, Is
  <2>2. CASE CannotSave /\ worker' = [worker EXCEPT !.at = "recording",
                !.pend = NoCall, !.log = @ \cup {worker.call}]
    <3>1. /\ worker'.at = "recording" /\ worker'.pend = NoCall /\ NoCall.n = 0
          /\ worker.log \subseteq worker'.log /\ worker.at = "asking"
      BY <1>5, <1>a, <2>2 DEF SaveRequest, WorkerType, Is, NoCall
    <3>2. calls \in Nat /\ NoCall \notin answered
      BY <1>a DEF WorkerTypeOK, KeptInv, Kept, CallsNumbered
    <3> QED
      BY <1>5, <2>2, <3>1, <3>2
        DEF SaveRequest, CannotSave, KeptInv, Kept, HoldsAnswers, Submitted,
            FileHolds, FileEnds, NothingBesideWait, AbsentFile, StartsAfresh,
            OneCall, CallsNumbered, Is
  <2> QED
    BY <1>5, <2>1, <2>2 DEF SaveRequest
<1>6. CASE SubmitCall
  BY <1>6, <1>a, SameAnswers DEF SubmitCall, Submitted, Is, WorkerType
<1>7. CASE SaveSubmission
  <2>1. CASE Saves(worker.pend, {})
    BY <1>7, <1>a, <2>1, SavedKept DEF SaveSubmission, Is, WorkerType
  <2>2. CASE CannotSave
    BY <1>7, <1>a, <2>2, SameAnswers DEF SaveSubmission, Submitted, CannotSave, Is, WorkerType
  <2> QED
    BY <1>7, <2>1, <2>2 DEF SaveSubmission
<1>8. CASE RecordResult
  <2>1. CASE Saves(worker.pend, {}) /\ worker' = [worker EXCEPT !.at = "thinking"]
    BY <1>8, <1>a, <2>1, SavedKept DEF RecordResult, Is, WorkerType
  <2>2. CASE CannotSave /\ worker' = AfterError
    BY <1>8, <1>a, <2>2, SameAnswers DEF RecordResult, Submitted, AfterError, CannotSave, Is,
       WorkerType
  <2> QED
    BY <1>8, <2>1, <2>2 DEF RecordResult
<1>9. CASE AgentEnds
  BY <1>9, <1>a, SameAnswers DEF AgentEnds, Submitted, AfterError, Is, WorkerType
<1>10. CASE TakeAnswer
  <2>1. CASE Takes(Head(inbox))
    BY <1>10, <1>a, <2>1, SameAnswers DEF TakeAnswer, Submitted, Takes, Is, WorkerType
  <2>2. CASE ~ Takes(Head(inbox))
    BY <1>10, <2>2
      DEF TakeAnswer, KeptInv, Kept, HoldsAnswers, Submitted, FileHolds,
          FileEnds, NothingBesideWait, AbsentFile, StartsAfresh, OneCall,
          CallsNumbered, Is
  <2> QED
    BY <2>1, <2>2
<1>11. CASE SaveAnswer
  <2>1. CASE /\ Saves(NoCall, {worker.pend})
             /\ answered' = answered \cup {worker.pend}
             /\ worker' = [worker EXCEPT
                              !.at = IF worker.restored THEN "rejoining" ELSE "recording",
                              !.pend = NoCall,
                              !.log = WithResult(worker.call),
                              !.delivering = IF worker.restored
                                                THEN @ ELSE @ \ {worker.call.kind}]
    <3>1. /\ file'.log = worker.log /\ file'.wait = NoCall
          /\ file'.done = {worker.pend} /\ file'.exists
      BY <2>1 DEF Saves
    <3>2. /\ worker'.at \in {"rejoining", "recording"} /\ worker'.pend = NoCall
          /\ worker'.log = worker.log \cup {worker.call}
          /\ worker.at = "answering"
      BY <1>11, <1>a, <2>1 DEF SaveAnswer, WithResult, Is, WorkerType
    <3>3. worker.pend # NoCall /\ worker.call = worker.pend /\ NoCall.n = 0
      BY <3>2 DEF KeptInv, Kept, OneCall, NoCall
    <3>4. calls \in Nat /\ calls' = calls
      BY <1>11, <1>a DEF SaveAnswer, WorkerTypeOK
    <3>5. FileHolds'
      BY <2>1, <3>1, <3>2 DEF KeptInv, Kept, HoldsAnswers, Submitted, FileHolds
    <3>6. /\ file'.wait \notin answered' /\ worker'.pend \notin answered'
          /\ HoldsAnswers'
      BY <2>1, <3>1, <3>2, <3>3 DEF KeptInv, Kept, HoldsAnswers, Submitted, CallsNumbered
    <3>7. NothingBesideWait' /\ AbsentFile' /\ StartsAfresh' /\ OneCall'
      BY <3>1, <3>2 DEF NothingBesideWait, AbsentFile, StartsAfresh, OneCall, Is
    <3>8. CallsNumbered'
      BY <2>1, <3>1, <3>2, <3>3, <3>4 DEF KeptInv, Kept, CallsNumbered
    <3> QED
      BY <3>5, <3>6, <3>7, <3>8 DEF Kept
  <2>2. CASE /\ CannotSave /\ answered' = answered
             /\ worker' = [worker EXCEPT !.at = "waiting",
                              !.delivering = @ \ {worker.call.kind}]
    BY <1>11, <1>a, <2>2, SameAnswers DEF SaveAnswer, Submitted, CannotSave, Is, WorkerType
  <2> QED
    BY <1>11, <2>1, <2>2 DEF SaveAnswer
<1>12. CASE Rejoin
  <2>1. CASE Saves(worker.pend, {}) /\ worker'.at = "thinking"
    BY <1>12, <1>a, <2>1, SavedKept DEF Rejoin, Is, WorkerType
  <2>2. CASE CannotSave /\ worker'.at = "hung"
    BY <1>12, <1>a, <2>2, SameAnswers DEF Rejoin, Submitted, CannotSave, Is, WorkerType
  <2> QED
    BY <1>12, <1>a, <2>1, <2>2 DEF Rejoin, WorkerType
<1>13. CASE Final
  <2>1. /\ worker'.at = "exiting" /\ worker'.log = worker.log
        /\ worker'.pend = worker.pend /\ worker.at = "final"
        /\ worker'.call = worker.call /\ worker'.submitted = worker.submitted
    BY <1>13, <1>a DEF Final, Is, WorkerType
  <2>2. CASE Saves(NoCall, {})
    <3>1. /\ file'.log = worker.log /\ file'.wait = NoCall /\ NoCall.n = 0
          /\ file'.done = {} /\ file'.exists
          /\ file'.submitted = worker.submitted
      BY <2>2 DEF Saves, NoCall
    <3>2. calls \in Nat /\ calls' = calls /\ answered' = answered
      BY <1>13, <1>a DEF Final, WorkerTypeOK
    <3> QED
      BY <2>1, <3>1, <3>2
        DEF KeptInv, Kept, HoldsAnswers, Submitted, FileHolds, FileEnds,
            NothingBesideWait, AbsentFile, StartsAfresh, OneCall,
            CallsNumbered, Is
  <2>3. CASE CannotSave
    BY <1>13, <2>1, <2>3, SameAnswers DEF Final, CannotSave, Submitted
  <2> QED
    BY <1>13, <2>2, <2>3 DEF Final
<1>14. CASE Exit \/ Die \/ DispatchRun
  BY <1>14, NoWorkerKept DEF Exit, Die, Dies, DispatchRun
<1>15. CASE Restart
  BY <1>15, NoWorkerKept DEF Restart
<1>16. CASE Handling \/ Answer \/ UNCHANGED workerVars
  <2>1. UNCHANGED << file, worker, answered, calls >>
    BY <1>16 DEF Handling, HandleAsk, HandleResult, HandleFailure, HandleExit,
       Answer, workerVars
  <2> QED
    BY <2>1
      DEF KeptInv, Kept, HoldsAnswers, Submitted, FileHolds, FileEnds,
          NothingBesideWait, AbsentFile, StartsAfresh, OneCall, CallsNumbered,
          Is
<1> QED
  BY <1>1, <1>2, <1>3, <1>4, <1>5, <1>6, <1>7, <1>8, <1>9, <1>10, <1>11, <1>12,
     <1>13, <1>14, <1>15, <1>16
  DEF WorkerNext, Working

----------------------------------------------------------------------------

(* AnswersKept of the runs, for every bound: an answer that was saved is never
   asked for again, every agent that goes on has it in its conversation, and
   only a run that has nothing left but to report what it submitted drops it. *)
THEOREM SavedAnswersKept == WorkerSpec => []AnswersKept
<1>1. KeptInv => AnswersKept
  BY DEF KeptInv, Kept, HoldsAnswers, FileHolds, FileEnds, AnswersKept
<1> QED
  BY InitKept, KeptStep, <1>1, PTL DEF WorkerSpec
=============================================================================
