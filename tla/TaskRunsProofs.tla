---------------------------- MODULE TaskRunsProofs ----------------------------
(***************************************************************************)
(* What holds of the task runs and of their path locks for any number of   *)
(* tasks, paths, processes, claims, retries and faults.                    *)
(*                                                                         *)
(* TypeInv is TasksTypeOK with the shape of what is in flight: a message   *)
(* names the process that sent it, and the loop has a task in hand where   *)
(* its code does.  RetryInv says that a restart that is due is still under *)
(* the cap.  PoolInv follows the idle workers a tick counted through its   *)
(* launches.  SoleInv says that while a process works nothing of an earlier*)
(* one is left anywhere, neither running, nor in a pipe, nor queued, nor in*)
(* the loop's hand, and that the loop chooses only tasks that are quiet.   *)
(* HeldInv ties what a process was granted to the table of the locks.      *)
(* AttendedInv follows the end of a run: from the process, over its pipe   *)
(* and the queue, into the hand of the loop.                               *)
(*                                                                         *)
(* SoleInv holds until the first crash.  A crash can leave a task ready    *)
(* whose run recovery resumes, and dispatch then launches it a second time;*)
(* from there the end of one process releases the paths of the other.      *)
(***************************************************************************)
EXTENDS TaskRuns, FiniteSetTheorems, SequenceTheorems, TLAPS

----------------------------------------------------------------------------
(* The lock registry implements mutual exclusion.  Every step but one maps *)
(* to the abstract one whatever the state is; releaseByRun goes through    *)
(* byRun, and frees all that byPath gives to the run only because the two  *)
(* maps agree, which is the inductive invariant.                           *)

LocksInv == LocksTypeOK /\ TablesAgree

(* The maps start empty, and so agree. *)
LEMMA LocksInit == NoLocks => LocksInv
BY NoRunIsNone DEF NoLocks, LocksInv, LocksTypeOK, TablesAgree

(* A granted claim writes the same paths to both maps: a path it takes was
   free or the claimant's own, so no other run's entry loses one. *)
LEMMA GrantedKeeps ==
    ASSUME LocksInv, NEW r \in Runs, NEW ps \in SUBSET Paths, Granted(r, ps)
    PROVE  LocksInv'
<1>1. LocksTypeOK'
  BY DEF LocksInv, LocksTypeOK, Granted
<1>2. ASSUME NEW q \in Runs PROVE byRun'[q] = {p \in Paths : byPath'[p] = q}
  <2>1. \A p \in ps : byPath[p] \in {NoRun, r}
    BY DEF Granted, Conflicts
  <2>2. CASE q = r
    BY <2>2 DEF LocksInv, LocksTypeOK, TablesAgree, Granted
  <2>3. CASE q # r
    <3>1. byRun'[q] = byRun[q]
      BY <2>3 DEF LocksInv, LocksTypeOK, Granted
    <3>2. ASSUME NEW p \in Paths PROVE byPath'[p] = q <=> byPath[p] = q
      BY <2>1, <2>3, NoRunIsNone DEF Granted
    <3> QED
      BY <3>1, <3>2 DEF LocksInv, TablesAgree
  <2> QED
    BY <2>2, <2>3
<1> QED
  BY <1>1, <1>2 DEF LocksInv, TablesAgree

(* A release empties a run's entry and frees the paths byPath gave it. *)
LEMMA ReleaseKeeps ==
    ASSUME LocksInv, NEW r \in Runs, ReleaseByRun(r)
    PROVE  LocksInv'
<1>1. LocksTypeOK'
  BY DEF LocksInv, LocksTypeOK, ReleaseByRun
<1>2. ASSUME NEW q \in Runs PROVE byRun'[q] = {p \in Paths : byPath'[p] = q}
  <2>1. ASSUME NEW p \in Paths
        PROVE  byPath'[p] = q <=> q # r /\ byPath[p] = q
    BY NoRunIsNone DEF LocksInv, LocksTypeOK, TablesAgree, ReleaseByRun
  <2>2. byRun'[q] = IF q = r THEN {} ELSE byRun[q]
    BY DEF LocksInv, LocksTypeOK, ReleaseByRun
  <2> QED
    BY <2>1, <2>2 DEF LocksInv, TablesAgree
<1> QED
  BY <1>1, <1>2 DEF LocksInv, TablesAgree

(* Type correctness and agreement of the maps are inductive. *)
LEMMA LocksStep == LocksInv /\ [LocksNext]_locks => LocksInv'
<1> SUFFICES ASSUME LocksInv, [LocksNext]_locks PROVE LocksInv'
  OBVIOUS
<1>1. ASSUME NEW r \in Runs, NEW ps \in SUBSET Paths, Granted(r, ps)
      PROVE  LocksInv'
  BY <1>1, GrantedKeeps
<1>2. ASSUME NEW r \in Runs, ReleaseByRun(r) PROVE LocksInv'
  BY <1>2, ReleaseKeeps
<1>3. CASE LoseLocks
  BY <1>3, NoRunIsNone DEF LocksInv, LocksTypeOK, TablesAgree, LoseLocks
<1>4. CASE UNCHANGED locks
  BY <1>4 DEF LocksInv, LocksTypeOK, TablesAgree, locks
<1> QED
  BY <1>1, <1>2, <1>3, <1>4 DEF LocksNext

(* The two maps of ActiveLocks always agree. *)
THEOREM LockTablesAgree == LocksSpec => []TablesAgree
<1>1. LocksInv => TablesAgree
  BY DEF LocksInv
<1> QED
  BY LocksInit, LocksStep, <1>1, PTL DEF LocksSpec

(* A release frees all that the run holds: the one step that needs both
   maps. *)
LEMMA ReleaseGivesAll ==
    ASSUME LocksInv, NEW r \in Runs, ReleaseByRun(r)
    PROVE  Mutex!Give(r)
<1>1. \A p \in Paths : p \in byRun[r] <=> byPath[p] = r
  BY DEF LocksInv, TablesAgree
<1> QED
  BY <1>1 DEF ReleaseByRun, Mutex!Give

(* Every step of the registry is one of the mutual exclusion. *)
LEMMA LocksStepIsMutexStep ==
    LocksInv /\ [LocksNext]_locks => [Mutex!Next]_byPath
<1> SUFFICES ASSUME LocksInv, [LocksNext]_locks PROVE [Mutex!Next]_byPath
  OBVIOUS
<1>1. ASSUME NEW r \in Runs, NEW ps \in SUBSET Paths, Granted(r, ps)
      PROVE  Mutex!Next
  <2>1. Mutex!Take(r, ps)
    BY <1>1 DEF Granted, Conflicts, Mutex!Take
  <2> QED
    BY <2>1 DEF Mutex!Next
<1>2. ASSUME NEW r \in Runs, ReleaseByRun(r) PROVE Mutex!Next
  BY <1>2, ReleaseGivesAll DEF Mutex!Next
<1>3. CASE LoseLocks
  BY <1>3 DEF LoseLocks, Mutex!Next, Mutex!Forget
<1>4. CASE UNCHANGED locks
  BY <1>4 DEF locks
<1> QED
  BY <1>1, <1>2, <1>3, <1>4 DEF LocksNext

(* The registry of active path locks implements mutual exclusion. *)
THEOREM LocksImplementMutex == LocksSpec => LocksAreMutex
<1>1. NoLocks => Mutex!Init
  BY DEF NoLocks, Mutex!Init
<1> QED
  BY <1>1, LocksInit, LocksStep, LocksStepIsMutexStep, PTL
     DEF LocksSpec, LocksAreMutex, Mutex!Spec

----------------------------------------------------------------------------
(* Shapes *)

\* What a worker may say: a path it wants, a wait, how it ended.
Messages ==
    [kind : {"claim"}, task : Tasks, slot : Slots, with : Paths]
    \cup [kind : {"ask", "again"}, task : Tasks, slot : Slots, with : Waits]
    \cup [kind : {"result", "error"}, task : Tasks, slot : Slots,
          with : BOOLEAN]

Bounds == {"asks", "claims", "timeouts", "crashes", "git", "cancels", "late"}

From(w, m) == m.task = w[1] /\ m.slot = w[2]

\* Where sched.task is the task whose message or dispatch is in hand.
TaskInHand == {"logging", "retrying", "squashing", "catchingup", "completing",
               "rebasing", "preparing", "persisting"}

PipeTyped == /\ pipe \in [Workers -> Seq(Messages)]
             /\ \A w \in Workers : \A i \in DOMAIN pipe[w] : From(w, pipe[w][i])

SchedType == [at : SchedAt, task : Tasks \cup {NoRun},
              other : Tasks \cup {NoRun}, todo : SUBSET Tasks,
              idle : 0 .. MaxConcurrency, tries : 0 .. MaxSquashRetries,
              transient : BOOLEAN]

SchedTyped ==
    /\ sched \in SchedType
    /\ sched.at \in TaskInHand => sched.task \in Tasks
    /\ sched.at = "rebasing" => sched.other \in Tasks

TypeInv ==
    /\ TasksTypeOK
    /\ TablesAgree
    /\ spent \in [Bounds -> Nat]
    /\ PipeTyped
    /\ events \in Seq(Messages)
    /\ SchedTyped

----------------------------------------------------------------------------
(* Restarts *)

RetryInv ==
    \A t \in Tasks :
        /\ run[t].restarts <= RetryCap + spent.crashes
        /\ \/ run[t].status = "retry_await"
           \/ At("retrying") /\ sched.task = t
           \/ At("recovering") /\ t \in sched.todo
           => run[t].restarts < RetryCap + spent.crashes

----------------------------------------------------------------------------
(* The size of the pool *)

PoolInv ==
    /\ sched.at \in {"dispatching", "preparing", "persisting"}
          => sched.idle > 0
    /\ sched.at \in {"dispatching", "preparing"}
          => Cardinality(Live) + sched.idle <= MaxConcurrency
    /\ At("persisting") => Cardinality(Live) + sched.idle <= MaxConcurrency + 1

----------------------------------------------------------------------------
(* One worker *)

EndKinds == {"result", "error"}
Settling == {"logging", "retrying", "squashing", "catchingup", "preparing"}

\* While a process of a task works, nothing is left of the earlier ones and
\* none of its ends is in flight or being handled.
Sole(t, s) ==
    LET at == worker[<< t, s >>].at IN
    /\ \A r \in Slots : r # s => Unused(<< t, r >>)
    /\ \A i \in DOMAIN pipe[<< t, s >>] : pipe[<< t, s >>][i].kind \notin EndKinds
    /\ \A i \in DOMAIN events : events[i].task = t => events[i].kind \notin EndKinds
    /\ sched.at \in Settling => sched.task # t
    /\ at = "aborted" => task[t].status = "cancelled"
    /\ at # "aborted" => live[t] = s /\ task[t].status \in {"running", "cancelled"}

Dispatching == {"dispatching", "preparing", "persisting"}

\* A task chosen to be dispatched has no process and no message in flight.
Chosen(t) == \/ sched.at \in Dispatching /\ t \in sched.todo
             \/ At("preparing") /\ t = sched.task

Quiet(t) ==
    /\ \A s \in Slots : Unused(<< t, s >>)
    /\ \A i \in DOMAIN events : events[i].task # t
    /\ \/ task[t].status = "cancelled"
       \/ task[t].status = "ready" /\ task[t].collab \in {"none", "branch_open"}

SoleAt(t) == /\ \A s \in Slots : worker[<< t, s >>].at \in Alive => Sole(t, s)
             /\ Chosen(t) => Quiet(t)

MergedIsDone == \A t \in Tasks : task[t].collab = "merged" => task[t].status = "done"

SoleInv ==
    /\ MergedIsDone
    /\ sched.at # "recovering"
    /\ sched.at \in {"preparing", "persisting"} => sched.task \notin sched.todo
    /\ \A t \in Tasks : SoleAt(t)

\* What a working process was granted is still its task's.
HeldInv ==
    \A t \in Tasks, s \in Slots : worker[<< t, s >>].at \in Alive =>
        \A p \in worker[<< t, s >>].held : byPath[p] = t

----------------------------------------------------------------------------
(* Lemmas about the operators *)

\* A process is a task and a slot.
LEMMA WorkerParts ==
    /\ \A w \in Workers : w[1] \in Tasks /\ w[2] \in Slots /\ w = << w[1], w[2] >>
    /\ \A t \in Tasks, s \in Slots : << t, s >> \in Workers
    /\ \A t \in Tasks, s \in Slots : << t, s >>[1] = t /\ << t, s >>[2] = s
BY DEF Workers

\* Slot 0 stands for no session.
LEMMA SlotsAreNumbers == \A s \in Slots : s \in Nat /\ s # 0
BY RunBounds

\* The bounds are numbers.
LEMMA BoundsAreNumbers ==
    {MaxConcurrency, RetryCap, MaxSquashRetries, MaxAsks, MaxClaims, MaxTimeouts,
     MaxCrashes, MaxGitErrors, MaxCancels, MaxFaults, MaxLateReads} \subseteq Nat
BY RunBounds

\* Spending counts one thing of one kind.
LEMMA SpendTyped ==
    ASSUME spent \in [Bounds -> Nat], NEW b \in Bounds, NEW max, Spend(b, max)
    PROVE  /\ spent' \in [Bounds -> Nat]
           /\ \A c \in Bounds : spent'[c] = IF c = b THEN spent[c] + 1 ELSE spent[c]
BY DEF Spend

\* Taking the head of a queue leaves the rest in its order.
LEMMA TailKeeps ==
    ASSUME NEW S, NEW q \in Seq(S), q # << >>
    PROVE  /\ Tail(q) \in Seq(S)
           /\ Head(q) \in S
           /\ Head(q) = q[1]
           /\ 1 \in DOMAIN q
           /\ \A i \in DOMAIN Tail(q) : /\ i + 1 \in DOMAIN q
                                        /\ Tail(q)[i] = q[i + 1]
<1>1. Len(q) \in Nat /\ Len(q) > 0
  OBVIOUS
<1>2. Tail(q) \in Seq(S) /\ Len(Tail(q)) = Len(q) - 1
  BY <1>1
<1> QED
  BY <1>1, <1>2

\* Appending to a queue leaves what is in it.
LEMMA AppendKeeps ==
    ASSUME NEW S, NEW q \in Seq(S), NEW e \in S
    PROVE  /\ Append(q, e) \in Seq(S)
           /\ DOMAIN q \subseteq DOMAIN Append(q, e)
           /\ Len(q) + 1 \in DOMAIN Append(q, e)
           /\ Append(q, e)[Len(q) + 1] = e
           /\ \A i \in DOMAIN Append(q, e) :
                 \/ i \in DOMAIN q /\ Append(q, e)[i] = q[i]
                 \/ i = Len(q) + 1 /\ Append(q, e)[i] = e
           /\ \A i \in DOMAIN q : i <= Len(q) /\ i \in Nat
<1>1. Len(q) \in Nat /\ DOMAIN q = 1..Len(q)
  OBVIOUS
<1> QED
  BY <1>1

\* What a message carries depends on its kind.
LEMMA MessageParts ==
    ASSUME NEW m \in Messages
    PROVE  /\ m.task \in Tasks /\ m.slot \in Slots
           /\ m.kind = "claim" => m.with \in Paths
           /\ m.kind \in {"ask", "again"} => m.with \in Waits
           /\ m.kind \in EndKinds => m.with \in BOOLEAN
BY DEF Messages, EndKinds

\* What a process says is a message of its own.
LEMMA MessageTyped ==
    ASSUME NEW w \in Workers
    PROVE  /\ \A p \in Paths : Message(w, "claim", p) \in Messages
           /\ \A wait \in Waits, kind \in {"ask", "again"} :
                 Message(w, kind, wait) \in Messages
           /\ \A b \in BOOLEAN, kind \in EndKinds :
                 Message(w, kind, b) \in Messages
           /\ \A kind, with : /\ From(w, Message(w, kind, with))
                              /\ Message(w, kind, with).kind = kind
                              /\ Message(w, kind, with).with = with
BY WorkerParts DEF Message, Messages, From, EndKinds

\* Sending leaves the pipes typed, and puts one message on one of them.
LEMMA SendTyped ==
    ASSUME PipeTyped, NEW w \in Workers, NEW kind, NEW with, Send(w, kind, with),
           Message(w, kind, with) \in Messages
    PROVE  PipeTyped'
<1>1. pipe' = [pipe EXCEPT ![w] = Append(pipe[w], Message(w, kind, with))]
  BY DEF Send
<1>2. pipe[w] \in Seq(Messages)
  BY DEF PipeTyped
<1>3. From(w, Message(w, kind, with))
  BY MessageTyped
<1> HIDE DEF Message
<1>4. Append(pipe[w], Message(w, kind, with)) \in Seq(Messages)
  BY <1>2, AppendKeeps
<1>5. \A i \in DOMAIN Append(pipe[w], Message(w, kind, with)) :
         From(w, Append(pipe[w], Message(w, kind, with))[i])
  BY <1>2, <1>3, AppendKeeps DEF PipeTyped
<1>6. ASSUME NEW v \in Workers, NEW i \in DOMAIN pipe'[v]
      PROVE  From(v, pipe'[v][i])
  <2>1. CASE v = w
    BY <1>1, <1>5, <2>1, <1>6 DEF PipeTyped
  <2>2. CASE v # w
    BY <1>1, <2>2, <1>6 DEF PipeTyped
  <2> QED
    BY <2>1, <2>2
<1>7. pipe' \in [Workers -> Seq(Messages)]
  BY <1>1, <1>4 DEF PipeTyped
<1> QED
  BY <1>6, <1>7 DEF PipeTyped

\* Reading a pipe takes its first message and leaves the others.
LEMMA ReadTyped ==
    ASSUME PipeTyped, NEW w \in Workers, pipe[w] # << >>
    PROVE  /\ Head(pipe[w]) \in Messages
           /\ From(w, Head(pipe[w]))
           /\ pipe' = [pipe EXCEPT ![w] = Tail(@)] => PipeTyped'
<1>2. pipe[w] \in Seq(Messages)
  BY DEF PipeTyped
<1>3. /\ Head(pipe[w]) \in Messages /\ Head(pipe[w]) = pipe[w][1] /\ 1 \in DOMAIN pipe[w]
      /\ Tail(pipe[w]) \in Seq(Messages)
      /\ \A i \in DOMAIN Tail(pipe[w]) : /\ i + 1 \in DOMAIN pipe[w]
                                         /\ Tail(pipe[w])[i] = pipe[w][i + 1]
  BY <1>2, TailKeeps
<1>4. From(w, Head(pipe[w]))
  BY <1>3 DEF PipeTyped
<1>5. \A i \in DOMAIN Tail(pipe[w]) : From(w, Tail(pipe[w])[i])
  BY <1>3 DEF PipeTyped
<1>6. ASSUME pipe' = [pipe EXCEPT ![w] = Tail(pipe[w])] PROVE PipeTyped'
  <2>1. pipe' \in [Workers -> Seq(Messages)]
    BY <1>6, <1>3 DEF PipeTyped
  <2>2. ASSUME NEW v \in Workers, NEW i \in DOMAIN pipe'[v]
        PROVE  From(v, pipe'[v][i])
    <3>1. CASE v = w
      BY <1>6, <1>5, <2>2, <3>1 DEF PipeTyped
    <3>2. CASE v # w
      BY <1>6, <2>2, <3>2 DEF PipeTyped
    <3> QED
      BY <3>1, <3>2
  <2> QED
    BY <2>1, <2>2 DEF PipeTyped
<1> QED
  BY <1>3, <1>4, <1>6

----------------------------------------------------------------------------
(* Type correctness *)

\* The message in hand is one a process of a task sent.
LEMMA EventsTyped ==
    ASSUME TypeInv, events # << >>
    PROVE  /\ msg \in Messages /\ Tail(events) \in Seq(Messages)
           /\ msg.task \in Tasks /\ msg.slot \in Slots
           /\ msg.kind = "claim" => msg.with \in Paths
           /\ msg.kind \in {"ask", "again"} => msg.with \in Waits
           /\ msg.kind \in EndKinds => msg.with \in BOOLEAN
<1>1. msg \in Messages /\ Tail(events) \in Seq(Messages)
  BY TailKeeps DEF TypeInv, msg
<1> HIDE DEF msg
<1> QED
  BY <1>1, MessageParts

\* A report queues one event.
LEMMA ReportTyped ==
    ASSUME TypeInv, NEW m \in Messages, Report(m)
    PROVE  events' \in Seq(Messages)
BY AppendKeeps DEF TypeInv, Report

\* There are never more idle workers than the pool has.
LEMMA IdleTyped == IdleWorkers \in 0 .. MaxConcurrency
<1>1. IsFiniteSet(Live)
  BY TasksFinite, FS_Subset DEF Live
<1>2. Cardinality(Live) \in Nat
  BY <1>1, FS_CardinalityType
<1> QED
  BY <1>2, BoundsAreNumbers DEF IdleWorkers

\* A step of the locks keeps their tables typed and in agreement.
LEMMA LockMoves ==
    ASSUME TypeInv, [LocksNext]_locks
    PROVE  LocksTypeOK' /\ TablesAgree'
BY LocksStep DEF TypeInv, TasksTypeOK, LocksInv

\* Every step of the runs grants, releases or loses locks, or leaves them
\* alone.
LEMMA StepMovesLocks ==
    ASSUME TypeInv, TasksNext
    PROVE  [LocksNext]_locks
<1>1. ASSUME GrantClaim PROVE LocksNext
  <2>1. msg.task \in Runs /\ {msg.with} \in SUBSET Paths
    BY <1>1, EventsTyped DEF GrantClaim, Handling, Tasks, msg
  <2> QED
    BY <1>1, <2>1 DEF GrantClaim, LocksNext
<1>2. ASSUME HandleImplicit \/ HandleSubmitted \/ HandleError PROVE LocksNext
  <2>1. events # << >> /\ ReleaseByRun(msg.task)
    BY <1>2 DEF HandleImplicit, HandleSubmitted, HandleError, Handling
  <2>2. msg.task \in Runs
    BY <2>1, EventsTyped DEF Tasks
  <2> QED
    BY <2>1, <2>2 DEF LocksNext
<1>3. ASSUME Crash PROVE LocksNext
  BY <1>3 DEF Crash, LocksNext
<1>4. ASSUME NEW w \in Workers,
             WorkerStep(w) \/ Read(w) \/ ExitSeen(w) \/ HealthTimeout(w)
                \/ Launch(w) \/ RecoverResumes(w)
      PROVE  UNCHANGED locks
  BY <1>4 DEF WorkerStep, Claim, Ask, Checkpoint, Submit, Finish, Fail, Ends, Die,
     WorkerOnly, Read, ExitSeen, HealthTimeout, Launch, RecoverResumes, Recovering
<1>5. ASSUME NEW t \in Tasks,
             AnswerRequest(t) \/ Backoff(t) \/ RebaseSuspended(t)
                \/ DispatchTask(t) \/ RecoverRequeues(t) \/ RecoverKeeps(t)
      PROVE  UNCHANGED locks
  BY <1>5 DEF AnswerRequest, Backoff, RebaseSuspended, DispatchTask,
     RecoverRequeues, RecoverKeeps, Recovering
<1>6. ASSUME CancelFeature \/ BeginTick \/ DenyClaim \/ DropMessage \/ HandleAsk
                \/ SquashMerges \/ SquashRetries \/ CatchesUp \/ SquashExhausts
                \/ CompleteRun \/ DecideRetry \/ AwaitRetry \/ RebaseBlocked
                \/ (\E clean \in BOOLEAN : RebaseDone(clean)) \/ Coordinate
                \/ Persist \/ GitThrows
      PROVE  UNCHANGED locks
  BY <1>6 DEF CancelFeature, BeginTick, DenyClaim, DropMessage, HandleAsk,
     SquashMerges, SquashRetries, CatchesUp, SquashExhausts, CompleteRun,
     DecideRetry, AwaitRetry, RebaseBlocked, RebaseDone, Coordinate, Persist,
     GitThrows
<1> QED
  BY <1>1, <1>2, <1>3, <1>4, <1>5, <1>6
     DEF TasksNext, LoopStep, HandleMessage, Recover

\* The loop asleep.
LEMMA AsleepTyped == Asleep \in SchedType /\ Asleep.at = "sleeping"
BY BoundsAreNumbers DEF Asleep, SchedType, SchedAt, Awaits

\* Moving the loop on keeps what it holds in hand.
LEMMA GotoTyped ==
    ASSUME sched \in SchedType, NEW place \in SchedAt, Goto(place)
    PROVE  /\ sched' \in SchedType
           /\ sched'.at = place
           /\ sched'.task = sched.task /\ sched'.other = sched.other
           /\ sched'.todo = sched.todo /\ sched'.idle = sched.idle
           /\ sched'.tries = sched.tries
BY DEF SchedType, Goto

\* The next event is drained with nothing in hand.
LEMMA NextEventTyped ==
    NextEvent => sched' \in SchedType /\ sched'.at = "draining" /\ sched'.todo = {}
<1>1. Asleep \in SchedType /\ Asleep.todo = {}
  BY AsleepTyped DEF Asleep
<1> HIDE DEF Asleep
<1> QED
  BY <1>1 DEF NextEvent, SchedType, SchedAt, Awaits


\* What the rows, the processes and the counters are.
TaskType == [status : TaskStatus, collab : TaskCollab]
RunType == [status : RunStatus, restarts : Nat, session : BOOLEAN, due : BOOLEAN]
WorkerType == [at : WorkerAt, held : SUBSET Paths]

RowsTyped == /\ task \in [Tasks -> TaskType]
             /\ run \in [Tasks -> RunType]
             /\ cancelled \in BOOLEAN
ProcessesTyped == /\ saved \in [Tasks -> Saved]
                  /\ worker \in [Workers -> WorkerType]
                  /\ PipeTyped
PoolTyped == /\ live \in [Tasks -> Slots \cup {0}]
             /\ events \in Seq(Messages)
             /\ spent \in [Bounds -> Nat]

\* The types, part by part.
LEMMA TypeParts ==
    TypeInv <=> /\ LocksTypeOK /\ TablesAgree
                /\ RowsTyped /\ ProcessesTyped /\ PoolTyped /\ SchedTyped
BY DEF TypeInv, TasksTypeOK, RowsTyped, ProcessesTyped, PoolTyped, SchedTyped,
   SchedType, TaskType, RunType, WorkerType

\* A fault is counted.
LEMMA FaultTyped ==
    ASSUME PoolTyped, NEW b \in Bounds, NEW max, Fault(b, max)
    PROVE  spent' \in [Bounds -> Nat]
BY SpendTyped DEF Fault, PoolTyped

\* updateTask: the row changes to what it is given, or stays.
LEMMA TransitionTyped ==
    ASSUME RowsTyped, NEW t, NEW new, t \in Tasks => new \in TaskType,
           Transition(t, new)
    PROVE  task' \in [Tasks -> TaskType]
BY DEF RowsTyped, Transition

\* The rows the loop writes are rows.
LEMMA StatusTyped ==
    ASSUME RowsTyped, NEW t \in Tasks
    PROVE  /\ \A status \in TaskStatus : WithStatus(t, status) \in TaskType
           /\ Suspended(t) \in TaskType
           /\ Reopened(t) \in TaskType
           /\ [task[t] EXCEPT !.collab = "conflict"] \in TaskType
           /\ [status |-> "done", collab |-> "merged"] \in TaskType
           /\ Opened \in TaskType
<1>1. task[t] \in TaskType
  BY DEF RowsTyped
<1> QED
  BY <1>1 DEF WithStatus, Suspended, Reopened, Opened, TaskType, TaskStatus, TaskCollab

\* The runs the loop writes are runs.
LEMMA RunTyped ==
    ASSUME RowsTyped, NEW t \in Tasks
    PROVE  /\ \A s \in RunStatus : [run[t] EXCEPT !.status = s] \in RunType
           /\ \A s \in RunStatus, d \in BOOLEAN :
                 [run[t] EXCEPT !.status = s, !.due = d] \in RunType
           /\ [run[t] EXCEPT !.due = TRUE] \in RunType
           /\ [run[t] EXCEPT !.restarts = run[t].restarts + 1] \in RunType
           /\ \A b \in BOOLEAN :
                 [run[t] EXCEPT !.status = "ready", !.session = b,
                                !.restarts = run[t].restarts + 1] \in RunType
<1>1. run[t] \in RunType
  BY DEF RowsTyped
<1>2. \A n \in Nat : [run[t] EXCEPT !.restarts = n] \in RunType
  BY <1>1 DEF RunType
<1>3. \A n \in Nat, b \in BOOLEAN, s \in RunStatus :
         [run[t] EXCEPT !.status = s, !.session = b, !.restarts = n] \in RunType
  BY <1>1 DEF RunType
<1>4. run[t].restarts + 1 \in Nat
  BY <1>1 DEF RunType
<1>5. "ready" \in RunStatus
  BY DEF RunStatus
<1> QED
  BY <1>1, <1>2, <1>3, <1>4, <1>5 DEF RunType

\* A process that is gone does not work.
LEMMA GoneTyped == Gone \in WorkerType /\ Gone.at \notin Alive
BY DEF Gone, WorkerType, WorkerAt, Alive

\* A process goes from one place to another.
LEMMA BecomesTyped ==
    ASSUME ProcessesTyped, NEW w \in Workers, NEW place \in WorkerAt,
           Becomes(w, place)
    PROVE  worker' \in [Workers -> WorkerType]
BY DEF ProcessesTyped, Becomes, WorkerType

\* A worker's own steps.
LEMMA WorkerTyped ==
    ASSUME TypeInv, NEW w \in Workers, WorkerStep(w)
    PROVE  RowsTyped' /\ ProcessesTyped' /\ PoolTyped' /\ SchedTyped'
<1>0. RowsTyped /\ ProcessesTyped /\ PoolTyped /\ SchedTyped
  BY TypeParts
<1>1. UNCHANGED << rows, live, events, sched >>
  BY DEF WorkerStep, Claim, Ask, Checkpoint, Submit, Finish, Fail, Ends, Die, WorkerOnly
<1>2. RowsTyped' /\ SchedTyped'
  BY <1>0, <1>1 DEF RowsTyped, SchedTyped, rows
<1>3. spent' \in [Bounds -> Nat]
  <2>1. \/ UNCHANGED spent
        \/ Spend("asks", MaxAsks) \/ Spend("claims", MaxClaims)
    BY DEF WorkerStep, Claim, Ask, Checkpoint, Submit, Finish, Fail, Ends, Die
  <2> QED
    BY <1>0, <2>1, SpendTyped DEF Bounds, PoolTyped
<1>4. worker' \in [Workers -> WorkerType]
  <2>1. \/ UNCHANGED worker
        \/ \E place \in WorkerAt : Becomes(w, place)
    BY DEF WorkerStep, Claim, Ask, Checkpoint, Submit, Finish, Fail, Ends, Die, WorkerAt
  <2> QED
    BY <1>0, <2>1, BecomesTyped DEF ProcessesTyped
<1>5. saved' \in [Tasks -> Saved]
  <2>1. \/ UNCHANGED saved
        \/ \E what \in Saved : Saves(w, what)
    BY DEF WorkerStep, Claim, Ask, Checkpoint, Submit, Finish, Fail, Ends, Die, Saved
  <2> QED
    BY <1>0, <2>1 DEF ProcessesTyped, Saves
<1>6. PipeTyped'
  <2>1. \/ UNCHANGED pipe
        \/ \E p \in Paths : Send(w, "claim", p)
        \/ \E wait \in Waits : Send(w, "ask", wait)
        \/ \E b \in BOOLEAN, kind \in EndKinds : Send(w, kind, b)
    BY DEF WorkerStep, Claim, Ask, Checkpoint, Submit, Finish, Fail, Ends, Die, EndKinds
  <2>2. PipeTyped
    BY <1>0 DEF ProcessesTyped
  <2>3. CASE UNCHANGED pipe
    BY <2>2, <2>3 DEF PipeTyped
  <2> QED
    BY <2>1, <2>2, <2>3, SendTyped, MessageTyped
<1> QED
  BY <1>0, <1>1, <1>2, <1>3, <1>4, <1>5, <1>6 DEF ProcessesTyped, PoolTyped

\* The pool's steps: what is read becomes an event.
LEMMA PoolStepTyped ==
    ASSUME TypeInv, NEW w \in Workers,
           Read(w) \/ ExitSeen(w) \/ HealthTimeout(w)
    PROVE  RowsTyped' /\ ProcessesTyped' /\ PoolTyped' /\ SchedTyped'
<1>0. RowsTyped /\ ProcessesTyped /\ PoolTyped /\ SchedTyped
  BY TypeParts
<1>1. UNCHANGED << rows, sched, saved >>
  BY DEF Read, ExitSeen, HealthTimeout
<1>2. RowsTyped' /\ SchedTyped'
  BY <1>0, <1>1 DEF RowsTyped, SchedTyped, rows
<1>3. spent' \in [Bounds -> Nat]
  <2>1. \/ UNCHANGED spent
        \/ Spend("late", MaxLateReads) \/ Spend("timeouts", MaxTimeouts)
    BY DEF Read, ExitSeen, HealthTimeout, EndHeard, Fault
  <2> QED
    BY <1>0, <2>1, SpendTyped DEF Bounds, PoolTyped
<1>4. worker' \in [Workers -> WorkerType]
  <2>1. worker' \in {worker, [worker EXCEPT ![w] = Gone]}
    BY DEF Read, ExitSeen, HealthTimeout
  <2> QED
    BY <1>0, <2>1, GoneTyped DEF ProcessesTyped
<1>5. live' \in [Tasks -> Slots \cup {0}]
  BY <1>0 DEF PoolTyped, Read, ExitSeen, HealthTimeout
<1>6. events' \in Seq(Messages)
  <2>1. Message(w, "error", FALSE) \in Messages /\ Message(w, "error", TRUE) \in Messages
    BY MessageTyped DEF EndKinds
  <2>2. CASE Read(w)
    <3>1. Head(pipe[w]) \in Messages
      BY <1>0, <2>2, ReadTyped DEF ProcessesTyped, Read
    <3> QED
      BY <2>2, <3>1, ReportTyped DEF Read
  <2>3. CASE ExitSeen(w)
    BY <2>1, <2>3, <1>0, ReportTyped DEF ExitSeen, PoolTyped
  <2>4. CASE HealthTimeout(w)
    BY <2>1, <2>4, ReportTyped DEF HealthTimeout
  <2> QED
    BY <2>2, <2>3, <2>4
<1>7. PipeTyped'
  <2>2. CASE Read(w)
    BY <1>0, <2>2, ReadTyped DEF ProcessesTyped, Read
  <2>3. CASE ExitSeen(w) \/ HealthTimeout(w)
    BY <1>0, <2>3 DEF ProcessesTyped, ExitSeen, HealthTimeout, PipeTyped
  <2> QED
    BY <2>2, <2>3
<1> QED
  BY <1>0, <1>1, <1>2, <1>3, <1>4, <1>5, <1>6, <1>7 DEF ProcessesTyped, PoolTyped

\* The user's steps and the timers.
LEMMA UserTyped ==
    ASSUME TypeInv, \/ \E t \in Tasks : AnswerRequest(t) \/ Backoff(t)
                    \/ CancelFeature
    PROVE  RowsTyped' /\ ProcessesTyped' /\ PoolTyped' /\ SchedTyped'
<1>0. RowsTyped /\ ProcessesTyped /\ PoolTyped /\ SchedTyped
  BY TypeParts
<1>1. ASSUME NEW t \in Tasks, AnswerRequest(t)
      PROVE  RowsTyped' /\ ProcessesTyped' /\ PoolTyped' /\ SchedTyped'
  <2> DEFINE w == << t, live[t] >>
  <2>1. UNCHANGED << task, cancelled, pipe, live, events, sched, spent >>
    BY <1>1 DEF AnswerRequest
  <2>2. run' \in [Tasks -> RunType]
    <3>1. run' = [run EXCEPT ![t] = [run[t] EXCEPT !.status = "running"]]
      BY <1>1 DEF AnswerRequest
    <3> QED
      BY <3>1, <1>0, RunTyped DEF RunStatus, RowsTyped
  <2>3. w \in Workers
    BY <1>0, <1>1, WorkerParts DEF AnswerRequest, PoolTyped
  <2>4. worker' \in [Workers -> WorkerType] /\ saved' \in [Tasks -> Saved]
    <3>1. \/ UNCHANGED << worker, saved >>
          \/ Becomes(w, "working") /\ Saves(w, "working")
      BY <1>1 DEF AnswerRequest
    <3>2. "working" \in WorkerAt /\ "working" \in Saved
      BY DEF WorkerAt, Saved
    <3> HIDE DEF w
    <3>3. CASE Becomes(w, "working") /\ Saves(w, "working")
      BY <3>2, <3>3, <2>3, <1>0, BecomesTyped DEF Saves, ProcessesTyped
    <3> QED
      BY <3>1, <3>3, <1>0 DEF ProcessesTyped
  <2> QED
    BY <1>0, <2>1, <2>2, <2>4 DEF RowsTyped, ProcessesTyped, PoolTyped, SchedTyped, PipeTyped
<1>2. ASSUME NEW t \in Tasks, Backoff(t)
      PROVE  RowsTyped' /\ ProcessesTyped' /\ PoolTyped' /\ SchedTyped'
  <2>1. UNCHANGED << task, cancelled, processes, live, events, sched, spent >>
    BY <1>2 DEF Backoff
  <2>2. run' \in [Tasks -> RunType]
    <3>1. run' = [run EXCEPT ![t] = [run[t] EXCEPT !.due = TRUE]]
      BY <1>2 DEF Backoff
    <3> QED
      BY <3>1, <1>0, RunTyped DEF RowsTyped
  <2> QED
    BY <1>0, <2>1, <2>2 DEF RowsTyped, ProcessesTyped, PoolTyped, SchedTyped,
       PipeTyped, processes
<1>3. ASSUME CancelFeature
      PROVE  RowsTyped' /\ ProcessesTyped' /\ PoolTyped' /\ SchedTyped'
  <2>1. UNCHANGED << pipe, saved, events, sched >>
    BY <1>3 DEF CancelFeature
  <2>2. task' \in [Tasks -> TaskType]
    <3>1. \A t \in Tasks : /\ task[t] \in TaskType
                           /\ [task[t] EXCEPT !.status = "cancelled"] \in TaskType
      BY <1>0 DEF RowsTyped, TaskType, TaskStatus
    <3> QED
      BY <3>1, <1>3 DEF CancelFeature
  <2>3. run' \in [Tasks -> RunType]
    <3>1. \A t \in Tasks : /\ run[t] \in RunType
                           /\ [run[t] EXCEPT !.status = "cancelled"] \in RunType
      BY <1>0, RunTyped DEF RowsTyped, RunStatus
    <3> QED
      BY <3>1, <1>3 DEF CancelFeature
  <2>4. worker' \in [Workers -> WorkerType]
    <3>1. \A w \in Workers : /\ worker[w] \in WorkerType
                             /\ [worker[w] EXCEPT !.at = "aborted"] \in WorkerType
      BY <1>0 DEF ProcessesTyped, WorkerType, WorkerAt
    <3> QED
      BY <3>1, <1>3 DEF CancelFeature
  <2>5. live' \in [Tasks -> Slots \cup {0}]
    BY <1>0, <1>3 DEF CancelFeature, PoolTyped
  <2>6. spent' \in [Bounds -> Nat]
    BY <1>0, <1>3, FaultTyped DEF CancelFeature, Bounds
  <2>7. cancelled' \in BOOLEAN
    BY <1>3 DEF CancelFeature
  <2> QED
    BY <1>0, <2>1, <2>2, <2>3, <2>4, <2>5, <2>6, <2>7
       DEF RowsTyped, ProcessesTyped, PoolTyped, SchedTyped, PipeTyped
<1> QED
  BY <1>1, <1>2, <1>3

\* Outside claims and launches the loop leaves the processes alone.
LEMMA LoopKeeps ==
    ASSUME TypeInv, LoopOnly
    PROVE  ProcessesTyped' /\ cancelled' \in BOOLEAN
                           /\ live' \in [Tasks -> Slots \cup {0}]
BY TypeParts DEF ProcessesTyped, PipeTyped, LoopOnly, processes, RowsTyped, PoolTyped

\* Handling takes a message of the kind it is for off the queue.
LEMMA HandlingTyped ==
    ASSUME TypeInv, NEW kinds, Handling(kinds)
    PROVE  /\ events' \in Seq(Messages) /\ spent' \in [Bounds -> Nat]
           /\ msg.task \in Tasks /\ msg.slot \in Slots /\ msg.kind \in kinds
           /\ msg.kind = "claim" => msg.with \in Paths
           /\ msg.kind \in {"ask", "again"} => msg.with \in Waits
           /\ msg.kind \in EndKinds => msg.with \in BOOLEAN
           /\ sched.at = "draining"
<1>1. events # << >> /\ events' = Tail(events) /\ spent' = spent /\ msg.kind \in kinds
  BY DEF Handling, msg
<1> HIDE DEF msg
<1> QED
  BY <1>1, EventsTyped DEF TypeInv, Handling, At

\* An answer goes to the process that the session of the run is.
LEMMA AnsweredTyped ==
    ASSUME TypeInv, NEW ok \in BOOLEAN, Handling({"claim"}), Answered(ok)
    PROVE  worker' \in [Workers -> WorkerType]
<1> DEFINE w == << msg.task, live[msg.task] >>
<1>0. /\ worker \in [Workers -> WorkerType] /\ live \in [Tasks -> Slots \cup {0}]
  BY TypeParts DEF ProcessesTyped, PoolTyped
<1>1. msg.task \in Tasks /\ msg.slot \in Slots /\ msg.with \in Paths
  BY HandlingTyped
<1>2. CASE live[msg.task] = msg.slot
  <2>1. w \in Workers
    BY <1>1, <1>2, WorkerParts
  <2>2. [at |-> "working", held |-> worker[w].held \cup {msg.with}] \in WorkerType
        /\ [at |-> "working", held |-> worker[w].held] \in WorkerType
    BY <1>0, <1>1, <2>1 DEF WorkerType, WorkerAt
  <2>3. worker' \in { worker,
           [worker EXCEPT ![w] = [at |-> "working", held |-> worker[w].held \cup {msg.with}]],
           [worker EXCEPT ![w] = [at |-> "working", held |-> worker[w].held]]}
    BY DEF Answered
  <2> HIDE DEF w, msg
  <2> QED
    BY <1>0, <2>2, <2>3
<1>3. CASE live[msg.task] # msg.slot
  BY <1>0, <1>3 DEF Answered
<1> QED
  BY <1>2, <1>3

\* Claims: the worker is answered, the later task of a conflict suspended.
LEMMA ClaimTyped ==
    ASSUME TypeInv, GrantClaim \/ DenyClaim
    PROVE  RowsTyped' /\ ProcessesTyped' /\ PoolTyped' /\ SchedTyped'
<1>0. RowsTyped /\ ProcessesTyped /\ PoolTyped /\ SchedTyped
  BY TypeParts
<1>1. Handling({"claim"})
  BY DEF GrantClaim, DenyClaim
<1>2. UNCHANGED << pipe, saved, live, cancelled, run >>
  BY DEF GrantClaim, DenyClaim, Kept
<1>3. worker' \in [Workers -> WorkerType]
  BY <1>1, AnsweredTyped DEF GrantClaim, DenyClaim
<1>4. /\ events' \in Seq(Messages) /\ spent' \in [Bounds -> Nat]
  BY <1>1, HandlingTyped
<1>5. SchedTyped'
  <2>1. UNCHANGED sched \/ sched' = Asleep
    BY DEF GrantClaim, DenyClaim, EndTick
  <2> QED
    BY <1>0, <2>1, AsleepTyped DEF SchedTyped, TaskInHand
<1>6. task' \in [Tasks -> TaskType]
  <2> DEFINE u == Later(msg.task, byPath[msg.with])
  <2>1. UNCHANGED task \/ (Conflicts(msg.task, {msg.with}) # {} /\ Transition(u, Suspended(u)))
    BY DEF GrantClaim, DenyClaim, Kept
  <2>2. msg.task \in Tasks /\ msg.with \in Paths
    BY <1>1, HandlingTyped
  <2>3. ASSUME Conflicts(msg.task, {msg.with}) # {}
        PROVE  u \in Tasks
    <3>1. byPath[msg.with] \in Runs
      BY <2>2, <2>3, TypeParts DEF LocksTypeOK, Conflicts
    <3> QED
      BY <3>1, <2>2 DEF Later, Tasks
  <2> HIDE DEF u
  <2> QED
    BY <1>0, <2>1, <2>3, StatusTyped, TransitionTyped DEF RowsTyped
<1> QED
  BY <1>0, <1>2, <1>3, <1>4, <1>5, <1>6
     DEF RowsTyped, ProcessesTyped, PoolTyped, PipeTyped

\* The loop's other steps.  All of them leave the processes alone.
LEMMA LoopTyped ==
    ASSUME TypeInv,
           LoopStep \/ GitThrows,
           ~ GrantClaim, ~ DenyClaim, ~ \E w \in Workers : Launch(w)
    PROVE  RowsTyped' /\ ProcessesTyped' /\ PoolTyped' /\ SchedTyped'
<1>0. RowsTyped /\ ProcessesTyped /\ PoolTyped /\ SchedTyped
  BY TypeParts
<1>1. LoopOnly
  BY DEF LoopStep, HandleMessage, BeginTick, DropMessage, HandleAsk, HandleImplicit,
     HandleSubmitted, HandleError, SquashMerges, SquashRetries, CatchesUp,
     SquashExhausts, CompleteRun, DecideRetry, AwaitRetry, RebaseSuspended,
     DispatchTask, RebaseBlocked, RebaseDone, Coordinate, Persist, GitThrows
<1>2. /\ ProcessesTyped' /\ cancelled' \in BOOLEAN
      /\ live' \in [Tasks -> Slots \cup {0}]
  BY <1>1, LoopKeeps
<1>a. SUFFICES /\ task' \in [Tasks -> TaskType] /\ run' \in [Tasks -> RunType]
               /\ events' \in Seq(Messages) /\ spent' \in [Bounds -> Nat]
               /\ SchedTyped'
  BY <1>2 DEF RowsTyped, PoolTyped
<1> DEFINE t == sched.task
<1>b. /\ sched \in SchedType
      /\ task \in [Tasks -> TaskType] /\ run \in [Tasks -> RunType]
      /\ events \in Seq(Messages) /\ spent \in [Bounds -> Nat]
      /\ sched.at \in TaskInHand => t \in Tasks
  BY <1>0 DEF RowsTyped, PoolTyped, SchedTyped
<1>c. NextEvent \/ EndTick => SchedTyped'
  BY AsleepTyped, NextEventTyped DEF SchedTyped, TaskInHand, EndTick
<1>3. CASE BeginTick \/ RebaseBlocked \/ SquashRetries \/ CatchesUp
             \/ (\E o \in Tasks : RebaseSuspended(o))
  <2>1. UNCHANGED << task, run, events, spent >>
    BY <1>3 DEF BeginTick, RebaseBlocked, SquashRetries, CatchesUp, RebaseSuspended, Kept
  <2>a. SUFFICES SchedTyped'
    BY <1>b, <2>1
  <2>2. CASE BeginTick
    BY <1>c, <2>2 DEF BeginTick
  <2>3. CASE RebaseBlocked \/ CatchesUp
    <3>1. t \in Tasks /\ (Goto("completing") \/ Goto("squashing"))
      BY <1>b, <2>3 DEF RebaseBlocked, CatchesUp, At, TaskInHand
    <3>2. {"completing", "squashing"} \subseteq SchedAt
      BY DEF SchedAt, Awaits
    <3>3. /\ sched' \in SchedType /\ sched'.at \in {"completing", "squashing"}
          /\ sched'.task = t
      <4>1. ASSUME NEW place \in {"completing", "squashing"}, Goto(place)
            PROVE  sched' \in SchedType /\ sched'.at = place /\ sched'.task = t
        BY <4>1, <1>b, <3>2, GotoTyped
      <4> QED
        BY <3>1, <4>1
    <3> QED
      BY <3>1, <3>3 DEF SchedTyped
  <2>4. CASE SquashRetries
    <3>1. sched.tries + 1 \in 0 .. MaxSquashRetries /\ t \in Tasks
      <4>1. /\ sched.tries < MaxSquashRetries
            /\ sched.at \in {"squashing", "catchingup"}
        BY <2>4 DEF SquashRetries
      <4>2. sched.tries \in 0 .. MaxSquashRetries /\ MaxSquashRetries \in Nat
        BY <1>b, BoundsAreNumbers DEF SchedType
      <4>3. sched.tries + 1 \in 0 .. MaxSquashRetries
        BY <4>1, <4>2
      <4> QED
        BY <4>1, <4>3, <1>b DEF TaskInHand
    <3>2. \A n \in 0 .. MaxSquashRetries :
             [sched EXCEPT !.at = "catchingup", !.tries = n] \in SchedType
      BY <1>b DEF SchedType, SchedAt, Awaits
    <3>3. sched' = [sched EXCEPT !.at = "catchingup", !.tries = sched.tries + 1]
      BY <2>4 DEF SquashRetries
    <3>4. sched'.at = "catchingup" /\ sched'.task = t
      BY <3>3, <1>b DEF SchedType
    <3> QED
      BY <3>1, <3>2, <3>3, <3>4 DEF SchedTyped
  <2>5. ASSUME NEW o \in Tasks, RebaseSuspended(o) PROVE SchedTyped'
    BY <1>b, <2>5 DEF RebaseSuspended, At, SchedTyped, SchedType, SchedAt, Awaits, TaskInHand
  <2> QED
    BY <1>3, <1>b, <2>1, <2>2, <2>3, <2>4, <2>5
<1>4. CASE DropMessage \/ HandleAsk \/ HandleImplicit \/ HandleSubmitted \/ HandleError
  <2>1. PICK kinds : Handling(kinds) /\ kinds \in {{"ask", "again", "result", "error"},
             {"ask", "again"}, {"result"}, {"error"}}
    BY <1>4 DEF DropMessage, HandleAsk, HandleImplicit, HandleSubmitted, HandleError
  <2>2. events' \in Seq(Messages) /\ spent' \in [Bounds -> Nat] /\ msg.task \in Tasks
        /\ msg.kind \in kinds /\ (msg.kind \in EndKinds => msg.with \in BOOLEAN)
        /\ (msg.kind \in {"ask", "again"} => msg.with \in Waits)
    BY <2>1, HandlingTyped
  <2>3. task' \in [Tasks -> TaskType]
    <3>1. \/ UNCHANGED task
          \/ Transition(msg.task, WithStatus(msg.task, "done"))
      BY <1>4 DEF DropMessage, HandleAsk, HandleImplicit, HandleSubmitted, HandleError, Kept
    <3> QED
      BY <3>1, <1>0, <1>b, <2>2, StatusTyped, TransitionTyped DEF TaskStatus
  <2>4. run' \in [Tasks -> RunType]
    <3>1. \/ UNCHANGED run
          \/ HandleAsk
      BY <1>4 DEF DropMessage, HandleImplicit, HandleSubmitted, HandleError, Kept
    <3>2. CASE HandleAsk
      <4>1. msg.kind \in {"ask", "again"}
        BY <3>2, HandlingTyped DEF HandleAsk
      <4>2. msg.with \in RunStatus
        BY <4>1, <2>2 DEF Waits, RunStatus
      <4>3. run' = [run EXCEPT ![msg.task] = [run[msg.task] EXCEPT !.status = msg.with]]
        BY <3>2 DEF HandleAsk
      <4> HIDE DEF msg
      <4> QED
        BY <4>2, <4>3, <2>2, <1>0, <1>b, RunTyped
    <3> QED
      BY <3>1, <3>2, <1>b
  <2>5. SchedTyped'
    <3>1. CASE DropMessage \/ HandleAsk
      BY <3>1, <1>0 DEF SchedTyped, DropMessage, HandleAsk
    <3>2. CASE HandleImplicit \/ HandleSubmitted
      <4>1. \/ EndTick
            \/ \E place \in {"completing", "squashing"} :
                  sched' = [sched EXCEPT !.at = place, !.task = msg.task]
        BY <3>2 DEF HandleImplicit, HandleSubmitted
      <4> HIDE DEF msg
      <4> QED
        BY <4>1, <1>b, <1>c, <2>2 DEF SchedTyped, SchedType, SchedAt, Awaits
    <3>3. CASE HandleError
      <4>1. msg.with \in BOOLEAN
        BY <3>3, <2>2, HandlingTyped DEF HandleError, EndKinds
      <4>2. sched' = [sched EXCEPT !.at = "logging", !.task = msg.task,
                              !.transient = msg.with]
        BY <3>3 DEF HandleError
      <4> HIDE DEF msg
      <4> QED
        BY <4>1, <4>2, <1>b, <2>2 DEF SchedTyped, SchedType, SchedAt, Awaits
    <3> QED
      BY <3>1, <3>2, <3>3, <1>4
  <2> QED
    BY <2>2, <2>3, <2>4, <2>5
<1>5. CASE SquashMerges \/ SquashExhausts
  <2>1. UNCHANGED << run, events, spent >> /\ t \in Tasks
    BY <1>5, <1>b DEF SquashMerges, SquashExhausts, At, TaskInHand
  <2>2. task' \in [Tasks -> TaskType]
    <3>1. \/ UNCHANGED task
          \/ Transition(t, [status |-> "done", collab |-> "merged"])
          \/ Transition(t, WithStatus(t, "failed"))
      BY <1>5 DEF SquashMerges, SquashExhausts
    <3> QED
      BY <3>1, <1>0, <1>b, <2>1, StatusTyped, TransitionTyped DEF TaskStatus
  <2>3. SchedTyped'
    <3>1. \/ EndTick
          \/ sched' = [sched EXCEPT !.at = "completing", !.tries = 0]
          \/ sched' = [sched EXCEPT !.at = "completing", !.tries = 0, !.todo = Tasks \ {t}]
      BY <1>5 DEF SquashMerges, SquashExhausts
    <3>2. 0 \in 0 .. MaxSquashRetries
      BY BoundsAreNumbers
    <3>3. CASE EndTick
      BY <3>3, <1>c DEF SchedTyped
    <3>4. CASE sched' = [sched EXCEPT !.at = "completing", !.tries = 0]
      BY <3>4, <3>2, <2>1, <1>b DEF SchedTyped, SchedType, SchedAt
    <3>5. CASE sched' = [sched EXCEPT !.at = "completing", !.tries = 0, !.todo = Tasks \ {t}]
      BY <3>5, <3>2, <2>1, <1>b DEF SchedTyped, SchedType, SchedAt
    <3> QED
      BY <3>1, <3>3, <3>4, <3>5
  <2> QED
    BY <1>b, <2>1, <2>2, <2>3
<1>6. CASE CompleteRun \/ AwaitRetry
  <2>1. UNCHANGED << task, events, spent >> /\ t \in Tasks /\ NextEvent
    BY <1>6, <1>b DEF CompleteRun, AwaitRetry, At, TaskInHand
  <2>2. \/ run' = [run EXCEPT ![t] = [run[t] EXCEPT !.status = "completed"]]
        \/ run' = [run EXCEPT ![t] = [run[t] EXCEPT !.status = "retry_await", !.due = FALSE]]
    BY <1>6, <1>b, <2>1 DEF CompleteRun, AwaitRetry
  <2> QED
    BY <1>0, <1>b, <1>c, <2>1, <2>2, RunTyped DEF RunStatus
<1>7. CASE DecideRetry
  <2>1. UNCHANGED << events, spent >> /\ t \in Tasks
    BY <1>7, <1>b DEF DecideRetry, At, TaskInHand
  <2>2. \/ UNCHANGED run
        \/ run' = [run EXCEPT ![t] = [run[t] EXCEPT !.status = "failed"]]
    BY <1>7 DEF DecideRetry
  <2>3. UNCHANGED task \/ Transition(t, WithStatus(t, "ready"))
    BY <1>7 DEF DecideRetry
  <2>4. NextEvent \/ EndTick \/ Goto("retrying")
    BY <1>7 DEF DecideRetry
  <2>5. task' \in [Tasks -> TaskType]
    BY <1>0, <1>b, <2>1, <2>3, StatusTyped, TransitionTyped DEF TaskStatus
  <2>6. run' \in [Tasks -> RunType]
    BY <1>0, <1>b, <2>1, <2>2, RunTyped DEF RunStatus
  <2>7. SchedTyped'
    BY <1>b, <1>c, <2>1, <2>4, GotoTyped DEF SchedTyped, SchedAt
  <2> QED
    BY <1>b, <2>1, <2>5, <2>6, <2>7
<1>8. CASE \E clean \in BOOLEAN : RebaseDone(clean)
  <2> DEFINE o == sched.other
  <2>1. UNCHANGED << run, events, spent >> /\ t \in Tasks /\ o \in Tasks
    BY <1>8, <1>0 DEF RebaseDone, At, TaskInHand, SchedTyped
  <2>2. \/ UNCHANGED task /\ EndTick
        \/ Transition(o, Reopened(o)) /\ Goto("completing")
        \/ Transition(o, [task[o] EXCEPT !.collab = "conflict"]) /\ Goto("completing")
    BY <1>8 DEF RebaseDone
  <2> HIDE DEF o, t
  <2>3. task' \in [Tasks -> TaskType]
    BY <1>0, <1>b, <2>1, <2>2, StatusTyped, TransitionTyped
  <2>4. SchedTyped'
    BY <1>b, <1>c, <2>1, <2>2, GotoTyped DEF SchedTyped, SchedAt, t
  <2> QED
    BY <1>b, <2>1, <2>3, <2>4
<1>9. CASE \E u \in Tasks : DispatchTask(u)
  <2>1. PICK u \in Tasks : DispatchTask(u)
    BY <1>9
  <2>2. UNCHANGED << task, events, spent >>
    BY <2>1 DEF DispatchTask
  <2>3. run' \in {run, [run EXCEPT ![u] = [run[u] EXCEPT !.status = "ready"]]}
    BY <2>1 DEF DispatchTask
  <2>4. run' \in [Tasks -> RunType]
    BY <1>0, <1>b, <2>3, RunTyped DEF RunStatus
  <2>5. SchedTyped'
    BY <1>b, <2>1 DEF DispatchTask, SchedTyped, SchedType, SchedAt, Awaits
  <2> QED
    BY <1>b, <2>2, <2>4, <2>5
<1>10. CASE Coordinate
  <2>1. UNCHANGED << run, events, spent >>
    BY <1>10 DEF Coordinate
  <2>2. task' \in [Tasks -> TaskType]
    <3>1. \A u \in Tasks : task[u] \in TaskType /\ Suspended(u) \in TaskType
      BY <1>0, <1>b, StatusTyped
    <3> QED
      BY <1>10, <3>1 DEF Coordinate
  <2>3. SchedTyped'
    <3> DEFINE d == Dispatchable
               n == IdleWorkers
    <3>1. d \in SUBSET Tasks /\ n \in 0 .. MaxConcurrency
      BY IdleTyped DEF Dispatchable
    <3>2. \/ EndTick
          \/ sched' = [sched EXCEPT !.at = "dispatching", !.todo = d, !.idle = n]
      BY <1>10 DEF Coordinate, EndTick
    <3> HIDE DEF d, n
    <3> QED
      BY <1>b, <1>c, <3>1, <3>2 DEF SchedTyped, SchedType, SchedAt, TaskInHand
  <2> QED
    BY <1>b, <2>1, <2>2, <2>3
<1>11. CASE Persist
  <2>1. UNCHANGED << task, events, spent >> /\ t \in Tasks
    BY <1>11, <1>b DEF Persist, At, TaskInHand
  <2>2. run' \in [Tasks -> RunType]
    <3>1. run[t].restarts \in Nat /\ run[t].restarts + 1 \in Nat
      BY <1>b, <2>1 DEF RunType
    <3>2. \A n \in Nat : [status |-> "running", session |-> TRUE, due |-> FALSE,
                          restarts |-> n] \in RunType
      BY DEF RunType, RunStatus
    <3>3. PICK n \in {run[t].restarts, run[t].restarts + 1} :
             run' = [run EXCEPT ![t] = [status |-> "running", session |-> TRUE,
                                        due |-> FALSE, restarts |-> n]]
      BY <1>11, <1>b, <2>1 DEF Persist
    <3> QED
      BY <1>b, <3>1, <3>2, <3>3
  <2>3. SchedTyped'
    <3>1. CASE sched.idle > 1 /\ sched.todo # {}
      <4>1. sched' = [sched EXCEPT !.at = "dispatching", !.task = NoRun,
                                      !.idle = sched.idle - 1]
        BY <1>11, <3>1 DEF Persist
      <4>2. sched.idle - 1 \in 0 .. MaxConcurrency
        BY <1>b, <3>1, BoundsAreNumbers DEF SchedType
      <4>3. \A n \in 0 .. MaxConcurrency :
               [sched EXCEPT !.at = "dispatching", !.task = NoRun, !.idle = n] \in SchedType
        BY <1>b DEF SchedType, SchedAt
      <4>4. sched'.at = "dispatching"
        BY <1>b, <4>1 DEF SchedType
      <4> QED
        BY <4>1, <4>2, <4>3, <4>4 DEF SchedTyped, TaskInHand
    <3>2. CASE ~ (sched.idle > 1 /\ sched.todo # {})
      BY <1>11, <1>c, <3>2 DEF Persist
    <3> QED
      BY <3>1, <3>2
  <2> QED
    BY <1>b, <2>1, <2>2, <2>3
<1>12. CASE GitThrows
  BY <1>b, <1>c, <1>12, FaultTyped, <1>0 DEF GitThrows, Kept, Bounds
<1> QED
  BY <1>3, <1>4, <1>5, <1>6, <1>7, <1>8, <1>9, <1>10, <1>11, <1>12
     DEF LoopStep, HandleMessage

\* A process that starts is fresh, and its pipe empty.
LEMMA StartsTyped ==
    ASSUME TypeInv, NEW w \in Workers, NEW resumed \in BOOLEAN,
           resumed => Resumable(w[1]), Starts(w, resumed)
    PROVE  /\ worker' \in [Workers -> WorkerType]
           /\ PipeTyped'
           /\ live' \in [Tasks -> Slots \cup {0}]
<1> DEFINE from == IF resumed THEN saved[w[1]] ELSE "working"
           new == [at |-> IF from \in Waits THEN "waiting" ELSE from, held |-> {}]
<1>0. ProcessesTyped /\ PoolTyped /\ w[1] \in Tasks /\ w[2] \in Slots
  BY TypeParts, WorkerParts
<1>1. from \in Saved \ {"none"}
  BY <1>0 DEF ProcessesTyped, Resumable, Saved
<1>2. new \in WorkerType
  BY <1>1 DEF WorkerType, WorkerAt, Saved
<1>3. /\ worker' = [worker EXCEPT ![w] = new]
      /\ live' = [live EXCEPT ![w[1]] = w[2]]
      /\ \/ from \in Waits /\ Send(w, "again", from)
         \/ UNCHANGED pipe
  BY DEF Starts
<1> HIDE DEF from, new
<1>4. PipeTyped'
  <2>1. CASE UNCHANGED pipe
    BY <2>1, <1>0 DEF ProcessesTyped, PipeTyped
  <2>2. CASE from \in Waits /\ Send(w, "again", from)
    BY <2>2, <1>0, SendTyped, MessageTyped DEF ProcessesTyped
  <2> QED
    BY <2>1, <2>2, <1>3
<1> QED
  BY <1>0, <1>2, <1>3, <1>4 DEF ProcessesTyped, PoolTyped

\* A launch, from dispatch or from recovery.
LEMMA LaunchTyped ==
    ASSUME TypeInv, NEW w \in Workers, Launch(w)
    PROVE  RowsTyped' /\ ProcessesTyped' /\ PoolTyped' /\ SchedTyped'
<1>0. RowsTyped /\ ProcessesTyped /\ PoolTyped /\ SchedTyped /\ w[1] \in Tasks
  BY TypeParts, WorkerParts
<1>1. Resumable(w[1]) \in BOOLEAN
  BY <1>0 DEF Resumable, RowsTyped, RunType
<1>2. UNCHANGED << run, cancelled, saved, events, spent >>
  BY DEF Launch
<1>3. worker' \in [Workers -> WorkerType] /\ PipeTyped'
      /\ live' \in [Tasks -> Slots \cup {0}]
  BY <1>1, StartsTyped DEF Launch
<1>4. task' \in [Tasks -> TaskType]
  <2>1. UNCHANGED task \/ Transition(w[1], Opened)
    BY DEF Launch
  <2> QED
    BY <1>0, <2>1, StatusTyped, TransitionTyped DEF RowsTyped
<1>5. SchedTyped'
  <2>1. EndTick \/ Goto("persisting")
    BY DEF Launch
  <2>2. sched.task \in Tasks
    BY <1>0 DEF Launch
  <2>3. CASE EndTick
    BY <2>3, AsleepTyped DEF EndTick, SchedTyped, TaskInHand
  <2>4. CASE Goto("persisting")
    BY <2>2, <2>4, <1>0, GotoTyped DEF SchedTyped, SchedAt
  <2> QED
    BY <2>1, <2>3, <2>4
<1> QED
  BY <1>0, <1>2, <1>3, <1>4, <1>5 DEF RowsTyped, ProcessesTyped, PoolTyped

\* A crash empties memory, recovery resumes or requeues what was running.
LEMMA RecoveryTyped ==
    ASSUME TypeInv, Crash \/ Recover
    PROVE  RowsTyped' /\ ProcessesTyped' /\ PoolTyped' /\ SchedTyped'
<1>0. RowsTyped /\ ProcessesTyped /\ PoolTyped /\ SchedTyped
  BY TypeParts
<1>1. CASE Crash
  <2>1. UNCHANGED << task, run, cancelled, saved >> /\ events' = << >>
    BY <1>1 DEF Crash, rows
  <2>2. spent' \in [Bounds -> Nat]
    BY <1>0, <1>1, FaultTyped DEF Crash, Bounds
  <2>3. worker' \in [Workers -> WorkerType]
    BY <1>1, GoneTyped DEF Crash, StaleKilled
  <2>4. PipeTyped'
    <3>1. pipe' = [w \in Workers |-> << >>]
      BY <1>1 DEF Crash
    <3> QED
      BY <3>1 DEF PipeTyped
  <2>5. live' \in [Tasks -> Slots \cup {0}]
    BY <1>1 DEF Crash
  <2>6. SchedTyped'
    <3>1. sched' = [Asleep EXCEPT !.at = "recovering", !.todo = Tasks]
      BY <1>1 DEF Crash
    <3> HIDE DEF Asleep
    <3> QED
      BY <3>1, AsleepTyped DEF SchedTyped, SchedType, SchedAt, Awaits, TaskInHand
  <2> QED
    BY <1>0, <2>1, <2>2, <2>3, <2>4, <2>5, <2>6
       DEF RowsTyped, ProcessesTyped, PoolTyped
<1>2. ASSUME NEW t \in Tasks, Recovering(t)
      PROVE  SchedTyped' /\ UNCHANGED << task, cancelled, saved, spent >>
  <2>1. \/ EndTick
        \/ At("recovering") /\ sched' = [sched EXCEPT !.todo = sched.todo \ {t}]
    BY <1>2 DEF Recovering, EndTick
  <2>2. EndTick => SchedTyped'
    BY AsleepTyped DEF EndTick, SchedTyped, TaskInHand
  <2>3. UNCHANGED << task, cancelled, saved, spent >>
    BY <1>2 DEF Recovering
  <2> QED
    BY <2>1, <2>2, <2>3, <1>0 DEF SchedTyped, SchedType, TaskInHand, At
<1>3. ASSUME NEW w \in Workers, RecoverResumes(w)
      PROVE  RowsTyped' /\ ProcessesTyped' /\ PoolTyped' /\ SchedTyped'
  <2>1. w[1] \in Tasks /\ Recovering(w[1]) /\ UNCHANGED events
    BY <1>3, WorkerParts DEF RecoverResumes
  <2>2. run' = [run EXCEPT ![w[1]] = [run[w[1]] EXCEPT !.restarts = run[w[1]].restarts + 1]]
    BY <1>3 DEF RecoverResumes
  <2>3. run' \in [Tasks -> RunType]
    BY <2>1, <2>2, <1>0, RunTyped DEF RowsTyped
  <2>4. worker' \in [Workers -> WorkerType] /\ PipeTyped'
        /\ live' \in [Tasks -> Slots \cup {0}]
    BY <1>3, StartsTyped DEF RecoverResumes
  <2> QED
    BY <1>0, <1>2, <2>1, <2>3, <2>4 DEF RowsTyped, ProcessesTyped, PoolTyped
<1>4. ASSUME NEW t \in Tasks, RecoverRequeues(t) \/ RecoverKeeps(t)
      PROVE  RowsTyped' /\ ProcessesTyped' /\ PoolTyped' /\ SchedTyped'
  <2>1. Recovering(t) /\ UNCHANGED << worker, pipe, live, events >>
    BY <1>4 DEF RecoverRequeues, RecoverKeeps
  <2>2. \/ UNCHANGED run
        \/ run' = [run EXCEPT ![t] = [run[t] EXCEPT !.status = "cancelled"]]
        \/ \E b \in BOOLEAN :
              run' = [run EXCEPT ![t] = [run[t] EXCEPT !.status = "ready", !.session = b,
                                                       !.restarts = run[t].restarts + 1]]
    <3>1. \A b : Requeued(t, b) =>
             run' = [run EXCEPT ![t] = [run[t] EXCEPT !.status = "ready", !.session = b,
                                                      !.restarts = run[t].restarts + 1]]
      <4>1. run[t] \in RunType
        BY <1>0 DEF RowsTyped
      <4> QED
        BY <4>1, <1>0 DEF Requeued, RunType, RowsTyped
    <3>2. (run[t].session /\ task[t].collab = "suspended") \in BOOLEAN
      OBVIOUS
    <3>3. CASE RecoverRequeues(t)
      BY <3>1, <3>2, <3>3 DEF RecoverRequeues
    <3>4. CASE RecoverKeeps(t)
      BY <3>4 DEF RecoverKeeps
    <3> QED
      BY <3>3, <3>4, <1>4
  <2>3. run' \in [Tasks -> RunType]
    <3>0. RowsTyped /\ run \in [Tasks -> RunType] /\ "cancelled" \in RunStatus
      BY <1>0 DEF RowsTyped, RunStatus
    <3>1. CASE UNCHANGED run
      BY <3>0, <3>1
    <3>2. CASE run' = [run EXCEPT ![t] = [run[t] EXCEPT !.status = "cancelled"]]
      <4>1. [run[t] EXCEPT !.status = "cancelled"] \in RunType
        BY <3>0, RunTyped
      <4> QED
        BY <3>0, <3>2, <4>1
    <3>3. ASSUME NEW b \in BOOLEAN,
                 run' = [run EXCEPT ![t] = [run[t] EXCEPT !.status = "ready", !.session = b,
                                                          !.restarts = run[t].restarts + 1]]
          PROVE  run' \in [Tasks -> RunType]
      <4>1. [run[t] EXCEPT !.status = "ready", !.session = b,
                           !.restarts = run[t].restarts + 1] \in RunType
        BY <3>0, RunTyped
      <4> QED
        BY <3>0, <3>3, <4>1
    <3> QED
      BY <2>2, <3>1, <3>2, <3>3
  <2> QED
    BY <1>0, <1>2, <2>1, <2>3 DEF RowsTyped, ProcessesTyped, PoolTyped, PipeTyped
<1> QED
  BY <1>1, <1>3, <1>4 DEF Recover

\* Every step keeps the types.
LEMMA TypeStep == TypeInv /\ [TasksNext]_vars => TypeInv'
<1> SUFFICES ASSUME TypeInv, [TasksNext]_vars PROVE TypeInv'
  OBVIOUS
<1>1. CASE TasksNext
  <2>1. LocksTypeOK' /\ TablesAgree'
    BY <1>1, StepMovesLocks, LockMoves
  <2>2. RowsTyped' /\ ProcessesTyped' /\ PoolTyped' /\ SchedTyped'
    <3>1. \/ \E w \in Workers : \/ WorkerStep(w) \/ Launch(w)
                                \/ Read(w) \/ ExitSeen(w) \/ HealthTimeout(w)
          \/ \E t \in Tasks : AnswerRequest(t) \/ Backoff(t)
          \/ CancelFeature \/ GrantClaim \/ DenyClaim
          \/ /\ LoopStep \/ GitThrows
             /\ ~ GrantClaim /\ ~ DenyClaim /\ ~ \E w \in Workers : Launch(w)
          \/ Crash \/ Recover
      BY <1>1 DEF TasksNext
    <3> QED
      BY <3>1, WorkerTyped, LaunchTyped, PoolStepTyped, UserTyped, ClaimTyped,
         LoopTyped, RecoveryTyped
  <2> QED
    BY <2>1, <2>2 DEF TypeInv, TasksTypeOK, RowsTyped, ProcessesTyped, PoolTyped,
       SchedTyped, SchedType, TaskType, RunType, WorkerType
<1>2. CASE UNCHANGED vars
  BY <1>2 DEF vars, rows, processes, TypeInv, TasksTypeOK, LocksTypeOK, TablesAgree,
     PipeTyped, SchedTyped
<1> QED
  BY <1>1, <1>2

\* Before anything has run.
LEMMA TypeInit == InitTasks => TypeInv
<1> SUFFICES ASSUME InitTasks PROVE TypeInv
  OBVIOUS
<1>1. LocksTypeOK /\ TablesAgree
  BY LocksInit DEF InitTasks, LocksInv
<1>2. RowsTyped
  BY DEF InitTasks, RowsTyped, TaskType, TaskStatus, TaskCollab, RunType, RunStatus
<1>3. ProcessesTyped
  <2>1. pipe = [w \in Workers |-> << >>] /\ worker = [w \in Workers |-> Gone]
        /\ saved = [t \in Tasks |-> "none"]
    BY DEF InitTasks
  <2> QED
    BY <2>1, GoneTyped DEF ProcessesTyped, PipeTyped, Saved
<1>4. PoolTyped
  BY DEF InitTasks, PoolTyped, Bounds
<1>5. SchedTyped
  BY AsleepTyped DEF InitTasks, SchedTyped, TaskInHand
<1> QED
  BY <1>1, <1>2, <1>3, <1>4, <1>5, TypeParts

\* The rows, runs, processes, pipes and queue of the task runs have their
\* types, every message says which process sent it, and the two lock tables
\* agree, for any number of tasks, processes and faults.
THEOREM TasksInvariant == TasksSpec => []TypeInv
BY TypeInit, TypeStep, PTL DEF TasksSpec

\* The type invariant of the runs: run-state.ts, worker-pool.ts and the
\* dispatch of the scheduler loop never leave their states.
THEOREM TaskTypes == TasksSpec => []TasksTypeOK
<1>1. TypeInv => TasksTypeOK
  BY DEF TypeInv
<1> QED
  BY <1>1, TasksInvariant, PTL

\* Whatever the task runs do with claims, answers, ends, cancellations and
\* crashes, the paths they hold behave as a mutual exclusion: the composed
\* system implements the lock of ActiveLocks and with it PathMutex.
THEOREM TaskLocks == TasksSpec => LocksAreMutex
<1>1. InitTasks => Mutex!Init
  BY DEF InitTasks, NoLocks, Mutex!Init
<1>2. TypeInv /\ [TasksNext]_vars => [Mutex!Next]_byPath
  <2> SUFFICES ASSUME TypeInv, [TasksNext]_vars PROVE [Mutex!Next]_byPath
    OBVIOUS
  <2>1. [LocksNext]_locks
    BY StepMovesLocks DEF vars, locks
  <2> QED
    BY <2>1, LocksStepIsMutexStep DEF TypeInv, TasksTypeOK, LocksInv
<1> QED
  BY <1>1, <1>2, TasksInvariant, PTL DEF TasksSpec, LocksAreMutex, Mutex!Spec

----------------------------------------------------------------------------
(* Restarts *)

\* Only a crash counts as one.
LEMMA CrashesCounted ==
    ASSUME TypeInv, TasksNext
    PROVE  IF Crash THEN spent'.crashes = spent.crashes + 1
                    ELSE spent'.crashes = spent.crashes
<1>0. spent \in [Bounds -> Nat]
  BY DEF TypeInv
<1>1. CASE Crash
  BY <1>0, <1>1, SpendTyped DEF Crash, Fault, Bounds
<1>2. CASE ~ Crash
  <2>1. \/ UNCHANGED spent
        \/ \E b \in Bounds \ {"crashes"} : \E max : Spend(b, max)
    <3>1. \A w \in Workers : WorkerStep(w) =>
             UNCHANGED spent \/ Spend("asks", MaxAsks) \/ Spend("claims", MaxClaims)
      BY DEF WorkerStep, Claim, Ask, Checkpoint, Submit, Finish, Fail, Ends, Die
    <3>2. \A w \in Workers : Read(w) \/ ExitSeen(w) \/ HealthTimeout(w) =>
             UNCHANGED spent \/ Spend("late", MaxLateReads) \/ Spend("timeouts", MaxTimeouts)
      BY DEF Read, ExitSeen, HealthTimeout, EndHeard, Fault
    <3>3. CancelFeature \/ GitThrows =>
             Spend("cancels", MaxCancels) \/ Spend("git", MaxGitErrors)
      BY DEF CancelFeature, GitThrows, Fault
    <3>4. LoopStep \/ Recover \/ (\E t \in Tasks : AnswerRequest(t) \/ Backoff(t))
             => UNCHANGED spent
      BY DEF LoopStep, HandleMessage, BeginTick, GrantClaim, DenyClaim, DropMessage,
         HandleAsk, HandleImplicit, HandleSubmitted, HandleError, Handling,
         SquashMerges, SquashRetries, CatchesUp, SquashExhausts, CompleteRun,
         DecideRetry, AwaitRetry, RebaseSuspended, DispatchTask, RebaseBlocked,
         RebaseDone, Coordinate, Persist, Launch, Recover, RecoverResumes,
         RecoverRequeues, RecoverKeeps, Recovering, AnswerRequest, Backoff
    <3>5. {"asks", "claims", "late", "timeouts", "cancels", "git"}
             \subseteq Bounds \ {"crashes"}
      BY DEF Bounds
    <3> QED
      BY <1>2, <3>1, <3>2, <3>3, <3>4, <3>5 DEF TasksNext
  <2>2. "crashes" \in Bounds
    BY DEF Bounds
  <2> QED
    BY <1>0, <1>2, <2>1, <2>2, SpendTyped
<1> QED
  BY <1>1, <1>2

\* The run of t is one restart short of what it may have.
Due(t) == \/ run[t].status = "retry_await"
          \/ At("retrying") /\ sched.task = t
          \/ At("recovering") /\ t \in sched.todo

\* A step that counts no restart and begins no retry.
LEMMA NoRestart ==
    ASSUME TypeInv, RetryInv, spent'.crashes = spent.crashes,
           NEW t \in Tasks, run'[t].restarts = run[t].restarts,
           run'[t].status = "retry_await" => Due(t),
           sched'.at \notin {"retrying", "recovering"} \/ sched' = sched
    PROVE  /\ run'[t].restarts <= RetryCap + spent'.crashes
           /\ Due(t)' => run'[t].restarts < RetryCap + spent'.crashes
BY DEF RetryInv, Due, At

\* Every step keeps the restarts within the cap.
LEMMA RetryStep == TypeInv /\ RetryInv /\ [TasksNext]_vars => RetryInv'
<1> SUFFICES ASSUME TypeInv, RetryInv, [TasksNext]_vars, NEW t \in Tasks
             PROVE  /\ run'[t].restarts <= RetryCap + spent'.crashes
                    /\ Due(t)' => run'[t].restarts < RetryCap + spent'.crashes
  BY DEF RetryInv, Due, At
<1>0. /\ run \in [Tasks -> RunType] /\ run' \in [Tasks -> RunType]
      /\ sched \in SchedType /\ RetryCap \in Nat
      /\ spent.crashes \in Nat /\ spent'.crashes \in Nat
      /\ run[t].restarts \in Nat
      /\ sched.at \in TaskInHand => sched.task \in Tasks
  <2>1. TypeInv'
    BY TypeStep
  <2>2. /\ RowsTyped /\ RowsTyped' /\ SchedTyped
        /\ spent \in [Bounds -> Nat] /\ spent' \in [Bounds -> Nat]
    BY <2>1, TypeParts DEF TypeInv, TasksTypeOK, RowsTyped, TaskType, RunType
  <2> QED
    BY <2>2, BoundsAreNumbers DEF RowsTyped, SchedTyped, RunType, Bounds
<1>a. /\ run[t].restarts <= RetryCap + spent.crashes
      /\ Due(t) => run[t].restarts < RetryCap + spent.crashes
  BY DEF RetryInv, Due
<1> DEFINE Calm == /\ run'[t].restarts = run[t].restarts
                   /\ run'[t].status = "retry_await" => Due(t)
                   /\ sched'.at \notin {"retrying", "recovering"} \/ sched' = sched
<1>1. CASE UNCHANGED vars
  BY <1>1, <1>a DEF vars, rows, Due, At
<1>2. CASE Crash
  <2>1. spent'.crashes = spent.crashes + 1 /\ run' = run
    BY <1>2, CrashesCounted DEF Crash, rows, TasksNext
  <2> QED
    BY <2>1, <1>0, <1>a
<1>3. CASE DecideRetry
  <2>1. spent'.crashes = spent.crashes
    BY <1>3 DEF DecideRetry
  <2>2. sched.at = "logging" /\ sched.task \in Tasks
    BY <1>0, <1>3 DEF DecideRetry, At, TaskInHand
  <2>3. CASE Retries(sched.task)
    <3>1. UNCHANGED run /\ (EndTick \/ Goto("retrying"))
      BY <1>3, <2>3 DEF DecideRetry
    <3>2. CASE t = sched.task
      BY <2>1, <2>3, <3>1, <3>2, <1>0, <1>a DEF Retries
    <3>3. CASE t # sched.task
      <4>1. ~ Due(t)' \/ run[t].status = "retry_await"
        BY <3>1, <3>3, <1>0 DEF Due, EndTick, Asleep, Goto, At, SchedType
      <4> QED
        BY <2>1, <3>1, <4>1, <1>a DEF Due
    <3> QED
      BY <3>2, <3>3
  <2>4. CASE ~ Retries(sched.task)
    <3>1. NextEvent /\ run' = [run EXCEPT ![sched.task] =
                                  [run[sched.task] EXCEPT !.status = "failed"]]
      BY <1>3, <2>4 DEF DecideRetry
    <3>2. sched'.at = "draining"
      BY <3>1, NextEventTyped
    <3>3. run'[t].restarts = run[t].restarts
          /\ (run'[t].status = "retry_await" => run[t].status = "retry_await")
      BY <1>0, <2>2, <3>1 DEF RunType
    <3> QED
      BY <2>1, <3>2, <3>3, NoRestart DEF Due
  <2> QED
    BY <2>3, <2>4
<1>4. CASE Persist
  <2>1. spent'.crashes = spent.crashes /\ sched.task \in Tasks
    BY <1>0, <1>4 DEF Persist, At, TaskInHand
  <2>2. run' = [run EXCEPT ![sched.task] =
                 [status |-> "running", session |-> TRUE, due |-> FALSE,
                  restarts |-> IF run[sched.task].status = "retry_await"
                                  THEN run[sched.task].restarts + 1
                                  ELSE run[sched.task].restarts]]
    BY <1>0, <1>4, <2>1 DEF Persist
  <2>3. sched'.at \notin {"retrying", "recovering"}
    <3>1. CASE sched.idle > 1 /\ sched.todo # {}
      BY <1>0, <1>4, <3>1 DEF Persist, SchedType
    <3>2. CASE ~ (sched.idle > 1 /\ sched.todo # {})
      BY <1>4, <3>2 DEF Persist, EndTick, Asleep
    <3> QED
      BY <3>1, <3>2
  <2>4. CASE t = sched.task
    <3>1. run'[t].status = "running"
          /\ run'[t].restarts \in {run[t].restarts, run[t].restarts + 1}
          /\ (run[t].status # "retry_await" => run'[t].restarts = run[t].restarts)
      BY <1>0, <2>2, <2>4
    <3>2. ~ Due(t)'
      BY <2>3, <3>1 DEF Due, At
    <3> QED
      BY <1>0, <1>a, <2>1, <3>1, <3>2 DEF Due
  <2>5. CASE t # sched.task
    BY <1>0, <2>1, <2>2, <2>3, <2>5, NoRestart DEF Due
  <2> QED
    BY <2>4, <2>5
<1>5. ASSUME NEW u \in Tasks, Recovering(u),
             \/ UNCHANGED run
             \/ run' = [run EXCEPT ![u] = [run[u] EXCEPT !.status = "cancelled"]]
             \/ \E x \in RunType : /\ run' = [run EXCEPT ![u] = x]
                                   /\ x.restarts = run[u].restarts + 1
                                   /\ x.status # "retry_await"
      PROVE  /\ run'[t].restarts <= RetryCap + spent'.crashes
             /\ Due(t)' => run'[t].restarts < RetryCap + spent'.crashes
  <2>1. /\ spent'.crashes = spent.crashes
        /\ sched.at = "recovering" /\ u \in sched.todo
        /\ \/ sched'.at = "sleeping"
           \/ sched' = [sched EXCEPT !.todo = sched.todo \ {u}]
    BY <1>5 DEF Recovering, At, Asleep
  <2>2. Due(u)
    BY <2>1 DEF Due, At
  <2>3. CASE t = u
    <3>1. /\ run'[t].restarts \in {run[t].restarts, run[t].restarts + 1}
          /\ run'[t].status = "retry_await" => run'[t].restarts = run[t].restarts
      BY <1>0, <1>5, <2>3 DEF RunType
    <3>2. ~ (sched'.at = "recovering" /\ t \in sched'.todo) /\ sched'.at # "retrying"
      BY <2>1, <2>3, <1>0 DEF SchedType
    <3> QED
      BY <1>0, <1>a, <2>1, <2>2, <2>3, <3>1, <3>2 DEF Due, At
  <2>4. CASE t # u
    <3>1. run'[t] = run[t]
      BY <1>0, <1>5, <2>4
    <3>2. Due(t)' => Due(t)
      BY <2>1, <3>1, <1>0 DEF Due, At, SchedType
    <3> QED
      BY <1>a, <2>1, <3>1, <3>2
  <2> QED
    BY <2>3, <2>4
<1>6. CASE Recover
  <2>1. ASSUME NEW w \in Workers, RecoverResumes(w) PROVE Recovering(w[1]) /\ w[1] \in Tasks
           /\ \E x \in RunType : /\ run' = [run EXCEPT ![w[1]] = x]
                                 /\ x.restarts = run[w[1]].restarts + 1
                                 /\ x.status # "retry_await"
    <3>1. w[1] \in Tasks
      BY WorkerParts
    <3> DEFINE r == run[w[1]]
               x == [r EXCEPT !.restarts = r.restarts + 1]
    <3>2. r \in RunType /\ r.status \in Attended /\ Recovering(w[1]) /\ r.restarts + 1 \in Nat
      BY <2>1, <3>1, <1>0 DEF RecoverResumes, RunType
    <3>3. \A n \in Nat : [r EXCEPT !.restarts = n] \in RunType
      BY <3>2 DEF RunType
    <3>4. x \in RunType /\ x.restarts = r.restarts + 1 /\ x.status = r.status
      BY <3>2, <3>3 DEF RunType
    <3>5. run' = [run EXCEPT ![w[1]] = x]
      BY <2>1 DEF RecoverResumes
    <3> HIDE DEF r, x
    <3> QED
      BY <3>1, <3>2, <3>4, <3>5 DEF Attended, Waits, r
  <2>2. ASSUME NEW u \in Tasks, RecoverRequeues(u) PROVE Recovering(u)
           /\ \E x \in RunType : /\ run' = [run EXCEPT ![u] = x]
                                 /\ x.restarts = run[u].restarts + 1
                                 /\ x.status # "retry_await"
    <3>1. run'[u].restarts = run[u].restarts + 1 /\ run'[u].status = "ready"
          /\ run' = [run EXCEPT ![u] = run'[u]]
      BY <2>2, <1>0 DEF RecoverRequeues, Requeued, RunType
    <3>2. run'[u] \in RunType /\ Recovering(u)
      BY <1>0, <2>2 DEF RecoverRequeues
    <3> QED
      BY <3>1, <3>2
  <2>3. ASSUME NEW u \in Tasks, RecoverKeeps(u) PROVE Recovering(u)
          /\ \/ UNCHANGED run
             \/ run' = [run EXCEPT ![u] = [run[u] EXCEPT !.status = "cancelled"]]
    BY <2>3 DEF RecoverKeeps
  <2> QED
    BY <1>5, <1>6, <2>1, <2>2, <2>3 DEF Recover
<1>7. ASSUME NEW w \in Workers, \/ WorkerStep(w) \/ Read(w) \/ ExitSeen(w)
                                \/ HealthTimeout(w) \/ Launch(w)
      PROVE  Calm
  <2>1. UNCHANGED run
    BY <1>7 DEF WorkerStep, Claim, Ask, Checkpoint, Submit, Finish, Fail, Ends, Die,
       WorkerOnly, Read, ExitSeen, HealthTimeout, Launch, rows
  <2>2. UNCHANGED sched \/ EndTick \/ Goto("persisting")
    BY <1>7 DEF WorkerStep, Claim, Ask, Checkpoint, Submit, Finish, Fail, Ends, Die,
       WorkerOnly, Read, ExitSeen, HealthTimeout, Launch
  <2> QED
    BY <2>1, <2>2, <1>0 DEF Due, EndTick, Asleep, Goto, SchedType
<1>8. ASSUME NEW u \in Tasks, AnswerRequest(u) \/ Backoff(u) \/ RebaseSuspended(u)
                                 \/ DispatchTask(u)
      PROVE  Calm
  <2>1. UNCHANGED run \/ run' = [run EXCEPT ![u] = [run[u] EXCEPT !.due = TRUE]]
        \/ \E s \in {"running", "ready"} : run' = [run EXCEPT ![u] = [run[u] EXCEPT !.status = s]]
    BY <1>8 DEF AnswerRequest, Backoff, RebaseSuspended, DispatchTask, Kept
  <2>2. UNCHANGED sched \/ sched'.at \in {"rebasing", "preparing"}
    BY <1>8, <1>0 DEF AnswerRequest, Backoff, RebaseSuspended, DispatchTask, SchedType
  <2> QED
    BY <2>1, <2>2, <1>0 DEF Due, RunType
<1>9. ASSUME CancelFeature PROVE Calm
  <2>1. UNCHANGED sched
    BY <1>9 DEF CancelFeature
  <2>2. run'[t] \in {run[t], [run[t] EXCEPT !.status = "cancelled"]}
    BY <1>9, <1>0 DEF CancelFeature
  <2> QED
    BY <2>1, <2>2, <1>0 DEF Due, RunType
<1>10. ASSUME \/ BeginTick \/ GrantClaim \/ DenyClaim \/ DropMessage \/ HandleImplicit
            \/ HandleSubmitted \/ HandleError \/ SquashMerges \/ SquashRetries
            \/ CatchesUp \/ SquashExhausts \/ RebaseBlocked \/ GitThrows
            \/ (\E clean \in BOOLEAN : RebaseDone(clean)) \/ Coordinate
       PROVE Calm
  <2>1. UNCHANGED run
    BY <1>10 DEF BeginTick, GrantClaim, DenyClaim, DropMessage, HandleImplicit,
       HandleSubmitted, HandleError, SquashMerges, SquashRetries, CatchesUp,
       SquashExhausts, RebaseBlocked, GitThrows, RebaseDone, Coordinate, Kept
  <2>2. UNCHANGED sched \/ sched'.at \notin {"retrying", "recovering"}
    <3>1. CASE BeginTick
      BY <3>1, NextEventTyped DEF BeginTick
    <3>2. CASE \/ GrantClaim \/ DenyClaim \/ DropMessage \/ HandleImplicit
               \/ HandleSubmitted \/ HandleError
      BY <3>2, <1>0, AsleepTyped DEF GrantClaim, DenyClaim, DropMessage, HandleImplicit,
         HandleSubmitted, HandleError, EndTick, SchedType
    <3>3. CASE \/ SquashMerges \/ SquashRetries \/ CatchesUp \/ SquashExhausts
               \/ RebaseBlocked \/ GitThrows
               \/ (\E clean \in BOOLEAN : RebaseDone(clean)) \/ Coordinate
      BY <3>3, <1>0, AsleepTyped DEF SquashMerges, SquashRetries, CatchesUp,
         SquashExhausts, RebaseBlocked, GitThrows, RebaseDone, Coordinate, Goto,
         EndTick, SchedType
    <3> QED
      BY <3>1, <3>2, <3>3, <1>10
  <2> QED
    BY <2>1, <2>2, <1>0 DEF Due
<1>11. ASSUME HandleAsk \/ CompleteRun \/ AwaitRetry PROVE Calm
  <2>1. CASE HandleAsk
    <3>1. UNCHANGED sched /\ run' = [run EXCEPT ![msg.task] = [run[msg.task] EXCEPT !.status = msg.with]]
      BY <2>1 DEF HandleAsk
    <3>2. msg.task \in Tasks /\ msg.with \in Waits
      BY <2>1, HandlingTyped DEF HandleAsk
    <3> HIDE DEF msg
    <3> QED
      BY <3>1, <3>2, <1>0 DEF Due, RunType, Waits
  <2>2. CASE CompleteRun \/ AwaitRetry
    <3>1. NextEvent /\ (\/ run' = [run EXCEPT ![sched.task] = [run[sched.task] EXCEPT !.status = "completed"]]
                        \/ /\ sched.at = "retrying"
                           /\ run' = [run EXCEPT ![sched.task] =
                                [run[sched.task] EXCEPT !.status = "retry_await", !.due = FALSE]])
      BY <2>2, <1>0 DEF CompleteRun, AwaitRetry, At, TaskInHand
    <3>2. sched'.at = "draining"
      BY <3>1, NextEventTyped
    <3>3. run'[t].restarts = run[t].restarts
      <4>1. run[t] \in RunType
        BY <1>0
      <4>2. run'[t] \in { run[t], [run[t] EXCEPT !.status = "completed"],
                          [run[t] EXCEPT !.status = "retry_await", !.due = FALSE] }
        BY <3>1, <1>0
      <4> QED
        BY <4>1, <4>2 DEF RunType
    <3>4. run'[t].status = "retry_await" => Due(t)
      BY <3>1, <1>0 DEF RunType, Due, At
    <3> QED
      BY <3>2, <3>3, <3>4
  <2> QED
    BY <1>11, <2>1, <2>2
<1> QED
  <2>1. CASE TasksNext /\ Calm
    <3>1. CASE Crash
      BY <1>2, <3>1
    <3>2. CASE ~ Crash
      BY <2>1, <3>2, CrashesCounted, NoRestart
    <3> QED
      BY <3>1, <3>2
  <2> HIDE DEF Calm
  <2> QED
    BY <2>1, <1>1, <1>2, <1>3, <1>4, <1>6, <1>7, <1>8, <1>9, <1>10, <1>11
       DEF TasksNext, LoopStep, HandleMessage

\* decideRetry: a run is restarted at most as often as the retry cap and the
\* crashes allow, however its failures, backoffs and recoveries interleave.
THEOREM RestartsBounded == TasksSpec => []RetryBounded
<1>1. InitTasks => RetryInv
  <2>1. RetryCap \in Nat
    BY BoundsAreNumbers
  <2> QED
    BY <2>1 DEF InitTasks, RetryInv, At, Asleep
<1>2. RetryInv => RetryBounded
  BY DEF RetryInv, RetryBounded
<1> QED
  BY <1>1, <1>2, RetryStep, TasksInvariant, PTL DEF TasksSpec

----------------------------------------------------------------------------
(* The size of the pool *)

\* The sessions are finitely many.
LEMMA LiveFinite ==
    /\ IsFiniteSet(Live) /\ Cardinality(Live) \in Nat
    /\ IsFiniteSet(Live)' /\ Cardinality(Live') \in Nat
<1>1. Live \in SUBSET Tasks /\ Live' \in SUBSET Tasks
  BY DEF Live
<1>2. IsFiniteSet(Live) /\ IsFiniteSet(Live')
  BY <1>1, TasksFinite, FS_Subset
<1> QED
  BY <1>2, FS_CardinalityType

\* Only a launch, or recovery, gives a run a session.
LEMMA LiveMoves ==
    ASSUME TypeInv, TasksNext
    PROVE  \/ Live' \subseteq Live
           \/ \E w \in Workers : Launch(w) /\ Live' \subseteq Live \cup {w[1]}
           \/ At("recovering") /\ Recover
<1>0. live \in [Tasks -> Slots \cup {0}]
  BY TypeParts DEF PoolTyped
<1>1. ASSUME UNCHANGED live PROVE Live' \subseteq Live
  BY <1>1 DEF Live
<1>2. ASSUME NEW w \in Workers, Launch(w) PROVE Live' \subseteq Live \cup {w[1]}
  <2>1. w[1] \in Tasks /\ live' = [live EXCEPT ![w[1]] = w[2]]
    BY <1>2, WorkerParts DEF Launch, Starts
  <2> QED
    BY <2>1, <1>0 DEF Live
<1>3. ASSUME NEW w \in Workers, Read(w) \/ ExitSeen(w) \/ HealthTimeout(w)
      PROVE  Live' \subseteq Live
  <2>1. UNCHANGED live \/ live' = [live EXCEPT ![w[1]] = 0]
    BY <1>3 DEF Read, ExitSeen, HealthTimeout
  <2> QED
    BY <2>1, <1>0 DEF Live
<1>4. ASSUME CancelFeature \/ Crash PROVE Live' \subseteq Live
  <2>1. CASE CancelFeature
    BY <2>1 DEF CancelFeature, Live
  <2>2. CASE Crash
    BY <2>2 DEF Crash, Live
  <2> QED
    BY <1>4, <2>1, <2>2
<1>5. ASSUME Recover PROVE At("recovering")
  BY <1>5 DEF Recover, RecoverResumes, RecoverRequeues, RecoverKeeps, Recovering
<1>6. ASSUME NEW w \in Workers, WorkerStep(w) PROVE UNCHANGED live
  BY <1>6 DEF WorkerStep, Claim, Ask, Checkpoint, Submit, Finish, Fail, Ends, Die, WorkerOnly
<1>7. ASSUME NEW t \in Tasks, AnswerRequest(t) \/ Backoff(t) PROVE UNCHANGED live
  BY <1>7 DEF AnswerRequest, Backoff
<1>8. ASSUME LoopStep \/ GitThrows, ~ \E w \in Workers : Launch(w) PROVE UNCHANGED live
  BY <1>8 DEF LoopStep, HandleMessage, BeginTick, GrantClaim, DenyClaim, DropMessage,
     HandleAsk, HandleImplicit, HandleSubmitted, HandleError, SquashMerges,
     SquashRetries, CatchesUp, SquashExhausts, CompleteRun, DecideRetry, AwaitRetry,
     RebaseSuspended, DispatchTask, RebaseBlocked, RebaseDone, Coordinate, Persist,
     GitThrows, LoopOnly
<1> QED
  BY <1>1, <1>2, <1>3, <1>4, <1>5, <1>6, <1>7, <1>8 DEF TasksNext, LoopStep

\* A launch leaves the pool with one session more, at most.
LEMMA LaunchAddsOne ==
    ASSUME NEW t, Live' \subseteq Live \cup {t}
    PROVE  Cardinality(Live') <= Cardinality(Live) + 1
<1>1. /\ IsFiniteSet(Live \cup {t})
      /\ Cardinality(Live \cup {t}) \in {Cardinality(Live), Cardinality(Live) + 1}
  BY LiveFinite, FS_AddElement
<1>2. Cardinality(Live') <= Cardinality(Live \cup {t})
  BY <1>1, FS_Subset
<1> QED
  BY <1>1, <1>2, LiveFinite

\* Ending sessions does not lengthen their list.
LEMMA FewerLive ==
    ASSUME Live' \subseteq Live
    PROVE  Cardinality(Live') <= Cardinality(Live)
BY LiveFinite, FS_Subset

\* Where the dispatch of a tick is, and how many workers it may still start:
\* it begins with the idle ones, and a launch and its persisting use up one.
LEMMA DispatchMoves ==
    ASSUME TypeInv, TasksNext, sched'.at \in Dispatching
    PROVE  \/ sched' = sched
           \/ At("dispatching") /\ sched'.at = "preparing" /\ sched'.idle = sched.idle
           \/ At("preparing") /\ sched'.at = "persisting" /\ sched'.idle = sched.idle
           \/ /\ At("persisting") /\ sched'.at = "dispatching" /\ Persist
              /\ sched.idle > 1 /\ sched'.idle = sched.idle - 1
           \/ /\ Coordinate /\ sched'.at = "dispatching"
              /\ IdleWorkers > 0 /\ sched'.idle = IdleWorkers
<1>0. sched \in SchedType
  BY TypeParts DEF SchedTyped
<1>a. ASSUME EndTick \/ NextEvent PROVE FALSE
  BY <1>a, AsleepTyped, NextEventTyped DEF EndTick, Dispatching
<1>1. ASSUME NEW w \in Workers, Launch(w)
      PROVE  At("preparing") /\ sched'.at = "persisting" /\ sched'.idle = sched.idle
  BY <1>0, <1>1, <1>a, GotoTyped DEF Launch, SchedAt
<1>2. ASSUME NEW t \in Tasks, DispatchTask(t)
      PROVE  At("dispatching") /\ sched'.at = "preparing" /\ sched'.idle = sched.idle
  BY <1>0, <1>2 DEF DispatchTask, SchedType
<1>3. ASSUME Persist
      PROVE  /\ At("persisting") /\ sched'.at = "dispatching"
             /\ sched.idle > 1 /\ sched'.idle = sched.idle - 1
  <2>1. sched.idle > 1 /\ sched.todo # {} /\ At("persisting")
    BY <1>3, <1>a DEF Persist
  <2>2. sched' = [sched EXCEPT !.at = "dispatching", !.task = NoRun, !.idle = @ - 1]
    BY <1>3, <2>1 DEF Persist
  <2> QED
    BY <2>1, <2>2, <1>0 DEF SchedType
<1>4. ASSUME Coordinate
      PROVE  sched'.at = "dispatching" /\ IdleWorkers > 0 /\ sched'.idle = IdleWorkers
  <2> DEFINE d == Dispatchable
             n == IdleWorkers
  <2>1. n > 0 /\ sched' = [sched EXCEPT !.at = "dispatching", !.todo = d, !.idle = n]
    BY <1>4, <1>a DEF Coordinate, EndTick
  <2> HIDE DEF d, n
  <2>2. sched'.at = "dispatching" /\ n > 0 /\ sched'.idle = n
    BY <2>1, <1>0 DEF SchedType
  <2> QED
    BY <2>2 DEF n
<1>5. ASSUME NEW w \in Workers, WorkerStep(w) \/ Read(w) \/ ExitSeen(w) \/ HealthTimeout(w)
      PROVE  sched' = sched
  BY <1>5 DEF WorkerStep, Claim, Ask, Checkpoint, Submit, Finish, Fail, Ends, Die,
     WorkerOnly, Read, ExitSeen, HealthTimeout
<1>6. ASSUME NEW t \in Tasks, AnswerRequest(t) \/ Backoff(t) PROVE sched' = sched
  BY <1>6 DEF AnswerRequest, Backoff
<1>7. CASE CancelFeature
  BY <1>7 DEF CancelFeature
<1>8. CASE Crash \/ Recover
  <2>1. CASE Crash
    <3>1. sched' = [Asleep EXCEPT !.at = "recovering", !.todo = Tasks]
      BY <2>1 DEF Crash
    <3> QED
      BY <3>1 DEF Asleep, Dispatching
  <2>2. CASE Recover
    BY <2>2, <1>a, <1>0 DEF Recover, RecoverResumes, RecoverRequeues, RecoverKeeps,
       Recovering, EndTick, At, SchedType, Dispatching
  <2> QED
    BY <1>8, <2>1, <2>2
<1>9. CASE \/ BeginTick \/ CompleteRun \/ AwaitRetry \/ GitThrows \/ DecideRetry
           \/ RebaseBlocked \/ CatchesUp \/ SquashRetries \/ SquashMerges
           \/ SquashExhausts \/ (\E o \in Tasks : RebaseSuspended(o))
           \/ (\E clean \in BOOLEAN : RebaseDone(clean))
  <2>1. \/ EndTick \/ NextEvent
        \/ Goto("retrying") \/ Goto("completing") \/ Goto("squashing")
        \/ sched'.at \in {"catchingup", "completing", "rebasing"}
    BY <1>9, <1>0 DEF BeginTick, CompleteRun, AwaitRetry, GitThrows, DecideRetry,
       RebaseBlocked, CatchesUp, SquashRetries, SquashMerges, SquashExhausts,
       RebaseSuspended, RebaseDone, SchedType
  <2> QED
    BY <2>1, <1>a, <1>0, GotoTyped DEF SchedAt, Awaits, Dispatching
<1>10. CASE \/ GrantClaim \/ DenyClaim \/ DropMessage \/ HandleAsk \/ HandleImplicit
            \/ HandleSubmitted \/ HandleError
  <2>1. \/ EndTick \/ UNCHANGED sched
        \/ sched'.at \in {"completing", "squashing", "logging"}
    BY <1>10, <1>0 DEF GrantClaim, DenyClaim, DropMessage, HandleAsk, HandleImplicit,
       HandleSubmitted, HandleError, SchedType
  <2> QED
    BY <2>1, <1>a DEF Dispatching
<1> QED
  BY <1>1, <1>2, <1>3, <1>4, <1>5, <1>6, <1>7, <1>8, <1>9, <1>10
     DEF TasksNext, LoopStep, HandleMessage

\* Every step keeps the sessions and the idle workers within the pool.
LEMMA PoolStep == TypeInv /\ PoolInv /\ [TasksNext]_vars => PoolInv'
<1> SUFFICES ASSUME TypeInv, PoolInv, [TasksNext]_vars PROVE PoolInv'
  OBVIOUS
<1>1. CASE UNCHANGED vars
  BY <1>1 DEF vars, PoolInv, Live, At
<1>2. CASE TasksNext /\ sched'.at \in Dispatching
  <2>0. /\ sched.idle \in Nat /\ sched'.idle \in Int /\ MaxConcurrency \in Nat
        /\ Cardinality(Live) \in Nat /\ Cardinality(Live') \in Nat
    <3>1. sched \in SchedType /\ MaxConcurrency \in Nat
      BY TypeParts, BoundsAreNumbers DEF SchedTyped
    <3>2. sched'.idle \in Int
      <4>1. TypeInv'
        BY TypeStep
      <4> QED
        BY <4>1, BoundsAreNumbers DEF TypeInv, SchedTyped, SchedType
    <3> QED
      BY <3>1, <3>2, LiveFinite DEF SchedType
  <2>1. CASE Coordinate
    <3>1. UNCHANGED live
      BY <2>1 DEF Coordinate, LoopOnly
    <3>2. Live' = Live
      BY <3>1 DEF Live
    <3>3. IdleWorkers > 0 => IdleWorkers = MaxConcurrency - Cardinality(Live)
      BY <2>0 DEF IdleWorkers
    <3>4. sched.at = "draining"
      BY <2>1 DEF Coordinate, At
    <3>5. sched'.at = "dispatching" /\ sched'.idle = IdleWorkers /\ IdleWorkers > 0
      BY <1>2, <3>4, DispatchMoves DEF At, Dispatching
    <3> QED
      BY <2>0, <3>2, <3>3, <3>5 DEF PoolInv, At
  <2>2. CASE ~ Coordinate
    <3>1. sched.at \in Dispatching
      BY <1>2, <2>2, DispatchMoves DEF Dispatching, At
    <3>2. \/ Cardinality(Live') <= Cardinality(Live)
          \/ /\ At("preparing") /\ sched'.at = "persisting"
             /\ Cardinality(Live') <= Cardinality(Live) + 1
      <4>1. ~ (At("recovering") /\ Recover)
        BY <3>1 DEF At, Dispatching
      <4>2. ASSUME NEW w \in Workers, Launch(w), Live' \subseteq Live \cup {w[1]}
            PROVE  /\ At("preparing") /\ sched'.at = "persisting"
                   /\ Cardinality(Live') <= Cardinality(Live) + 1
        <5>1. At("preparing") /\ (Goto("persisting") \/ EndTick)
          BY <4>2 DEF Launch
        <5>2. ~ EndTick
          BY <1>2, AsleepTyped DEF EndTick, Dispatching
        <5>3. sched'.at = "persisting"
          BY <5>1, <5>2, TypeParts, GotoTyped DEF SchedTyped, SchedAt
        <5> QED
          BY <4>2, <5>1, <5>3, LaunchAddsOne
      <4> QED
        BY <1>2, <4>1, <4>2, LiveMoves, FewerLive
    <3> QED
      BY <1>2, <2>0, <2>2, <3>1, <3>2, DispatchMoves DEF PoolInv, At, Dispatching
  <2> QED
    BY <2>1, <2>2
<1>3. CASE sched'.at \notin Dispatching
  BY <1>3 DEF PoolInv, At, Dispatching
<1> QED
  BY <1>1, <1>2, <1>3

\* dispatchReadyWork: no tick launches more processes than the pool has room
\* for, although it counts the idle workers once, before the first launch.
THEOREM LaunchesWithinPool == TasksSpec => LaunchWithinPool
<1>1. InitTasks => PoolInv
  BY DEF InitTasks, PoolInv, At, Asleep
<1>2. TypeInv /\ PoolInv /\ [TasksNext]_vars =>
         [Cardinality(Live') > Cardinality(Live)
            => \/ At("recovering")
               \/ Cardinality(Live') <= MaxConcurrency]_vars
  <2> SUFFICES ASSUME TypeInv, PoolInv, TasksNext,
                      Cardinality(Live') > Cardinality(Live), ~ At("recovering")
               PROVE  Cardinality(Live') <= MaxConcurrency
    OBVIOUS
  <2>1. PICK w \in Workers : Launch(w) /\ Live' \subseteq Live \cup {w[1]}
    BY LiveMoves, FewerLive, LiveFinite
  <2>2. Cardinality(Live') <= Cardinality(Live) + 1
    BY <2>1, LaunchAddsOne
  <2>3. At("preparing")
    BY <2>1 DEF Launch
  <2>4. sched.idle > 0 /\ Cardinality(Live) + sched.idle <= MaxConcurrency
    BY <2>3 DEF PoolInv, At
  <2>5. sched.idle \in Nat /\ MaxConcurrency \in Nat
    BY TypeParts, BoundsAreNumbers DEF SchedTyped, SchedType
  <2> QED
    BY <2>2, <2>4, <2>5, LiveFinite
<1> QED
  BY <1>1, <1>2, PoolStep, TasksInvariant, PTL DEF TasksSpec, LaunchWithinPool

----------------------------------------------------------------------------
(* One process per task *)

\* A step that has nothing to do with t.
Same(t) == /\ \A s \in Slots : /\ worker'[<< t, s >>] = worker[<< t, s >>]
                               /\ pipe'[<< t, s >>] = pipe[<< t, s >>]
           /\ live'[t] = live[t]
           /\ task'[t] = task[t]

OldEvents(t) == \A i \in DOMAIN events' : events'[i].task = t =>
                   \E j \in DOMAIN events : events[j] = events'[i]

\* The loop does not turn to t.
CalmSched(t) == /\ sched'.at \in Settling /\ sched'.task = t
                      => sched.at \in Settling /\ sched.task = t
                /\ Chosen(t)' => Chosen(t)

\* A step that leaves a task's rows, processes and messages alone, and does
\* not turn the loop to it, keeps what is said of the task.
LEMMA NotConcerned ==
    ASSUME NEW t \in Tasks, SoleAt(t), Same(t), OldEvents(t), CalmSched(t)
    PROVE  SoleAt(t)'
<1>1. ASSUME NEW s \in Slots, worker'[<< t, s >>].at \in Alive
      PROVE  Sole(t, s)'
  <2>1. Sole(t, s)
    BY <1>1 DEF SoleAt, Same
  <2> QED
    BY <2>1 DEF Sole, Same, OldEvents, CalmSched, Unused
<1>2. ASSUME Chosen(t)' PROVE Quiet(t)'
  <2>1. Quiet(t)
    BY <1>2 DEF SoleAt, CalmSched
  <2> QED
    BY <2>1 DEF Quiet, Same, OldEvents, Unused
<1> QED
  BY <1>1, <1>2 DEF SoleAt

\* A message handled, or read, is no other task's.
LEMMA HandledOld ==
    ASSUME TypeInv, NEW kinds, Handling(kinds)
    PROVE  /\ \A t : OldEvents(t)
           /\ events # << >> /\ msg = events[1] /\ 1 \in DOMAIN events
           /\ sched.at = "draining"
<1>1. events # << >> /\ events' = Tail(events) /\ events \in Seq(Messages)
      /\ sched.at = "draining"
  BY DEF Handling, TypeInv, At
<1> QED
  BY <1>1, TailKeeps DEF OldEvents, msg

\* A report about one task is no other task's.
LEMMA ReportedOld ==
    ASSUME TypeInv, NEW m \in Messages, Report(m)
    PROVE  /\ \A t : m.task # t => OldEvents(t)
           /\ \A i \in DOMAIN events' : \/ i \in DOMAIN events /\ events'[i] = events[i]
                                        \/ events'[i] = m
<1>1. events' = Append(events, m) /\ events \in Seq(Messages)
  BY DEF Report, TypeInv
<1>2. \A i \in DOMAIN events' : \/ i \in DOMAIN events /\ events'[i] = events[i]
                                \/ events'[i] = m
  BY <1>1, AppendKeeps
<1> QED
  BY <1>2 DEF OldEvents

\* A loop that stays where it is turns to no task.
LEMMA CalmWhenStill ==
    /\ sched' = sched => \A t : CalmSched(t)
    /\ sched'.at \notin Settling \cup Dispatching => \A t : CalmSched(t)
BY DEF CalmSched, Chosen, At, Settling, Dispatching

\* A process that works has nobody beside it, and its task is not chosen.
LEMMA AloneAt ==
    ASSUME NEW t \in Tasks, NEW s \in Slots, SoleAt(t), worker[<< t, s >>].at \in Alive
    PROVE  /\ Sole(t, s) /\ ~ Chosen(t)
           /\ \A r \in Slots : r # s => /\ worker[<< t, r >>] = Gone
                                        /\ worker[<< t, r >>].at \notin Alive \cup {"ended"}
                                        /\ pipe[<< t, r >>] = << >>
<1>1. worker[<< t, s >>] # Gone
  BY DEF Gone, Alive
<1>2. Sole(t, s) /\ ~ Chosen(t)
  BY <1>1 DEF SoleAt, Quiet, Unused
<1>3. Gone.at \notin Alive \cup {"ended"}
  BY DEF Gone, Alive
<1> QED
  BY <1>2, <1>3 DEF Sole, Unused

\* A process's own step: it sends its end and stops working at once.
LEMMA WorkerSole ==
    ASSUME TypeInv, NEW w \in Workers, WorkerStep(w),
           NEW t \in Tasks, SoleAt(t)
    PROVE  SoleAt(t)'
<1>0. PICK u \in Tasks, s \in Slots : w = << u, s >>
  BY WorkerParts
<1>a. /\ worker \in [Workers -> WorkerType] /\ pipe \in [Workers -> Seq(Messages)]
      /\ \A r \in Slots : << t, r >> \in Workers
  BY TypeParts, WorkerParts DEF ProcessesTyped, PipeTyped
<1>1. /\ UNCHANGED << rows, live, events, sched >>
      /\ worker[w].at \in Alive
  BY DEF WorkerStep, Claim, Ask, Checkpoint, Submit, Finish, Fail, Ends, Die,
     WorkerOnly, Alive, WorkerAt
<1>2. \/ UNCHANGED worker
      \/ \E place \in WorkerAt : Becomes(w, place)
  BY DEF WorkerStep, Claim, Ask, Checkpoint, Submit, Finish, Fail, Ends, Die, WorkerAt
<1>3. \/ UNCHANGED pipe
      \/ \E kind, with : Send(w, kind, with)
  BY DEF WorkerStep, Claim, Ask, Checkpoint, Submit, Finish, Fail, Ends, Die
<1>4. OldEvents(t) /\ CalmSched(t) /\ task'[t] = task[t] /\ live'[t] = live[t]
  BY <1>1, CalmWhenStill DEF OldEvents, rows
<1>5. CASE t # u
  <2>1. ASSUME NEW r \in Slots
        PROVE  worker'[<< t, r >>] = worker[<< t, r >>] /\ pipe'[<< t, r >>] = pipe[<< t, r >>]
    <3>1. << t, r >> # w /\ << t, r >> \in Workers
      BY <1>0, <1>5, WorkerParts
    <3> QED
      BY <3>1, <1>2, <1>3, <1>a DEF Becomes, Send
  <2> QED
    BY <2>1, <1>4, NotConcerned DEF Same
<1>6. CASE t = u
  <2>1. worker[<< t, s >>].at \in Alive
    BY <1>0, <1>1, <1>6
  <2>2. /\ Sole(t, s) /\ ~ Chosen(t)
        /\ \A r \in Slots : r # s => worker[<< t, r >>].at \notin Alive
    BY <2>1, AloneAt
  <2>3. ~ Chosen(t)'
    BY <2>2, <1>4 DEF CalmSched
  <2>4. ASSUME NEW r \in Slots, r # s
        PROVE  worker'[<< t, r >>] = worker[<< t, r >>] /\ pipe'[<< t, r >>] = pipe[<< t, r >>]
    <3>1. << t, r >> # w
      BY <1>0, <2>4
    <3> QED
      BY <3>1, <1>2, <1>3, <1>a DEF Becomes, Send
  <2>5. ASSUME worker'[w].at \in Alive PROVE Sole(t, s)'
    <3>1. \/ UNCHANGED pipe
          \/ \E p : Send(w, "claim", p)
          \/ \E wait : Send(w, "ask", wait)
      BY <2>5, <1>a DEF WorkerStep, Claim, Ask, Checkpoint, Submit, Finish, Fail, Ends, Die,
         Becomes, Alive, WorkerType
    <3>2. worker[w].at = "working" /\ worker'[w].at # "aborted"
      BY <2>5, <1>a DEF WorkerStep, Claim, Ask, Checkpoint, Submit, Finish, Fail, Ends, Die,
         Becomes, Alive, WorkerType
    <3>3. \A i \in DOMAIN pipe'[w] : pipe'[w][i].kind \notin EndKinds
      <4>1. \A i \in DOMAIN pipe[w] : pipe[w][i].kind \notin EndKinds
        BY <2>2, <1>0, <1>6 DEF Sole
      <4>2. ASSUME NEW kind \in {"claim", "ask"}, NEW with, Send(w, kind, with)
            PROVE  \A i \in DOMAIN pipe'[w] : pipe'[w][i].kind \notin EndKinds
        <5> DEFINE m == Message(w, kind, with)
        <5>1. m.kind = kind
          BY DEF Message
        <5>2. pipe[w] \in Seq(Messages \cup {m}) /\ m \in Messages \cup {m}
          BY <1>a
        <5>3. pipe'[w] = Append(pipe[w], m)
          BY <4>2, <1>a DEF Send
        <5> HIDE DEF m
        <5>4. \A i \in DOMAIN pipe'[w] : pipe'[w][i] = m \/ (i \in DOMAIN pipe[w] /\ pipe'[w][i] = pipe[w][i])
          BY <5>2, <5>3, AppendKeeps
        <5> QED
          BY <5>1, <5>4, <4>1 DEF EndKinds
      <4> QED
        BY <3>1, <4>1, <4>2
    <3> QED
      BY <3>2, <3>3, <2>2, <2>4, <1>0, <1>1, <1>4, <1>6 DEF Sole, Unused
  <2>6. ASSUME NEW r \in Slots, worker'[<< t, r >>].at \in Alive PROVE Sole(t, r)'
    BY <2>2, <2>4, <2>5, <2>6, <1>0, <1>6
  <2> QED
    BY <2>3, <2>6 DEF SoleAt
<1> QED
  BY <1>5, <1>6

\* The pool reads a pipe, sees an exit or a missed heartbeat.
LEMMA PoolSole ==
    ASSUME TypeInv, NEW w \in Workers, Read(w) \/ ExitSeen(w) \/ HealthTimeout(w),
           NEW t \in Tasks, SoleAt(t)
    PROVE  SoleAt(t)'
<1>0. PICK u \in Tasks, s \in Slots : w = << u, s >> /\ w[1] = u /\ w[2] = s
  BY WorkerParts
<1>a. /\ worker \in [Workers -> WorkerType] /\ pipe \in [Workers -> Seq(Messages)]
      /\ \A r \in Slots : << t, r >> \in Workers
      /\ live \in [Tasks -> Slots \cup {0}] /\ PipeTyped
  BY TypeParts, WorkerParts DEF ProcessesTyped, PipeTyped, PoolTyped
<1>1. UNCHANGED << task, sched >>
  BY DEF Read, ExitSeen, HealthTimeout, rows
<1>2. CalmSched(t) /\ task'[t] = task[t]
  BY <1>1, CalmWhenStill
<1>3. \/ UNCHANGED events
      \/ \E m \in Messages : Report(m) /\ m.task = u
                             /\ (Read(w) => m = Head(pipe[w]))
  <2>1. CASE Read(w)
    BY <2>1, <1>a, <1>0, ReadTyped DEF Read, From
  <2>2. CASE ExitSeen(w) \/ HealthTimeout(w)
    <3>1. \A b \in BOOLEAN : Message(w, "error", b) \in Messages /\ Message(w, "error", b).task = u
      BY <1>0, MessageTyped DEF EndKinds, From
    <3>2. \/ UNCHANGED events
          \/ \E b \in BOOLEAN : Report(Message(w, "error", b))
      BY <2>2 DEF ExitSeen, HealthTimeout
    <3>3. CASE Read(w)
      BY <2>1, <3>3
    <3>4. CASE ~ Read(w)
      BY <3>1, <3>2, <3>4
    <3> QED
      BY <3>3, <3>4
  <2> QED
    BY <2>1, <2>2
<1>4. CASE t # u
  <2>1. OldEvents(t)
    BY <1>3, <1>4, ReportedOld DEF OldEvents
  <2>2. ASSUME NEW r \in Slots
        PROVE  worker'[<< t, r >>] = worker[<< t, r >>] /\ pipe'[<< t, r >>] = pipe[<< t, r >>]
    <3>1. << t, r >> # w /\ << t, r >> \in Workers
      BY <1>0, <1>4, WorkerParts
    <3> QED
      BY <3>1, <1>a DEF Read, ExitSeen, HealthTimeout
  <2>3. live'[t] = live[t]
    BY <1>0, <1>4, <1>a DEF Read, ExitSeen, HealthTimeout
  <2> QED
    BY <1>2, <2>1, <2>2, <2>3, NotConcerned DEF Same
<1>5. CASE t = u /\ (ExitSeen(w) \/ HealthTimeout(w))
  <2>1. worker[w] # Gone /\ worker[w].at \in Alive \cup {"ended"}
        /\ worker' = [worker EXCEPT ![w] = Gone]
    <3>1. worker[w].at \in Alive \cup {"ended"} /\ worker' = [worker EXCEPT ![w] = Gone]
      BY <1>5 DEF ExitSeen, HealthTimeout
    <3>2. Gone.at \notin Alive \cup {"ended"}
      BY DEF Gone, Alive
    <3> QED
      BY <3>1, <3>2
  <2>2. ~ Chosen(t)
    BY <2>1, <1>0, <1>5 DEF SoleAt, Quiet, Unused
  <2>3. ASSUME NEW r \in Slots, r # s PROVE worker[<< t, r >>].at \notin Alive
    BY <2>1, <2>3, <1>0, <1>5, AloneAt
  <2>4. ASSUME NEW r \in Slots PROVE worker'[<< t, r >>].at \notin Alive
    <3>1. CASE r = s
      BY <2>1, <3>1, <1>0, <1>5, <1>a, GoneTyped
    <3>2. CASE r # s
      BY <2>1, <2>3, <3>2, <1>0, <1>5, <1>a
    <3> QED
      BY <3>1, <3>2
  <2> QED
    BY <2>2, <2>4, <1>2 DEF SoleAt, CalmSched
<1>6. CASE t = u /\ Read(w)
  <2> DEFINE m == Head(pipe[w])
  <2>1. /\ UNCHANGED worker /\ pipe' = [pipe EXCEPT ![w] = Tail(pipe[w])]
        /\ pipe[w] # << >> /\ Report(m)
        /\ live' = IF m.kind \in EndKinds THEN [live EXCEPT ![w[1]] = 0] ELSE live
    BY <1>6 DEF Read, EndKinds
  <2>2. /\ m \in Messages /\ m = pipe[w][1] /\ 1 \in DOMAIN pipe[w]
        /\ \A i \in DOMAIN Tail(pipe[w]) : /\ i + 1 \in DOMAIN pipe[w]
                                           /\ Tail(pipe[w])[i] = pipe[w][i + 1]
    BY <2>1, <1>a, TailKeeps
  <2>3. \A i \in DOMAIN events' : \/ i \in DOMAIN events /\ events'[i] = events[i]
                                  \/ events'[i] = m
    BY <2>1, <2>2, ReportedOld
  <2> HIDE DEF m
  <2>4. ~ Chosen(t)
    BY <2>1, <1>0, <1>6 DEF SoleAt, Quiet, Unused
  <2>5. ASSUME NEW r \in Slots, worker'[<< t, r >>].at \in Alive PROVE Sole(t, r)'
    <3>1. worker[<< t, r >>].at \in Alive
      BY <2>1, <2>5
    <3>2. Sole(t, r) /\ r = s
      BY <3>1, <2>1, <1>0, <1>6, AloneAt
    <3>3. m.kind \notin EndKinds
      BY <3>2, <2>2, <1>0, <1>6 DEF Sole
    <3>4. live' = live /\ pipe'[w] = Tail(pipe[w])
      BY <2>1, <3>3, <1>a
    <3>5. \A i \in DOMAIN pipe'[w] : pipe'[w][i].kind \notin EndKinds
      BY <3>2, <3>4, <2>2, <1>0, <1>6 DEF Sole
    <3>6. \A q \in Slots : q # s => pipe'[<< t, q >>] = pipe[<< t, q >>]
      BY <2>1, <1>0, <1>6, <1>a
    <3> QED
      BY <3>2, <3>3, <3>4, <3>5, <3>6, <2>1, <2>3, <1>0, <1>1, <1>6 DEF Sole, Unused
  <2> QED
    BY <2>4, <2>5, <1>2 DEF SoleAt, CalmSched
<1> QED
  BY <1>4, <1>5, <1>6

\* The user answers or cancels, a backoff ends.
LEMMA UserSole ==
    ASSUME TypeInv, NEW t \in Tasks, SoleAt(t),
           \/ \E u \in Tasks : AnswerRequest(u) \/ Backoff(u)
           \/ CancelFeature
    PROVE  SoleAt(t)'
<1>a. /\ worker \in [Workers -> WorkerType] /\ task \in [Tasks -> TaskType]
      /\ \A u \in Tasks, r \in Slots : << u, r >> \in Workers
      /\ live \in [Tasks -> Slots \cup {0}] /\ run \in [Tasks -> RunType]
  BY TypeParts, WorkerParts DEF ProcessesTyped, PoolTyped, RowsTyped
<1>1. UNCHANGED << pipe, events, sched >>
  BY DEF AnswerRequest, Backoff, CancelFeature, processes
<1>2. OldEvents(t) /\ CalmSched(t)
  BY <1>1, CalmWhenStill DEF OldEvents
<1>3. ASSUME NEW u \in Tasks, AnswerRequest(u) PROVE SoleAt(t)'
  <2>1. UNCHANGED << task, live >> /\ live[u] \in Slots
    BY <1>3, <1>a DEF AnswerRequest
  <2>s. PICK s \in Slots : s = live[u]
    BY <2>1
  <2>2. \/ UNCHANGED worker
        \/ /\ worker[<< u, s >>].at = "waiting"
           /\ worker' = [worker EXCEPT ![<< u, s >>] = [@ EXCEPT !.at = "working"]]
    BY <1>3, <2>s DEF AnswerRequest, Becomes
  <2>3. CASE UNCHANGED worker
    BY <1>1, <1>2, <2>1, <2>3, NotConcerned DEF Same
  <2>4. CASE t # u
    <3>1. \A r \in Slots : worker'[<< t, r >>] = worker[<< t, r >>]
      BY <1>a, <2>2, <2>4
    <3> QED
      BY <1>1, <1>2, <2>1, <3>1, NotConcerned DEF Same
  <2>5. CASE t = u /\ worker[<< t, s >>].at = "waiting"
             /\ worker' = [worker EXCEPT ![<< t, s >>] = [@ EXCEPT !.at = "working"]]
    <3>1. worker[<< t, s >>].at \in Alive
      BY <2>5 DEF Alive, WorkerAt
    <3>3. /\ Sole(t, s) /\ ~ Chosen(t)
          /\ \A r \in Slots : r # s => worker[<< t, r >>].at \notin Alive
      BY <3>1, AloneAt
    <3>4. \A r \in Slots : r # s => worker'[<< t, r >>] = worker[<< t, r >>]
      BY <1>a, <2>5
    <3>5. worker'[<< t, s >>].at = "working"
      BY <1>a, <2>5 DEF WorkerType
    <3>6. Sole(t, s)'
      BY <3>3, <3>4, <3>5, <1>1, <2>1, <2>5 DEF Sole, Unused
    <3>7. ~ Chosen(t)'
      BY <3>3, <1>2 DEF CalmSched
    <3> QED
      BY <3>3, <3>4, <3>6, <3>7 DEF SoleAt
  <2> QED
    BY <2>2, <2>3, <2>4, <2>5
<1>4. ASSUME NEW u \in Tasks, Backoff(u) PROVE SoleAt(t)'
  BY <1>1, <1>2, <1>4, NotConcerned DEF Same, Backoff, processes
<1>5. ASSUME CancelFeature PROVE SoleAt(t)'
  <2> DEFINE aborted == {u \in Tasks : run[u].status = "running" /\ live[u] # 0}
  <2>1. /\ task'[t] = task[t] \/ task'[t].status = "cancelled"
        /\ task[t].status # "done" => task'[t].status = "cancelled"
    BY <1>5, <1>a DEF CancelFeature, TaskType
  <2>2. live'[t] = IF t \in aborted THEN 0 ELSE live[t]
    BY <1>5 DEF CancelFeature
  <2>3. ASSUME NEW r \in Slots
        PROVE  worker'[<< t, r >>] = IF /\ t \in aborted /\ live[t] = r
                                        /\ worker[<< t, r >>].at \in Alive
                                        THEN [worker[<< t, r >>] EXCEPT !.at = "aborted"]
                                        ELSE worker[<< t, r >>]
    <3>1. << t, r >> \in Workers /\ << t, r >>[1] = t /\ << t, r >>[2] = r
      BY WorkerParts
    <3> QED
      BY <1>5, <3>1 DEF CancelFeature
  <2> HIDE DEF aborted
  <2>4. ASSUME NEW r \in Slots
        PROVE  /\ Unused(<< t, r >>) => Unused(<< t, r >>)'
               /\ worker'[<< t, r >>].at \in Alive => worker[<< t, r >>].at \in Alive
    BY <2>3, <1>1, GoneTyped DEF Unused
  <2>5. ASSUME NEW r \in Slots, worker'[<< t, r >>].at \in Alive PROVE Sole(t, r)'
    <3>1. Sole(t, r)
      BY <2>4, <2>5 DEF SoleAt
    <3>2. task'[t].status = "cancelled"
      BY <3>1, <2>1 DEF Sole
    <3>3. worker'[<< t, r >>].at # "aborted" =>
             worker[<< t, r >>].at # "aborted" /\ live'[t] = live[t]
      <4>1. worker[<< t, r >>] \in WorkerType /\ worker[<< t, r >>].at \in Alive
        BY <1>a, <2>4, <2>5
      <4> QED
        BY <4>1, <2>2, <2>3, <3>1 DEF Sole, WorkerType
    <3> QED
      BY <3>1, <3>2, <3>3, <2>4, <1>1 DEF Sole
  <2>6. ASSUME Chosen(t)' PROVE Quiet(t)'
    <3>1. Quiet(t)
      BY <2>6, <1>2 DEF CalmSched, SoleAt
    <3> QED
      BY <3>1, <2>1, <2>4, <1>1 DEF Quiet
  <2> QED
    BY <2>5, <2>6 DEF SoleAt
<1> QED
  BY <1>3, <1>4, <1>5

\* A step of the loop that leaves the processes alone keeps a task's status.
LEMMA StatusKept ==
    ASSUME TypeInv, NEW t \in Tasks, SoleAt(t), LoopOnly,
           OldEvents(t), CalmSched(t), ~ Chosen(t)' \/ task'[t] = task[t],
           task'[t].status = task[t].status
    PROVE  SoleAt(t)'
BY DEF LoopOnly, processes, SoleAt, Sole, OldEvents, CalmSched, Unused, Quiet

\* A claim's answer wakes the worker that waits for it.
LEMMA ClaimSole ==
    ASSUME TypeInv, NEW t \in Tasks, SoleAt(t), GrantClaim \/ DenyClaim
    PROVE  SoleAt(t)'
<1>a. /\ worker \in [Workers -> WorkerType] /\ task \in [Tasks -> TaskType]
      /\ \A u \in Tasks, r \in Slots : << u, r >> \in Workers
      /\ live \in [Tasks -> Slots \cup {0}]
  BY TypeParts, WorkerParts DEF ProcessesTyped, PoolTyped, RowsTyped
<1>b. Handling({"claim"}) /\ (Answered(TRUE) \/ Answered(FALSE))
  BY DEF GrantClaim, DenyClaim
<1>1. UNCHANGED << pipe, live >>
  BY DEF GrantClaim, DenyClaim
<1>2. UNCHANGED sched \/ EndTick
  BY DEF GrantClaim, DenyClaim
<1>3. OldEvents(t) /\ sched.at = "draining" /\ msg.task \in Tasks /\ msg.slot \in Slots
  BY <1>b, HandledOld, HandlingTyped
<1>4. sched'.at \notin Settling \cup Dispatching
  BY <1>2, <1>3, AsleepTyped DEF EndTick, Settling, Dispatching
<1>5. ~ Chosen(t)'
  BY <1>4 DEF Chosen, At, Settling, Dispatching
<1>6. task'[t].status = task[t].status
  <2> DEFINE u == Later(msg.task, byPath[msg.with])
  <2>1. UNCHANGED task \/ Transition(u, Suspended(u))
    BY DEF GrantClaim, DenyClaim, Kept
  <2> HIDE DEF u
  <2> QED
    BY <2>1, <1>a DEF Transition, Suspended, TaskType
<1>7. ASSUME NEW r \in Slots
      PROVE  \/ worker'[<< t, r >>] = worker[<< t, r >>]
             \/ worker[<< t, r >>].at = "claiming" /\ worker'[<< t, r >>].at = "working"
  <2> DEFINE v == << msg.task, live[msg.task] >>
  <2>1. \/ worker' = worker
        \/ /\ worker[v].at = "claiming"
           /\ \E h : worker' = [worker EXCEPT ![v] = [at |-> "working", held |-> h]]
    BY <1>b DEF Answered
  <2> HIDE DEF v
  <2> QED
    BY <2>1, <1>a
<1>8. ASSUME NEW r \in Slots
      PROVE  /\ Unused(<< t, r >>) => Unused(<< t, r >>)'
             /\ worker'[<< t, r >>].at \in Alive => worker[<< t, r >>].at \in Alive
             /\ worker'[<< t, r >>].at = "aborted" <=> worker[<< t, r >>].at = "aborted"
  BY <1>7, <1>1 DEF Unused, Gone, Alive, WorkerAt
<1>9. ASSUME NEW r \in Slots, worker'[<< t, r >>].at \in Alive PROVE Sole(t, r)'
  <2>1. Sole(t, r)
    BY <1>8, <1>9 DEF SoleAt
  <2> QED
    BY <2>1, <1>1, <1>3, <1>4, <1>6, <1>8 DEF Sole, OldEvents
<1> QED
  BY <1>5, <1>9 DEF SoleAt

\* Without a process, and not chosen, nothing is asked of a task.
LEMMA NobodyThere ==
    ASSUME NEW t \in Tasks, LoopOnly, ~ Chosen(t)',
           \A s \in Slots : worker[<< t, s >>].at \notin Alive
    PROVE  SoleAt(t)'
BY DEF LoopOnly, processes, SoleAt

\* The loop's other steps: what it does to the task in hand it does when no
\* process of the task works; the others it leaves as they are.
LEMMA LoopSole ==
    ASSUME TypeInv, SoleInv, LoopStep \/ GitThrows,
           ~ GrantClaim, ~ DenyClaim, ~ \E w \in Workers : Launch(w),
           NEW t \in Tasks
    PROVE  SoleAt(t)'
<1>0. /\ sched \in SchedType /\ task \in [Tasks -> TaskType] /\ SoleAt(t)
      /\ live \in [Tasks -> Slots \cup {0}]
      /\ sched.at \in TaskInHand => sched.task \in Tasks
  BY TypeParts DEF SchedTyped, RowsTyped, PoolTyped, SoleInv
<1>1. LoopOnly
  BY DEF LoopStep, HandleMessage, BeginTick, DropMessage, HandleAsk, HandleImplicit,
     HandleSubmitted, HandleError, SquashMerges, SquashRetries, CatchesUp,
     SquashExhausts, CompleteRun, DecideRetry, AwaitRetry, RebaseSuspended,
     DispatchTask, RebaseBlocked, RebaseDone, Coordinate, Persist, GitThrows
<1>2. ASSUME EndTick \/ NextEvent \/ Goto("completing") PROVE sched'.at \notin Settling \cup Dispatching
  <2>1. sched'.at \in {"sleeping", "draining", "completing"}
    BY <1>2, <1>0, AsleepTyped, NextEventTyped, GotoTyped DEF EndTick, SchedAt
  <2> QED
    BY <2>1 DEF Settling, Dispatching
<1>3. ASSUME sched'.at \notin Dispatching PROVE ~ Chosen(t)'
  BY <1>3 DEF Chosen, At, Dispatching
<1>4. UNCHANGED events => OldEvents(t)
  BY DEF OldEvents
<1>5. CASE /\ task'[t] = task[t] /\ OldEvents(t)
           /\ sched'.at \notin Settling \cup Dispatching
  BY <1>0, <1>1, <1>3, <1>5, StatusKept, CalmWhenStill
<1>6. CASE DropMessage \/ HandleAsk
  <2>1. task' = task /\ sched' = sched /\ \E kinds : Handling(kinds)
    BY <1>6 DEF DropMessage, HandleAsk, Kept
  <2> QED
    BY <1>0, <1>1, <2>1, HandledOld, StatusKept, CalmWhenStill
<1>7. CASE BeginTick \/ CompleteRun \/ AwaitRetry \/ GitThrows \/ RebaseBlocked
             \/ (\E o \in Tasks : RebaseSuspended(o))
  <2>1. UNCHANGED << task, events >>
    BY <1>7 DEF BeginTick, CompleteRun, AwaitRetry, GitThrows, RebaseBlocked,
       RebaseSuspended, Kept
  <2>2. EndTick \/ NextEvent \/ Goto("completing") \/ sched'.at = "rebasing"
    BY <1>7, <1>0 DEF BeginTick, CompleteRun, AwaitRetry, GitThrows, RebaseBlocked,
       RebaseSuspended, SchedType
  <2> QED
    BY <1>2, <1>4, <1>5, <2>1, <2>2 DEF Settling, Dispatching
<1>8. CASE HandleImplicit \/ HandleSubmitted \/ HandleError
  <2>1. PICK kinds \in SUBSET EndKinds : Handling(kinds)
    BY <1>8 DEF HandleImplicit, HandleSubmitted, HandleError, EndKinds
  <2>2. /\ OldEvents(t) /\ msg = events[1] /\ 1 \in DOMAIN events
        /\ sched.at = "draining" /\ msg.kind \in EndKinds /\ msg.task \in Tasks
    BY <2>1, HandledOld, HandlingTyped
  <2>3. \/ EndTick
        \/ sched'.at \in {"completing", "squashing", "logging"} /\ sched'.task = msg.task
    BY <1>8, <1>0 DEF HandleImplicit, HandleSubmitted, HandleError, SchedType
  <2>4. ~ Chosen(t)'
    BY <2>3, <1>2, <1>3 DEF Dispatching
  <2>5. t # msg.task => task'[t] = task[t]
    BY <1>8, <1>0 DEF HandleImplicit, HandleSubmitted, HandleError, Kept, Transition
  <2> HIDE DEF msg
  <2>6. CASE t = msg.task
    <3>1. \A s \in Slots : worker[<< t, s >>].at \notin Alive
      BY <2>2, <2>6, <1>0 DEF SoleAt, Sole
    <3> QED
      BY <1>1, <2>4, <3>1, NobodyThere
  <2>7. CASE t # msg.task
    <3>1. CalmSched(t)
      BY <2>3, <2>4, <2>7, <1>2 DEF CalmSched
    <3> QED
      BY <1>0, <1>1, <2>2, <2>4, <2>5, <2>7, <3>1, StatusKept
  <2> QED
    BY <2>6, <2>7
<1>9. CASE SquashMerges \/ SquashRetries \/ CatchesUp \/ SquashExhausts \/ DecideRetry
  <2> DEFINE u == sched.task
  <2>1. sched.at \in Settling \ {"preparing"} /\ u \in Tasks /\ UNCHANGED events
    BY <1>9, <1>0 DEF SquashMerges, SquashRetries, CatchesUp, SquashExhausts, DecideRetry,
       At, Settling, TaskInHand
  <2>2. t # u => task'[t] = task[t]
    BY <1>9, <1>0 DEF SquashMerges, SquashRetries, CatchesUp, SquashExhausts, DecideRetry,
       Kept, Transition
  <2>3. \/ EndTick \/ NextEvent
        \/ sched'.at \in {"completing", "catchingup", "squashing", "retrying"} /\ sched'.task = u
    <3>1. CASE SquashMerges \/ SquashRetries \/ SquashExhausts
      BY <3>1, <1>0 DEF SquashMerges, SquashRetries, SquashExhausts, SchedType
    <3>2. CASE CatchesUp \/ DecideRetry
      <4>1. {"squashing", "retrying"} \subseteq SchedAt
        BY DEF SchedAt, Awaits
      <4>2. EndTick \/ NextEvent \/ Goto("squashing") \/ Goto("retrying")
        BY <3>2 DEF CatchesUp, DecideRetry
      <4> QED
        BY <4>1, <4>2, <1>0, GotoTyped
    <3> QED
      BY <1>9, <3>1, <3>2
  <2>4. ~ Chosen(t)'
    BY <2>3, <1>2, <1>3 DEF Dispatching
  <2>5. CASE t = u
    <3>1. \A s \in Slots : worker[<< t, s >>].at \notin Alive
      BY <2>1, <2>5, <1>0 DEF SoleAt, Sole
    <3> QED
      BY <1>1, <2>4, <3>1, NobodyThere
  <2>6. CASE t # u
    <3>1. CalmSched(t)
      BY <2>3, <2>4, <2>6, <1>2 DEF CalmSched
    <3> QED
      BY <1>0, <1>1, <1>4, <2>1, <2>2, <2>4, <2>6, <3>1, StatusKept
  <2> QED
    BY <2>5, <2>6
<1>10. CASE \E clean \in BOOLEAN : RebaseDone(clean)
  <2> DEFINE o == sched.other
  <2>1. o \in Tasks /\ UNCHANGED events
    BY <1>10, TypeParts DEF RebaseDone, SchedTyped, At
  <2>2. \/ UNCHANGED task /\ EndTick
        \/ /\ Allowed(o, Reopened(o)) /\ Goto("completing")
           /\ \E new \in {Reopened(o), [task[o] EXCEPT !.collab = "conflict"]} :
                 /\ Transition(o, new)
                 /\ live[o] = 0 => new = Reopened(o)
    BY <1>10 DEF RebaseDone
  <2>3. sched'.at \notin Settling \cup Dispatching
    BY <2>2, <1>2
  <2> HIDE DEF o
  <2>4. CASE task'[t].status = task[t].status
    BY <2>1, <2>3, <2>4, <1>0, <1>1, <1>3, <1>4, StatusKept, CalmWhenStill
  <2>5. CASE t # o \/ live[o] # 0
    <3>1. task'[t].status = task[t].status
      <4>1. task[t] \in TaskType
        BY <1>0
      <4> QED
        BY <2>2, <2>5, <1>0, <4>1 DEF Transition, Reopened, TaskType
    <3> QED
      BY <2>4, <3>1
  <2>6. CASE t = o /\ live[t] = 0 /\ task' # task
    <3>1. Allowed(t, [status |-> "ready", collab |-> "branch_open"])
      BY <2>2, <2>6 DEF Reopened
    <3>2. ASSUME NEW s \in Slots, worker[<< t, s >>].at \in Alive
          PROVE  FALSE
      <4>1. Sole(t, s)
        BY <1>0, <3>2 DEF SoleAt
      <4>2. task[t].status = "cancelled"
        BY <4>1, <2>6, SlotsAreNumbers DEF Sole
      <4> QED
        BY <4>2, <3>1 DEF Allowed, ValidTaskTransition, ValidTaskStatus, TaskStatusEdge
    <3> QED
      BY <1>1, <1>3, <2>3, <3>2, NobodyThere
  <2> QED
    BY <2>4, <2>5, <2>6
<1>11. CASE \E u \in Tasks : DispatchTask(u)
  <2>1. PICK u \in Tasks : DispatchTask(u)
    BY <1>11
  <2>2. /\ UNCHANGED << task, events >> /\ sched.at = "dispatching" /\ u \in sched.todo
        /\ sched'.at = "preparing" /\ sched'.task = u /\ sched'.todo = sched.todo \ {u}
    BY <2>1, <1>0 DEF DispatchTask, At, SchedType
  <2>3. Chosen(t)' => Chosen(t)
    BY <2>2 DEF Chosen, At, Dispatching
  <2>4. CASE t = u
    <3>1. Quiet(t)
      BY <1>0, <2>2, <2>4 DEF SoleAt, Chosen, Dispatching
    <3>2. \A s \in Slots : worker'[<< t, s >>].at \notin Alive
      BY <1>1, <3>1, GoneTyped DEF Quiet, Unused, LoopOnly, processes
    <3>3. Quiet(t)'
      BY <1>1, <2>2, <3>1 DEF Quiet, Unused, LoopOnly, processes
    <3> QED
      BY <3>2, <3>3 DEF SoleAt
  <2>5. CASE t # u
    BY <1>0, <1>1, <1>4, <2>2, <2>3, <2>5, StatusKept DEF CalmSched
  <2> QED
    BY <2>4, <2>5
<1>12. CASE Persist
  <2>1. /\ UNCHANGED << task, events >> /\ At("persisting")
        /\ \/ EndTick
           \/ sched'.at = "dispatching" /\ sched'.todo = sched.todo
    BY <1>12, <1>0 DEF Persist, SchedType
  <2>2. Chosen(t)' => Chosen(t)
    BY <2>1, <1>2, <1>3 DEF Chosen, At, Dispatching
  <2>3. sched'.at \notin Settling
    BY <2>1, <1>2 DEF Settling
  <2> QED
    BY <1>0, <1>1, <1>4, <2>1, <2>2, <2>3, StatusKept DEF CalmSched
<1>13. CASE Coordinate
  <2>1. /\ events = << >> /\ UNCHANGED events
        /\ sched.at = "draining"
        /\ task'[t] = IF t \in Overlapping THEN Suspended(t) ELSE task[t]
    BY <1>13 DEF Coordinate, At
  <2>2. \/ EndTick
        \/ sched'.at = "dispatching" /\ sched'.todo = Dispatchable
    <3> DEFINE d == Dispatchable
               n == IdleWorkers
    <3>1. \/ EndTick
          \/ sched' = [sched EXCEPT !.at = "dispatching", !.todo = d, !.idle = n]
      BY <1>13 DEF Coordinate, EndTick
    <3> HIDE DEF d, n
    <3> QED
      BY <3>1, <1>0 DEF SchedType, d
  <2>3. sched'.at \notin Settling
    BY <2>2, <1>2 DEF Settling
  <2>4. task'[t].status = task[t].status
        /\ (task[t].status # "running" => task'[t] = task[t])
    BY <2>1, <1>0 DEF Overlapping, Running, Suspended, TaskType
  <2>5. CASE Chosen(t)'
    <3>1. t \in Dispatchable
      BY <2>2, <2>5, <1>2, <1>3 DEF Chosen, At, Dispatching
    <3>2. /\ task[t].status = "ready" /\ Settled(t)
          /\ task[t].collab \in {"none", "branch_open"}
      <4>1. /\ task[t].status = "ready" /\ Settled(t)
            /\ task[t].collab \in TaskCollab \ {"suspended", "conflict"}
        BY <3>1, <1>0 DEF Dispatchable, TaskType
      <4> QED
        BY <4>1 DEF SoleInv, MergedIsDone, TaskCollab
    <3>3. \A s \in Slots : worker[<< t, s >>].at \notin Alive
      BY <3>2, <1>0 DEF SoleAt, Sole
    <3>4. \A s \in Slots : Unused(<< t, s >>)
      BY <3>2, <3>3 DEF Settled
    <3>5. Quiet(t)'
      BY <3>2, <3>4, <2>1, <2>4, <1>1 DEF Quiet, Unused, LoopOnly, processes
    <3> QED
      BY <3>3, <3>5, <1>1 DEF SoleAt, LoopOnly, processes
  <2>6. CASE ~ Chosen(t)'
    BY <1>0, <1>1, <1>4, <2>1, <2>3, <2>4, <2>6, StatusKept DEF CalmSched
  <2> QED
    BY <2>5, <2>6
<1> QED
  BY <1>6, <1>7, <1>8, <1>9, <1>10, <1>11, <1>12, <1>13 DEF LoopStep, HandleMessage

\* A chosen task gets one process, and becomes running unless cancelled.
LEMMA LaunchSole ==
    ASSUME TypeInv, SoleInv, NEW w \in Workers, Launch(w), NEW t \in Tasks
    PROVE  SoleAt(t)'
<1>0. PICK u \in Tasks, s \in Slots : w = << u, s >> /\ w[1] = u /\ w[2] = s
  BY WorkerParts
<1>a. /\ worker \in [Workers -> WorkerType] /\ pipe \in [Workers -> Seq(Messages)]
      /\ \A r \in Slots : << t, r >> \in Workers
      /\ task \in [Tasks -> TaskType] /\ sched \in SchedType
      /\ live \in [Tasks -> Slots \cup {0}] /\ saved \in [Tasks -> Saved] /\ SoleAt(t)
  BY TypeParts, WorkerParts DEF ProcessesTyped, PipeTyped, PoolTyped, RowsTyped,
     SchedTyped, SoleInv
<1>b. sched.at = "preparing" /\ sched.task = u /\ UNCHANGED events
  BY <1>0 DEF Launch, At
<1>c. \/ sched'.at = "persisting" /\ sched'.todo = sched.todo
      \/ EndTick
  BY <1>0, <1>a, GotoTyped DEF Launch, SchedAt
<1>1. sched'.at \notin Settling
  BY <1>c, AsleepTyped DEF EndTick, Settling
<1>2. Chosen(t)' => t \in sched.todo
  BY <1>c, AsleepTyped DEF EndTick, Chosen, At, Dispatching
<1>3. /\ \E place \in Alive \ {"aborted"} :
            worker' = [worker EXCEPT ![w] = [at |-> place, held |-> {}]]
      /\ live' = [live EXCEPT ![u] = s]
      /\ UNCHANGED pipe \/ (\E kind \in {"again"} : \E with : Send(w, kind, with))
  <2>1. PICK from \in Saved \ {"none"} :
           /\ worker' = [worker EXCEPT ![w] =
                            [at |-> IF from \in Waits THEN "waiting" ELSE from, held |-> {}]]
           /\ IF from \in Waits THEN Send(w, "again", from) ELSE UNCHANGED pipe
    BY <1>0, <1>a DEF Launch, Starts, Resumable, Saved
  <2>2. (IF from \in Waits THEN "waiting" ELSE from) \in Alive \ {"aborted"}
    BY DEF Saved, Waits, Alive, WorkerAt
  <2> QED
    BY <1>0, <2>1, <2>2 DEF Launch, Starts
<1>4. IF Allowed(u, Opened) THEN Transition(u, Opened) ELSE UNCHANGED task
  BY <1>0 DEF Launch
<1>5. CASE t # u
  <2>1. \A r \in Slots : << t, r >> # w
    BY <1>0, <1>5
  <2>2. Same(t)
    BY <1>3, <1>4, <1>5, <1>a, <2>1 DEF Same, Send, Transition
  <2>3. CalmSched(t)
    BY <1>1, <1>2, <1>b DEF CalmSched, Chosen, Dispatching
  <2> QED
    BY <1>a, <1>b, <2>2, <2>3, NotConcerned DEF OldEvents
<1>6. CASE t = u
  <2>1. Quiet(t)
    BY <1>6, <1>a, <1>b DEF SoleAt, Chosen, At
  <2>2. ~ Chosen(t)'
    BY <1>2, <1>6, <1>b DEF SoleInv
  <2>3. \A r \in Slots : r # s =>
           worker'[<< t, r >>] = worker[<< t, r >>] /\ pipe'[<< t, r >>] = pipe[<< t, r >>]
    BY <1>0, <1>3, <1>a DEF Send
  <2>4. \A r \in Slots : r # s => Unused(<< t, r >>)'
    BY <2>1, <2>3 DEF Quiet, Unused
  <2>5. worker'[<< t, s >>].at # "aborted"
    BY <1>0, <1>3, <1>6, <1>a
  <2>6. live'[t] = s
    BY <1>3, <1>6, <1>a
  <2>7. task'[t].status \in {"running", "cancelled"}
    <3>1. CASE task[t].status = "cancelled"
      <4>1. ~ Allowed(t, Opened)
        BY <3>1 DEF Allowed, Opened, ValidTaskTransition, ValidTaskStatus, TaskStatusEdge
      <4> QED
        BY <3>1, <4>1, <1>4, <1>6
    <3>2. CASE task[t].status = "ready" /\ task[t].collab \in {"none", "branch_open"}
      <4>1. Allowed(t, Opened)
        BY <3>2 DEF Allowed, Opened, ValidTaskTransition, ValidTaskStatus,
           TaskStatusEdge, ValidTaskCollab, TaskCollabEdge
      <4> QED
        BY <4>1, <1>4, <1>6, <1>a DEF Transition, Opened
    <3> QED
      BY <2>1, <3>1, <3>2 DEF Quiet
  <2>8. \A i \in DOMAIN pipe'[<< t, s >>] : pipe'[<< t, s >>][i].kind \notin EndKinds
    <3>1. pipe[w] = << >>
      BY <2>1, <1>0, <1>6 DEF Quiet, Unused
    <3>2. ASSUME NEW with, Send(w, "again", with)
          PROVE  \A i \in DOMAIN pipe'[w] : pipe'[w][i].kind = "again"
      <4> DEFINE m == Message(w, "again", with)
      <4>1. pipe'[w] = Append(<< >>, m) /\ m.kind = "again"
        BY <3>1, <3>2, <1>a DEF Send, Message
      <4> HIDE DEF m
      <4> QED
        BY <4>1
    <3> QED
      BY <1>0, <1>3, <1>6, <3>1, <3>2 DEF EndKinds
  <2>9. Sole(t, s)'
    BY <1>1, <1>b, <2>1, <2>4, <2>5, <2>6, <2>7, <2>8 DEF Sole, Quiet
  <2>10. \A r \in Slots : r # s => worker'[<< t, r >>].at \notin Alive
    BY <2>4, GoneTyped DEF Unused
  <2> QED
    BY <2>2, <2>9, <2>10 DEF SoleAt
<1> QED
  BY <1>5, <1>6

\* What may happen to a task's row: a change the guards accept, or its
\* cancellation, or a suspension or conflict of an unmerged one.
LEMMA TaskMoves ==
    ASSUME TypeInv, TasksNext, NEW t \in Tasks
    PROVE  \/ task'[t] = task[t]
           \/ ValidTaskTransition(task[t], task'[t])
           \/ /\ task'[t].collab = task[t].collab
              /\ task[t].status # "done" /\ task'[t].status = "cancelled"
           \/ /\ task'[t].collab \in {"suspended", "conflict"}
              /\ task'[t].status = task[t].status
<1>0. task \in [Tasks -> TaskType]
  BY TypeParts DEF RowsTyped
<1>1. ASSUME NEW u, NEW new, Transition(u, new), Allowed(u, new)
      PROVE  task'[t] = task[t] \/ ValidTaskTransition(task[t], task'[t])
  BY <1>0, <1>1 DEF Transition, Allowed
<1>2. CASE CancelFeature
  BY <1>0, <1>2 DEF CancelFeature, TaskType
<1>3. ASSUME NEW w \in Workers, \/ WorkerStep(w) \/ Read(w) \/ ExitSeen(w)
                                \/ HealthTimeout(w) \/ Launch(w) \/ RecoverResumes(w)
      PROVE  task'[t] = task[t] \/ ValidTaskTransition(task[t], task'[t])
  <2>1. CASE Launch(w)
    BY <1>1, <2>1 DEF Launch
  <2>2. CASE ~ Launch(w)
    BY <1>3, <2>2 DEF WorkerStep, Claim, Ask, Checkpoint, Submit, Finish, Fail, Ends, Die,
       WorkerOnly, Read, ExitSeen, HealthTimeout, RecoverResumes, Recovering, rows
  <2> QED
    BY <2>1, <2>2
<1>4. ASSUME NEW u \in Tasks, \/ AnswerRequest(u) \/ Backoff(u) \/ RebaseSuspended(u)
                              \/ DispatchTask(u) \/ RecoverRequeues(u) \/ RecoverKeeps(u)
      PROVE  task' = task
  BY <1>4 DEF AnswerRequest, Backoff, RebaseSuspended, DispatchTask, RecoverRequeues,
     RecoverKeeps, Recovering, Kept
<1>5. CASE \/ BeginTick \/ GrantClaim \/ DropMessage \/ HandleAsk \/ HandleSubmitted
           \/ HandleError \/ SquashRetries \/ CatchesUp \/ CompleteRun \/ AwaitRetry
           \/ RebaseBlocked \/ Persist \/ GitThrows \/ Crash
  BY <1>5 DEF BeginTick, GrantClaim, DropMessage, HandleAsk, HandleSubmitted, HandleError,
     SquashRetries, CatchesUp, CompleteRun, AwaitRetry, RebaseBlocked, Persist, GitThrows,
     Crash, Kept, rows
<1>6. CASE DenyClaim \/ HandleImplicit \/ SquashMerges \/ SquashExhausts \/ DecideRetry
  <2>1. \/ task' = task
        \/ \E u, new : Transition(u, new) /\ Allowed(u, new)
    BY <1>6 DEF DenyClaim, HandleImplicit, SquashMerges, SquashExhausts, DecideRetry, Kept
  <2> QED
    BY <2>1, <1>1
<1>7. CASE \E clean \in BOOLEAN : RebaseDone(clean)
  <2> DEFINE o == sched.other
  <2>1. \/ task' = task
        \/ \E new : Transition(o, new) /\ Allowed(o, new)
        \/ Transition(o, [task[o] EXCEPT !.collab = "conflict"])
    BY <1>7 DEF RebaseDone
  <2> HIDE DEF o
  <2>2. CASE Transition(o, [task[o] EXCEPT !.collab = "conflict"])
    BY <2>2, <1>0 DEF Transition, TaskType
  <2> QED
    BY <2>1, <2>2, <1>1
<1>8. CASE Coordinate
  BY <1>0, <1>8 DEF Coordinate, Suspended, TaskType
<1> QED
  BY <1>2, <1>3, <1>4, <1>5, <1>6, <1>7, <1>8
     DEF TasksNext, LoopStep, HandleMessage, Recover

\* A merged task stays done.
LEMMA MergedStep ==
    ASSUME TypeInv, MergedIsDone, TasksNext
    PROVE  MergedIsDone'
<1> SUFFICES ASSUME NEW t \in Tasks, task'[t].collab = "merged"
             PROVE  task'[t].status = "done"
  BY DEF MergedIsDone
<1>1. CASE ValidTaskTransition(task[t], task'[t])
  BY <1>1 DEF MergedIsDone, ValidTaskTransition, ValidTaskStatus, TaskStatusEdge,
     ValidTaskCollab
<1> QED
  BY <1>1, TaskMoves DEF MergedIsDone

\* The loop is recovering only after a crash.
LEMMA NotRecovering ==
    ASSUME TypeInv, SoleInv, TasksNext, ~ Crash
    PROVE  /\ ~ Recover
           /\ sched'.at # "recovering"
           /\ sched'.at \in {"preparing", "persisting"} => sched'.task \notin sched'.todo
<1>0. sched \in SchedType /\ sched.at # "recovering"
  BY TypeParts DEF SchedTyped, SoleInv
<1>1. ~ Recover
  BY <1>0 DEF Recover, RecoverResumes, RecoverRequeues, RecoverKeeps, Recovering, At
<1>2. ASSUME EndTick \/ NextEvent
      PROVE  sched'.at \notin {"recovering", "preparing", "persisting"}
  BY <1>2, AsleepTyped, NextEventTyped DEF EndTick
<1>3. CASE UNCHANGED sched
  BY <1>0, <1>1, <1>3 DEF SoleInv
<1>4. ASSUME NEW w \in Workers, Launch(w)
      PROVE  /\ sched'.at # "recovering"
             /\ sched'.at \in {"preparing", "persisting"} => sched'.task \notin sched'.todo
  <2>1. CASE EndTick
    BY <1>2, <2>1
  <2>2. CASE Goto("persisting")
    <3>1. sched.at = "preparing" /\ sched.task \notin sched.todo
      BY <1>4 DEF Launch, At, SoleInv
    <3> QED
      BY <1>0, <2>2, <3>1, GotoTyped DEF SchedAt
  <2> QED
    BY <1>4, <2>1, <2>2 DEF Launch
<1>5. ASSUME NEW t \in Tasks, DispatchTask(t)
      PROVE  /\ sched'.at # "recovering"
             /\ sched'.at \in {"preparing", "persisting"} => sched'.task \notin sched'.todo
  BY <1>0, <1>5 DEF DispatchTask, SchedType
<1>6. ASSUME LoopStep \/ GitThrows, ~ \E w \in Workers : Launch(w),
             ~ \E t \in Tasks : DispatchTask(t)
      PROVE  sched' = sched \/ sched'.at \notin {"recovering", "preparing", "persisting"}
  <2>1. CASE \/ BeginTick \/ CompleteRun \/ AwaitRetry \/ GitThrows \/ DecideRetry
             \/ RebaseBlocked \/ CatchesUp \/ SquashRetries \/ SquashMerges
             \/ SquashExhausts \/ (\E o \in Tasks : RebaseSuspended(o))
             \/ (\E clean \in BOOLEAN : RebaseDone(clean))
    <3>1. \/ EndTick \/ NextEvent
          \/ Goto("retrying") \/ Goto("completing") \/ Goto("squashing")
          \/ sched'.at \in {"catchingup", "completing", "rebasing"}
      BY <2>1, <1>0 DEF BeginTick, CompleteRun, AwaitRetry, GitThrows, DecideRetry,
         RebaseBlocked, CatchesUp, SquashRetries, SquashMerges, SquashExhausts,
         RebaseSuspended, RebaseDone, SchedType
    <3> QED
      BY <3>1, <1>2, <1>0, GotoTyped DEF SchedAt, Awaits
  <2>2. CASE \/ GrantClaim \/ DenyClaim \/ DropMessage \/ HandleAsk \/ HandleImplicit
             \/ HandleSubmitted \/ HandleError
    <3>1. \/ EndTick \/ UNCHANGED sched
          \/ sched'.at \in {"completing", "squashing", "logging"}
      BY <2>2, <1>0 DEF GrantClaim, DenyClaim, DropMessage, HandleAsk, HandleImplicit,
         HandleSubmitted, HandleError, SchedType
    <3> QED
      BY <3>1, <1>2
  <2>3. CASE Persist \/ Coordinate
    <3>1. EndTick \/ sched'.at = "dispatching"
      <4>1. CASE Persist
        BY <4>1, <1>0 DEF Persist, SchedType
      <4>2. CASE Coordinate
        <5> DEFINE d == Dispatchable
                   n == IdleWorkers
        <5>1. \/ EndTick
              \/ sched' = [sched EXCEPT !.at = "dispatching", !.todo = d, !.idle = n]
          BY <4>2 DEF Coordinate, EndTick
        <5> HIDE DEF d, n
        <5> QED
          BY <5>1, <1>0 DEF SchedType
      <4> QED
        BY <2>3, <4>1, <4>2
    <3> QED
      BY <3>1, <1>2
  <2> QED
    BY <1>6, <2>1, <2>2, <2>3 DEF LoopStep, HandleMessage
<1>7. ASSUME \/ \E w \in Workers : WorkerStep(w) \/ Read(w) \/ ExitSeen(w) \/ HealthTimeout(w)
             \/ \E t \in Tasks : AnswerRequest(t) \/ Backoff(t)
             \/ CancelFeature
      PROVE  UNCHANGED sched
  BY <1>7 DEF WorkerStep, Claim, Ask, Checkpoint, Submit, Finish, Fail, Ends, Die,
     WorkerOnly, Read, ExitSeen, HealthTimeout, AnswerRequest, Backoff, CancelFeature
<1> QED
  BY <1>1, <1>3, <1>4, <1>5, <1>6, <1>7 DEF TasksNext

\* Without a crash every step keeps a task to one process.
LEMMA SoleStep == TypeInv /\ SoleInv /\ [TasksNext]_vars /\ ~ Crash => SoleInv'
<1> SUFFICES ASSUME TypeInv, SoleInv, [TasksNext]_vars, ~ Crash PROVE SoleInv'
  OBVIOUS
<1>1. CASE TasksNext
  <2>1. MergedIsDone'
    BY <1>1, MergedStep DEF SoleInv
  <2>2. ASSUME NEW t \in Tasks PROVE SoleAt(t)'
    <3>1. SoleAt(t)
      BY DEF SoleInv
    <3>2. \/ \E w \in Workers : \/ WorkerStep(w) \/ Launch(w)
                                \/ Read(w) \/ ExitSeen(w) \/ HealthTimeout(w)
          \/ (\E u \in Tasks : AnswerRequest(u) \/ Backoff(u)) \/ CancelFeature
          \/ GrantClaim \/ DenyClaim
          \/ /\ LoopStep \/ GitThrows
             /\ ~ GrantClaim /\ ~ DenyClaim /\ ~ \E w \in Workers : Launch(w)
      BY <1>1, NotRecovering DEF TasksNext
    <3> QED
      BY <3>1, <3>2, WorkerSole, LaunchSole, PoolSole, UserSole, ClaimSole, LoopSole
  <2> QED
    BY <1>1, <2>1, <2>2, NotRecovering DEF SoleInv
<1>2. CASE UNCHANGED vars
  BY <1>2 DEF vars, rows, processes, SoleInv, SoleAt, Sole, Quiet, Chosen, Unused, At,
     MergedIsDone
<1> QED
  BY <1>1, <1>2

\* Before anything has run no process works.
LEMMA SoleInit == InitTasks => SoleInv
<1> SUFFICES ASSUME InitTasks PROVE SoleInv
  OBVIOUS
<1>1. sched.at = "sleeping"
  BY AsleepTyped DEF InitTasks
<1>2. \A t \in Tasks, s \in Slots : worker[<< t, s >>].at \notin Alive
  BY WorkerParts, GoneTyped DEF InitTasks
<1>3. MergedIsDone
  BY DEF InitTasks, MergedIsDone
<1> QED
  BY <1>1, <1>2, <1>3 DEF SoleInv, SoleAt, Chosen, At, Dispatching

\* In a life without a crash the invariant holds.
SoleWithoutCrash == spent.crashes = 0 => SoleInv

\* A crash is never undone, so the invariant may assume there was none.
LEMMA SoleWithoutCrashStep ==
    TypeInv /\ SoleWithoutCrash /\ [TasksNext]_vars => SoleWithoutCrash'
<1> SUFFICES ASSUME TypeInv, SoleWithoutCrash, [TasksNext]_vars, spent'.crashes = 0
             PROVE  SoleInv'
  BY DEF SoleWithoutCrash
<1>0. spent.crashes \in Nat
  BY DEF TypeInv, Bounds
<1>1. spent.crashes = 0 /\ ~ Crash
  <2>1. CASE TasksNext
    BY <1>0, <2>1, CrashesCounted
  <2>2. CASE UNCHANGED vars
    <3>1. spent' = spent
      BY <2>2 DEF vars
    <3>2. ~ Crash
      <4>1. Crash => TasksNext
        BY DEF TasksNext
      <4> QED
        BY <1>0, <3>1, <4>1, CrashesCounted
    <3> QED
      BY <3>1, <3>2
  <2> QED
    BY <2>1, <2>2
<1> QED
  BY <1>1, SoleStep DEF SoleWithoutCrash

\* In a life without a crash, while a process works on a task there is
\* nothing left of an earlier one: no process, no message, no end in hand.
THEOREM TasksSole == TasksSpec => []SoleWithoutCrash
<1>1. InitTasks => SoleWithoutCrash
  BY SoleInit DEF SoleWithoutCrash
<1> QED
  BY <1>1, SoleWithoutCrashStep, TasksInvariant, PTL DEF TasksSpec

\* A task is executed by a single process: in a life without a crash no
\* second one is launched while the first works, whatever the order in which
\* results, exits, timeouts, backoffs and dispatches arrive.
THEOREM OneProcessPerTask == TasksSpec => []OneWorkerPerTask
<1>1. SoleWithoutCrash => OneWorkerPerTask
  <2> SUFFICES ASSUME SoleInv, NEW v \in Workers, NEW w \in Workers,
                      v # w, v[1] = w[1], worker[v].at \in Alive
               PROVE  worker[w].at \notin Alive
    BY DEF SoleWithoutCrash, OneWorkerPerTask
  <2>1. PICK t \in Tasks, s \in Slots, r \in Slots : v = << t, s >> /\ w = << t, r >>
    BY WorkerParts
  <2>2. r # s
    BY <2>1
  <2> QED
    BY <2>1, <2>2, AloneAt DEF SoleInv
<1> QED
  BY <1>1, TasksSole, PTL

----------------------------------------------------------------------------
(* One writer per path *)

\* Who holds a path changes by a grant, a release of a task none of whose
\* processes works, or a crash.
LEMMA HeldStep ==
    TypeInv /\ SoleInv /\ HeldInv /\ [TasksNext]_vars /\ ~ Crash => HeldInv'
<1> SUFFICES ASSUME TypeInv, SoleInv, HeldInv, [TasksNext]_vars, ~ Crash,
                    NEW t \in Tasks, NEW s \in Slots,
                    worker'[<< t, s >>].at \in Alive,
                    NEW p \in worker'[<< t, s >>].held
             PROVE  byPath'[p] = t
  BY DEF HeldInv
<1>a. PICK v : v = << t, s >>
  OBVIOUS
<1>0. /\ worker \in [Workers -> WorkerType] /\ v \in Workers
      /\ byPath \in [Paths -> Runs \cup {NoRun}] /\ t \in Runs
      /\ worker' \in [Workers -> WorkerType]
  <2>1. TypeInv'
    BY TypeStep
  <2>2. worker' \in [Workers -> WorkerType]
    BY <2>1 DEF TypeInv, TasksTypeOK, WorkerType
  <2> QED
    BY <1>a, <2>2, TypeParts, WorkerParts DEF ProcessesTyped, LocksTypeOK, Tasks
<1>1. p \in Paths
  BY <1>a, <1>0 DEF WorkerType
<1>2. ASSUME worker[v].at \in Alive, p \in worker[v].held PROVE byPath[p] = t
  BY <1>a, <1>2 DEF HeldInv
<1>3. CASE UNCHANGED vars
  BY <1>a, <1>2, <1>3 DEF vars, processes
<1>4. ASSUME UNCHANGED byPath,
             \/ worker'[<< t, s >>] = worker[<< t, s >>]
             \/ worker'[<< t, s >>].held = {}
             \/ /\ worker'[<< t, s >>].held = worker[<< t, s >>].held
                /\ worker[<< t, s >>].at \in Alive
      PROVE  byPath'[p] = t
  BY <1>a, <1>2, <1>4
<1>5. ASSUME NEW w \in Workers, WorkerStep(w) PROVE byPath'[p] = t
  <2>1. worker[w].at \in Alive
    BY <1>5 DEF WorkerStep, Claim, Ask, Checkpoint, Submit, Finish, Fail, Ends, Die,
       Alive, WorkerAt
  <2>2. UNCHANGED worker \/ \E place : Becomes(w, place)
    BY <1>5 DEF WorkerStep, Claim, Ask, Checkpoint, Submit, Finish, Fail, Ends, Die
  <2>3. UNCHANGED byPath
    BY <1>5 DEF WorkerStep, Claim, Ask, Checkpoint, Submit, Finish, Fail, Ends, Die,
       WorkerOnly, locks
  <2>4. \/ worker'[v] = worker[v]
        \/ v = w /\ worker'[v].held = worker[v].held
    BY <2>2, <1>0 DEF Becomes, WorkerType
  <2> QED
    BY <1>a, <1>4, <2>1, <2>3, <2>4
<1>6. ASSUME NEW w \in Workers, Read(w) \/ ExitSeen(w) \/ HealthTimeout(w)
      PROVE  byPath'[p] = t
  <2>1. UNCHANGED byPath /\ (UNCHANGED worker \/ worker' = [worker EXCEPT ![w] = Gone])
    BY <1>6 DEF Read, ExitSeen, HealthTimeout, locks
  <2>2. worker'[v] = worker[v] \/ worker'[v].held = {}
    BY <2>1, <1>0 DEF Gone
  <2> QED
    BY <1>a, <1>4, <2>1, <2>2
<1>7. ASSUME NEW w \in Workers, Launch(w) PROVE byPath'[p] = t
  <2>1. UNCHANGED byPath
    BY <1>7 DEF Launch, locks
  <2>2. \E at : worker' = [worker EXCEPT ![w] = [at |-> at, held |-> {}]]
    BY <1>7 DEF Launch, Starts
  <2>3. worker'[v] = worker[v] \/ worker'[v].held = {}
    BY <2>2, <1>0
  <2> QED
    BY <1>a, <1>4, <2>1, <2>3
<1>8. ASSUME NEW u \in Tasks, AnswerRequest(u) \/ Backoff(u) PROVE byPath'[p] = t
  <2>1. UNCHANGED byPath
    BY <1>8 DEF AnswerRequest, Backoff, locks
  <2>2. \/ UNCHANGED worker
        \/ \E w : worker[w].at = "waiting" /\ Becomes(w, "working")
    BY <1>8 DEF AnswerRequest, Backoff, processes
  <2>3. \/ worker'[v] = worker[v]
        \/ worker'[v].held = worker[v].held /\ worker[v].at = "waiting"
    BY <2>2, <1>0 DEF Becomes, WorkerType
  <2> QED
    BY <1>a, <1>4, <2>1, <2>3 DEF Alive, WorkerAt
<1>9. CASE CancelFeature
  <2>1. UNCHANGED byPath
    BY <1>9 DEF CancelFeature, locks
  <2>2. \/ worker'[v] = worker[v]
        \/ /\ worker'[v] = [worker[v] EXCEPT !.at = "aborted"]
           /\ worker[v].at \in Alive
    BY <1>0, <1>9 DEF CancelFeature
  <2>3. \/ worker'[v] = worker[v]
        \/ worker'[v].held = worker[v].held /\ worker[v].at \in Alive
    BY <2>2, <1>0 DEF WorkerType
  <2> QED
    BY <1>a, <1>4, <2>1, <2>3
<1>10. CASE GrantClaim \/ DenyClaim
  <2> DEFINE w == << msg.task, live[msg.task] >>
  <2>1. Handling({"claim"})
    BY <1>10 DEF GrantClaim, DenyClaim
  <2>2. msg.task \in Tasks /\ msg.with \in Paths
    BY <2>1, HandlingTyped
  <2>3. \/ UNCHANGED worker
        \/ /\ worker[w].at = "claiming"
           /\ \/ /\ worker' = [worker EXCEPT ![w] =
                          [at |-> "working", held |-> worker[w].held \cup {msg.with}]]
                 /\ GrantClaim
              \/ worker' = [worker EXCEPT ![w] =
                               [at |-> "working", held |-> worker[w].held]]
    BY <1>10 DEF GrantClaim, DenyClaim, Answered
  <2>4. \/ /\ p \in worker[v].held /\ worker[v].at \in Alive
        \/ v = w /\ p = msg.with /\ GrantClaim
    <3>1. CASE worker'[v] = worker[v]
      BY <1>a, <3>1
    <3>2. CASE v = w /\ worker[w].at = "claiming"
      BY <1>a, <2>3, <3>2, <1>0 DEF Alive, WorkerAt
    <3> HIDE DEF w
    <3> QED
      BY <1>a, <2>3, <3>1, <3>2, <1>0
  <2>5. CASE v = w /\ p = msg.with /\ GrantClaim
    BY <1>a, <2>5, <1>1 DEF GrantClaim, Granted
  <2>6. CASE p \in worker[v].held /\ worker[v].at \in Alive
    <3>1. byPath[p] = t
      BY <2>6, <1>2
    <3>2. CASE DenyClaim
      BY <3>1, <3>2 DEF DenyClaim, locks
    <3>3. CASE GrantClaim
      <4>1. /\ byPath' = [q \in Paths |-> IF q \in {msg.with} THEN msg.task ELSE byPath[q]]
            /\ Conflicts(msg.task, {msg.with}) = {}
        BY <3>3 DEF GrantClaim, Granted
      <4>2. byPath[msg.with] \in {NoRun, msg.task}
        BY <4>1, <2>2 DEF Conflicts
      <4> QED
        BY <3>1, <4>1, <4>2, <1>0, <1>1, NoRunIsNone
    <3> QED
      BY <1>10, <3>2, <3>3
  <2> QED
    BY <2>4, <2>5, <2>6
<1>11. CASE HandleImplicit \/ HandleSubmitted \/ HandleError
  <2>1. PICK kinds \in SUBSET EndKinds : Handling(kinds)
    BY <1>11 DEF HandleImplicit, HandleSubmitted, HandleError, EndKinds
  <2>2. UNCHANGED worker /\ ReleaseByRun(msg.task)
    BY <1>11 DEF HandleImplicit, HandleSubmitted, HandleError, LoopOnly, processes
  <2>3. worker[v].at \in Alive /\ byPath[p] = t
    BY <1>a, <2>2, <1>2
  <2>4. msg = events[1] /\ 1 \in DOMAIN events /\ msg.kind \in EndKinds
    BY <2>1, HandledOld, HandlingTyped
  <2>5. msg.task # t
    BY <1>a, <2>3, <2>4 DEF SoleInv, SoleAt, Sole
  <2> QED
    BY <1>1, <2>2, <2>3, <2>5 DEF ReleaseByRun
<1>12. CASE /\ LoopStep \/ GitThrows
            /\ ~ \E w \in Workers : Launch(w)
            /\ ~ (GrantClaim \/ DenyClaim \/ HandleImplicit \/ HandleSubmitted \/ HandleError)
  <2>1. UNCHANGED << worker, byPath >>
    BY <1>12 DEF LoopStep, HandleMessage, BeginTick, DropMessage, HandleAsk,
       SquashMerges, SquashRetries, CatchesUp, SquashExhausts, CompleteRun, DecideRetry,
       AwaitRetry, RebaseSuspended, DispatchTask, RebaseBlocked, RebaseDone, Coordinate,
       Persist, GitThrows, LoopOnly, processes, locks
  <2> QED
    BY <1>a, <1>4, <2>1
<1> QED
  BY <1>3, <1>5, <1>6, <1>7, <1>8, <1>9, <1>10, <1>11, <1>12, NotRecovering
     DEF TasksNext, LoopStep, HandleMessage

\* As long as nothing crashes, no two tasks write to one path: what a working
\* process was granted stays its task's, whatever is claimed, released,
\* suspended or cancelled around it.
THEOREM WritersExclude ==
    TasksSpec /\ [](spent.crashes = 0) => []ExclusiveWriters
<1>1. InitTasks => HeldInv
  BY WorkerParts, GoneTyped DEF InitTasks, HeldInv
<1>2. TypeInv /\ TypeInv' /\ SoleInv /\ HeldInv /\ [TasksNext]_vars
        /\ spent.crashes = 0 /\ (spent.crashes = 0)' => HeldInv'
  <2> SUFFICES ASSUME TypeInv, SoleInv, HeldInv, [TasksNext]_vars,
                      spent.crashes = 0, spent'.crashes = 0
               PROVE  HeldInv'
    OBVIOUS
  <2>1. ~ Crash
    BY CrashesCounted DEF TasksNext
  <2> QED
    BY <2>1, HeldStep
<1>3. SoleInv /\ HeldInv => ExclusiveWriters
  <2> SUFFICES ASSUME HeldInv, NEW v \in Workers, NEW w \in Workers, v[1] # w[1],
                      worker[v].at \in Alive, worker[w].at \in Alive
               PROVE  worker[v].held \cap worker[w].held = {}
    BY DEF ExclusiveWriters
  <2>1. /\ v = << v[1], v[2] >> /\ v[1] \in Tasks /\ v[2] \in Slots
        /\ w = << w[1], w[2] >> /\ w[1] \in Tasks /\ w[2] \in Slots
    BY WorkerParts
  <2>2. \A p \in worker[v].held : byPath[p] = v[1]
    BY <2>1 DEF HeldInv
  <2>3. \A p \in worker[w].held : byPath[p] = w[1]
    BY <2>1 DEF HeldInv
  <2> QED
    BY <2>2, <2>3
<1>4. SoleWithoutCrash /\ spent.crashes = 0 => SoleInv
  BY DEF SoleWithoutCrash
<1> QED
  BY <1>1, <1>2, <1>3, <1>4, TasksSole, TasksInvariant, PTL DEF TasksSpec

----------------------------------------------------------------------------
(* No running task is forgotten *)

\* A task that is neither done nor cancelled.
Open(t) == task[t].status \notin {"done", "cancelled"}

NoEvents(t) == \A i \in DOMAIN events : events[i].task # t
NoEnds(t) == \A i \in DOMAIN events : events[i].task = t => events[i].kind \notin EndKinds
EndLast(t) == \A i, j \in DOMAIN events :
    events[i].task = t /\ events[i].kind \in EndKinds /\ events[j].task = t => j <= i
EndQueued(t) == \E i \in DOMAIN events : events[i].task = t /\ events[i].kind \in EndKinds

\* At most one process is not gone; what it says at its end it says last; a
\* session stands for a process whose end has not been heard of.
FlightAt(t) ==
    /\ \A s \in Slots : worker[<< t, s >>] = Gone => pipe[<< t, s >>] = << >>
    /\ \A r, s \in Slots : worker[<< t, r >>] # Gone /\ worker[<< t, s >>] # Gone => r = s
    /\ \A s \in Slots : \A i \in DOMAIN pipe[<< t, s >>] :
          pipe[<< t, s >>][i].kind \in EndKinds => i = Len(pipe[<< t, s >>])
    /\ live[t] # 0 => worker[<< t, live[t] >>] # Gone /\ NoEnds(t)
    /\ live[t] = 0 => \A s \in Slots : /\ pipe[<< t, s >>] = << >>
                                       /\ worker[<< t, s >>].at \notin Alive
    /\ EndLast(t)

EndInHand == {"logging", "retrying", "squashing", "catchingup"}

\* What the loop has in hand is the end of a run that has no session.
HandAt(t) ==
    /\ sched.at \in EndInHand /\ sched.task = t => live[t] = 0 /\ NoEvents(t)
    /\ At("retrying") /\ sched.task = t => task[t].status = "ready"
    /\ At("persisting") /\ sched.task = t => live[t] # 0
    /\ sched.at \in {"completing", "rebasing"} /\ sched.task = t => task[t].status = "failed"
    /\ run[t].status # "cancelled"

CareAt(t) == t \in Running =>
    \/ live[t] # 0
    \/ EndQueued(t)
    \/ sched.at \in EndInHand \ {"retrying"} /\ sched.task = t
    \/ run[t].status = "failed" /\ NoEvents(t)

AttendedInv == \A t \in Tasks : Open(t) => FlightAt(t) /\ HandAt(t) /\ CareAt(t)

Timely == MaxCrashes = 0 /\ MaxGitErrors = 0 /\ MaxLateReads = 0

\* Events that stay, or lose the first of them.
EventsKept == events' = events \/ (events # << >> /\ events' = Tail(events))

LEMMA QueueKept ==
    ASSUME TypeInv, EventsKept, NEW t
    PROVE  /\ NoEvents(t) => NoEvents(t)'
           /\ NoEnds(t) => NoEnds(t)'
           /\ EndLast(t) => EndLast(t)'
<1>1. CASE events' = events
  BY <1>1 DEF NoEvents, NoEnds, EndLast
<1>2. CASE events # << >> /\ events' = Tail(events)
  <2>1. events \in Seq(Messages)
    BY DEF TypeInv
  <2>2. \A i \in DOMAIN events' : i + 1 \in DOMAIN events /\ events'[i] = events[i + 1]
    BY <1>2, <2>1, TailKeeps
  <2>3. EndLast(t) => EndLast(t)'
    <3> SUFFICES ASSUME EndLast(t), NEW i \in DOMAIN events', NEW j \in DOMAIN events',
                        events'[i].task = t, events'[i].kind \in EndKinds, events'[j].task = t
                 PROVE  j <= i
      BY DEF EndLast
    <3>1. j + 1 <= i + 1
      BY <2>2 DEF EndLast
    <3>2. i \in Nat /\ j \in Nat
      <4>1. events' \in Seq(Messages)
        BY <1>2, <2>1, TailKeeps
      <4> QED
        BY <4>1
    <3> QED
      BY <3>1, <3>2
  <2> QED
    BY <2>2, <2>3 DEF NoEvents, NoEnds
<1> QED
  BY <1>1, <1>2 DEF EventsKept

\* A task's end stays queued until it is handled.
LEMMA EndStays ==
    ASSUME TypeInv, EventsKept, NEW t, EndQueued(t),
           events' # events => ~ (events[1].task = t /\ events[1].kind \in EndKinds)
    PROVE  EndQueued(t)'
<1>1. CASE events' = events
  BY <1>1 DEF EndQueued
<1>2. CASE events # << >> /\ events' = Tail(events) /\ events' # events
  <2>1. events \in Seq(Messages)
    BY DEF TypeInv
  <2>2. PICK i \in DOMAIN events : events[i].task = t /\ events[i].kind \in EndKinds
    BY DEF EndQueued
  <2>3. i # 1 /\ i \in 1 .. Len(events) /\ Len(events) \in Nat
    BY <1>2, <2>1, <2>2
  <2>4. i - 1 \in DOMAIN events' /\ events'[i - 1] = events[i]
    BY <1>2, <2>1, <2>3
  <2> QED
    BY <2>2, <2>4 DEF EndQueued
<1> QED
  BY <1>1, <1>2 DEF EventsKept

\* A report says of its task that it ended, or nothing about an end.
LEMMA ReportAdds ==
    ASSUME TypeInv, NEW m \in Messages, Report(m), NEW t
    PROVE  /\ m.task # t => /\ NoEvents(t) => NoEvents(t)'
                            /\ NoEnds(t) => NoEnds(t)'
                            /\ EndLast(t) => EndLast(t)'
           /\ EndQueued(t) => EndQueued(t)'
           /\ m.kind \notin EndKinds /\ NoEnds(t) => NoEnds(t)'
           /\ m.kind \in EndKinds /\ m.task = t => EndQueued(t)'
           /\ NoEnds(t) => EndLast(t)'
<1>1. events' = Append(events, m) /\ events \in Seq(Messages)
  BY DEF Report, TypeInv
<1>2. /\ \A i \in DOMAIN events' : \/ i \in DOMAIN events /\ events'[i] = events[i]
                                   \/ i = Len(events) + 1 /\ events'[i] = m
      /\ \A i \in DOMAIN events : i \in DOMAIN events' /\ events'[i] = events[i]
      /\ Len(events) + 1 \in DOMAIN events' /\ events'[Len(events) + 1] = m
      /\ \A i \in DOMAIN events : i <= Len(events) /\ i \in Nat
      /\ Len(events) \in Nat
  <2>1. \A i \in DOMAIN events : Append(events, m)[i] = events[i]
    BY <1>1
  <2> QED
    BY <1>1, <2>1, AppendKeeps
<1>3. NoEnds(t) => EndLast(t)'
  BY <1>2 DEF NoEnds, EndLast
<1>4. ASSUME m.task # t, EndLast(t) PROVE EndLast(t)'
  BY <1>2, <1>4 DEF EndLast
<1>5. EndQueued(t) => EndQueued(t)'
  BY <1>2 DEF EndQueued
<1>6. m.kind \in EndKinds /\ m.task = t => EndQueued(t)'
  BY <1>2 DEF EndQueued
<1> QED
  BY <1>2, <1>3, <1>4, <1>5, <1>6 DEF NoEvents, NoEnds

\* A step that neither starts nor ends a process of t, and tells the loop
\* nothing new.
LEMMA FlightKept ==
    ASSUME TypeInv, NEW t \in Tasks, FlightAt(t), EventsKept,
           live'[t] = live[t], live[t] \in Slots \cup {0},
           \A s \in Slots :
              /\ pipe'[<< t, s >>] = pipe[<< t, s >>]
              /\ worker'[<< t, s >>] = Gone <=> worker[<< t, s >>] = Gone
              /\ worker'[<< t, s >>].at \in Alive => worker[<< t, s >>].at \in Alive
    PROVE  FlightAt(t)'
<1>1. /\ NoEnds(t) => NoEnds(t)'
      /\ EndLast(t) => EndLast(t)'
  BY QueueKept
<1> QED
  BY <1>1 DEF FlightAt

\* A process's own step: it goes on, or says at its end how it ended.
LEMMA WorkerFlight ==
    ASSUME TypeInv, NEW w \in Workers, WorkerStep(w),
           NEW t \in Tasks, SoleAt(t), FlightAt(t)
    PROVE  FlightAt(t)'
<1>0. PICK u \in Tasks, s \in Slots : w = << u, s >>
  BY WorkerParts
<1>a. /\ worker \in [Workers -> WorkerType] /\ pipe \in [Workers -> Seq(Messages)]
      /\ \A r \in Slots : << t, r >> \in Workers
      /\ live \in [Tasks -> Slots \cup {0}]
  BY TypeParts, WorkerParts DEF ProcessesTyped, PipeTyped, PoolTyped
<1>1. /\ UNCHANGED << live, events >>
      /\ worker[w].at \in Alive
  BY DEF WorkerStep, Claim, Ask, Checkpoint, Submit, Finish, Fail, Ends, Die,
     WorkerOnly, Alive, WorkerAt
<1>2. \/ UNCHANGED worker
      \/ \E place \in WorkerAt \ {"none"} : Becomes(w, place)
  BY DEF WorkerStep, Claim, Ask, Checkpoint, Submit, Finish, Fail, Ends, Die, WorkerAt
<1>3. \/ UNCHANGED pipe
      \/ \E kind, with : Send(w, kind, with)
  BY DEF WorkerStep, Claim, Ask, Checkpoint, Submit, Finish, Fail, Ends, Die
<1>4. worker[w] # Gone /\ worker'[w] # Gone
  <2>1. worker'[w].at \in WorkerAt \ {"none"}
    BY <1>1, <1>2, <1>a DEF Becomes, Alive, WorkerType
  <2> QED
    BY <1>1, <2>1 DEF Gone, Alive
<1>5. ASSUME NEW r \in Slots, << t, r >> # w
      PROVE  worker'[<< t, r >>] = worker[<< t, r >>] /\ pipe'[<< t, r >>] = pipe[<< t, r >>]
  BY <1>2, <1>3, <1>a, <1>5 DEF Becomes, Send
<1>6. CASE t # u
  <2>1. \A r \in Slots : << t, r >> # w
    BY <1>0, <1>6
  <2> QED
    BY <1>1, <1>5, <1>a, <2>1, FlightKept DEF EventsKept
<1>7. CASE t = u
  <2>1. live[t] # 0
    BY <1>0, <1>1, <1>7 DEF FlightAt
  <2>2. /\ \A r \in Slots : worker'[<< t, r >>] = Gone <=> worker[<< t, r >>] = Gone
        /\ \A r \in Slots : r # s => worker[<< t, r >>] = Gone
    BY <1>0, <1>4, <1>5, <1>7 DEF FlightAt
  <2>3. ASSUME NEW i \in DOMAIN pipe'[w], pipe'[w][i].kind \in EndKinds
        PROVE  i = Len(pipe'[w])
    <3>1. \A j \in DOMAIN pipe[w] : pipe[w][j].kind \notin EndKinds
      BY <1>0, <1>1, <1>7, AloneAt DEF Sole
    <3>2. CASE UNCHANGED pipe
      BY <2>3, <3>1, <3>2
    <3>3. ASSUME NEW kind, NEW with, Send(w, kind, with)
          PROVE  i = Len(pipe'[w])
      <4> DEFINE m == Message(w, kind, with)
      <4>1. pipe'[w] = Append(pipe[w], m) /\ pipe[w] \in Seq(Messages \cup {m})
        BY <3>3, <1>a DEF Send
      <4> HIDE DEF m
      <4>2. \/ i \in DOMAIN pipe[w] /\ pipe'[w][i] = pipe[w][i]
            \/ i = Len(pipe[w]) + 1
        BY <2>3, <4>1
      <4> QED
        BY <2>3, <3>1, <4>1, <4>2
    <3> QED
      BY <1>3, <3>2, <3>3
  <2>4. EndLast(t)' /\ (NoEnds(t) => NoEnds(t)')
    BY <1>1, QueueKept DEF EventsKept, FlightAt
  <2>5. \A r \in Slots : worker'[<< t, r >>] = Gone => pipe'[<< t, r >>] = << >>
    BY <1>0, <1>4, <1>5, <1>7 DEF FlightAt
  <2>6. \A r \in Slots : \A i \in DOMAIN pipe'[<< t, r >>] :
           pipe'[<< t, r >>][i].kind \in EndKinds => i = Len(pipe'[<< t, r >>])
    <3> TAKE r \in Slots
    <3>1. CASE r = s
      BY <1>0, <1>7, <2>3, <3>1
    <3>2. CASE r # s
      <4>1. << t, r >> # w
        BY <1>0, <3>2
      <4> QED
        BY <1>5, <4>1 DEF FlightAt
    <3> QED
      BY <3>1, <3>2
  <2> QED
    BY <1>1, <2>1, <2>2, <2>4, <2>5, <2>6, <1>a DEF FlightAt
<1> QED
  BY <1>6, <1>7

\* An end that is read or noticed leaves a run without a session and without
\* anything on its way, when nothing is noticed late.
LEMMA PoolFlight ==
    ASSUME TypeInv, Timely, NEW w \in Workers, Read(w) \/ ExitSeen(w) \/ HealthTimeout(w),
           NEW t \in Tasks, SoleAt(t), FlightAt(t)
    PROVE  FlightAt(t)'
<1>0. PICK u \in Tasks, s \in Slots : w = << u, s >> /\ w[1] = u /\ w[2] = s
  BY WorkerParts
<1>a. /\ worker \in [Workers -> WorkerType] /\ pipe \in [Workers -> Seq(Messages)]
      /\ \A r \in Slots : << t, r >> \in Workers
      /\ live \in [Tasks -> Slots \cup {0}] /\ PipeTyped
      /\ \A r \in Slots : r # 0
  BY TypeParts, WorkerParts, SlotsAreNumbers DEF ProcessesTyped, PipeTyped, PoolTyped
<1>b. \A b \in BOOLEAN : /\ Message(w, "error", b) \in Messages
                         /\ Message(w, "error", b).task = u
                         /\ Message(w, "error", b).kind \in EndKinds
  BY <1>0, MessageTyped DEF EndKinds, From
<1>1. CASE ExitSeen(w) \/ HealthTimeout(w)
  <2>1. /\ worker[w].at \in Alive \cup {"ended"}
        /\ pipe[w] = << >>
        /\ worker' = [worker EXCEPT ![w] = Gone] /\ live' = [live EXCEPT ![u] = 0]
        /\ UNCHANGED pipe
    <3>1. spent \in [Bounds -> Nat] /\ "late" \in Bounds
      BY DEF TypeInv, Bounds
    <3>2. ~ Spend("late", MaxLateReads)
      BY <3>1 DEF Spend, Timely
    <3>3. CASE ExitSeen(w)
      BY <1>0, <3>2, <3>3 DEF ExitSeen, EndHeard
    <3>4. CASE HealthTimeout(w)
      <4>1. pipe[w] = << >>
        BY <3>4 DEF HealthTimeout, Timely
      <4> QED
        BY <1>0, <3>4, <4>1 DEF HealthTimeout
    <3> QED
      BY <1>1, <3>3, <3>4
  <2>2. worker[w] # Gone
    BY <2>1 DEF Gone, Alive
  <2>3. \/ UNCHANGED events
        \/ (\E b \in BOOLEAN : Report(Message(w, "error", b))) /\ (t = u => live[t] # 0)
    <3>1. CASE ExitSeen(w)
      BY <1>0, <3>1 DEF ExitSeen
    <3>2. CASE HealthTimeout(w)
      <4>1. t = u => live[t] # 0
        BY <1>0, <3>2 DEF HealthTimeout, FlightAt
      <4> QED
        BY <3>2, <4>1 DEF HealthTimeout
    <3> QED
      BY <1>1, <3>1, <3>2
  <2>4. CASE t # u
    <3>1. \A r \in Slots : worker'[<< t, r >>] = worker[<< t, r >>]
      BY <1>0, <1>a, <2>1, <2>4
    <3>2. EndLast(t)' /\ (NoEnds(t) => NoEnds(t)')
      <4>1. CASE UNCHANGED events
        BY <4>1 DEF FlightAt, NoEnds, EndLast
      <4>2. ASSUME NEW b \in BOOLEAN, Report(Message(w, "error", b))
            PROVE  EndLast(t)' /\ (NoEnds(t) => NoEnds(t)')
        BY <1>b, <2>4, <4>2, ReportAdds DEF FlightAt
      <4> QED
        BY <2>3, <4>1, <4>2
    <3>3. live'[t] = live[t]
      BY <1>a, <2>1, <2>4
    <3>4. live[t] # 0 => worker'[<< t, live'[t] >>] # Gone
      BY <1>a, <3>1, <3>3 DEF FlightAt
    <3> QED
      BY <2>1, <3>1, <3>2, <3>3, <3>4 DEF FlightAt
  <2>5. CASE t = u
    <3>1. \A r \in Slots : worker'[<< t, r >>] = Gone /\ pipe'[<< t, r >>] = << >>
      <4> TAKE r \in Slots
      <4>1. CASE r = s
        BY <1>0, <1>a, <2>1, <2>5, <4>1
      <4>2. CASE r # s
        <5>1. worker[<< t, r >>] = Gone /\ << t, r >> # w
          BY <1>0, <2>2, <2>5, <4>2 DEF FlightAt
        <5> QED
          BY <5>1, <1>a, <2>1 DEF FlightAt
      <4> QED
        BY <4>1, <4>2
    <3>2. live'[t] = 0
      BY <1>a, <2>1, <2>5
    <3>3. EndLast(t)'
      <4>1. CASE UNCHANGED events
        BY <4>1 DEF FlightAt, EndLast
      <4>2. ASSUME NEW b \in BOOLEAN, Report(Message(w, "error", b)), live[t] # 0
            PROVE  EndLast(t)'
        BY <1>b, <4>2, ReportAdds DEF FlightAt
      <4> QED
        BY <2>3, <2>5, <4>1, <4>2
    <3> QED
      BY <3>1, <3>2, <3>3, GoneTyped DEF FlightAt
  <2> QED
    BY <2>4, <2>5
<1>2. CASE Read(w)
  <2> DEFINE m == Head(pipe[w])
  <2>1. /\ UNCHANGED worker /\ pipe' = [pipe EXCEPT ![w] = Tail(pipe[w])]
        /\ pipe[w] # << >> /\ Report(m)
        /\ live' = IF m.kind \in EndKinds THEN [live EXCEPT ![u] = 0] ELSE live
    BY <1>0, <1>2 DEF Read, EndKinds
  <2>2. /\ m \in Messages /\ m.task = u /\ m = pipe[w][1] /\ 1 \in DOMAIN pipe[w]
        /\ Tail(pipe[w]) \in Seq(Messages) /\ Len(Tail(pipe[w])) = Len(pipe[w]) - 1
        /\ \A i \in DOMAIN Tail(pipe[w]) : /\ i + 1 \in DOMAIN pipe[w]
                                           /\ Tail(pipe[w])[i] = pipe[w][i + 1]
    <3>1. /\ m \in Messages /\ m = pipe[w][1] /\ 1 \in DOMAIN pipe[w]
          /\ Tail(pipe[w]) \in Seq(Messages)
          /\ \A i \in DOMAIN Tail(pipe[w]) : /\ i + 1 \in DOMAIN pipe[w]
                                             /\ Tail(pipe[w])[i] = pipe[w][i + 1]
      BY <1>a, <2>1, TailKeeps
    <3>2. m.task = u
      BY <1>0, <1>a, <2>1, ReadTyped DEF From
    <3>3. pipe[w] \in Seq(Messages)
      BY <1>a
    <3>4. Len(Tail(pipe[w])) = Len(pipe[w]) - 1
      BY <3>3, <2>1
    <3> QED
      BY <3>1, <3>2, <3>4
  <2> HIDE DEF m
  <2>3. CASE t # u
    <3>1. \A r \in Slots : pipe'[<< t, r >>] = pipe[<< t, r >>]
      BY <1>0, <1>a, <2>1, <2>3
    <3>2. EndLast(t)' /\ (NoEnds(t) => NoEnds(t)')
      BY <2>1, <2>2, <2>3, ReportAdds DEF FlightAt
    <3>3. live'[t] = live[t]
      BY <1>a, <2>1, <2>3
    <3> QED
      BY <2>1, <3>1, <3>2, <3>3 DEF FlightAt
  <2>4. CASE t = u
    <3>1. /\ live[t] # 0 /\ NoEnds(t) /\ worker[w] # Gone
          /\ \A r \in Slots : r # s => worker[<< t, r >>] = Gone /\ pipe[<< t, r >>] = << >>
      BY <1>0, <2>1, <2>4 DEF FlightAt
    <3>2. /\ EndLast(t)'
          /\ m.kind \notin EndKinds => NoEnds(t)'
      BY <2>1, <2>2, <3>1, ReportAdds
    <3>3. /\ \A r \in Slots : r # s => pipe'[<< t, r >>] = << >>
          /\ pipe'[<< t, s >>] = Tail(pipe[w])
      BY <1>0, <1>a, <2>1, <2>4, <3>1
    <3>4. \A i \in DOMAIN Tail(pipe[w]) :
             Tail(pipe[w])[i].kind \in EndKinds => i = Len(Tail(pipe[w]))
      <4> SUFFICES ASSUME NEW i \in DOMAIN Tail(pipe[w]), Tail(pipe[w])[i].kind \in EndKinds
                   PROVE  i = Len(Tail(pipe[w]))
        OBVIOUS
      <4>1. i + 1 = Len(pipe[w])
        BY <1>0, <2>2, <2>4 DEF FlightAt
      <4>2. i \in Nat
        BY <2>2
      <4> QED
        BY <2>2, <4>1, <4>2
    <3>5. CASE m.kind \notin EndKinds
      <4>1. live' = live
        BY <2>1, <3>5
      <4>2. \A r \in Slots : \A i \in DOMAIN pipe'[<< t, r >>] :
               pipe'[<< t, r >>][i].kind \in EndKinds => i = Len(pipe'[<< t, r >>])
        <5> TAKE r \in Slots
        <5>1. CASE r = s
          BY <3>3, <3>4, <5>1
        <5>2. CASE r # s
          <6>1. pipe'[<< t, r >>] = << >>
            BY <3>3, <5>2
          <6> QED
            BY <6>1
        <5> QED
          BY <5>1, <5>2
      <4> QED
        BY <1>0, <2>1, <2>4, <3>1, <3>2, <3>3, <3>5, <4>1, <4>2 DEF FlightAt
    <3>6. CASE m.kind \in EndKinds
      <4>1. 1 = Len(pipe[w])
        BY <1>0, <2>2, <2>4, <3>6 DEF FlightAt
      <4>2. Tail(pipe[w]) = << >>
        BY <2>2, <4>1
      <4>3. \A r \in Slots : pipe'[<< t, r >>] = << >>
        BY <3>3, <4>2
      <4>4. live'[t] = 0
        BY <1>a, <2>1, <2>4, <3>6
      <4>5. \A r \in Slots : worker[<< t, r >>].at \notin Alive
        <5> SUFFICES ASSUME NEW r \in Slots, worker[<< t, r >>].at \in Alive PROVE FALSE
          OBVIOUS
        <5>1. r = s
          BY <3>1, GoneTyped
        <5>2. Sole(t, s)
          BY <5>1, AloneAt
        <5> QED
          BY <1>0, <2>2, <2>4, <3>6, <5>2 DEF Sole
      <4> QED
        BY <2>1, <3>2, <4>3, <4>4, <4>5 DEF FlightAt
    <3> QED
      BY <3>5, <3>6
  <2> QED
    BY <2>3, <2>4
<1> QED
  BY <1>1, <1>2

\* Handling a message takes it off the queue.
LEMMA HandlingKeeps ==
    ASSUME NEW kinds, Handling(kinds)
    PROVE  EventsKept
BY DEF Handling, EventsKept

\* The user wakes a worker that waits; whom a cancellation concerns is no
\* longer open.
LEMMA UserFlight ==
    ASSUME TypeInv, NEW t \in Tasks, FlightAt(t),
           \/ \E u \in Tasks : AnswerRequest(u) \/ Backoff(u)
           \/ CancelFeature /\ Open(t)'
    PROVE  FlightAt(t)'
<1>a. /\ worker \in [Workers -> WorkerType] /\ task \in [Tasks -> TaskType]
      /\ \A u \in Tasks, r \in Slots : << u, r >> \in Workers
      /\ live \in [Tasks -> Slots \cup {0}]
  BY TypeParts, WorkerParts DEF ProcessesTyped, PoolTyped, RowsTyped
<1>1. ~ CancelFeature
  <2> SUFFICES ASSUME CancelFeature, Open(t)' PROVE FALSE
    BY DEF AnswerRequest, Backoff, CancelFeature, rows, vars
  <2> QED
    BY <1>a DEF CancelFeature, Open, TaskType
<1>2. PICK u \in Tasks : AnswerRequest(u) \/ Backoff(u)
  BY <1>1
<1>3. UNCHANGED << pipe, events, live >>
  BY <1>2 DEF AnswerRequest, Backoff, processes
<1>4. \/ UNCHANGED worker
      \/ \E w \in Workers : /\ worker[w].at = "waiting"
                            /\ worker' = [worker EXCEPT ![w] = [@ EXCEPT !.at = "working"]]
  <2>1. CASE AnswerRequest(u)
    <3> DEFINE w == << u, live[u] >>
    <3>1. w \in Workers
      BY <1>a, <2>1 DEF AnswerRequest
    <3>2. \/ UNCHANGED worker
          \/ worker[w].at = "waiting" /\ worker' = [worker EXCEPT ![w] = [@ EXCEPT !.at = "working"]]
      BY <2>1 DEF AnswerRequest, Becomes
    <3> HIDE DEF w
    <3> QED
      BY <3>1, <3>2
  <2>2. CASE Backoff(u)
    BY <2>2 DEF Backoff, processes
  <2> QED
    BY <1>2, <2>1, <2>2
<1>5. ASSUME NEW r \in Slots
      PROVE  /\ worker'[<< t, r >>] = Gone <=> worker[<< t, r >>] = Gone
             /\ worker'[<< t, r >>].at \in Alive => worker[<< t, r >>].at \in Alive
  <2>1. << t, r >> \in Workers
    BY <1>a
  <2>2. CASE worker'[<< t, r >>] = worker[<< t, r >>]
    BY <2>2
  <2>3. CASE /\ worker[<< t, r >>].at = "waiting"
             /\ worker'[<< t, r >>].at = "working"
    BY <2>3 DEF Gone, Alive, WorkerAt
  <2> QED
    BY <1>4, <1>a, <2>1, <2>2, <2>3 DEF WorkerType
<1>6. \A r \in Slots : pipe'[<< t, r >>] = pipe[<< t, r >>]
  BY <1>3
<1> QED
  BY <1>3, <1>5, <1>6, <1>a, FlightKept DEF EventsKept

\* A claim that is answered wakes the worker that waits for it.
LEMMA ClaimFlight ==
    ASSUME TypeInv, NEW t \in Tasks, FlightAt(t), GrantClaim \/ DenyClaim
    PROVE  FlightAt(t)'
<1>a. /\ worker \in [Workers -> WorkerType]
      /\ \A r \in Slots : << t, r >> \in Workers
      /\ live \in [Tasks -> Slots \cup {0}]
  BY TypeParts, WorkerParts DEF ProcessesTyped, PoolTyped
<1>b. Handling({"claim"}) /\ (Answered(TRUE) \/ Answered(FALSE))
  BY DEF GrantClaim, DenyClaim
<1>1. UNCHANGED << pipe, live >> /\ EventsKept
  BY <1>b, HandlingKeeps DEF GrantClaim, DenyClaim
<1>2. ASSUME NEW r \in Slots
      PROVE  \/ worker'[<< t, r >>] = worker[<< t, r >>]
             \/ worker[<< t, r >>].at = "claiming" /\ worker'[<< t, r >>].at = "working"
  <2> DEFINE v == << msg.task, live[msg.task] >>
  <2>1. \/ worker' = worker
        \/ /\ worker[v].at = "claiming"
           /\ \E h : worker' = [worker EXCEPT ![v] = [at |-> "working", held |-> h]]
    BY <1>b DEF Answered
  <2> HIDE DEF v
  <2> QED
    BY <2>1, <1>a
<1>3. ASSUME NEW r \in Slots
      PROVE  /\ pipe'[<< t, r >>] = pipe[<< t, r >>]
             /\ worker'[<< t, r >>] = Gone <=> worker[<< t, r >>] = Gone
             /\ worker'[<< t, r >>].at \in Alive => worker[<< t, r >>].at \in Alive
  BY <1>1, <1>2 DEF Gone, Alive, WorkerAt
<1> QED
  BY <1>1, <1>3, <1>a, FlightKept

\* The loop's other steps leave processes, pipes and sessions alone.
LEMMA LoopFlight ==
    ASSUME TypeInv, NEW t \in Tasks, FlightAt(t), LoopStep \/ GitThrows,
           ~ GrantClaim, ~ DenyClaim, ~ \E w \in Workers : Launch(w)
    PROVE  FlightAt(t)' /\ LoopOnly /\ EventsKept
<1>1. LoopOnly
  BY DEF LoopStep, HandleMessage, BeginTick, DropMessage, HandleAsk, HandleImplicit,
     HandleSubmitted, HandleError, SquashMerges, SquashRetries, CatchesUp,
     SquashExhausts, CompleteRun, DecideRetry, AwaitRetry, RebaseSuspended,
     DispatchTask, RebaseBlocked, RebaseDone, Coordinate, Persist, GitThrows
<1>2. EventsKept
  <2>1. CASE \E kinds : Handling(kinds)
    BY <2>1, HandlingKeeps
  <2>2. CASE UNCHANGED events
    BY <2>2 DEF EventsKept
  <2>3. HandleMessage => \E kinds : Handling(kinds)
    BY DEF HandleMessage, DropMessage, HandleAsk, HandleImplicit, HandleSubmitted,
       HandleError, GrantClaim, DenyClaim
  <2>4. ~ HandleMessage => UNCHANGED events
    BY DEF LoopStep, BeginTick, SquashMerges, SquashRetries, CatchesUp,
       SquashExhausts, CompleteRun, DecideRetry, AwaitRetry, RebaseSuspended,
       DispatchTask, RebaseBlocked, RebaseDone, Coordinate, Persist, GitThrows
  <2> QED
    BY <2>1, <2>2, <2>3, <2>4
<1>3. live \in [Tasks -> Slots \cup {0}]
  BY TypeParts DEF PoolTyped
<1> QED
  BY <1>1, <1>2, <1>3, FlightKept DEF LoopOnly, processes

\* A launch makes the one process of a task of which nothing was left.
LEMMA LaunchFlight ==
    ASSUME TypeInv, SoleInv, NEW w \in Workers, Launch(w), NEW t \in Tasks, FlightAt(t)
    PROVE  FlightAt(t)' /\ (live[t] # 0 => live'[t] # 0) /\ (t = w[1] => live'[t] # 0)
<1>0. PICK u \in Tasks, s \in Slots : w = << u, s >> /\ w[1] = u /\ w[2] = s
  BY WorkerParts
<1>a. /\ worker \in [Workers -> WorkerType] /\ pipe \in [Workers -> Seq(Messages)]
      /\ \A r \in Slots : << t, r >> \in Workers
      /\ live \in [Tasks -> Slots \cup {0}] /\ saved \in [Tasks -> Saved] /\ SoleAt(t)
      /\ \A r \in Slots : r # 0
  BY TypeParts, WorkerParts, SlotsAreNumbers DEF ProcessesTyped, PipeTyped, PoolTyped, SoleInv
<1>b. sched.at = "preparing" /\ sched.task = u /\ UNCHANGED events
  BY <1>0 DEF Launch, At
<1>1. /\ \E place \in Alive \ {"aborted"} :
            worker' = [worker EXCEPT ![w] = [at |-> place, held |-> {}]]
      /\ live' = [live EXCEPT ![u] = s]
      /\ UNCHANGED pipe \/ (\E kind \in {"again"} : \E with : Send(w, kind, with))
  <2>1. PICK from \in Saved \ {"none"} :
           /\ worker' = [worker EXCEPT ![w] =
                            [at |-> IF from \in Waits THEN "waiting" ELSE from, held |-> {}]]
           /\ IF from \in Waits THEN Send(w, "again", from) ELSE UNCHANGED pipe
    BY <1>0, <1>a DEF Launch, Starts, Resumable, Saved
  <2>2. (IF from \in Waits THEN "waiting" ELSE from) \in Alive \ {"aborted"}
    BY DEF Saved, Waits, Alive, WorkerAt
  <2> QED
    BY <1>0, <2>1, <2>2 DEF Launch, Starts
<1>2. live[t] # 0 => live'[t] # 0
  BY <1>1, <1>a
<1>3. CASE t # u
  <2>1. \A r \in Slots : << t, r >> # w
    BY <1>0, <1>3
  <2>2. \A r \in Slots : worker'[<< t, r >>] = worker[<< t, r >>] /\ pipe'[<< t, r >>] = pipe[<< t, r >>]
    BY <1>1, <1>a, <2>1 DEF Send
  <2>3. live'[t] = live[t]
    BY <1>1, <1>3, <1>a
  <2>4. FlightAt(t)'
    BY <1>a, <1>b, <2>2, <2>3, FlightKept DEF EventsKept
  <2> QED
    BY <1>0, <1>2, <1>3, <2>4
<1>4. CASE t = u
  <2>1. Quiet(t)
    BY <1>4, <1>a, <1>b DEF SoleAt, Chosen, At
  <2>2. live'[t] = s /\ s # 0
    BY <1>1, <1>4, <1>a
  <2>3. worker'[<< t, s >>] # Gone
    BY <1>0, <1>1, <1>4, <1>a DEF Gone, Alive
  <2>4. \A r \in Slots : r # s => worker'[<< t, r >>] = Gone /\ pipe'[<< t, r >>] = << >>
    <3> SUFFICES ASSUME NEW r \in Slots, r # s
                 PROVE  worker'[<< t, r >>] = Gone /\ pipe'[<< t, r >>] = << >>
      OBVIOUS
    <3>1. << t, r >> # w
      BY <1>0
    <3>2. worker'[<< t, r >>] = worker[<< t, r >>] /\ pipe'[<< t, r >>] = pipe[<< t, r >>]
      BY <1>1, <1>a, <3>1 DEF Send
    <3> QED
      BY <2>1, <3>2 DEF Quiet, Unused
  <2>5. \A i \in DOMAIN pipe'[<< t, s >>] : pipe'[<< t, s >>][i].kind \notin EndKinds
    <3>1. pipe[w] = << >>
      BY <2>1, <1>0, <1>4 DEF Quiet, Unused
    <3>2. ASSUME NEW with, Send(w, "again", with)
          PROVE  \A i \in DOMAIN pipe'[w] : pipe'[w][i].kind = "again"
      <4> DEFINE m == Message(w, "again", with)
      <4>1. pipe'[w] = Append(<< >>, m) /\ m.kind = "again"
        BY <3>1, <3>2, <1>a DEF Send, Message
      <4> HIDE DEF m
      <4> QED
        BY <4>1
    <3> QED
      BY <1>0, <1>1, <1>4, <3>1, <3>2 DEF EndKinds
  <2>6. NoEvents(t)'
    BY <1>b, <2>1 DEF Quiet, NoEvents
  <2>7. \A r \in Slots : \A i \in DOMAIN pipe'[<< t, r >>] :
           pipe'[<< t, r >>][i].kind \notin EndKinds
    <3> TAKE r \in Slots
    <3>1. CASE r = s
      BY <2>5, <3>1
    <3>2. CASE r # s
      <4>1. pipe'[<< t, r >>] = << >>
        BY <2>4, <3>2
      <4> QED
        BY <4>1
    <3> QED
      BY <3>1, <3>2
  <2>8. FlightAt(t)'
    BY <2>2, <2>3, <2>4, <2>6, <2>7 DEF FlightAt, NoEvents, NoEnds, EndLast
  <2> QED
    BY <1>0, <1>2, <1>4, <2>2, <2>8
<1> QED
  BY <1>3, <1>4

\* Done and cancelled are final.
LEMMA OpenBefore ==
    ASSUME TypeInv, TasksNext, NEW t \in Tasks, Open(t)'
    PROVE  Open(t) /\ (task[t].status = "failed" => task'[t].status = "failed")
<1>1. CASE ValidTaskTransition(task[t], task'[t])
  BY <1>1 DEF Open, ValidTaskTransition, ValidTaskStatus, TaskStatusEdge
<1> QED
  BY <1>1, TaskMoves DEF Open

\* The pool ends a session only with a report, and reports of a task without a
\* session nothing.
LEMMA PoolMoves ==
    ASSUME TypeInv, NEW w \in Workers, Read(w) \/ ExitSeen(w) \/ HealthTimeout(w),
           NEW t \in Tasks, FlightAt(t)
    PROVE  /\ UNCHANGED << task, run, sched >> /\ sched.at \in Awaits
           /\ live[t] = 0 /\ NoEvents(t) => live'[t] = 0 /\ NoEvents(t)'
           /\ live[t] # 0 => live'[t] # 0 \/ EndQueued(t)'
           /\ live[t] = 0 => live'[t] = 0
           /\ EndQueued(t) => EndQueued(t)'
<1>0. PICK u \in Tasks, s \in Slots : w = << u, s >> /\ w[1] = u /\ w[2] = s
  BY WorkerParts
<1>a. live \in [Tasks -> Slots \cup {0}] /\ PipeTyped
  BY TypeParts DEF ProcessesTyped, PoolTyped
<1>1. UNCHANGED << task, run, sched >> /\ sched.at \in Awaits
  BY DEF Read, ExitSeen, HealthTimeout, rows, AtAwait
<1>2. \/ UNCHANGED events /\ (live[u] = 0 \/ live' = live)
      \/ \E m \in Messages : /\ Report(m) /\ m.task = u
                             /\ m.kind \in EndKinds \/ live' = live
                             /\ t = u => live[t] # 0
  <2>b. \A b \in BOOLEAN : /\ Message(w, "error", b) \in Messages
                           /\ Message(w, "error", b).task = u
                           /\ Message(w, "error", b).kind \in EndKinds
    BY <1>0, MessageTyped DEF EndKinds, From
  <2>1. CASE Read(w)
    <3>1. /\ Head(pipe[w]) \in Messages /\ Head(pipe[w]).task = u /\ Report(Head(pipe[w]))
          /\ Head(pipe[w]).kind \in EndKinds \/ live' = live
          /\ pipe[w] # << >>
      BY <1>0, <1>a, <2>1, ReadTyped DEF Read, From, EndKinds
    <3>2. t = u => live[t] # 0
      BY <1>0, <3>1 DEF FlightAt
    <3> QED
      BY <3>1, <3>2
  <2>2. CASE ExitSeen(w)
    <3>1. \/ live[u] = 0 /\ UNCHANGED events
          \/ live[u] # 0 /\ Report(Message(w, "error", FALSE))
      BY <1>0, <2>2 DEF ExitSeen
    <3> QED
      BY <2>b, <3>1
  <2>3. CASE HealthTimeout(w)
    <3>1. t = u => live[t] # 0
      BY <1>0, <2>3 DEF HealthTimeout, FlightAt
    <3>2. Report(Message(w, "error", TRUE))
      BY <2>3 DEF HealthTimeout
    <3> QED
      BY <2>b, <3>1, <3>2
  <2> QED
    BY <2>1, <2>2, <2>3
<1>3. live' = live \/ live' = [live EXCEPT ![u] = 0]
  BY <1>0 DEF Read, ExitSeen, HealthTimeout
<1>4. /\ live[t] = 0 => live'[t] = 0
      /\ t # u => live'[t] = live[t]
  BY <1>3, <1>a
<1>5. CASE UNCHANGED events /\ (live[u] = 0 \/ live' = live)
  BY <1>1, <1>4, <1>5 DEF NoEvents, EndQueued
<1>6. ASSUME NEW m \in Messages, Report(m), m.task = u,
             m.kind \in EndKinds \/ live' = live, t = u => live[t] # 0
      PROVE  /\ live[t] = 0 /\ NoEvents(t) => NoEvents(t)'
             /\ live[t] # 0 => live'[t] # 0 \/ EndQueued(t)'
             /\ EndQueued(t) => EndQueued(t)'
  BY <1>4, <1>6, ReportAdds
<1> QED
  BY <1>1, <1>2, <1>4, <1>5, <1>6

\* Pool, processes and the user: whoever acts while the loop awaits.
LEMMA OthersAttend ==
    ASSUME TypeInv, NEW t \in Tasks, FlightAt(t), HandAt(t), CareAt(t), Open(t)',
           \/ \E w \in Workers : WorkerStep(w) \/ Read(w) \/ ExitSeen(w) \/ HealthTimeout(w)
           \/ \E u \in Tasks : AnswerRequest(u) \/ Backoff(u)
           \/ CancelFeature
    PROVE  HandAt(t)' /\ CareAt(t)'
<1>a. /\ task \in [Tasks -> TaskType] /\ run \in [Tasks -> RunType]
      /\ sched.at \in Awaits => sched.at \notin {"retrying", "persisting", "completing"}
  BY TypeParts DEF RowsTyped, Awaits
<1>1. ASSUME NEW w \in Workers, WorkerStep(w) PROVE HandAt(t)' /\ CareAt(t)'
  <2>1. UNCHANGED << task, run, live, events, sched >>
    BY <1>1 DEF WorkerStep, Claim, Ask, Checkpoint, Submit, Finish, Fail, Ends, Die,
       WorkerOnly, rows
  <2> QED
    BY <2>1 DEF HandAt, CareAt, Running, NoEvents, EndQueued, At
<1>2. ASSUME NEW w \in Workers, Read(w) \/ ExitSeen(w) \/ HealthTimeout(w)
      PROVE  HandAt(t)' /\ CareAt(t)'
  <2>1. /\ UNCHANGED << task, run, sched >> /\ sched.at \in Awaits
        /\ live[t] = 0 /\ NoEvents(t) => live'[t] = 0 /\ NoEvents(t)'
        /\ live[t] # 0 => live'[t] # 0 \/ EndQueued(t)'
        /\ live[t] = 0 => live'[t] = 0
        /\ EndQueued(t) => EndQueued(t)'
    BY <1>2, PoolMoves
  <2>2. HandAt(t)'
    BY <2>1, <1>a DEF HandAt, At
  <2>3. t \in Running' <=> t \in Running
    BY <2>1 DEF Running
  <2> QED
    BY <2>1, <2>2, <2>3 DEF CareAt
<1>3. ASSUME NEW u \in Tasks, AnswerRequest(u) \/ Backoff(u)
      PROVE  HandAt(t)' /\ CareAt(t)'
  <2>1. UNCHANGED << task, live, events, sched >>
    BY <1>3 DEF AnswerRequest, Backoff
  <2>2. /\ run'[t].status # run[t].status => run[t].status \in Waits
        /\ run'[t].status \in {run[t].status, "running"}
    BY <1>3, <1>a DEF AnswerRequest, Backoff, RunType
  <2>3. t \in Running' <=> t \in Running
    BY <2>1 DEF Running
  <2>4. HandAt(t)'
    BY <2>1, <2>2 DEF HandAt, At, NoEvents
  <2> QED
    BY <2>1, <2>2, <2>3, <2>4 DEF CareAt, NoEvents, EndQueued, Waits
<1>4. ~ CancelFeature
  BY <1>a DEF CancelFeature, Open, TaskType
<1> QED
  BY <1>1, <1>2, <1>3, <1>4

\* A claim neither begins nor ends a run.
LEMMA ClaimAttends ==
    ASSUME TypeInv, NEW t \in Tasks, FlightAt(t), HandAt(t), CareAt(t),
           GrantClaim \/ DenyClaim
    PROVE  HandAt(t)' /\ CareAt(t)'
<1>a. task \in [Tasks -> TaskType]
  BY TypeParts DEF RowsTyped
<1>b. Handling({"claim"})
  BY DEF GrantClaim, DenyClaim
<1>1. /\ sched.at = "draining" /\ msg = events[1] /\ msg.kind \notin EndKinds
      /\ EventsKept
  BY <1>b, HandledOld, HandlingTyped, HandlingKeeps DEF EndKinds
<1>2. UNCHANGED << run, live >> /\ (UNCHANGED sched \/ EndTick)
  BY DEF GrantClaim, DenyClaim, Kept
<1>3. sched'.at \in {"draining", "sleeping"}
  BY <1>1, <1>2, AsleepTyped DEF EndTick
<1>4. t \in Running' => t \in Running
  <2> DEFINE u == Later(msg.task, byPath[msg.with])
  <2>1. UNCHANGED task \/ Transition(u, Suspended(u))
    BY DEF GrantClaim, DenyClaim, Kept
  <2> HIDE DEF u
  <2>2. CASE UNCHANGED task
    BY <2>2 DEF Running
  <2>3. CASE Transition(u, Suspended(u)) /\ u \in Tasks
    <3>1. task'[u].collab = "suspended" /\ \A v \in Tasks : v # u => task'[v] = task[v]
      BY <2>3, <1>a DEF Transition, Suspended, TaskType
    <3> QED
      BY <3>1 DEF Running
  <2>4. CASE Transition(u, Suspended(u)) /\ u \notin Tasks
    BY <2>4, <1>a DEF Transition, Running
  <2> QED
    BY <2>1, <2>2, <2>3, <2>4
<1>5. /\ EndQueued(t) => EndQueued(t)'
      /\ NoEvents(t) => NoEvents(t)'
  BY <1>1, EndStays, QueueKept
<1>6. HandAt(t)'
  BY <1>2, <1>3 DEF HandAt, EndInHand, At
<1> QED
  BY <1>1, <1>2, <1>4, <1>5, <1>6 DEF CareAt, EndInHand

\* Where the loop has nothing of t in hand, a run not cancelled is all there
\* is to show.
LEMMA HandAway ==
    ASSUME NEW t, run'[t].status # "cancelled",
           \/ sched'.task # t
           \/ sched'.at \in {"sleeping", "draining", "dispatching", "preparing"}
    PROVE  HandAt(t)'
BY DEF HandAt, EndInHand, At

\* A step that takes nothing away from what attends to t.
LEMMA CareKept ==
    ASSUME NEW t, CareAt(t), live' = live,
           t \in Running' => t \in Running \/ live[t] # 0,
           EndQueued(t) => EndQueued(t)',
           NoEvents(t) => NoEvents(t)',
           run[t].status = "failed" => run'[t].status = "failed",
           \/ sched.at \notin EndInHand \ {"retrying"}
           \/ sched.task # t
           \/ sched'.at \in EndInHand \ {"retrying"} /\ sched'.task = t
    PROVE  CareAt(t)'
BY DEF CareAt

\* The message in hand is the first of the queue.
LEMMA InHand ==
    ASSUME TypeInv, NEW kinds, Handling(kinds), NEW t
    PROVE  /\ sched.at = "draining" /\ msg = events[1] /\ msg.kind \in kinds
           /\ msg.task \in Tasks /\ 1 \in DOMAIN events
           /\ t # msg.task \/ msg.kind \notin EndKinds => (EndQueued(t) => EndQueued(t)')
           /\ NoEvents(t) => t # msg.task /\ NoEvents(t)'
<1>1. /\ sched.at = "draining" /\ msg = events[1] /\ msg.kind \in kinds
      /\ msg.task \in Tasks /\ EventsKept /\ 1 \in DOMAIN events
  BY HandledOld, HandlingTyped, HandlingKeeps
<1>2. t # msg.task \/ msg.kind \notin EndKinds => (EndQueued(t) => EndQueued(t)')
  BY <1>1, EndStays
<1>3. NoEvents(t) => t # msg.task /\ NoEvents(t)'
  <2>1. NoEvents(t) => t # events[1].task
    BY <1>1 DEF NoEvents
  <2> QED
    BY <1>1, <2>1, QueueKept
<1> QED
  BY <1>1, <1>2, <1>3

\* A message that is not an end is handled and forgotten.
LEMMA AskAttends ==
    ASSUME TypeInv, NEW t \in Tasks, HandAt(t), CareAt(t), Open(t),
           DropMessage \/ HandleAsk
    PROVE  HandAt(t)' /\ CareAt(t)'
<1>a. run \in [Tasks -> RunType]
  BY TypeParts DEF RowsTyped
<1>1. PICK kinds : /\ Handling(kinds)
                   /\ HandleAsk => kinds \cap EndKinds = {}
  BY DEF DropMessage, HandleAsk, EndKinds
<1>2. /\ sched.at = "draining" /\ msg.kind \in kinds /\ msg.task \in Tasks
      /\ t # msg.task \/ msg.kind \notin EndKinds => (EndQueued(t) => EndQueued(t)')
      /\ NoEvents(t) => t # msg.task /\ NoEvents(t)'
  BY <1>1, InHand
<1> HIDE DEF msg
<1>3. UNCHANGED << task, live, sched >>
  BY DEF DropMessage, HandleAsk, LoopOnly, Kept
<1>4. t \in Running' => t \in Running
  BY <1>3 DEF Running
<1>5. CASE DropMessage
  <2>1. Ignored(msg.task) /\ run' = run
    BY <1>5 DEF DropMessage, Kept
  <2>2. t # msg.task
    BY <2>1 DEF Ignored, HandAt, Open
  <2>3. run'[t].status # "cancelled" /\ HandAt(t)'
    BY <1>2, <1>3, <2>1, HandAway DEF HandAt
  <2> QED
    BY <1>2, <1>3, <1>4, <2>1, <2>2, <2>3, CareKept DEF EndInHand
<1>6. CASE HandleAsk
  <2>1. /\ run' = [run EXCEPT ![msg.task] = [@ EXCEPT !.status = msg.with]]
        /\ msg.kind \in {"ask", "again"} /\ msg.with \in Waits
    <3>1. run' = [run EXCEPT ![msg.task] = [@ EXCEPT !.status = msg.with]]
      BY <1>6 DEF HandleAsk
    <3>2. Handling({"ask", "again"})
      BY <1>6 DEF HandleAsk
    <3> QED
      BY <3>1, <3>2, HandlingTyped
  <2>2. /\ t # msg.task => run'[t] = run[t]
        /\ t = msg.task => run'[t].status \in Waits
    BY <1>a, <2>1 DEF RunType
  <2>3. HandAt(t)'
    <3>1. run'[t].status # "cancelled"
      BY <2>2 DEF HandAt, Waits
    <3> QED
      BY <1>2, <1>3, <3>1, HandAway
  <2>4. msg.kind \notin EndKinds
    BY <2>1 DEF EndKinds
  <2>5. CASE t \in Running /\ run[t].status = "failed" /\ NoEvents(t)
    <3>1. run'[t].status = "failed" /\ NoEvents(t)'
      BY <1>2, <2>2, <2>5
    <3> QED
      BY <2>3, <3>1 DEF CareAt
  <2>6. CASE ~ (t \in Running /\ run[t].status = "failed" /\ NoEvents(t))
    BY <1>2, <1>3, <1>4, <2>3, <2>4, <2>6 DEF CareAt, EndInHand
  <2> QED
    BY <2>5, <2>6
<1> QED
  BY <1>5, <1>6

\* The end of a run takes the loop to it, or the task is done.
LEMMA EndAttends ==
    ASSUME TypeInv, NEW t \in Tasks, FlightAt(t), HandAt(t), CareAt(t), Open(t)',
           HandleImplicit \/ HandleSubmitted \/ HandleError
    PROVE  HandAt(t)' /\ CareAt(t)'
<1>a. /\ task \in [Tasks -> TaskType] /\ sched \in SchedType
      /\ events \in Seq(Messages)
  BY TypeParts DEF RowsTyped, SchedTyped, PoolTyped
<1>1. PICK kinds \in SUBSET EndKinds : Handling(kinds)
  BY DEF HandleImplicit, HandleSubmitted, HandleError, EndKinds
<1>2. /\ sched.at = "draining" /\ msg.kind \in EndKinds /\ msg.task \in Tasks
      /\ msg = events[1] /\ 1 \in DOMAIN events
      /\ t # msg.task => (EndQueued(t) => EndQueued(t)')
      /\ NoEvents(t) => t # msg.task /\ NoEvents(t)'
  BY <1>1, InHand
<1>3. UNCHANGED << run, live >>
  BY DEF HandleImplicit, HandleSubmitted, HandleError, LoopOnly, Kept
<1>4. \/ EndTick /\ UNCHANGED task
      \/ sched'.at \in {"completing", "squashing", "logging"} /\ sched'.task = msg.task
  BY <1>a DEF HandleImplicit, HandleSubmitted, HandleError, SchedType, Kept
<1>5. CASE t # msg.task
  <2>1. task'[t] = task[t]
    BY <1>a, <1>5 DEF HandleImplicit, HandleSubmitted, HandleError, Kept, Transition
  <2>2. HandAt(t)'
    <3>1. sched'.task # t \/ sched'.at = "sleeping"
      BY <1>4, <1>5, AsleepTyped DEF EndTick
    <3> QED
      BY <1>3, <3>1, HandAway DEF HandAt
  <2>3. t \in Running' => t \in Running
    BY <2>1 DEF Running
  <2> QED
    BY <1>2, <1>3, <1>5, <2>2, <2>3, CareKept DEF EndInHand
<1>6. CASE t = msg.task
  <2>1. live[t] = 0 /\ NoEvents(t)'
    <3> HIDE DEF msg
    <3>1. live[t] = 0
      BY <1>2, <1>6 DEF FlightAt, NoEnds
    <3>2. \A j \in DOMAIN events : events[j].task = t => j <= 1
      BY <1>2, <1>6 DEF FlightAt, EndLast
    <3>3. events # << >> /\ events' = Tail(events)
      BY <1>1 DEF Handling
    <3>4. \A i \in DOMAIN events' : i + 1 \in DOMAIN events /\ events'[i] = events[i + 1]
                                    /\ i >= 1 /\ i \in Nat
      <4>1. Tail(events) \in Seq(Messages)
        BY <1>a, <3>3
      <4> QED
        BY <1>a, <3>3, <4>1, TailKeeps
    <3>5. \A i \in DOMAIN events' : events'[i].task # t
      <4> SUFFICES ASSUME NEW i \in DOMAIN events', events'[i].task = t PROVE FALSE
        OBVIOUS
      <4>1. i + 1 <= 1
        BY <3>2, <3>4
      <4> QED
        BY <3>4, <4>1
    <3> QED
      BY <3>1, <3>5 DEF NoEvents
  <2>2. CASE HandleImplicit
    <3>1. \/ Allowed(t, WithStatus(t, "done")) /\ Transition(t, WithStatus(t, "done"))
          \/ ~ Allowed(t, WithStatus(t, "done")) /\ UNCHANGED task /\ EndTick
      BY <1>6, <2>2 DEF HandleImplicit
    <3>2. CASE Transition(t, WithStatus(t, "done"))
      <4>1. task'[t].status = "done"
        BY <1>a, <3>2 DEF Transition, WithStatus, TaskType
      <4> QED
        BY <4>1 DEF Open
    <3>3. CASE ~ Allowed(t, WithStatus(t, "done")) /\ UNCHANGED task /\ EndTick
      <4>1. t \notin Running
        <5> SUFFICES ASSUME task[t] = [status |-> "running", collab |-> "branch_open"]
                     PROVE  Allowed(t, WithStatus(t, "done"))
          BY <3>3 DEF Running
        <5>1. WithStatus(t, "done") = [status |-> "done", collab |-> "branch_open"]
          BY DEF WithStatus
        <5> QED
          BY <5>1 DEF Allowed, ValidTaskTransition, ValidTaskStatus, TaskStatusEdge
      <4>2. HandAt(t)'
        BY <1>3, <3>3, AsleepTyped, HandAway DEF HandAt, EndTick
      <4> QED
        BY <3>3, <4>1, <4>2 DEF CareAt, Running
    <3> QED
      BY <3>1, <3>2, <3>3
  <2>3. CASE HandleSubmitted \/ HandleError
    <3>1. sched'.at \in {"squashing", "logging"} /\ sched'.task = t
      BY <1>6, <1>a, <2>3 DEF HandleSubmitted, HandleError, SchedType
    <3> QED
      BY <1>3, <2>1, <3>1 DEF HandAt, CareAt, EndInHand, At
  <2> QED
    BY <2>2, <2>3
<1> QED
  BY <1>5, <1>6

\* The end in hand is dealt with: the task is done, failed or ready again, or
\* its run has failed, unless the write is refused, as it is to a task that is
\* not running.
LEMMA SettleAttends ==
    ASSUME TypeInv, NEW t \in Tasks, HandAt(t), CareAt(t), Open(t)',
           SquashMerges \/ SquashRetries \/ CatchesUp \/ SquashExhausts
           \/ DecideRetry \/ AwaitRetry
    PROVE  HandAt(t)' /\ CareAt(t)'
<1>a. /\ task \in [Tasks -> TaskType] /\ run \in [Tasks -> RunType] /\ sched \in SchedType
      /\ sched.at \in TaskInHand => sched.task \in Tasks
  BY TypeParts DEF RowsTyped, SchedTyped
<1> DEFINE u == sched.task
<1>1. /\ sched.at \in EndInHand /\ u \in Tasks /\ UNCHANGED << events, live >>
      /\ AwaitRetry <=> sched.at = "retrying"
  BY <1>a DEF SquashMerges, SquashRetries, CatchesUp, SquashExhausts, DecideRetry, AwaitRetry,
     At, EndInHand, TaskInHand, LoopOnly
<1>2. /\ EndQueued(t) => EndQueued(t)'
      /\ NoEvents(t) => NoEvents(t)'
  BY <1>1 DEF EndQueued, NoEvents
<1>3. /\ EndTick => sched'.at = "sleeping"
      /\ NextEvent => sched'.at = "draining"
  BY AsleepTyped, NextEventTyped DEF EndTick
<1>4. CASE t # u
  <2>1. task'[t] = task[t] /\ run'[t] = run[t]
    BY <1>a, <1>4 DEF SquashMerges, SquashRetries, CatchesUp, SquashExhausts, DecideRetry,
       AwaitRetry, Kept, Transition
  <2>2. EndTick \/ NextEvent \/ sched'.task = u
    BY <1>a, GotoTyped DEF SquashMerges, SquashRetries, CatchesUp, SquashExhausts, DecideRetry,
       AwaitRetry, SchedType, SchedAt, Awaits
  <2>3. HandAt(t)'
    BY <1>3, <1>4, <2>1, <2>2, HandAway DEF HandAt
  <2>4. t \in Running' => t \in Running
    BY <2>1 DEF Running
  <2> QED
    BY <1>1, <1>2, <1>4, <2>1, <2>3, <2>4, CareKept
<1>5. CASE t = u
  <2>1. /\ live[t] = 0 /\ NoEvents(t) /\ live'[t] = 0 /\ NoEvents(t)'
        /\ run[t].status # "cancelled"
        /\ sched.at = "retrying" => task[t].status = "ready"
    BY <1>1, <1>2, <1>5 DEF HandAt, At
  <2>r. t \in Running => task[t] = [status |-> "running", collab |-> "branch_open"]
    BY DEF Running
  <2>2. CASE SquashMerges
    <3> DEFINE merged == [status |-> "done", collab |-> "merged"]
    <3>1. \/ Transition(t, merged)
          \/ ~ Allowed(t, merged) /\ UNCHANGED << task, run >> /\ EndTick
      BY <1>5, <2>2 DEF SquashMerges
    <3>2. ~ Transition(t, merged)
      BY <1>a DEF Transition, Open
    <3>3. t \notin Running
      BY <2>r, <3>1, <3>2 DEF Allowed, ValidTaskTransition, ValidTaskStatus, TaskStatusEdge,
         ValidTaskCollab, TaskCollabEdge
    <3>4. HandAt(t)'
      BY <1>3, <2>1, <3>1, <3>2, HandAway
    <3> QED
      BY <3>1, <3>2, <3>3, <3>4 DEF CareAt, Running
  <2>3. CASE SquashRetries \/ CatchesUp
    <3>1. UNCHANGED << task, run >>
      BY <2>3 DEF SquashRetries, CatchesUp, Kept
    <3>2. sched'.at \in {"squashing", "catchingup"} /\ sched'.task = t
      BY <1>a, <1>5, <2>3, GotoTyped DEF SquashRetries, CatchesUp, SchedType, SchedAt, Awaits
    <3> QED
      BY <2>1, <3>1, <3>2 DEF HandAt, CareAt, EndInHand, At
  <2>4. CASE SquashExhausts
    <3> DEFINE failed == WithStatus(t, "failed")
    <3>0. failed = [task[t] EXCEPT !.status = "failed"]
      BY DEF WithStatus
    <3>1. \/ /\ Transition(t, failed) /\ UNCHANGED run
             /\ sched'.at = "completing" \/ EndTick
          \/ ~ Allowed(t, failed) /\ UNCHANGED << task, run >> /\ EndTick
      BY <1>a, <1>5, <2>4 DEF SquashExhausts, SchedType
    <3>2. CASE Transition(t, failed) /\ UNCHANGED run /\ (sched'.at = "completing" \/ EndTick)
      <4>1. task'[t].status = "failed"
        BY <1>a, <3>0, <3>2 DEF Transition, TaskType
      <4>2. sched'.at \in {"completing", "sleeping"}
        BY <1>3, <3>2
      <4> QED
        BY <2>1, <3>2, <4>1, <4>2 DEF HandAt, CareAt, Running, EndInHand, At
    <3>3. CASE ~ Allowed(t, failed) /\ UNCHANGED << task, run >> /\ EndTick
      <4>1. t \notin Running
        BY <2>r, <3>0, <3>3 DEF Allowed, ValidTaskTransition, ValidTaskStatus, TaskStatusEdge
      <4>2. HandAt(t)'
        BY <1>3, <2>1, <3>3, HandAway
      <4> QED
        BY <3>3, <4>1, <4>2 DEF CareAt, Running
    <3> QED
      BY <3>1, <3>2, <3>3
  <2>5. CASE DecideRetry
    <3> DEFINE again == WithStatus(t, "ready")
    <3>0. again = [task[t] EXCEPT !.status = "ready"]
      BY DEF WithStatus
    <3>1. \/ /\ run' = [run EXCEPT ![t] = [@ EXCEPT !.status = "failed"]]
             /\ NextEvent /\ UNCHANGED task
          \/ UNCHANGED run /\ Transition(t, again) /\ Goto("retrying")
          \/ UNCHANGED << run, task >> /\ ~ Allowed(t, again) /\ EndTick
      BY <1>5, <2>5 DEF DecideRetry
    <3>2. CASE run' = [run EXCEPT ![t] = [@ EXCEPT !.status = "failed"]] /\ NextEvent
      <4>1. run'[t].status = "failed"
        BY <1>a, <3>2 DEF RunType
      <4>2. HandAt(t)'
        BY <1>3, <3>2, <4>1, HandAway
      <4> QED
        BY <2>1, <4>1, <4>2 DEF CareAt
    <3>3. CASE UNCHANGED run /\ Transition(t, again) /\ Goto("retrying")
      <4>1. task'[t].status = "ready"
        BY <1>a, <3>0, <3>3 DEF Transition, TaskType
      <4>2. sched'.at = "retrying"
        BY <1>a, <3>3, GotoTyped DEF SchedAt
      <4> QED
        BY <2>1, <3>3, <4>1, <4>2 DEF HandAt, CareAt, Running, EndInHand, At
    <3>4. CASE UNCHANGED << run, task >> /\ ~ Allowed(t, again) /\ EndTick
      <4>1. t \notin Running
        BY <2>r, <3>0, <3>4 DEF Allowed, ValidTaskTransition, ValidTaskStatus, TaskStatusEdge
      <4>2. HandAt(t)'
        BY <1>3, <2>1, <3>4, HandAway
      <4> QED
        BY <3>4, <4>1, <4>2 DEF CareAt, Running
    <3> QED
      BY <3>1, <3>2, <3>3, <3>4
  <2>6. CASE AwaitRetry
    <3>1. UNCHANGED task /\ NextEvent /\ run'[t].status = "retry_await"
      BY <1>a, <1>5, <2>6 DEF AwaitRetry, RunType
    <3>2. t \notin Running'
      BY <1>1, <2>1, <2>6, <3>1 DEF Running
    <3>3. HandAt(t)'
      BY <1>3, <3>1, HandAway
    <3> QED
      BY <3>2, <3>3 DEF CareAt
  <2> QED
    BY <2>2, <2>3, <2>4, <2>5, <2>6
<1> QED
  BY <1>4, <1>5

\* Ticks, dispatch and the reconciliation after a landing: a task that
\* becomes running again has a session.
LEMMA RestAttends ==
    ASSUME TypeInv, NEW t \in Tasks, HandAt(t), CareAt(t), Open(t), Open(t)',
           TasksNext,
           \/ BeginTick \/ Coordinate \/ Persist \/ CompleteRun \/ RebaseBlocked
           \/ \E u \in Tasks : RebaseSuspended(u) \/ DispatchTask(u)
           \/ \E clean \in BOOLEAN : RebaseDone(clean)
    PROVE  HandAt(t)' /\ CareAt(t)'
<1>a. /\ task \in [Tasks -> TaskType] /\ run \in [Tasks -> RunType] /\ sched \in SchedType
      /\ sched.at \in TaskInHand => sched.task \in Tasks
  BY TypeParts DEF RowsTyped, SchedTyped
<1>1. UNCHANGED << events, live >> /\ sched.at \notin EndInHand
  BY DEF BeginTick, Coordinate, Persist, CompleteRun, RebaseBlocked, RebaseSuspended,
     DispatchTask, RebaseDone, LoopOnly, At, EndInHand
<1>2. /\ EndQueued(t) => EndQueued(t)'
      /\ NoEvents(t) => NoEvents(t)'
  BY <1>1 DEF EndQueued, NoEvents
<1>3. /\ EndTick => sched'.at = "sleeping"
      /\ NextEvent => sched'.at = "draining"
  BY AsleepTyped, NextEventTyped DEF EndTick
<1>4. ASSUME t \in Running' => t \in Running \/ live[t] # 0,
             run[t].status = "failed" => run'[t].status = "failed"
      PROVE  CareAt(t)'
  BY <1>1, <1>2, <1>4, CareKept
<1>5. UNCHANGED task => (t \in Running' => t \in Running)
  BY DEF Running
<1>6. CASE BeginTick
  <2>1. UNCHANGED << task, run >> /\ NextEvent
    BY <1>6 DEF BeginTick, Kept
  <2> QED
    BY <1>3, <1>4, <1>5, <2>1, HandAway DEF HandAt
<1>7. CASE Coordinate
  <2>1. /\ UNCHANGED run
        /\ task' = [u \in Tasks |-> IF u \in Overlapping THEN Suspended(u) ELSE task[u]]
    BY <1>7 DEF Coordinate
  <2>2. sched'.at \in {"sleeping", "dispatching"}
    <3> DEFINE d == Dispatchable
               n == IdleWorkers
    <3>1. \/ EndTick
          \/ sched' = [sched EXCEPT !.at = "dispatching", !.todo = d, !.idle = n]
      BY <1>7 DEF Coordinate, EndTick
    <3> HIDE DEF d, n
    <3> QED
      BY <3>1, <1>3, <1>a DEF SchedType
  <2>3. t \in Running' => t \in Running
    <3>1. t \in Overlapping => task'[t].collab = "suspended"
      BY <1>a, <2>1 DEF Suspended, TaskType
    <3>2. t \notin Overlapping => task'[t] = task[t]
      BY <2>1
    <3> QED
      BY <3>1, <3>2 DEF Running
  <2> QED
    BY <1>4, <2>1, <2>2, <2>3, HandAway DEF HandAt
<1>8. CASE Persist
  <2> DEFINE u == sched.task
  <2>1. /\ UNCHANGED task /\ u \in Tasks /\ sched.at = "persisting"
        /\ run'[u].status = "running" /\ (t # u => run'[t] = run[t])
    BY <1>8, <1>a DEF Persist, At, TaskInHand
  <2>2. sched'.at \in {"sleeping", "dispatching"}
    <3>1. EndTick \/ sched'.at = "dispatching"
      BY <1>8, <1>a DEF Persist, SchedType
    <3> QED
      BY <1>3, <3>1
  <2>3. HandAt(t)'
    BY <2>1, <2>2, HandAway DEF HandAt
  <2>4. CASE t = u
    <3>1. live'[t] # 0
      BY <1>1, <2>1, <2>4 DEF HandAt, At
    <3> QED
      BY <2>3, <3>1 DEF CareAt
  <2>5. CASE t # u
    BY <1>4, <1>5, <2>1, <2>3, <2>5
  <2> QED
    BY <2>4, <2>5
<1>9. CASE CompleteRun
  <2> DEFINE u == sched.task
  <2>1. /\ UNCHANGED task /\ NextEvent /\ u \in Tasks /\ sched.at = "completing"
        /\ run'[u].status = "completed" /\ (t # u => run'[t] = run[t])
    BY <1>9, <1>a DEF CompleteRun, At, TaskInHand, RunType
  <2>2. HandAt(t)'
    BY <1>3, <2>1, HandAway DEF HandAt
  <2>3. CASE t = u
    <3>1. task'[t].status = "failed"
      BY <2>1, <2>3 DEF HandAt
    <3> QED
      BY <2>2, <3>1 DEF CareAt, Running
  <2>4. CASE t # u
    BY <1>4, <1>5, <2>1, <2>2, <2>4
  <2> QED
    BY <2>3, <2>4
<1>10. CASE RebaseBlocked \/ \E u \in Tasks : RebaseSuspended(u)
  <2>1. UNCHANGED << task, run >>
    BY <1>10 DEF RebaseBlocked, RebaseSuspended, Kept
  <2>2. /\ sched.at \in {"completing", "rebasing"} /\ sched'.at \in {"completing", "rebasing"}
        /\ sched'.task = sched.task
    <3>1. CASE RebaseBlocked
      <4>1. "completing" \in SchedAt
        BY DEF SchedAt
      <4> QED
        BY <3>1, <4>1, <1>a, GotoTyped DEF RebaseBlocked, At
    <3>2. ASSUME NEW u \in Tasks, RebaseSuspended(u)
          PROVE  sched.at = "completing" /\ sched'.at = "rebasing" /\ sched'.task = sched.task
      BY <3>2, <1>a DEF RebaseSuspended, SchedType, At
    <3> QED
      BY <1>10, <3>1, <3>2
  <2>3. HandAt(t)'
    BY <2>1, <2>2 DEF HandAt, EndInHand, At
  <2> QED
    BY <1>4, <1>5, <2>1, <2>3
<1>11. CASE \E u \in Tasks : DispatchTask(u)
  <2>1. PICK u \in Tasks : DispatchTask(u)
    BY <1>11
  <2>2. UNCHANGED task /\ sched'.at = "preparing"
    BY <2>1, <1>a DEF DispatchTask, SchedType
  <2>3. /\ run[t].status = "failed" => run'[t].status = "failed"
        /\ run'[t].status # "cancelled"
    BY <2>1, <1>a DEF DispatchTask, RunType, HandAt
  <2> QED
    BY <1>4, <1>5, <2>2, <2>3, HandAway
<1>12. CASE \E clean \in BOOLEAN : RebaseDone(clean)
  <2> DEFINE o == sched.other
  <2>1. o \in Tasks /\ sched.at = "rebasing" /\ UNCHANGED run
    BY <1>12, TypeParts DEF RebaseDone, SchedTyped, At
  <2>2. \/ UNCHANGED task /\ EndTick
        \/ /\ Goto("completing")
           /\ \E new \in {Reopened(o), [task[o] EXCEPT !.collab = "conflict"]} : Transition(o, new)
    BY <1>12 DEF RebaseDone
  <2>3. HandAt(t)'
    <3>1. CASE EndTick
      BY <1>3, <2>1, <3>1, HandAway DEF HandAt
    <3>2. CASE Goto("completing")
      <4>1. sched'.at = "completing" /\ sched'.task = sched.task
        BY <1>a, <3>2, GotoTyped DEF SchedAt
      <4>2. task[t].status = "failed" => task'[t].status = "failed"
        BY OpenBefore
      <4> QED
        BY <2>1, <4>1, <4>2 DEF HandAt, EndInHand, At
    <3> QED
      BY <2>2, <3>1, <3>2
  <2> HIDE DEF o
  <2>4. t \in Running' => t \in Running \/ live[t] # 0
    <3> SUFFICES ASSUME t \in Running', live[t] = 0 PROVE t \in Running
      OBVIOUS
    <3>1. task'[t] = [status |-> "running", collab |-> "branch_open"]
      BY DEF Running
    <3>2. CASE task'[t] = task[t]
      BY <3>1, <3>2 DEF Running
    <3>3. CASE t = o /\ \E new \in {Reopened(o), [task[o] EXCEPT !.collab = "conflict"]} :
                           Transition(o, new)
      <4>1. \/ task'[t] = [status |-> "ready", collab |-> "branch_open"]
            \/ task'[t] = [task[t] EXCEPT !.collab = "conflict"]
        BY <1>a, <2>1, <3>3 DEF Transition, Reopened
      <4>2. task[t] \in TaskType
        BY <1>a
      <4> QED
        BY <3>1, <4>1, <4>2 DEF TaskType
    <3> QED
      BY <1>a, <2>2, <3>2, <3>3 DEF Transition
  <2> QED
    BY <1>4, <2>1, <2>3, <2>4
<1> QED
  BY <1>6, <1>7, <1>8, <1>9, <1>10, <1>11, <1>12

\* A task that is launched has a session from then on.
LEMMA LaunchAttends ==
    ASSUME TypeInv, SoleInv, NEW w \in Workers, Launch(w),
           NEW t \in Tasks, FlightAt(t), HandAt(t), CareAt(t)
    PROVE  HandAt(t)' /\ CareAt(t)'
<1>a. /\ task \in [Tasks -> TaskType] /\ sched \in SchedType
      /\ live \in [Tasks -> Slots \cup {0}] /\ w[1] \in Tasks
  BY TypeParts, WorkerParts DEF RowsTyped, SchedTyped, PoolTyped
<1> DEFINE u == w[1]
<1>1. /\ UNCHANGED << events, run >> /\ sched.at = "preparing" /\ sched.task = u
      /\ live' = [live EXCEPT ![u] = w[2]]
      /\ Transition(u, Opened) \/ UNCHANGED task
      /\ Goto("persisting") \/ EndTick
  BY DEF Launch, Starts, At
<1>2. (live[t] # 0 => live'[t] # 0) /\ (t = u => live'[t] # 0)
  BY LaunchFlight
<1>3. \/ sched'.at = "persisting" /\ sched'.task = u
      \/ sched'.at = "sleeping"
  BY <1>1, <1>a, GotoTyped, AsleepTyped DEF SchedAt, EndTick
<1>4. HandAt(t)'
  BY <1>1, <1>2, <1>3 DEF HandAt, EndInHand, At
<1>5. CASE t = u
  BY <1>2, <1>4, <1>5 DEF CareAt
<1>6. CASE t # u
  <2>1. task'[t] = task[t] /\ live'[t] = live[t]
    BY <1>1, <1>6, <1>a DEF Transition
  <2> QED
    BY <1>1, <1>4, <2>1 DEF CareAt, Running, NoEvents, EndQueued, EndInHand
<1> QED
  BY <1>5, <1>6

LEMMA AttendedStep ==
    TypeInv /\ SoleInv /\ AttendedInv /\ Timely /\ [TasksNext]_vars => AttendedInv'
<1> SUFFICES ASSUME TypeInv, SoleInv, AttendedInv, Timely, [TasksNext]_vars,
                    NEW t \in Tasks, Open(t)'
             PROVE  FlightAt(t)' /\ HandAt(t)' /\ CareAt(t)'
  BY DEF AttendedInv
<1>1. CASE TasksNext
  <2>0. ~ Crash /\ ~ GitThrows
    <3>1. spent \in [Bounds -> Nat] /\ {"crashes", "git"} \subseteq Bounds
      BY DEF TypeInv, Bounds
    <3> QED
      BY <3>1 DEF Crash, GitThrows, Fault, Spend, Timely
  <2>1. Open(t) /\ FlightAt(t) /\ HandAt(t) /\ CareAt(t) /\ SoleAt(t)
    BY <1>1, OpenBefore DEF AttendedInv, SoleInv
  <2>2. ~ Recover
    BY <1>1, <2>0, NotRecovering
  <2>3. ASSUME \/ \E w \in Workers : \/ WorkerStep(w) \/ Read(w) \/ ExitSeen(w)
                                     \/ HealthTimeout(w)
               \/ \E u \in Tasks : AnswerRequest(u) \/ Backoff(u)
               \/ CancelFeature
        PROVE  FlightAt(t)' /\ HandAt(t)' /\ CareAt(t)'
    <3>1. HandAt(t)' /\ CareAt(t)'
      BY <2>1, <2>3, OthersAttend
    <3>2. FlightAt(t)'
      BY <2>1, <2>3, WorkerFlight, PoolFlight, UserFlight
    <3> QED
      BY <3>1, <3>2
  <2>4. ASSUME NEW w \in Workers, Launch(w)
        PROVE  FlightAt(t)' /\ HandAt(t)' /\ CareAt(t)'
    BY <2>1, <2>4, LaunchFlight, LaunchAttends
  <2>5. CASE GrantClaim \/ DenyClaim
    BY <2>1, <2>5, ClaimFlight, ClaimAttends
  <2>6. CASE LoopStep /\ ~ GrantClaim /\ ~ DenyClaim /\ ~ \E w \in Workers : Launch(w)
    <3>1. FlightAt(t)'
      BY <2>1, <2>6, LoopFlight
    <3>2. CASE DropMessage \/ HandleAsk
      BY <2>1, <3>1, <3>2, AskAttends
    <3>3. CASE HandleImplicit \/ HandleSubmitted \/ HandleError
      BY <2>1, <3>1, <3>3, EndAttends
    <3>4. CASE SquashMerges \/ SquashRetries \/ CatchesUp \/ SquashExhausts
               \/ DecideRetry \/ AwaitRetry
      BY <2>1, <3>1, <3>4, SettleAttends
    <3>5. CASE \/ BeginTick \/ Coordinate \/ Persist \/ CompleteRun \/ RebaseBlocked
               \/ \E u \in Tasks : RebaseSuspended(u) \/ DispatchTask(u)
               \/ \E clean \in BOOLEAN : RebaseDone(clean)
      BY <1>1, <2>1, <3>1, <3>5, RestAttends
    <3> QED
      BY <2>6, <3>2, <3>3, <3>4, <3>5 DEF LoopStep, HandleMessage
  <2> QED
    BY <1>1, <2>0, <2>2, <2>3, <2>4, <2>5, <2>6 DEF TasksNext
<1>2. CASE UNCHANGED vars
  BY <1>2 DEF vars, rows, processes, AttendedInv, Open, FlightAt, HandAt, CareAt, Running,
     NoEvents, NoEnds, EndLast, EndQueued, At
<1> QED
  BY <1>1, <1>2

LEMMA AttendedInit == InitTasks => AttendedInv
<1> SUFFICES ASSUME InitTasks, NEW t \in Tasks
             PROVE  FlightAt(t) /\ HandAt(t) /\ CareAt(t)
  BY DEF AttendedInv
<1>1. /\ events = << >> /\ sched.at = "sleeping"
      /\ live[t] = 0 /\ run[t].status = "none" /\ t \notin Running
      /\ \A s \in Slots : worker[<< t, s >>] = Gone /\ pipe[<< t, s >>] = << >>
  BY WorkerParts, AsleepTyped DEF InitTasks, Running
<1> QED
  BY <1>1, GoneTyped DEF FlightAt, HandAt, CareAt, EndLast, EndInHand, At

\* Nothing runs on unnoticed: as long as no crash and no git error cuts a
\* handler short and an end is heard of after what was said before it, a
\* running task has a session, or its end is queued or in the loop's hand, or
\* its failure was shown to the operator.
THEOREM NoTaskForgotten ==
    ASSUME MaxCrashes = 0, MaxGitErrors = 0, MaxLateReads = 0
    PROVE  TasksSpec => []RunningTasksAttended
<1>1. Timely
  BY DEF Timely
<1>2. TypeInv /\ [TasksNext]_vars /\ spent.crashes = 0 => (spent.crashes = 0)'
  <2> SUFFICES ASSUME TypeInv, [TasksNext]_vars, spent.crashes = 0 PROVE spent'.crashes = 0
    OBVIOUS
  <2>1. CASE TasksNext
    <3>1. ~ Crash
      BY <2>1 DEF TypeInv, Bounds, Crash, Fault, Spend
    <3> QED
      BY <2>1, <3>1, CrashesCounted
  <2>2. CASE UNCHANGED vars
    BY <2>2 DEF vars
  <2> QED
    BY <2>1, <2>2
<1>3. InitTasks => spent.crashes = 0
  BY DEF InitTasks
<1>4. SoleWithoutCrash /\ spent.crashes = 0 => SoleInv
  BY DEF SoleWithoutCrash
<1>5. TypeInv /\ SoleInv /\ AttendedInv /\ [TasksNext]_vars => AttendedInv'
  BY <1>1, AttendedStep
<1>6. AttendedInv => RunningTasksAttended
  <2> SUFFICES ASSUME AttendedInv, NEW t \in Running
               PROVE  Heard(t) \/ run[t].status = "failed"
    BY DEF RunningTasksAttended
  <2>1. CareAt(t)
    BY DEF AttendedInv, Open, Running
  <2> QED
    BY <2>1 DEF CareAt, Heard, EndQueued, EndKinds
<1> QED
  BY <1>2, <1>3, <1>4, <1>5, <1>6, AttendedInit, TasksInvariant, TasksSole, PTL DEF TasksSpec
=============================================================================
