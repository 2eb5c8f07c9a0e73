----------------------- MODULE FeatureLifecycleProofs -----------------------
(***************************************************************************)
(* Theorems about FeatureLifecycle, for every set of features, every       *)
(* dependency relation and every number of crashes.                        *)
(*                                                                         *)
(* The inductive invariants say what the running handler may still write.  *)
(* Only beginNextIntegration writes integrating, and while it has that     *)
(* write before it the feature it chose is still next in the queue: no     *)
(* other handler runs between the choice and the write.                    *)
(*                                                                         *)
(* TrainInv adds the order of those writes: a feature in the train is      *)
(* moved out before anything ends its phase or gives up its place.         *)
(* FifoInv compares sequence numbers with times of entry, until a crash    *)
(* starts the numbers again.  MergedInv says that a merged feature is      *)
(* never taken back to a phase before the merge.  SettledInv follows the   *)
(* three handlers that pass through a state nobody may be left in, write   *)
(* by write, to the end.                                                   *)
(***************************************************************************)
EXTENDS FeatureLifecycle, SequenceTheorems, TLAPS

\* Writes other than the one that starts an integration.
PlainWrites == {w \in Writes : w.op # "begin"}

TodoPlain == todo \in Seq(PlainWrites)

\* Only an advance names a phase, and only an advance or a move names a
\* state of the branch.
ProperWrites ==
    {w \in Writes :
        /\ w.op = "advance" <=> w.work # Keep
        /\ w.op \notin {"advance", "collab"} => w.collab = Keep
        /\ w.op = "collab" => w.collab # Keep
        /\ w.op = "advance" => w.collab \in {Keep, "branch_open"}}

\* What the handlers of one feature write that neither queue it nor record
\* its merge.
OwnWrites(f) ==
    {w \in ProperWrites : /\ w.feature = f
                          /\ w.op \notin {"begin", "enqueue", "stamp",
                                          "forget"}
                          /\ w.collab # "merged"}

\* beginNextIntegration chose f and has yet to write it.
Selecting(f) ==
    /\ NextToIntegrate(f)
    /\ \/ todo = << W(f, "start"), W(f, "begin") >>
       \/ todo = << W(f, "begin") >>

TodoShape == TodoPlain \/ \E f \in Features : Selecting(f)

LifecycleInv == TypeOK /\ TodoShape /\ AtMostOneIntegrating

----------------------------------------------------------------------------
(* Writes and the rows they make *)

LEMMA WriteTypes ==
    ASSUME NEW f \in Features
    PROVE  /\ \A op \in WriteOp : W(f, op) \in Writes
           /\ \A op \in WriteOp \ {"advance", "collab"} :
                 /\ W(f, op) \in ProperWrites
                 /\ op \notin {"begin", "enqueue", "stamp", "forget"}
                       => W(f, op) \in OwnWrites(f)
           /\ \A c \in {"branch_open", "conflict"} :
                 MoveTo(f, c) \in OwnWrites(f)
           /\ \A p \in WorkControl :
                 /\ Write(f, "advance", p, Keep) \in OwnWrites(f)
                 /\ Write(f, "advance", p, "branch_open") \in OwnWrites(f)
           /\ MoveTo(f, "merged") \in ProperWrites
  BY DEF W, Write, MoveTo, Writes, ProperWrites, OwnWrites, WriteOp, Keep,
         WorkControl

LEMMA OwnWritesArePlain ==
    ASSUME NEW f \in Features
    PROVE  /\ OwnWrites(f) \subseteq ProperWrites
           /\ OwnWrites(f) \subseteq PlainWrites
           /\ \A w \in ProperWrites : w.op # "begin" => w \in PlainWrites
           /\ ProperWrites \subseteq Writes
           /\ PlainWrites \subseteq Writes
  BY DEF OwnWrites, ProperWrites, PlainWrites

LEMMA SequenceOfOne ==
    ASSUME NEW S, NEW a \in S
    PROVE  << a >> \in Seq(S)
  OBVIOUS

LEMMA SequenceOfTwo ==
    ASSUME NEW S, NEW a \in S, NEW b \in S
    PROVE  << a, b >> \in Seq(S)
  OBVIOUS

LEMMA SequencesOfSix ==
    ASSUME NEW S, NEW a \in S, NEW b \in S, NEW c \in S, NEW d \in S,
           NEW e \in S, NEW g \in S
    PROVE  << a, b, c, d, e, g >> \in Seq(S)
  OBVIOUS

LEMMA SequencesOfSeven ==
    ASSUME NEW S, NEW a \in S, NEW b \in S, NEW c \in S, NEW d \in S,
           NEW e \in S, NEW g \in S, NEW h \in S
    PROVE  << a, b, c, d, e, g, h >> \in Seq(S)
  OBVIOUS

LEMMA HeadAndTail ==
    ASSUME NEW a, NEW b
    PROVE  /\ Head(<< a, b >>) = a /\ Tail(<< a, b >>) = << b >>
           /\ Head(<< b >>) = b /\ Tail(<< b >>) = << >>
  OBVIOUS

LEMMA PhaseEnds ==
    ASSUME NEW f \in Features
    PROVE  /\ MarkPhaseDone(f) \in Seq(OwnWrites(f))
           /\ MarkPhaseFailed(f) \in Seq(OwnWrites(f))
           /\ \A p \in WorkControl :
                 /\ Advance(f, p) \in Seq(OwnWrites(f))
                 /\ AdvanceWith(f, p, "branch_open") \in Seq(OwnWrites(f))
  BY WriteTypes, SequenceOfOne, SequenceOfTwo
     DEF MarkPhaseDone, MarkPhaseFailed, Advance, AdvanceWith, WriteOp

LEMMA QueueFieldsType ==
    ASSUME NEW row \in FeatureRow, NEW a \in Nat, NEW b \in Nat, NEW c \in Nat
    PROVE  /\ [row EXCEPT !.seq = a, !.enteredAt = b] \in FeatureRow
           /\ [row EXCEPT !.seq = a, !.enteredAt = b, !.manual = c]
                 \in FeatureRow
           /\ [row EXCEPT !.seq = a, !.enteredAt = b, !.manual = c,
                          !.reentry = @ + 1] \in FeatureRow
  <1>1. /\ [row EXCEPT !.seq = a, !.enteredAt = b] \in FeatureRow
        /\ [row EXCEPT !.seq = a, !.enteredAt = b, !.manual = c] \in FeatureRow
    BY DEF FeatureRow
  <1>2. ASSUME NEW r \in Nat
        PROVE  [row EXCEPT !.seq = a, !.enteredAt = b, !.manual = c,
                          !.reentry = r] \in FeatureRow
    BY DEF FeatureRow
  <1>3. row.reentry + 1 \in Nat
    BY DEF FeatureRow
  <1> QED BY <1>1, <1>2, <1>3

\* A write leaves a row a row.
LEMMA NewRowType ==
    ASSUME NEW w \in Writes, NEW row \in FeatureRow,
           entrySeq \in Nat, clock \in Nat
    PROVE  NewRow(w, row) \in FeatureRow
  <1>1. CASE FieldWrite(w)
    <2>1. CASE w.op \in {"edit", "forget"}
      BY <2>1 DEF NewRow
    <2>2. CASE w.op = "stamp"
      <3>1. clock + 1 \in Nat
        OBVIOUS
      <3> QED BY <2>2, <3>1, QueueFieldsType DEF NewRow
    <2>3. CASE w.op = "unstamp"
      BY <2>3, QueueFieldsType DEF NewRow, NoPosition
    <2>4. CASE w.op = "count_reentry"
      BY <2>4, QueueFieldsType DEF NewRow, NoPosition
    <2> QED BY <1>1, <2>1, <2>2, <2>3, <2>4 DEF FieldWrite
  <1>2. CASE ~ FieldWrite(w)
    <2>1. NewRow(w, row) = Transitioned(w, row)
      BY <1>2 DEF NewRow, FieldWrite
    <2>2. Transitioned(w, row) \in FeatureRow
      <3>1. PICK next : next = Transitioned(w, row)
        OBVIOUS
      <3>2. /\ next = [row EXCEPT !.work = next.work, !.status = next.status,
                                  !.collab = next.collab]
            /\ next.work \in {row.work, w.work} \ {Keep}
        BY <3>1 DEF Transitioned, FeatureRow, WorkControl, Keep
      <3>3. next.status \in {row.status, "in_progress", "done", "failed", "pending"}
        BY <3>1 DEF Transitioned, FeatureRow
      <3>4. next.collab \in {row.collab, w.collab, "merge_queued", "integrating",
                             "branch_open"} \ {Keep}
        BY <3>1 DEF Transitioned, FeatureRow, CollabControl, Keep
      <3>5. /\ next.work \in WorkControl /\ next.status \in UnitStatus
            /\ next.collab \in CollabControl
        BY <3>2, <3>3, <3>4 DEF FeatureRow, Writes, WorkControl, UnitStatus, CollabControl
      <3> QED BY <3>1, <3>2, <3>5 DEF FeatureRow
    <2> QED BY <2>1, <2>2
  <1> QED BY <1>1, <1>2

\* Only the write that starts an integration makes a feature integrating.
LEMMA OnlyBeginIntegrates ==
    ASSUME NEW w \in PlainWrites, NEW row \in FeatureRow,
           NewRow(w, row).collab = "integrating"
    PROVE  row.collab = "integrating"
  BY DEF NewRow, Transitioned, FeatureRow, PlainWrites, Writes, WriteOp, Keep

\* Only the write that queues a feature makes it queued.
LEMMA OnlyEnqueueQueues ==
    ASSUME NEW w \in Writes, NEW row \in FeatureRow,
           row.collab # "merge_queued", NewRow(w, row).collab = "merge_queued"
    PROVE  w.op = "enqueue"
  BY DEF NewRow, Transitioned, FeatureRow, Writes, WriteOp, Keep

----------------------------------------------------------------------------
(* Handlers *)

LEMMA Concatenation ==
    ASSUME NEW S, NEW s \in Seq(S), NEW t \in Seq(S)
    PROVE  s \o t \in Seq(S)
  BY ConcatProperties

\* A concatenation is the sequence that has the elements of both.
LEMMA ConcatIs ==
    ASSUME NEW S, NEW s \in Seq(S), NEW t \in Seq(S), NEW u \in Seq(S),
           Len(u) = Len(s) + Len(t),
           \A i \in 1..Len(s) : u[i] = s[i],
           \A i \in 1..Len(t) : u[Len(s) + i] = t[i]
    PROVE  s \o t = u
  <1>1. ASSUME NEW i \in 1..Len(u)
        PROVE  (s \o t)[i] = u[i]
    <2>1. CASE i <= Len(s)
      BY <2>1, ConcatProperties
    <2>2. CASE i > Len(s)
      <3>1. /\ Len(s) \in Nat /\ Len(t) \in Nat
        OBVIOUS
      <3>2. i - Len(s) \in 1..Len(t)
        BY <2>2, <3>1
      <3>3. i = Len(s) + (i - Len(s))
        BY <3>1
      <3>4. (s \o t)[i] = t[i - Len(s)]
        BY <2>2, <3>1, ConcatProperties
      <3>5. u[Len(s) + (i - Len(s))] = t[i - Len(s)]
        BY <3>2
      <3> QED BY <3>3, <3>4, <3>5
    <2> QED BY <2>1, <2>2
  <1>2. s \o t \in Seq(S) /\ Len(s \o t) = Len(u)
    BY ConcatProperties
  <1> QED BY <1>1, <1>2, SeqEqual

LEMMA ConcatTwoOne ==
    ASSUME NEW a, NEW b, NEW c
    PROVE  << a, b >> \o << c >> = << a, b, c >>
  <1> DEFINE S == {a, b, c}
             s == << a, b >>
             t == << c >>
             u == << a, b, c >>
  <1>1. s \in Seq(S) /\ t \in Seq(S) /\ u \in Seq(S)
    OBVIOUS
  <1>2. Len(s) = 2 /\ Len(t) = 1 /\ Len(u) = 3
    OBVIOUS
  <1>3. /\ \A i \in 1..2 : u[i] = s[i]
        /\ \A i \in 1..1 : u[2 + i] = t[i]
    OBVIOUS
  <1> HIDE DEF S, s, t, u
  <1>4. /\ Len(u) = Len(s) + Len(t)
        /\ \A i \in 1..Len(s) : u[i] = s[i]
        /\ \A i \in 1..Len(t) : u[Len(s) + i] = t[i]
    BY <1>2, <1>3
  <1>5. s \o t = u
    BY ONLY <1>1, <1>4, ConcatIs
  <1> QED BY <1>5 DEF s, t, u

LEMMA ConcatThreeThree ==
    ASSUME NEW a, NEW b, NEW c, NEW d, NEW e, NEW g
    PROVE  << a, b, c >> \o << d, e, g >> = << a, b, c, d, e, g >>
  <1> DEFINE S == {a, b, c, d, e, g}
             s == << a, b, c >>
             t == << d, e, g >>
             u == << a, b, c, d, e, g >>
  <1>1. s \in Seq(S) /\ t \in Seq(S) /\ u \in Seq(S)
    OBVIOUS
  <1>2. Len(s) = 3 /\ Len(t) = 3 /\ Len(u) = 6
    OBVIOUS
  <1>3. /\ \A i \in 1..3 : u[i] = s[i]
        /\ \A i \in 1..3 : u[3 + i] = t[i]
    OBVIOUS
  <1> HIDE DEF S, s, t, u
  <1>4. /\ Len(u) = Len(s) + Len(t)
        /\ \A i \in 1..Len(s) : u[i] = s[i]
        /\ \A i \in 1..Len(t) : u[Len(s) + i] = t[i]
    BY <1>2, <1>3
  <1>5. s \o t = u
    BY ONLY <1>1, <1>4, ConcatIs
  <1> QED BY <1>5 DEF s, t, u

LEMMA ConcatSixOne ==
    ASSUME NEW a, NEW b, NEW c, NEW d, NEW e, NEW g, NEW h
    PROVE  << a, b, c, d, e, g >> \o << h >> = << a, b, c, d, e, g, h >>
  <1> DEFINE S == {a, b, c, d, e, g, h}
             s == << a, b, c, d, e, g >>
             t == << h >>
             u == << a, b, c, d, e, g, h >>
  <1>1. s \in Seq(S) /\ t \in Seq(S) /\ u \in Seq(S)
    OBVIOUS
  <1>2. Len(s) = 6 /\ Len(t) = 1 /\ Len(u) = 7
    OBVIOUS
  <1>3. /\ \A i \in 1..6 : u[i] = s[i]
        /\ \A i \in 1..1 : u[6 + i] = t[i]
    OBVIOUS
  <1> HIDE DEF S, s, t, u
  <1>4. /\ Len(u) = Len(s) + Len(t)
        /\ \A i \in 1..Len(s) : u[i] = s[i]
        /\ \A i \in 1..Len(t) : u[Len(s) + i] = t[i]
    BY <1>2, <1>3
  <1>5. s \o t = u
    BY ONLY <1>1, <1>4, ConcatIs
  <1> QED BY <1>5 DEF s, t, u

\* rerouteToReplan writes the feature's own row, and takes a feature that is
\* in the train out of it before anything else.
LEMMA RerouteIsOwn ==
    ASSUME NEW f \in Features
    PROVE  /\ RerouteToReplan(f) \in Seq(OwnWrites(f))
           /\ InTrain(f) => /\ 1 \in DOMAIN RerouteToReplan(f)
                            /\ RerouteToReplan(f)[1].op = "collab"
  <1> DEFINE failed == << W(f, "edit") >> \o MarkPhaseFailed(f)
                          \o Advance(f, "replanning")
             eject == << MoveTo(f, "branch_open"), W(f, "count_reentry") >>
             clash == << MoveTo(f, "conflict") >>
  <1>1. failed \in Seq(OwnWrites(f))
    <2>1. << W(f, "edit") >> \in Seq(OwnWrites(f))
      BY WriteTypes, SequenceOfOne DEF WriteOp
    <2>2. Advance(f, "replanning") \in Seq(OwnWrites(f))
      BY PhaseEnds DEF WorkControl
    <2> QED BY <2>1, <2>2, PhaseEnds, Concatenation
  <1>2. /\ eject \in Seq(OwnWrites(f))
        /\ Len(eject) = 2
        /\ eject[1].op = "collab"
    BY WriteTypes, SequenceOfTwo DEF WriteOp, MoveTo, Write
  <1>3. /\ clash \in Seq(OwnWrites(f))
        /\ Len(clash) = 1
        /\ clash[1].op = "collab"
    BY WriteTypes, SequenceOfOne DEF MoveTo, Write
  <1> HIDE DEF failed, eject, clash
  <1>4. \/ RerouteToReplan(f) = eject \o failed
        \/ RerouteToReplan(f) = clash \o failed \o eject
        \/ RerouteToReplan(f) = failed /\ ~ InTrain(f)
    BY DEF RerouteToReplan, InTrain, failed, eject, clash
  <1>5. ASSUME NEW s \in Seq(OwnWrites(f)), NEW t \in Seq(OwnWrites(f)),
               Len(s) \in Nat \ {0}
        PROVE  /\ s \o t \in Seq(OwnWrites(f))
               /\ Len(s \o t) \in Nat \ {0}
               /\ 1 \in DOMAIN (s \o t)
               /\ (s \o t)[1] = s[1]
    <2>1. Len(t) \in Nat
      OBVIOUS
    <2> QED BY <1>5, <2>1, ConcatProperties
  <1>6. CASE RerouteToReplan(f) = eject \o failed
    BY <1>1, <1>2, <1>5, <1>6
  <1>7. CASE RerouteToReplan(f) = clash \o failed \o eject
    <2>1. /\ clash \o failed \in Seq(OwnWrites(f))
          /\ Len(clash \o failed) \in Nat \ {0}
          /\ 1 \in DOMAIN (clash \o failed)
          /\ (clash \o failed)[1] = clash[1]
      BY <1>1, <1>3, <1>5
    <2> DEFINE out == clash \o failed
    <2>2. /\ out \o eject \in Seq(OwnWrites(f))
          /\ 1 \in DOMAIN (out \o eject)
          /\ (out \o eject)[1] = out[1]
      <3> HIDE DEF out
      <3>1. out \in Seq(OwnWrites(f)) /\ Len(out) \in Nat \ {0}
        BY <2>1 DEF out
      <3> QED BY <1>2, <1>5, <3>1
    <2> QED BY <1>3, <1>7, <2>1, <2>2
  <1> QED BY <1>1, <1>4, <1>6, <1>7

\* A passed verification ends the phase, advances, and only then queues.
LEMMA EnterTrainIs ==
    ASSUME NEW f \in Features
    PROVE  /\ EnterTrain(f) =
                 << W(f, "start"), W(f, "done"),
                    Write(f, "advance", "awaiting_merge", Keep),
                    W(f, "clear_conflict"), W(f, "enqueue"), W(f, "stamp") >>
           /\ EnterTrain(f) \o << W(f, "forget") >> =
                 << W(f, "start"), W(f, "done"),
                    Write(f, "advance", "awaiting_merge", Keep),
                    W(f, "clear_conflict"), W(f, "enqueue"), W(f, "stamp"),
                    W(f, "forget") >>
  <1> DEFINE a == W(f, "start")
             b == W(f, "done")
             c == Write(f, "advance", "awaiting_merge", Keep)
             d == W(f, "clear_conflict")
             e == W(f, "enqueue")
             g == W(f, "stamp")
             h == W(f, "forget")
  <1>1. EnterTrain(f) = << a, b >> \o << c >> \o << d, e, g >>
    BY DEF EnterTrain, MarkPhaseDone, Advance
  <1> HIDE DEF a, b, c, d, e, g, h
  <1>2. EnterTrain(f) = << a, b, c, d, e, g >>
    <2>1. << a, b >> \o << c >> = << a, b, c >>
      BY ConcatTwoOne
    <2>2. << a, b, c >> \o << d, e, g >> = << a, b, c, d, e, g >>
      BY ConcatThreeThree
    <2> QED BY ONLY <1>1, <2>1, <2>2
  <1>3. EnterTrain(f) \o << h >> = << a, b, c, d, e, g, h >>
    BY <1>2, ConcatSixOne
  <1> QED BY <1>2, <1>3 DEF a, b, c, d, e, g, h

\* The handlers that neither queue a feature nor record its merge.
OwnHandler(f) ==
    \/ MarkFeaturePhaseRunning(f)
    \/ CompleteDiscuss(f)
    \/ CompleteResearch(f)
    \/ ApproveProposal(f)
    \/ OnTaskLanded(f)
    \/ CiCheckPasses(f)
    \/ CiCheckFails(f)
    \/ VerifyFails(f)
    \/ TaskWorkFails(f)
    \/ EjectFromQueue(f)
    \/ IntegrationFails(f)
    \/ ReconcilePostMerge(f)
    \/ CompleteSummary(f)

Queues(f) == VerifyPasses(f) \/ ReplayVerifyPasses(f)

LEMMA OwnHandlers ==
    ASSUME NEW f \in Features, OwnHandler(f)
    PROVE  /\ todo' \in Seq(OwnWrites(f))
           /\ UNCHANGED << features, dependsOn, entrySeq, clock, crashes >>
  <1>1. /\ MarkPhaseDone(f) \in Seq(OwnWrites(f))
        /\ MarkPhaseFailed(f) \in Seq(OwnWrites(f))
        /\ RerouteToReplan(f) \in Seq(OwnWrites(f))
        /\ \A p \in WorkControl : Advance(f, p) \in Seq(OwnWrites(f))
        /\ \A p \in WorkControl :
              AdvanceWith(f, p, "branch_open") \in Seq(OwnWrites(f))
        /\ << W(f, "running") >> \in Seq(OwnWrites(f))
        /\ << W(f, "edit") >> \in Seq(OwnWrites(f))
    BY PhaseEnds, RerouteIsOwn, WriteTypes, SequenceOfOne DEF WriteOp
  <1>2. ASSUME NEW p \in WorkControl
        PROVE  MarkPhaseDone(f) \o Advance(f, p) \in Seq(OwnWrites(f))
    BY <1>1, Concatenation
  <1>3. CASE MarkFeaturePhaseRunning(f)
    BY <1>1, <1>3 DEF MarkFeaturePhaseRunning, Handle
  <1>4. CASE CompleteDiscuss(f) \/ CompleteResearch(f)
    BY <1>2, <1>4 DEF CompleteDiscuss, CompleteResearch, Handle, WorkControl
  <1>5. CASE ApproveProposal(f)
    <2>1. MarkPhaseDone(f) \o AdvanceWith(f, "executing", "branch_open")
             \in Seq(OwnWrites(f))
      BY <1>1, Concatenation DEF WorkControl
    <2> QED BY <1>5, <2>1 DEF ApproveProposal, Handle
  <1>6. CASE OnTaskLanded(f) \/ CiCheckPasses(f) \/ ReconcilePostMerge(f)
    BY <1>2, <1>6
       DEF OnTaskLanded, CiCheckPasses, ReconcilePostMerge, Handle, WorkControl
  <1>7. CASE \/ CiCheckFails(f) \/ TaskWorkFails(f) \/ EjectFromQueue(f)
             \/ IntegrationFails(f)
    BY <1>1, <1>7
       DEF CiCheckFails, TaskWorkFails, EjectFromQueue, IntegrationFails, Handle
  <1>8. CASE VerifyFails(f)
    <2>1. MarkPhaseFailed(f) \o Advance(f, "replanning") \in Seq(OwnWrites(f))
      BY <1>1, Concatenation DEF WorkControl
    <2> QED BY <1>8, <2>1 DEF VerifyFails, Handle
  <1>9. CASE CompleteSummary(f)
    <2>1. MarkPhaseDone(f) \o << W(f, "edit") >> \in Seq(OwnWrites(f))
      BY <1>1, Concatenation
    <2>2. MarkPhaseDone(f) \o << W(f, "edit") >> \o Advance(f, "work_complete")
             \in Seq(OwnWrites(f))
      BY <1>1, <2>1, Concatenation DEF WorkControl
    <2> QED BY <1>9, <2>2 DEF CompleteSummary, Handle
  <1> QED BY <1>3, <1>4, <1>5, <1>6, <1>7, <1>8, <1>9 DEF OwnHandler

\* Every handler but beginNextIntegration makes plain writes.
LEMMA HandlersArePlain ==
    ASSUME NEW f \in Features,
           PhaseStep(f) \/ OnTaskLanded(f) \/ IntegrationOutcome(f)
    PROVE  /\ todo' \in Seq(PlainWrites)
           /\ UNCHANGED << features, dependsOn, entrySeq, clock, crashes >>
  <1>1. OwnHandler(f) \/ Queues(f) \/ IntegrationLands(f)
    BY DEF PhaseStep, IntegrationOutcome, OwnHandler, Queues
  <1>2. CASE OwnHandler(f)
    <2>1. OwnWrites(f) \subseteq PlainWrites
      BY OwnWritesArePlain
    <2> QED BY <1>2, <2>1, OwnHandlers, SeqMonotonic
  <1>3. /\ \A op \in WriteOp \ {"begin", "advance", "collab"} :
              W(f, op) \in PlainWrites
        /\ Write(f, "advance", "awaiting_merge", Keep) \in PlainWrites
        /\ MoveTo(f, "merged") \in PlainWrites
    <2>1. /\ \A op \in WriteOp \ {"begin", "advance", "collab"} :
                /\ W(f, op) \in ProperWrites
                /\ W(f, op).op # "begin"
          /\ Write(f, "advance", "awaiting_merge", Keep) \in OwnWrites(f)
          /\ MoveTo(f, "merged") \in ProperWrites
          /\ MoveTo(f, "merged").op # "begin"
      BY WriteTypes, OwnWritesArePlain DEF WorkControl, W, Write, MoveTo
    <2> QED BY <2>1, OwnWritesArePlain
  <1>4. CASE Queues(f)
    <2>1. /\ EnterTrain(f) \in Seq(PlainWrites)
          /\ EnterTrain(f) \o << W(f, "forget") >> \in Seq(PlainWrites)
      <3>1. \A op \in {"start", "done", "clear_conflict", "enqueue", "stamp",
                       "forget"} : W(f, op) \in PlainWrites
        BY <1>3 DEF WriteOp
      <3>2. Write(f, "advance", "awaiting_merge", Keep) \in PlainWrites
        BY <1>3
      <3>3. << W(f, "start"), W(f, "done"),
               Write(f, "advance", "awaiting_merge", Keep),
               W(f, "clear_conflict"), W(f, "enqueue"), W(f, "stamp") >>
               \in Seq(PlainWrites)
        BY ONLY <3>1, <3>2, SequencesOfSix
      <3>4. << W(f, "start"), W(f, "done"),
               Write(f, "advance", "awaiting_merge", Keep),
               W(f, "clear_conflict"), W(f, "enqueue"), W(f, "stamp"),
               W(f, "forget") >> \in Seq(PlainWrites)
        BY ONLY <3>1, <3>2, SequencesOfSeven
      <3> QED BY <3>3, <3>4, EnterTrainIs
    <2> QED BY <1>4, <2>1 DEF Queues, VerifyPasses, ReplayVerifyPasses, Handle
  <1>5. CASE IntegrationLands(f)
    BY <1>3, <1>5, SequenceOfTwo
       DEF IntegrationLands, CompleteIntegration, Handle, WriteOp
  <1> QED BY <1>1, <1>2, <1>4, <1>5

----------------------------------------------------------------------------
(* The inductive invariant *)

LEMMA InitHolds == Init => LifecycleInv
  <1> SUFFICES ASSUME Init PROVE LifecycleInv
    OBVIOUS
  <1>1. TypeOK
    <2>1. ASSUME NEW f \in Features
          PROVE  features[f] \in FeatureRow
      BY ManualPositionType
         DEF Init, FeatureRow, WorkControl, UnitStatus, CollabControl
    <2>2. features \in [Features -> FeatureRow]
      BY <2>1 DEF Init
    <2> QED BY <2>2, DependsOnType, BoundsType DEF TypeOK, Init
  <1>2. TodoShape
    BY DEF Init, TodoShape, TodoPlain
  <1>3. AtMostOneIntegrating
    BY DEF Init, AtMostOneIntegrating
  <1> QED BY <1>1, <1>2, <1>3 DEF LifecycleInv

\* What the writes still to make may be is what they were, less the first.
LEMMA RestOfTodo ==
    ASSUME LifecycleInv, todo # << >>, todo' = Tail(todo)
    PROVE  /\ Head(todo) \in Writes
           /\ todo' \in Seq(Writes)
           /\ TodoPlain => /\ Head(todo) \in PlainWrites
                           /\ todo' \in Seq(PlainWrites)
           /\ \A f \in Features : Selecting(f) =>
                 \/ /\ Head(todo) = W(f, "start")
                    /\ todo' = << W(f, "begin") >>
                 \/ /\ Head(todo) = W(f, "begin")
                    /\ todo' = << >>
  <1>1. /\ Head(todo) \in Writes
        /\ todo' \in Seq(Writes)
    BY HeadTailProperties DEF LifecycleInv, TypeOK
  <1>2. ASSUME TodoPlain
        PROVE  /\ Head(todo) \in PlainWrites
               /\ todo' \in Seq(PlainWrites)
    BY <1>2, HeadTailProperties DEF TodoPlain
  <1>3. ASSUME NEW f \in Features, Selecting(f)
        PROVE  \/ /\ Head(todo) = W(f, "start")
                  /\ todo' = << W(f, "begin") >>
               \/ /\ Head(todo) = W(f, "begin")
                  /\ todo' = << >>
    <2> DEFINE a == W(f, "start")
               b == W(f, "begin")
    <2>1. todo = << a, b >> \/ todo = << b >>
      BY <1>3 DEF Selecting
    <2>2. CASE todo = << a, b >>
      BY <2>2, HeadAndTail
    <2>3. CASE todo = << b >>
      BY <2>3, HeadAndTail
    <2> QED BY <2>1, <2>2, <2>3 DEF a, b
  <1> QED BY <1>1, <1>2, <1>3

\* Writes of other columns leave the queue, and its order, as they are.
LEMMA SelectingKept ==
    ASSUME NEW f \in Features, NextToIntegrate(f), TypeOK, TypeOK',
           \A g \in Features : /\ features'[g].collab = features[g].collab
                              /\ features'[g].manual = features[g].manual
                              /\ features'[g].reentry = features[g].reentry
                              /\ features'[g].seq = features[g].seq
    PROVE  NextToIntegrate(f)'
  BY DEF NextToIntegrate, Queued, SortsBefore, HasPosition

\* The writes of a handler, one at a time.
LEMMA WritesHold ==
    ASSUME LifecycleInv, TakeWrite
    PROVE  LifecycleInv'
  <1> DEFINE w == Head(todo)
             row == features[w.feature]
  <1>1. CASE SkipWrite
    <2>1. /\ todo # << >>
          /\ todo' = Tail(todo)
          /\ UNCHANGED << features, dependsOn, entrySeq, clock, crashes >>
      BY <1>1 DEF SkipWrite
    <2>2. TypeOK'
      BY <2>1, RestOfTodo DEF LifecycleInv, TypeOK
    <2>3. TodoShape'
      <3>1. CASE TodoPlain
        BY <2>1, <3>1, RestOfTodo DEF TodoShape, TodoPlain
      <3>2. ASSUME NEW f \in Features, Selecting(f)
            PROVE  TodoShape'
        <4>1. NextToIntegrate(f)'
          BY <2>1, <2>2, <3>2, SelectingKept DEF LifecycleInv, Selecting
        <4>2. todo' = << W(f, "begin") >> \/ todo' = << >>
          BY <2>1, <3>2, RestOfTodo
        <4>3. CASE todo' = << W(f, "begin") >>
          BY <4>1, <4>3 DEF TodoShape, Selecting, W, Write
        <4>4. CASE todo' = << >>
          BY <4>4 DEF TodoShape, TodoPlain
        <4> QED BY <4>2, <4>3, <4>4
      <3> QED BY <3>1, <3>2 DEF LifecycleInv, TodoShape
    <2>4. AtMostOneIntegrating'
      BY <2>1 DEF LifecycleInv, AtMostOneIntegrating
    <2> QED BY <2>2, <2>3, <2>4 DEF LifecycleInv
  <1>2. CASE CommitWrite
    <2>1. /\ todo # << >>
          /\ Accepted(w, row)
          /\ features' = [features EXCEPT ![w.feature] = NewRow(w, row)]
          /\ entrySeq' = IF w.op = "enqueue" THEN entrySeq + 1
                         ELSE IF w.op = "forget" THEN 0 ELSE entrySeq
          /\ clock' = IF w.op = "stamp" THEN clock + 1 ELSE clock
          /\ todo' = Tail(todo)
          /\ UNCHANGED << dependsOn, crashes >>
      BY <1>2 DEF CommitWrite
    <2>2. /\ w \in Writes
          /\ w.feature \in Features
          /\ row \in FeatureRow
          /\ todo' \in Seq(Writes)
      BY <2>1, RestOfTodo DEF LifecycleInv, TypeOK, Writes
    <2>3. NewRow(w, row) \in FeatureRow
      BY <2>2, NewRowType DEF LifecycleInv, TypeOK
    <2>4. TypeOK'
      BY <2>1, <2>2, <2>3 DEF LifecycleInv, TypeOK
    <2>5. TodoShape'
      <3>1. CASE TodoPlain
        BY <2>1, <3>1, RestOfTodo DEF TodoShape, TodoPlain
      <3>2. ASSUME NEW f \in Features, Selecting(f)
            PROVE  TodoShape'
        <4>1. CASE w = W(f, "start") /\ todo' = << W(f, "begin") >>
          <5>1. /\ NewRow(w, row).collab = row.collab
                /\ NewRow(w, row).manual = row.manual
                /\ NewRow(w, row).reentry = row.reentry
                /\ NewRow(w, row).seq = row.seq
            BY <2>2, <4>1
               DEF W, Write, NewRow, Transitioned, FeatureRow, Keep
          <5>2. \A g \in Features : /\ features'[g].collab = features[g].collab
                                   /\ features'[g].manual = features[g].manual
                                   /\ features'[g].reentry = features[g].reentry
                                   /\ features'[g].seq = features[g].seq
            BY <2>1, <2>2, <5>1 DEF LifecycleInv, TypeOK
          <5>3. NextToIntegrate(f)'
            BY <2>4, <3>2, <5>2, SelectingKept DEF LifecycleInv, Selecting
          <5> QED BY <4>1, <5>3 DEF TodoShape, Selecting, W, Write
        <4>2. CASE w = W(f, "begin") /\ todo' = << >>
          BY <4>2 DEF TodoShape, TodoPlain
        <4> QED BY <2>1, <3>2, <4>1, <4>2, RestOfTodo
      <3> QED BY <3>1, <3>2 DEF LifecycleInv, TodoShape
    <2>6. AtMostOneIntegrating'
      <3>1. CASE w.op = "begin"
        <4>1. \A g \in Features \ {w.feature} :
                 features[g].collab # "integrating"
          BY <2>1, <3>1 DEF Accepted, OthersIntegrating
        <4>2. \A g \in Features \ {w.feature} :
                 features'[g].collab # "integrating"
          BY <2>1, <2>2, <4>1 DEF LifecycleInv, TypeOK
        <4> QED BY <4>2 DEF AtMostOneIntegrating
      <3>2. CASE w.op # "begin"
        <4>1. w \in PlainWrites
          BY <2>2, <3>2 DEF PlainWrites
        <4>2. NewRow(w, row).collab = "integrating"
                 => row.collab = "integrating"
          BY <2>2, <4>1, OnlyBeginIntegrates
        <4>3. \A g \in Features : features'[g].collab = "integrating"
                                     => features[g].collab = "integrating"
          BY <2>1, <2>2, <4>2 DEF LifecycleInv, TypeOK
        <4> QED BY <4>3 DEF LifecycleInv, AtMostOneIntegrating
      <3> QED BY <3>1, <3>2
    <2> QED BY <2>4, <2>5, <2>6 DEF LifecycleInv
  <1>3. CASE RefuseWrite
    <2>1. /\ todo' = << >>
          /\ UNCHANGED << features, dependsOn, entrySeq, clock, crashes >>
      BY <1>3 DEF RefuseWrite
    <2> QED BY <2>1 DEF LifecycleInv, TypeOK, TodoShape, TodoPlain,
                        AtMostOneIntegrating
  <1> QED BY <1>1, <1>2, <1>3 DEF TakeWrite

LEMMA NextHolds == LifecycleInv /\ [Next]_lifecycleVars => LifecycleInv'
  <1> SUFFICES ASSUME LifecycleInv, [Next]_lifecycleVars
               PROVE  LifecycleInv'
    OBVIOUS
  <1>1. CASE TakeWrite
    BY <1>1, WritesHold
  <1>2. CASE Crash
    BY <1>2, BoundsType
       DEF Crash, LifecycleInv, TypeOK, TodoShape, TodoPlain,
           AtMostOneIntegrating
  <1>3. ASSUME NEW f \in Features,
               PhaseStep(f) \/ OnTaskLanded(f) \/ IntegrationOutcome(f)
        PROVE  LifecycleInv'
    <2>1. /\ todo' \in Seq(PlainWrites)
          /\ UNCHANGED << features, dependsOn, entrySeq, clock, crashes >>
      BY <1>3, HandlersArePlain
    <2>2. todo' \in Seq(Writes)
      BY <2>1, SeqMonotonic DEF PlainWrites
    <2> QED BY <2>1, <2>2 DEF LifecycleInv, TypeOK, TodoShape, TodoPlain,
                              AtMostOneIntegrating
  <1>4. ASSUME NEW f \in Features, BeginNextIntegration(f)
        PROVE  LifecycleInv'
    <2>1. /\ NextToIntegrate(f)
          /\ todo' = << W(f, "start"), W(f, "begin") >>
          /\ UNCHANGED << features, dependsOn, entrySeq, clock, crashes >>
      BY <1>4 DEF BeginNextIntegration, Handle
    <2>2. TypeOK'
      <3>1. todo' \in Seq(Writes)
        BY <2>1, WriteTypes, SequenceOfTwo DEF WriteOp
      <3> QED BY <2>1, <3>1 DEF LifecycleInv, TypeOK
    <2>3. NextToIntegrate(f)'
      BY <2>1, <2>2, SelectingKept DEF LifecycleInv
    <2>4. TodoShape'
      BY <2>1, <2>3 DEF TodoShape, Selecting, W, Write
    <2> QED BY <2>1, <2>2, <2>4 DEF LifecycleInv, AtMostOneIntegrating
  <1>5. ASSUME NEW f \in Features, CancelFeature(f)
        PROVE  LifecycleInv'
    <2>1. /\ todo = << >>
          /\ features' = [features EXCEPT ![f].collab = "cancelled"]
          /\ UNCHANGED << dependsOn, entrySeq, clock, todo, crashes >>
      BY <1>5 DEF CancelFeature
    <2>2. [features[f] EXCEPT !.collab = "cancelled"] \in FeatureRow
      BY DEF LifecycleInv, TypeOK, FeatureRow, CollabControl
    <2>3. TypeOK'
      BY <2>1, <2>2 DEF LifecycleInv, TypeOK
    <2>4. \A g \in Features : features'[g].collab = "integrating"
                                 => features[g].collab = "integrating"
      BY <2>1 DEF LifecycleInv, TypeOK, FeatureRow
    <2> QED BY <2>1, <2>3, <2>4
            DEF LifecycleInv, TodoShape, TodoPlain, AtMostOneIntegrating
  <1>6. ASSUME NEW f \in Features, ApplyProjectProposal(f)
        PROVE  LifecycleInv'
    <2>1. PICK d \in Features : AddDependency(f, d) \/ RemoveDependency(f, d)
      BY <1>6 DEF ApplyProjectProposal
    <2>2. /\ todo = << >>
          /\ \/ dependsOn' = [dependsOn EXCEPT ![f] = @ \cup {d}]
             \/ dependsOn' = [dependsOn EXCEPT ![f] = @ \ {d}]
          /\ UNCHANGED << features, entrySeq, clock, todo, crashes >>
      BY <2>1 DEF AddDependency, RemoveDependency
    <2>3. dependsOn' \in [Features -> SUBSET Features]
      BY <2>2 DEF LifecycleInv, TypeOK
    <2> QED BY <2>2, <2>3 DEF LifecycleInv, TypeOK, TodoShape, TodoPlain,
                              AtMostOneIntegrating
  <1>7. CASE UNCHANGED lifecycleVars
    BY <1>7 DEF lifecycleVars, LifecycleInv, TypeOK, TodoShape, TodoPlain,
                Selecting, NextToIntegrate, Queued, SortsBefore, HasPosition,
                AtMostOneIntegrating
  <1> QED BY <1>1, <1>2, <1>3, <1>4, <1>5, <1>6, <1>7 DEF Next

\* Types, the shape of the remaining writes and the serialized train, in every
\* reachable state.
THEOREM LifecycleInvariant == Spec => []LifecycleInv
  BY InitHolds, NextHolds, PTL DEF Spec

----------------------------------------------------------------------------
(* Theorems *)

\* Every variable keeps its type: no write, refused or not, and no crash
\* leaves a row that the schema does not know.
THEOREM TypeCorrectness == Spec => []TypeOK
  <1>1. LifecycleInv => TypeOK
    BY DEF LifecycleInv
  <1> QED BY <1>1, LifecycleInvariant, PTL

\* At most one feature integrates, for any number of features, queued in any
\* order and cancelled or ejected at any time, across any crashes
\* (beginIntegration's check and the order of the writes).
THEOREM SerializedTrain == Spec => []AtMostOneIntegrating
  <1>1. LifecycleInv => AtMostOneIntegrating
    BY DEF LifecycleInv
  <1> QED BY <1>1, LifecycleInvariant, PTL

\* The step that starts an integration takes a feature nothing in the queue
\* sorts before.
LEMMA SelectionStep ==
    ASSUME LifecycleInv, [Next]_lifecycleVars, NEW f \in Features, Selected(f)
    PROVE  /\ NextToIntegrate(f)
           /\ Head(todo) = W(f, "begin")
  <1>1. features' # features
    BY DEF Selected, LifecycleInv, TypeOK, FeatureRow
  <1>2. CASE CommitWrite
    <2> DEFINE w == Head(todo)
    <2>1. /\ todo # << >>
          /\ features' = [features EXCEPT
                            ![w.feature] = NewRow(w, features[w.feature])]
          /\ todo' = Tail(todo)
      BY <1>2 DEF CommitWrite
    <2>2. /\ w \in Writes
          /\ w.feature \in Features
      BY <2>1, RestOfTodo DEF Writes
    <2>3. /\ w.feature = f
          /\ NewRow(w, features[f]).collab = "integrating"
          /\ features[f].collab # "integrating"
          /\ features[f] \in FeatureRow
      BY <2>1, <2>2 DEF Selected, LifecycleInv, TypeOK
    <2>4. w \notin PlainWrites
      BY <2>3, OnlyBeginIntegrates
    <2>5. PICK g \in Features : Selecting(g)
      BY <2>1, <2>4, RestOfTodo DEF LifecycleInv, TodoShape
    <2>6. w = W(g, "start") \/ w = W(g, "begin")
      BY <2>1, <2>5, RestOfTodo
    <2>7. g = f
      BY <2>3, <2>6 DEF W, Write
    <2>8. w # W(f, "start")
      BY <2>3 DEF W, Write, NewRow, Transitioned, FeatureRow, Keep
    <2> QED BY <2>5, <2>6, <2>7, <2>8 DEF Selecting
  <1>3. CASE SkipWrite \/ RefuseWrite \/ Crash
    BY <1>1, <1>3 DEF SkipWrite, RefuseWrite, Crash
  <1>4. ASSUME NEW g \in Features,
               PhaseStep(g) \/ OnTaskLanded(g) \/ IntegrationOutcome(g)
        PROVE  FALSE
    BY <1>1, <1>4, HandlersArePlain
  <1>5. ASSUME NEW g \in Features, BeginNextIntegration(g)
        PROVE  FALSE
    BY <1>1, <1>5 DEF BeginNextIntegration, Handle
  <1>6. ASSUME NEW g \in Features, CancelFeature(g)
        PROVE  FALSE
    BY <1>6 DEF CancelFeature, Selected, LifecycleInv, TypeOK, FeatureRow
  <1>7. ASSUME NEW g \in Features, ApplyProjectProposal(g)
        PROVE  FALSE
    BY <1>1, <1>7 DEF ApplyProjectProposal, AddDependency, RemoveDependency
  <1>8. CASE UNCHANGED lifecycleVars
    BY <1>1, <1>8 DEF lifecycleVars
  <1> QED BY <1>2, <1>3, <1>4, <1>5, <1>6, <1>7, <1>8 DEF Next, TakeWrite

\* No feature is integrated ahead of a queued one that was ejected more often
\* or that holds a manual position it lacks, although the choice and the
\* write that makes it are separate transactions (nextToIntegrate,
\* beginNextIntegration).
THEOREM ReentryFirst == Spec => ReentryGoesFirst
  <1> DEFINE Step == \A f, g \in Features :
                        /\ Selected(f)
                        /\ features[g].collab = "merge_queued"
                        /\ ~ HasPosition(f)
                        => /\ ~ HasPosition(g)
                           /\ features[f].reentry >= features[g].reentry
  <1>1. LifecycleInv /\ [Next]_lifecycleVars => Step
    <2> SUFFICES ASSUME LifecycleInv, [Next]_lifecycleVars,
                        NEW f \in Features, NEW g \in Features,
                        Selected(f), features[g].collab = "merge_queued",
                        ~ HasPosition(f)
                 PROVE  /\ ~ HasPosition(g)
                        /\ features[f].reentry >= features[g].reentry
      OBVIOUS
    <2>1. ~ SortsBefore(g, f)
      BY SelectionStep DEF NextToIntegrate, Queued
    <2>2. ~ HasPosition(g)
      BY <2>1 DEF SortsBefore
    <2>3. /\ features[f] \in FeatureRow
          /\ features[g] \in FeatureRow
      BY DEF LifecycleInv, TypeOK
    <2>4. features[g].manual = features[f].manual
      BY <2>2 DEF HasPosition
    <2>5. ~ (features[g].reentry > features[f].reentry)
      BY <2>1, <2>4 DEF SortsBefore
    <2> QED BY <2>2, <2>3, <2>5 DEF FeatureRow
  <1>2. LifecycleInv /\ [Next]_lifecycleVars => [Step]_lifecycleVars
    BY <1>1
  <1> QED BY <1>2, LifecycleInvariant, PTL DEF Spec, ReentryGoesFirst
----------------------------------------------------------------------------
(* The train and the order of a handler's writes *)

\* The writes that end a phase or give up a place in the queue.
Leaving == {"done", "fail", "advance", "unstamp", "count_reentry"}

\* What keeps a feature of the train waiting for its merge: the writes of a
\* handler are writes of one feature; no phase ends and no place is given up
\* for a feature in the train before it is moved out; once a feature is queued
\* only the queue's own columns are written; and it is queued right after the
\* phase before awaiting_merge ended.
InOrder(writes) ==
    /\ writes \in Seq(ProperWrites)
    /\ \A i \in DOMAIN writes :
          /\ \A j \in DOMAIN writes : writes[i].feature = writes[j].feature
          /\ writes[i].op \in Leaving /\ InTrain(writes[i].feature)
                => \E j \in 1..(i - 1) : writes[j].op = "collab"
          /\ writes[i].op = "enqueue" =>
                /\ \A j \in DOMAIN writes :
                      i < j => writes[j].op \in {"stamp", "forget"}
                /\ \/ \E j \in 1..(i - 1) :
                         /\ writes[j].op = "advance"
                         /\ writes[j].work = "awaiting_merge"
                         /\ \A k \in (j + 1)..(i - 1) :
                               writes[k].op = "clear_conflict"
                   \/ /\ \A k \in 1..(i - 1) : writes[k].op = "clear_conflict"
                      /\ features[writes[i].feature].status
                            \in {"pending", "in_progress"}

TrainInv == LifecycleInv /\ InOrder(todo) /\ TrainAwaitsMerge

\* A handler that queues nothing is in order when its feature is not in the
\* train, ...
LEMMA OutsideTrain ==
    ASSUME NEW f \in Features, NEW writes \in Seq(OwnWrites(f)), ~ InTrain(f)
    PROVE  InOrder(writes)
  <1>1. writes \in Seq(ProperWrites)
    BY OwnWritesArePlain, SeqMonotonic
  <1>2. \A i \in DOMAIN writes : writes[i] \in OwnWrites(f)
    OBVIOUS
  <1> QED BY <1>1, <1>2 DEF InOrder, OwnWrites

\* ... and when the first thing it does is to move the feature out.
LEMMA LeavingTrain ==
    ASSUME NEW f \in Features, NEW writes \in Seq(OwnWrites(f)),
           1 \in DOMAIN writes, writes[1].op = "collab"
    PROVE  InOrder(writes)
  <1>1. writes \in Seq(ProperWrites)
    BY OwnWritesArePlain, SeqMonotonic
  <1>2. \A i \in DOMAIN writes : writes[i] \in OwnWrites(f)
    OBVIOUS
  <1>3. ASSUME NEW i \in DOMAIN writes, writes[i].op \in Leaving
        PROVE  \E j \in 1..(i - 1) : writes[j].op = "collab"
    <2>1. i # 1 /\ i \in Nat \ {0}
      BY <1>3 DEF Leaving
    <2>2. 1 \in 1..(i - 1)
      BY <2>1
    <2> QED BY <2>2
  <1> QED BY <1>1, <1>2, <1>3 DEF InOrder, OwnWrites

\* No handler but a passed verification queues a feature, and none ends the
\* phase of a feature in the train before taking it out.
LEMMA OwnHandlersInOrder ==
    ASSUME NEW f \in Features, OwnHandler(f), TrainInv
    PROVE  InOrder(todo')
  <1>1. todo' \in Seq(OwnWrites(f))
    BY OwnHandlers
  <1>2. CASE ~ InTrain(f)
    BY <1>1, <1>2, OutsideTrain
  <1>3. CASE InTrain(f)
    <2>1. features[f].work = "awaiting_merge"
      BY <1>3 DEF TrainInv, TrainAwaitsMerge
    <2>2. EjectFromQueue(f) \/ IntegrationFails(f)
      BY <1>3, <2>1
         DEF OwnHandler, MarkFeaturePhaseRunning, ReadyFeature, CompleteDiscuss,
             CompleteResearch, ApproveProposal, OnTaskLanded, CiCheckPasses,
             CiCheckFails, VerifyFails, TaskWorkFails, ReconcilePostMerge,
             CompleteSummary, Reports, InTrain
    <2>3. todo' = RerouteToReplan(f)
      BY <2>2 DEF EjectFromQueue, IntegrationFails, Handle
    <2> QED BY <1>1, <1>3, <2>3, RerouteIsOwn, LeavingTrain
  <1> QED BY <1>2, <1>3

LEMMA QueuesInOrder ==
    ASSUME NEW f \in Features, Queues(f), TrainInv
    PROVE  /\ InOrder(todo')
           /\ UNCHANGED << features, dependsOn, entrySeq, clock, crashes >>
  <1> DEFINE a == W(f, "start")
             b == W(f, "done")
             c == Write(f, "advance", "awaiting_merge", Keep)
             d == W(f, "clear_conflict")
             e == W(f, "enqueue")
             g == W(f, "stamp")
             h == W(f, "forget")
  <1>1. /\ UNCHANGED << features, dependsOn, entrySeq, clock, crashes >>
        /\ \/ todo' = << a, b, c, d, e, g >>
           \/ todo' = << a, b, c, d, e, g, h >>
    BY EnterTrainIs DEF Queues, VerifyPasses, ReplayVerifyPasses, Handle
  <1>2. ~ InTrain(f)
    BY DEF Queues, VerifyPasses, ReplayVerifyPasses, Reports, TrainInv,
           TrainAwaitsMerge
  <1>3. /\ a \in ProperWrites /\ a.op = "start"
        /\ b \in ProperWrites /\ b.op = "done"
        /\ c \in ProperWrites /\ c.op = "advance" /\ c.work = "awaiting_merge"
        /\ d \in ProperWrites /\ d.op = "clear_conflict"
        /\ e \in ProperWrites /\ e.op = "enqueue"
        /\ g \in ProperWrites /\ g.op = "stamp"
        /\ h \in ProperWrites /\ h.op = "forget"
    <2>1. \A op \in {"start", "done", "clear_conflict", "enqueue", "stamp",
                     "forget"} : W(f, op) \in ProperWrites
      BY WriteTypes DEF WriteOp
    <2> QED BY <2>1, WriteTypes, OwnWritesArePlain DEF W, Write, WorkControl
  <1>4. /\ a.feature = f /\ b.feature = f /\ c.feature = f /\ d.feature = f
        /\ e.feature = f /\ g.feature = f /\ h.feature = f
    BY DEF W, Write
  <1> HIDE DEF a, b, c, d, e, g, h
  <1>6. todo' \in Seq(ProperWrites)
    <2>2. << a, b, c, d, e, g >> \in Seq(ProperWrites)
      BY ONLY <1>3, SequencesOfSix
    <2>3. << a, b, c, d, e, g, h >> \in Seq(ProperWrites)
      BY ONLY <1>3, SequencesOfSeven
    <2> QED BY <1>1, <2>2, <2>3
  <1>7. /\ \A i \in DOMAIN todo' : /\ todo'[i] \in ProperWrites
                                   /\ todo'[i].feature = f
                                   /\ i \in Nat
                                   /\ todo'[i].op = "enqueue" <=> i = 5
                                   /\ i > 5 => todo'[i].op \in {"stamp", "forget"}
        /\ todo'[3].op = "advance" /\ todo'[3].work = "awaiting_merge"
        /\ todo'[4].op = "clear_conflict"
    <2>1. CASE todo' = << a, b, c, d, e, g >>
      BY <2>1, <1>3, <1>4
    <2>2. CASE todo' = << a, b, c, d, e, g, h >>
      BY <2>2, <1>3, <1>4
    <2> QED BY <1>1, <2>1, <2>2
  <1>8. /\ 3 \in 1..(5 - 1)
        /\ \A k \in (3 + 1)..(5 - 1) : k = 4
    OBVIOUS
  <1> QED BY <1>1, <1>2, <1>6, <1>7, <1>8 DEF InOrder

LEMMA LandingInOrder ==
    ASSUME NEW f \in Features, IntegrationLands(f), TrainInv
    PROVE  /\ InOrder(todo')
           /\ UNCHANGED << features, dependsOn, entrySeq, clock, crashes >>
  <1> DEFINE a == MoveTo(f, "merged")
             b == W(f, "unstamp")
  <1>1. /\ todo' = << a, b >>
        /\ UNCHANGED << features, dependsOn, entrySeq, clock, crashes >>
    BY DEF IntegrationLands, CompleteIntegration, Handle
  <1>2. /\ a \in ProperWrites /\ a.op = "collab" /\ a.feature = f
        /\ b \in ProperWrites /\ b.op = "unstamp" /\ b.feature = f
    <2>1. b \in ProperWrites
      BY WriteTypes, OwnWritesArePlain DEF WriteOp
    <2> QED BY <2>1, WriteTypes DEF MoveTo, W, Write
  <1> HIDE DEF a, b
  <1>4. todo' \in Seq(ProperWrites)
    BY <1>1, <1>2, SequenceOfTwo
  <1>5. \A i \in DOMAIN todo' : /\ todo'[i].feature = f
                                /\ todo'[i].op \in {"collab", "unstamp"}
                                /\ i = 1 \/ i = 2
    BY <1>1, <1>2
  <1>6. todo'[1].op = "collab" /\ 1 \in 1..(2 - 1)
    BY <1>1, <1>2
  <1> QED BY <1>1, <1>4, <1>5, <1>6 DEF InOrder, Leaving

\* The rest of a handler is in order if its first write does to the train
\* what the order of the writes counts on.
LEMMA RestInOrder ==
    ASSUME InOrder(todo), todo # << >>, todo' = Tail(todo),
           features'[Head(todo).feature].collab
                 \in {"merge_queued", "integrating"} =>
              \/ InTrain(Head(todo).feature) /\ Head(todo).op # "collab"
              \/ Head(todo).op = "enqueue",
           /\ Head(todo).op = "advance"
           /\ Head(todo).work = "awaiting_merge"
           => features'[Head(todo).feature].status = "pending",
           Head(todo).op = "clear_conflict" =>
              features'[Head(todo).feature].status =
                 features[Head(todo).feature].status
    PROVE  InOrder(todo)'
  <1> DEFINE w == todo[1]
             f == w.feature
  <1>1. /\ todo' \in Seq(ProperWrites)
        /\ 1 \in DOMAIN todo
        /\ Head(todo) = w
        /\ \A i \in DOMAIN todo' : /\ i \in Nat \ {0}
                                   /\ i + 1 \in DOMAIN todo
                                   /\ todo'[i] = todo[i + 1]
        /\ \A i \in DOMAIN todo : i \in Nat \ {0}
    BY DEF InOrder
  <1>2. \A i \in DOMAIN todo : todo[i].feature = f
    BY <1>1 DEF InOrder
  <1>3. ASSUME NEW i \in DOMAIN todo', NEW j \in DOMAIN todo'
        PROVE  /\ todo'[i].feature = f
               /\ todo'[i].feature = todo'[j].feature
    BY <1>1, <1>2 DEF InOrder
  <1>4. ASSUME NEW i \in DOMAIN todo', todo'[i].op \in Leaving,
               features'[f].collab \in {"merge_queued", "integrating"}
        PROVE  \E j \in 1..(i - 1) : todo'[j].op = "collab"
    <2>1. w.op # "enqueue"
      <3> SUFFICES ASSUME w.op = "enqueue" PROVE FALSE
        OBVIOUS
      <3>1. todo[i + 1].op \in {"stamp", "forget"}
        BY <1>1 DEF InOrder
      <3> QED BY <1>1, <1>4, <3>1 DEF Leaving
    <2>2. InTrain(f) /\ w.op # "collab"
      BY <1>1, <1>4, <2>1
    <2>3. PICK j \in 1..i : todo[j].op = "collab"
      <3>1. (i + 1) - 1 = i
        BY <1>1
      <3>2. todo[i + 1].op \in Leaving /\ InTrain(todo[i + 1].feature)
        BY <1>1, <1>2, <1>4, <2>2
      <3> QED BY <1>1, <3>1, <3>2 DEF InOrder
    <2>n. i \in Nat /\ j # 1
      BY <1>1, <2>2, <2>3
    <2>4. /\ j - 1 \in 1..(i - 1)
          /\ j - 1 \in DOMAIN todo'
      <3>1. j - 1 \in 1..(i - 1) /\ j - 1 <= i
        BY <2>n, <2>3
      <3>2. DOMAIN todo' = 1..Len(todo') /\ Len(todo') \in Nat
        BY <1>1
      <3> QED BY <3>1, <3>2, <2>n
    <2>5. todo'[j - 1] = todo[j]
      BY <1>1, <2>3, <2>4
    <2> QED BY <2>3, <2>4, <2>5
  <1>5. ASSUME NEW i \in DOMAIN todo', todo'[i].op = "enqueue"
        PROVE  /\ \A j \in DOMAIN todo' :
                     i < j => todo'[j].op \in {"stamp", "forget"}
               /\ \/ \E j \in 1..(i - 1) :
                        /\ todo'[j].op = "advance"
                        /\ todo'[j].work = "awaiting_merge"
                        /\ \A k \in (j + 1)..(i - 1) :
                              todo'[k].op = "clear_conflict"
                  \/ /\ \A k \in 1..(i - 1) : todo'[k].op = "clear_conflict"
                     /\ features'[f].status \in {"pending", "in_progress"}
    <2> DEFINE n == i + 1
    <2>1. /\ n \in DOMAIN todo /\ todo[n].op = "enqueue"
          /\ n - 1 = i /\ n \in Nat \ {0, 1} /\ i \in Nat \ {0}
      BY <1>1, <1>5
    <2>2. ASSUME NEW j \in DOMAIN todo', i < j
          PROVE  todo'[j].op \in {"stamp", "forget"}
      <3>1. j + 1 \in DOMAIN todo /\ n < j + 1 /\ todo'[j] = todo[j + 1]
        BY <1>1, <2>1, <2>2
      <3> QED BY <2>1, <3>1 DEF InOrder
    <2>3. \A k \in 1..(i - 1) : /\ k \in DOMAIN todo'
                                /\ todo'[k] = todo[k + 1]
                                /\ k + 1 \in 1..i
      <3> SUFFICES ASSUME NEW k \in 1..(i - 1)
                   PROVE  /\ k \in DOMAIN todo'
                          /\ todo'[k] = todo[k + 1]
                          /\ k + 1 \in 1..i
        OBVIOUS
      <3>1. DOMAIN todo' = 1..Len(todo') /\ Len(todo') \in Nat
        BY <1>1
      <3>2. i <= Len(todo')
        BY <3>1
      <3>3. k \in DOMAIN todo'
        BY <2>1, <3>1, <3>2
      <3>4. todo'[k] = todo[k + 1]
        BY <1>1, <3>3
      <3>5. k + 1 \in 1..i
        BY <2>1
      <3> QED BY <3>3, <3>4, <3>5
    <2>4. \/ \E j \in 1..i : /\ todo[j].op = "advance"
                             /\ todo[j].work = "awaiting_merge"
                             /\ \A k \in (j + 1)..i :
                                   todo[k].op = "clear_conflict"
          \/ /\ \A k \in 1..i : todo[k].op = "clear_conflict"
             /\ features[f].status \in {"pending", "in_progress"}
      BY <1>2, <2>1 DEF InOrder
    <2>5. CASE \E j \in 1..i : /\ todo[j].op = "advance"
                               /\ todo[j].work = "awaiting_merge"
                               /\ \A k \in (j + 1)..i :
                                     todo[k].op = "clear_conflict"
      <3>1. PICK j \in 1..i : /\ todo[j].op = "advance"
                              /\ todo[j].work = "awaiting_merge"
                              /\ \A k \in (j + 1)..i :
                                    todo[k].op = "clear_conflict"
        BY <2>5
      <3>2. CASE j = 1
        <4>1. features'[f].status = "pending"
          BY <1>1, <3>1, <3>2
        <4>2. \A k \in 1..(i - 1) : todo'[k].op = "clear_conflict"
          BY <2>1, <2>3, <3>1, <3>2
        <4> QED BY <2>2, <4>1, <4>2
      <3>3. CASE j # 1
        <4>1. j - 1 \in 1..(i - 1) /\ (j - 1) + 1 = j
          BY <2>1, <3>1, <3>3
        <4>2. todo'[j - 1] = todo[j]
          BY <2>3, <4>1
        <4>3. \A k \in ((j - 1) + 1)..(i - 1) : todo'[k].op = "clear_conflict"
          <5> SUFFICES ASSUME NEW k \in j..(i - 1)
                       PROVE  todo'[k].op = "clear_conflict"
            BY <4>1
          <5>1. k \in 1..(i - 1) /\ k + 1 \in (j + 1)..i
            BY <2>1, <3>1
          <5> QED BY <2>3, <3>1, <5>1
        <4> QED BY <2>2, <3>1, <4>1, <4>2, <4>3
      <3> QED BY <3>2, <3>3
    <2>6. CASE /\ \A k \in 1..i : todo[k].op = "clear_conflict"
               /\ features[f].status \in {"pending", "in_progress"}
      <3>1. 1 \in 1..i
        BY <2>1
      <3>2. features'[f].status = features[f].status
        BY <1>1, <2>6, <3>1
      <3>3. \A k \in 1..(i - 1) : todo'[k].op = "clear_conflict"
        BY <2>3, <2>6
      <3> QED BY <2>2, <2>6, <3>2, <3>3
    <2> QED BY <2>4, <2>5, <2>6
  <1>6. \A i \in DOMAIN todo' : todo'[i].feature = f
    BY <1>3
  <1> QED BY <1>1, <1>3, <1>4, <1>5, <1>6 DEF InOrder, InTrain

LEMMA TrainWrites ==
    ASSUME TrainInv, TakeWrite
    PROVE  InOrder(todo)' /\ TrainAwaitsMerge'
  <1> DEFINE w == Head(todo)
             f == w.feature
             row == features[f]
             new == NewRow(w, row)
  <1>1. CASE SkipWrite
    <2>1. /\ todo # << >> /\ todo' = Tail(todo)
          /\ UNCHANGED << features, dependsOn, entrySeq, clock, crashes >>
          /\ w.op \in {"start", "done", "fail", "clear_conflict"}
      BY <1>1 DEF SkipWrite, Skipped
    <2>2. InOrder(todo)'
      <3>1. w.op \notin {"collab", "advance"}
        BY <2>1
      <3> QED BY <2>1, <3>1, RestInOrder DEF TrainInv, InTrain
    <2> QED BY <2>1, <2>2 DEF TrainInv, TrainAwaitsMerge, InTrain
  <1>2. CASE CommitWrite
    <2>1. /\ todo # << >> /\ todo' = Tail(todo)
          /\ Accepted(w, row)
          /\ features' = [features EXCEPT ![f] = new]
      BY <1>2 DEF CommitWrite
    <2>2. /\ w \in Writes
          /\ w \in ProperWrites
          /\ f \in Features
          /\ row \in FeatureRow
          /\ features'[f] = new
          /\ \A g \in Features \ {f} : features'[g] = features[g]
      BY <2>1, RestOfTodo DEF TrainInv, LifecycleInv, TypeOK, InOrder, Writes
    <2>3. /\ w.op \in Leaving => ~ InTrain(f)
          /\ w.op = "enqueue" => row.status \in {"pending", "in_progress"}
      <3>1. 1 \in DOMAIN todo /\ todo[1] = w
        BY <2>1 DEF TrainInv, InOrder
      <3>2. \A j \in 1..(1 - 1) : FALSE
        OBVIOUS
      <3> QED BY <3>1, <3>2 DEF TrainInv, InOrder
    <2>4. /\ new.collab \in {"merge_queued", "integrating"} =>
                \/ InTrain(f) /\ w.op # "collab"
                \/ w.op = "enqueue"
          /\ w.op = "advance" /\ w.work = "awaiting_merge"
                => new.status = "pending"
          /\ w.op = "clear_conflict" => new.status = row.status
          /\ new.collab \in {"merge_queued", "integrating"} =>
                /\ new.work = "awaiting_merge"
                /\ new.status \in {"pending", "in_progress"}
      <3>1. CASE FieldWrite(w)
        <4>1. /\ new.collab = row.collab
              /\ new.work = row.work
              /\ new.status = row.status
              /\ w.op \notin {"collab", "advance", "clear_conflict"}
          BY <2>2, <3>1 DEF NewRow, FieldWrite, FeatureRow
        <4> QED BY <2>2, <4>1 DEF TrainInv, TrainAwaitsMerge, InTrain
      <3>2. CASE ~ FieldWrite(w)
        <4>1. /\ new = Transitioned(w, row)
              /\ ValidFeatureTransition(Triple(row), Triple(new))
          BY <2>1, <3>2 DEF NewRow, FieldWrite, Accepted
        <4>2. CASE w.op = "begin"
          <5>1. /\ new.collab = "integrating"
                /\ new.work = row.work
                /\ new.status = row.status
            BY <2>2, <4>1, <4>2
               DEF Transitioned, FeatureRow, ProperWrites, Keep
          <5>2. InTrain(f)
            BY <2>2, <4>1, <5>1
               DEF ValidFeatureTransition, ValidFeatureCollab, CollabEdge,
                   Triple, InTrain, FeatureRow
          <5> QED BY <2>2, <4>2, <5>1, <5>2 DEF TrainInv, TrainAwaitsMerge
        <4>3. CASE w.op = "enqueue"
          <5>1. /\ new.work = row.work
                /\ new.status = row.status
                /\ row.work = "awaiting_merge"
            BY <2>1, <2>2, <4>1, <4>3
               DEF Transitioned, FeatureRow, ProperWrites, Keep, Accepted
          <5> QED BY <2>2, <2>3, <4>3, <5>1
        <4>4. CASE w.op \in {"start", "running"}
          <5>1. /\ new.collab = row.collab
                /\ new.work = row.work
                /\ new.status = "in_progress"
            BY <2>2, <4>1, <4>4
               DEF Transitioned, FeatureRow, ProperWrites, Keep
          <5> QED BY <2>2, <4>4, <5>1 DEF TrainInv, TrainAwaitsMerge, InTrain
        <4>5. CASE w.op \in {"done", "fail", "advance"}
          <5>1. new.collab \in {row.collab, "branch_open"}
            BY <2>2, <4>1, <4>5
               DEF Transitioned, FeatureRow, ProperWrites, Keep, Leaving
          <5>2. w.op = "advance" /\ w.work = "awaiting_merge"
                   => new.status = "pending"
            BY <2>2, <4>1 DEF Transitioned, FeatureRow
          <5> QED BY <2>2, <2>3, <4>5, <5>1, <5>2 DEF InTrain, Leaving
        <4>6. CASE w.op \in {"collab", "clear_conflict"}
          <5>1. /\ new.collab \in {"branch_open", "conflict", "merged"}
                /\ new.status = row.status
            BY <2>2, <4>1, <4>6
               DEF Transitioned, FeatureRow, ProperWrites, Writes, Keep
          <5> QED BY <4>6, <5>1
        <4> QED BY <2>2, <3>2, <4>2, <4>3, <4>4, <4>5, <4>6
                DEF FieldWrite, Writes, WriteOp, Leaving
      <3> QED BY <3>1, <3>2
    <2>5. InOrder(todo)'
      BY <2>1, <2>2, <2>4, RestInOrder DEF TrainInv, InTrain
    <2>6. TrainAwaitsMerge'
      BY <2>2, <2>4 DEF TrainInv, TrainAwaitsMerge, InTrain
    <2> QED BY <2>5, <2>6
  <1>3. CASE RefuseWrite
    <2>1. /\ todo' = << >>
          /\ UNCHANGED << features, dependsOn, entrySeq, clock, crashes >>
      BY <1>3 DEF RefuseWrite
    <2> QED BY <2>1 DEF TrainInv, TrainAwaitsMerge, InOrder, InTrain
  <1> QED BY <1>1, <1>2, <1>3 DEF TakeWrite

\* Cancelling takes a feature out of the train; edges are not looked at.
LEMMA TrainHolds == TrainInv /\ [Next]_lifecycleVars => TrainInv'
  <1> SUFFICES ASSUME TrainInv, [Next]_lifecycleVars
               PROVE  InOrder(todo)' /\ TrainAwaitsMerge'
    BY NextHolds DEF TrainInv
  <1>1. CASE TakeWrite
    BY <1>1, TrainWrites
  <1>2. CASE Crash
    BY <1>2 DEF Crash, TrainInv, TrainAwaitsMerge, InOrder, InTrain
  <1>3. ASSUME NEW f \in Features,
               PhaseStep(f) \/ OnTaskLanded(f) \/ IntegrationOutcome(f)
        PROVE  InOrder(todo)' /\ TrainAwaitsMerge'
    <2>1. OwnHandler(f) \/ Queues(f) \/ IntegrationLands(f)
      BY <1>3 DEF PhaseStep, IntegrationOutcome, OwnHandler, Queues
    <2>2. InOrder(todo')
      BY <2>1, OwnHandlersInOrder, QueuesInOrder, LandingInOrder
    <2>3. UNCHANGED << features, dependsOn, entrySeq, clock, crashes >>
      BY <1>3, HandlersArePlain
    <2> QED BY <2>2, <2>3 DEF TrainInv, TrainAwaitsMerge, InOrder, InTrain
  <1>4. ASSUME NEW f \in Features, BeginNextIntegration(f)
        PROVE  InOrder(todo)' /\ TrainAwaitsMerge'
    <2> DEFINE a == W(f, "start")
               b == W(f, "begin")
    <2>1. /\ todo' = << a, b >>
          /\ UNCHANGED << features, dependsOn, entrySeq, clock, crashes >>
      BY <1>4 DEF BeginNextIntegration, Handle
    <2>2. /\ a \in ProperWrites /\ a.op = "start" /\ a.feature = f
          /\ b \in ProperWrites /\ b.op = "begin" /\ b.feature = f
      <3>1. a \in ProperWrites /\ b \in ProperWrites
        BY WriteTypes DEF WriteOp
      <3> QED BY <3>1 DEF W, Write
    <2> HIDE DEF a, b
    <2>3. todo' \in Seq(ProperWrites)
      BY <2>1, <2>2, SequenceOfTwo
    <2>4. \A i \in DOMAIN todo' : /\ todo'[i].feature = f
                                  /\ todo'[i].op \in {"start", "begin"}
      BY <2>1, <2>2
    <2> QED BY <2>1, <2>3, <2>4
            DEF TrainInv, TrainAwaitsMerge, InOrder, InTrain, Leaving
  <1>5. ASSUME NEW f \in Features, CancelFeature(f)
        PROVE  InOrder(todo)' /\ TrainAwaitsMerge'
    <2>1. /\ todo = << >> /\ todo' = << >>
          /\ features' = [features EXCEPT ![f].collab = "cancelled"]
      BY <1>5 DEF CancelFeature
    <2>2. \A g \in Features :
             \/ features'[g] = features[g]
             \/ features'[g].collab = "cancelled"
      BY <2>1 DEF TrainInv, LifecycleInv, TypeOK, FeatureRow
    <2> QED BY <2>1, <2>2 DEF TrainInv, TrainAwaitsMerge, InOrder, InTrain
  <1>6. ASSUME NEW f \in Features, ApplyProjectProposal(f)
        PROVE  InOrder(todo)' /\ TrainAwaitsMerge'
    <2>1. todo' = << >> /\ UNCHANGED features
      BY <1>6 DEF ApplyProjectProposal, AddDependency, RemoveDependency
    <2> QED BY <2>1 DEF TrainInv, TrainAwaitsMerge, InOrder, InTrain
  <1>7. CASE UNCHANGED lifecycleVars
    BY <1>7 DEF lifecycleVars, TrainInv, TrainAwaitsMerge, InOrder, InTrain
  <1> QED BY <1>1, <1>2, <1>3, <1>4, <1>5, <1>6, <1>7 DEF Next

LEMMA TrainInit == Init => TrainInv
  <1> SUFFICES ASSUME Init PROVE TrainInv
    OBVIOUS
  <1>1. InOrder(todo)
    BY DEF Init, InOrder
  <1>2. TrainAwaitsMerge
    BY DEF Init, TrainAwaitsMerge, InTrain
  <1> QED BY <1>1, <1>2, InitHolds DEF TrainInv

\* In every reachable state the remaining writes of the running handler are in
\* the order that keeps the train consistent (completePhase, rerouteToReplan).
THEOREM TrainInvariant == Spec => []TrainInv
  BY TrainInit, TrainHolds, PTL DEF Spec

\* A feature in the train is waiting for its merge and has not failed, for
\* any number of features and any handler cut short anywhere by a crash or by
\* a refused write (rerouteToReplan, completePhase, enqueueFeatureMerge).
THEOREM TrainWaits == Spec => []TrainAwaitsMerge
  <1>1. TrainInv => TrainAwaitsMerge
    BY DEF TrainInv
  <1> QED BY <1>1, TrainInvariant, PTL

\* A feature is queued only when all it depends on at that moment is merged,
\* whatever a project planner changed since it was planned
\* (enqueueFeatureMerge).
THEOREM DependenciesBeforeQueue == Spec => QueuedAfterDependencies
  <1> DEFINE Step == \A f \in Features :
                        /\ features[f].collab # "merge_queued"
                        /\ features'[f].collab = "merge_queued"
                        => \A d \in dependsOn[f] :
                              features[d].collab = "merged"
  <1>1. TrainInv /\ [Next]_lifecycleVars => Step
    <2> SUFFICES ASSUME TrainInv, [Next]_lifecycleVars,
                        NEW f \in Features,
                        features[f].collab # "merge_queued",
                        features'[f].collab = "merge_queued"
                 PROVE  \A d \in dependsOn[f] : features[d].collab = "merged"
      OBVIOUS
    <2>1. features' # features
      OBVIOUS
    <2>2. CASE CommitWrite
      <3> DEFINE w == Head(todo)
                 row == features[w.feature]
      <3>1. /\ todo # << >>
            /\ Accepted(w, row)
            /\ features' = [features EXCEPT ![w.feature] = NewRow(w, row)]
            /\ todo' = Tail(todo)
        BY <2>2 DEF CommitWrite
      <3>2. /\ w \in Writes
            /\ row \in FeatureRow
        BY <3>1, RestOfTodo DEF TrainInv, LifecycleInv, TypeOK, Writes
      <3>3. /\ w.feature = f
            /\ NewRow(w, row).collab = "merge_queued"
            /\ row.collab # "merge_queued"
        BY <3>1, <3>2 DEF TrainInv, LifecycleInv, TypeOK, Writes
      <3>4. w.op = "enqueue"
        BY <3>2, <3>3, OnlyEnqueueQueues
      <3> QED BY <3>1, <3>3, <3>4 DEF Accepted
    <2>3. CASE SkipWrite \/ RefuseWrite \/ Crash
      BY <2>1, <2>3 DEF SkipWrite, RefuseWrite, Crash
    <2>4. ASSUME NEW g \in Features,
                 PhaseStep(g) \/ OnTaskLanded(g) \/ IntegrationOutcome(g)
          PROVE  FALSE
      BY <2>1, <2>4, HandlersArePlain
    <2>5. ASSUME NEW g \in Features, CancelFeature(g)
          PROVE  FALSE
      BY <2>5 DEF CancelFeature, TrainInv, LifecycleInv, TypeOK, FeatureRow
    <2>6. ASSUME NEW g \in Features,
                 BeginNextIntegration(g) \/ ApplyProjectProposal(g)
          PROVE  FALSE
      BY <2>1, <2>6 DEF BeginNextIntegration, Handle, ApplyProjectProposal,
                        AddDependency, RemoveDependency
    <2>7. CASE UNCHANGED lifecycleVars
      BY <2>1, <2>7 DEF lifecycleVars
    <2> QED BY <2>2, <2>3, <2>4, <2>5, <2>6, <2>7 DEF Next, TakeWrite
  <1>2. TrainInv /\ [Next]_lifecycleVars => [Step]_lifecycleVars
    BY <1>1
  <1> QED BY <1>2, TrainInvariant, PTL DEF Spec, QueuedAfterDependencies

----------------------------------------------------------------------------
(* First in, first out *)

Stamping(f) == todo # << >> /\ todo[1] = W(f, "stamp")

\* f is queued and has its place.
Placed(f) == features[f].collab = "merge_queued" /\ ~ Stamping(f)

\* A feature is given its place by the write after the one that queues it,
\* and by no other.
StampFollows ==
    \A i \in DOMAIN todo :
        /\ todo[i].op # "forget"
        /\ todo[i].op = "enqueue" =>
              /\ i + 1 \in DOMAIN todo
              /\ todo[i + 1] = W(todo[i].feature, "stamp")
        /\ todo[i].op = "stamp" /\ i # 1 => todo[i - 1].op = "enqueue"

\* Places are handed out in the order of the clock, and while one is being
\* handed out all others are behind the counter.
PlacesInOrder ==
    /\ \A f \in Features : Placed(f) =>
          /\ features[f].seq <= entrySeq
          /\ features[f].enteredAt <= clock
          /\ \A g \in Features : Stamping(g) => features[f].seq < entrySeq
    /\ \A f, g \in Features :
          Placed(f) /\ Placed(g) /\ features[f].seq <= features[g].seq
             => features[f].enteredAt <= features[g].enteredAt

\* The counter is in memory: a restart begins at zero again.
FifoInv == TrainInv /\ (crashes = 0 => StampFollows /\ PlacesInOrder)

\* A handler without a queueing write hands out no place.
LEMMA NoPlacesGiven ==
    ASSUME FifoInv, todo = << >>, UNCHANGED features,
           UNCHANGED << entrySeq, clock >>, todo' \in Seq(ProperWrites),
           \A i \in DOMAIN todo' :
              todo'[i].op \notin {"enqueue", "stamp", "forget"}
    PROVE  crashes = 0 => (StampFollows /\ PlacesInOrder)'
  <1>1. \A f \in Features : ~ Stamping(f) /\ ~ Stamping(f)'
    <2>1. todo' # << >> => 1 \in DOMAIN todo'
      OBVIOUS
    <2> QED BY <2>1 DEF Stamping, W, Write
  <1>2. \A f \in Features : Placed(f)' = Placed(f)
    BY <1>1 DEF Placed
  <1> QED BY <1>1, <1>2 DEF FifoInv, StampFollows, PlacesInOrder

\* A passed verification queues its feature and stamps it in one handler.
LEMMA PlaceGiven ==
    ASSUME FifoInv, NEW f \in Features, Queues(f), crashes = 0
    PROVE  (StampFollows /\ PlacesInOrder)'
  <1> DEFINE a == W(f, "start")
             b == W(f, "done")
             c == Write(f, "advance", "awaiting_merge", Keep)
             d == W(f, "clear_conflict")
             e == W(f, "enqueue")
             g == W(f, "stamp")
  <1>1. /\ todo = << >> /\ todo' = << a, b, c, d, e, g >>
        /\ UNCHANGED << features, dependsOn, entrySeq, clock, crashes >>
    <2>1. ~ ReplayVerifyPasses(f)
      BY DEF ReplayVerifyPasses
    <2> QED BY <2>1, EnterTrainIs DEF Queues, VerifyPasses, Handle
  <1>2. /\ a.op = "start" /\ b.op = "done" /\ c.op = "advance"
        /\ d.op = "clear_conflict" /\ e.op = "enqueue" /\ g.op = "stamp"
        /\ e.feature = f
    BY DEF W, Write
  <1>3. StampFollows'
    <2> HIDE DEF a, b, c, d, e
    <2>1. /\ \A i \in DOMAIN todo' : /\ todo'[i].op # "forget"
                                     /\ todo'[i].op = "enqueue" => i = 5
                                     /\ todo'[i].op = "stamp" => i = 6
          /\ 5 + 1 \in DOMAIN todo' /\ todo'[5 + 1] = g
          /\ todo'[5].feature = f
          /\ todo'[6 - 1].op = "enqueue"
      <3> HIDE DEF g
      <3> QED BY <1>1, <1>2
    <2> QED BY <2>1 DEF StampFollows
  <1>4. \A h \in Features : ~ Stamping(h) /\ ~ Stamping(h)'
    <2>1. todo'[1].op = "start"
      <3> HIDE DEF a, b, c, d, e, g
      <3> QED BY <1>1, <1>2
    <2> QED BY <1>1, <2>1 DEF Stamping, W, Write
  <1>5. \A h \in Features : Placed(h)' = Placed(h)
    BY <1>1, <1>4 DEF Placed
  <1> QED BY <1>1, <1>3, <1>4, <1>5 DEF FifoInv, PlacesInOrder

LEMMA FifoWrites ==
    ASSUME FifoInv, TakeWrite, crashes = 0
    PROVE  (StampFollows /\ PlacesInOrder)'
  <1>w. PICK w : w = Head(todo)
    OBVIOUS
  <1>f. PICK f : f = w.feature
    OBVIOUS
  <1> DEFINE row == features[f]
             new == NewRow(w, row)
  <1>1. /\ StampFollows /\ PlacesInOrder
        /\ \A g \in Features : /\ features[g] \in FeatureRow
                               /\ features[g].seq \in Nat
                               /\ features[g].enteredAt \in Nat
        /\ entrySeq \in Nat /\ clock \in Nat
        /\ todo \in Seq(ProperWrites)
    BY DEF FifoInv, TrainInv, LifecycleInv, TypeOK, InOrder, FeatureRow
  <1>2. CASE RefuseWrite
    <2>1. /\ todo # << >> /\ todo' = << >>
          /\ ~ Accepted(w, row)
          /\ UNCHANGED << features, dependsOn, entrySeq, clock, crashes >>
      BY <1>w, <1>f, <1>2 DEF RefuseWrite
    <2>2. w.op # "stamp"
      BY <2>1 DEF Accepted, FieldWrite
    <2>3. \A g \in Features : ~ Stamping(g) /\ ~ Stamping(g)'
      <3>1. w = todo[1]
        BY <1>w, <1>1, <2>1
      <3> QED BY <2>1, <2>2, <3>1 DEF Stamping, W, Write
    <2>4. \A g \in Features : Placed(g)' = Placed(g)
      BY <2>1, <2>3 DEF Placed
    <2> QED BY <1>1, <2>1, <2>3, <2>4 DEF StampFollows, PlacesInOrder
  <1>3. ASSUME todo # << >>, todo' = Tail(todo)
        PROVE  /\ StampFollows'
               /\ w = todo[1] /\ w \in ProperWrites /\ w.op # "forget"
               /\ w.op = "enqueue" => Stamping(f)'
               /\ w.op # "enqueue" => \A g \in Features : ~ Stamping(g)'
               /\ w.op # "stamp" => \A g \in Features : ~ Stamping(g)
               /\ \A g \in Features \ {f} : ~ Stamping(g) /\ ~ Stamping(g)'
    <2>1. /\ 1 \in DOMAIN todo /\ w = todo[1]
          /\ todo' \in Seq(ProperWrites)
          /\ \A i \in DOMAIN todo' : /\ i \in Nat \ {0}
                                     /\ i + 1 \in DOMAIN todo
                                     /\ todo'[i] = todo[i + 1]
          /\ \A i \in DOMAIN todo : i \in Nat \ {0}
          /\ \A i \in Nat \ {0} : i + 1 \in DOMAIN todo => i \in DOMAIN todo'
      BY <1>w, <1>1, <1>3
    <2>2. StampFollows'
      <3> SUFFICES ASSUME NEW i \in DOMAIN todo'
                   PROVE  /\ todo'[i].op # "forget"
                          /\ todo'[i].op = "enqueue" =>
                                /\ i + 1 \in DOMAIN todo'
                                /\ todo'[i + 1] = W(todo'[i].feature, "stamp")
                          /\ todo'[i].op = "stamp" /\ i # 1
                                => todo'[i - 1].op = "enqueue"
        BY DEF StampFollows
      <3>1. i \in Nat \ {0} /\ i + 1 \in DOMAIN todo /\ todo'[i] = todo[i + 1]
        BY <2>1
      <3>2. todo'[i].op # "forget"
        BY <1>1, <3>1 DEF StampFollows
      <3>3. ASSUME todo'[i].op = "enqueue"
            PROVE  /\ i + 1 \in DOMAIN todo'
                   /\ todo'[i + 1] = W(todo'[i].feature, "stamp")
        <4>1. /\ (i + 1) + 1 \in DOMAIN todo
              /\ todo[(i + 1) + 1] = W(todo[i + 1].feature, "stamp")
          BY <1>1, <3>1, <3>3 DEF StampFollows
        <4>2. i + 1 \in DOMAIN todo'
          BY <2>1, <3>1, <4>1
        <4> QED BY <2>1, <3>1, <4>1, <4>2
      <3>4. ASSUME todo'[i].op = "stamp", i # 1
            PROVE  todo'[i - 1].op = "enqueue"
        <4>1. todo[(i + 1) - 1].op = "enqueue"
          BY <1>1, <3>1, <3>4 DEF StampFollows
        <4>2. (i + 1) - 1 = (i - 1) + 1 /\ i - 1 \in Nat \ {0}
          BY <3>1, <3>4
        <4>3. i - 1 \in DOMAIN todo'
          <5>1. DOMAIN todo' = 1..Len(todo') /\ Len(todo') \in Nat
            BY <2>1
          <5> QED BY <4>2, <5>1
        <4> QED BY <2>1, <4>1, <4>2, <4>3
      <3> QED BY <3>2, <3>3, <3>4
    <2>3. \A i \in DOMAIN todo : todo[i].feature = f
      BY <1>f, <2>1 DEF FifoInv, TrainInv, InOrder
    <2>4. ASSUME todo' # << >>
          PROVE  /\ 1 \in DOMAIN todo' /\ todo'[1] = todo[2]
                 /\ 2 \in DOMAIN todo
                 /\ todo[2].op = "stamp" => w.op = "enqueue"
      <3>1. 1 \in DOMAIN todo'
        BY <2>1, <2>4
      <3>2. 2 \in DOMAIN todo /\ todo'[1] = todo[2]
        BY <2>1, <3>1
      <3>3. 2 # 1 /\ 2 - 1 = 1
        OBVIOUS
      <3>4. todo[2].op = "stamp" => todo[2 - 1].op = "enqueue"
        BY <1>1, <3>2, <3>3 DEF StampFollows
      <3> QED BY <2>1, <3>1, <3>2, <3>3, <3>4
    <2>5. w.op = "enqueue" => Stamping(f)'
      <3> SUFFICES ASSUME w.op = "enqueue"
                   PROVE  todo' # << >> /\ todo'[1] = W(f, "stamp")
        BY <2>1, <2>3 DEF Stamping
      <3>1. 1 + 1 \in DOMAIN todo /\ todo[1 + 1] = W(f, "stamp")
        BY <1>f, <1>1, <2>1 DEF StampFollows
      <3>2. 1 \in DOMAIN todo'
        BY <2>1, <3>1
      <3> QED BY <2>1, <3>1, <3>2
    <2>6. w.op # "enqueue" => \A g \in Features : ~ Stamping(g)'
      BY <2>4 DEF Stamping, W, Write
    <2>7. w.op # "stamp" => \A g \in Features : ~ Stamping(g)
      BY <2>1 DEF Stamping, W, Write
    <2>8. \A g \in Features \ {f} : ~ Stamping(g) /\ ~ Stamping(g)'
      <3>1. todo[1].feature = f /\ (todo' # << >> => todo'[1].feature = f)
        BY <2>1, <2>3, <2>4
      <3> QED BY <3>1 DEF Stamping, W, Write
    <2> QED BY <1>1, <2>1, <2>2, <2>5, <2>6, <2>7, <2>8 DEF StampFollows
  <1>4. CASE SkipWrite
    <2>1. /\ todo # << >> /\ todo' = Tail(todo)
          /\ UNCHANGED << features, dependsOn, entrySeq, clock, crashes >>
          /\ w.op \notin {"stamp", "enqueue"}
      BY <1>w, <1>f, <1>4 DEF SkipWrite, Skipped
    <2>2. \A g \in Features : /\ ~ Stamping(g) /\ ~ Stamping(g)'
                              /\ Placed(g)' = Placed(g)
      BY <1>3, <2>1 DEF Placed
    <2> QED BY <1>1, <1>3, <2>1, <2>2 DEF PlacesInOrder
  <1>5. CASE CommitWrite
    <2>1. /\ todo # << >> /\ todo' = Tail(todo)
          /\ features' = [features EXCEPT ![f] = new]
          /\ entrySeq' = IF w.op = "enqueue" THEN entrySeq + 1
                         ELSE IF w.op = "forget" THEN 0 ELSE entrySeq
          /\ clock' = IF w.op = "stamp" THEN clock + 1 ELSE clock
      BY <1>w, <1>f, <1>5 DEF CommitWrite
    <2>2. /\ w \in ProperWrites /\ w \in Writes /\ f \in Features
          /\ row \in FeatureRow
          /\ features'[f] = new
          /\ \A g \in Features \ {f} : features'[g] = features[g]
          /\ w.op # "forget"
      BY <1>f, <1>1, <1>3, <2>1, OwnWritesArePlain
         DEF FifoInv, TrainInv, LifecycleInv, TypeOK, Writes
    <2>3. CASE w.op = "enqueue"
      <3>1. /\ entrySeq' = entrySeq + 1 /\ clock' = clock
            /\ \A g \in Features : Placed(g)' => g # f /\ Placed(g)
        BY <1>3, <2>1, <2>2, <2>3 DEF Placed
      <3>2. \A g \in Features : Placed(g)' =>
               /\ features'[g] = features[g]
               /\ features[g].seq <= entrySeq
               /\ features[g].enteredAt <= clock
        BY <1>1, <2>2, <3>1 DEF PlacesInOrder
      <3> QED BY <1>1, <1>3, <2>1, <3>1, <3>2 DEF PlacesInOrder
    <2>4. CASE w.op = "stamp"
      <3>1. /\ entrySeq' = entrySeq /\ clock' = clock + 1
            /\ new.seq = entrySeq /\ new.enteredAt = clock + 1
            /\ new.collab = row.collab
            /\ \A g \in Features : ~ Stamping(g)'
        BY <1>3, <2>1, <2>2, <2>4 DEF NewRow, FeatureRow
      <3>2. Stamping(f)
        BY <1>f, <1>3, <2>1, <2>2, <2>4
           DEF Stamping, W, Write, ProperWrites, Writes
      <3>3. \A g \in Features \ {f} : Placed(g)' =>
               /\ Placed(g)
               /\ features'[g] = features[g]
               /\ features[g].seq < entrySeq
               /\ features[g].enteredAt <= clock
        BY <1>1, <1>3, <2>1, <2>2, <3>2 DEF PlacesInOrder, Placed
      <3>4. StampFollows' /\ \A g \in Features : features[g] \in FeatureRow
        BY <1>1, <1>3, <2>1 DEF TypeOK
      <3>5. entrySeq \in Nat /\ clock \in Nat
        BY <1>1 DEF TypeOK
      <3>6. ASSUME NEW g \in Features, Placed(g)'
            PROVE  /\ features'[g].seq <= entrySeq
                   /\ features'[g].enteredAt <= clock + 1
                   /\ g # f => /\ features'[g].seq < entrySeq
                               /\ features'[g].enteredAt <= clock
        <4>1. CASE g = f
          BY <2>2, <3>1, <3>5, <4>1
        <4>2. CASE g # f
          <5>1. /\ features'[g] = features[g]
                /\ features[g].seq < entrySeq /\ features[g].enteredAt <= clock
            BY <3>3, <3>6, <4>2
          <5>2. features[g].seq \in Nat /\ features[g].enteredAt \in Nat
            BY <3>4 DEF FeatureRow
          <5> QED BY <3>5, <4>2, <5>1, <5>2
        <4> QED BY <4>1, <4>2
      <3>7. ASSUME NEW g \in Features, NEW h \in Features,
                   Placed(g)', Placed(h)', features'[g].seq <= features'[h].seq
            PROVE  features'[g].enteredAt <= features'[h].enteredAt
        <4>1. CASE h = f
          BY <2>2, <3>1, <3>6, <3>7, <4>1
        <4>2. CASE g = f /\ h # f
          <5>1. features'[h].seq < entrySeq /\ features'[g].seq = entrySeq
            BY <2>2, <3>1, <3>6, <3>7, <4>2
          <5>2. features'[h].seq \in Nat
            BY <2>2, <3>4, <4>2 DEF FeatureRow
          <5> QED BY <3>5, <3>7, <5>1, <5>2
        <4>3. CASE g # f /\ h # f
          <5>1. Placed(g) /\ Placed(h)
            BY <3>3, <3>7, <4>3
          <5>2. features'[g] = features[g] /\ features'[h] = features[h]
            BY <2>2, <4>3
          <5> QED BY <1>1, <3>7, <5>1, <5>2 DEF PlacesInOrder
        <4> QED BY <4>1, <4>2, <4>3
      <3>8. (\A g \in Features : Placed(g) =>
                /\ features[g].seq <= entrySeq
                /\ features[g].enteredAt <= clock
                /\ \A h \in Features : Stamping(h) => features[g].seq < entrySeq)'
        BY <3>1, <3>6
      <3>9. (\A g, h \in Features :
                Placed(g) /\ Placed(h) /\ features[g].seq <= features[h].seq
                   => features[g].enteredAt <= features[h].enteredAt)'
        BY <3>7
      <3> QED BY <3>4, <3>8, <3>9 DEF PlacesInOrder
    <2>5. CASE w.op \notin {"enqueue", "stamp"}
      <3>1. /\ entrySeq' = entrySeq /\ clock' = clock
            /\ \A g \in Features : ~ Stamping(g) /\ ~ Stamping(g)'
        BY <1>3, <2>1, <2>2, <2>5
      <3>2. new.collab = "merge_queued" => row.collab = "merge_queued"
        BY <2>2, <2>5, OnlyEnqueueQueues
      <3>3. new.collab = "merge_queued" =>
               new.seq = row.seq /\ new.enteredAt = row.enteredAt
        <4>1. CASE w.op \in {"unstamp", "count_reentry"}
          <5>1. row.collab # "merge_queued"
            <6>1. 1 \in DOMAIN todo /\ \A j \in 1..(1 - 1) : FALSE
              BY <1>1, <2>1
            <6> QED BY <1>f, <1>3, <2>1, <4>1, <6>1
                    DEF FifoInv, TrainInv, InOrder, InTrain, Leaving
          <5> QED BY <3>2, <5>1
        <4>2. CASE w.op \notin {"unstamp", "count_reentry"}
          BY <2>2, <2>5, <4>2 DEF NewRow, Transitioned, FeatureRow
        <4> QED BY <4>1, <4>2
      <3>4. \A g \in Features : Placed(g)' =>
               /\ Placed(g)
               /\ features'[g].seq = features[g].seq
               /\ features'[g].enteredAt = features[g].enteredAt
        BY <2>2, <3>1, <3>2, <3>3 DEF Placed
      <3> QED BY <1>1, <1>3, <2>1, <3>1, <3>4 DEF PlacesInOrder
    <2> QED BY <2>3, <2>4, <2>5
  <1> QED BY <1>2, <1>4, <1>5 DEF TakeWrite

LEMMA FifoHolds == FifoInv /\ [Next]_lifecycleVars => FifoInv'
  <1> SUFFICES ASSUME FifoInv, [Next]_lifecycleVars, crashes' = 0
               PROVE  (StampFollows /\ PlacesInOrder)'
    BY TrainHolds DEF FifoInv
  <1>1. TypeOK /\ TypeOK'
    BY TrainHolds DEF FifoInv, TrainInv, LifecycleInv
  <1>2. ~ Crash
    BY <1>1 DEF Crash, TypeOK
  <1>3. CASE TakeWrite
    <2>1. crashes = 0
      BY <1>3 DEF TakeWrite, SkipWrite, CommitWrite, RefuseWrite
    <2> QED BY <1>3, <2>1, FifoWrites
  <1>4. ASSUME NEW f \in Features, OwnHandler(f)
        PROVE  (StampFollows /\ PlacesInOrder)'
    <2>1. todo = << >>
      BY <1>4 DEF OwnHandler, MarkFeaturePhaseRunning, CompleteDiscuss,
                  CompleteResearch, ApproveProposal, OnTaskLanded,
                  CiCheckPasses, CiCheckFails, VerifyFails, TaskWorkFails,
                  EjectFromQueue, IntegrationFails, ReconcilePostMerge,
                  CompleteSummary, Handle
    <2>2. /\ todo' \in Seq(OwnWrites(f))
          /\ UNCHANGED << features, dependsOn, entrySeq, clock, crashes >>
      BY <1>4, OwnHandlers
    <2>3. todo' \in Seq(ProperWrites)
      BY <2>2, OwnWritesArePlain, SeqMonotonic
    <2>4. \A i \in DOMAIN todo' : todo'[i] \in OwnWrites(f)
      BY <2>2
    <2> QED BY <2>1, <2>2, <2>3, <2>4, NoPlacesGiven DEF OwnWrites
  <1>5. ASSUME NEW f \in Features, Queues(f)
        PROVE  (StampFollows /\ PlacesInOrder)'
    BY <1>5, PlaceGiven, HandlersArePlain DEF Queues, PhaseStep
  <1>6. ASSUME NEW f \in Features,
               IntegrationLands(f) \/ BeginNextIntegration(f)
        PROVE  (StampFollows /\ PlacesInOrder)'
    <2> DEFINE a == IF IntegrationLands(f) THEN MoveTo(f, "merged")
                                           ELSE W(f, "start")
               b == IF IntegrationLands(f) THEN W(f, "unstamp")
                                           ELSE W(f, "begin")
    <2>1. /\ todo = << >> /\ todo' = << a, b >>
          /\ UNCHANGED << features, dependsOn, entrySeq, clock, crashes >>
      BY <1>6 DEF IntegrationLands, CompleteIntegration, BeginNextIntegration,
                  Handle
    <2>2. /\ a \in ProperWrites /\ b \in ProperWrites
          /\ a.op \in {"collab", "start"} /\ b.op \in {"unstamp", "begin"}
      BY WriteTypes DEF WriteOp, MoveTo, W, Write
    <2> HIDE DEF a, b
    <2>3. todo' \in Seq(ProperWrites)
      BY <2>1, <2>2, SequenceOfTwo
    <2>4. \A i \in DOMAIN todo' :
             todo'[i].op \in {"collab", "start", "unstamp", "begin"}
      BY <2>1, <2>2
    <2> QED BY <2>1, <2>3, <2>4, NoPlacesGiven
  <1>7. ASSUME NEW f \in Features, CancelFeature(f)
        PROVE  (StampFollows /\ PlacesInOrder)'
    <2>1. /\ todo = << >> /\ todo' = << >>
          /\ features' = [features EXCEPT ![f].collab = "cancelled"]
          /\ UNCHANGED << dependsOn, entrySeq, clock, crashes >>
      BY <1>7 DEF CancelFeature
    <2>2. \A g \in Features : Placed(g)' => /\ Placed(g)
                                            /\ features'[g] = features[g]
      BY <1>1, <2>1 DEF Placed, Stamping, TypeOK, FeatureRow
    <2> QED BY <2>1, <2>2 DEF FifoInv, StampFollows, PlacesInOrder, Stamping
  <1>8. ASSUME NEW f \in Features, ApplyProjectProposal(f)
        PROVE  (StampFollows /\ PlacesInOrder)'
    <2>1. UNCHANGED << features, entrySeq, clock, todo, crashes >>
      BY <1>8 DEF ApplyProjectProposal, AddDependency, RemoveDependency
    <2> QED BY <2>1 DEF FifoInv, StampFollows, PlacesInOrder, Placed, Stamping
  <1>9. CASE UNCHANGED lifecycleVars
    BY <1>9 DEF lifecycleVars, FifoInv, StampFollows, PlacesInOrder, Placed,
                Stamping
  <1> QED BY <1>2, <1>3, <1>4, <1>5, <1>6, <1>7, <1>8, <1>9
          DEF Next, PhaseStep, IntegrationOutcome, OwnHandler, Queues

\* Until the first crash places are handed out in the order of entry
\* (enqueueFeatureMerge).
THEOREM FifoInvariant == Spec => []FifoInv
  <1>1. Init => FifoInv
    <2> SUFFICES ASSUME Init PROVE StampFollows /\ PlacesInOrder
      BY TrainInit DEF FifoInv
    <2> QED BY DEF Init, StampFollows, PlacesInOrder, Placed
  <1> QED BY <1>1, FifoHolds, PTL DEF Spec

\* For as long as the process lives, features of equal manual position and
\* re-entry count are integrated in the order they were queued: the sequence
\* numbers the comparator looks at never disagree with the times of entry,
\* although the number is written by a transaction after the one that queues
\* the feature (nextToIntegrate, enqueueFeatureMerge).
THEOREM FirstComeFirstServed ==
    Spec /\ [](crashes = 0) => FifoAmongEquals
  <1>1. FifoInv /\ crashes = 0 /\ [Next]_lifecycleVars => FifoStep
    <2> SUFFICES ASSUME FifoInv, crashes = 0, [Next]_lifecycleVars,
                        NEW f \in Features, NEW g \in Features,
                        Selected(f), features[g].collab = "merge_queued",
                        features[f].manual = features[g].manual,
                        features[f].reentry = features[g].reentry
                 PROVE  features[f].enteredAt <= features[g].enteredAt
      BY DEF FifoStep
    <2>1. /\ features[f] \in FeatureRow
          /\ features[g] \in FeatureRow
          /\ LifecycleInv
      BY DEF FifoInv, TrainInv, LifecycleInv, TypeOK
    <2>2. NextToIntegrate(f) /\ Head(todo) = W(f, "begin")
      BY <2>1, SelectionStep
    <2>3. ~ (features[g].seq < features[f].seq)
      BY <2>2 DEF NextToIntegrate, Queued, SortsBefore
    <2>4. Placed(f) /\ Placed(g)
      <3>1. \A h \in Features : ~ Stamping(h)
        <4>1. todo # << >> => Head(todo) = todo[1]
          BY <2>1 DEF LifecycleInv, TypeOK
        <4> QED BY <2>2, <4>1 DEF Stamping, W, Write
      <3> QED BY <3>1 DEF Selected, Placed
    <2> QED BY <2>1, <2>3, <2>4 DEF FifoInv, PlacesInOrder, FeatureRow
  <1>2. /\ FifoInv /\ crashes = 0 /\ [Next]_lifecycleVars
        => [FifoStep]_lifecycleVars
    BY <1>1
  <1> QED BY <1>2, FifoInvariant, PTL DEF Spec, FifoAmongEquals

----------------------------------------------------------------------------
(* After the merge *)

\* A merged feature is past its merge for good: no handler that may still
\* run takes it back to a phase before it, and the handler that records a
\* merge writes nothing else but the queue's columns.
MergedOnward ==
    /\ \A f \in Features : features[f].collab = "merged" =>
          features[f].work \in {"awaiting_merge", "summarizing",
                                "work_complete"}
    /\ \A i \in DOMAIN todo :
          /\ /\ todo[i].op = "advance"
             /\ features[todo[i].feature].collab = "merged"
             => todo[i].work \in {"summarizing", "work_complete"}
          /\ todo[i].collab = "merged" =>
                /\ todo[i].op = "collab"
                /\ \A j \in DOMAIN todo : i < j => todo[j].op = "unstamp"

MergedInv == TrainInv /\ MergedOnward

\* What a handler may write to a merged feature.
OnwardWrites(f) ==
    {w \in OwnWrites(f) :
        w.op = "advance" => w.work \in {"summarizing", "work_complete"}}

LEMMA MergedHandlers ==
    ASSUME NEW f \in Features, OwnHandler(f), MergedInv,
           features[f].collab = "merged"
    PROVE  todo' \in Seq(OnwardWrites(f))
  <1>1. features[f].work \in {"awaiting_merge", "summarizing", "work_complete"}
    BY DEF MergedInv, MergedOnward
  <1>2. \/ MarkFeaturePhaseRunning(f)
        \/ ReconcilePostMerge(f)
        \/ CompleteSummary(f)
    BY <1>1 DEF OwnHandler, CompleteDiscuss, CompleteResearch, ApproveProposal,
                OnTaskLanded, CiCheckPasses, CiCheckFails, VerifyFails,
                TaskWorkFails, EjectFromQueue, IntegrationFails, Reports
  <1>3. \A p \in {"summarizing", "work_complete"} :
           Write(f, "advance", p, Keep) \in OnwardWrites(f)
    BY WriteTypes DEF OnwardWrites, Write, WorkControl
  <1>4. \A op \in {"running", "start", "done", "edit"} :
           W(f, op) \in OnwardWrites(f)
    BY WriteTypes DEF OnwardWrites, WriteOp, W, Write
  <1>5. /\ << W(f, "running") >> \in Seq(OnwardWrites(f))
        /\ << W(f, "edit") >> \in Seq(OnwardWrites(f))
        /\ MarkPhaseDone(f) \in Seq(OnwardWrites(f))
        /\ \A p \in {"summarizing", "work_complete"} :
              Advance(f, p) \in Seq(OnwardWrites(f))
    BY <1>3, <1>4, SequenceOfOne, SequenceOfTwo DEF MarkPhaseDone, Advance
  <1>6. CASE MarkFeaturePhaseRunning(f)
    BY <1>5, <1>6 DEF MarkFeaturePhaseRunning, Handle
  <1>7. CASE ReconcilePostMerge(f)
    <2>1. \A p \in {"summarizing", "work_complete"} :
             MarkPhaseDone(f) \o Advance(f, p) \in Seq(OnwardWrites(f))
      BY <1>5, Concatenation
    <2> QED BY <1>7, <2>1 DEF ReconcilePostMerge, Handle
  <1>8. CASE CompleteSummary(f)
    <2>1. MarkPhaseDone(f) \o << W(f, "edit") >> \in Seq(OnwardWrites(f))
      BY <1>5, Concatenation
    <2>2. MarkPhaseDone(f) \o << W(f, "edit") >> \o Advance(f, "work_complete")
             \in Seq(OnwardWrites(f))
      BY <1>5, <2>1, Concatenation
    <2> QED BY <1>8, <2>2 DEF CompleteSummary, Handle
  <1> QED BY <1>2, <1>6, <1>7, <1>8

\* A feature becomes merged only by the write that says so, from integrating,
\* and no write that a guard accepts takes it out of merged or cancelled.
LEMMA MergedRows ==
    ASSUME NEW w \in ProperWrites, NEW row \in FeatureRow, Accepted(w, row),
           entrySeq \in Nat, clock \in Nat
    PROVE  /\ row.collab \in {"merged", "cancelled"}
                 => NewRow(w, row).collab = row.collab
           /\ row.collab = "cancelled" => NewRow(w, row).work = row.work
           /\ NewRow(w, row).collab = "merged" /\ row.collab # "merged" =>
                 /\ w.collab = "merged"
                 /\ w.op = "collab" => /\ row.collab = "integrating"
                                       /\ NewRow(w, row).work = row.work
           /\ w.op # "advance" => NewRow(w, row).work = row.work
           /\ w.op = "advance" => NewRow(w, row).work = w.work
  <1> DEFINE new == NewRow(w, row)
  <1>1. CASE FieldWrite(w)
    <2>1. new.collab = row.collab /\ new.work = row.work /\ w.op # "advance"
      BY <1>1 DEF NewRow, FieldWrite, FeatureRow
    <2> QED BY <2>1
  <1>2. CASE ~ FieldWrite(w)
    <2>1. /\ new = Transitioned(w, row)
          /\ ValidFeatureTransition(Triple(row), Triple(new))
      BY <1>2 DEF NewRow, FieldWrite, Accepted
    <2>2. /\ w \in Writes
          /\ w.op = "advance" <=> w.work # Keep
          /\ new.work = IF w.work = Keep THEN row.work ELSE w.work
      BY <2>1 DEF ProperWrites, Transitioned, FeatureRow
    <2>3. row.collab # new.collab =>
             /\ CollabEdge(row.collab, new.collab)
             /\ row.collab \notin {"merged", "cancelled"}
             /\ new.collab = "merged" => row.collab = "integrating"
      BY <2>1 DEF ValidFeatureTransition, ValidFeatureCollab, CollabEdge, Triple
    <2>4. row.collab = "cancelled" => new.work = row.work
      BY <2>1 DEF ValidFeatureTransition, ValidFeatureWork, Triple
    <2>5. new.collab = "merged" /\ row.collab # "merged" => w.collab = "merged"
      BY <2>1, <2>2 DEF Transitioned, FeatureRow, Writes, Keep
    <2> QED BY <2>2, <2>3, <2>4, <2>5
  <1> QED BY <1>1, <1>2

LEMMA MergedWrites ==
    ASSUME MergedInv, TakeWrite
    PROVE  MergedOnward'
  <1>w. PICK w : w = Head(todo)
    OBVIOUS
  <1>f. PICK f : f = w.feature
    OBVIOUS
  <1> DEFINE row == features[f]
             new == NewRow(w, row)
  <1>1. /\ \A g \in Features : features[g] \in FeatureRow
        /\ features \in [Features -> FeatureRow]
        /\ entrySeq \in Nat /\ clock \in Nat
        /\ todo \in Seq(ProperWrites)
    BY DEF MergedInv, TrainInv, LifecycleInv, TypeOK, InOrder
  <1>2. ASSUME todo # << >>, todo' = Tail(todo)
        PROVE  /\ 1 \in DOMAIN todo /\ w = todo[1]
               /\ w \in ProperWrites /\ f \in Features
               /\ todo' \in Seq(ProperWrites)
               /\ \A i \in DOMAIN todo' : /\ i \in Nat \ {0}
                                          /\ i + 1 \in DOMAIN todo
                                          /\ todo'[i] = todo[i + 1]
                                          /\ todo'[i].feature = f
    <2>1. /\ 1 \in DOMAIN todo /\ w = todo[1] /\ w \in ProperWrites
          /\ todo' \in Seq(ProperWrites)
          /\ \A i \in DOMAIN todo' : /\ i \in Nat \ {0}
                                     /\ i + 1 \in DOMAIN todo
                                     /\ todo'[i] = todo[i + 1]
      BY <1>w, <1>1, <1>2
    <2>2. \A i \in DOMAIN todo : todo[i].feature = f
      BY <1>f, <2>1 DEF MergedInv, TrainInv, InOrder
    <2> QED BY <1>f, <2>1, <2>2 DEF ProperWrites, Writes
  <1>3. CASE SkipWrite
    <2>1. /\ todo # << >> /\ todo' = Tail(todo)
          /\ UNCHANGED << features, dependsOn, entrySeq, clock, crashes >>
      BY <1>3 DEF SkipWrite
    <2> QED BY <1>2, <2>1 DEF MergedInv, MergedOnward
  <1>4. CASE CommitWrite
    <2>1. /\ todo # << >> /\ todo' = Tail(todo)
          /\ Accepted(w, row)
          /\ features' = [features EXCEPT ![f] = new]
      BY <1>w, <1>f, <1>4 DEF CommitWrite
    <2>2. /\ features'[f] = new
          /\ \A g \in Features \ {f} : features'[g] = features[g]
          /\ row \in FeatureRow
          /\ 1 \in DOMAIN todo /\ w = todo[1] /\ w \in ProperWrites
          /\ f \in Features
      BY <1>1, <1>2, <2>1
    <2>3. /\ w.op = "advance" /\ row.collab = "merged"
                => w.work \in {"summarizing", "work_complete"}
          /\ w.collab = "merged" =>
                /\ w.op = "collab"
                /\ \A j \in DOMAIN todo' : todo'[j].op = "unstamp"
      BY <1>f, <1>2, <2>1, <2>2 DEF MergedInv, MergedOnward
    <2>4. /\ row.collab = "merged" => new.collab = "merged"
          /\ new.collab = "merged" /\ row.collab # "merged" =>
                /\ w.collab = "merged"
                /\ row.collab = "integrating"
                /\ new.work = row.work
          /\ w.op # "advance" => new.work = row.work
          /\ w.op = "advance" => new.work = w.work
      BY <1>1, <2>1, <2>2, <2>3, MergedRows
    <2>5. row.collab = "integrating" => row.work = "awaiting_merge"
      BY <2>2 DEF MergedInv, TrainInv, TrainAwaitsMerge, InTrain
    <2>6. new.collab = "merged" =>
             new.work \in {"awaiting_merge", "summarizing", "work_complete"}
      BY <2>2, <2>3, <2>4, <2>5 DEF MergedInv, MergedOnward
    <2>7. ASSUME NEW i \in DOMAIN todo'
          PROVE  /\ todo'[i].op = "advance" /\ new.collab = "merged"
                       => todo'[i].work \in {"summarizing", "work_complete"}
                 /\ todo'[i].collab = "merged" =>
                       /\ todo'[i].op = "collab"
                       /\ \A j \in DOMAIN todo' :
                             i < j => todo'[j].op = "unstamp"
      <3>1. CASE row.collab = "merged" \/ new.collab # "merged"
        BY <1>2, <2>1, <2>4, <3>1 DEF MergedInv, MergedOnward
      <3>2. CASE row.collab # "merged" /\ new.collab = "merged"
        <4>1. \A j \in DOMAIN todo' : todo'[j].op = "unstamp"
          BY <2>3, <2>4, <3>2
        <4>2. todo'[i].collab # "merged"
          BY <1>2, <2>1, <4>1 DEF ProperWrites, Keep
        <4> QED BY <4>1, <4>2
      <3> QED BY <3>1, <3>2
    <2>8. \A i \in DOMAIN todo' : todo'[i].feature = f
      BY <1>2, <2>1
    <2> QED BY <2>2, <2>6, <2>7, <2>8 DEF MergedInv, MergedOnward
  <1>5. CASE RefuseWrite
    BY <1>5 DEF RefuseWrite, MergedInv, MergedOnward
  <1> QED BY <1>3, <1>4, <1>5 DEF TakeWrite

LEMMA MergedHolds == MergedInv /\ [Next]_lifecycleVars => MergedInv'
  <1> SUFFICES ASSUME MergedInv, [Next]_lifecycleVars
               PROVE  MergedOnward'
    BY TrainHolds DEF MergedInv
  <1>1. CASE TakeWrite
    BY <1>1, MergedWrites
  <1>2. CASE Crash
    BY <1>2 DEF Crash, MergedInv, MergedOnward
  <1>3. ASSUME NEW f \in Features, OwnHandler(f)
        PROVE  MergedOnward'
    <2>1. /\ todo' \in Seq(OwnWrites(f))
          /\ UNCHANGED << features, dependsOn, entrySeq, clock, crashes >>
      BY <1>3, OwnHandlers
    <2>2. \A i \in DOMAIN todo' : /\ todo'[i].feature = f
                                  /\ todo'[i].collab # "merged"
      BY <2>1 DEF OwnWrites
    <2>3. CASE features[f].collab = "merged"
      <3>1. todo' \in Seq(OnwardWrites(f))
        BY <1>3, <2>3, MergedHandlers
      <3>2. \A i \in DOMAIN todo' : todo'[i] \in OnwardWrites(f)
        BY <3>1
      <3> QED BY <2>1, <2>2, <3>2 DEF MergedInv, MergedOnward, OnwardWrites
    <2>4. CASE features[f].collab # "merged"
      BY <2>1, <2>2, <2>4 DEF MergedInv, MergedOnward
    <2> QED BY <2>3, <2>4
  <1>4. ASSUME NEW f \in Features, Queues(f)
        PROVE  MergedOnward'
    <2>1. /\ InOrder(todo')
          /\ UNCHANGED << features, dependsOn, entrySeq, clock, crashes >>
      BY <1>4, QueuesInOrder DEF MergedInv
    <2>2. features[f].collab # "merged"
      BY <1>4 DEF Queues, VerifyPasses, ReplayVerifyPasses, Reports, MergedInv,
                  MergedOnward
    <2> DEFINE a == W(f, "start")
               b == W(f, "done")
               c == Write(f, "advance", "awaiting_merge", Keep)
               d == W(f, "clear_conflict")
               e == W(f, "enqueue")
               g == W(f, "stamp")
               h == W(f, "forget")
    <2>3. \/ todo' = << a, b, c, d, e, g >>
          \/ todo' = << a, b, c, d, e, g, h >>
      BY <1>4, EnterTrainIs
         DEF Queues, VerifyPasses, ReplayVerifyPasses, Handle
    <2>4. \A x \in {a, b, c, d, e, g, h} : x.feature = f /\ x.collab = Keep
      BY DEF W, Write
    <2> HIDE DEF a, b, c, d, e, g, h
    <2>5. \A i \in DOMAIN todo' : todo'[i] \in {a, b, c, d, e, g, h}
      BY <2>3
    <2> QED BY <2>1, <2>2, <2>4, <2>5 DEF MergedInv, MergedOnward, Keep
  <1>5. ASSUME NEW f \in Features,
               IntegrationLands(f) \/ BeginNextIntegration(f)
        PROVE  MergedOnward'
    <2> DEFINE a == IF IntegrationLands(f) THEN MoveTo(f, "merged")
                                           ELSE W(f, "start")
               b == IF IntegrationLands(f) THEN W(f, "unstamp")
                                           ELSE W(f, "begin")
    <2>1. /\ todo' = << a, b >>
          /\ UNCHANGED << features, dependsOn, entrySeq, clock, crashes >>
      BY <1>5 DEF IntegrationLands, CompleteIntegration, BeginNextIntegration,
                  Handle
    <2>2. /\ a.op \in {"collab", "start"} /\ b.op \in {"unstamp", "begin"}
          /\ a.collab = "merged" => a.op = "collab" /\ b.op = "unstamp"
          /\ b.collab = Keep
      BY DEF MoveTo, W, Write, Keep
    <2> HIDE DEF a, b
    <2>3. /\ \A i \in DOMAIN todo' : i = 1 \/ i = 2
          /\ todo'[1] = a /\ todo'[2] = b
      BY <2>1
    <2> QED BY <2>1, <2>2, <2>3 DEF MergedInv, MergedOnward, Keep
  <1>6. ASSUME NEW f \in Features, CancelFeature(f)
        PROVE  MergedOnward'
    <2>1. /\ todo' = << >>
          /\ features' = [features EXCEPT ![f].collab = "cancelled"]
      BY <1>6 DEF CancelFeature
    <2>2. \A g \in Features : \/ features'[g] = features[g]
                              \/ features'[g].collab = "cancelled"
      BY <2>1 DEF MergedInv, TrainInv, LifecycleInv, TypeOK, FeatureRow
    <2> QED BY <2>1, <2>2 DEF MergedInv, MergedOnward
  <1>7. ASSUME NEW f \in Features, ApplyProjectProposal(f)
        PROVE  MergedOnward'
    <2>1. todo' = << >> /\ UNCHANGED features
      BY <1>7 DEF ApplyProjectProposal, AddDependency, RemoveDependency
    <2> QED BY <2>1 DEF MergedInv, MergedOnward
  <1>8. CASE UNCHANGED lifecycleVars
    BY <1>8 DEF lifecycleVars, MergedInv, MergedOnward
  <1> QED BY <1>1, <1>2, <1>3, <1>4, <1>5, <1>6, <1>7, <1>8
          DEF Next, PhaseStep, IntegrationOutcome, OwnHandler, Queues

\* A merged feature only goes onward, to its summary and to work_complete
\* (completeIntegration, completePhase).
THEOREM MergedInvariant == Spec => []MergedInv
  <1>1. Init => MergedInv
    <2> SUFFICES ASSUME Init PROVE MergedOnward
      BY TrainInit DEF MergedInv
    <2> QED BY DEF Init, MergedOnward
  <1> QED BY <1>1, MergedHolds, PTL DEF Spec

----------------------------------------------------------------------------
(* Nothing is stranded *)

\* A write that strands nobody: it neither takes a feature to awaiting_merge,
\* nor moves its branch to a state where another write must follow.
SafeWrites ==
    {w \in ProperWrites :
        /\ w.op = "advance" => w.work # "awaiting_merge"
        /\ w.collab = "branch_open" => w.op = "advance" /\ w.work = "executing"
        /\ w.collab # "conflict"}

Settled(f) ==
    /\ features[f].collab # "conflict"
    /\ features[f].work = "awaiting_merge" /\ ~ InTrain(f) =>
          \/ features[f].collab \in {"merged", "cancelled"}
          \/ \E d \in dependsOn[f] : features[d].collab = "cancelled"

Awaiting(f, collab, statuses) == /\ features[f].work = "awaiting_merge"
                                 /\ features[f].collab = collab
                                 /\ features[f].status \in statuses

Unfinished == {"pending", "in_progress"}

Starts(f) == W(f, "start")
Ends(f) == W(f, "done")
Awaits(f) == Write(f, "advance", "awaiting_merge", Keep)
Clears(f) == W(f, "clear_conflict")
Enqueues(f) == W(f, "enqueue")
Stamps(f) == W(f, "stamp")
Opens(f) == MoveTo(f, "branch_open")
Clashes(f) == MoveTo(f, "conflict")
Counts(f) == W(f, "count_reentry")
Edits(f) == W(f, "edit")
Fails(f) == W(f, "fail")
Replans(f) == Write(f, "advance", "replanning", Keep)

\* How far a passed verification is, and the row it has come to.
EntersTrain(f) ==
    \/ /\ Settled(f)
       /\ \/ todo = << Starts(f), Ends(f), Awaits(f), Clears(f), Enqueues(f),
                       Stamps(f) >>
          \/ todo = << Ends(f), Awaits(f), Clears(f), Enqueues(f), Stamps(f) >>
          \/ todo = << Awaits(f), Clears(f), Enqueues(f), Stamps(f) >>
    \/ /\ Awaiting(f, "branch_open", {"pending"})
       /\ \/ todo = << Clears(f), Enqueues(f), Stamps(f) >>
          \/ todo = << Enqueues(f), Stamps(f) >>

\* The same for rerouteToReplan of a queued feature.
LeavesQueue(f) ==
    \/ /\ Awaiting(f, "merge_queued", Unfinished)
       /\ todo = << Opens(f), Counts(f), Edits(f), Starts(f), Fails(f),
                    Replans(f) >>
    \/ /\ Awaiting(f, "branch_open", Unfinished)
       /\ \/ todo = << Counts(f), Edits(f), Starts(f), Fails(f), Replans(f) >>
          \/ todo = << Edits(f), Starts(f), Fails(f), Replans(f) >>
          \/ todo = << Starts(f), Fails(f), Replans(f) >>
    \/ /\ Awaiting(f, "branch_open", {"in_progress"})
       /\ todo = << Fails(f), Replans(f) >>
    \/ /\ Awaiting(f, "branch_open", {"failed"})
       /\ todo = << Replans(f) >>

\* And of one that integrates, which passes through the conflict state.
LeavesIntegration(f) ==
    \/ /\ Awaiting(f, "integrating", Unfinished)
       /\ todo = << Clashes(f), Edits(f), Starts(f), Fails(f), Replans(f),
                    Opens(f), Counts(f) >>
    \/ /\ Awaiting(f, "conflict", Unfinished)
       /\ \/ todo = << Edits(f), Starts(f), Fails(f), Replans(f), Opens(f),
                       Counts(f) >>
          \/ todo = << Starts(f), Fails(f), Replans(f), Opens(f), Counts(f) >>
    \/ /\ Awaiting(f, "conflict", {"in_progress"})
       /\ todo = << Fails(f), Replans(f), Opens(f), Counts(f) >>
    \/ /\ Awaiting(f, "conflict", {"failed"})
       /\ todo = << Replans(f), Opens(f), Counts(f) >>
    \/ /\ features[f].work = "replanning"
       /\ features[f].collab = "conflict"
       /\ todo = << Opens(f), Counts(f) >>

OnTheWay(f) ==
    /\ EntersTrain(f) \/ LeavesQueue(f) \/ LeavesIntegration(f)
    /\ \A g \in Features \ {f} : Settled(g)

StageInv == \/ todo \in Seq(SafeWrites) /\ \A f \in Features : Settled(f)
            \/ \E f \in Features : OnTheWay(f)

\* A feature that has begun depends on nothing that may still be merged.
DepsDone(f) ==
    \A d \in dependsOn[f] : features[d].collab \in {"merged", "cancelled"}

Begun(f) == features[f].work # "discussing" \/ features[f].status # "pending"

BegunInv == /\ \A f \in Features : Begun(f) => DepsDone(f)
            /\ \A i \in DOMAIN todo : DepsDone(todo[i].feature)

SettledInv == MergedInv /\ BegunInv /\ StageInv
LEMMA ConcatOneTwo ==
    ASSUME NEW a, NEW b, NEW c
    PROVE  << a >> \o << b, c >> = << a, b, c >>
  <1> DEFINE S == {a, b, c}
             s == << a >>
             t == << b, c >>
             u == << a, b, c >>
  <1>1. s \in Seq(S) /\ t \in Seq(S) /\ u \in Seq(S)
    OBVIOUS
  <1>2. Len(s) = 1 /\ Len(t) = 2 /\ Len(u) = 3
    OBVIOUS
  <1>3. /\ \A i \in 1..1 : u[i] = s[i]
        /\ \A i \in 1..2 : u[1 + i] = t[i]
    OBVIOUS
  <1> HIDE DEF S, s, t, u
  <1>4. /\ Len(u) = Len(s) + Len(t)
        /\ \A i \in 1..Len(s) : u[i] = s[i]
        /\ \A i \in 1..Len(t) : u[Len(s) + i] = t[i]
    BY <1>2, <1>3
  <1>5. s \o t = u
    BY ONLY <1>1, <1>4, ConcatIs
  <1> QED BY <1>5 DEF s, t, u

LEMMA ConcatThreeOne ==
    ASSUME NEW a, NEW b, NEW c, NEW d
    PROVE  << a, b, c >> \o << d >> = << a, b, c, d >>
  <1> DEFINE S == {a, b, c, d}
             s == << a, b, c >>
             t == << d >>
             u == << a, b, c, d >>
  <1>1. s \in Seq(S) /\ t \in Seq(S) /\ u \in Seq(S)
    OBVIOUS
  <1>2. Len(s) = 3 /\ Len(t) = 1 /\ Len(u) = 4
    OBVIOUS
  <1>3. /\ \A i \in 1..3 : u[i] = s[i]
        /\ \A i \in 1..1 : u[3 + i] = t[i]
    OBVIOUS
  <1> HIDE DEF S, s, t, u
  <1>4. /\ Len(u) = Len(s) + Len(t)
        /\ \A i \in 1..Len(s) : u[i] = s[i]
        /\ \A i \in 1..Len(t) : u[Len(s) + i] = t[i]
    BY <1>2, <1>3
  <1>5. s \o t = u
    BY ONLY <1>1, <1>4, ConcatIs
  <1> QED BY <1>5 DEF s, t, u

LEMMA ConcatTwoFour ==
    ASSUME NEW a, NEW b, NEW c, NEW d, NEW e, NEW g
    PROVE  << a, b >> \o << c, d, e, g >> = << a, b, c, d, e, g >>
  <1> DEFINE S == {a, b, c, d, e, g}
             s == << a, b >>
             t == << c, d, e, g >>
             u == << a, b, c, d, e, g >>
  <1>1. s \in Seq(S) /\ t \in Seq(S) /\ u \in Seq(S)
    OBVIOUS
  <1>2. Len(s) = 2 /\ Len(t) = 4 /\ Len(u) = 6
    OBVIOUS
  <1>3. /\ \A i \in 1..2 : u[i] = s[i]
        /\ \A i \in 1..4 : u[2 + i] = t[i]
    OBVIOUS
  <1> HIDE DEF S, s, t, u
  <1>4. /\ Len(u) = Len(s) + Len(t)
        /\ \A i \in 1..Len(s) : u[i] = s[i]
        /\ \A i \in 1..Len(t) : u[Len(s) + i] = t[i]
    BY <1>2, <1>3
  <1>5. s \o t = u
    BY ONLY <1>1, <1>4, ConcatIs
  <1> QED BY <1>5 DEF s, t, u

LEMMA ConcatOneFour ==
    ASSUME NEW a, NEW b, NEW c, NEW d, NEW e
    PROVE  << a >> \o << b, c, d, e >> = << a, b, c, d, e >>
  <1> DEFINE S == {a, b, c, d, e}
             s == << a >>
             t == << b, c, d, e >>
             u == << a, b, c, d, e >>
  <1>1. s \in Seq(S) /\ t \in Seq(S) /\ u \in Seq(S)
    OBVIOUS
  <1>2. Len(s) = 1 /\ Len(t) = 4 /\ Len(u) = 5
    OBVIOUS
  <1>3. /\ \A i \in 1..1 : u[i] = s[i]
        /\ \A i \in 1..4 : u[1 + i] = t[i]
    OBVIOUS
  <1> HIDE DEF S, s, t, u
  <1>4. /\ Len(u) = Len(s) + Len(t)
        /\ \A i \in 1..Len(s) : u[i] = s[i]
        /\ \A i \in 1..Len(t) : u[Len(s) + i] = t[i]
    BY <1>2, <1>3
  <1>5. s \o t = u
    BY ONLY <1>1, <1>4, ConcatIs
  <1> QED BY <1>5 DEF s, t, u

LEMMA ConcatFiveTwo ==
    ASSUME NEW a, NEW b, NEW c, NEW d, NEW e, NEW g, NEW h
    PROVE  << a, b, c, d, e >> \o << g, h >> = << a, b, c, d, e, g, h >>
  <1> DEFINE S == {a, b, c, d, e, g, h}
             s == << a, b, c, d, e >>
             t == << g, h >>
             u == << a, b, c, d, e, g, h >>
  <1>1. s \in Seq(S) /\ t \in Seq(S) /\ u \in Seq(S)
    OBVIOUS
  <1>2. Len(s) = 5 /\ Len(t) = 2 /\ Len(u) = 7
    OBVIOUS
  <1>3. /\ \A i \in 1..5 : u[i] = s[i]
        /\ \A i \in 1..2 : u[5 + i] = t[i]
    OBVIOUS
  <1> HIDE DEF S, s, t, u
  <1>4. /\ Len(u) = Len(s) + Len(t)
        /\ \A i \in 1..Len(s) : u[i] = s[i]
        /\ \A i \in 1..Len(t) : u[Len(s) + i] = t[i]
    BY <1>2, <1>3
  <1>5. s \o t = u
    BY ONLY <1>1, <1>4, ConcatIs
  <1> QED BY <1>5 DEF s, t, u



\* What rerouteToReplan writes, write by write.
LEMMA RerouteIs ==
    ASSUME NEW f \in Features
    PROVE  /\ features[f].collab = "merge_queued" =>
                 RerouteToReplan(f) =
                    << Opens(f), Counts(f), Edits(f), Starts(f), Fails(f),
                       Replans(f) >>
           /\ features[f].collab = "integrating" =>
                 RerouteToReplan(f) =
                    << Clashes(f), Edits(f), Starts(f), Fails(f), Replans(f),
                       Opens(f), Counts(f) >>
           /\ ~ InTrain(f) =>
                 RerouteToReplan(f) =
                    << Edits(f), Starts(f), Fails(f), Replans(f) >>
  <1> DEFINE failed == << W(f, "edit") >> \o MarkPhaseFailed(f)
                          \o Advance(f, "replanning")
             eject == << MoveTo(f, "branch_open"), W(f, "count_reentry") >>
             clash == << MoveTo(f, "conflict") >>
  <1>1. failed = << Edits(f), Starts(f), Fails(f), Replans(f) >>
    <2> DEFINE a == Edits(f)
               b == Starts(f)
               c == Fails(f)
               d == Replans(f)
    <2>1. failed = << a >> \o << b, c >> \o << d >>
      BY DEF MarkPhaseFailed, Advance, Edits, Starts, Fails, Replans
    <2> HIDE DEF failed, a, b, c, d
    <2>2. << a >> \o << b, c >> = << a, b, c >>
      BY ConcatOneTwo
    <2>3. << a, b, c >> \o << d >> = << a, b, c, d >>
      BY ConcatThreeOne
    <2>4. failed = << a, b, c, d >>
      BY ONLY <2>1, <2>2, <2>3
    <2> QED BY <2>4 DEF a, b, c, d
  <1>2. /\ eject = << Opens(f), Counts(f) >>
        /\ clash = << Clashes(f) >>
    BY DEF Opens, Counts, Clashes
  <1> HIDE DEF failed, eject, clash
  <1>3. /\ features[f].collab = "merge_queued"
              => RerouteToReplan(f) = eject \o failed
        /\ features[f].collab = "integrating"
              => RerouteToReplan(f) = clash \o failed \o eject
        /\ ~ InTrain(f) => RerouteToReplan(f) = failed
    BY DEF RerouteToReplan, InTrain, failed, eject, clash
  <1>4. eject \o failed = << Opens(f), Counts(f), Edits(f), Starts(f), Fails(f),
                             Replans(f) >>
    BY <1>1, <1>2, ConcatTwoFour
  <1>5. clash \o failed \o eject =
           << Clashes(f), Edits(f), Starts(f), Fails(f), Replans(f), Opens(f),
              Counts(f) >>
    <2>1. clash \o failed =
             << Clashes(f), Edits(f), Starts(f), Fails(f), Replans(f) >>
      BY <1>1, <1>2, ConcatOneFour
    <2>2. << Clashes(f), Edits(f), Starts(f), Fails(f), Replans(f) >> \o eject =
             << Clashes(f), Edits(f), Starts(f), Fails(f), Replans(f), Opens(f),
                Counts(f) >>
      BY <1>2, ConcatFiveTwo
    <2> QED BY ONLY <2>1, <2>2
  <1> QED BY <1>1, <1>3, <1>4, <1>5

LEMMA LongTails ==
    ASSUME NEW a, NEW b, NEW c, NEW d, NEW e, NEW g, NEW h
    PROVE  /\ /\ Head(<< a, b, c >>) = a
              /\ Tail(<< a, b, c >>) = << b, c >>
           /\ /\ Head(<< a, b, c, d >>) = a
              /\ Tail(<< a, b, c, d >>) = << b, c, d >>
           /\ /\ Head(<< a, b, c, d, e >>) = a
              /\ Tail(<< a, b, c, d, e >>) = << b, c, d, e >>
           /\ /\ Head(<< a, b, c, d, e, g >>) = a
              /\ Tail(<< a, b, c, d, e, g >>) = << b, c, d, e, g >>
           /\ /\ Head(<< a, b, c, d, e, g, h >>) = a
              /\ Tail(<< a, b, c, d, e, g, h >>) = << b, c, d, e, g, h >>
  OBVIOUS

LEMMA SafeOnes ==
    ASSUME NEW f \in Features
    PROVE  /\ \A op \in WriteOp \ {"advance", "collab"} : W(f, op) \in SafeWrites
           /\ \A p \in WorkControl \ {"awaiting_merge"} :
                 Write(f, "advance", p, Keep) \in SafeWrites
           /\ Write(f, "advance", "executing", "branch_open") \in SafeWrites
           /\ MoveTo(f, "merged") \in SafeWrites
  <1>1. /\ \A op \in WriteOp \ {"advance", "collab"} :
              W(f, op) \in ProperWrites
        /\ \A p \in WorkControl :
              /\ Write(f, "advance", p, Keep) \in ProperWrites
              /\ Write(f, "advance", p, "branch_open") \in ProperWrites
        /\ MoveTo(f, "merged") \in ProperWrites
    BY WriteTypes, OwnWritesArePlain
  <1> QED BY <1>1 DEF SafeWrites, W, Write, MoveTo, WorkControl, Keep

\* A safe write leaves its row settled, as far as the row itself goes.
LEMMA SafeRow ==
    ASSUME NEW w \in SafeWrites, NEW row \in FeatureRow,
           ~ Skipped(w, row), Accepted(w, row), row.collab # "conflict",
           entrySeq \in Nat, clock \in Nat
    PROVE  LET new == NewRow(w, row) IN
           /\ new.collab # "conflict"
           /\ new.work = "awaiting_merge" =>
                 /\ row.work = "awaiting_merge"
                 /\ \/ new.collab = row.collab
                    \/ new.collab \in {"merge_queued", "integrating", "merged"}
  <1> DEFINE new == NewRow(w, row)
  <1>1. CASE FieldWrite(w)
    BY <1>1 DEF NewRow, FieldWrite, FeatureRow
  <1>2. CASE ~ FieldWrite(w)
    <2>1. new = Transitioned(w, row)
      BY <1>2 DEF NewRow, FieldWrite
    <2>2. w.op # "clear_conflict"
      BY DEF Skipped
    <2>3. /\ w \in Writes
          /\ w.op = "advance" <=> w.work # Keep
          /\ w.op = "advance" => w.work # "awaiting_merge"
          /\ w.collab = "branch_open" => w.work = "executing"
          /\ w.collab \in {"branch_open", "merged", Keep}
      BY DEF SafeWrites, ProperWrites, Writes
    <2>4. /\ new.work = IF w.work = Keep THEN row.work ELSE w.work
          /\ \/ new.collab = row.collab
             \/ new.collab \in {"merge_queued", "integrating"}
             \/ new.collab = w.collab /\ w.collab # Keep
      BY <2>1, <2>2 DEF Transitioned, FeatureRow
    <2> QED BY <2>3, <2>4 DEF Keep
  <1> QED BY <1>1, <1>2

\* What the next write does: it is skipped, made, or refused.
LEMMA TakenWrite ==
    ASSUME TrainInv, TakeWrite
    PROVE  LET w == Head(todo)
               row == features[w.feature]
           IN  /\ todo # << >>
               /\ w \in ProperWrites /\ w.feature \in Features
               /\ row \in FeatureRow
               /\ UNCHANGED << dependsOn, crashes >>
               /\ \/ /\ Skipped(w, row)
                     /\ todo' = Tail(todo) /\ features' = features
                  \/ /\ ~ Skipped(w, row) /\ Accepted(w, row)
                     /\ todo' = Tail(todo)
                     /\ features' = [features EXCEPT ![w.feature] = NewRow(w, row)]
                  \/ /\ ~ Skipped(w, row) /\ ~ Accepted(w, row)
                     /\ todo' = << >> /\ features' = features
  <1>1. todo # << >>
    BY DEF TakeWrite, SkipWrite, CommitWrite, RefuseWrite
  <1>2. todo \in Seq(ProperWrites) /\ features \in [Features -> FeatureRow]
    BY DEF TrainInv, InOrder, LifecycleInv, TypeOK
  <1>3. Head(todo) \in ProperWrites
    BY <1>1, <1>2
  <1>4. Head(todo).feature \in Features
    BY <1>3 DEF ProperWrites, Writes
  <1>5. features[Head(todo).feature] \in FeatureRow
    BY <1>2, <1>4
  <1> QED BY <1>1, <1>3, <1>4, <1>5
          DEF TakeWrite, SkipWrite, CommitWrite, RefuseWrite

\* A write changes one row, and nobody's merge or cancellation is undone.
LEMMA OthersSettled ==
    ASSUME TrainInv, TakeWrite
    PROVE  /\ \A d \in Features :
                 features[d].collab \in {"merged", "cancelled"}
                    => features'[d].collab = features[d].collab
           /\ \A g \in Features :
                 Settled(g) /\ features'[g] = features[g] => Settled(g)'
           /\ \A g \in Features \ {Head(todo).feature} :
                 /\ features'[g] = features[g]
                 /\ Settled(g) => Settled(g)'
  <1> DEFINE w == Head(todo)
             row == features[w.feature]
  <1>1. /\ features \in [Features -> FeatureRow]
        /\ entrySeq \in Nat /\ clock \in Nat
        /\ dependsOn \in [Features -> SUBSET Features]
    BY DEF TrainInv, LifecycleInv, TypeOK
  <1>2. /\ w \in ProperWrites /\ w.feature \in Features
        /\ row \in FeatureRow /\ dependsOn' = dependsOn
        /\ \/ features' = features
           \/ /\ Accepted(w, row)
              /\ features' = [features EXCEPT ![w.feature] = NewRow(w, row)]
    BY TakenWrite
  <1>3. ASSUME NEW d \in Features,
               features[d].collab \in {"merged", "cancelled"}
        PROVE  features'[d].collab = features[d].collab
    <2>1. CASE features' = features
      BY <2>1
    <2>2. CASE /\ Accepted(w, row)
               /\ features' = [features EXCEPT ![w.feature] = NewRow(w, row)]
      <3>1. row.collab \in {"merged", "cancelled"}
               => NewRow(w, row).collab = row.collab
        BY <1>1, <1>2, <2>2, MergedRows
      <3> HIDE DEF w
      <3> QED BY <1>1, <1>2, <1>3, <2>2, <3>1
    <2> QED BY <1>2, <2>1, <2>2
  <1>4. \A g \in Features \ {w.feature} : features'[g] = features[g]
    <2> HIDE DEF w
    <2> QED BY <1>1, <1>2
  <1>5. ASSUME NEW g \in Features, Settled(g), features'[g] = features[g]
        PROVE  Settled(g)'
    <2>1. dependsOn[g] \subseteq Features /\ dependsOn'[g] = dependsOn[g]
      BY <1>1, <1>2
    <2>2. \A d \in dependsOn[g] : features[d].collab = "cancelled"
                                     => features'[d].collab = "cancelled"
      BY <1>3, <2>1
    <2> QED BY <1>5, <2>1, <2>2 DEF Settled, InTrain
  <1> QED BY <1>3, <1>4, <1>5

\* Safe writes strand nobody, and a refused one leaves everything as it is.
LEMMA SafeStep ==
    ASSUME TrainInv, TakeWrite, Head(todo) \in SafeWrites,
           \A f \in Features : Settled(f)
    PROVE  \A f \in Features : Settled(f)'
  <1> DEFINE w == Head(todo)
             f == w.feature
             row == features[f]
             new == NewRow(w, row)
  <1>1. /\ f \in Features /\ row \in FeatureRow /\ dependsOn' = dependsOn
        /\ \/ features' = features
           \/ /\ ~ Skipped(w, row) /\ Accepted(w, row)
              /\ features' = [features EXCEPT ![f] = new]
    BY TakenWrite
  <1>2. CASE features' = features
    BY <1>2, OthersSettled
  <1>3. CASE /\ ~ Skipped(w, row) /\ Accepted(w, row)
             /\ features' = [features EXCEPT ![f] = new]
    <2>1. /\ entrySeq \in Nat /\ clock \in Nat
          /\ features \in [Features -> FeatureRow]
          /\ dependsOn \in [Features -> SUBSET Features]
      BY DEF TrainInv, LifecycleInv, TypeOK
    <2>2. row.collab # "conflict"
      BY <1>1 DEF Settled
    <2>3. /\ new.collab # "conflict"
          /\ new.work = "awaiting_merge" =>
                /\ row.work = "awaiting_merge"
                /\ \/ new.collab = row.collab
                   \/ new.collab \in {"merge_queued", "integrating", "merged"}
      BY <1>1, <1>3, <2>1, <2>2, SafeRow
    <2>4. ASSUME NEW h \in Features, h = f
          PROVE  Settled(h)'
      <3>1. features'[h] = new /\ row = features[h]
        <4> HIDE DEF w, new
        <4> QED BY <1>3, <2>1, <2>4
      <3> HIDE DEF w, f, row, new
      <3>2. dependsOn[h] \subseteq Features /\ dependsOn'[h] = dependsOn[h]
        BY <1>1, <2>1
      <3>3. \A d \in dependsOn[h] : features[d].collab = "cancelled"
                                       => features'[d].collab = "cancelled"
        BY <3>2, OthersSettled
      <3> QED BY <2>3, <3>1, <3>2, <3>3 DEF Settled, InTrain
    <2>5. \A g \in Features : g # f => Settled(g)'
      BY OthersSettled
    <2> QED BY <2>4, <2>5
  <1> QED BY <1>1, <1>2, <1>3

\* How the writes of the three handlers turn out for a feature that awaits its
\* merge: all are accepted, but for an entry into the queue behind a feature
\* that is not merged.
LEMMA AwaitingWrites ==
    ASSUME NEW f \in Features, NEW row \in FeatureRow,
           row.work = "awaiting_merge", row.collab # "cancelled"
    PROVE  /\ row.collab = "merge_queued" =>
                 /\ ~ Skipped(Opens(f), row) /\ Accepted(Opens(f), row)
                 /\ NewRow(Opens(f), row) = [row EXCEPT !.collab = "branch_open"]
           /\ row.collab = "integrating" =>
                 /\ ~ Skipped(Clashes(f), row) /\ Accepted(Clashes(f), row)
                 /\ NewRow(Clashes(f), row) = [row EXCEPT !.collab = "conflict"]
           /\ row.collab \in {"branch_open", "conflict"} =>
                 /\ ~ Skipped(Edits(f), row) /\ Accepted(Edits(f), row)
                 /\ NewRow(Edits(f), row) = row
           /\ row.status = "in_progress" => Skipped(Starts(f), row)
           /\ row.status = "pending" =>
                 /\ ~ Skipped(Starts(f), row) /\ Accepted(Starts(f), row)
                 /\ NewRow(Starts(f), row) = [row EXCEPT !.status = "in_progress"]
           /\ row.status = "in_progress" =>
                 /\ ~ Skipped(Fails(f), row) /\ Accepted(Fails(f), row)
                 /\ NewRow(Fails(f), row) = [row EXCEPT !.status = "failed"]
           /\ row.status = "failed" =>
                 /\ ~ Skipped(Replans(f), row) /\ Accepted(Replans(f), row)
                 /\ NewRow(Replans(f), row).work = "replanning"
                 /\ NewRow(Replans(f), row).collab = row.collab
           /\ row.collab = "branch_open" => Skipped(Clears(f), row)
           /\ row.collab = "branch_open" =>
                 /\ ~ Skipped(Enqueues(f), row)
                 /\ NewRow(Enqueues(f), row).collab = "merge_queued"
                 /\ (\A d \in dependsOn[f] : features[d].collab = "merged")
                       => Accepted(Enqueues(f), row)
  <1>1. row.work \in WorkControl /\ row.status \in UnitStatus
        /\ row.collab \in CollabControl
    BY DEF FeatureRow
  <1> DEFINE Moved(c) == [row EXCEPT !.collab = c]
             Marked(s) == [row EXCEPT !.status = s]
  <1>2. /\ \A c : /\ Moved(c).work = row.work /\ Moved(c).status = row.status
                  /\ Moved(c).collab = c
        /\ \A s : /\ Marked(s).work = row.work /\ Marked(s).status = s
                  /\ Marked(s).collab = row.collab
    BY DEF FeatureRow
  <1>3. ASSUME row.collab = "merge_queued"
        PROVE  /\ ~ Skipped(Opens(f), row) /\ Accepted(Opens(f), row)
               /\ NewRow(Opens(f), row) = Moved("branch_open")
    <2>1. /\ Opens(f).op = "collab" /\ Opens(f).work = Keep
          /\ Opens(f).collab = "branch_open"
      BY DEF Opens, MoveTo, Write
    <2>2. Transitioned(Opens(f), row) = Moved("branch_open")
      BY <1>1, <2>1 DEF Transitioned, Keep, FeatureRow
    <2>3. NewRow(Opens(f), row) = Moved("branch_open")
      BY <2>1, <2>2 DEF NewRow
    <2>4. ValidFeatureTransition(Triple(row), Triple(Moved("branch_open")))
      BY <1>2, <1>3
         DEF ValidFeatureTransition, Triple, ValidFeatureCollab, CollabEdge
    <2> QED BY <2>1, <2>2, <2>3, <2>4 DEF Skipped, Accepted, FieldWrite
  <1>4. ASSUME row.collab = "integrating"
        PROVE  /\ ~ Skipped(Clashes(f), row) /\ Accepted(Clashes(f), row)
               /\ NewRow(Clashes(f), row) = Moved("conflict")
    <2>1. /\ Clashes(f).op = "collab" /\ Clashes(f).work = Keep
          /\ Clashes(f).collab = "conflict"
      BY DEF Clashes, MoveTo, Write
    <2>2. Transitioned(Clashes(f), row) = Moved("conflict")
      BY <1>1, <2>1 DEF Transitioned, Keep, FeatureRow
    <2>3. NewRow(Clashes(f), row) = Moved("conflict")
      BY <2>1, <2>2 DEF NewRow
    <2>4. ValidFeatureTransition(Triple(row), Triple(Moved("conflict")))
      BY <1>2, <1>4
         DEF ValidFeatureTransition, Triple, ValidFeatureCollab, CollabEdge
    <2> QED BY <2>1, <2>2, <2>3, <2>4 DEF Skipped, Accepted, FieldWrite
  <1>5. /\ ~ Skipped(Edits(f), row) /\ Accepted(Edits(f), row)
        /\ NewRow(Edits(f), row) = row
    BY DEF Edits, W, Write, Skipped, Accepted, FieldWrite, NewRow, Editable
  <1>6. /\ row.status = "in_progress" => Skipped(Starts(f), row)
        /\ row.collab = "branch_open" => Skipped(Clears(f), row)
    BY DEF Starts, Clears, W, Write, Skipped
  <1>7. ASSUME row.status = "pending"
        PROVE  /\ ~ Skipped(Starts(f), row) /\ Accepted(Starts(f), row)
               /\ NewRow(Starts(f), row) = Marked("in_progress")
    <2>1. /\ Starts(f).op = "start" /\ Starts(f).work = Keep
          /\ Starts(f).collab = Keep
      BY DEF Starts, W, Write
    <2>2. Transitioned(Starts(f), row) = Marked("in_progress")
      BY <1>1, <2>1 DEF Transitioned, Keep, FeatureRow
    <2>3. NewRow(Starts(f), row) = Marked("in_progress")
      BY <2>1, <2>2 DEF NewRow
    <2>4. ValidFeatureTransition(Triple(row), Triple(Marked("in_progress")))
      BY <1>2, <1>7
         DEF ValidFeatureTransition, Triple, ValidFeatureStatus, StatusEdge
    <2> QED BY <1>7, <2>1, <2>2, <2>3, <2>4 DEF Skipped, Accepted, FieldWrite
  <1>8. ASSUME row.status = "in_progress"
        PROVE  /\ ~ Skipped(Fails(f), row) /\ Accepted(Fails(f), row)
               /\ NewRow(Fails(f), row) = Marked("failed")
    <2>1. /\ Fails(f).op = "fail" /\ Fails(f).work = Keep
          /\ Fails(f).collab = Keep
      BY DEF Fails, W, Write
    <2>2. Transitioned(Fails(f), row) = Marked("failed")
      BY <1>1, <2>1 DEF Transitioned, Keep, FeatureRow
    <2>3. NewRow(Fails(f), row) = Marked("failed")
      BY <2>1, <2>2 DEF NewRow
    <2>4. ValidFeatureTransition(Triple(row), Triple(Marked("failed")))
      BY <1>2, <1>8
         DEF ValidFeatureTransition, Triple, ValidFeatureStatus, StatusEdge
    <2> QED BY <1>8, <2>1, <2>2, <2>3, <2>4 DEF Skipped, Accepted, FieldWrite
  <1>9. ASSUME row.status = "failed"
        PROVE  /\ ~ Skipped(Replans(f), row) /\ Accepted(Replans(f), row)
               /\ NewRow(Replans(f), row).work = "replanning"
               /\ NewRow(Replans(f), row).collab = row.collab
    <2>1. /\ Replans(f).op = "advance" /\ Replans(f).work = "replanning"
          /\ Replans(f).collab = Keep
      BY DEF Replans, Write
    <2> DEFINE new == Transitioned(Replans(f), row)
    <2>2. /\ new.work = "replanning" /\ new.status = "pending"
          /\ new.collab = row.collab
      BY <1>1, <2>1 DEF Transitioned, Keep, FeatureRow
    <2> HIDE DEF new
    <2>3. ValidFeatureTransition(Triple(row), Triple(new))
      BY <1>9, <2>2
         DEF ValidFeatureTransition, Triple, ValidFeatureWork,
             REPLANNABLE_FAILURE_PHASES
    <2>4. NewRow(Replans(f), row) = new
      BY <2>1 DEF NewRow, new
    <2> QED BY <2>1, <2>2, <2>3, <2>4 DEF Skipped, Accepted, FieldWrite, new
  <1>10. ASSUME row.collab = "branch_open"
         PROVE  /\ ~ Skipped(Enqueues(f), row)
                /\ NewRow(Enqueues(f), row).collab = "merge_queued"
                /\ (\A d \in dependsOn[f] : features[d].collab = "merged")
                      => Accepted(Enqueues(f), row)
    <2>1. /\ Enqueues(f).op = "enqueue" /\ Enqueues(f).work = Keep
          /\ Enqueues(f).collab = Keep /\ Enqueues(f).feature = f
      BY DEF Enqueues, W, Write
    <2>2. Transitioned(Enqueues(f), row) = Moved("merge_queued")
      BY <1>1, <2>1 DEF Transitioned, Keep, FeatureRow
    <2>3. NewRow(Enqueues(f), row) = Moved("merge_queued")
      BY <2>1, <2>2 DEF NewRow
    <2>4. ValidFeatureTransition(Triple(row), Triple(Moved("merge_queued")))
      BY <1>2, <1>10
         DEF ValidFeatureTransition, Triple, ValidFeatureCollab, CollabEdge
    <2> QED BY <1>2, <2>1, <2>2, <2>3, <2>4 DEF Skipped, Accepted, FieldWrite
  <1> QED BY <1>3, <1>4, <1>5, <1>6, <1>7, <1>8, <1>9, <1>10

\* The other writes of the three handlers.
LEMMA OtherWrites ==
    ASSUME NEW f \in Features, NEW row \in FeatureRow
    PROVE  /\ ~ Skipped(Counts(f), row) /\ Accepted(Counts(f), row)
           /\ NewRow(Counts(f), row).work = row.work
           /\ NewRow(Counts(f), row).status = row.status
           /\ NewRow(Counts(f), row).collab = row.collab
           /\ row.work = "replanning" /\ row.collab = "conflict" =>
                 /\ ~ Skipped(Opens(f), row) /\ Accepted(Opens(f), row)
                 /\ NewRow(Opens(f), row).work = "replanning"
                 /\ NewRow(Opens(f), row).collab = "branch_open"
           /\ ~ Skipped(Awaits(f), row)
           /\ Accepted(Awaits(f), row) =>
                 /\ NewRow(Awaits(f), row).work = "awaiting_merge"
                 /\ NewRow(Awaits(f), row).status = "pending"
                 /\ NewRow(Awaits(f), row).collab = "branch_open"
  <1>1. row.work \in WorkControl /\ row.status \in UnitStatus
        /\ row.collab \in CollabControl
    BY DEF FeatureRow
  <1>2. /\ ~ Skipped(Counts(f), row) /\ Accepted(Counts(f), row)
        /\ NewRow(Counts(f), row).work = row.work
        /\ NewRow(Counts(f), row).status = row.status
        /\ NewRow(Counts(f), row).collab = row.collab
    BY DEF Counts, W, Write, Skipped, Accepted, FieldWrite, NewRow, FeatureRow
  <1>3. ASSUME row.work = "replanning", row.collab = "conflict"
        PROVE  /\ ~ Skipped(Opens(f), row) /\ Accepted(Opens(f), row)
               /\ NewRow(Opens(f), row).work = "replanning"
               /\ NewRow(Opens(f), row).collab = "branch_open"
    <2>1. /\ Opens(f).op = "collab" /\ Opens(f).work = Keep
          /\ Opens(f).collab = "branch_open"
      BY DEF Opens, MoveTo, Write
    <2> DEFINE new == Transitioned(Opens(f), row)
    <2>2. /\ new.work = row.work /\ new.status = row.status
          /\ new.collab = "branch_open"
      BY <1>1, <2>1 DEF Transitioned, Keep, FeatureRow
    <2> HIDE DEF new
    <2>3. ValidFeatureTransition(Triple(row), Triple(new))
      BY <1>3, <2>2
         DEF ValidFeatureTransition, Triple, ValidFeatureCollab, CollabEdge
    <2>4. NewRow(Opens(f), row) = new
      BY <2>1 DEF NewRow, new
    <2> QED BY <1>3, <2>1, <2>2, <2>3, <2>4
            DEF Skipped, Accepted, FieldWrite, new
  <1>4. ~ Skipped(Awaits(f), row)
    BY DEF Awaits, Write, Skipped
  <1>5. ASSUME Accepted(Awaits(f), row)
        PROVE  /\ NewRow(Awaits(f), row).work = "awaiting_merge"
               /\ NewRow(Awaits(f), row).status = "pending"
               /\ NewRow(Awaits(f), row).collab = "branch_open"
    <2>1. /\ Awaits(f).op = "advance" /\ Awaits(f).work = "awaiting_merge"
          /\ Awaits(f).collab = Keep
      BY DEF Awaits, Write
    <2> DEFINE new == Transitioned(Awaits(f), row)
    <2>2. /\ new.work = "awaiting_merge" /\ new.status = "pending"
          /\ new.collab = row.collab
      BY <1>1, <2>1 DEF Transitioned, Keep, FeatureRow
    <2>3. ValidFeatureTransition(Triple(row), Triple(new))
      BY <1>5, <2>1 DEF Accepted, FieldWrite
    <2> HIDE DEF new
    <2>4. HappyAdvance(row.work, "awaiting_merge", row.status, row.collab)
      <3>1. row.work # "awaiting_merge"
        BY <2>2, <2>3
           DEF ValidFeatureTransition, Triple, ValidFeatureStatus, StatusEdge
      <3> QED BY <2>2, <2>3, <3>1
              DEF ValidFeatureTransition, Triple, ValidFeatureWork
    <2>5. row.work = "verifying"
      <3>1. IsNextPhase(row.work, "awaiting_merge")
        BY <2>4 DEF HappyAdvance
      <3> QED BY <3>1 DEF IsNextPhase, PHASE_ORDER
    <2>6. NewRow(Awaits(f), row) = new
      BY <2>1 DEF NewRow, new
    <2> QED BY <2>2, <2>4, <2>5, <2>6 DEF HappyAdvance
  <1> QED BY <1>2, <1>3, <1>4, <1>5

LEMMA TheirFeature ==
    ASSUME NEW f \in Features
    PROVE  /\ Starts(f).feature = f /\ Ends(f).feature = f
           /\ Awaits(f).feature = f /\ Clears(f).feature = f
           /\ Enqueues(f).feature = f /\ Stamps(f).feature = f
           /\ Opens(f).feature = f /\ Clashes(f).feature = f
           /\ Counts(f).feature = f /\ Edits(f).feature = f
           /\ Fails(f).feature = f /\ Replans(f).feature = f
  BY DEF Starts, Ends, Awaits, Clears, Enqueues, Stamps, Opens, Clashes, Counts,
         Edits, Fails, Replans, W, Write, MoveTo

LEMMA SafeNames ==
    ASSUME NEW f \in Features
    PROVE  /\ Starts(f) \in SafeWrites /\ Ends(f) \in SafeWrites
           /\ Clears(f) \in SafeWrites /\ Enqueues(f) \in SafeWrites
           /\ Stamps(f) \in SafeWrites /\ Counts(f) \in SafeWrites
           /\ Edits(f) \in SafeWrites /\ Fails(f) \in SafeWrites
           /\ Replans(f) \in SafeWrites
  BY SafeOnes DEF Starts, Ends, Clears, Enqueues, Stamps, Counts, Edits, Fails,
                  Replans, WriteOp, WorkControl

\* What becomes of a known write x of f, with the writes rest after it.
LEMMA Outcome ==
    ASSUME TrainInv, TakeWrite, NEW f \in Features, NEW x, NEW rest,
           Head(todo) = x, Tail(todo) = rest, x.feature = f,
           \A g \in Features \ {f} : Settled(g)
    PROVE  /\ Skipped(x, features[f])
                 => todo' = rest /\ features'[f] = features[f]
           /\ ~ Skipped(x, features[f]) /\ Accepted(x, features[f])
                 => todo' = rest /\ features'[f] = NewRow(x, features[f])
           /\ ~ Skipped(x, features[f]) /\ ~ Accepted(x, features[f])
                 => todo' = << >> /\ features' = features
           /\ \A g \in Features \ {f} : Settled(g)'
           /\ Settled(f) /\ features'[f] = features[f] => Settled(f)'
           /\ features[f] \in FeatureRow
  <1>1. features \in [Features -> FeatureRow]
    BY DEF TrainInv, LifecycleInv, TypeOK
  <1>2. /\ features[f] \in FeatureRow
        /\ \/ /\ Skipped(x, features[f])
              /\ todo' = rest /\ features' = features
           \/ /\ ~ Skipped(x, features[f]) /\ Accepted(x, features[f])
              /\ todo' = rest
              /\ features' = [features EXCEPT ![f] = NewRow(x, features[f])]
           \/ /\ ~ Skipped(x, features[f]) /\ ~ Accepted(x, features[f])
              /\ todo' = << >> /\ features' = features
    BY TakenWrite
  <1>3. /\ \A g \in Features \ {f} : Settled(g)'
        /\ Settled(f) /\ features'[f] = features[f] => Settled(f)'
    BY OthersSettled
  <1> QED BY <1>1, <1>2, <1>3

\* When the last write that mattered is made, or one is refused without harm,
\* only safe writes are left.
LEMMA AllSettled ==
    ASSUME NEW f \in Features, \A g \in Features \ {f} : Settled(g)',
           Settled(f)', todo' \in Seq(SafeWrites)
    PROVE  StageInv'
  BY DEF StageInv

LEMMA StillOnTheWay ==
    ASSUME NEW f \in Features, \A g \in Features \ {f} : Settled(g)',
           EntersTrain(f)' \/ LeavesQueue(f)' \/ LeavesIntegration(f)'
    PROVE  StageInv'
  BY DEF StageInv, OnTheWay

LEMMA RowSettled ==
    ASSUME NEW f \in Features, features'[f].collab # "conflict",
           \/ features'[f].work # "awaiting_merge"
           \/ features'[f].collab \in {"merge_queued", "integrating"}
    PROVE  Settled(f)'
  BY DEF Settled, InTrain

\* The same for the write that is next, when it is made.
LEMMA Made ==
    ASSUME TrainInv, TakeWrite, NEW f \in Features, Head(todo).feature = f,
           \A g \in Features \ {f} : Settled(g),
           ~ Skipped(Head(todo), features[f]), Accepted(Head(todo), features[f])
    PROVE  /\ todo' = Tail(todo)
           /\ features'[f] = NewRow(Head(todo), features[f])
           /\ \A g \in Features \ {f} : Settled(g)'
  BY Outcome

LEMMA LeavesQueueStep ==
    ASSUME TrainInv, TakeWrite, NEW f \in Features, LeavesQueue(f),
           \A g \in Features \ {f} : Settled(g)
    PROVE  StageInv'
  <1> DEFINE row == features[f]
             new == features'[f]
             On == \A g \in Features \ {f} : Settled(g)'
  <1>1. features[f] \in FeatureRow
    BY DEF TrainInv, LifecycleInv, TypeOK
  <1>2. CASE /\ Awaiting(f, "merge_queued", Unfinished)
             /\ todo = << Opens(f), Counts(f), Edits(f), Starts(f), Fails(f),
                          Replans(f) >>
    <2>1. /\ Head(todo) = Opens(f)
          /\ Tail(todo) = << Counts(f), Edits(f), Starts(f), Fails(f),
                             Replans(f) >>
      BY <1>2, LongTails
    <2>2. /\ row.work = "awaiting_merge" /\ row.collab = "merge_queued"
          /\ row.status \in Unfinished
      BY <1>2 DEF Awaiting
    <2>3. /\ ~ Skipped(Opens(f), row) /\ Accepted(Opens(f), row)
          /\ NewRow(Opens(f), row) = [row EXCEPT !.collab = "branch_open"]
      BY <1>1, <2>2, AwaitingWrites
    <2>m. /\ todo' = Tail(todo) /\ new = NewRow(Head(todo), row)
          /\ On
      BY <2>1, <2>3, TheirFeature, Made
    <2>4. /\ new = [row EXCEPT !.collab = "branch_open"]
          /\ todo' = << Counts(f), Edits(f), Starts(f), Fails(f), Replans(f) >>
          /\ On
      BY <2>1, <2>3, <2>m
    <2>5. Awaiting(f, "branch_open", Unfinished)'
      BY <1>1, <2>2, <2>4 DEF Awaiting, Unfinished, FeatureRow
    <2> QED BY <2>4, <2>5, StillOnTheWay DEF LeavesQueue
  <1>3. CASE /\ Awaiting(f, "branch_open", Unfinished)
             /\ todo = << Counts(f), Edits(f), Starts(f), Fails(f), Replans(f) >>
    <2>1. /\ Head(todo) = Counts(f)
          /\ Tail(todo) = << Edits(f), Starts(f), Fails(f), Replans(f) >>
      BY <1>3, LongTails
    <2>m. /\ todo' = Tail(todo) /\ new = NewRow(Head(todo), row)
          /\ On
      BY <1>1, <2>1, TheirFeature, OtherWrites, Made
    <2>2. /\ new.work = row.work /\ new.status = row.status
          /\ new.collab = row.collab
          /\ todo' = << Edits(f), Starts(f), Fails(f), Replans(f) >>
          /\ On
      BY <1>1, <2>1, <2>m, OtherWrites
    <2>3. Awaiting(f, "branch_open", Unfinished)'
      BY <1>3, <2>2 DEF Awaiting, Unfinished
    <2> QED BY <2>2, <2>3, StillOnTheWay DEF LeavesQueue
  <1>4. CASE /\ Awaiting(f, "branch_open", Unfinished)
             /\ todo = << Edits(f), Starts(f), Fails(f), Replans(f) >>
    <2>1. /\ Head(todo) = Edits(f)
          /\ Tail(todo) = << Starts(f), Fails(f), Replans(f) >>
      BY <1>4, LongTails
    <2>2. /\ ~ Skipped(Edits(f), row) /\ Accepted(Edits(f), row)
          /\ NewRow(Edits(f), row) = row
      BY <1>1, <1>4, AwaitingWrites DEF Awaiting
    <2>m. /\ todo' = Tail(todo) /\ new = NewRow(Head(todo), row)
          /\ On
      BY <2>1, <2>2, TheirFeature, Made
    <2>3. new = row /\ todo' = << Starts(f), Fails(f), Replans(f) >> /\ On
      BY <2>1, <2>2, <2>m
    <2>4. Awaiting(f, "branch_open", Unfinished)'
      BY <1>4, <2>3 DEF Awaiting, Unfinished
    <2> QED BY <2>3, <2>4, StillOnTheWay DEF LeavesQueue
  <1>5. CASE /\ Awaiting(f, "branch_open", Unfinished)
             /\ todo = << Starts(f), Fails(f), Replans(f) >>
    <2>1. Head(todo) = Starts(f) /\ Tail(todo) = << Fails(f), Replans(f) >>
      BY <1>5, LongTails
    <2>2. /\ row.status = "in_progress" => Skipped(Starts(f), row)
          /\ row.status = "pending" =>
                /\ ~ Skipped(Starts(f), row) /\ Accepted(Starts(f), row)
                /\ NewRow(Starts(f), row)
                      = [row EXCEPT !.status = "in_progress"]
      BY <1>1, <1>5, AwaitingWrites DEF Awaiting
    <2>3. /\ \/ new = row /\ row.status = "in_progress"
             \/ new = [row EXCEPT !.status = "in_progress"]
          /\ todo' = << Fails(f), Replans(f) >>
          /\ On
      BY <1>5, <2>1, <2>2, TheirFeature, Outcome DEF Awaiting, Unfinished
    <2>4. Awaiting(f, "branch_open", {"in_progress"})'
      BY <1>1, <1>5, <2>3 DEF Awaiting, FeatureRow
    <2> QED BY <2>3, <2>4, StillOnTheWay DEF LeavesQueue
  <1>6. CASE /\ Awaiting(f, "branch_open", {"in_progress"})
             /\ todo = << Fails(f), Replans(f) >>
    <2>1. Head(todo) = Fails(f) /\ Tail(todo) = << Replans(f) >>
      BY <1>6, HeadAndTail
    <2>2. /\ ~ Skipped(Fails(f), row) /\ Accepted(Fails(f), row)
          /\ NewRow(Fails(f), row) = [row EXCEPT !.status = "failed"]
      BY <1>1, <1>6, AwaitingWrites DEF Awaiting
    <2>m. /\ todo' = Tail(todo) /\ new = NewRow(Head(todo), row)
          /\ On
      BY <2>1, <2>2, TheirFeature, Made
    <2>3. /\ new = [row EXCEPT !.status = "failed"]
          /\ todo' = << Replans(f) >>
          /\ On
      BY <2>1, <2>2, <2>m
    <2>4. Awaiting(f, "branch_open", {"failed"})'
      BY <1>1, <1>6, <2>3 DEF Awaiting, FeatureRow
    <2> QED BY <2>3, <2>4, StillOnTheWay DEF LeavesQueue
  <1>7. CASE /\ Awaiting(f, "branch_open", {"failed"})
             /\ todo = << Replans(f) >>
    <2>1. Head(todo) = Replans(f) /\ Tail(todo) = << >>
      BY <1>7, HeadAndTail
    <2>2. /\ ~ Skipped(Replans(f), row) /\ Accepted(Replans(f), row)
          /\ NewRow(Replans(f), row).work = "replanning"
          /\ NewRow(Replans(f), row).collab = "branch_open"
      BY <1>1, <1>7, AwaitingWrites DEF Awaiting
    <2>m. /\ todo' = Tail(todo) /\ new = NewRow(Head(todo), row)
          /\ On
      BY <2>1, <2>2, TheirFeature, Made
    <2>3. /\ new.work = "replanning" /\ new.collab = "branch_open"
          /\ todo' = << >> /\ On
      BY <2>1, <2>2, <2>m
    <2>4. Settled(f)'
      BY <2>3, RowSettled
    <2> QED BY <2>3, <2>4, AllSettled
  <1> QED BY <1>2, <1>3, <1>4, <1>5, <1>6, <1>7 DEF LeavesQueue

LEMMA LeavesIntegrationStep ==
    ASSUME TrainInv, TakeWrite, NEW f \in Features, LeavesIntegration(f),
           \A g \in Features \ {f} : Settled(g)
    PROVE  StageInv'
  <1> DEFINE row == features[f]
             new == features'[f]
             On == \A g \in Features \ {f} : Settled(g)'
  <1>1. features[f] \in FeatureRow
    BY DEF TrainInv, LifecycleInv, TypeOK
  <1>2. CASE /\ Awaiting(f, "integrating", Unfinished)
             /\ todo = << Clashes(f), Edits(f), Starts(f), Fails(f), Replans(f),
                          Opens(f), Counts(f) >>
    <2>1. /\ Head(todo) = Clashes(f)
          /\ Tail(todo) = << Edits(f), Starts(f), Fails(f), Replans(f),
                             Opens(f), Counts(f) >>
      BY <1>2, LongTails
    <2>2. /\ row.work = "awaiting_merge" /\ row.collab = "integrating"
          /\ row.status \in Unfinished
      BY <1>2 DEF Awaiting
    <2>3. /\ ~ Skipped(Clashes(f), row) /\ Accepted(Clashes(f), row)
          /\ NewRow(Clashes(f), row) = [row EXCEPT !.collab = "conflict"]
      BY <1>1, <2>2, AwaitingWrites
    <2>m. /\ todo' = Tail(todo) /\ new = NewRow(Head(todo), row)
          /\ On
      BY <2>1, <2>3, TheirFeature, Made
    <2>4. /\ new = [row EXCEPT !.collab = "conflict"]
          /\ todo' = << Edits(f), Starts(f), Fails(f), Replans(f), Opens(f),
                        Counts(f) >>
          /\ On
      BY <2>1, <2>3, <2>m
    <2>5. Awaiting(f, "conflict", Unfinished)'
      BY <1>1, <2>2, <2>4 DEF Awaiting, Unfinished, FeatureRow
    <2> QED BY <2>4, <2>5, StillOnTheWay DEF LeavesIntegration
  <1>3. CASE /\ Awaiting(f, "conflict", Unfinished)
             /\ todo = << Edits(f), Starts(f), Fails(f), Replans(f), Opens(f),
                          Counts(f) >>
    <2>1. /\ Head(todo) = Edits(f)
          /\ Tail(todo) = << Starts(f), Fails(f), Replans(f), Opens(f),
                             Counts(f) >>
      BY <1>3, LongTails
    <2>2. /\ ~ Skipped(Edits(f), row) /\ Accepted(Edits(f), row)
          /\ NewRow(Edits(f), row) = row
      BY <1>1, <1>3, AwaitingWrites DEF Awaiting
    <2>m. /\ todo' = Tail(todo) /\ new = NewRow(Head(todo), row)
          /\ On
      BY <2>1, <2>2, TheirFeature, Made
    <2>3. /\ new = row
          /\ todo' = << Starts(f), Fails(f), Replans(f), Opens(f), Counts(f) >>
          /\ On
      BY <2>1, <2>2, <2>m
    <2>4. Awaiting(f, "conflict", Unfinished)'
      BY <1>3, <2>3 DEF Awaiting, Unfinished
    <2> QED BY <2>3, <2>4, StillOnTheWay DEF LeavesIntegration
  <1>4. CASE /\ Awaiting(f, "conflict", Unfinished)
             /\ todo = << Starts(f), Fails(f), Replans(f), Opens(f), Counts(f) >>
    <2>1. /\ Head(todo) = Starts(f)
          /\ Tail(todo) = << Fails(f), Replans(f), Opens(f), Counts(f) >>
      BY <1>4, LongTails
    <2>2. /\ row.status = "in_progress" => Skipped(Starts(f), row)
          /\ row.status = "pending" =>
                /\ ~ Skipped(Starts(f), row) /\ Accepted(Starts(f), row)
                /\ NewRow(Starts(f), row)
                      = [row EXCEPT !.status = "in_progress"]
      BY <1>1, <1>4, AwaitingWrites DEF Awaiting
    <2>3. /\ \/ new = row /\ row.status = "in_progress"
             \/ new = [row EXCEPT !.status = "in_progress"]
          /\ todo' = << Fails(f), Replans(f), Opens(f), Counts(f) >>
          /\ On
      BY <1>4, <2>1, <2>2, TheirFeature, Outcome DEF Awaiting, Unfinished
    <2>4. Awaiting(f, "conflict", {"in_progress"})'
      BY <1>1, <1>4, <2>3 DEF Awaiting, FeatureRow
    <2> QED BY <2>3, <2>4, StillOnTheWay DEF LeavesIntegration
  <1>5. CASE /\ Awaiting(f, "conflict", {"in_progress"})
             /\ todo = << Fails(f), Replans(f), Opens(f), Counts(f) >>
    <2>1. /\ Head(todo) = Fails(f)
          /\ Tail(todo) = << Replans(f), Opens(f), Counts(f) >>
      BY <1>5, LongTails
    <2>2. /\ ~ Skipped(Fails(f), row) /\ Accepted(Fails(f), row)
          /\ NewRow(Fails(f), row) = [row EXCEPT !.status = "failed"]
      BY <1>1, <1>5, AwaitingWrites DEF Awaiting
    <2>m. /\ todo' = Tail(todo) /\ new = NewRow(Head(todo), row)
          /\ On
      BY <2>1, <2>2, TheirFeature, Made
    <2>3. /\ new = [row EXCEPT !.status = "failed"]
          /\ todo' = << Replans(f), Opens(f), Counts(f) >>
          /\ On
      BY <2>1, <2>2, <2>m
    <2>4. Awaiting(f, "conflict", {"failed"})'
      BY <1>1, <1>5, <2>3 DEF Awaiting, FeatureRow
    <2> QED BY <2>3, <2>4, StillOnTheWay DEF LeavesIntegration
  <1>6. CASE /\ Awaiting(f, "conflict", {"failed"})
             /\ todo = << Replans(f), Opens(f), Counts(f) >>
    <2>1. Head(todo) = Replans(f) /\ Tail(todo) = << Opens(f), Counts(f) >>
      BY <1>6, LongTails
    <2>2. /\ ~ Skipped(Replans(f), row) /\ Accepted(Replans(f), row)
          /\ NewRow(Replans(f), row).work = "replanning"
          /\ NewRow(Replans(f), row).collab = "conflict"
      BY <1>1, <1>6, AwaitingWrites DEF Awaiting
    <2>m. /\ todo' = Tail(todo) /\ new = NewRow(Head(todo), row)
          /\ On
      BY <2>1, <2>2, TheirFeature, Made
    <2>3. /\ new.work = "replanning" /\ new.collab = "conflict"
          /\ todo' = << Opens(f), Counts(f) >>
          /\ On
      BY <2>1, <2>2, <2>m
    <2> QED BY <2>3, StillOnTheWay DEF LeavesIntegration
  <1>7. CASE /\ features[f].work = "replanning"
             /\ features[f].collab = "conflict"
             /\ todo = << Opens(f), Counts(f) >>
    <2>1. Head(todo) = Opens(f) /\ Tail(todo) = << Counts(f) >>
      BY <1>7, HeadAndTail
    <2>2. /\ ~ Skipped(Opens(f), row) /\ Accepted(Opens(f), row)
          /\ NewRow(Opens(f), row).work = "replanning"
          /\ NewRow(Opens(f), row).collab = "branch_open"
      BY <1>1, <1>7, OtherWrites
    <2>m. /\ todo' = Tail(todo) /\ new = NewRow(Head(todo), row)
          /\ On
      BY <2>1, <2>2, TheirFeature, Made
    <2>3. /\ new.work = "replanning" /\ new.collab = "branch_open"
          /\ todo' = << Counts(f) >> /\ On
      BY <2>1, <2>2, <2>m
    <2>4. Settled(f)' /\ << Counts(f) >> \in Seq(SafeWrites)
      BY <2>3, RowSettled, SafeNames, SequenceOfOne
    <2> QED BY <2>3, <2>4, AllSettled
  <1> QED BY <1>2, <1>3, <1>4, <1>5, <1>6, <1>7 DEF LeavesIntegration

LEMMA EntersTrainStep ==
    ASSUME TrainInv, BegunInv, TakeWrite, NEW f \in Features, EntersTrain(f),
           \A g \in Features \ {f} : Settled(g)
    PROVE  StageInv'
  <1> DEFINE row == features[f]
             new == features'[f]
             On == \A g \in Features \ {f} : Settled(g)'
  <1>1. features[f] \in FeatureRow
    BY DEF TrainInv, LifecycleInv, TypeOK
  <1>2. ASSUME Settled(f), Head(todo) \in SafeWrites
        PROVE  /\ On /\ Settled(f)'
               /\ todo' = Tail(todo) \/ todo' = << >>
    <2>1. \A g \in Features : Settled(g)
      BY <1>2
    <2>2. \A g \in Features : Settled(g)'
      BY <1>2, <2>1, SafeStep
    <2>3. todo' = Tail(todo) \/ todo' = << >>
      BY TakenWrite
    <2> QED BY <2>2, <2>3
  <1>3. << >> \in Seq(SafeWrites)
    OBVIOUS
  <1>4. CASE /\ Settled(f)
             /\ \/ todo = << Starts(f), Ends(f), Awaits(f), Clears(f),
                             Enqueues(f), Stamps(f) >>
                \/ todo = << Ends(f), Awaits(f), Clears(f), Enqueues(f),
                             Stamps(f) >>
    <2>1. /\ \/ Head(todo) = Starts(f)
             \/ Head(todo) = Ends(f)
          /\ \/ Tail(todo) = << Ends(f), Awaits(f), Clears(f), Enqueues(f),
                                Stamps(f) >>
             \/ Tail(todo) = << Awaits(f), Clears(f), Enqueues(f), Stamps(f) >>
      <3>1. CASE todo = << Starts(f), Ends(f), Awaits(f), Clears(f),
                           Enqueues(f), Stamps(f) >>
        BY <3>1, LongTails
      <3>2. CASE todo = << Ends(f), Awaits(f), Clears(f), Enqueues(f),
                           Stamps(f) >>
        BY <3>2, LongTails
      <3> QED BY <1>4, <3>1, <3>2
    <2>2. Head(todo) \in SafeWrites
      BY <2>1, SafeNames
    <2>3. /\ On /\ Settled(f)'
          /\ todo' = Tail(todo) \/ todo' = << >>
      BY <1>2, <1>4, <2>2
    <2>4. CASE todo' = << >>
      BY <1>3, <2>3, <2>4, AllSettled
    <2>5. CASE todo' = Tail(todo)
      <3>1. EntersTrain(f)'
        BY <2>1, <2>3, <2>5 DEF EntersTrain
      <3> QED BY <2>3, <3>1, StillOnTheWay
    <2> QED BY <2>3, <2>4, <2>5
  <1>5. CASE /\ Settled(f)
             /\ todo = << Awaits(f), Clears(f), Enqueues(f), Stamps(f) >>
    <2>1. /\ Head(todo) = Awaits(f)
          /\ Tail(todo) = << Clears(f), Enqueues(f), Stamps(f) >>
      BY <1>5, LongTails
    <2>2. /\ Head(todo).feature = f
          /\ ~ Skipped(Awaits(f), row)
          /\ Accepted(Awaits(f), row) =>
                /\ NewRow(Awaits(f), row).work = "awaiting_merge"
                /\ NewRow(Awaits(f), row).status = "pending"
                /\ NewRow(Awaits(f), row).collab = "branch_open"
      BY <1>1, <2>1, TheirFeature, OtherWrites
    <2>3. CASE Accepted(Awaits(f), row)
      <3>1. todo' = Tail(todo) /\ new = NewRow(Awaits(f), row) /\ On
        BY <2>1, <2>2, <2>3, Made
      <3>2. Awaiting(f, "branch_open", {"pending"})'
        BY <2>2, <2>3, <3>1 DEF Awaiting
      <3> QED BY <2>1, <3>1, <3>2, StillOnTheWay DEF EntersTrain
    <2>4. CASE ~ Accepted(Awaits(f), row)
      <3>1. todo' = << >> /\ features' = features /\ On
        BY <2>1, <2>2, <2>4, Outcome
      <3>2. Settled(f)'
        BY <1>5, <3>1, OthersSettled
      <3> QED BY <1>3, <3>1, <3>2, AllSettled
    <2> QED BY <2>3, <2>4
  <1>6. CASE /\ Awaiting(f, "branch_open", {"pending"})
             /\ todo = << Clears(f), Enqueues(f), Stamps(f) >>
    <2>1. /\ Head(todo) = Clears(f)
          /\ Tail(todo) = << Enqueues(f), Stamps(f) >>
          /\ Head(todo).feature = f
      BY <1>6, LongTails, TheirFeature
    <2>2. Skipped(Clears(f), row)
      BY <1>1, <1>6, AwaitingWrites DEF Awaiting
    <2>3. todo' = Tail(todo) /\ new = row /\ On
      BY <2>1, <2>2, Outcome
    <2>4. Awaiting(f, "branch_open", {"pending"})'
      BY <1>6, <2>3 DEF Awaiting
    <2> QED BY <2>1, <2>3, <2>4, StillOnTheWay DEF EntersTrain
  <1>7. CASE /\ Awaiting(f, "branch_open", {"pending"})
             /\ todo = << Enqueues(f), Stamps(f) >>
    <2>1. /\ Head(todo) = Enqueues(f)
          /\ Tail(todo) = << Stamps(f) >>
          /\ Head(todo).feature = f
      BY <1>7, HeadAndTail, TheirFeature
    <2>2. /\ ~ Skipped(Enqueues(f), row)
          /\ NewRow(Enqueues(f), row).collab = "merge_queued"
          /\ (\A d \in dependsOn[f] : features[d].collab = "merged")
                => Accepted(Enqueues(f), row)
      BY <1>1, <1>7, AwaitingWrites DEF Awaiting
    <2>3. CASE Accepted(Enqueues(f), row)
      <3>1. todo' = Tail(todo) /\ new = NewRow(Enqueues(f), row) /\ On
        BY <2>1, <2>2, <2>3, Made
      <3>2. Settled(f)'
        BY <2>2, <3>1, RowSettled
      <3>3. << Stamps(f) >> \in Seq(SafeWrites)
        BY SafeNames, SequenceOfOne
      <3> QED BY <2>1, <3>1, <3>2, <3>3, AllSettled
    <2>4. CASE ~ Accepted(Enqueues(f), row)
      <3>1. DepsDone(f)
        BY <1>7 DEF BegunInv, Begun, Awaiting
      <3>2. Settled(f)
        BY <1>7, <2>2, <2>4, <3>1 DEF Settled, DepsDone, Awaiting
      <3>3. todo' = << >> /\ features' = features /\ On
        BY <2>1, <2>2, <2>4, Outcome
      <3>4. Settled(f)'
        BY <3>2, <3>3, OthersSettled
      <3> QED BY <1>3, <3>3, <3>4, AllSettled
    <2> QED BY <2>3, <2>4
  <1> QED BY <1>4, <1>5, <1>6, <1>7 DEF EntersTrain

LEMMA StageWrites ==
    ASSUME TrainInv, BegunInv, StageInv, TakeWrite
    PROVE  StageInv'
  <1>1. ASSUME NEW f \in Features, OnTheWay(f)
        PROVE  StageInv'
    BY <1>1, EntersTrainStep, LeavesQueueStep, LeavesIntegrationStep
       DEF OnTheWay
  <1>2. ASSUME todo \in Seq(SafeWrites), \A f \in Features : Settled(f)
        PROVE  StageInv'
    <2>1. /\ todo # << >>
          /\ todo' = Tail(todo) \/ todo' = << >>
      BY TakenWrite
    <2>2. Head(todo) \in SafeWrites /\ todo' \in Seq(SafeWrites)
      <3>1. Tail(todo) \in Seq(SafeWrites) /\ Head(todo) \in SafeWrites
        BY <1>2, <2>1, HeadTailProperties
      <3>2. << >> \in Seq(SafeWrites)
        OBVIOUS
      <3> QED BY <2>1, <3>1, <3>2
    <2> QED BY <1>2, <2>2, SafeStep DEF StageInv
  <1> QED BY <1>1, <1>2 DEF StageInv

----------------------------------------------------------------------------
(* How the handlers begin *)

\* Between handlers every feature is settled.
LEMMA SettledBetween ==
    ASSUME StageInv, todo = << >>
    PROVE  \A f \in Features : Settled(f)
  BY DEF StageInv, OnTheWay, EntersTrain, LeavesQueue, LeavesIntegration

\* A handler that makes safe writes only leaves every feature settled.
LEMMA SafeBegin ==
    ASSUME StageInv, todo = << >>, todo' \in Seq(SafeWrites),
           UNCHANGED << features, dependsOn >>
    PROVE  StageInv'
  <1>1. \A f \in Features : Settled(f)
    BY SettledBetween
  <1>2. \A f \in Features : Settled(f)'
    BY <1>1 DEF Settled, InTrain
  <1> QED BY <1>2 DEF StageInv

LEMMA WayBegins ==
    ASSUME StageInv, todo = << >>, NEW f \in Features,
           UNCHANGED << features, dependsOn >>,
           EntersTrain(f)' \/ LeavesQueue(f)' \/ LeavesIntegration(f)'
    PROVE  StageInv'
  <1>1. \A g \in Features : Settled(g)
    BY SettledBetween
  <1>2. \A g \in Features : Settled(g)'
    BY <1>1 DEF Settled, InTrain
  <1> QED BY <1>2, StillOnTheWay

LEMMA RerouteBegins ==
    ASSUME StageInv, TrainInv, NEW f \in Features, Handle(RerouteToReplan(f))
    PROVE  StageInv'
  <1>1. /\ todo = << >> /\ todo' = RerouteToReplan(f)
        /\ UNCHANGED << features, dependsOn >>
    BY DEF Handle
  <1>2. InTrain(f) => /\ features'[f].work = "awaiting_merge"
                      /\ features'[f].status \in Unfinished
    BY <1>1 DEF TrainInv, TrainAwaitsMerge, Unfinished
  <1>3. CASE features[f].collab = "merge_queued"
    <2>1. LeavesQueue(f)'
      BY <1>1, <1>2, <1>3, RerouteIs DEF LeavesQueue, Awaiting, InTrain
    <2> QED BY <1>1, <2>1, WayBegins
  <1>4. CASE features[f].collab = "integrating"
    <2>1. LeavesIntegration(f)'
      BY <1>1, <1>2, <1>4, RerouteIs DEF LeavesIntegration, Awaiting, InTrain
    <2> QED BY <1>1, <2>1, WayBegins
  <1>5. CASE ~ InTrain(f)
    <2>1. todo' = << Edits(f), Starts(f), Fails(f), Replans(f) >>
      BY <1>1, <1>5, RerouteIs
    <2> DEFINE a == Edits(f)
               b == Starts(f)
               c == Fails(f)
               d == Replans(f)
    <2>2. /\ a \in SafeWrites /\ b \in SafeWrites /\ c \in SafeWrites
          /\ d \in SafeWrites
      BY SafeNames
    <2> HIDE DEF a, b, c, d
    <2>3. << a, b, c, d >> \in Seq(SafeWrites)
      BY <2>2
    <2> QED BY <1>1, <2>1, <2>3, SafeBegin DEF a, b, c, d
  <1> QED BY <1>3, <1>4, <1>5 DEF InTrain

LEMMA StageHandlers ==
    ASSUME StageInv, TrainInv, crashes = 0, NEW f \in Features,
           PhaseStep(f) \/ OnTaskLanded(f) \/ IntegrationOutcome(f)
              \/ BeginNextIntegration(f)
    PROVE  StageInv'
  <1>1. /\ MarkPhaseDone(f) \in Seq(SafeWrites)
        /\ MarkPhaseFailed(f) \in Seq(SafeWrites)
        /\ \A p \in WorkControl \ {"awaiting_merge"} :
              Advance(f, p) \in Seq(SafeWrites)
        /\ AdvanceWith(f, "executing", "branch_open") \in Seq(SafeWrites)
        /\ << W(f, "running") >> \in Seq(SafeWrites)
        /\ << W(f, "edit") >> \in Seq(SafeWrites)
        /\ << W(f, "start"), W(f, "begin") >> \in Seq(SafeWrites)
        /\ << MoveTo(f, "merged"), W(f, "unstamp") >> \in Seq(SafeWrites)
    <2>1. \A op \in {"start", "done", "fail", "running", "edit", "begin",
                     "unstamp"} : W(f, op) \in SafeWrites
      BY SafeOnes DEF WriteOp
    <2> QED BY <2>1, SafeOnes, SequenceOfOne, SequenceOfTwo
            DEF MarkPhaseDone, MarkPhaseFailed, Advance, AdvanceWith
  <1>2. ASSUME NEW p \in WorkControl \ {"awaiting_merge"}
        PROVE  /\ MarkPhaseDone(f) \o Advance(f, p) \in Seq(SafeWrites)
               /\ MarkPhaseFailed(f) \o Advance(f, p) \in Seq(SafeWrites)
    BY <1>1, Concatenation
  <1>3. ASSUME NEW writes \in Seq(SafeWrites), Handle(writes)
        PROVE  StageInv'
    BY <1>3, SafeBegin DEF Handle
  <1>4. CASE \/ CompleteDiscuss(f) \/ CompleteResearch(f) \/ CiCheckPasses(f)
             \/ VerifyFails(f) \/ OnTaskLanded(f) \/ ReconcilePostMerge(f)
    BY <1>2, <1>3, <1>4
       DEF CompleteDiscuss, CompleteResearch, CiCheckPasses, VerifyFails,
           OnTaskLanded, ReconcilePostMerge, WorkControl
  <1>5. CASE ApproveProposal(f)
    <2>1. MarkPhaseDone(f) \o AdvanceWith(f, "executing", "branch_open")
             \in Seq(SafeWrites)
      BY <1>1, Concatenation
    <2> QED BY <1>3, <1>5, <2>1 DEF ApproveProposal
  <1>6. CASE CompleteSummary(f)
    <2>1. MarkPhaseDone(f) \o << W(f, "edit") >> \in Seq(SafeWrites)
      BY <1>1, Concatenation
    <2>2. MarkPhaseDone(f) \o << W(f, "edit") >> \o Advance(f, "work_complete")
             \in Seq(SafeWrites)
      BY <1>1, <2>1, Concatenation DEF WorkControl
    <2> QED BY <1>3, <1>6, <2>2 DEF CompleteSummary
  <1>7. CASE \/ MarkFeaturePhaseRunning(f) \/ BeginNextIntegration(f)
             \/ IntegrationLands(f)
    BY <1>1, <1>3, <1>7
       DEF MarkFeaturePhaseRunning, BeginNextIntegration, IntegrationLands,
           CompleteIntegration
  <1>8. CASE \/ CiCheckFails(f) \/ TaskWorkFails(f) \/ EjectFromQueue(f)
             \/ IntegrationFails(f)
    BY <1>8, RerouteBegins
       DEF CiCheckFails, TaskWorkFails, EjectFromQueue, IntegrationFails
  <1>9. CASE VerifyPasses(f)
    <2>1. /\ todo = << >> /\ todo' = EnterTrain(f)
          /\ UNCHANGED << features, dependsOn >>
      BY <1>9 DEF VerifyPasses, Handle
    <2>2. todo' = << Starts(f), Ends(f), Awaits(f), Clears(f), Enqueues(f),
                     Stamps(f) >>
      BY <2>1, EnterTrainIs DEF Starts, Ends, Awaits, Clears, Enqueues, Stamps
    <2>3. Settled(f)'
      <3>1. Settled(f)
        BY <2>1, SettledBetween
      <3> QED BY <2>1, <3>1 DEF Settled, InTrain
    <2>4. EntersTrain(f)'
      BY <2>2, <2>3 DEF EntersTrain
    <2> QED BY <2>1, <2>4, WayBegins
  <1>10. CASE ReplayVerifyPasses(f)
    BY <1>10 DEF ReplayVerifyPasses
  <1> QED BY <1>4, <1>5, <1>6, <1>7, <1>8, <1>9, <1>10
          DEF PhaseStep, IntegrationOutcome

----------------------------------------------------------------------------
(* Dependencies of a feature that has begun *)

LEMMA BegunHandlers ==
    ASSUME MergedInv, BegunInv, NEW f \in Features,
           PhaseStep(f) \/ OnTaskLanded(f) \/ IntegrationOutcome(f)
              \/ BeginNextIntegration(f)
    PROVE  BegunInv'
  <1>1. /\ \A i \in DOMAIN todo' : todo'[i].feature = f
        /\ UNCHANGED << features, dependsOn >>
    <2>1. CASE OwnHandler(f)
      <3>1. /\ todo' \in Seq(OwnWrites(f))
            /\ UNCHANGED << features, dependsOn >>
        BY <2>1, OwnHandlers
      <3> QED BY <3>1 DEF OwnWrites
    <2>2. CASE Queues(f)
      <3> DEFINE a == Starts(f)
                 b == Ends(f)
                 c == Awaits(f)
                 d == Clears(f)
                 e == Enqueues(f)
                 g == Stamps(f)
                 h == W(f, "forget")
      <3>1. \/ todo' = << a, b, c, d, e, g >>
            \/ todo' = << a, b, c, d, e, g, h >>
        BY <2>2, EnterTrainIs
           DEF Queues, VerifyPasses, ReplayVerifyPasses, Handle, Starts, Ends,
               Awaits, Clears, Enqueues, Stamps
      <3>2. \A x \in {a, b, c, d, e, g, h} : x.feature = f
        BY TheirFeature DEF W, Write
      <3> HIDE DEF a, b, c, d, e, g, h
      <3>3. \A i \in DOMAIN todo' : todo'[i] \in {a, b, c, d, e, g, h}
        BY <3>1
      <3>4. UNCHANGED << features, dependsOn >>
        BY <2>2 DEF Queues, VerifyPasses, ReplayVerifyPasses, Handle
      <3> QED BY <3>2, <3>3, <3>4
    <2>3. CASE IntegrationLands(f) \/ BeginNextIntegration(f)
      <3>1. /\ \/ todo' = << MoveTo(f, "merged"), W(f, "unstamp") >>
               \/ todo' = << W(f, "start"), W(f, "begin") >>
            /\ UNCHANGED << features, dependsOn >>
        BY <2>3 DEF IntegrationLands, CompleteIntegration,
                    BeginNextIntegration, Handle
      <3> QED BY <3>1 DEF MoveTo, W, Write
    <2> QED BY <2>1, <2>2, <2>3
            DEF PhaseStep, IntegrationOutcome, OwnHandler, Queues
  <1>2. MarkFeaturePhaseRunning(f) \/ Begun(f)
    <2>1. InTrain(f) => features[f].work = "awaiting_merge"
      BY DEF MergedInv, TrainInv, TrainAwaitsMerge
    <2>2. features[f].collab = "merged" => features[f].work # "discussing"
      BY DEF MergedInv, MergedOnward
    <2> QED BY <2>1, <2>2
            DEF PhaseStep, IntegrationOutcome, Begun, Reports, CompleteDiscuss,
                CompleteResearch, ApproveProposal, OnTaskLanded, CiCheckPasses,
                CiCheckFails, VerifyPasses, ReplayVerifyPasses, VerifyFails,
                TaskWorkFails, EjectFromQueue, ReconcilePostMerge,
                CompleteSummary, IntegrationLands, IntegrationFails,
                Integrated, BeginNextIntegration, NextToIntegrate, Queued,
                InTrain
  <1>3. DepsDone(f)
    BY <1>2 DEF BegunInv, DepsDone, MarkFeaturePhaseRunning, ReadyFeature
  <1> QED BY <1>1, <1>3 DEF BegunInv, Begun, DepsDone

LEMMA BegunWrites ==
    ASSUME TrainInv, BegunInv, TakeWrite
    PROVE  BegunInv'
  <1>1. /\ dependsOn \in [Features -> SUBSET Features]
        /\ todo \in Seq(ProperWrites)
    BY DEF TrainInv, InOrder, LifecycleInv, TypeOK
  <1>2. /\ todo # << >> /\ dependsOn' = dependsOn
        /\ todo' = Tail(todo) \/ todo' = << >>
        /\ \A g \in Features \ {Head(todo).feature} : features'[g] = features[g]
    BY TakenWrite, OthersSettled
  <1>3. ASSUME NEW f \in Features, DepsDone(f)
        PROVE  DepsDone(f)'
    <2>1. dependsOn[f] \subseteq Features /\ dependsOn'[f] = dependsOn[f]
      BY <1>1, <1>2
    <2> QED BY <1>3, <2>1, OthersSettled DEF DepsDone
  <1>4. /\ 1 \in DOMAIN todo /\ Head(todo) = todo[1]
        /\ \A i \in DOMAIN todo' : /\ i + 1 \in DOMAIN todo
                                   /\ todo'[i] = todo[i + 1]
        /\ \A i \in DOMAIN todo : todo[i] \in ProperWrites
    BY <1>1, <1>2
  <1>5. \A i \in DOMAIN todo : todo[i].feature \in Features
    BY <1>4 DEF ProperWrites, Writes
  <1>6. ASSUME NEW f \in Features, Begun(f)'
        PROVE  DepsDone(f)'
    <2>1. CASE f = Head(todo).feature
      BY <1>3, <1>4, <2>1 DEF BegunInv
    <2>2. CASE f # Head(todo).feature
      <3>1. Begun(f)
        BY <1>2, <1>6, <2>2 DEF Begun
      <3> QED BY <1>3, <3>1 DEF BegunInv
    <2> QED BY <2>1, <2>2
  <1>7. ASSUME NEW i \in DOMAIN todo'
        PROVE  DepsDone(todo[i].feature)'
    <2>1. PICK f \in Features : f = todo[i + 1].feature
      BY <1>4, <1>5
    <2>2. DepsDone(f)
      BY <1>4, <2>1 DEF BegunInv
    <2>3. DepsDone(f)' /\ todo'[i].feature = f
      BY <1>3, <1>4, <2>1, <2>2
    <2> QED BY <2>3 DEF DepsDone
  <1> QED BY <1>6, <1>7 DEF BegunInv

\* Nothing crashes, and the planner changes no dependency.
LEMMA SettledStep ==
    ASSUME MaxCrashes = 0, PlannerEdges = {}, SettledInv, [Next]_lifecycleVars
    PROVE  SettledInv'
  <1>1. MergedInv'
    BY MergedHolds DEF SettledInv
  <1>2. TrainInv /\ crashes = 0
    BY DEF SettledInv, MergedInv, TrainInv, LifecycleInv, TypeOK
  <1>3. CASE TakeWrite
    BY <1>1, <1>2, <1>3, StageWrites, BegunWrites DEF SettledInv
  <1>4. CASE Crash
    BY <1>2, <1>4 DEF Crash
  <1>5. ASSUME NEW f \in Features,
               PhaseStep(f) \/ OnTaskLanded(f) \/ IntegrationOutcome(f)
                  \/ BeginNextIntegration(f)
        PROVE  SettledInv'
    BY <1>1, <1>2, <1>5, StageHandlers, BegunHandlers DEF SettledInv
  <1>6. ASSUME NEW f \in Features, CancelFeature(f)
        PROVE  SettledInv'
    <2>1. /\ todo = << >> /\ todo' = << >>
          /\ dependsOn' = dependsOn
          /\ features' = [features EXCEPT ![f].collab = "cancelled"]
      BY <1>6 DEF CancelFeature
    <2>2. /\ features \in [Features -> FeatureRow]
          /\ dependsOn \in [Features -> SUBSET Features]
      BY <1>2 DEF TrainInv, LifecycleInv, TypeOK
    <2>3. /\ features'[f].collab = "cancelled"
          /\ features'[f].work = features[f].work
          /\ features'[f].status = features[f].status
          /\ \A g \in Features \ {f} : features'[g] = features[g]
      BY <2>1, <2>2 DEF FeatureRow
    <2>4. \A g \in Features : Settled(g)
      BY <2>1, SettledBetween DEF SettledInv
    <2>5. ASSUME NEW g \in Features
          PROVE  Settled(g)'
      <3>1. CASE g = f
        BY <2>3, <3>1 DEF Settled
      <3>2. CASE g # f
        <4>1. dependsOn[g] \subseteq Features
          BY <2>2
        <4> QED BY <2>1, <2>3, <2>4, <3>2, <4>1 DEF Settled, InTrain
      <3> QED BY <3>1, <3>2
    <2>6. \A g \in Features : Begun(g)' => DepsDone(g)'
      <3>1. \A g \in Features : dependsOn[g] \subseteq Features
        BY <2>2
      <3> QED BY <2>1, <2>3, <3>1 DEF SettledInv, BegunInv, Begun, DepsDone
    <2>7. BegunInv' /\ StageInv'
      BY <2>1, <2>5, <2>6 DEF BegunInv, StageInv
    <2> QED BY <1>1, <2>7 DEF SettledInv
  <1>7. ASSUME NEW f \in Features, ApplyProjectProposal(f)
        PROVE  SettledInv'
    BY <1>7 DEF ApplyProjectProposal, AddDependency, RemoveDependency
  <1>8. CASE UNCHANGED lifecycleVars
    <2>1. UNCHANGED << features, dependsOn, todo >>
      BY <1>8 DEF lifecycleVars
    <2>2. BegunInv'
      BY <2>1 DEF SettledInv, BegunInv, Begun, DepsDone
    <2>3. StageInv'
      BY <2>1 DEF SettledInv, StageInv, OnTheWay, Settled, InTrain, EntersTrain,
                  LeavesQueue, LeavesIntegration, Awaiting
    <2> QED BY <1>1, <2>2, <2>3 DEF SettledInv
  <1> QED BY <1>3, <1>4, <1>5, <1>6, <1>7, <1>8 DEF Next

LEMMA SettledInit == Init => SettledInv
  <1> SUFFICES ASSUME Init PROVE SettledInv
    OBVIOUS
  <1>1. MergedInv
    BY TrainInit DEF Init, MergedInv, MergedOnward
  <1>2. BegunInv
    BY DEF Init, BegunInv, Begun
  <1>3. \A f \in Features : Settled(f)
    BY DEF Init, Settled
  <1>4. todo \in Seq(SafeWrites)
    BY DEF Init
  <1> QED BY <1>1, <1>2, <1>3, <1>4 DEF SettledInv, StageInv

\* As long as nothing crashes and no dependency changes, no handler leaves a
\* feature half way: one that awaits its merge outside the train has a cancelled
\* dependency, and none stays in the conflict state that an ejection passes
\* through.  A crash between two writes of completePhase, or an edge added while
\* a feature is verified, does strand it.
THEOREM NothingStranded ==
    ASSUME MaxCrashes = 0, PlannerEdges = {}
    PROVE  Spec => []NoneStranded
<1>1. Init => SettledInv
  BY SettledInit
<1>2. SettledInv /\ [Next]_lifecycleVars => SettledInv'
  BY SettledStep
<1>3. SettledInv => NoneStranded
  BY SettledBetween DEF SettledInv, NoneStranded, Settled
<1> QED BY <1>1, <1>2, <1>3, PTL DEF Spec
=============================================================================
