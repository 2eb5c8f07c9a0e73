---------------------------- MODULE PhasesProofs ----------------------------
(***************************************************************************)
(* The phases, proved: types, RunsAttended and, as long as the program     *)
(* dies in the first pass only, VerifiedBeforeMerge.                       *)
(*                                                                         *)
(* TypeInv gives the shape of the loop: which phase it has in hand, with   *)
(* which session, at each place where it may be interrupted.  AttendedInv  *)
(* says who will end a run that is under way: the loop, which has it in    *)
(* hand, or recovery, which has read its row but not come to it.  From it  *)
(* follows InItsPhase: the feature does not leave a phase that runs.  With *)
(* both, VerdictInv follows a verdict from its session over the row, the   *)
(* event and the advance into the merge train, and over recovery.          *)
(***************************************************************************)
EXTENDS Phases, TLAPS

----------------------------------------------------------------------------
(* Shapes *)

Places == {"idle", "parked", "ended", "filing", "advancing", "erroring", "branching",
           "deciding", "deleting", "recovering", "reparked", "recovered", "down"}
Statuses == {"none", "ready", "running", "await_response", "await_approval",
             "retry_await", "completed", "failed", "cancelled"}
Verdicts == {"ok", "bad"}
Failures == {"transient", "permanent"}

Row == [status : Statuses, owner : {"system", "manual"},
        attention : {"none", "operator"}, restarts : Nat,
        payload : {"none", "help", "agent", "draft"}]
Session == [phase : Phases \cup {NoPhase}, help : BOOLEAN, aborted : BOOLEAN]
Sched == [at : Places, phase : Phases \cup {NoPhase},
          result : Verdicts \cup Failures \cup {"none"}, next : 0..8,
          seen : {<<>>} \cup [Phases -> Row]]
Requested == [kind : {"approve", "reject", "rerun"}, phase : Proposals]

\* Where the loop reports the end of a session, and where it recovers.
Reports == {"ended", "filing", "advancing"}
Restarting == {"recovering", "reparked", "recovered"}

\* A retry is under the cap, and a run is started again once more for each
\* crash; only a proposal waits for approval.
RowInv(p) ==
    /\ row[p].restarts <= MaxRetries + turns
    /\ row[p].status = "retry_await" => row[p].restarts < MaxRetries
    /\ row[p].status = "await_approval" =>
          p \in Proposals /\ row[p].payload \in {"agent", "draft"}

\* A phase in hand is one, and there is a session where the loop is parked.
SchedInv ==
    /\ sched.at \in {"parked", "erroring", "reparked", "recovered"} \cup Reports =>
          sched.phase \in Phases
    /\ sched.at \in {"branching", "deciding", "deleting"} => sched.phase \in Proposals
    /\ sched.at \in Reports => sched.result \in Verdicts
    /\ At("erroring") => sched.result \in Failures
    /\ sched.at \in Restarting =>
          /\ sched.seen \in [Phases -> Row] /\ sched.next \in 1..8
          /\ \A p \in Phases : sched.seen[p].restarts < MaxRetries + turns
    /\ sched.at \in {"reparked", "recovered"} =>
          sched.next \in 1..7 /\ sched.phase = PhaseOrder[sched.next]
    /\ At("advancing") => sched.phase \notin Proposals
    /\ sched.at \in {"filing", "advancing"} /\ sched.phase \notin Proposals => Standing
    /\ IF InSession THEN session.phase = sched.phase ELSE session = NoSession

WorkTyped ==
    /\ feature \in [work : WorkControl, collab : CollabControl]
    /\ pass \in 0..MaxPasses
    /\ judged \in [Checks -> 0..MaxPasses]

RowsTyped ==
    /\ row \in [Phases -> Row]
    /\ first \in [Phases -> {"none"} \cup Verdicts]
    /\ \A p \in Phases : RowInv(p)

UserTyped ==
    /\ queue \in Seq(Requested)
    /\ draft \in Proposals \cup {NoPhase}
    /\ auto \in [on : BOOLEAN, before : BOOLEAN]

LoopTyped ==
    /\ session \in Session
    /\ session.help => Converses(session.phase)
    /\ sched \in Sched
    /\ SchedInv

TypeInv ==
    /\ turns \in 0..MaxTurns
    /\ WorkTyped /\ RowsTyped /\ UserTyped /\ LoopTyped

----------------------------------------------------------------------------
(* Phases, rows and the loop *)

\* The phases, and the work control of each.
LEMMA PhaseNames ==
    /\ Phases = {"discuss", "research", "plan", "ci_check", "verify", "replan", "summarize"}
    /\ DOMAIN PhaseOrder = 1..7 /\ Len(PhaseOrder) = 7
    /\ \A i \in 1..7 : PhaseOrder[i] \in Phases
    /\ \A i, j \in 1..7 : PhaseOrder[i] = PhaseOrder[j] => i = j
    /\ Proposals \subseteq Phases /\ Checks \subseteq Phases
    /\ Proposals \cap Checks = {}
    /\ NoPhase \notin Phases
<1>1. DOMAIN PhaseOrder = 1..7 /\ Len(PhaseOrder) = 7
  BY DEF PhaseOrder
<1>2. /\ PhaseOrder[1] = "discuss" /\ PhaseOrder[2] = "research" /\ PhaseOrder[3] = "plan"
      /\ PhaseOrder[4] = "ci_check" /\ PhaseOrder[5] = "verify"
      /\ PhaseOrder[6] = "replan" /\ PhaseOrder[7] = "summarize"
  BY DEF PhaseOrder
<1>3. \A i \in 1..7 : i \in {1, 2, 3, 4, 5, 6, 7}
  OBVIOUS
<1>4. Phases = {"discuss", "research", "plan", "ci_check", "verify", "replan", "summarize"}
  BY <1>1, <1>2, <1>3 DEF Phases
<1>5. \A i, j \in 1..7 : PhaseOrder[i] = PhaseOrder[j] => i = j
  BY <1>2, <1>3
<1> QED
  BY <1>1, <1>2, <1>3, <1>4, <1>5 DEF Phases, Proposals, Checks, NoPhase

\* Each phase has a work control of its own, which is none of the others.
LEMMA WorkNames ==
    /\ \A p \in Phases : WorkOf[p] \in WorkControl \ {"executing", "awaiting_merge",
                                                      "work_complete"}
    /\ \A p, q \in Phases : WorkOf[p] = WorkOf[q] => p = q
    /\ WorkOf["ci_check"] = "ci_check" /\ WorkOf["verify"] = "verifying"
<1>1. /\ WorkOf["discuss"] = "discussing" /\ WorkOf["research"] = "researching"
      /\ WorkOf["plan"] = "planning" /\ WorkOf["replan"] = "replanning"
      /\ WorkOf["verify"] = "verifying" /\ WorkOf["summarize"] = "summarizing"
      /\ WorkOf["ci_check"] = "ci_check"
  BY PhaseNames DEF WorkOf
<1> QED
  BY <1>1, PhaseNames DEF WorkControl

\* What System writes to a row.
LEMMA SystemRow ==
    ASSUME NEW p \in Phases, row[p] \in Row, NEW status \in Statuses
    PROVE  /\ System(p, status) \in Row
           /\ System(p, status).status = status
           /\ System(p, status).restarts = row[p].restarts
           /\ System(p, status).payload = row[p].payload
BY DEF System, Row

\* One row is written, the others stay.
LEMMA RowSet ==
    ASSUME RowsTyped, NEW p \in Phases, NEW new \in Row, SetRow(p, new),
           first' \in [Phases -> {"none"} \cup Verdicts],
           turns \in Nat, turns' \in Nat, turns <= turns',
           new.restarts <= MaxRetries + turns',
           new.status = "retry_await" => new.restarts < MaxRetries,
           new.status = "await_approval" =>
              p \in Proposals /\ new.payload \in {"agent", "draft"}
    PROVE  /\ RowsTyped'
           /\ row'[p] = new
           /\ \A q \in Phases \ {p} : row'[q] = row[q]
<1>0. row \in [Phases -> Row] /\ MaxRetries \in Nat
  BY PhaseConstants DEF RowsTyped
<1>1. /\ row' \in [Phases -> Row] /\ row'[p] = new
      /\ \A q \in Phases \ {p} : row'[q] = row[q]
  BY <1>0 DEF SetRow
<1>2. ASSUME NEW q \in Phases \ {p} PROVE RowInv(q)'
  <2>1. RowInv(q) /\ row'[q] = row[q] /\ row[q].restarts \in Nat
    BY <1>0, <1>1 DEF RowsTyped, Row
  <2> QED
    BY <1>0, <2>1 DEF RowInv
<1>3. RowInv(p)'
  BY <1>1 DEF RowInv
<1> QED
  BY <1>1, <1>2, <1>3 DEF RowsTyped

\* No row is written.
LEMMA RowsStay ==
    ASSUME RowsTyped, UNCHANGED << row, first >>,
           turns \in Nat, turns' \in Nat, turns <= turns'
    PROVE  RowsTyped'
<1>0. row \in [Phases -> Row] /\ MaxRetries \in Nat
  BY PhaseConstants DEF RowsTyped
<1>1. ASSUME NEW q \in Phases PROVE RowInv(q)'
  <2>1. RowInv(q) /\ row[q].restarts \in Nat
    BY <1>0, <1>1 DEF RowsTyped, Row
  <2> QED
    BY <1>0, <2>1 DEF RowInv
<1> QED
  BY <1>1 DEF RowsTyped

\* The first event of a phase is a verdict.
LEMMA FiledTyped ==
    ASSUME RowsTyped, NEW p \in Phases, NEW result \in Verdicts
    PROVE  Filed(p, result) \in [Phases -> {"none"} \cup Verdicts]
BY DEF RowsTyped, Filed

\* What is left alone keeps its type.
LEMMA WorkStays == WorkTyped /\ TheWork => WorkTyped'
BY DEF WorkTyped, TheWork

LEMMA UserStays == UserTyped /\ TheUser => UserTyped'
BY DEF UserTyped, TheUser

\* The loop at rest, and no session.
LEMMA IdleTyped == /\ SchedIdle \in Sched /\ SchedIdle.at = "idle"
                   /\ NoSession \in Session /\ ~ NoSession.help
BY DEF SchedIdle, Sched, Places, NoSession, Session

\* The loop comes to rest.
LEMMA LoopRests == sched' = SchedIdle /\ session' = NoSession => LoopTyped'
BY IdleTyped DEF LoopTyped, SchedInv, InSession, At, Reports, Restarting

\* The loop stays where it is.
LEMMA LoopStays ==
    ASSUME LoopTyped, UNCHANGED << sched, session >>,
           turns \in Nat, turns' \in Nat, turns <= turns',
           sched.at \in {"filing", "advancing"} => Standing'
    PROVE  LoopTyped'
<1>1. MaxRetries \in Nat
  BY PhaseConstants
<1>2. ASSUME sched.at \in Restarting
      PROVE  \A p \in Phases : sched.seen[p].restarts < MaxRetries + turns'
  <2>1. \A p \in Phases : sched.seen[p].restarts \in Nat
    BY <1>2 DEF LoopTyped, SchedInv, Row
  <2> QED
    BY <1>1, <1>2, <2>1 DEF LoopTyped, SchedInv
<1> QED
  BY <1>2 DEF LoopTyped, SchedInv, InSession, At

\* The place of the loop, in the words of SchedInv.
LEMMA LoopGoes ==
    ASSUME sched' \in Sched, session' \in Session, session'.help => Converses(session'.phase),
           SchedInv'
    PROVE  LoopTyped'
BY DEF LoopTyped

\* The initial state has every shape.
LEMMA PhaseInit == InitPhases => TypeInv
<1> SUFFICES ASSUME InitPhases PROVE TypeInv
  OBVIOUS
<1>0. {MaxPasses, MaxRetries, MaxTurns} \subseteq Nat
  BY PhaseConstants
<1>1. WorkTyped
  BY <1>0 DEF InitPhases, WorkTyped, WorkControl, CollabControl
<1>2. NoRow \in Row /\ NoRow.restarts = 0 /\ NoRow.status = "none"
  BY DEF NoRow, Row, Statuses
<1>3. RowsTyped
  BY <1>0, <1>2 DEF InitPhases, RowsTyped, RowInv
<1>4. UserTyped
  BY DEF InitPhases, UserTyped
<1>5. LoopTyped
  BY IdleTyped DEF InitPhases, LoopTyped, SchedInv, InSession, At, Reports, Restarting
<1> QED
  BY <1>0, <1>1, <1>3, <1>4, <1>5 DEF InitPhases, TypeInv

\* Where the feature goes after a phase.
LEMMA AfterTyped ==
    ASSUME feature \in [work : WorkControl, collab : CollabControl], NEW p \in Phases,
           NEW result
    PROVE  After(p, result) \in [work : WorkControl, collab : CollabControl]
BY DEF After, WorkControl, CollabControl

\* Every step keeps the types and shapes, one step of the proof for each action.
LEMMA TypeStep == TypeInv /\ [PhasesNext]_phaseVars => TypeInv'
<1> SUFFICES ASSUME TypeInv, [PhasesNext]_phaseVars PROVE TypeInv'
  OBVIOUS
<1>0. /\ turns \in 0..MaxTurns
      /\ WorkTyped /\ RowsTyped /\ UserTyped /\ LoopTyped
  BY DEF TypeInv
<1>c. /\ MaxPasses \in Nat /\ MaxRetries \in Nat /\ MaxTurns \in Nat
      /\ turns \in Nat /\ turns <= turns
  BY <1>0, PhaseConstants
<1>t. Turn => turns' \in 0..MaxTurns /\ turns' = turns + 1 /\ turns <= turns'
  BY <1>0, <1>c DEF Turn
<1>r. /\ row \in [Phases -> Row]
      /\ first \in [Phases -> {"none"} \cup Verdicts]
      /\ \A p \in Phases : /\ RowInv(p) /\ row[p] \in Row
                           /\ row[p].restarts \in Nat
                           /\ row[p].restarts <= MaxRetries + turns
  BY <1>0 DEF RowsTyped, RowInv, Row
<1>s. sched \in Sched /\ session \in Session /\ SchedInv /\ ~ NoSession.help
      /\ NoSession \in Session
  BY <1>0, IdleTyped DEF LoopTyped
<1>a. At("idle") => session = NoSession
  BY <1>s DEF SchedInv, InSession, At
<1>sys. ASSUME NEW p \in Phases, NEW status \in Statuses \ {"retry_await", "await_approval"},
               SetRow(p, System(p, status)), UNCHANGED << first, turns >>
        PROVE  RowsTyped'
  BY <1>0, <1>c, <1>r, <1>sys, RowSet, SystemRow
<1>w. TheWork => WorkTyped'
  BY <1>0, WorkStays
<1>u. TheUser => UserTyped'
  BY <1>0, UserStays
<1>ru. UNCHANGED << row, first >> /\ turns' \in Nat /\ turns <= turns' => RowsTyped'
  BY <1>0, <1>c, RowsStay
<1>k. UNCHANGED << row, first, turns >> => RowsTyped'
  BY <1>0, <1>c, <1>ru
<1>l. UNCHANGED << sched, session, turns >> /\ sched.at \notin {"filing", "advancing"}
      => LoopTyped'
  BY <1>0, <1>c, LoopStays
<1>q. ASSUME WorkTyped', RowsTyped', UserTyped', LoopTyped', turns' \in 0..MaxTurns
      PROVE  TypeInv'
  BY <1>q DEF TypeInv
<1>n. /\ \A p \in Proposals \cup Checks : p \in Phases
      /\ NoPhase \notin Phases
  BY PhaseNames

<1>1. ASSUME NEW p \in Phases, DispatchPhase(p) PROVE TypeInv'
  <2>1. /\ Started(p) \in Row /\ Started(p).status = "running"
        /\ Started(p).restarts <= MaxRetries + turns
    <3>1. /\ System(p, "running") \in Row /\ System(p, "running").status = "running"
          /\ System(p, "running").restarts = row[p].restarts
      BY <1>r, SystemRow DEF Statuses
    <3> DEFINE more == IF row[p].status = "retry_await" THEN 1 ELSE 0
    <3>2. /\ more \in Nat /\ row[p].restarts + more \in Nat
          /\ row[p].restarts + more <= MaxRetries + turns
      <4>1. CASE row[p].status = "retry_await"
        <5>1. row[p].restarts + 1 <= MaxRetries /\ more = 1
          BY <1>c, <1>r, <4>1 DEF RowInv
        <5> QED
          BY <1>c, <1>r, <5>1
      <4>2. CASE row[p].status # "retry_await"
        BY <1>c, <1>r, <4>2
      <4> QED
        BY <4>1, <4>2
    <3>3. Started(p) = [System(p, "running") EXCEPT
                           !.restarts = System(p, "running").restarts + more]
      BY <3>1 DEF Started, Row
    <3> HIDE DEF more
    <3>4. /\ Started(p) \in Row /\ Started(p).status = "running"
          /\ Started(p).restarts = row[p].restarts + more
      BY <3>1, <3>2, <3>3 DEF Row
    <3> QED
      BY <3>2, <3>4
  <2>2. RowsTyped'
    BY <1>0, <1>1, <1>c, <1>r, <2>1, RowSet DEF DispatchPhase
  <2>3. /\ sched'.at = "parked" /\ sched'.phase = p /\ sched' \in Sched
        /\ session' \in Session /\ session'.phase = p /\ ~ session'.help
    BY <1>1, <1>s DEF DispatchPhase, Begin, Sched, Places, Opened, Session, NoSession
  <2>4. LoopTyped'
    BY <2>3, LoopGoes DEF SchedInv, At, Reports, Restarting, InSession
  <2> QED
    BY <1>0, <1>1, <2>2, <2>4, <1>w, <1>u, <1>q DEF DispatchPhase
<1>2. ASSUME NEW p \in Phases, DispatchFails(p) PROVE TypeInv'
  <2> DEFINE status == IF row[p].status = "none" THEN "ready" ELSE row[p].status
  <2>1. /\ status \in Statuses \ {"await_approval"}
        /\ status = "retry_await" => row[p].status = "retry_await"
    BY <1>2, <1>r DEF DispatchFails, Dispatchable, Statuses, Row
  <2>2. SetRow(p, System(p, status)) /\ UNCHANGED first /\ Turn
    BY <1>2 DEF DispatchFails
  <2> HIDE DEF status
  <2>3. RowsTyped'
    <3>1. row[p].restarts <= MaxRetries + turns'
      BY <1>c, <1>r, <1>t, <2>2
    <3>2. status = "retry_await" => row[p].restarts < MaxRetries
      BY <1>r, <2>1 DEF RowInv
    <3>3. turns' \in Nat /\ turns <= turns'
      BY <1>c, <1>t, <2>2
    <3> QED
      BY <1>0, <1>c, <1>r, <2>1, <2>2, <3>1, <3>2, <3>3, RowSet, SystemRow
  <2>4. /\ sched'.at = "erroring" /\ sched'.phase = p /\ sched'.result = "permanent"
        /\ sched' \in Sched /\ session' = NoSession
    BY <1>2, <1>s, <1>a DEF DispatchFails, Sched, Places, Failures
  <2>5. LoopTyped'
    BY <2>4, <1>s, LoopGoes DEF SchedInv, At, Reports, Restarting, InSession, Failures
  <2> QED
    BY <1>2, <2>2, <2>3, <2>5, <1>t, <1>w, <1>u, <1>q DEF DispatchFails
<1>3. CASE RequestHelp
  <2>1. /\ InSession /\ session.phase \in Phases /\ Converses(session.phase)
        /\ session.phase = sched.phase /\ UNCHANGED sched
        /\ sched.at \notin {"filing", "advancing"}
    BY <1>3, <1>s DEF RequestHelp, SessionOnly, SchedInv, InSession, At, Reports
  <2>2. RowsTyped'
    <3> DEFINE new == [row[session.phase] EXCEPT !.status = "await_response",
                                                 !.payload = "help"]
    <3>1. /\ new \in Row /\ new.status = "await_response"
          /\ new.restarts = row[session.phase].restarts
      BY <1>r, <2>1 DEF Row, Statuses
    <3>2. /\ SetRow(session.phase, new) /\ UNCHANGED first
          /\ turns' \in Nat /\ turns <= turns' /\ new.restarts <= MaxRetries + turns'
      BY <1>3, <1>c, <1>r, <1>t, <2>1, <3>1 DEF RequestHelp, SessionOnly
    <3> HIDE DEF new
    <3> QED
      BY <1>0, <1>c, <1>r, <2>1, <3>1, <3>2, RowSet
  <2>3. /\ session' \in Session /\ session'.phase = session.phase
        /\ session' = [session EXCEPT !.help = TRUE]
    BY <1>3, <1>s DEF RequestHelp, Session
  <2>4. ASSUME sched.at \in Restarting
        PROVE  \A p \in Phases : sched.seen[p].restarts < MaxRetries + turns'
    <3>1. \A p \in Phases : /\ sched.seen[p].restarts \in Nat
                            /\ sched.seen[p].restarts < MaxRetries + turns
      BY <1>s, <2>4 DEF SchedInv, Row
    <3>2. turns' \in Nat /\ turns <= turns'
      BY <1>3, <1>c, <1>t DEF RequestHelp
    <3> QED
      BY <1>c, <3>1, <3>2
  <2>5. LoopTyped'
    BY <1>s, <2>1, <2>3, <2>4, LoopGoes DEF SchedInv, InSession, At
  <2> QED
    BY <1>3, <2>2, <2>5, <1>t, <1>w, <1>u, <1>q DEF RequestHelp, SessionOnly
<1>h. ASSUME NEW p \in Phases
      PROVE  /\ HelpResolved(row[p]) \in Row
             /\ HelpResolved(row[p]).restarts = row[p].restarts
             /\ HelpResolved(row[p]).owner = row[p].owner
             /\ \/ HelpResolved(row[p]).status = "running" /\ row[p].status = "await_response"
                \/ HelpResolved(row[p]) = row[p]
  BY <1>r DEF HelpResolved, Row, Statuses
<1>4. CASE AnswerHelp
  <2>1. /\ InSession /\ session.phase \in Phases
        /\ session.phase = sched.phase /\ UNCHANGED sched
        /\ sched.at \notin {"filing", "advancing"}
    BY <1>4, <1>s DEF AnswerHelp, SessionOnly, SchedInv, InSession, At, Reports
  <2>2. RowsTyped'
    BY <1>0, <1>4, <1>c, <1>r, <1>h, <2>1, RowSet DEF AnswerHelp, SessionOnly, RowInv
  <2>3. session' \in Session /\ session'.phase = session.phase /\ ~ session'.help
    BY <1>4, <1>s DEF AnswerHelp, Session
  <2>4. UNCHANGED turns
    BY <1>4 DEF AnswerHelp
  <2>5. LoopTyped'
    BY <1>s, <2>1, <2>3, <2>4, LoopGoes DEF SchedInv, InSession, At
  <2> QED
    BY <1>0, <1>4, <2>2, <2>5, <1>w, <1>u, <1>q DEF AnswerHelp, SessionOnly
<1>5. ASSUME NEW result \in {"ok", "bad", "transient", "permanent"}, SessionEnds(result)
      PROVE  TypeInv'
  <2> DEFINE p == session.phase
             left == IF session.help THEN HelpResolved(row[p]) ELSE row[p]
             new == IF Converses(p) THEN [left EXCEPT !.attention = "none"] ELSE left
  <2>1. p \in Phases /\ p = sched.phase /\ InSession
    BY <1>5, <1>s DEF SessionEnds, SchedInv, InSession, At, Reports
  <2>2. /\ left \in Row /\ left.restarts = row[p].restarts
        /\ \/ left.status = "running" /\ row[p].status = "await_response"
           \/ left = row[p]
    BY <1>r, <1>h, <2>1
  <2>3. /\ new \in Row /\ new.restarts = row[p].restarts
        /\ new.status = left.status /\ new.payload = left.payload
    BY <2>2 DEF Row
  <2>4. /\ SetRow(p, new) /\ UNCHANGED first
        /\ turns' \in 0..MaxTurns /\ turns <= turns'
    <3>1. Turn \/ UNCHANGED turns
      BY <1>5 DEF SessionEnds
    <3> QED
      BY <1>0, <1>5, <1>c, <1>t, <3>1 DEF SessionEnds
  <2> HIDE DEF new, left
  <2>5. RowsTyped'
    <3>1. new.restarts <= MaxRetries + turns' /\ turns' \in Nat
      BY <1>c, <1>r, <2>1, <2>3, <2>4
    <3>2. /\ new.status = "retry_await" => new.restarts < MaxRetries
          /\ new.status = "await_approval" =>
                p \in Proposals /\ new.payload \in {"agent", "draft"}
      BY <1>r, <2>1, <2>2, <2>3 DEF RowInv
    <3> QED
      BY <1>0, <1>c, <1>r, <2>1, <2>3, <2>4, <3>1, <3>2, RowSet
  <2>6. WorkTyped'
    <3>1. judged' \in [Checks -> 0..MaxPasses]
      BY <1>0, <1>5 DEF SessionEnds, WorkTyped
    <3> QED
      BY <1>0, <1>5, <3>1 DEF SessionEnds, WorkTyped
  <2>7. /\ session' = NoSession
        /\ sched' = [sched EXCEPT !.result = result, !.at = sched'.at]
        /\ sched'.at =
              CASE At("reparked") -> "recovered"
                [] At("parked") /\ result \in {"ok", "bad"} -> "ended"
                [] At("parked") /\ result \in {"transient", "permanent"} /\ Standing
                      -> "erroring"
                [] OTHER -> "idle"
    BY <1>5, <1>s DEF SessionEnds, Sched
  <2>8. /\ sched'.at \in {"recovered", "ended", "erroring", "idle"}
        /\ sched'.at = "recovered" => At("reparked")
        /\ sched'.at = "ended" => result \in Verdicts
        /\ sched'.at = "erroring" => result \in Failures
    BY <2>1, <2>7 DEF Verdicts, Failures, InSession, At
  <2>9. /\ sched' \in Sched /\ sched'.result = result /\ sched'.phase = sched.phase
        /\ sched'.next = sched.next /\ sched'.seen = sched.seen
    <3>1. sched'.at \in Places
      BY <2>8 DEF Places
    <3>2. result \in Verdicts \cup Failures \cup {"none"}
      BY DEF Verdicts, Failures
    <3> QED
      BY <1>s, <2>7, <3>1, <3>2 DEF Sched
  <2>10. ASSUME At("reparked")
         PROVE  /\ sched.seen \in [Phases -> Row] /\ sched.next \in 1..7
                /\ \A q \in Phases : sched.seen[q].restarts < MaxRetries + turns'
                /\ sched.phase = PhaseOrder[sched.next]
    <3>1. \A q \in Phases : /\ sched.seen[q].restarts \in Nat
                            /\ sched.seen[q].restarts < MaxRetries + turns
      BY <1>s, <2>10 DEF SchedInv, Row, At, Restarting
    <3>2. turns' \in Nat
      BY <1>c, <2>4
    <3> QED
      BY <1>c, <1>s, <2>4, <2>10, <3>1, <3>2 DEF SchedInv, At, Restarting
  <2>11. SchedInv'
    <3>1. sched'.phase \in Phases /\ sched'.at \notin {"filing", "advancing"}
      BY <2>1, <2>8, <2>9
    <3>2. ASSUME sched'.at = "recovered"
          PROVE  /\ sched'.seen \in [Phases -> Row] /\ sched'.next \in 1..7
                 /\ \A q \in Phases : sched'.seen[q].restarts < MaxRetries + turns'
                 /\ sched'.phase = PhaseOrder[sched'.next]
      BY <2>8, <2>9, <2>10, <3>2
    <3> QED
      BY <2>7, <2>8, <2>9, <3>1, <3>2 DEF SchedInv, InSession, At, Reports, Restarting
  <2>12. LoopTyped'
    BY <1>s, <2>7, <2>9, <2>11, LoopGoes
  <2> QED
    BY <1>5, <2>4, <2>5, <2>6, <2>12, <1>u, <1>q DEF SessionEnds
<1>6. CASE ReportWritesRow
  <2> DEFINE p == sched.phase
  <2>1. /\ p \in Phases /\ sched.at = "ended" /\ sched.result \in Verdicts
        /\ session = NoSession /\ UNCHANGED << feature, first, session, turns >>
    BY <1>6, <1>s DEF ReportWritesRow, TheWork, SchedInv, At, Reports, InSession
  <2>2. CASE p \in Proposals
    <3>1. /\ AwaitingApproval(p) \in Row /\ AwaitingApproval(p).status = "await_approval"
          /\ AwaitingApproval(p).payload = "agent"
          /\ AwaitingApproval(p).restarts = row[p].restarts
      BY <1>r, <2>1 DEF AwaitingApproval, Row, Statuses
    <3>2. SetRow(p, AwaitingApproval(p)) /\ Goto("filing")
      BY <1>6, <2>2 DEF ReportWritesRow
    <3>3. RowsTyped'
      BY <1>0, <1>c, <1>r, <2>1, <2>2, <3>1, <3>2, RowSet
    <3>4. /\ sched' \in Sched /\ sched'.at = "filing" /\ sched'.phase = p
          /\ sched'.result = sched.result
      BY <1>s, <3>2 DEF Goto, Sched, Places
    <3>5. LoopTyped'
      BY <1>s, <2>1, <2>2, <3>4, LoopGoes
      DEF SchedInv, At, Reports, Restarting, InSession
    <3> QED
      BY <1>6, <1>0, <2>1, <3>3, <3>5, <1>w, <1>u, <1>q DEF ReportWritesRow
  <2>3. CASE p \notin Proposals /\ Standing
    <3>1. SetRow(p, System(p, "completed")) /\ Goto("filing")
      BY <1>6, <2>3 DEF ReportWritesRow
    <3>2. RowsTyped'
      BY <1>sys, <2>1, <3>1 DEF Statuses
    <3>3. /\ sched' \in Sched /\ sched'.at = "filing" /\ sched'.phase = p
          /\ sched'.result = sched.result
      BY <1>s, <3>1 DEF Goto, Sched, Places
    <3>4. LoopTyped'
      BY <1>s, <2>1, <2>3, <3>3, LoopGoes
      DEF SchedInv, At, Reports, Restarting, InSession, Standing
    <3> QED
      BY <1>6, <1>0, <2>1, <3>2, <3>4, <1>w, <1>u, <1>q DEF ReportWritesRow
  <2>4. CASE p \notin Proposals /\ ~ Standing
    <3>1. SetRow(p, System(p, "running")) /\ EndTick
      BY <1>6, <2>4 DEF ReportWritesRow
    <3>2. RowsTyped' /\ LoopTyped'
      BY <1>sys, <2>1, <3>1, LoopRests DEF Statuses, EndTick
    <3> QED
      BY <1>6, <1>0, <2>1, <3>2, <1>w, <1>u, <1>q DEF ReportWritesRow
  <2> QED
    BY <2>2, <2>3, <2>4
<1>7. CASE ReportWritesEvent
  <2> DEFINE p == sched.phase
  <2>1. /\ p \in Phases /\ sched.at = "filing" /\ sched.result \in Verdicts
        /\ session = NoSession /\ UNCHANGED << row, session, turns >>
        /\ first' = Filed(p, sched.result)
    BY <1>7, <1>s DEF ReportWritesEvent, SchedInv, At, Reports, InSession
  <2>2. RowsTyped'
    BY <1>0, <2>1, FiledTyped DEF RowsTyped, RowInv
  <2>3. LoopTyped'
    <3>1. CASE p \in Proposals
      BY <1>7, <2>1, <3>1, LoopRests DEF ReportWritesEvent, EndTick
    <3>2. CASE p \notin Proposals
      <4>1. /\ sched' \in Sched /\ sched'.at = "advancing" /\ sched'.phase = p
            /\ sched'.result = sched.result /\ UNCHANGED feature
        BY <1>7, <1>s, <3>2 DEF ReportWritesEvent, Goto, Sched, Places, TheWork
      <4>2. Standing
        BY <1>s, <2>1, <3>2 DEF SchedInv, At
      <4> QED
        BY <1>s, <2>1, <3>2, <4>1, <4>2, LoopGoes
        DEF SchedInv, At, Reports, Restarting, InSession, Standing
    <3> QED
      BY <3>1, <3>2
  <2> QED
    BY <1>7, <1>0, <2>1, <2>2, <2>3, <1>w, <1>u, <1>q DEF ReportWritesEvent
<1>8. CASE ReportAdvances
  <2>1. /\ sched.phase \in Phases /\ sched.at = "advancing" /\ session = NoSession
        /\ UNCHANGED << pass, judged, row, first, session, turns >>
        /\ sched' = SchedIdle /\ feature' = After(sched.phase, sched.result)
    BY <1>8, <1>s DEF ReportAdvances, SchedInv, At, Reports, InSession, EndTick
  <2>2. WorkTyped'
    BY <1>0, <2>1, AfterTyped DEF WorkTyped
  <2>3. RowsTyped' /\ LoopTyped'
    BY <1>k, <2>1, LoopRests
  <2> QED
    BY <1>8, <1>0, <2>1, <2>2, <2>3, <1>u, <1>q DEF ReportAdvances
<1>9. CASE HandleError
  <2> DEFINE p == sched.phase
  <2>1. /\ p \in Phases /\ sched.at = "erroring" /\ session = NoSession
        /\ sched' = SchedIdle /\ UNCHANGED << first, session, turns >>
    BY <1>9, <1>s DEF HandleError, SchedInv, At, InSession, EndTick
  <2>2. RowsTyped'
    <3>1. CASE Retries(sched.result, row[p])
      <4>1. /\ SetRow(p, System(p, "retry_await")) /\ row[p].restarts < MaxRetries
        BY <1>9, <3>1 DEF HandleError, Retries
      <4>2. "retry_await" \in Statuses
        BY DEF Statuses
      <4> QED
        BY <1>0, <1>c, <1>r, <2>1, <4>1, <4>2, RowSet, SystemRow
    <3>2. CASE ~ Retries(sched.result, row[p])
      <4>1. SetRow(p, System(p, "failed"))
        BY <1>9, <3>2 DEF HandleError
      <4> QED
        BY <1>sys, <2>1, <4>1 DEF Statuses
    <3> QED
      BY <3>1, <3>2
  <2>3. LoopTyped'
    BY <2>1, LoopRests
  <2> QED
    BY <1>9, <1>0, <2>1, <2>2, <2>3, <1>w, <1>u, <1>q DEF HandleError

<1>v. ASSUME NEW kind, Handle(kind)
      PROVE  /\ sched.at = "idle" /\ session = NoSession
             /\ Request \in Requested /\ queue' \in Seq(Requested)
  <2>1. queue \in Seq(Requested) /\ queue # <<>>
    BY <1>0, <1>v DEF Handle, UserTyped
  <2>2. Head(queue) \in Requested /\ Tail(queue) \in Seq(Requested)
    BY <2>1
  <2> QED
    BY <1>v, <1>a, <2>2 DEF Handle, At, Request
<1>vu. ASSUME queue' \in Seq(Requested), UNCHANGED << draft, auto >> PROVE UserTyped'
  BY <1>0, <1>vu DEF UserTyped
<1>10. CASE DropRequest
  <2>1. /\ sched.at = "idle" /\ queue' \in Seq(Requested)
        /\ UNCHANGED << row, first, session, sched, draft, auto, turns >>
    BY <1>10, <1>v DEF DropRequest
  <2> QED
    BY <1>10, <1>0, <2>1, <1>w, <1>vu, <1>k, <1>l, <1>q DEF DropRequest, At
<1>11. CASE HandleRerun
  <2>1. /\ sched.at = "idle" /\ queue' \in Seq(Requested) /\ session = NoSession
        /\ Request.phase \in Proposals
        /\ sched' = [sched EXCEPT !.at = "deleting", !.phase = Request.phase]
        /\ UNCHANGED << row, first, session, draft, auto, turns >>
    BY <1>11, <1>v DEF HandleRerun, Requested
  <2>2. sched' \in Sched /\ sched'.at = "deleting" /\ sched'.phase \in Proposals
    BY <1>s, <1>n, <2>1 DEF Sched, Places
  <2>3. LoopTyped'
    BY <1>s, <2>1, <2>2, LoopGoes DEF SchedInv, At, Reports, Restarting, InSession
  <2> QED
    BY <1>11, <1>0, <2>1, <2>3, <1>w, <1>vu, <1>k, <1>q DEF HandleRerun
<1>12. CASE RerunReady
  <2> DEFINE p == sched.phase
             new == [System(p, "ready") EXCEPT !.payload = "none"]
  <2>1. /\ p \in Phases /\ session = NoSession /\ SetRow(p, new)
        /\ sched' = SchedIdle /\ UNCHANGED << first, session, turns >>
    BY <1>12, <1>s, <1>n DEF RerunReady, SchedInv, At, InSession, EndTick
  <2>2. System(p, "ready") \in Row /\ System(p, "ready").restarts = row[p].restarts
        /\ System(p, "ready").status = "ready"
    BY <1>r, <2>1, SystemRow DEF Statuses
  <2>3. new \in Row /\ new.restarts = row[p].restarts /\ new.status = "ready"
    BY <2>2 DEF Row
  <2> HIDE DEF new
  <2>4. RowsTyped'
    BY <1>0, <1>c, <1>r, <2>1, <2>3, RowSet
  <2>5. LoopTyped'
    BY <2>1, LoopRests
  <2> QED
    BY <1>12, <1>0, <2>1, <2>4, <2>5, <1>w, <1>u, <1>q DEF RerunReady
<1>d. ASSUME NEW p \in Phases, NEW owner \in {"system", "manual"}, SetRow(p, Decided(p, owner)),
             UNCHANGED << first, turns >>
      PROVE  RowsTyped'
  <2>1. /\ Decided(p, owner) \in Row /\ Decided(p, owner).status = "completed"
        /\ Decided(p, owner).restarts = row[p].restarts
    BY <1>r DEF Decided, Row, Statuses
  <2> QED
    BY <1>0, <1>c, <1>d, <1>r, <2>1, RowSet
<1>13. CASE HandleReject
  <2>1. /\ sched.at = "idle" /\ queue' \in Seq(Requested) /\ Request.phase \in Phases
        /\ SetRow(Request.phase, Decided(Request.phase, "manual"))
        /\ UNCHANGED << first, session, sched, draft, auto, turns >>
    BY <1>13, <1>n, <1>v DEF HandleReject, Requested
  <2> QED
    BY <1>13, <1>0, <2>1, <1>d, <1>w, <1>vu, <1>l, <1>q DEF HandleReject, At
<1>14. ASSUME NEW outcome \in {"advances", "stays", "empty", "throws"}, HandleApprove(outcome)
       PROVE  TypeInv'
  <2> DEFINE p == Request.phase
  <2>1. /\ sched.at = "idle" /\ queue' \in Seq(Requested) /\ p \in Proposals /\ p \in Phases
        /\ session = NoSession
        /\ UNCHANGED << pass, judged, first, session, draft, auto, turns >>
    BY <1>14, <1>n, <1>v DEF HandleApprove, Requested
  <2>2. UserTyped'
    BY <1>vu, <2>1
  <2>3. CASE outcome = "advances"
    <3>1. /\ sched' = [sched EXCEPT !.at = "branching", !.phase = p]
          /\ UNCHANGED << feature, row >>
      BY <1>14, <2>3 DEF HandleApprove
    <3>2. sched' \in Sched /\ sched'.at = "branching" /\ sched'.phase \in Proposals
      BY <1>s, <2>1, <3>1 DEF Sched, Places
    <3>3. LoopTyped'
      BY <1>s, <2>1, <3>2, LoopGoes DEF SchedInv, At, Reports, Restarting, InSession
    <3>4. WorkTyped'
      BY <1>0, <2>1, <3>1 DEF WorkTyped
    <3> QED
      BY <1>0, <2>1, <2>2, <3>1, <3>3, <3>4, <1>k, <1>q
  <2>4. CASE outcome # "advances"
    <3>1. \E owner \in {"system", "manual"} : SetRow(p, Decided(p, owner))
      BY <1>14, <2>4 DEF HandleApprove
    <3>2. UNCHANGED sched
      BY <1>14, <2>4 DEF HandleApprove
    <3>3. feature' = feature \/ feature' = [feature EXCEPT !.collab = "cancelled"]
      BY <1>14, <2>4 DEF HandleApprove
    <3>4. WorkTyped'
      BY <1>0, <2>1, <3>3 DEF WorkTyped, CollabControl
    <3>5. RowsTyped' /\ LoopTyped'
      BY <1>d, <1>l, <2>1, <3>1, <3>2 DEF At
    <3> QED
      BY <1>0, <2>1, <2>2, <3>4, <3>5, <1>q
  <2> QED
    BY <2>3, <2>4
<1>15. CASE AdvanceApproved
  <2> DEFINE p == sched.phase
  <2>1. /\ p \in Proposals /\ p \in Phases /\ session = NoSession /\ sched.at = "branching"
        /\ UNCHANGED << pass, judged, first, session, turns >>
    BY <1>15, <1>n, <1>s DEF AdvanceApproved, SchedInv, At, InSession
  <2>2. CASE Standing /\ In(p)
    <3>1. /\ feature' = [work |-> "executing", collab |-> "branch_open"]
          /\ Goto("deciding") /\ UNCHANGED row
      BY <1>15, <2>2 DEF AdvanceApproved
    <3>2. WorkTyped'
      BY <1>0, <2>1, <3>1 DEF WorkTyped, WorkControl, CollabControl
    <3>3. sched' \in Sched /\ sched'.at = "deciding" /\ sched'.phase = p
      BY <1>s, <3>1 DEF Goto, Sched, Places
    <3>4. LoopTyped'
      BY <1>s, <2>1, <3>3, LoopGoes DEF SchedInv, At, Reports, Restarting, InSession
    <3> QED
      BY <1>15, <1>0, <2>1, <3>1, <3>2, <3>4, <1>k, <1>u, <1>q DEF AdvanceApproved
  <2>3. CASE ~ (Standing /\ In(p))
    <3>1. SetRow(p, Decided(p, "manual")) /\ EndTick /\ UNCHANGED feature
      BY <1>15, <2>3 DEF AdvanceApproved
    <3>2. WorkTyped'
      BY <1>0, <2>1, <3>1 DEF WorkTyped
    <3>3. RowsTyped' /\ LoopTyped'
      BY <1>d, <2>1, <3>1, LoopRests DEF EndTick
    <3> QED
      BY <1>15, <1>0, <2>1, <3>2, <3>3, <1>u, <1>q DEF AdvanceApproved
  <2> QED
    BY <2>2, <2>3
<1>16. CASE DecideApproved
  <2>1. /\ sched.phase \in Phases /\ session = NoSession /\ sched' = SchedIdle
        /\ SetRow(sched.phase, Decided(sched.phase, "system"))
        /\ UNCHANGED << first, session, turns >>
    BY <1>16, <1>n, <1>s DEF DecideApproved, SchedInv, At, InSession, EndTick
  <2>2. RowsTyped' /\ LoopTyped'
    BY <1>d, <2>1, LoopRests
  <2> QED
    BY <1>16, <1>0, <2>1, <2>2, <1>w, <1>u, <1>q DEF DecideApproved

<1>rec. ASSUME sched.at \in Restarting
        PROVE  /\ sched.seen \in [Phases -> Row] /\ sched.next \in 1..8
               /\ \A p \in Phases : /\ sched.seen[p] \in Row
                                    /\ sched.seen[p].restarts \in Nat
                                    /\ sched.seen[p].restarts < MaxRetries + turns
  BY <1>rec, <1>s DEF SchedInv, Row
<1>nx. ASSUME sched.at \in Restarting, sched.next \in 1..7, NextRow, session' = NoSession,
              UNCHANGED turns
       PROVE  LoopTyped'
  <2>1. /\ sched' \in Sched /\ sched'.at = "recovering" /\ sched'.next \in 1..8
        /\ sched'.seen = sched.seen
    <3>1. sched.next + 1 \in 1..8 /\ sched.next + 1 \in 0..8
      BY <1>nx
    <3>2. sched' = [sched EXCEPT !.at = "recovering", !.next = sched.next + 1,
                                 !.phase = NoPhase, !.result = "none"]
      BY <1>nx, <1>s DEF NextRow, Sched
    <3>3. "recovering" \in Places
      BY DEF Places
    <3> QED
      BY <1>s, <3>1, <3>2, <3>3 DEF Sched
  <2> QED
    BY <1>nx, <1>rec, <1>s, <2>1, LoopGoes DEF SchedInv, At, Reports, Restarting, InSession
<1>rv. ASSUME NEW p \in Phases, Reviewing(p)
       PROVE  /\ sched.at = "recovering" /\ sched.at \in Restarting /\ session = NoSession
              /\ sched.next \in 1..7 /\ p = PhaseOrder[sched.next]
              /\ Reviewed = sched.seen[p] /\ Reviewed \in Row
  <2>1. /\ sched.at = "recovering" /\ sched.next <= 7 /\ p = PhaseOrder[sched.next]
        /\ Reviewed = sched.seen[p]
    BY <1>rv, PhaseNames DEF Reviewing, At, Reviewed
  <2>2. session = NoSession
    BY <1>s, <2>1 DEF SchedInv, At, InSession
  <2> QED
    BY <1>rec, <2>1, <2>2 DEF Restarting
<1>17. ASSUME NEW p \in Phases, RecoverRow(p) PROVE TypeInv'
  <2>1. /\ Reviewing(p) /\ SetRow(p, Recovered(p)) /\ NextRow /\ RecoveryOnly
        /\ first' = first \/ first' = Filed(p, "ok")
        /\ UNCHANGED << feature, session, turns >>
    BY <1>17 DEF RecoverRow
  <2>2. /\ Recovered(p) \in Row /\ Recovered(p).restarts = row[p].restarts
        /\ \/ Recovered(p).status \in {"ready", "cancelled"}
           \/ Recovered(p) = row[p]
    <3>1. /\ System(p, "ready") \in Row /\ System(p, "ready").restarts = row[p].restarts
          /\ System(p, "cancelled") \in Row
          /\ System(p, "cancelled").restarts = row[p].restarts
          /\ System(p, "ready").status = "ready" /\ System(p, "cancelled").status = "cancelled"
      BY <1>r, SystemRow DEF Statuses
    <3>2. LET new == [System(p, "ready") EXCEPT !.payload = "none"]
          IN  new \in Row /\ new.restarts = row[p].restarts /\ new.status = "ready"
      BY <3>1 DEF Row
    <3>3. LET new == [row[p] EXCEPT !.status = "ready", !.owner = "system",
                                    !.attention = "none", !.payload = "none"]
          IN  new \in Row /\ new.restarts = row[p].restarts /\ new.status = "ready"
      BY <1>r DEF Row, Statuses
    <3> QED
      BY <1>r, <3>1, <3>2, <3>3 DEF Recovered
  <2>3. first' \in [Phases -> {"none"} \cup Verdicts]
    BY <1>0, <1>r, <2>1, FiledTyped DEF Verdicts
  <2>4. RowsTyped'
    <3>1. /\ Recovered(p).status = "retry_await" => Recovered(p).restarts < MaxRetries
          /\ Recovered(p).status = "await_approval" =>
                p \in Proposals /\ Recovered(p).payload \in {"agent", "draft"}
      BY <1>r, <2>2 DEF RowInv
    <3> QED
      BY <1>0, <1>c, <1>r, <2>1, <2>2, <2>3, <3>1, RowSet
  <2>5. LoopTyped'
    BY <1>rv, <1>nx, <2>1
  <2>6. WorkTyped' /\ UserTyped'
    BY <1>0, <1>u, <2>1 DEF WorkTyped, RecoveryOnly
  <2> QED
    BY <1>0, <2>1, <2>4, <2>5, <2>6, <1>q
<1>18. ASSUME NEW p \in Phases, RecoverReplays(p) PROVE TypeInv'
  <2>1. /\ Reviewing(p) /\ feature' = After(p, first[p]) /\ NextRow /\ RecoveryOnly
        /\ UNCHANGED << row, first, session, turns >>
    BY <1>18 DEF RecoverReplays
  <2>2. LoopTyped'
    BY <1>rv, <1>nx, <2>1
  <2>3. WorkTyped' /\ UserTyped'
    BY <1>0, <1>u, <2>1, AfterTyped DEF WorkTyped, RecoveryOnly
  <2> QED
    BY <1>0, <2>1, <2>2, <2>3, <1>k, <1>q
<1>19. ASSUME NEW p \in Phases, RecoverDispatches(p) PROVE TypeInv'
  <2>1. /\ Reviewing(p) /\ Begin(p, "reparked") /\ RecoveryOnly
        /\ UNCHANGED << feature, row, first, turns >>
    BY <1>19 DEF RecoverDispatches
  <2>2. /\ sched'.at = "reparked" /\ sched'.phase = p /\ sched' \in Sched
        /\ sched'.seen = sched.seen /\ sched'.next = sched.next
        /\ session' \in Session /\ session'.phase = p /\ ~ session'.help
    BY <1>s, <2>1 DEF Begin, Sched, Places, Opened, Session, NoSession
  <2>3. LoopTyped'
    BY <1>rv, <1>rec, <2>1, <2>2, LoopGoes DEF SchedInv, At, Reports, Restarting, InSession
  <2>4. WorkTyped' /\ UserTyped'
    BY <1>0, <1>u, <2>1 DEF WorkTyped, RecoveryOnly
  <2> QED
    BY <1>0, <2>1, <2>3, <2>4, <1>k, <1>q
<1>rd. ASSUME sched.at = "recovered"
       PROVE  /\ sched.at \in Restarting /\ session = NoSession
              /\ sched.next \in 1..7 /\ sched.phase \in Phases
              /\ Reviewed = sched.seen[sched.phase]
  BY <1>rd, <1>s DEF SchedInv, At, Restarting, InSession, Reviewed
<1>20. CASE RecoverReports
  <2> DEFINE p == sched.phase
             counted == [row[p] EXCEPT !.restarts = Reviewed.restarts + 1]
             asked == [counted EXCEPT !.status = "await_approval", !.owner = "manual",
                                      !.payload = "agent"]
             done == [counted EXCEPT !.status = "completed", !.owner = "system"]
             new == IF p \in Proposals THEN asked ELSE done
  <2>1. /\ sched.at = "recovered" /\ sched.result \in Verdicts
        /\ SetRow(p, new) /\ first' = Filed(p, sched.result)
        /\ feature' = feature \/ feature' = After(p, sched.result)
        /\ NextRow /\ RecoveryOnly /\ UNCHANGED << session, turns >>
    BY <1>20 DEF RecoverReports, At, Verdicts
  <2>2. /\ p \in Phases /\ Reviewed.restarts + 1 \in Nat
        /\ Reviewed.restarts + 1 <= MaxRetries + turns
    BY <1>c, <1>rd, <1>rec, <2>1
  <2>3. counted \in Row /\ counted.restarts = Reviewed.restarts + 1
    BY <1>r, <2>2 DEF Row
  <2> HIDE DEF counted
  <2>4. /\ asked \in Row /\ asked.restarts = counted.restarts
        /\ asked.status = "await_approval" /\ asked.payload = "agent"
        /\ done \in Row /\ done.restarts = counted.restarts /\ done.status = "completed"
    BY <2>3 DEF Row, Statuses
  <2> HIDE DEF asked, done
  <2>5. /\ new \in Row /\ new.restarts <= MaxRetries + turns
        /\ new.status = "await_approval" => p \in Proposals /\ new.payload = "agent"
        /\ new.status # "retry_await"
    BY <2>2, <2>3, <2>4
  <2> HIDE DEF new
  <2>6. RowsTyped'
    BY <1>0, <1>c, <2>1, <2>2, <2>5, RowSet, FiledTyped
  <2>7. LoopTyped'
    BY <1>rd, <1>nx, <2>1
  <2>8. WorkTyped' /\ UserTyped'
    BY <1>0, <1>u, <2>1, <2>2, AfterTyped DEF WorkTyped, RecoveryOnly
  <2> QED
    BY <1>0, <2>1, <2>6, <2>7, <2>8, <1>q
<1>21. CASE RecoveryDies
  <2> DEFINE p == sched.phase
             new == IF sched.result \in {"ok", "bad"} THEN System(p, "completed") ELSE row[p]
  <2>1. /\ sched.at = "recovered" /\ SetRow(p, new) /\ Goto("down") /\ RecoveryOnly
        /\ UNCHANGED << feature, first, session, turns >>
    BY <1>21 DEF RecoveryDies, At
  <2>2. p \in Phases /\ session = NoSession
    BY <1>rd, <2>1
  <2>3. /\ new \in Row /\ new.restarts = row[p].restarts
        /\ new = row[p] \/ new.status = "completed"
    BY <1>r, <2>2, SystemRow DEF Statuses
  <2> HIDE DEF new
  <2>4. RowsTyped'
    BY <1>0, <1>c, <1>r, <2>1, <2>2, <2>3, RowSet DEF RowInv
  <2>5. sched' \in Sched /\ sched'.at = "down"
    BY <1>s, <2>1 DEF Goto, Sched, Places
  <2>6. LoopTyped'
    BY <1>s, <2>1, <2>2, <2>5, LoopGoes DEF SchedInv, At, Reports, Restarting, InSession
  <2>7. WorkTyped' /\ UserTyped'
    BY <1>0, <1>u, <2>1 DEF WorkTyped, RecoveryOnly
  <2> QED
    BY <1>0, <2>1, <2>4, <2>6, <2>7, <1>q
<1>22. CASE RecoveryDone
  <2>1. /\ sched.at = "recovering" /\ sched' = SchedIdle /\ RecoveryOnly
        /\ UNCHANGED << feature, row, first, session, turns >>
    BY <1>22 DEF RecoveryDone, At, EndTick
  <2>2. session = NoSession
    BY <1>s, <2>1 DEF SchedInv, At, InSession
  <2>3. WorkTyped' /\ UserTyped'
    BY <1>0, <1>u, <2>1 DEF WorkTyped, RecoveryOnly
  <2> QED
    BY <1>0, <2>1, <2>2, <2>3, <1>k, LoopRests, <1>q

<1>23. CASE OtherEvents
  <2>1. /\ OtherEvent
        /\ feature' \in [work : WorkControl, collab : CollabControl]
        /\ pass' \in 0..MaxPasses
    <3>1. feature \in [work : WorkControl, collab : CollabControl] /\ pass \in 0..MaxPasses
      BY <1>0 DEF WorkTyped
    <3>2. CASE TasksLand
      BY <1>c, <3>1, <3>2 DEF TasksLand, WorkControl
    <3>3. CASE TasksFail
      BY <3>1, <3>3 DEF TasksFail, WorkControl
    <3>4. CASE IntegrationFails
      BY <3>1, <3>4 DEF IntegrationFails, WorkControl, CollabControl
    <3>5. CASE \E summary \in BOOLEAN : FeatureLands(summary)
      BY <3>1, <3>5 DEF FeatureLands, WorkControl, CollabControl
    <3> QED
      BY <1>23, <3>2, <3>3, <3>4, <3>5 DEF OtherEvents
  <2>2. /\ sched.at = "idle" /\ TheUser
        /\ UNCHANGED << judged, row, first, session, sched, turns >>
    BY <2>1 DEF OtherEvent, At
  <2>3. WorkTyped'
    BY <1>0, <2>1, <2>2 DEF WorkTyped
  <2> QED
    BY <1>0, <1>k, <1>l, <1>u, <1>q, <2>2, <2>3

<1>hd. Heard => sched.at \notin {"filing", "advancing"}
  BY DEF Heard
<1>op. Operator /\ UNCHANGED feature => WorkTyped'
  BY <1>0 DEF Operator, WorkTyped
<1>lt. ASSUME Heard, UNCHANGED << sched, session >>, UNCHANGED turns \/ Turn
       PROVE  LoopTyped'
  <2>1. turns \in Nat /\ turns' \in Nat /\ turns <= turns'
    BY <1>lt, <1>c, <1>t
  <2> QED
    BY <1>0, <1>lt, <1>hd, <2>1, LoopStays
<1>24. ASSUME NEW p \in Proposals, NEW k \in {"approve", "reject", "rerun"}, Ask(k, p)
       PROVE  TypeInv'
  <2>1. /\ Heard /\ Operator /\ queue' = Append(queue, [kind |-> k, phase |-> p])
        /\ UNCHANGED << feature, row, session, sched, draft, auto, turns >>
    BY <1>24 DEF Ask
  <2>2. [kind |-> k, phase |-> p] \in Requested /\ queue \in Seq(Requested)
    BY <1>0 DEF Requested, UserTyped
  <2>3. queue' \in Seq(Requested)
    BY <2>1, <2>2
  <2>4. UNCHANGED first
    BY <2>1 DEF Operator
  <2> QED
    BY <1>0, <2>1, <2>3, <2>4, <1>k, <1>lt, <1>op, <1>vu, <1>q
<1>25. ASSUME NEW p \in Proposals, Attach(p) PROVE TypeInv'
  <2> DEFINE new == [row[p] EXCEPT !.owner = "manual", !.attention = "operator"]
  <2>1. /\ Heard /\ Operator /\ Turn /\ SetRow(p, new)
        /\ UNCHANGED << feature, session, sched, queue, draft, auto >>
        /\ row[p].status \in {"running", "await_response"}
    BY <1>25 DEF Attach
  <2>2. p \in Phases /\ UNCHANGED first
    BY <1>n, <2>1 DEF Operator
  <2>3. new \in Row /\ new.restarts = row[p].restarts /\ new.status = row[p].status
    BY <1>r, <2>2 DEF Row
  <2> HIDE DEF new
  <2>4. /\ turns' \in Nat /\ turns <= turns' /\ turns' \in 0..MaxTurns
        /\ new.restarts <= MaxRetries + turns'
    BY <1>c, <1>r, <1>t, <2>1, <2>2, <2>3
  <2>5. RowsTyped'
    BY <1>0, <1>c, <1>r, <2>1, <2>2, <2>3, <2>4, RowSet
  <2>6. UserTyped'
    BY <1>0, <2>1 DEF UserTyped
  <2> QED
    BY <2>1, <2>4, <2>5, <2>6, <1>lt, <1>op, <1>q
<1>26. ASSUME NEW p \in Proposals, Release(p) PROVE TypeInv'
  <2> DEFINE new == [row[p] EXCEPT !.owner = "system", !.attention = "none"]
  <2>1. /\ Heard /\ Operator /\ SetRow(p, new)
        /\ UNCHANGED << feature, session, sched, queue, draft, auto, turns >>
    BY <1>26 DEF Release
  <2>2. p \in Phases /\ UNCHANGED first
    BY <1>n, <2>1 DEF Operator
  <2>3. /\ new \in Row /\ new.restarts = row[p].restarts /\ new.status = row[p].status
        /\ new.payload = row[p].payload
    BY <1>r, <2>2 DEF Row
  <2> HIDE DEF new
  <2>5. RowsTyped'
    BY <1>0, <1>c, <1>r, <2>1, <2>2, <2>3, RowSet DEF RowInv
  <2>6. UserTyped'
    BY <1>0, <2>1 DEF UserTyped
  <2> QED
    BY <1>0, <2>1, <2>5, <2>6, <1>lt, <1>op, <1>q
<1>27. ASSUME NEW p \in Proposals, OpenDraft(p) PROVE TypeInv'
  <2>1. /\ Heard /\ Operator /\ Turn /\ draft' = p
        /\ auto' = [on |-> FALSE, before |-> auto.on]
        /\ UNCHANGED << feature, row, session, sched, queue >>
    BY <1>27 DEF OpenDraft
  <2>2. UserTyped'
    BY <1>0, <2>1 DEF UserTyped
  <2>3. turns' \in Nat /\ turns <= turns' /\ turns' \in 0..MaxTurns /\ UNCHANGED first
    BY <1>c, <1>t, <2>1 DEF Operator
  <2> QED
    BY <2>1, <2>2, <2>3, <1>ru, <1>lt, <1>op, <1>q
<1>cd. CloseDraft /\ UNCHANGED queue => UserTyped'
  BY <1>0 DEF CloseDraft, UserTyped, Proposals, NoPhase
<1>28. CASE SubmitDraft
  <2> DEFINE new == [status |-> "await_approval", owner |-> "manual", attention |-> "none",
                     restarts |-> 0, payload |-> "draft"]
  <2>1. /\ Heard /\ Operator /\ CloseDraft /\ SetRow(draft, new) /\ draft # NoPhase
        /\ UNCHANGED << feature, session, sched, queue, turns >>
    BY <1>28 DEF SubmitDraft
  <2>2. draft \in Proposals /\ draft \in Phases /\ UNCHANGED first
    BY <1>0, <1>n, <2>1 DEF Operator, UserTyped
  <2>3. /\ new \in Row /\ new.status = "await_approval"
        /\ new.payload = "draft" /\ new.restarts = 0
    BY DEF Row, Statuses
  <2> HIDE DEF new
  <2>4. RowsTyped'
    BY <1>0, <1>c, <1>r, <2>1, <2>2, <2>3, RowSet
  <2> QED
    BY <1>0, <2>1, <2>4, <1>cd, <1>lt, <1>op, <1>q
<1>29. CASE DiscardDraft
  <2>1. /\ Heard /\ Operator /\ CloseDraft
        /\ UNCHANGED << feature, row, session, sched, queue, turns >>
    BY <1>29 DEF DiscardDraft
  <2>2. UNCHANGED first
    BY <2>1 DEF Operator
  <2> QED
    BY <1>0, <2>1, <2>2, <1>cd, <1>k, <1>lt, <1>op, <1>q
<1>30. CASE CancelPhases
  <2>1. /\ Heard /\ Operator /\ Turn
        /\ feature' = [feature EXCEPT !.collab = "cancelled"]
        /\ session' = Aborted
        /\ UNCHANGED << sched, queue, draft, auto >>
    BY <1>30 DEF CancelPhases
  <2>2. /\ row' = [p \in Phases |->
                     IF row[p].status = "none" THEN row[p]
                     ELSE [row[p] EXCEPT !.status = "cancelled", !.owner = "system",
                                         !.attention = "none"]]
    BY <1>30 DEF CancelPhases
  <2>3. WorkTyped' /\ UserTyped' /\ UNCHANGED first
    BY <1>0, <2>1 DEF Operator, WorkTyped, UserTyped, CollabControl
  <2>4. turns' \in Nat /\ turns <= turns' /\ turns' \in 0..MaxTurns
    BY <1>c, <1>t, <2>1
  <2>5. ASSUME NEW p \in Phases
        PROVE  /\ row'[p] \in Row /\ row'[p].restarts = row[p].restarts
               /\ row'[p].status \in {"none", "cancelled"}
    BY <1>r, <2>2 DEF Row, Statuses
  <2>6. RowsTyped'
    <3>1. ASSUME NEW p \in Phases PROVE RowInv(p)'
      <4>1. row[p].restarts <= MaxRetries + turns'
        BY <1>c, <1>r, <2>4
      <4> QED
        BY <2>5, <4>1 DEF RowInv
    <3>2. row' \in [Phases -> Row]
      BY <2>2, <2>5
    <3> QED
      BY <1>r, <2>3, <3>1, <3>2 DEF RowsTyped
  <2>7. /\ session' \in Session /\ session'.phase = session.phase /\ ~ session'.help
        /\ session = NoSession => session' = NoSession
    <3>1. session' = [session EXCEPT !.aborted = Converses(session.phase), !.help = FALSE]
      BY <2>1 DEF Aborted, Stoppable
    <3>2. Converses(session.phase) \in BOOLEAN
      BY DEF Converses
    <3>3. /\ session' \in Session /\ session'.phase = session.phase /\ ~ session'.help
      BY <1>s, <3>1, <3>2 DEF Session
    <3>4. ASSUME session = NoSession PROVE session' = NoSession
      <4>1. ~ Converses(session.phase)
        BY <3>4 DEF NoSession, NoPhase, Converses, Proposals
      <4>2. session' = [session EXCEPT !.aborted = FALSE, !.help = FALSE]
        BY <3>1, <3>2, <4>1
      <4> QED
        BY <3>4, <4>2 DEF NoSession
    <3> QED
      BY <3>3, <3>4
  <2>8. LoopTyped'
    <3>1. ASSUME sched.at \in Restarting
          PROVE  \A p \in Phases : sched.seen[p].restarts < MaxRetries + turns'
      BY <1>c, <1>rec, <2>4, <3>1
    <3> QED
      BY <1>s, <1>hd, <2>1, <2>7, <3>1, LoopGoes DEF SchedInv, InSession, At
  <2> QED
    BY <2>3, <2>4, <2>6, <2>8, <1>q
<1>rs. ASSUME Restart(row), Turn, UNCHANGED << feature, pass, judged, first >> PROVE TypeInv'
  <2>1. turns' \in Nat /\ turns <= turns' /\ turns' \in 0..MaxTurns /\ turns' = turns + 1
    BY <1>c, <1>t, <1>rs
  <2>2. WorkTyped' /\ UserTyped' /\ RowsTyped'
    BY <1>0, <1>ru, <1>rs, <2>1 DEF Restart, WorkTyped, UserTyped
  <2>3. /\ sched' \in Sched /\ sched'.at = "recovering" /\ sched'.next = 1 /\ sched'.seen = row
        /\ session' = NoSession
    <3>1. sched' = [SchedIdle EXCEPT !.at = "recovering", !.next = 1, !.seen = row]
      BY <1>rs DEF Restart
    <3>2. row \in {<<>>} \cup [Phases -> Row] /\ "recovering" \in Places
      BY <1>r DEF Places
    <3>3. sched' = [at |-> "recovering", phase |-> NoPhase, result |-> "none", next |-> 1,
                    seen |-> row]
      BY <3>1 DEF SchedIdle
    <3>4. sched' \in Sched
      BY <3>2, <3>3 DEF Sched
    <3>5. session' = NoSession
      BY <1>rs DEF Restart
    <3> QED
      BY <3>3, <3>4, <3>5
  <2>4. \A p \in Phases : row[p].restarts < MaxRetries + turns'
    BY <1>c, <1>r, <2>1
  <2>5. LoopTyped'
    BY <1>r, <1>s, <2>3, <2>4, LoopGoes DEF SchedInv, At, Reports, Restarting, InSession
  <2> QED
    BY <2>1, <2>2, <2>5, <1>q
<1>31. CASE CrashPhases \/ UserRestarts
  BY <1>31, <1>rs DEF CrashPhases, UserRestarts
<1>32. CASE UNCHANGED phaseVars
  BY <1>0, <1>32, <1>c
  DEF phaseVars, TypeInv, WorkTyped, RowsTyped, RowInv, UserTyped, LoopTyped, SchedInv,
      InSession, At, Standing
<1> QED
  BY <1>1, <1>2, <1>3, <1>4, <1>5, <1>6, <1>7, <1>8, <1>9, <1>10, <1>11, <1>12, <1>13, <1>14,
     <1>15, <1>16, <1>17, <1>18, <1>19, <1>20, <1>21, <1>22, <1>23, <1>24, <1>25, <1>26, <1>27,
     <1>28, <1>29, <1>30, <1>31, <1>32
  DEF PhasesNext, Loop, Reporting, Requests, Recovering, Dispatching, Ending, Commands

----------------------------------------------------------------------------
(* Every run has somebody who ends it *)

\* A run is under way, or a proposal waits for an answer.
Busy(p) == \/ row[p].status = "running"
           \/ row[p].status = "await_response" /\ p \in Proposals

\* The loop has the run in hand, or recovery is still to come to its row, or
\* the program is down.
Unreviewed(p) == \E i \in DOMAIN PhaseOrder : i >= sched.next /\ PhaseOrder[i] = p
InHand(p) == /\ sched.phase = p
             /\ sched.at \in {"parked", "ended", "erroring", "reparked", "recovered"}
Listed(p) == /\ sched.at \in Restarting
             /\ Unreviewed(p)
             /\ sched.seen[p].status = row[p].status
Attended(p) == InHand(p) \/ Listed(p) \/ At("down")

AttendedInv == Standing => \A p \in Phases : Busy(p) => Attended(p)

\* Nothing is under way where the loop has no run in hand.
LEMMA Quiet ==
    ASSUME AttendedInv, Standing,
           sched.at \notin {"parked", "ended", "erroring", "down"} \cup Restarting
    PROVE  \A p \in Phases : ~ Busy(p)
BY DEF AttendedInv, Attended, InHand, Listed, At, Restarting

\* Where one row is written, the others stay.
LEMMA OneRow ==
    ASSUME RowsTyped, NEW p \in Phases, NEW new, SetRow(p, new)
    PROVE  row'[p] = new /\ \A q \in Phases \ {p} : row'[q] = row[q]
BY DEF RowsTyped, SetRow

\* What recovery has still to review when it goes on to the next row.
LEMMA StillUnreviewed ==
    ASSUME sched \in Sched, NextRow, sched.next \in 1..7, NEW q \in Phases
    PROVE  Unreviewed(q)' <=> Unreviewed(q) /\ q # PhaseOrder[sched.next]
<1>1. sched'.next = sched.next + 1
  BY DEF NextRow, Sched
<1>2. \A i \in 1..7 : i >= sched.next + 1 <=> i >= sched.next /\ i # sched.next
  OBVIOUS
<1> QED
  BY <1>1, <1>2, PhaseNames DEF Unreviewed

\* A cancelled feature stays cancelled.
LEMMA StandingBefore == TypeInv /\ [PhasesNext]_phaseVars /\ Standing' => Standing
<1> SUFFICES ASSUME TypeInv, [PhasesNext]_phaseVars, feature' # feature, Standing'
             PROVE  Standing
  BY DEF Standing
<1>0. LoopTyped /\ SchedInv
  BY DEF TypeInv, LoopTyped
<1>1. CASE ReportAdvances
  BY <1>0, <1>1 DEF ReportAdvances, SchedInv, At
<1>2. CASE \E outcome \in {"advances", "stays", "empty", "throws"} : HandleApprove(outcome)
  BY <1>2 DEF HandleApprove, Decidable
<1>3. CASE AdvanceApproved
  BY <1>3 DEF AdvanceApproved
<1>4. CASE OtherEvents
  BY <1>4 DEF OtherEvents, OtherEvent, TasksLand, TasksFail, FeatureLands, IntegrationFails
<1>5. CASE \E p \in Phases : RecoverReplays(p)
  BY <1>5 DEF RecoverReplays, Replayed
<1>6. CASE RecoverReports
  BY <1>6 DEF RecoverReports
<1>7. CASE CancelPhases
  <2>1. feature \in [work : WorkControl, collab : CollabControl]
    BY DEF TypeInv, WorkTyped
  <2>2. feature'.collab = "cancelled"
    BY <1>7, <2>1 DEF CancelPhases
  <2> QED
    BY <2>2 DEF Standing
<1>9. ~ UNCHANGED phaseVars
  BY DEF phaseVars
<1>10. /\ ~ ReportWritesRow /\ ~ ReportWritesEvent /\ ~ HandleError /\ ~ DropRequest
       /\ ~ HandleRerun /\ ~ RerunReady /\ ~ HandleReject /\ ~ DecideApproved
       /\ ~ RecoveryDies /\ ~ RecoveryDone
  BY DEF ReportWritesRow, ReportWritesEvent, HandleError, DropRequest, HandleRerun, RerunReady,
         HandleReject, DecideApproved, RecoveryDies, RecoveryDone, TheWork
<1>11. \A p \in Phases : ~ RecoverRow(p) /\ ~ RecoverDispatches(p) /\ ~ DispatchPhase(p)
                         /\ ~ DispatchFails(p)
  BY DEF RecoverRow, RecoverDispatches, DispatchPhase, DispatchFails, TheWork
<1>12. /\ ~ Ending /\ ~ RequestHelp /\ ~ AnswerHelp /\ ~ SubmitDraft /\ ~ DiscardDraft
       /\ ~ CrashPhases /\ ~ UserRestarts
  BY DEF Ending, SessionEnds, RequestHelp, AnswerHelp, SessionOnly, SubmitDraft, DiscardDraft,
         CrashPhases, UserRestarts, TheWork
<1>13. \A p \in Proposals : /\ ~ Attach(p) /\ ~ Release(p) /\ ~ OpenDraft(p)
                            /\ \A k \in {"approve", "reject", "rerun"} : ~ Ask(k, p)
  BY DEF Attach, Release, OpenDraft, Ask
<1> QED
  BY <1>1, <1>2, <1>3, <1>4, <1>5, <1>6, <1>7, <1>9, <1>10, <1>11, <1>12, <1>13
  DEF PhasesNext, Loop, Reporting, Requests, Recovering, Dispatching, Commands

\* Every step leaves each run under way with somebody who ends it.
LEMMA AttendedStep == TypeInv /\ AttendedInv /\ [PhasesNext]_phaseVars => AttendedInv'
<1> SUFFICES ASSUME TypeInv, AttendedInv, [PhasesNext]_phaseVars, Standing',
                    NEW q \in Phases, Busy(q)'
             PROVE  Attended(q)'
  BY DEF AttendedInv
<1>0. /\ Standing /\ RowsTyped /\ sched \in Sched /\ SchedInv
      /\ row \in [Phases -> Row]
  BY StandingBefore DEF TypeInv, RowsTyped, LoopTyped
<1>a. Busy(q) => Attended(q)
  BY <1>0 DEF AttendedInv
<1>q. sched.at \notin {"parked", "ended", "erroring", "down"} \cup Restarting => ~ Busy(q)
  BY <1>0, Quiet
<1>b. row'[q].status = row[q].status => Busy(q)
  BY DEF Busy
<1>n. row'[q].status \in {"running", "await_response"}
  BY DEF Busy
\* Where nothing is under way, no step without a run in hand begins one.
<1>r. row'[q].status = row[q].status
      => sched.at \in {"parked", "ended", "erroring", "down"} \cup Restarting
  BY <1>q, <1>b
\* The loop stays where it is, and so does the status of the run.
<1>s. UNCHANGED sched /\ row'[q].status = row[q].status => Attended(q)'
  <2>1. UNCHANGED sched /\ row'[q].status = row[q].status => (Attended(q)' <=> Attended(q))
    BY DEF Attended, InHand, Listed, Unreviewed, At
  <2> QED
    BY <1>a, <1>b, <2>1

<1>w. ASSUME NEW p \in Phases, NEW new \in Row, new.status \notin {"running", "await_response"},
             SetRow(p, new)
      PROVE  row'[q] = row[q]
  BY <1>0, <1>n, <1>w, OneRow
<1>1. ASSUME NEW p \in Phases, DispatchPhase(p) PROVE Attended(q)'
  <2>1. /\ sched.at = "idle" /\ SetRow(p, Started(p))
        /\ sched' = [sched EXCEPT !.at = "parked", !.phase = p]
    BY <1>1 DEF DispatchPhase, At, Begin
  <2>2. q = p
    BY <1>0, <1>r, <2>1, OneRow DEF Restarting
  <2>3. sched'.at = "parked" /\ sched'.phase = p
    BY <1>0, <2>1 DEF Sched
  <2> QED
    BY <2>2, <2>3 DEF Attended, InHand
<1>2. ASSUME NEW p \in Phases, DispatchFails(p) PROVE Attended(q)'
  <2> DEFINE status == IF row[p].status = "none" THEN "ready" ELSE row[p].status
  <2>1. /\ sched.at = "idle" /\ status \notin {"running", "await_response"}
        /\ SetRow(p, System(p, status))
    BY <1>2 DEF DispatchFails, At, Dispatchable
  <2>2. row'[q].status = row[q].status
    <3>1. status \in Statuses
      BY <1>0 DEF Row, Statuses
    <3> HIDE DEF status
    <3> QED
      BY <1>0, <1>w, <2>1, <3>1, SystemRow
  <2> QED
    BY <1>r, <2>1, <2>2 DEF Restarting
<1>h. InSession => sched.phase = session.phase /\ sched.at \in {"parked", "reparked"}
  BY <1>0 DEF SchedInv, InSession, At
<1>3. ASSUME RequestHelp \/ AnswerHelp PROVE Attended(q)'
  <2>1. /\ InSession /\ UNCHANGED sched
        /\ \E new : SetRow(session.phase, new)
    BY <1>3 DEF RequestHelp, AnswerHelp, SessionOnly
  <2>2. CASE q = session.phase
    BY <1>h, <2>1, <2>2 DEF Attended, InHand
  <2>3. CASE q # session.phase
    <3>1. row'[q] = row[q]
      BY <1>0, <2>1, <2>3 DEF SetRow, RowsTyped
    <3> QED
      BY <1>s, <2>1, <3>1
  <2> QED
    BY <2>2, <2>3
<1>4. ASSUME NEW result \in {"ok", "bad", "transient", "permanent"}, SessionEnds(result)
      PROVE  Attended(q)'
  <2>1. /\ InSession /\ \E new : SetRow(session.phase, new)
        /\ sched' = [sched EXCEPT !.result = result, !.at = sched'.at]
        /\ sched'.at =
              CASE At("reparked") -> "recovered"
                [] At("parked") /\ result \in {"ok", "bad"} -> "ended"
                [] At("parked") /\ result \in {"transient", "permanent"} /\ Standing
                      -> "erroring"
                [] OTHER -> "idle"
    BY <1>0, <1>4 DEF SessionEnds, Sched
  <2>2. /\ sched'.at \in {"recovered", "ended", "erroring"}
        /\ At("reparked") => sched'.at = "recovered"
    BY <1>0, <2>1 DEF InSession, At
  <2>3. /\ sched'.phase = sched.phase /\ sched'.next = sched.next /\ sched'.seen = sched.seen
    BY <1>0, <2>1 DEF Sched
  <2>4. CASE q = session.phase
    BY <1>h, <2>1, <2>2, <2>3, <2>4 DEF Attended, InHand
  <2>5. CASE q # session.phase
    <3>1. row'[q] = row[q]
      BY <1>0, <2>1, <2>5 DEF SetRow, RowsTyped
    <3>2. Listed(q)
      BY <1>a, <1>b, <1>h, <2>1, <2>5, <3>1 DEF Attended, InHand, InSession, At
    <3>3. At("reparked")
      BY <1>h, <2>1, <3>2 DEF Listed, At, Restarting
    <3> QED
      BY <2>2, <2>3, <3>1, <3>2, <3>3 DEF Attended, Listed, Unreviewed, Restarting
  <2> QED
    BY <2>4, <2>5
<1>5. CASE ReportWritesRow
  <2> DEFINE p == sched.phase
  <2>1. p \in Phases /\ sched.at = "ended"
    BY <1>0, <1>5 DEF ReportWritesRow, SchedInv, At, Reports
  <2>2. SetRow(p, AwaitingApproval(p)) \/ SetRow(p, System(p, "completed"))
    BY <1>0, <1>5 DEF ReportWritesRow
  <2>3. row'[p].status \in {"await_approval", "completed"}
    <3>1. /\ AwaitingApproval(p).status = "await_approval"
          /\ System(p, "completed").status = "completed"
      BY <1>0, <2>1, SystemRow DEF AwaitingApproval, Row, Statuses
    <3> QED
      BY <1>0, <2>1, <2>2, <3>1, OneRow
  <2>4. q # p
    BY <1>n, <2>3
  <2>5. Busy(q)
    BY <1>0, <1>b, <2>1, <2>2, <2>4, OneRow
  <2> QED
    BY <1>a, <2>1, <2>4, <2>5 DEF Attended, InHand, Listed, At, Restarting
<1>6. CASE ReportWritesEvent \/ ReportAdvances
  BY <1>6, <1>r DEF ReportWritesEvent, ReportAdvances, At, Restarting
<1>7. CASE HandleError
  <2> DEFINE p == sched.phase
  <2>1. p \in Phases /\ sched.at = "erroring"
    BY <1>0, <1>7 DEF HandleError, SchedInv, At
  <2>2. SetRow(p, System(p, "retry_await")) \/ SetRow(p, System(p, "failed"))
    BY <1>0, <1>7 DEF HandleError
  <2>3. row'[p].status \in {"retry_await", "failed"}
    <3>1. /\ System(p, "retry_await").status = "retry_await"
          /\ System(p, "failed").status = "failed"
      BY <1>0, <2>1, SystemRow DEF Statuses
    <3> QED
      BY <1>0, <2>1, <2>2, <3>1, OneRow
  <2>4. q # p
    BY <1>n, <2>3
  <2>5. Busy(q)
    BY <1>0, <1>b, <2>1, <2>2, <2>4, OneRow
  <2> QED
    BY <1>a, <2>1, <2>4, <2>5 DEF Attended, InHand, Listed, At, Restarting
<1>d. ASSUME NEW p \in Phases, NEW owner \in {"system", "manual"}, SetRow(p, Decided(p, owner))
      PROVE  row'[q] = row[q]
  <2>1. Decided(p, owner) \in Row /\ Decided(p, owner).status = "completed"
    BY <1>0 DEF Decided, Row, Statuses
  <2> QED
    BY <1>d, <1>w, <2>1
<1>8. CASE DropRequest \/ HandleRerun
  BY <1>8, <1>r DEF DropRequest, HandleRerun, Handle, At, Restarting
<1>9. CASE RerunReady
  <2> DEFINE p == sched.phase
             new == [System(p, "ready") EXCEPT !.payload = "none"]
  <2>1. p \in Phases /\ sched.at = "deleting" /\ SetRow(p, new)
    BY <1>0, <1>9, PhaseNames DEF RerunReady, SchedInv, At
  <2>2. new \in Row /\ new.status = "ready"
    <3>1. System(p, "ready") \in Row /\ System(p, "ready").status = "ready"
      BY <1>0, <2>1, SystemRow DEF Statuses
    <3> QED
      BY <3>1 DEF Row
  <2> QED
    BY <1>r, <1>w, <2>1, <2>2 DEF Restarting
<1>v. ASSUME NEW kind, Handle(kind) PROVE sched.at = "idle" /\ Request.phase \in Phases
  <2>1. queue \in Seq(Requested) /\ queue # <<>> /\ sched.at = "idle"
    BY <1>v DEF Handle, TypeInv, UserTyped, At
  <2>2. Head(queue) \in Requested
    BY <2>1
  <2> QED
    BY <2>1, <2>2, PhaseNames DEF Request, Requested
<1>10. CASE HandleReject
  BY <1>10, <1>d, <1>r, <1>v DEF HandleReject, Restarting
<1>11. ASSUME NEW outcome \in {"advances", "stays", "empty", "throws"}, HandleApprove(outcome)
       PROVE  Attended(q)'
  <2>1. /\ sched.at = "idle" /\ Request.phase \in Phases
        /\ \/ UNCHANGED row
           \/ \E owner \in {"system", "manual"} :
                 SetRow(Request.phase, Decided(Request.phase, owner))
    BY <1>11, <1>v DEF HandleApprove
  <2> QED
    BY <1>d, <1>r, <2>1 DEF Restarting
<1>12. CASE AdvanceApproved
  <2>1. sched.at = "branching" /\ sched.phase \in Phases
    BY <1>0, <1>12, PhaseNames DEF AdvanceApproved, SchedInv, At
  <2>2. UNCHANGED row \/ SetRow(sched.phase, Decided(sched.phase, "manual"))
    BY <1>12 DEF AdvanceApproved
  <2> QED
    BY <1>d, <1>r, <2>1, <2>2 DEF Restarting
<1>13. CASE DecideApproved
  <2>1. sched.at = "deciding" /\ sched.phase \in Phases
    BY <1>0, <1>13, PhaseNames DEF DecideApproved, SchedInv, At
  <2>2. SetRow(sched.phase, Decided(sched.phase, "system"))
    BY <1>13 DEF DecideApproved
  <2> QED
    BY <1>d, <1>r, <2>1, <2>2 DEF Restarting

<1>rv. ASSUME NEW p \in Phases, Reviewing(p)
       PROVE  /\ sched.at = "recovering" /\ sched.next \in 1..7 /\ p = PhaseOrder[sched.next]
              /\ Reviewed = sched.seen[p] /\ sched.at \in Restarting
  <2>1. /\ sched.at = "recovering" /\ sched.next <= 7 /\ p = PhaseOrder[sched.next]
        /\ Reviewed = sched.seen[p]
    BY <1>rv, PhaseNames DEF Reviewing, At, Reviewed
  <2>2. sched.next \in 1..8
    BY <1>0, <2>1 DEF SchedInv, Restarting
  <2> QED
    BY <2>1, <2>2 DEF Restarting
\* Recovery goes on to the next row: the runs of the others are still listed.
<1>nx. ASSUME NEW p \in Phases, sched.at \in Restarting, sched.next \in 1..7,
              p = PhaseOrder[sched.next], NextRow, q # p, row'[q] = row[q],
              InHand(q) => FALSE
       PROVE  Attended(q)'
  <2>1. Listed(q)
    BY <1>a, <1>b, <1>nx DEF Attended, At, Restarting
  <2>2. Unreviewed(q)'
    BY <1>0, <1>nx, <2>1, StillUnreviewed DEF Listed
  <2>3. sched'.seen = sched.seen /\ sched'.at = "recovering"
    BY <1>0, <1>nx DEF NextRow, Sched
  <2> QED
    BY <1>nx, <2>1, <2>2, <2>3 DEF Attended, Listed, Restarting
\* A run in front of recovery has the status recovery saw.
<1>li. sched.at = "recovering" /\ Busy(q) => Listed(q) /\ ~ InHand(q)
  BY <1>a DEF Attended, InHand, At
<1>14. ASSUME NEW p \in Phases, RecoverRow(p) PROVE Attended(q)'
  <2>1. /\ Reviewing(p) /\ SetRow(p, Recovered(p)) /\ NextRow
        /\ ~ Redispatched(p)
    BY <1>14 DEF RecoverRow
  <2>2. CASE q # p
    <3>1. row'[q] = row[q]
      BY <1>0, <2>1, <2>2, OneRow
    <3> QED
      BY <1>b, <1>li, <1>nx, <1>rv, <2>1, <2>2, <3>1
  <2>3. CASE q = p
    <3>1. row'[q] = Recovered(q) /\ Reviewed = sched.seen[q]
      BY <1>0, <1>rv, <2>1, <2>3, OneRow
    <3>2. Recovered(q) = row[q] \/ Recovered(q).status \in {"ready", "cancelled"}
      BY <1>0 DEF Recovered, System, Row
    <3>3. row'[q] = row[q]
      BY <1>n, <3>1, <3>2
    <3>4. sched.seen[q].status = row[q].status
      BY <1>b, <1>li, <1>rv, <2>1, <3>3 DEF Listed
    <3>5. CASE Reclaimed(q)
      <4>1. Recovered(q).status = "ready"
        BY <1>0, <1>n, <3>1, <3>3, <3>4, <3>5 DEF Recovered, Row
      <4> QED
        BY <1>n, <3>1, <4>1
    <3>6. CASE ~ Reclaimed(q) /\ row[q].status = "running"
      BY <1>0, <2>1, <2>3, <3>1, <3>4, <3>6 DEF Redispatched
    <3>7. CASE ~ Reclaimed(q) /\ row[q].status = "await_response" /\ q \in Proposals
      <4>1. Recovered(q).status = "ready"
        BY <1>0, <3>1, <3>4, <3>7 DEF Recovered, System, Row
      <4> QED
        BY <1>n, <3>1, <4>1
    <3> QED
      BY <1>b, <3>3, <3>5, <3>6, <3>7 DEF Busy
  <2> QED
    BY <2>2, <2>3
<1>15. ASSUME NEW p \in Phases, RecoverReplays(p) PROVE Attended(q)'
  <2>1. /\ Reviewing(p) /\ NextRow /\ UNCHANGED row /\ Reviewed.status = "completed"
    BY <1>15 DEF RecoverReplays, Replayed
  <2>2. q # p
    BY <1>b, <1>li, <1>n, <1>rv, <2>1 DEF Listed
  <2> QED
    BY <1>b, <1>li, <1>nx, <1>rv, <2>1, <2>2
<1>16. ASSUME NEW p \in Phases, RecoverDispatches(p) PROVE Attended(q)'
  <2>1. /\ Reviewing(p) /\ UNCHANGED row
        /\ sched' = [sched EXCEPT !.at = "reparked", !.phase = p]
    BY <1>16 DEF RecoverDispatches, Begin
  <2>2. /\ sched'.at = "reparked" /\ sched'.next = sched.next /\ sched'.seen = sched.seen
    BY <1>0, <2>1 DEF Sched
  <2>3. Listed(q)
    BY <1>b, <1>li, <1>rv, <2>1
  <2> QED
    BY <2>1, <2>2, <2>3 DEF Attended, Listed, Unreviewed, Restarting
<1>rd. ASSUME sched.at = "recovered"
       PROVE  /\ sched.at \in Restarting /\ sched.next \in 1..7 /\ sched.phase \in Phases
              /\ sched.phase = PhaseOrder[sched.next]
  BY <1>0, <1>rd DEF SchedInv, Restarting
<1>17. CASE RecoverReports
  <2> DEFINE p == sched.phase
             counted == [row[p] EXCEPT !.restarts = Reviewed.restarts + 1]
             asked == [counted EXCEPT !.status = "await_approval", !.owner = "manual",
                                      !.payload = "agent"]
             done == [counted EXCEPT !.status = "completed", !.owner = "system"]
             new == IF p \in Proposals THEN asked ELSE done
  <2>1. sched.at = "recovered" /\ SetRow(p, new) /\ NextRow
    BY <1>17 DEF RecoverReports, At
  <2>2. new.status \in {"await_approval", "completed"}
    <3>1. "status" \in DOMAIN counted
      BY <1>0, <1>rd, <2>1 DEF Row
    <3> HIDE DEF counted
    <3> QED
      BY <3>1
  <2> HIDE DEF new
  <2>3. q # p /\ row'[q] = row[q]
    BY <1>0, <1>n, <1>rd, <2>1, <2>2, OneRow
  <2> QED
    BY <1>nx, <1>rd, <2>1, <2>3 DEF InHand
<1>18. CASE RecoveryDies
  <2>1. sched'.at = "down"
    BY <1>0, <1>18 DEF RecoveryDies, Goto, Sched
  <2> QED
    BY <2>1 DEF Attended, At
<1>19. CASE RecoveryDone
  <2>1. sched.at = "recovering" /\ sched.next > 7 /\ UNCHANGED row
    BY <1>19, PhaseNames DEF RecoveryDone, At
  <2>2. ~ Unreviewed(q)
    <3>1. sched.next \in Nat
      BY <1>0 DEF Sched
    <3> QED
      BY <2>1, <3>1, PhaseNames DEF Unreviewed
  <2> QED
    BY <1>b, <1>li, <2>1, <2>2 DEF Listed
<1>20. CASE OtherEvents
  <2>1. sched.at = "idle" /\ UNCHANGED row
    BY <1>20
    DEF OtherEvents, OtherEvent, TasksLand, TasksFail, FeatureLands, IntegrationFails, At
  <2> QED
    BY <1>r, <2>1 DEF Restarting
<1>21. ASSUME NEW p \in Proposals, Attach(p) \/ Release(p) PROVE Attended(q)'
  <2>1. /\ UNCHANGED sched /\ p \in Phases
        /\ \/ SetRow(p, [row[p] EXCEPT !.owner = "manual", !.attention = "operator"])
           \/ SetRow(p, [row[p] EXCEPT !.owner = "system", !.attention = "none"])
    BY <1>21, PhaseNames DEF Attach, Release
  <2>2. row'[q].status = row[q].status
    <3> DEFINE manual == [row[p] EXCEPT !.owner = "manual", !.attention = "operator"]
               system == [row[p] EXCEPT !.owner = "system", !.attention = "none"]
    <3>1. manual.status = row[p].status /\ system.status = row[p].status
      BY <1>0, <2>1 DEF Row
    <3> HIDE DEF manual, system
    <3>2. SetRow(p, manual) \/ SetRow(p, system)
      BY <2>1 DEF manual, system
    <3> QED
      BY <1>0, <2>1, <3>1, <3>2, OneRow
  <2> QED
    BY <1>s, <2>1, <2>2
<1>22. ASSUME NEW p \in Proposals,
              OpenDraft(p) \/ \E k \in {"approve", "reject", "rerun"} : Ask(k, p)
       PROVE  Attended(q)'
  BY <1>s, <1>22 DEF OpenDraft, Ask
<1>23. CASE SubmitDraft
  <2> DEFINE new == [status |-> "await_approval", owner |-> "manual", attention |-> "none",
                     restarts |-> 0, payload |-> "draft"]
  <2>1. UNCHANGED sched /\ SetRow(draft, new) /\ draft \in Phases
    BY <1>23, PhaseNames DEF SubmitDraft, TypeInv, UserTyped
  <2>2. new \in Row /\ new.status = "await_approval"
    BY DEF Row, Statuses
  <2> HIDE DEF new
  <2> QED
    BY <1>s, <1>w, <2>1, <2>2
<1>24. CASE DiscardDraft
  BY <1>24, <1>s DEF DiscardDraft
<1>25. CASE CancelPhases
  <2>1. feature \in [work : WorkControl, collab : CollabControl]
    BY DEF TypeInv, WorkTyped
  <2> QED
    BY <1>25, <2>1 DEF CancelPhases, Standing
<1>26. CASE CrashPhases \/ UserRestarts
  <2>1. row' = row /\ sched' = [SchedIdle EXCEPT !.at = "recovering", !.next = 1, !.seen = row]
    BY <1>26 DEF CrashPhases, UserRestarts, Restart
  <2>2. sched'.at = "recovering" /\ sched'.next = 1 /\ sched'.seen = row
    BY <2>1 DEF SchedIdle
  <2>3. Unreviewed(q)'
    BY <2>2, PhaseNames DEF Unreviewed, Phases
  <2> QED
    BY <2>1, <2>2, <2>3 DEF Attended, Listed, Restarting
<1>27. CASE UNCHANGED phaseVars
  BY <1>27, <1>s DEF phaseVars
<1> QED
  BY <1>1, <1>2, <1>3, <1>4, <1>5, <1>6, <1>7, <1>8, <1>9, <1>10, <1>11, <1>12, <1>13, <1>14,
     <1>15, <1>16, <1>17, <1>18, <1>19, <1>20, <1>21, <1>22, <1>23, <1>24, <1>25, <1>26, <1>27
  DEF PhasesNext, Loop, Reporting, Requests, Recovering, Dispatching, Ending, Commands

----------------------------------------------------------------------------
(* A phase that is not a proposal runs only while the feature is in it *)

WithItsPhase(p) ==
    /\ row[p].status = "running" => In(p)
    /\ sched.at \in Restarting /\ Unreviewed(p) /\ sched.seen[p].status = "running"
          => In(p)
    /\ sched.phase = p /\ sched.at \in {"parked", "reparked", "recovered"} \cup Reports
          => In(p)

InItsPhase == Standing => \A p \in Phases \ Proposals : WithItsPhase(p)

\* Where the feature goes from its phase.
LEMMA AfterWork ==
    ASSUME feature \in [work : WorkControl, collab : CollabControl],
           NEW p \in Phases \ Proposals, NEW result \in Verdicts
    PROVE  /\ p = "ci_check" /\ result = "ok" => After(p, result).work = "verifying"
           /\ p = "verify" /\ result = "ok" => After(p, result).work = "awaiting_merge"
           /\ ~ (p = "verify" /\ result = "ok") =>
                 /\ After(p, result).work # "awaiting_merge"
                 /\ After(p, result).collab = feature.collab
           /\ ~ (p = "ci_check" /\ result = "ok") =>
                 After(p, result).work \notin {"ci_check", "verifying"}
           /\ After(p, result).work # "ci_check"
<1>1. /\ p \in {"discuss", "research", "ci_check", "verify", "summarize"}
      /\ p \in Checks <=> p \in {"ci_check", "verify"}
      /\ result \in {"ok", "bad"}
  BY PhaseNames DEF Proposals, Checks, Verdicts
<1> QED
  BY <1>1 DEF After

\* No step takes the feature out of a phase that runs, or starts one outside its phase.
LEMMA InPhaseStep ==
    TypeInv /\ AttendedInv /\ InItsPhase /\ [PhasesNext]_phaseVars => InItsPhase'
<1> SUFFICES ASSUME TypeInv, AttendedInv, InItsPhase, [PhasesNext]_phaseVars, Standing',
                    NEW q \in Phases \ Proposals
             PROVE  WithItsPhase(q)'
  BY DEF InItsPhase
<1>0. /\ Standing /\ RowsTyped /\ sched \in Sched /\ SchedInv
      /\ row \in [Phases -> Row] /\ q \in Phases /\ q \notin Proposals
      /\ feature \in [work : WorkControl, collab : CollabControl]
  BY StandingBefore DEF TypeInv, RowsTyped, LoopTyped, WorkTyped
<1>i. \A p \in Phases \ Proposals :
         /\ row[p].status = "running" => In(p)
         /\ sched.at \in Restarting /\ Unreviewed(p) /\ sched.seen[p].status = "running"
               => In(p)
         /\ sched.phase = p /\ sched.at \in {"parked", "reparked", "recovered"} \cup Reports
               => In(p)
  BY <1>0 DEF InItsPhase, WithItsPhase
<1>e. TheWork \/ UNCHANGED feature => feature'.work = feature.work
  BY DEF TheWork
<1>q. sched.at \notin {"parked", "ended", "erroring", "down"} \cup Restarting
      => row[q].status # "running"
  BY <1>0, Quiet DEF Busy
\* The loop comes to rest, and no run of this phase is begun.
<1>z. ASSUME sched'.at \notin Restarting \cup Reports \cup {"parked"},
             \/ row'[q].status # "running"
             \/ feature'.work = feature.work /\ row'[q] = row[q]
      PROVE  WithItsPhase(q)'
  BY <1>0, <1>i, <1>z DEF WithItsPhase, Restarting, In
<1>id. SchedIdle.at \notin Restarting \cup Reports \cup {"parked"}
  BY DEF SchedIdle, Restarting, Reports
\* The loop stays where it is.
<1>s. ASSUME UNCHANGED sched, feature'.work = feature.work,
             row'[q].status # "running" \/ row'[q] = row[q]
      PROVE  WithItsPhase(q)'
  <2>1. Unreviewed(q)' <=> Unreviewed(q)
    BY <1>s DEF Unreviewed
  <2> QED
    BY <1>0, <1>i, <1>s, <2>1 DEF WithItsPhase, In
<1>w. ASSUME NEW p \in Proposals, NEW new, SetRow(p, new) PROVE row'[q] = row[q]
  BY <1>0, <1>w, OneRow, PhaseNames

<1>1. ASSUME NEW p \in Phases, DispatchPhase(p) PROVE WithItsPhase(q)'
  <2>1. /\ sched.at = "idle" /\ SetRow(p, Started(p)) /\ In(p)
        /\ sched' = [sched EXCEPT !.at = "parked", !.phase = p]
        /\ TheWork
    BY <1>1 DEF DispatchPhase, At, Begin, Dispatchable
  <2>2. sched'.at = "parked" /\ sched'.phase = p
    BY <1>0, <2>1 DEF Sched
  <2>3. feature'.work = feature.work
    BY <1>e, <2>1
  <2>4. q # p => row'[q] = row[q]
    BY <1>0, <2>1, OneRow
  <2> QED
    BY <1>0, <1>q, <2>1, <2>2, <2>3, <2>4 DEF WithItsPhase, Restarting, In
<1>2. ASSUME NEW p \in Phases, DispatchFails(p) PROVE WithItsPhase(q)'
  <2> DEFINE status == IF row[p].status = "none" THEN "ready" ELSE row[p].status
  <2>1. /\ sched.at = "idle" /\ status # "running" /\ SetRow(p, System(p, status))
        /\ sched' = [sched EXCEPT !.at = "erroring", !.phase = p, !.result = "permanent"]
    BY <1>2 DEF DispatchFails, At, Dispatchable
  <2>2. status \in Statuses
    BY <1>0 DEF Row, Statuses
  <2> HIDE DEF status
  <2>3. row'[q].status # "running"
    <3>1. row[q].status # "running"
      BY <1>q, <2>1 DEF Restarting
    <3>2. System(p, status).status = status
      BY <1>0, <2>2, SystemRow
    <3> QED
      BY <1>0, <2>1, <3>1, <3>2, OneRow
  <2>4. sched'.at = "erroring"
    BY <1>0, <2>1 DEF Sched
  <2> QED
    BY <1>z, <2>3, <2>4 DEF Restarting, Reports
<1>h. InSession => sched.phase = session.phase /\ sched.at \in {"parked", "reparked"}
  BY <1>0 DEF SchedInv, InSession, At
<1>3. CASE RequestHelp \/ AnswerHelp
  <2>1. /\ InSession /\ UNCHANGED sched /\ TheWork
        /\ \E new : SetRow(session.phase, new)
    BY <1>3 DEF RequestHelp, AnswerHelp, SessionOnly
  <2>2. feature'.work = feature.work
    BY <1>e, <2>1
  <2>3. CASE q = session.phase
    BY <1>0, <1>h, <1>i, <2>1, <2>2, <2>3 DEF WithItsPhase, In
  <2>4. CASE q # session.phase
    <3>1. row'[q] = row[q]
      BY <1>0, <2>1, <2>4 DEF SetRow, RowsTyped
    <3> QED
      BY <1>s, <2>1, <2>2, <3>1
  <2> QED
    BY <2>3, <2>4
<1>4. ASSUME NEW result \in {"ok", "bad", "transient", "permanent"}, SessionEnds(result)
      PROVE  WithItsPhase(q)'
  <2>1. /\ InSession /\ UNCHANGED feature /\ \E new : SetRow(session.phase, new)
        /\ sched' = [sched EXCEPT !.result = result, !.at = sched'.at]
        /\ sched'.at =
              CASE At("reparked") -> "recovered"
                [] At("parked") /\ result \in {"ok", "bad"} -> "ended"
                [] At("parked") /\ result \in {"transient", "permanent"} /\ Standing
                      -> "erroring"
                [] OTHER -> "idle"
    BY <1>0, <1>4 DEF SessionEnds, Sched
  <2>2. /\ sched'.at \in {"recovered", "ended", "erroring"}
        /\ sched'.at = "recovered" => sched.at = "reparked"
    BY <1>0, <2>1 DEF InSession, At
  <2>3. /\ sched'.phase = sched.phase /\ sched'.next = sched.next /\ sched'.seen = sched.seen
    BY <1>0, <2>1 DEF Sched
  <2>4. feature'.work = feature.work
    BY <1>e, <2>1
  <2>5. CASE q = session.phase
    BY <1>0, <1>h, <1>i, <2>1, <2>4, <2>5 DEF WithItsPhase, In
  <2>6. CASE q # session.phase
    <3>1. row'[q] = row[q]
      BY <1>0, <2>1, <2>6 DEF SetRow, RowsTyped
    <3>2. Unreviewed(q)' <=> Unreviewed(q)
      BY <2>3 DEF Unreviewed
    <3>3. sched'.phase # q
      BY <1>h, <2>1, <2>3, <2>6
    <3> QED
      BY <1>0, <1>i, <2>2, <2>3, <2>4, <3>1, <3>2, <3>3 DEF WithItsPhase, In, Restarting
  <2> QED
    BY <2>5, <2>6
<1>5. CASE ReportWritesRow
  <2> DEFINE p == sched.phase
  <2>1. p \in Phases /\ sched.at = "ended" /\ TheWork
    BY <1>0, <1>5 DEF ReportWritesRow, SchedInv, At, Reports
  <2>2. /\ SetRow(p, AwaitingApproval(p)) \/ SetRow(p, System(p, "completed"))
        /\ Goto("filing")
    BY <1>0, <1>5 DEF ReportWritesRow
  <2>3. row'[p].status \in {"await_approval", "completed"}
    <3>1. /\ AwaitingApproval(p).status = "await_approval"
          /\ System(p, "completed").status = "completed"
      BY <1>0, <2>1, SystemRow DEF AwaitingApproval, Row, Statuses
    <3> QED
      BY <1>0, <2>1, <2>2, <3>1, OneRow
  <2>4. row'[q].status # "running" \/ row'[q] = row[q]
    BY <1>0, <2>1, <2>2, <2>3, OneRow
  <2>5. sched'.at = "filing" /\ sched'.phase = sched.phase
    BY <1>0, <2>2 DEF Goto, Sched
  <2>6. feature'.work = feature.work
    BY <1>e, <2>1
  <2> QED
    BY <1>0, <1>i, <2>1, <2>4, <2>5, <2>6 DEF WithItsPhase, In, Restarting, Reports
<1>6. CASE ReportWritesEvent
  <2>1. /\ sched.at = "filing" /\ UNCHANGED row /\ TheWork
        /\ Goto("advancing") \/ sched' = SchedIdle
    BY <1>6 DEF ReportWritesEvent, At, EndTick
  <2>2. feature'.work = feature.work
    BY <1>e, <2>1
  <2>3. CASE Goto("advancing")
    <3>1. sched'.at = "advancing" /\ sched'.phase = sched.phase
      BY <1>0, <2>3 DEF Goto, Sched
    <3> QED
      BY <1>0, <1>i, <2>1, <2>2, <3>1 DEF WithItsPhase, In, Restarting, Reports
  <2>4. CASE sched' = SchedIdle
    BY <1>z, <1>id, <2>1, <2>2, <2>4
  <2> QED
    BY <2>1, <2>3, <2>4
<1>7. CASE ReportAdvances
  BY <1>7, <1>q, <1>z, <1>id DEF ReportAdvances, At, EndTick, Restarting
<1>8. CASE HandleError
  <2> DEFINE p == sched.phase
  <2>1. p \in Phases /\ sched' = SchedIdle /\ TheWork
    BY <1>0, <1>8 DEF HandleError, SchedInv, At, EndTick
  <2>2. SetRow(p, System(p, "retry_await")) \/ SetRow(p, System(p, "failed"))
    BY <1>0, <1>8 DEF HandleError
  <2>3. row'[p].status \in {"retry_await", "failed"}
    <3>1. /\ System(p, "retry_await").status = "retry_await"
          /\ System(p, "failed").status = "failed"
      BY <1>0, <2>1, SystemRow DEF Statuses
    <3> QED
      BY <1>0, <2>1, <2>2, <3>1, OneRow
  <2>4. row'[q].status # "running" \/ row'[q] = row[q]
    BY <1>0, <2>1, <2>2, <2>3, OneRow
  <2> QED
    BY <1>e, <1>z, <1>id, <2>1, <2>4
<1>v. ASSUME NEW kind, Handle(kind) PROVE sched.at = "idle" /\ Request.phase \in Proposals
  <2>1. queue \in Seq(Requested) /\ queue # <<>> /\ sched.at = "idle"
    BY <1>v DEF Handle, TypeInv, UserTyped, At
  <2>2. Head(queue) \in Requested
    BY <2>1
  <2> QED
    BY <2>1, <2>2, PhaseNames DEF Request, Requested
<1>9. CASE DropRequest
  BY <1>9, <1>e, <1>s DEF DropRequest
<1>10. CASE HandleRerun
  <2>1. /\ sched' = [sched EXCEPT !.at = "deleting", !.phase = Request.phase]
        /\ TheWork /\ UNCHANGED row
    BY <1>10 DEF HandleRerun
  <2>2. sched'.at = "deleting"
    BY <1>0, <2>1 DEF Sched
  <2> QED
    BY <1>e, <1>z, <2>1, <2>2 DEF Restarting, Reports
<1>11. CASE RerunReady
  <2>1. sched.phase \in Proposals /\ TheWork /\ sched' = SchedIdle
    BY <1>0, <1>11 DEF RerunReady, SchedInv, At, EndTick
  <2>2. \E new : SetRow(sched.phase, new)
    BY <1>11 DEF RerunReady
  <2> QED
    BY <1>e, <1>w, <1>z, <1>id, <2>1, <2>2
<1>12. CASE HandleReject
  <2>1. /\ Request.phase \in Proposals /\ TheWork /\ UNCHANGED sched
        /\ SetRow(Request.phase, Decided(Request.phase, "manual"))
    BY <1>12, <1>v DEF HandleReject
  <2> QED
    BY <1>e, <1>s, <1>w, <2>1
<1>13. ASSUME NEW outcome \in {"advances", "stays", "empty", "throws"}, HandleApprove(outcome)
       PROVE  WithItsPhase(q)'
  <2>1. /\ Request.phase \in Proposals /\ sched.at = "idle"
        /\ UNCHANGED row \/ \E new : SetRow(Request.phase, new)
        /\ feature' = feature \/ feature' = [feature EXCEPT !.collab = "cancelled"]
        /\ \/ UNCHANGED sched
           \/ sched' = [sched EXCEPT !.at = "branching", !.phase = Request.phase]
    BY <1>13, <1>v DEF HandleApprove
  <2>2. row'[q] = row[q]
    BY <1>w, <2>1
  <2>3. feature'.work = feature.work
    BY <1>0, <2>1
  <2>4. sched'.at \in {"idle", "branching"}
    BY <1>0, <2>1 DEF Sched
  <2> QED
    BY <1>z, <2>2, <2>3, <2>4 DEF Restarting, Reports
<1>14. CASE AdvanceApproved
  <2>1. /\ sched.at = "branching" /\ sched.phase \in Proposals
        /\ UNCHANGED row \/ \E new : SetRow(sched.phase, new)
        /\ Goto("deciding") \/ sched' = SchedIdle
    BY <1>0, <1>14 DEF AdvanceApproved, SchedInv, At, EndTick
  <2>2. row'[q] = row[q] /\ row[q].status # "running"
    BY <1>q, <1>w, <2>1 DEF Restarting
  <2>3. sched'.at \in {"deciding", "idle"}
    BY <1>0, <2>1 DEF Goto, Sched, SchedIdle
  <2> QED
    BY <1>z, <2>2, <2>3 DEF Restarting, Reports
<1>15. CASE DecideApproved
  <2>1. /\ sched.phase \in Proposals /\ TheWork /\ sched' = SchedIdle
        /\ SetRow(sched.phase, Decided(sched.phase, "system"))
    BY <1>0, <1>15 DEF DecideApproved, SchedInv, At, EndTick
  <2> QED
    BY <1>e, <1>w, <1>z, <1>id, <2>1

<1>rv. ASSUME NEW p \in Phases, Reviewing(p)
       PROVE  /\ sched.at = "recovering" /\ sched.next \in 1..7 /\ p = PhaseOrder[sched.next]
              /\ Reviewed = sched.seen[p] /\ sched.at \in Restarting /\ Unreviewed(p)
  <2>1. /\ sched.at = "recovering" /\ sched.next <= 7 /\ p = PhaseOrder[sched.next]
        /\ Reviewed = sched.seen[p]
    BY <1>rv, PhaseNames DEF Reviewing, At, Reviewed
  <2>2. sched.next \in 1..8
    BY <1>0, <2>1 DEF SchedInv, Restarting
  <2> QED
    BY <2>1, <2>2, PhaseNames DEF Restarting, Unreviewed
\* Recovery goes on to the next row.
<1>nx. ASSUME sched.at \in Restarting, sched.next \in 1..7, NextRow,
              row'[q].status = "running" => feature'.work = WorkOf[q],
              (/\ Unreviewed(q) /\ q # PhaseOrder[sched.next]
               /\ sched.seen[q].status = "running") => feature'.work = WorkOf[q]
       PROVE  WithItsPhase(q)'
  <2>1. sched'.at = "recovering" /\ sched'.seen = sched.seen /\ sched'.phase = NoPhase
    BY <1>0, <1>nx DEF NextRow, Sched
  <2>2. Unreviewed(q)' => Unreviewed(q) /\ q # PhaseOrder[sched.next]
    BY <1>0, <1>nx, StillUnreviewed
  <2> QED
    BY <1>0, <1>nx, <2>1, <2>2, PhaseNames DEF WithItsPhase, In
<1>16. ASSUME NEW p \in Phases, RecoverRow(p) PROVE WithItsPhase(q)'
  <2>1. Reviewing(p) /\ SetRow(p, Recovered(p)) /\ NextRow /\ UNCHANGED feature
    BY <1>16 DEF RecoverRow
  <2>2. Recovered(p) = row[p] \/ Recovered(p).status \in {"ready", "cancelled"}
    BY <1>0 DEF Recovered, System, Row
  <2>3. row'[q].status = "running" => row[q].status = "running"
    BY <1>0, <2>1, <2>2, OneRow
  <2> QED
    BY <1>0, <1>e, <1>i, <1>nx, <1>rv, <2>1, <2>3 DEF In
<1>17. ASSUME NEW p \in Phases, RecoverReplays(p) PROVE WithItsPhase(q)'
  <2>1. /\ Reviewing(p) /\ NextRow /\ UNCHANGED row /\ Reviewed.status = "completed"
        /\ p \notin Proposals /\ In(p)
    BY <1>17 DEF RecoverReplays, Replayed
  <2>2. ~ (Unreviewed(q) /\ sched.seen[q].status = "running")
    BY <1>0, <1>i, <1>rv, <2>1, WorkNames DEF In
  <2>3. row[q].status # "running"
    <3>1. row[q].status = "running" => Attended(q)
      BY <1>0 DEF AttendedInv, Busy
    <3> QED
      BY <1>rv, <2>1, <2>2, <3>1 DEF Attended, InHand, Listed, At
  <2> QED
    BY <1>nx, <1>rv, <2>1, <2>2, <2>3
<1>18. ASSUME NEW p \in Phases, RecoverDispatches(p) PROVE WithItsPhase(q)'
  <2>1. /\ Reviewing(p) /\ UNCHANGED << row, feature >>
        /\ Reviewed.status = "running" \/ In(p)
        /\ sched' = [sched EXCEPT !.at = "reparked", !.phase = p]
    BY <1>18 DEF RecoverDispatches, Begin, Redispatched, Replayed
  <2>2. /\ sched'.at = "reparked" /\ sched'.next = sched.next /\ sched'.seen = sched.seen
        /\ sched'.phase = p
    BY <1>0, <2>1 DEF Sched
  <2>3. feature'.work = feature.work
    BY <1>e, <2>1
  <2>4. Unreviewed(q)' <=> Unreviewed(q)
    BY <2>2 DEF Unreviewed
  <2> QED
    BY <1>0, <1>i, <1>rv, <2>1, <2>2, <2>3, <2>4 DEF WithItsPhase, In
<1>rd. ASSUME sched.at = "recovered"
       PROVE  /\ sched.at \in Restarting /\ sched.next \in 1..7 /\ sched.phase \in Phases
              /\ sched.phase = PhaseOrder[sched.next] /\ Unreviewed(sched.phase)
  <2>1. /\ sched.at \in Restarting /\ sched.next \in 1..7 /\ sched.phase \in Phases
        /\ sched.phase = PhaseOrder[sched.next]
    BY <1>0, <1>rd DEF SchedInv, Restarting
  <2> QED
    BY <2>1, PhaseNames DEF Unreviewed
<1>19. CASE RecoverReports
  <2> DEFINE p == sched.phase
             counted == [row[p] EXCEPT !.restarts = Reviewed.restarts + 1]
             asked == [counted EXCEPT !.status = "await_approval", !.owner = "manual",
                                      !.payload = "agent"]
             done == [counted EXCEPT !.status = "completed", !.owner = "system"]
             new == IF p \in Proposals THEN asked ELSE done
  <2>1. /\ sched.at = "recovered" /\ SetRow(p, new) /\ NextRow
        /\ p \in Proposals => UNCHANGED feature
    BY <1>19 DEF RecoverReports, At
  <2>2. new.status \in {"await_approval", "completed"}
    <3>1. "status" \in DOMAIN counted
      BY <1>0, <1>rd, <2>1 DEF Row
    <3> HIDE DEF counted
    <3> QED
      BY <3>1
  <2> HIDE DEF new
  <2>3. IF q = p THEN row'[q].status # "running" ELSE row'[q] = row[q]
    BY <1>0, <1>rd, <2>1, <2>2, OneRow
  <2>4. CASE p \in Proposals
    BY <1>0, <1>e, <1>i, <1>nx, <1>rd, <2>1, <2>3, <2>4 DEF In
  <2>5. CASE p \notin Proposals
    <3>1. In(p)
      BY <1>i, <1>rd, <2>1, <2>5
    <3>2. q # p => ~ In(q)
      BY <1>0, <1>rd, <2>1, <3>1, WorkNames DEF In
    <3> QED
      BY <1>0, <1>i, <1>nx, <1>rd, <2>1, <2>3, <3>2 DEF In
  <2> QED
    BY <2>4, <2>5
<1>20. CASE RecoveryDies
  <2> DEFINE p == sched.phase
             new == IF sched.result \in {"ok", "bad"} THEN System(p, "completed") ELSE row[p]
  <2>1. sched.at = "recovered" /\ SetRow(p, new) /\ Goto("down") /\ UNCHANGED feature
    BY <1>20 DEF RecoveryDies, At
  <2>2. new = row[p] \/ new.status = "completed"
    BY <1>0, <1>rd, <2>1, SystemRow DEF Statuses
  <2> HIDE DEF new
  <2>3. row'[q].status # "running" \/ row'[q] = row[q]
    BY <1>0, <1>rd, <2>1, <2>2, OneRow
  <2>4. sched'.at = "down"
    BY <1>0, <2>1 DEF Goto, Sched
  <2> QED
    BY <1>e, <1>z, <2>1, <2>3, <2>4 DEF Restarting, Reports
<1>21. CASE RecoveryDone
  BY <1>21, <1>e, <1>z, <1>id DEF RecoveryDone, EndTick
<1>22. CASE OtherEvents
  <2>1. sched.at = "idle" /\ UNCHANGED << row, sched >>
    BY <1>22
    DEF OtherEvents, OtherEvent, TasksLand, TasksFail, FeatureLands, IntegrationFails, At
  <2> QED
    BY <1>q, <1>z, <2>1 DEF Restarting, Reports
<1>23. ASSUME NEW p \in Proposals,
              \/ Attach(p) \/ Release(p) \/ OpenDraft(p)
              \/ \E k \in {"approve", "reject", "rerun"} : Ask(k, p)
       PROVE  WithItsPhase(q)'
  <2>1. /\ UNCHANGED << sched, feature >>
        /\ UNCHANGED row \/ \E new : SetRow(p, new)
    BY <1>23 DEF Attach, Release, OpenDraft, Ask
  <2> QED
    BY <1>e, <1>s, <1>w, <2>1
<1>24. CASE SubmitDraft \/ DiscardDraft
  <2>1. /\ UNCHANGED << sched, feature >> /\ draft \in Proposals
        /\ UNCHANGED row \/ \E new : SetRow(draft, new)
    BY <1>24 DEF SubmitDraft, DiscardDraft, TypeInv, UserTyped
  <2> QED
    BY <1>e, <1>s, <1>w, <2>1
<1>25. CASE CancelPhases
  BY <1>0, <1>25 DEF CancelPhases, Standing
<1>26. CASE CrashPhases \/ UserRestarts
  <2>1. /\ row' = row /\ UNCHANGED feature
        /\ sched' = [SchedIdle EXCEPT !.at = "recovering", !.next = 1, !.seen = row]
    BY <1>26 DEF CrashPhases, UserRestarts, Restart
  <2>2. sched'.at = "recovering" /\ sched'.seen = row /\ sched'.phase = NoPhase
    BY <2>1 DEF SchedIdle
  <2> QED
    BY <1>0, <1>e, <1>i, <2>1, <2>2, PhaseNames DEF WithItsPhase, In
<1>27. CASE UNCHANGED phaseVars
  BY <1>27, <1>e, <1>s DEF phaseVars
<1> QED
  BY <1>1, <1>2, <1>3, <1>4, <1>5, <1>6, <1>7, <1>8, <1>9, <1>10, <1>11, <1>12, <1>13, <1>14,
     <1>15, <1>16, <1>17, <1>18, <1>19, <1>20, <1>21, <1>22, <1>23, <1>24, <1>25, <1>26, <1>27
  DEF PhasesNext, Loop, Reporting, Requests, Recovering, Dispatching, Ending, Commands

----------------------------------------------------------------------------
(* What waits in the merge train was checked as it is *)

RowVerdict ==
    \A c \in Checks : /\ judged[c] <= pass
                      /\ row[c].status # "none" => pass >= 1
                      /\ first[c] = "ok" => judged[c] >= 1

LoopVerdict ==
    /\ \A c \in Checks :
          /\ sched.at \in Restarting /\ sched.seen[c].status # "none" => pass >= 1
          /\ sched.phase = c => pass >= 1
          /\ sched.phase = c /\ sched.result = "ok" /\ sched.at \in {"recovered"} \cup Reports
                => judged[c] = pass
    /\ sched.at \in Restarting \cup {"down"} => pass <= 1

WorkVerdict ==
    /\ \A c \in Checks : In(c) => pass >= 1
    /\ feature.work = "verifying" => judged["ci_check"] = pass
    /\ feature.work = "awaiting_merge" => \A c \in Checks : judged[c] = pass
    /\ feature.collab = "merge_queued" => feature.work = "awaiting_merge"

VerdictInv == RowVerdict /\ LoopVerdict /\ WorkVerdict

\* The advance after a phase, with the verdict of that phase.
LEMMA AdvanceVerdict ==
    ASSUME TypeInv, RowVerdict, WorkVerdict, NEW p \in Phases \ Proposals, In(p),
           NEW result \in Verdicts,
           result = "ok" /\ p \in Checks => judged[p] = pass,
           feature' = After(p, result), UNCHANGED << pass, judged >>
    PROVE  WorkVerdict'
<1>0. /\ feature \in [work : WorkControl, collab : CollabControl]
      /\ WorkOf["ci_check"] = "ci_check" /\ WorkOf["verify"] = "verifying"
      /\ Checks = {"ci_check", "verify"}
  BY WorkNames DEF TypeInv, WorkTyped, Checks
<1>1. feature.work # "awaiting_merge" /\ feature.collab # "merge_queued"
  BY WorkNames DEF In, WorkVerdict
<1>2. CASE p = "ci_check" /\ result = "ok"
  <2>1. feature'.work = "verifying" /\ feature'.collab = feature.collab
    BY <1>0, <1>2, AfterWork
  <2>2. judged["ci_check"] = pass /\ pass >= 1
    BY <1>0, <1>2 DEF WorkVerdict
  <2> QED
    BY <1>0, <1>1, <2>1, <2>2 DEF WorkVerdict, In
<1>3. CASE p = "verify" /\ result = "ok"
  <2>1. feature'.work = "awaiting_merge"
    BY <1>0, <1>3, AfterWork
  <2>2. \A c \in Checks : judged[c] = pass
    BY <1>0, <1>3 DEF WorkVerdict, In
  <2> QED
    BY <1>0, <2>1, <2>2 DEF WorkVerdict, In
<1>4. CASE ~ (p = "ci_check" /\ result = "ok") /\ ~ (p = "verify" /\ result = "ok")
  <2>1. /\ feature'.work \notin {"awaiting_merge", "ci_check", "verifying"}
        /\ feature'.collab = feature.collab
    BY <1>0, <1>4, AfterWork
  <2> QED
    BY <1>0, <1>1, <2>1 DEF WorkVerdict, In
<1> QED
  BY <1>2, <1>3, <1>4

\* Every step keeps the verdicts with the version they are about.
LEMMA VerdictStep ==
    ASSUME LastCrashPass <= 1, TypeInv, AttendedInv, InItsPhase, VerdictInv,
           [PhasesNext]_phaseVars
    PROVE  VerdictInv'
<1>0. /\ RowsTyped /\ sched \in Sched /\ SchedInv /\ row \in [Phases -> Row]
      /\ feature \in [work : WorkControl, collab : CollabControl]
      /\ pass \in Nat /\ judged \in [Checks -> Nat]
      /\ first \in [Phases -> {"none"} \cup Verdicts]
      /\ RowVerdict /\ LoopVerdict /\ WorkVerdict
  BY PhaseConstants DEF TypeInv, RowsTyped, LoopTyped, WorkTyped, VerdictInv
<1>c. Checks \subseteq Phases /\ Checks \cap Proposals = {} /\ NoPhase \notin Checks
  BY PhaseNames
<1>w. TheWork => WorkVerdict'
  BY <1>0 DEF TheWork, WorkVerdict, In
<1>r. UNCHANGED << row, first, pass, judged >> => RowVerdict'
  BY <1>0 DEF RowVerdict
\* One row is written, of a check only when there is a version to check.
<1>p. ASSUME NEW p \in Phases, NEW new, SetRow(p, new), p \in Checks => pass >= 1,
             UNCHANGED << first, pass, judged >>
      PROVE  RowVerdict'
  <2>1. \A c \in Checks : row'[c] = row[c] \/ c = p
    BY <1>0, <1>c, <1>p, OneRow
  <2> QED
    BY <1>0, <1>p, <2>1 DEF RowVerdict
<1>l. UNCHANGED << sched, pass, judged >> => LoopVerdict'
  BY <1>0 DEF LoopVerdict
<1>i. sched' = SchedIdle => LoopVerdict'
  BY <1>c DEF LoopVerdict, SchedIdle, Restarting, Reports
<1>o. sched'.phase \in Proposals /\ sched'.at \notin Restarting \cup {"down"} => LoopVerdict'
  BY <1>c DEF LoopVerdict
<1>n. NextRow /\ sched.at \in Restarting /\ UNCHANGED << pass, judged >> => LoopVerdict'
  <2>1. NextRow => sched'.phase = NoPhase /\ sched'.seen = sched.seen
    BY <1>0 DEF NextRow, Sched
  <2> QED
    BY <1>0, <1>c, <2>1 DEF LoopVerdict
<1>q. RowVerdict' /\ LoopVerdict' /\ WorkVerdict' => VerdictInv'
  BY DEF VerdictInv

<1>1. ASSUME NEW p \in Phases, DispatchPhase(p) PROVE VerdictInv'
  <2>1. /\ SetRow(p, Started(p)) /\ In(p) /\ TheWork /\ UNCHANGED first
        /\ sched' = [sched EXCEPT !.at = "parked", !.phase = p]
    BY <1>1 DEF DispatchPhase, At, Begin, Dispatchable
  <2>2. p \in Checks => pass >= 1
    BY <1>0, <2>1 DEF WorkVerdict
  <2>3. sched'.at = "parked" /\ sched'.phase = p
    BY <1>0, <2>1 DEF Sched
  <2>4. LoopVerdict'
    BY <2>1, <2>2, <2>3 DEF LoopVerdict, Restarting, Reports, TheWork
  <2> QED
    BY <1>p, <1>w, <1>q, <2>1, <2>2, <2>4 DEF TheWork
<1>2. ASSUME NEW p \in Phases, DispatchFails(p) PROVE VerdictInv'
  <2>1. /\ In(p) /\ TheWork /\ UNCHANGED first /\ \E new : SetRow(p, new)
        /\ sched' = [sched EXCEPT !.at = "erroring", !.phase = p, !.result = "permanent"]
    BY <1>2 DEF DispatchFails, At, Dispatchable
  <2>2. p \in Checks => pass >= 1
    BY <1>0, <2>1 DEF WorkVerdict
  <2>3. sched'.at = "erroring" /\ sched'.phase = p
    BY <1>0, <2>1 DEF Sched
  <2>4. LoopVerdict'
    BY <2>1, <2>2, <2>3 DEF LoopVerdict, Restarting, Reports, TheWork
  <2> QED
    BY <1>p, <1>w, <1>q, <2>1, <2>2, <2>4 DEF TheWork
<1>h. InSession => /\ sched.phase = session.phase /\ sched.phase \in Phases
                   /\ sched.at \in {"parked", "reparked"}
  BY <1>0 DEF SchedInv, InSession, At
<1>y. ASSUME NEW c \in Checks, sched.phase = c PROVE pass >= 1
  BY <1>0, <1>y DEF LoopVerdict
<1>3. CASE RequestHelp \/ AnswerHelp
  <2>1. /\ InSession /\ UNCHANGED << sched, first >> /\ TheWork
        /\ \E new : SetRow(session.phase, new)
    BY <1>3 DEF RequestHelp, AnswerHelp, SessionOnly
  <2> QED
    BY <1>h, <1>l, <1>p, <1>w, <1>q, <1>y, <2>1 DEF TheWork
<1>4. ASSUME NEW result \in {"ok", "bad", "transient", "permanent"}, SessionEnds(result)
      PROVE  VerdictInv'
  <2> DEFINE p == session.phase
  <2>1. /\ InSession /\ UNCHANGED << feature, pass, first >>
        /\ \E new : SetRow(p, new)
        /\ sched' = [sched EXCEPT !.result = result, !.at = sched'.at]
        /\ sched'.at =
              CASE At("reparked") -> "recovered"
                [] At("parked") /\ result \in {"ok", "bad"} -> "ended"
                [] At("parked") /\ result \in {"transient", "permanent"} /\ Standing
                      -> "erroring"
                [] OTHER -> "idle"
        /\ judged' = IF p \in Checks /\ result = "ok"
                        THEN [judged EXCEPT ![p] = pass] ELSE judged
    BY <1>0, <1>4 DEF SessionEnds, Sched
  <2>2. /\ sched'.at \in {"recovered", "ended", "erroring", "idle"}
        /\ sched'.at = "recovered" => sched.at = "reparked"
    BY <2>1 DEF InSession, At
  <2>3. /\ sched'.phase = sched.phase /\ sched'.result = result /\ sched'.seen = sched.seen
        /\ p = sched.phase /\ p \in Phases
    BY <1>0, <1>h, <2>1 DEF Sched
  <2>4. p \in Checks => pass >= 1
    BY <1>y, <2>3
  <2>5. \A c \in Checks : judged'[c] = IF c = p /\ result = "ok" THEN pass ELSE judged[c]
    BY <1>0, <2>1
  <2>6. RowVerdict'
    <3>1. \A c \in Checks : row'[c] = row[c] \/ c = p
      BY <1>0, <1>c, <2>1, <2>3, OneRow
    <3> QED
      BY <1>0, <2>1, <2>4, <2>5, <3>1 DEF RowVerdict
  <2>7. LoopVerdict'
    <3>1. sched'.at \in Restarting \cup {"down"} => sched.at \in Restarting
      BY <2>2 DEF Restarting
    <3> QED
      BY <1>0, <2>1, <2>3, <2>4, <2>5, <3>1 DEF LoopVerdict, Restarting
  <2>8. WorkVerdict'
    BY <1>0, <2>1, <2>5 DEF WorkVerdict, In, Checks
  <2> QED
    BY <1>q, <2>6, <2>7, <2>8
<1>5. CASE ReportWritesRow
  <2>1. /\ sched.phase \in Phases /\ sched.at = "ended" /\ TheWork /\ UNCHANGED first
        /\ \E new : SetRow(sched.phase, new)
        /\ Goto("filing") \/ sched' = SchedIdle
    BY <1>0, <1>5 DEF ReportWritesRow, SchedInv, At, Reports, EndTick
  <2>2. Goto("filing") => LoopVerdict'
    <3>1. Goto("filing") => /\ sched'.at = "filing" /\ sched'.phase = sched.phase
                            /\ sched'.result = sched.result
      BY <1>0 DEF Goto, Sched
    <3> QED
      BY <1>0, <2>1, <3>1 DEF LoopVerdict, Restarting, Reports, TheWork
  <2> QED
    BY <1>i, <1>p, <1>w, <1>q, <1>y, <2>1, <2>2 DEF TheWork
<1>f. ASSUME sched.at \in {"recovered"} \cup Reports, sched.result \in Verdicts,
             sched.phase \in Phases, first' = Filed(sched.phase, sched.result)
      PROVE  \A c \in Checks : first'[c] = "ok" => judged[c] >= 1
  <2>1. \A c \in Checks : \/ first'[c] = first[c]
                          \/ c = sched.phase /\ first'[c] = sched.result
    BY <1>0, <1>c, <1>f DEF Filed
  <2>2. ASSUME NEW c \in Checks, c = sched.phase, sched.result = "ok" PROVE judged[c] >= 1
    BY <1>0, <1>f, <2>2 DEF LoopVerdict
  <2> QED
    BY <1>0, <2>1, <2>2 DEF RowVerdict
<1>6. CASE ReportWritesEvent
  <2>1. /\ sched.phase \in Phases /\ sched.at = "filing" /\ sched.result \in Verdicts
        /\ TheWork /\ UNCHANGED row /\ first' = Filed(sched.phase, sched.result)
        /\ Goto("advancing") \/ sched' = SchedIdle
    BY <1>0, <1>6 DEF ReportWritesEvent, SchedInv, At, Reports, EndTick
  <2>2. Goto("advancing") => LoopVerdict'
    <3>1. Goto("advancing") => /\ sched'.at = "advancing" /\ sched'.phase = sched.phase
                               /\ sched'.result = sched.result
      BY <1>0 DEF Goto, Sched
    <3> QED
      BY <1>0, <2>1, <3>1 DEF LoopVerdict, Restarting, Reports, TheWork
  <2>3. RowVerdict'
    BY <1>0, <1>f, <2>1 DEF RowVerdict, TheWork, Reports
  <2> QED
    BY <1>i, <1>w, <1>q, <2>1, <2>2, <2>3
<1>7. CASE ReportAdvances
  <2> DEFINE p == sched.phase
  <2>1. /\ p \in Phases \ Proposals /\ sched.at = "advancing" /\ sched.result \in Verdicts
        /\ Standing /\ feature' = After(p, sched.result) /\ sched' = SchedIdle
        /\ UNCHANGED << pass, judged, row, first >>
    BY <1>0, <1>7 DEF ReportAdvances, SchedInv, At, Reports, EndTick
  <2>2. In(p)
    BY <2>1 DEF InItsPhase, WithItsPhase, Reports
  <2>3. sched.result = "ok" /\ p \in Checks => judged[p] = pass
    BY <1>0, <2>1 DEF LoopVerdict, Reports
  <2>4. WorkVerdict'
    BY <1>0, <2>1, <2>2, <2>3, AdvanceVerdict
  <2> QED
    BY <1>i, <1>r, <1>q, <2>1, <2>4
<1>8. CASE HandleError
  <2>1. /\ sched.phase \in Phases /\ TheWork /\ UNCHANGED first /\ sched' = SchedIdle
        /\ \E new : SetRow(sched.phase, new)
    BY <1>0, <1>8 DEF HandleError, SchedInv, At, EndTick
  <2> QED
    BY <1>i, <1>p, <1>w, <1>q, <1>y, <2>1 DEF TheWork
<1>v. ASSUME NEW kind, Handle(kind)
      PROVE  /\ sched.at = "idle"
             /\ Request.phase \in Proposals /\ Request.phase \in Phases \ Checks
  <2>1. queue \in Seq(Requested) /\ queue # <<>> /\ sched.at = "idle"
    BY <1>v DEF Handle, TypeInv, UserTyped, At
  <2>2. Head(queue) \in Requested
    BY <2>1
  <2> QED
    BY <2>1, <2>2, PhaseNames DEF Request, Requested
<1>9. CASE DropRequest
  BY <1>9, <1>l, <1>r, <1>w, <1>q DEF DropRequest, TheWork
<1>10. CASE HandleRerun
  <2>1. /\ sched' = [sched EXCEPT !.at = "deleting", !.phase = Request.phase]
        /\ TheWork /\ UNCHANGED << row, first >> /\ Request.phase \in Proposals
    BY <1>10, <1>v DEF HandleRerun
  <2>2. sched'.at = "deleting" /\ sched'.phase = Request.phase
    BY <1>0, <2>1 DEF Sched
  <2> QED
    BY <1>o, <1>r, <1>w, <1>q, <2>1, <2>2 DEF Restarting, TheWork
<1>11. CASE RerunReady \/ DecideApproved
  <2>1. /\ sched.phase \in Phases \ Checks /\ TheWork /\ UNCHANGED first
        /\ sched' = SchedIdle /\ \E new : SetRow(sched.phase, new)
    BY <1>0, <1>11, PhaseNames DEF RerunReady, DecideApproved, SchedInv, At, EndTick
  <2> QED
    BY <1>i, <1>p, <1>w, <1>q, <2>1 DEF TheWork
<1>12. CASE HandleReject
  <2>1. /\ Request.phase \in Phases \ Checks /\ TheWork /\ UNCHANGED << first, sched >>
        /\ SetRow(Request.phase, Decided(Request.phase, "manual"))
    BY <1>12, <1>v DEF HandleReject
  <2> QED
    BY <1>l, <1>p, <1>w, <1>q, <2>1 DEF TheWork
<1>m. ASSUME UNCHANGED << pass, judged >>,
             feature' = feature \/ feature' = [feature EXCEPT !.collab = "cancelled"]
      PROVE  WorkVerdict'
  BY <1>0, <1>m DEF WorkVerdict, In
<1>13. ASSUME NEW outcome \in {"advances", "stays", "empty", "throws"}, HandleApprove(outcome)
       PROVE  VerdictInv'
  <2>1. /\ Request.phase \in Proposals /\ Request.phase \in Phases \ Checks
        /\ UNCHANGED row \/ \E new : SetRow(Request.phase, new)
        /\ UNCHANGED << pass, judged, first >>
        /\ feature' = feature \/ feature' = [feature EXCEPT !.collab = "cancelled"]
        /\ \/ UNCHANGED sched
           \/ sched' = [sched EXCEPT !.at = "branching", !.phase = Request.phase]
    BY <1>13, <1>v DEF HandleApprove
  <2>2. RowVerdict'
    BY <1>p, <1>r, <2>1
  <2>3. LoopVerdict'
    <3>1. \/ UNCHANGED sched
          \/ sched'.at = "branching" /\ sched'.phase = Request.phase
      BY <1>0, <2>1 DEF Sched
    <3> QED
      BY <1>l, <1>o, <2>1, <3>1 DEF Restarting
  <2> QED
    BY <1>m, <1>q, <2>1, <2>2, <2>3
<1>14. CASE AdvanceApproved
  <2>1. /\ sched.phase \in Proposals /\ sched.phase \in Phases \ Checks
        /\ UNCHANGED row \/ \E new : SetRow(sched.phase, new)
        /\ Goto("deciding") \/ sched' = SchedIdle
        /\ \/ UNCHANGED feature
           \/ feature' = [work |-> "executing", collab |-> "branch_open"]
        /\ UNCHANGED << pass, judged, first >>
    BY <1>0, <1>14, PhaseNames DEF AdvanceApproved, SchedInv, At, EndTick
  <2>2. RowVerdict'
    BY <1>p, <1>r, <2>1
  <2>3. LoopVerdict'
    <3>1. Goto("deciding") => sched'.at = "deciding" /\ sched'.phase = sched.phase
      BY <1>0 DEF Goto, Sched
    <3> QED
      BY <1>i, <1>o, <2>1, <3>1 DEF Restarting
  <2>4. WorkVerdict'
    <3>1. CASE UNCHANGED feature
      BY <1>m, <2>1, <3>1
    <3>2. CASE feature' = [work |-> "executing", collab |-> "branch_open"]
      BY <3>2, <1>c, WorkNames DEF WorkVerdict, In
    <3> QED
      BY <2>1, <3>1, <3>2
  <2> QED
    BY <1>q, <2>2, <2>3, <2>4

<1>rv. ASSUME NEW p \in Phases, Reviewing(p)
       PROVE  /\ sched.at = "recovering" /\ sched.at \in Restarting
              /\ Reviewed = sched.seen[p]
              /\ p \in Checks /\ Reviewed.status # "none" => pass >= 1
              /\ pass <= 1
  <2>1. sched.at = "recovering" /\ Reviewed = sched.seen[p] /\ sched.at \in Restarting
    BY <1>rv DEF Reviewing, At, Reviewed, Restarting
  <2> QED
    BY <1>0, <2>1 DEF LoopVerdict
<1>15. ASSUME NEW p \in Phases, RecoverRow(p) PROVE VerdictInv'
  <2>1. /\ Reviewing(p) /\ SetRow(p, Recovered(p)) /\ NextRow
        /\ UNCHANGED << feature, pass, judged >>
        /\ p \notin Proposals => UNCHANGED first
        /\ UNCHANGED first \/ first' = Filed(p, "ok")
    BY <1>15 DEF RecoverRow, RecoveryOnly
  <2>2. RowVerdict'
    <3>1. \A c \in Checks : first'[c] = first[c]
      BY <1>0, <1>c, <2>1 DEF Filed
    <3>2. \A c \in Checks : row'[c] = row[c] \/ c = p
      BY <1>0, <1>c, <2>1, OneRow
    <3>3. Reviewed.status = "none" => Recovered(p) = row[p]
      BY DEF Recovered
    <3>4. row'[p] = Recovered(p)
      BY <1>0, <2>1, OneRow
    <3> QED
      BY <1>0, <1>rv, <2>1, <3>1, <3>2, <3>3, <3>4 DEF RowVerdict
  <2> QED
    BY <1>m, <1>n, <1>q, <1>rv, <2>1, <2>2
<1>16. ASSUME NEW p \in Phases, RecoverReplays(p) PROVE VerdictInv'
  <2>1. /\ Reviewing(p) /\ p \in Phases \ Proposals /\ In(p) /\ first[p] \in Verdicts
        /\ feature' = After(p, first[p]) /\ NextRow
        /\ UNCHANGED << pass, judged, row, first >>
    BY <1>0, <1>16 DEF RecoverReplays, Replayed, RecoveryOnly
  <2>2. first[p] = "ok" /\ p \in Checks => judged[p] = pass
    <3>1. first[p] = "ok" /\ p \in Checks => judged[p] >= 1 /\ judged[p] <= pass
      BY <1>0 DEF RowVerdict
    <3> QED
      BY <1>0, <1>rv, <2>1, <3>1
  <2>3. WorkVerdict'
    BY <1>0, <2>1, <2>2, AdvanceVerdict
  <2> QED
    BY <1>n, <1>r, <1>q, <1>rv, <2>1, <2>3
<1>17. ASSUME NEW p \in Phases, RecoverDispatches(p) PROVE VerdictInv'
  <2>1. /\ Reviewing(p) /\ UNCHANGED << row, feature, first, pass, judged >>
        /\ Reviewed.status # "none"
        /\ sched' = [sched EXCEPT !.at = "reparked", !.phase = p]
    BY <1>17 DEF RecoverDispatches, RecoveryOnly, Begin, Redispatched, Replayed
  <2>2. sched'.at = "reparked" /\ sched'.phase = p /\ sched'.seen = sched.seen
    BY <1>0, <2>1 DEF Sched
  <2>3. LoopVerdict'
    BY <1>0, <1>rv, <2>1, <2>2 DEF LoopVerdict, Reports
  <2> QED
    BY <1>m, <1>r, <1>q, <2>1, <2>3
<1>rd. sched.at = "recovered" => sched.at \in Restarting /\ sched.phase \in Phases
  BY <1>0 DEF SchedInv, Restarting
<1>18. CASE RecoverReports
  <2> DEFINE p == sched.phase
  <2>1. /\ sched.at = "recovered" /\ sched.result \in Verdicts /\ NextRow
        /\ \E new : SetRow(p, new)
        /\ first' = Filed(p, sched.result)
        /\ feature' = IF p \in Proposals THEN feature ELSE After(p, sched.result)
        /\ Standing \/ p \in Proposals
        /\ UNCHANGED << pass, judged >>
    BY <1>18 DEF RecoverReports, RecoveryOnly, At, Verdicts
  <2>2. p \in Phases /\ sched.at \in Restarting
    BY <1>rd, <2>1
  <2>3. RowVerdict'
    <3>1. \A c \in Checks : row'[c] = row[c] \/ c = p
      BY <1>0, <1>c, <2>1, <2>2, OneRow
    <3> QED
      BY <1>0, <1>f, <1>y, <2>1, <2>2, <3>1 DEF RowVerdict
  <2>4. WorkVerdict'
    <3>1. CASE p \in Proposals
      BY <1>m, <2>1, <3>1
    <3>2. CASE p \notin Proposals
      <4>1. In(p)
        BY <2>1, <2>2, <3>2 DEF InItsPhase, WithItsPhase
      <4>2. sched.result = "ok" /\ p \in Checks => judged[p] = pass
        BY <1>0, <2>1 DEF LoopVerdict
      <4> QED
        BY <1>0, <2>1, <2>2, <3>2, <4>1, <4>2, AdvanceVerdict
    <3> QED
      BY <3>1, <3>2
  <2> QED
    BY <1>n, <1>q, <2>1, <2>2, <2>3, <2>4
<1>19. CASE RecoveryDies
  <2>1. /\ sched.at = "recovered" /\ Goto("down") /\ \E new : SetRow(sched.phase, new)
        /\ UNCHANGED << feature, first, pass, judged >>
    BY <1>19 DEF RecoveryDies, RecoveryOnly, At
  <2>2. sched'.at = "down" /\ sched'.phase = sched.phase
    BY <1>0, <2>1 DEF Goto, Sched
  <2>3. LoopVerdict'
    BY <1>0, <1>rd, <2>1, <2>2 DEF LoopVerdict, Restarting, Reports
  <2> QED
    BY <1>m, <1>p, <1>q, <1>rd, <1>y, <2>1, <2>3
<1>20. CASE RecoveryDone
  BY <1>20, <1>i, <1>m, <1>r, <1>q DEF RecoveryDone, RecoveryOnly, EndTick
<1>21. CASE OtherEvents
  <2>1. OtherEvent /\ sched.at = "idle" /\ UNCHANGED << judged, row, first, sched >>
    BY <1>21
    DEF OtherEvents, OtherEvent, TasksLand, TasksFail, FeatureLands, IntegrationFails, At
  <2>2. /\ pass' = pass \/ pass' = pass + 1
        /\ pass' = pass + 1 =>
              /\ feature.work = "executing" /\ feature'.work = "ci_check"
              /\ feature'.collab = feature.collab
        /\ pass' = pass =>
              /\ feature'.work \notin {"ci_check", "verifying", "awaiting_merge"}
              /\ \/ feature'.collab # "merge_queued"
                 \/ feature.work = "executing" /\ feature'.collab = feature.collab
    <3>1. CASE TasksLand
      BY <1>0, <3>1 DEF TasksLand
    <3>2. CASE TasksFail
      BY <1>0, <3>2 DEF TasksFail
    <3>3. CASE IntegrationFails \/ \E summary \in BOOLEAN : FeatureLands(summary)
      BY <1>0, <3>3 DEF IntegrationFails, FeatureLands
    <3> QED
      BY <1>21, <3>1, <3>2, <3>3 DEF OtherEvents
  <2>3. RowVerdict'
    BY <1>0, <2>1, <2>2 DEF RowVerdict
  <2>4. LoopVerdict'
    BY <1>0, <2>1, <2>2 DEF LoopVerdict, Restarting, Reports
  <2>5. WorkVerdict'
    <3>1. CASE pass' = pass + 1
      BY <1>0, <2>2, <3>1 DEF WorkVerdict, In
    <3>2. CASE pass' = pass
      BY <1>0, <2>2, <3>2, WorkNames DEF WorkVerdict, In, Checks
    <3> QED
      BY <2>2, <3>1, <3>2
  <2> QED
    BY <1>q, <2>3, <2>4, <2>5
<1>22. ASSUME NEW p \in Proposals,
              \/ Attach(p) \/ Release(p) \/ OpenDraft(p)
              \/ \E k \in {"approve", "reject", "rerun"} : Ask(k, p)
       PROVE  VerdictInv'
  <2>1. /\ UNCHANGED << sched, feature, pass, judged, first >> /\ p \in Phases \ Checks
        /\ UNCHANGED row \/ \E new : SetRow(p, new)
    BY <1>22, PhaseNames DEF Attach, Release, OpenDraft, Ask, Operator
  <2> QED
    BY <1>l, <1>m, <1>p, <1>r, <1>q, <2>1
<1>23. CASE SubmitDraft \/ DiscardDraft
  <2>1. /\ UNCHANGED << sched, feature, pass, judged, first >> /\ draft \in Phases \ Checks
        /\ UNCHANGED row \/ \E new : SetRow(draft, new)
    BY <1>23, PhaseNames DEF SubmitDraft, DiscardDraft, TypeInv, UserTyped, Operator
  <2> QED
    BY <1>l, <1>m, <1>p, <1>r, <1>q, <2>1
<1>24. CASE CancelPhases
  <2>1. /\ feature' = [feature EXCEPT !.collab = "cancelled"]
        /\ UNCHANGED << sched, pass, judged, first >>
        /\ row' = [p \in Phases |->
                     IF row[p].status = "none" THEN row[p]
                     ELSE [row[p] EXCEPT !.status = "cancelled", !.owner = "system",
                                         !.attention = "none"]]
    BY <1>24 DEF CancelPhases, Operator
  <2>2. \A c \in Checks : row'[c].status # "none" => row[c].status # "none"
    BY <1>0, <1>c, <2>1
  <2>3. RowVerdict'
    BY <1>0, <2>1, <2>2 DEF RowVerdict
  <2> QED
    BY <1>l, <1>m, <1>q, <2>1, <2>3
<1>25. CASE CrashPhases \/ UserRestarts
  <2>1. /\ row' = row /\ UNCHANGED << feature, pass, judged, first >>
        /\ sched' = [SchedIdle EXCEPT !.at = "recovering", !.next = 1, !.seen = row]
    BY <1>25 DEF CrashPhases, UserRestarts, Restart
  <2>2. pass <= 1
    <3>1. CASE CrashPhases
      BY <1>0, <3>1, PhaseConstants DEF CrashPhases
    <3>2. CASE UserRestarts
      BY <1>0, <3>2 DEF UserRestarts, At, LoopVerdict
    <3> QED
      BY <1>25, <3>1, <3>2
  <2>3. sched'.at = "recovering" /\ sched'.seen = row /\ sched'.phase = NoPhase
    BY <2>1 DEF SchedIdle
  <2>4. LoopVerdict'
    BY <1>0, <1>c, <2>1, <2>2, <2>3 DEF LoopVerdict, RowVerdict
  <2> QED
    BY <1>m, <1>r, <1>q, <2>1, <2>4
<1>26. CASE UNCHANGED phaseVars
  BY <1>26, <1>l, <1>m, <1>r, <1>q DEF phaseVars
<1> QED
  BY <1>1, <1>2, <1>3, <1>4, <1>5, <1>6, <1>7, <1>8, <1>9, <1>10, <1>11, <1>12, <1>13, <1>14,
     <1>15, <1>16, <1>17, <1>18, <1>19, <1>20, <1>21, <1>22, <1>23, <1>24, <1>25, <1>26
  DEF PhasesNext, Loop, Reporting, Requests, Recovering, Dispatching, Ending, Commands

----------------------------------------------------------------------------
(* Theorems *)

\* The types and shapes hold always.
THEOREM PhaseInvariant == PhasesSpec => []TypeInv
<1>1. InitPhases => TypeInv
  BY PhaseInit
<1>2. TypeInv /\ [PhasesNext]_phaseVars => TypeInv'
  BY TypeStep
<1> QED
  BY <1>1, <1>2, PTL DEF PhasesSpec

\* Every variable keeps its type, for any bounds: a run is restarted at most
\* MaxRetries times and once more for every crash, only a proposal waits for
\* approval and has one with its row, and only a conversing session asks for help.
THEOREM PhaseTypes == PhasesSpec => []PhaseTypeOK
<1>1. TypeInv => PhaseTypeOK
  <2> SUFFICES ASSUME TypeInv PROVE PhaseTypeOK
    OBVIOUS
  <2>1. /\ row \in [Phases -> Row] /\ turns \in 0..MaxTurns
        /\ session \in Session /\ SchedInv
        /\ MaxRetries \in Nat /\ MaxTurns \in Nat
    BY PhaseConstants DEF TypeInv, RowsTyped, LoopTyped
  <2>2. ASSUME NEW p \in Phases
        PROVE  row[p] \in [status : Statuses, owner : {"system", "manual"},
                           attention : {"none", "operator"},
                           restarts : 0..(MaxRetries + MaxTurns),
                           payload : {"none", "help", "agent", "draft"}]
    <3>1. row[p] \in Row /\ row[p].restarts \in Nat /\ row[p].restarts <= MaxRetries + turns
      BY <2>1 DEF TypeInv, RowsTyped, RowInv, Row
    <3>2. row[p].restarts \in 0..(MaxRetries + MaxTurns)
      BY <2>1, <3>1
    <3> QED
      BY <3>1, <3>2 DEF Row
  <2>3. session.phase = NoPhase => session = NoSession
    BY <2>1, PhaseNames DEF SchedInv, InSession, At
  <2>4. \A p \in Phases : row[p].status = "await_approval" =>
           p \in Proposals /\ row[p].payload \in {"agent", "draft"}
    BY DEF TypeInv, RowsTyped, RowInv
  <2>5. row \in [Phases -> [status : Statuses, owner : {"system", "manual"},
                            attention : {"none", "operator"},
                            restarts : 0..(MaxRetries + MaxTurns),
                            payload : {"none", "help", "agent", "draft"}]]
    BY <2>1, <2>2
  <2> QED
    BY <2>1, <2>3, <2>4, <2>5
    DEF PhaseTypeOK, TypeInv, WorkTyped, RowsTyped, UserTyped, LoopTyped, Session, Statuses,
        Verdicts
<1> QED
  BY <1>1, PhaseInvariant, PTL

\* Whatever is under way is in the hands of the loop, is still before recovery,
\* or the program is down.
THEOREM AttendedInvariant == PhasesSpec => []AttendedInv
<1>1. InitPhases => AttendedInv
  BY DEF InitPhases, AttendedInv, Busy, NoRow
<1>2. TypeInv /\ AttendedInv /\ [PhasesNext]_phaseVars => AttendedInv'
  BY AttendedStep
<1> QED
  BY <1>1, <1>2, PhaseInvariant, PTL DEF PhasesSpec

\* When the loop is idle no run of a standing feature is left running, and no
\* proposal waits for an answer, without a session to end it: for any crashes,
\* retries, cancellations and commands of the operator.
THEOREM RunsHaveSessions == PhasesSpec => []RunsAttended
<1>1. AttendedInv => RunsAttended
  BY Quiet DEF RunsAttended, At, Busy, Restarting
<1> QED
  BY <1>1, AttendedInvariant, PTL

\* A phase that is not a proposal runs, and reports, only in its own phase.
THEOREM PhaseOfItsRun == PhasesSpec => []InItsPhase
<1>1. InitPhases => InItsPhase
  BY PhaseNames DEF InitPhases, InItsPhase, WithItsPhase, NoRow, SchedIdle, Restarting, Reports
<1>2. TypeInv /\ AttendedInv /\ InItsPhase /\ [PhasesNext]_phaseVars => InItsPhase'
  BY InPhaseStep
<1> QED
  BY <1>1, <1>2, PhaseInvariant, AttendedInvariant, PTL DEF PhasesSpec

\* As long as the program dies in the first pass only: a feature that waits in
\* the merge train has passed both checks as it is.  Recovery replays the first
\* completion event of a phase, which a later pass does not write again, so
\* the hypothesis is needed.
THEOREM CheckedBeforeMerge ==
    ASSUME LastCrashPass <= 1
    PROVE  PhasesSpec => []VerifiedBeforeMerge
<1>1. InitPhases => VerdictInv
  <2>1. /\ Checks \subseteq Phases /\ NoPhase \notin Checks
        /\ \A c \in Checks : WorkOf[c] # "discussing"
    BY PhaseNames, WorkNames DEF Checks
  <2> QED
    BY <2>1
    DEF InitPhases, VerdictInv, RowVerdict, LoopVerdict, WorkVerdict, In, NoRow, SchedIdle,
        Restarting, Reports
<1>2. TypeInv /\ AttendedInv /\ InItsPhase /\ VerdictInv /\ [PhasesNext]_phaseVars
      => VerdictInv'
  BY VerdictStep
<1>3. VerdictInv => VerifiedBeforeMerge
  BY DEF VerdictInv, WorkVerdict, VerifiedBeforeMerge
<1> QED
  BY <1>1, <1>2, <1>3, PhaseInvariant, AttendedInvariant, PhaseOfItsRun, PTL DEF PhasesSpec
=============================================================================
