----------------------------- MODULE FeatureFsm -----------------------------
(***************************************************************************)
(* The transition guards of src/core/fsm: which changes of a feature's     *)
(* three state axes (work control, status, collaboration control) and of a *)
(* task's two axes the graph accepts.  Every write the orchestrator makes  *)
(* through transitionFeature or transitionTask goes through these guards;  *)
(* a write they refuse throws.                                             *)
(*                                                                         *)
(* The module has no variables: the component modules apply its operators  *)
(* to their own feature and task tables.                                   *)
(***************************************************************************)
EXTENDS Naturals, Sequences

----------------------------------------------------------------------------
(* Feature axes *)

\* The happy path; a phase advances to the one after it.
PHASE_ORDER == << "discussing", "researching", "planning", "executing",
                  "ci_check", "verifying", "awaiting_merge", "summarizing",
                  "work_complete" >>

WorkControl == {"discussing", "researching", "planning", "executing",
                "ci_check", "verifying", "awaiting_merge", "summarizing",
                "work_complete", "replanning"}

UnitStatus == {"pending", "in_progress", "done", "failed", "cancelled"}

CollabControl == {"none", "branch_open", "merge_queued", "integrating",
                  "merged", "conflict", "cancelled"}

\* The triple the guards look at.
Triples == [work : WorkControl, status : UnitStatus, collab : CollabControl]

IsNextPhase(current, proposed) ==
    \E i \in 1..8 : /\ PHASE_ORDER[i] = current
                    /\ PHASE_ORDER[i + 1] = proposed

REPLANNABLE_FAILURE_PHASES ==
    {"executing", "ci_check", "verifying", "awaiting_merge"}

\* Advancing along the happy path needs a finished phase, no conflict, and
\* the branch state the two merge-related phases ask for.
HappyAdvance(current, proposed, status, collab) ==
    /\ IsNextPhase(current, proposed)
    /\ status = "done"
    /\ collab # "conflict"
    /\ current = "verifying" => collab = "branch_open"
    /\ current = "awaiting_merge" => collab = "merged"

ValidFeatureWork(current, proposed, status, collab) ==
    /\ current # proposed
    /\ collab # "cancelled"
    /\ status # "cancelled"
    /\ \/ HappyAdvance(current, proposed, status, collab)
       \/ /\ current = "awaiting_merge"
          /\ proposed = "work_complete"
          /\ status = "done"
          /\ collab = "merged"
       \/ /\ current \in REPLANNABLE_FAILURE_PHASES
          /\ proposed = "replanning"
          /\ status = "failed"
       \/ /\ current = "replanning"
          /\ proposed \in {"planning", "executing"}
          /\ status = "done"

StatusEdge(current, proposed) ==
    \/ current = "pending" /\ proposed \in {"in_progress", "cancelled"}
    \/ current = "in_progress" /\ proposed \in {"done", "failed", "cancelled"}

ValidFeatureStatus(current, proposed, work, collab) ==
    /\ current # proposed
    /\ collab = "cancelled" => proposed = "cancelled"
    /\ work # "work_complete"
    /\ StatusEdge(current, proposed)

CollabEdge(current, proposed) ==
    \/ current = "none" /\ proposed \in {"branch_open", "cancelled"}
    \/ /\ current = "branch_open"
       /\ proposed \in {"merge_queued", "conflict", "cancelled"}
    \/ /\ current = "merge_queued"
       /\ proposed \in {"integrating", "branch_open", "cancelled"}
    \/ /\ current = "integrating"
       /\ proposed \in {"merged", "conflict", "cancelled"}
    \/ /\ current = "conflict"
       /\ proposed \in {"branch_open", "merge_queued", "cancelled"}

ValidFeatureCollab(current, proposed, work) ==
    /\ CollabEdge(current, proposed)
    /\ current = "none" /\ proposed = "branch_open" => work = "executing"
    /\ current = "merge_queued" /\ proposed = "branch_open"
          => work = "awaiting_merge"
    /\ proposed = "merge_queued" => work = "awaiting_merge"

\* The composite guard.  The work axis sees the current status and collab;
\* the status axis is only looked at when the phase stays; the collab axis
\* sees the proposed phase.  A triple that changes nothing is refused.
ValidFeatureTransition(cur, new) ==
    /\ cur # new
    /\ cur.work # new.work =>
          /\ ValidFeatureWork(cur.work, new.work, cur.status, cur.collab)
          /\ new.status = IF new.work = "work_complete" THEN "done"
                                                        ELSE "pending"
    /\ cur.work = new.work /\ cur.status # new.status =>
          ValidFeatureStatus(cur.status, new.status, cur.work, cur.collab)
    /\ cur.collab # new.collab =>
          ValidFeatureCollab(cur.collab, new.collab, new.work)

----------------------------------------------------------------------------
(* Task axes *)

TaskStatus == {"pending", "ready", "running", "stuck", "done", "failed",
               "cancelled"}

TaskCollab == {"none", "branch_open", "suspended", "merged", "conflict"}

TaskStatusEdge(current, proposed) ==
    \/ current = "pending" /\ proposed \in {"ready", "cancelled"}
    \/ current = "ready" /\ proposed \in {"running", "cancelled"}
    \/ /\ current = "running"
       /\ proposed \in {"ready", "done", "failed", "stuck", "cancelled"}
    \/ /\ current = "stuck"
       /\ proposed \in {"ready", "running", "failed", "cancelled"}
    \/ current = "failed" /\ proposed = "cancelled"

ValidTaskStatus(current, proposed, collab) ==
    /\ TaskStatusEdge(current, proposed)
    /\ ~ (proposed = "running" /\ collab = "suspended")

TaskCollabEdge(current, proposed) ==
    \/ current = "none" /\ proposed = "branch_open"
    \/ /\ current = "branch_open"
       /\ proposed \in {"merged", "conflict", "suspended"}
    \/ current \in {"conflict", "suspended"} /\ proposed = "branch_open"

ValidTaskCollab(current, proposed, status) ==
    /\ status # "cancelled"
    /\ proposed = "suspended" => status = "running"
    /\ proposed = "merged" => status = "done"
    /\ TaskCollabEdge(current, proposed)

\* Status is checked against the current collab, collab against the
\* proposed status, so that done and merged can be written together.
ValidTaskTransition(cur, new) ==
    /\ cur # new
    /\ cur.status # new.status =>
          ValidTaskStatus(cur.status, new.status, cur.collab)
    /\ cur.collab # new.collab =>
          ValidTaskCollab(cur.collab, new.collab, new.status)
=============================================================================
