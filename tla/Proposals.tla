------------------------------ MODULE Proposals ------------------------------
(***************************************************************************)
(* Proposals: what an agent or the user records against a private draft of *)
(* the graph, and how the record is applied to the real graph later.       *)
(*                                                                         *)
(* A row a session adds is named in the record by an alias, "#k" in the    *)
(* code and -k here; applying the proposal gives it its identifier.        *)
(***************************************************************************)
EXTENDS Graph

----------------------------------------------------------------------------
(* Operations.  "val" is a text, a weight, or the row depended upon. *)

Op(kind, id, ref, val) == [kind |-> kind, id |-> id, ref |-> ref, val |-> val]

\* The kind of row an operation is about, and that of its second operand.
RowKind(op) ==
    CASE op.kind = "add_milestone" -> "ms"
      [] op.kind \in {"add_task", "remove_task", "edit_task",
                      "add_task_dep", "remove_task_dep"} -> "ts"
      [] OTHER -> "fs"
RefKind(op) ==
    CASE op.kind = "add_feature" -> "ms"
      [] op.kind = "add_task" -> "fs"
      [] OTHER -> RowKind(op)
Adds(op) == op.kind \in {"add_milestone", "add_feature", "add_task"}
Links(op) == op.kind \in {"add_feature_dep", "add_task_dep"}
Unlinks(op) == op.kind \in {"remove_feature_dep", "remove_task_dep"}

\* The graph takes the operation, and what it then is.
Accepts(g, op) ==
    LET k == op.kind IN
    \/ k = "add_milestone"  /\ CanCreateMilestone(g, op.id)
    \/ k = "add_feature"    /\ CanCreateFeature(g, op.id, op.ref)
    \/ k = "add_task"       /\ CanCreateTask(g, op.id, op.ref)
    \/ k = "remove_feature" /\ op.id \in DOMAIN g.fs
    \/ k = "edit_feature"   /\ op.id \in DOMAIN g.fs /\ Editable(g.fs[op.id])
    \/ k = "remove_task"    /\ CanRemoveTask(g, op.id)
    \/ k = "edit_task"      /\ op.id \in DOMAIN g.ts
    \/ Links(op)            /\ CanDepend(g, RowKind(op), op.id, op.ref)
    \/ Unlinks(op)          /\ CanUndepend(g, RowKind(op), op.id, op.ref)

Effect(g, op) ==
    CASE op.kind = "add_milestone"  -> CreateMilestone(g, op.id)
      [] op.kind = "add_feature"    -> CreateFeature(g, op.id, op.ref)
      [] op.kind = "add_task"       -> CreateTask(g, op.id, op.ref, op.val)
      [] op.kind = "remove_feature" -> RemoveFeature(g, op.id)
      [] op.kind = "edit_feature"   -> EditFeature(g, op.id, op.val)
      [] op.kind = "remove_task"    -> RemoveTask(g, op.id)
      [] op.kind = "edit_task"      -> EditTask(g, op.id, op.val)
      [] Links(op)                  -> Depend(g, RowKind(op), op.id, op.ref)
      [] Unlinks(op)                -> Undepend(g, RowKind(op), op.id, op.ref)

----------------------------------------------------------------------------
(* Recording: the tool host with its draft and its builder *)

\* names[k] is the row that alias k stands for, as <<kind, identifier>>; from
\* is the graph the session started from, aborted that it was told to stop.
Host(g) == [draft |-> Loaded(g), ops |-> << >>, names |-> << >>,
            from |-> g, aborted |-> FALSE]

Aliased(names, row) == \E k \in DOMAIN names : names[k] = row
AliasFor(names, row) ==
    IF Aliased(names, row)
    THEN - (CHOOSE k \in DOMAIN names : names[k] = row)
    ELSE row[2]

\* An identifier that a removed row had keeps its alias.
Allocate(names, row) == IF Aliased(names, row) THEN names ELSE Append(names, row)

\* The operation as recorded: a row of this session by its alias.
Recorded(names, op) ==
    [op EXCEPT !.id = AliasFor(names, << RowKind(op), @ >>),
               !.ref = AliasFor(names, << RefKind(op), @ >>)]

\* An edit that changes nothing is not recorded.  The mutant compares with the
\* edited draft.
SilentAfterEdit(g, op) == op.kind = "edit_feature"
Silent(g, op) == op.kind = "edit_feature" /\ g.fs[op.id].text = op.val

\* Adding a task takes a number, which is not given again in this draft.
Counted(g, op) == IF op.kind = "add_task" THEN [g EXCEPT !.counter = op.id] ELSE g

Record(host, op) ==
    LET names == IF Adds(op) THEN Allocate(host.names, << RowKind(op), op.id >>)
                 ELSE host.names
    IN [host EXCEPT
          !.draft = Effect(Counted(@, op), op),
          !.ops = IF Silent(host.draft, op) THEN @ ELSE Append(@, Recorded(names, op)),
          !.names = names]

----------------------------------------------------------------------------
(* Resolving aliases *)

\* An addition takes the next identifier of its kind, on every mention again;
\* another mention takes the last one given.
Bound(bound, id) ==
    IF id < 0 /\ - id \in DOMAIN bound THEN bound[- id] ELSE id

Resolved(g, ops) ==
    LET Step(acc, op) ==
          LET kind == RowKind(op)
              next == acc.max[kind] + 1
              bound == IF Adds(op) /\ op.id < 0
                       THEN Put(acc.bound, - op.id, next) ELSE acc.bound
          IN [ops |-> Append(acc.ops, [op EXCEPT !.id = Bound(bound, @),
                                                 !.ref = Bound(bound, @)]),
              bound |-> bound,
              max |-> IF Adds(op) /\ op.id < 0
                      THEN [acc.max EXCEPT ![kind] = next] ELSE acc.max]
    IN FoldLeft(Step,
                [ops |-> << >>, bound |-> << >>,
                 max |-> [kind \in Kinds |-> MaxId(g[kind])]],
                ops)

----------------------------------------------------------------------------
(* Applying *)

\* featureHasStarted
Started(g, f) ==
    \/ g.fs[f].status # "pending"
    \/ \E t \in TasksOf(g, f) : g.ts[t].status # "pending"
Dependents(g, f) == {h \in DOMAIN g.fs : f \in g.fs[h].deps}

\* Not stale, and taken by the graph.
Applicable(g, op) ==
    /\ Accepts(g, op)
    /\ op.kind = "remove_feature" => ~ Started(g, op.id) /\ Dependents(g, op.id) = {}

\* What the first n operations make of the graph; an operation that does not
\* apply is skipped.
Applied(g, ops, n) ==
    LET resolved == Resolved(g, ops)
        Step(acc, i) ==
          LET op == resolved.ops[i] IN
          IF Applicable(acc.graph, op)
          THEN [acc EXCEPT !.graph = Effect(@, op), !.applied = Append(@, op)]
          ELSE [acc EXCEPT !.skipped = Append(@, op)]
    IN FoldLeft(Step,
                [graph |-> g, applied |-> << >>, skipped |-> << >>,
                 bound |-> resolved.bound],
                [i \in 1..n |-> i])

\* findRunningTasksAffected: the features a proposal touches, by the names in
\* the record.
Affected(g, ops) ==
    LET ofTask(t) == IF t \in DOMAIN g.ts THEN {g.ts[t].feature} ELSE {}
        of(op) ==
          CASE op.kind \in {"remove_feature", "edit_feature"} -> {op.id}
            [] op.kind = "add_task" -> {op.ref}
            [] op.kind \in {"remove_task", "edit_task"} -> ofTask(op.id)
            [] op.kind \in {"add_feature_dep", "remove_feature_dep"} -> {op.id, op.ref}
            [] op.kind \in {"add_task_dep", "remove_task_dep"} ->
                 ofTask(op.id) \cup ofTask(op.ref)
            [] OTHER -> {}
    IN UNION {of(ops[i]) : i \in DOMAIN ops}
=============================================================================
