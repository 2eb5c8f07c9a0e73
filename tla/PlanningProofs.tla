---------------------------- MODULE PlanningProofs ----------------------------
(***************************************************************************)
(* The graph stays valid, proposals of the project are applied to the      *)
(* graph they were made against, and a proposal gives what its draft       *)
(* showed, for every graph to start from and every number of sessions,     *)
(* operations, decisions and crashes.                                      *)
(*                                                                         *)
(* The argument goes up from the edges.  Reach is the least set closed     *)
(* under edges, so that the check before an edge is added keeps the index  *)
(* without cycles; every operation that is accepted keeps a graph good     *)
(* (Good: Sound, and tables of rows with their columns); so does the fold  *)
(* that applies a record.  Everything else that writes the graph keeps its *)
(* structure (Keeps).                                                      *)
(*                                                                         *)
(* A draft and the graph its record gives differ by the names of the rows  *)
(* the session added (GraphRenamed).  Graphs that are alike accept the     *)
(* same operations and stay alike (EffectAlike), if the names tell the     *)
(* rows apart; they do, since every alias stands for a number above those  *)
(* of the graph (NamesFine).  So a session that records one more operation *)
(* still shows what its record gives (Previewed, RecordPreviews).          *)
(*                                                                         *)
(* What a step does is then said in three parts, to the graph, to the      *)
(* sessions and to the rows (PlanStep), and PlanInv follows from the       *)
(* three.                                                                  *)
(*                                                                         *)
(* Induction is on the naturals, by the least number at which a property   *)
(* would fail (NatSteps); the recursive functions of Reach and of the      *)
(* folds are shown to exist by extending them.                             *)
(***************************************************************************)
EXTENDS Planning, FiniteSetTheorems, SequenceTheorems, TLAPS

\* Induction on the naturals, for a set: what has 0 and the successor of each
\* of its members has them all.  Its least missing member cannot exist.
LEMMA NatSteps ==
    ASSUME NEW X, 0 \in X, \A n \in Nat : n \in X => n + 1 \in X
    PROVE  Nat \subseteq X
<1> DEFINE R == OpToRel(<, Nat)
           T == Nat \ X
<1> SUFFICES ASSUME T # {} PROVE FALSE
  OBVIOUS
<1>1. IsWellFoundedOn(R, Nat)
  BY NatLessThanWellFounded
<1>2. PICK x \in T : \A y \in T : ~ (<< y, x >> \in R)
  <2> HIDE DEF R
  <2> QED BY <1>1, WFMin
<1>3. x - 1 \in Nat /\ << x - 1, x >> \in R
  BY <1>2 DEF OpToRel
<1>4. x - 1 \in X
  BY <1>2, <1>3
<1>5. (x - 1) + 1 \in X
  BY <1>3, <1>4
<1> QED BY <1>5

----------------------------------------------------------------------------
(* Paths *)

After(X, succ) == {e[2] : e \in {d \in succ : d[1] \in X}}
IsSteps(step, from, succ, N) ==
    step = [n \in 0..N |-> IF n = 0 THEN {from}
                           ELSE step[n - 1] \cup After(step[n - 1], succ)]

\* The function by which Reach is defined exists, so that Reach is its last
\* value: it is extended one step at a time.
LEMMA ReachSteps ==
    ASSUME NEW from, NEW succ, Cardinality(succ) \in Nat
    PROVE  \E step : /\ IsSteps(step, from, succ, Cardinality(succ))
                     /\ Reach(from, succ) = step[Cardinality(succ)]
<1> DEFINE N == Cardinality(succ)
           Have == {n \in Nat : \E step : IsSteps(step, from, succ, n)}
<1>1. 0 \in Have
  <2>1. IsSteps([n \in 0..0 |-> {from}], from, succ, 0)
    BY DEF IsSteps
  <2> QED BY <2>1
<1>2. ASSUME NEW n \in Nat, n \in Have PROVE n + 1 \in Have
  <2>1. PICK step : IsSteps(step, from, succ, n)
    BY <1>2
  <2> DEFINE more == [k \in 0..(n + 1) |->
                        IF k = 0 THEN {from}
                        ELSE step[k - 1] \cup After(step[k - 1], succ)]
  <2>2. ASSUME NEW k \in 0..n PROVE more[k] = step[k]
    BY <2>1, k \in 0..(n + 1) DEF IsSteps
  <2>3. \A k \in 0..(n + 1) : k # 0 => k - 1 \in 0..n
    OBVIOUS
  <2>4. IsSteps(more, from, succ, n + 1)
    BY <2>2, <2>3 DEF IsSteps
  <2> HIDE DEF more
  <2> QED BY <2>4
<1>3. Nat \subseteq Have
  <2> HIDE DEF Have
  <2> QED BY <1>1, <1>2, NatSteps
<1>4. PICK step : IsSteps(step, from, succ, N)
  BY <1>3
<1>5. Reach(from, succ) =
        (CHOOSE s : IsSteps(s, from, succ, N))[N]
  BY DEF Reach, IsSteps, After
<1> QED BY <1>4, <1>5

\* Reach stays within every set that has its start and is closed under edges.
LEMMA ReachLeast ==
    ASSUME NEW from, NEW succ, Cardinality(succ) \in Nat,
           NEW C, from \in C, \A e \in succ : e[1] \in C => e[2] \in C
    PROVE  Reach(from, succ) \subseteq C
<1> DEFINE N == Cardinality(succ)
<1>1. PICK step : IsSteps(step, from, succ, N) /\ Reach(from, succ) = step[N]
  BY ReachSteps
<1> DEFINE Have == {n \in Nat : n <= N => step[n] \subseteq C}
<1>2. 0 \in Have
  BY <1>1 DEF IsSteps
<1>3. ASSUME NEW n \in Nat, n \in Have PROVE n + 1 \in Have
  <2> SUFFICES ASSUME n + 1 <= N PROVE step[n + 1] \subseteq C
    OBVIOUS
  <2>1. step[n] \subseteq C
    BY <1>3
  <2>2. n + 1 \in 0..N /\ n + 1 # 0 /\ (n + 1) - 1 = n
    OBVIOUS
  <2>3. step[n + 1] = step[n] \cup After(step[n], succ)
    BY <1>1, <2>2 DEF IsSteps
  <2> QED BY <2>1, <2>3 DEF After
<1>4. Nat \subseteq Have
  <2> HIDE DEF Have
  <2> QED BY <1>2, <1>3, NatSteps
<1> QED BY <1>1, <1>4

\* Reach is itself closed under edges.  A walk of as many steps as there are
\* edges is long enough: each step that adds a row adds the end of an edge.
LEMMA ReachClosed ==
    ASSUME NEW from, NEW succ, IsFiniteSet(succ)
    PROVE  /\ from \in Reach(from, succ)
           /\ \A e \in succ : e[1] \in Reach(from, succ) => e[2] \in Reach(from, succ)
<1> DEFINE N == Cardinality(succ)
           Targets == {e[2] : e \in succ}
<1>n. N \in Nat
  BY FS_CardinalityType
<1>1. PICK step : IsSteps(step, from, succ, N) /\ Reach(from, succ) = step[N]
  BY <1>n, ReachSteps
<1>2. \A n \in 0..N : n # 0 => step[n] = step[n - 1] \cup After(step[n - 1], succ)
  BY <1>1 DEF IsSteps
<1>3. step[0] = {from}
  BY <1>n, <1>1 DEF IsSteps
<1>t. IsFiniteSet(Targets) /\ Cardinality(Targets) <= N
  <2> DEFINE f == [e \in succ |-> e[2]]
  <2>1. f \in Surjection(succ, Targets)
    BY DEF Surjection
  <2> HIDE DEF f
  <2> QED BY <2>1, FS_Surjection
\* A step that adds nothing is followed by none that does; one that adds
\* something makes the set larger.
<1> DEFINE Grown(n) == /\ IsFiniteSet(step[n] \ {from})
                       /\ step[n] \ {from} \subseteq Targets
                       /\ from \in step[n]
                       /\ \/ After(step[n], succ) \subseteq step[n]
                          \/ Cardinality(step[n] \ {from}) >= n
           Have == {n \in Nat : n <= N => Grown(n)}
<1>4. 0 \in Have
  <2>1. step[0] \ {from} = {}
    BY <1>3
  <2>2. IsFiniteSet({}) /\ Cardinality({}) = 0
    BY FS_EmptySet
  <2> QED BY <1>3, <2>1, <2>2
<1>5. ASSUME NEW n \in Nat, n \in Have PROVE n + 1 \in Have
  <2> SUFFICES ASSUME n + 1 <= N PROVE Grown(n + 1)
    OBVIOUS
  <2> DEFINE old == step[n] \ {from}
             new == step[n + 1] \ {from}
  <2>1. Grown(n)
    BY <1>n, <1>5
  <2>2. n + 1 \in 0..N /\ n + 1 # 0 /\ (n + 1) - 1 = n
    BY <1>n
  <2>3. step[n + 1] = step[n] \cup After(step[n], succ)
    BY <1>2, <2>2
  <2>4. new \subseteq Targets /\ from \in step[n + 1] /\ old \subseteq new
    BY <2>1, <2>3 DEF After
  <2>5. IsFiniteSet(new)
    BY <2>4, <1>t, FS_Subset
  <2>6. CASE After(step[n], succ) \subseteq step[n]
    <3>1. step[n + 1] = step[n]
      BY <2>3, <2>6
    <3> QED BY <2>4, <2>5, <2>6, <3>1
  <2>7. CASE ~ (After(step[n], succ) \subseteq step[n])
    <3>1. PICK x \in After(step[n], succ) : x \notin step[n]
      BY <2>7
    <3>2. x \in new /\ x \notin old
      BY <2>1, <2>3, <3>1
    <3>3. /\ IsFiniteSet(old \cup {x})
          /\ Cardinality(old \cup {x}) = Cardinality(old) + 1
      BY <2>1, <3>2, FS_AddElement
    <3>4. Cardinality(old \cup {x}) <= Cardinality(new)
      BY <2>4, <2>5, <3>2, FS_Subset
    <3>5. Cardinality(old) \in Nat /\ Cardinality(new) \in Nat
      BY <2>1, <2>5, FS_CardinalityType
    <3>6. Cardinality(old) >= n
      BY <2>1, <2>7
    <3>7. Cardinality(new) >= n + 1
      BY <3>3, <3>4, <3>5, <3>6
    <3> QED BY <2>4, <2>5, <3>7
  <2> QED BY <2>6, <2>7
<1>6. Grown(N)
  <2>1. Nat \subseteq Have
    <3> HIDE DEF Have
    <3> QED BY <1>4, <1>5, NatSteps
  <2>2. N \in Have
    BY <1>n, <2>1
  <2> HIDE DEF Grown
  <2> QED BY <2>2, <1>n
<1>7. After(step[N], succ) \subseteq step[N]
  <2> SUFFICES ASSUME Cardinality(step[N] \ {from}) >= N
               PROVE  After(step[N], succ) \subseteq step[N]
    BY <1>6
  <2>1. Cardinality(step[N] \ {from}) \in Nat /\ Cardinality(Targets) \in Nat
    BY <1>6, <1>t, FS_CardinalityType
  <2>2. Cardinality(step[N] \ {from}) <= Cardinality(Targets)
    BY <1>6, <1>t, FS_Subset
  <2>3. Cardinality(step[N] \ {from}) = Cardinality(Targets)
    BY <2>1, <2>2, <1>t, <1>n
  <2>4. step[N] \ {from} = Targets
    BY <2>3, <1>6, <1>t, FS_Subset
  <2> QED BY <2>4 DEF After
<1> QED BY <1>1, <1>6, <1>7 DEF After

----------------------------------------------------------------------------
(* Cycles *)

NoCycle(succ) == \A e \in succ : e[1] \notin Reach(e[2], succ)

\* Taking edges away makes no cycle.
LEMMA FewerEdges ==
    ASSUME NEW succ, IsFiniteSet(succ), NoCycle(succ), NEW some \in SUBSET succ
    PROVE  NoCycle(some) /\ IsFiniteSet(some)
<1>1. IsFiniteSet(some) /\ Cardinality(some) \in Nat
  BY FS_Subset, FS_CardinalityType
<1>2. ASSUME NEW e \in some PROVE Reach(e[2], some) \subseteq Reach(e[2], succ)
  <2>1. /\ e[2] \in Reach(e[2], succ)
        /\ \A d \in succ : d[1] \in Reach(e[2], succ) => d[2] \in Reach(e[2], succ)
    BY ReachClosed
  <2> QED BY <1>1, <2>1, ReachLeast
<1> QED BY <1>1, <1>2 DEF NoCycle

\* The check of addDependency (graph/dependencies.ts) is enough: in an index
\* without cycles, an edge whose end does not reach back to its start closes
\* none.
THEOREM OneMoreEdge ==
    ASSUME NEW succ, IsFiniteSet(succ), NoCycle(succ), NEW from, NEW to,
           ~ HasPath(from, to, succ)
    PROVE  NoCycle(succ \cup {<< to, from >>}) /\ IsFiniteSet(succ \cup {<< to, from >>})
<1> DEFINE more == succ \cup {<< to, from >>}
           F == Reach(from, succ)
<1>1. IsFiniteSet(more) /\ Cardinality(more) \in Nat
  BY FS_AddElement, FS_CardinalityType
<1>2. /\ from \in F /\ to \notin F
      /\ \A e \in succ : e[1] \in F => e[2] \in F
  BY ReachClosed DEF HasPath
<1>3. Reach(from, more) \subseteq F
  BY <1>1, <1>2, ReachLeast
<1>4. ASSUME NEW e \in succ PROVE e[1] \notin Reach(e[2], more)
  <2> DEFINE R == Reach(e[2], succ)
  <2>1. /\ e[2] \in R
        /\ \A d \in succ : d[1] \in R => d[2] \in R
    BY ReachClosed
  <2>2. e[1] \notin R
    BY DEF NoCycle
  <2>3. CASE to \in R
    <3>1. \A d \in more : d[1] \in R \cup F => d[2] \in R \cup F
      BY <1>2, <2>1
    <3>2. Reach(e[2], more) \subseteq R \cup F
      <4> HIDE DEF more, R, F
      <4> QED BY <1>1, <2>1, <3>1, ReachLeast
    <3>3. e[1] \notin F
      <4> SUFFICES ASSUME e[2] \in F PROVE FALSE
        BY <1>2
      <4>1. R \subseteq F
        BY <1>2, ReachLeast, FS_CardinalityType
      <4> QED BY <1>2, <2>3, <4>1
    <3> QED BY <2>2, <3>2, <3>3
  <2>4. CASE to \notin R
    <3>1. Reach(e[2], more) \subseteq R
      BY <1>1, <2>1, <2>4, ReachLeast
    <3> QED BY <2>2, <3>1
  <2> QED BY <2>3, <2>4
<1>5. to \notin Reach(from, more)
  BY <1>2, <1>3
<1>6. \A e \in more : e[1] \notin Reach(e[2], more)
  <2> SUFFICES ASSUME NEW e \in more PROVE e[1] \notin Reach(e[2], more)
    OBVIOUS
  <2>1. CASE e \in succ
    <3> HIDE DEF more
    <3> QED BY <2>1, <1>4
  <2>2. CASE e = << to, from >>
    <3>1. e[1] = to /\ e[2] = from
      BY <2>2
    <3> HIDE DEF more
    <3> QED BY <3>1, <1>5
  <2> QED BY <2>1, <2>2
<1> QED BY <1>1, <1>6 DEF NoCycle
\* The edges of the rows, and what each of them stands for.
LEMMA EdgeOf ==
    ASSUME NEW rows
    PROVE  /\ \A i \in DOMAIN rows : \A d \in rows[i].deps : << d, i >> \in Pairs(rows)
           /\ \A e \in Pairs(rows) : /\ e = << e[1], e[2] >>
                                     /\ e[2] \in DOMAIN rows
                                     /\ e[1] \in rows[e[2]].deps
BY DEF Pairs

\* The rows are acyclic when their edges have no cycle.
LEMMA AcyclicEdges ==
    ASSUME NEW rows
    PROVE  Acyclic(rows) <=> NoCycle(Pairs(rows))
<1>1. ASSUME Acyclic(rows), NEW e \in Pairs(rows)
      PROVE  e[1] \notin Reach(e[2], Pairs(rows))
  <2>1. PICK d, i : i \in DOMAIN rows /\ d \in rows[i].deps /\ e = << d, i >>
    BY DEF Pairs
  <2> QED BY <1>1, <2>1 DEF Acyclic
<1>2. ASSUME NoCycle(Pairs(rows)), NEW i \in DOMAIN rows, NEW d \in rows[i].deps
      PROVE  d \notin Reach(i, Pairs(rows))
  <2>1. << d, i >> \in Pairs(rows)
    BY DEF Pairs
  <2>2. << d, i >>[1] \notin Reach(<< d, i >>[2], Pairs(rows))
    BY <1>2, <2>1 DEF NoCycle
  <2> QED BY <2>2
<1> QED BY <1>1, <1>2 DEF Acyclic, NoCycle

\* Finitely many rows that depend on each other have finitely many edges.
LEMMA FiniteEdges ==
    ASSUME NEW rows, IsFiniteSet(DOMAIN rows),
           \A i \in DOMAIN rows : rows[i].deps \subseteq DOMAIN rows
    PROVE  IsFiniteSet(Pairs(rows))
<1> DEFINE D == DOMAIN rows
<1>1. IsFiniteSet(D \X D)
  <2>1. IsFiniteSet(D)
    OBVIOUS
  <2> HIDE DEF D
  <2> QED BY <2>1, FS_Product
<1>2. Pairs(rows) \in SUBSET (D \X D)
  <2> SUFFICES ASSUME NEW e \in Pairs(rows) PROVE e \in D \X D
    OBVIOUS
  <2>1. e = << e[1], e[2] >> /\ e[2] \in D /\ e[1] \in D
    BY EdgeOf
  <2> QED BY <2>1
<1> HIDE DEF D
<1> QED BY <1>1, <1>2, FS_Subset

----------------------------------------------------------------------------
(* Tables *)

\* A row of a table is written.
LEMMA RowWritten ==
    ASSUME NEW rows, NEW fields, Table(rows, fields), NEW i \in DOMAIN rows,
           NEW r, Keyed(r, fields)
    PROVE  LET new == [rows EXCEPT ![i] = r]
           IN  /\ Table(new, fields)
               /\ DOMAIN new = DOMAIN rows
               /\ new[i] = r
               /\ \A j \in DOMAIN rows : j # i => new[j] = rows[j]
BY DEF Table, Keyed

\* A row is added to a table.
LEMMA RowAdded ==
    ASSUME NEW rows, NEW fields, Table(rows, fields), NEW i, i \notin DOMAIN rows,
           NEW r, Keyed(r, fields)
    PROVE  /\ Table(Put(rows, i, r), fields)
           /\ DOMAIN Put(rows, i, r) = DOMAIN rows \cup {i}
           /\ Put(rows, i, r)[i] = r
           /\ \A j \in DOMAIN rows : Put(rows, i, r)[j] = rows[j]
<1> DEFINE new == Put(rows, i, r)
<1>1. IsFiniteSet(DOMAIN rows \cup {i})
  BY FS_AddElement DEF Table
<1>2. /\ DOMAIN new = DOMAIN rows \cup {i}
      /\ new[i] = r
      /\ \A j \in DOMAIN rows : new[j] = rows[j]
      /\ Keyed(new, DOMAIN new)
  BY DEF Put, Keyed
<1>3. Table(new, fields)
  <2> HIDE DEF new
  <2> QED BY <1>1, <1>2 DEF Table
<1> QED BY <1>2, <1>3

\* A new row has no edges.
LEMMA EdgesOfNewRow ==
    ASSUME NEW rows, NEW i, i \notin DOMAIN rows, NEW r, r.deps = {}
    PROVE  Pairs(Put(rows, i, r)) = Pairs(rows)
<1> DEFINE new == Put(rows, i, r)
<1>1. /\ DOMAIN new = DOMAIN rows \cup {i} /\ new[i] = r
      /\ \A j \in DOMAIN rows : new[j] = rows[j]
  BY DEF Put
<1> HIDE DEF new
<1>2. ASSUME NEW e \in Pairs(new) PROVE e \in Pairs(rows)
  BY <1>1, EdgeOf
<1>3. ASSUME NEW e \in Pairs(rows) PROVE e \in Pairs(new)
  BY <1>1, EdgeOf
<1>4. Pairs(new) = Pairs(rows)
  BY <1>2, <1>3
<1> QED BY <1>4 DEF new

\* Rows are removed from a table, and their edges with them: what the index
\* keeps is what the rows keep.
LEMMA RowsRemoved ==
    ASSUME NEW rows, NEW fields, "deps" \in fields, Table(rows, fields), NEW gone
    PROVE  LET new == Without(rows, gone)
           IN  /\ Table(new, fields)
               /\ DOMAIN new = DOMAIN rows \ gone
               /\ \A i \in DOMAIN new :
                     /\ new[i].deps = rows[i].deps \ gone
                     /\ \A x \in fields \ {"deps"} : new[i][x] = rows[i][x]
               /\ Pairs(new) = EdgesWithout(Pairs(rows), gone)
<1> DEFINE new == Without(rows, gone)
<1>1. IsFiniteSet(DOMAIN rows \ gone)
  BY FS_Difference DEF Table
<1>2. /\ DOMAIN new = DOMAIN rows \ gone
      /\ Keyed(new, DOMAIN new)
      /\ \A i \in DOMAIN new : new[i] = [rows[i] EXCEPT !.deps = @ \ gone]
  BY DEF Without, Keyed
<1>3. ASSUME NEW i \in DOMAIN new
      PROVE  /\ Keyed(new[i], fields)
             /\ new[i].deps = rows[i].deps \ gone
             /\ \A x \in fields \ {"deps"} : new[i][x] = rows[i][x]
  <2>1. Keyed(rows[i], fields)
    BY <1>2 DEF Table
  <2>2. new[i] = [rows[i] EXCEPT !.deps = @ \ gone]
    BY <1>2
  <2> HIDE DEF new
  <2> QED BY <2>1, <2>2 DEF Keyed
<1>4. Table(new, fields)
  <2> HIDE DEF new
  <2> QED BY <1>1, <1>2, <1>3 DEF Table
<1>5. Pairs(new) = EdgesWithout(Pairs(rows), gone)
  <2> HIDE DEF new
  <2>1. ASSUME NEW e \in Pairs(new) PROVE e \in EdgesWithout(Pairs(rows), gone)
    <3>1. PICK d, i : i \in DOMAIN new /\ d \in new[i].deps /\ e = << d, i >>
      BY DEF Pairs
    <3>2. i \in DOMAIN rows /\ i \notin gone /\ d \in rows[i].deps /\ d \notin gone
      BY <1>2, <1>3, <3>1
    <3> QED BY <3>1, <3>2 DEF Pairs, EdgesWithout
  <2>2. ASSUME NEW e \in EdgesWithout(Pairs(rows), gone) PROVE e \in Pairs(new)
    <3>1. PICK d, i : i \in DOMAIN rows /\ d \in rows[i].deps /\ e = << d, i >>
      BY DEF Pairs, EdgesWithout
    <3>2. i \notin gone /\ d \notin gone
      BY <3>1 DEF EdgesWithout
    <3>3. i \in DOMAIN new /\ d \in new[i].deps
      BY <1>2, <1>3, <3>1, <3>2
    <3> QED BY <3>1, <3>3 DEF Pairs
  <2> QED BY <2>1, <2>2
<1> QED BY <1>2, <1>3, <1>4, <1>5

\* A table stays one when a row of it depends on one more.
LEMMA EdgeAdded ==
    ASSUME NEW rows, NEW fields, "deps" \in fields, Table(rows, fields),
           NEW from \in DOMAIN rows, NEW to
    PROVE  Table([rows EXCEPT ![from] = [rows[from] EXCEPT !.deps = @ \cup {to}]], fields)
<1>1. Keyed([rows[from] EXCEPT !.deps = @ \cup {to}], fields)
  BY DEF Table, Keyed
<1> QED BY <1>1, RowWritten

\* A row depends on one more; nothing else changes in what rows depend on.
OneMore(new, rows, from, to) ==
    /\ from \in DOMAIN rows /\ DOMAIN new = DOMAIN rows
    /\ new[from].deps = rows[from].deps \cup {to}
    /\ \A i \in DOMAIN rows : i # from => new[i].deps = rows[i].deps

\* The edges then have one more as well.
LEMMA EdgesWithOneMore ==
    ASSUME NEW rows, NEW new, NEW from, NEW to, OneMore(new, rows, from, to)
    PROVE  Pairs(new) = Pairs(rows) \cup {<< to, from >>}
<1> USE DEF OneMore
<1>1. ASSUME NEW e \in Pairs(new) PROVE e \in Pairs(rows) \cup {<< to, from >>}
  <2>1. PICK d, i : i \in DOMAIN new /\ d \in new[i].deps /\ e = << d, i >>
    BY DEF Pairs
  <2>2. CASE i = from /\ d = to
    BY <2>1, <2>2
  <2>3. CASE ~ (i = from /\ d = to)
    <3>1. i \in DOMAIN rows /\ d \in rows[i].deps
      BY <2>1, <2>3
    <3> QED BY <2>1, <3>1 DEF Pairs
  <2> QED BY <2>2, <2>3
<1>2. ASSUME NEW e \in Pairs(rows) PROVE e \in Pairs(new)
  <2>1. PICK d, i : i \in DOMAIN rows /\ d \in rows[i].deps /\ e = << d, i >>
    BY DEF Pairs
  <2>2. i \in DOMAIN new /\ d \in new[i].deps
    BY <2>1
  <2> QED BY <2>1, <2>2 DEF Pairs
<1>3. << to, from >> \in Pairs(new)
  <2>1. from \in DOMAIN new /\ to \in new[from].deps
    OBVIOUS
  <2> QED BY <2>1 DEF Pairs
<1> QED BY <1>1, <1>2, <1>3

\* A row of a table depends on one less, and the edges have one less.
LEMMA EdgeRemoved ==
    ASSUME NEW rows, NEW fields, "deps" \in fields, Table(rows, fields),
           NEW from \in DOMAIN rows, NEW to
    PROVE  LET new == [rows EXCEPT ![from] = [rows[from] EXCEPT !.deps = @ \ {to}]]
           IN  /\ Table(new, fields)
               /\ DOMAIN new = DOMAIN rows
               /\ \A i \in DOMAIN new :
                     /\ new[i].deps = IF i = from THEN rows[i].deps \ {to}
                                      ELSE rows[i].deps
                     /\ \A x \in fields \ {"deps"} : new[i][x] = rows[i][x]
               /\ Pairs(new) = Pairs(rows) \ {<< to, from >>}
<1> DEFINE r == [rows[from] EXCEPT !.deps = @ \ {to}]
           new == [rows EXCEPT ![from] = r]
<1>1. /\ Keyed(r, fields) /\ r.deps = rows[from].deps \ {to}
      /\ \A x \in fields \ {"deps"} : r[x] = rows[from][x]
  BY DEF Table, Keyed
<1>2. /\ Table(new, fields) /\ DOMAIN new = DOMAIN rows /\ new[from] = r
      /\ \A j \in DOMAIN rows : j # from => new[j] = rows[j]
  <2> HIDE DEF r
  <2> QED BY <1>1, RowWritten
<1>3. Pairs(new) = Pairs(rows) \ {<< to, from >>}
  <2> HIDE DEF r, new
  <2>1. ASSUME NEW e \in Pairs(new) PROVE e \in Pairs(rows) \ {<< to, from >>}
    <3>1. PICK d, i : i \in DOMAIN new /\ d \in new[i].deps /\ e = << d, i >>
      BY DEF Pairs
    <3>2. d \in rows[i].deps /\ (i = from => d # to)
      BY <1>1, <1>2, <3>1
    <3> QED BY <1>2, <3>1, <3>2 DEF Pairs
  <2>2. ASSUME NEW e \in Pairs(rows) \ {<< to, from >>} PROVE e \in Pairs(new)
    <3>1. PICK d, i : i \in DOMAIN rows /\ d \in rows[i].deps /\ e = << d, i >>
      BY DEF Pairs
    <3>2. i \in DOMAIN new /\ d \in new[i].deps
      BY <1>1, <1>2, <3>1
    <3> QED BY <3>1, <3>2 DEF Pairs
  <2> QED BY <2>1, <2>2
<1>4. \A i \in DOMAIN new :
        /\ new[i].deps = IF i = from THEN rows[i].deps \ {to} ELSE rows[i].deps
        /\ \A x \in fields \ {"deps"} : new[i][x] = rows[i][x]
  <2> HIDE DEF new, r
  <2> QED BY <1>1, <1>2
<1> QED BY <1>2, <1>3, <1>4

----------------------------------------------------------------------------
(* Operations on the graph *)

Good(g) == WellFormed(g) /\ Sound(g)

Closed(ms, fs, ts) ==
    /\ \A f \in DOMAIN fs : fs[f].milestone \in ms /\ fs[f].deps \subseteq DOMAIN fs
    /\ \A t \in DOMAIN ts :
          /\ ts[t].feature \in DOMAIN fs
          /\ \A d \in ts[t].deps : d \in DOMAIN ts /\ ts[d].feature = ts[t].feature

\* What a good graph is made of, for the lemmas below: the index has finitely
\* many edges and no cycle.
LEMMA GoodParts ==
    ASSUME NEW g, Good(g)
    PROVE  /\ Keyed(g, GraphFields)
           /\ Table(g.ms, MilestoneFields)
           /\ Table(g.fs, FeatureFields)
           /\ Table(g.ts, TaskFields)
           /\ Closed(DOMAIN g.ms, g.fs, g.ts)
           /\ g.fsucc = Pairs(g.fs) /\ IsFiniteSet(g.fsucc) /\ NoCycle(g.fsucc)
           /\ g.tsucc = Pairs(g.ts) /\ IsFiniteSet(g.tsucc) /\ NoCycle(g.tsucc)
<1>1. /\ Keyed(g, GraphFields)
      /\ Table(g.ms, MilestoneFields)
      /\ Table(g.fs, FeatureFields)
      /\ Table(g.ts, TaskFields)
  BY DEF Good, WellFormed
<1>2. /\ Closed(DOMAIN g.ms, g.fs, g.ts) /\ Acyclic(g.fs) /\ Acyclic(g.ts)
      /\ g.fsucc = Pairs(g.fs) /\ g.tsucc = Pairs(g.ts)
  BY DEF Good, Sound, ValidGraph, Closed
<1>3. IsFiniteSet(Pairs(g.fs))
  <2>1. IsFiniteSet(DOMAIN g.fs) /\ \A i \in DOMAIN g.fs : g.fs[i].deps \subseteq DOMAIN g.fs
    BY <1>1, <1>2 DEF Table, Closed
  <2> QED BY <2>1, FiniteEdges
<1>4. IsFiniteSet(Pairs(g.ts))
  <2>1. IsFiniteSet(DOMAIN g.ts) /\ \A i \in DOMAIN g.ts : g.ts[i].deps \subseteq DOMAIN g.ts
    BY <1>1, <1>2 DEF Table, Closed
  <2> QED BY <2>1, FiniteEdges
<1> QED BY <1>1, <1>2, <1>3, <1>4, AcyclicEdges

\* It is good when it has those parts.
LEMMA GoodWhen ==
    ASSUME NEW g,
           Keyed(g, GraphFields), Table(g.ms, MilestoneFields),
           Table(g.fs, FeatureFields), Table(g.ts, TaskFields),
           Closed(DOMAIN g.ms, g.fs, g.ts),
           g.fsucc = Pairs(g.fs), NoCycle(g.fsucc),
           g.tsucc = Pairs(g.ts), NoCycle(g.tsucc)
    PROVE  Good(g)
<1>1. Acyclic(g.fs) /\ Acyclic(g.ts)
  BY AcyclicEdges
<1> QED BY <1>1 DEF Good, WellFormed, Sound, ValidGraph, Closed

\* What the rows refer to is the same.
SameFeatureRefs(a, b) ==
    /\ DOMAIN a = DOMAIN b
    /\ \A f \in DOMAIN a : a[f].milestone = b[f].milestone /\ a[f].deps = b[f].deps
SameTaskRefs(a, b) ==
    /\ DOMAIN a = DOMAIN b
    /\ \A t \in DOMAIN a : a[t].feature = b[t].feature /\ a[t].deps = b[t].deps

\* Rows that depend on the same have the same edges.
LEMMA SameEdges ==
    ASSUME NEW a, NEW b, DOMAIN a = DOMAIN b, \A i \in DOMAIN a : a[i].deps = b[i].deps
    PROVE  Pairs(a) = Pairs(b)
<1>1. ASSUME NEW e \in Pairs(a) PROVE e \in Pairs(b)
  BY EdgeOf
<1>2. ASSUME NEW e \in Pairs(b) PROVE e \in Pairs(a)
  BY EdgeOf
<1> QED BY <1>1, <1>2

\* A graph whose rows refer to the same as those of a good one is good.
LEMMA SameRefsGood ==
    ASSUME NEW g, Good(g), NEW h, WellFormed(h),
           DOMAIN g.ms \subseteq DOMAIN h.ms,
           SameFeatureRefs(h.fs, g.fs), SameTaskRefs(h.ts, g.ts),
           h.fsucc = g.fsucc, h.tsucc = g.tsucc
    PROVE  Good(h)
<1>1. Pairs(h.fs) = Pairs(g.fs)
  BY SameEdges DEF SameFeatureRefs
<1>2. Pairs(h.ts) = Pairs(g.ts)
  BY SameEdges DEF SameTaskRefs
<1>3. Closed(DOMAIN h.ms, h.fs, h.ts)
  BY GoodParts DEF Closed, SameFeatureRefs, SameTaskRefs
<1> QED BY <1>1, <1>2, <1>3, GoodParts, GoodWhen DEF WellFormed

SameFeatures(a, b) ==
    /\ SameFeatureRefs(a, b)
    /\ \A f \in DOMAIN a : a[f].order = b[f].order /\ a[f].text = b[f].text
SameTasks(a, b) ==
    /\ SameTaskRefs(a, b)
    /\ \A t \in DOMAIN a : a[t].order = b[t].order /\ a[t].weight = b[t].weight

\* h is g but for what running the work changes.
Keeps(g, h) == /\ WellFormed(h)
               /\ Structure(h) = Structure(g)
               /\ h.fsucc = g.fsucc /\ h.tsucc = g.tsucc

\* The structure is kept when the rows have the same columns but for what
\* running the work changes.
LEMMA KeepsWhen ==
    ASSUME NEW g, NEW h, WellFormed(h),
           DOMAIN h.ms = DOMAIN g.ms,
           SameFeatures(h.fs, g.fs), SameTasks(h.ts, g.ts),
           h.fsucc = g.fsucc, h.tsucc = g.tsucc
    PROVE  Keeps(g, h)
<1>1. Structure(h) = Structure(g)
  BY DEF Structure, SameFeatures, SameTasks, SameFeatureRefs, SameTaskRefs
<1> QED BY <1>1 DEF Keeps

\* Running the work leaves a good graph good.
LEMMA KeepsGood ==
    ASSUME NEW g, Good(g), NEW h, Keeps(g, h)
    PROVE  Good(h)
<1>1. /\ Structure(h).ms = Structure(g).ms
      /\ Structure(h).fs = Structure(g).fs
      /\ Structure(h).ts = Structure(g).ts
  BY DEF Keeps
<1>2. DOMAIN h.ms = DOMAIN g.ms
  BY <1>1 DEF Structure
<1>3. SameFeatureRefs(h.fs, g.fs)
  <2>1. DOMAIN Structure(h).fs = DOMAIN h.fs /\ DOMAIN Structure(g).fs = DOMAIN g.fs
    BY DEF Structure
  <2>2. \A f \in DOMAIN h.fs : /\ Structure(h).fs[f].milestone = h.fs[f].milestone
                               /\ Structure(h).fs[f].deps = h.fs[f].deps
    BY DEF Structure
  <2>3. \A f \in DOMAIN g.fs : /\ Structure(g).fs[f].milestone = g.fs[f].milestone
                               /\ Structure(g).fs[f].deps = g.fs[f].deps
    BY DEF Structure
  <2> QED BY <1>1, <2>1, <2>2, <2>3 DEF SameFeatureRefs
<1>4. SameTaskRefs(h.ts, g.ts)
  <2>1. DOMAIN Structure(h).ts = DOMAIN h.ts /\ DOMAIN Structure(g).ts = DOMAIN g.ts
    BY DEF Structure
  <2>2. \A t \in DOMAIN h.ts : /\ Structure(h).ts[t].feature = h.ts[t].feature
                               /\ Structure(h).ts[t].deps = h.ts[t].deps
    BY DEF Structure
  <2>3. \A t \in DOMAIN g.ts : /\ Structure(g).ts[t].feature = g.ts[t].feature
                               /\ Structure(g).ts[t].deps = g.ts[t].deps
    BY DEF Structure
  <2> QED BY <1>1, <2>1, <2>2, <2>3 DEF SameTaskRefs
<1> QED BY <1>2, <1>3, <1>4, SameRefsGood DEF Keeps

\* A graph keeps its own structure.
LEMMA KeepsItself ==
    ASSUME NEW g, WellFormed(g) PROVE Keeps(g, g)
BY DEF Keeps

\* Two changes that keep the structure keep it together.
LEMMA KeepsTwice ==
    ASSUME NEW g, NEW h, NEW k, Keeps(g, h), Keeps(h, k) PROVE Keeps(g, k)
BY DEF Keeps

\* The features are replaced by others of the same structure.
LEMMA KeepsFeatures ==
    ASSUME NEW g, WellFormed(g), NEW fs, Table(fs, FeatureFields), SameFeatures(fs, g.fs)
    PROVE  Keeps(g, [g EXCEPT !.fs = fs])
<1> DEFINE h == [g EXCEPT !.fs = fs]
<1>1. /\ Keyed(h, GraphFields) /\ h.fs = fs /\ h.ms = g.ms /\ h.ts = g.ts
      /\ h.fsucc = g.fsucc /\ h.tsucc = g.tsucc
  BY DEF WellFormed, Keyed, GraphFields
<1> HIDE DEF h
<1>2. WellFormed(h)
  BY <1>1 DEF WellFormed
<1>3. Keeps(g, h)
  BY <1>1, <1>2, KeepsWhen DEF SameTasks, SameTaskRefs
<1> QED BY <1>3 DEF h

\* The tasks are replaced by others of the same structure.
LEMMA KeepsTasks ==
    ASSUME NEW g, WellFormed(g), NEW ts, Table(ts, TaskFields), SameTasks(ts, g.ts)
    PROVE  Keeps(g, [g EXCEPT !.ts = ts])
<1> DEFINE h == [g EXCEPT !.ts = ts]
<1>1. /\ Keyed(h, GraphFields) /\ h.ts = ts /\ h.ms = g.ms /\ h.fs = g.fs
      /\ h.fsucc = g.fsucc /\ h.tsucc = g.tsucc
  BY DEF WellFormed, Keyed, GraphFields
<1> HIDE DEF h
<1>2. WellFormed(h)
  BY <1>1 DEF WellFormed
<1>3. Keeps(g, h)
  BY <1>1, <1>2, KeepsWhen DEF SameFeatures, SameFeatureRefs
<1> QED BY <1>3 DEF h

\* The milestones are replaced by others of the same identifiers.
LEMMA KeepsMilestones ==
    ASSUME NEW g, WellFormed(g), NEW ms, Table(ms, MilestoneFields),
           DOMAIN ms = DOMAIN g.ms
    PROVE  Keeps(g, [g EXCEPT !.ms = ms])
<1> DEFINE h == [g EXCEPT !.ms = ms]
<1>1. /\ Keyed(h, GraphFields) /\ h.ms = ms /\ h.fs = g.fs /\ h.ts = g.ts
      /\ h.fsucc = g.fsucc /\ h.tsucc = g.tsucc
  BY DEF WellFormed, Keyed, GraphFields
<1> HIDE DEF h
<1>2. WellFormed(h)
  BY <1>1 DEF WellFormed
<1>3. Keeps(g, h)
  BY <1>1, <1>2, KeepsWhen DEF SameFeatures, SameFeatureRefs, SameTasks, SameTaskRefs
<1> QED BY <1>3 DEF h

\* The counter of tasks is no part of the structure.
LEMMA KeepsCounter ==
    ASSUME NEW g, WellFormed(g), NEW n
    PROVE  Keeps(g, [g EXCEPT !.counter = n])
<1> DEFINE h == [g EXCEPT !.counter = n]
<1>1. /\ Keyed(h, GraphFields) /\ h.ms = g.ms /\ h.fs = g.fs /\ h.ts = g.ts
      /\ h.fsucc = g.fsucc /\ h.tsucc = g.tsucc
  BY DEF WellFormed, Keyed, GraphFields
<1> HIDE DEF h
<1>2. WellFormed(h)
  BY <1>1 DEF WellFormed
<1>3. Keeps(g, h)
  BY <1>1, <1>2, KeepsWhen DEF SameFeatures, SameFeatureRefs, SameTasks, SameTaskRefs
<1> QED BY <1>3 DEF h

\* Loading a good graph makes the index it already has.
LEMMA KeepsLoaded ==
    ASSUME NEW g, Good(g) PROVE Keeps(g, Loaded(g))
<1> DEFINE h == Loaded(g)
<1>1. /\ Keyed(h, GraphFields) /\ h.ms = g.ms /\ h.fs = g.fs /\ h.ts = g.ts
      /\ h.fsucc = Pairs(g.fs) /\ h.tsucc = Pairs(g.ts)
  BY GoodParts DEF Loaded, Keyed, GraphFields
<1> HIDE DEF h
<1>2. WellFormed(h) /\ h.fsucc = g.fsucc /\ h.tsucc = g.tsucc
  BY <1>1, GoodParts DEF WellFormed
<1>3. Keeps(g, h)
  BY <1>1, <1>2, KeepsWhen DEF SameFeatures, SameFeatureRefs, SameTasks, SameTaskRefs
<1> QED BY <1>3 DEF h

----------------------------------------------------------------------------
(* Every operation that is accepted leaves a good graph *)

\* createMilestone (graph/creation.ts).
LEMMA CreateMilestoneGood ==
    ASSUME NEW g, Good(g), NEW m, CanCreateMilestone(g, m)
    PROVE  Good(CreateMilestone(g, m))
<1>o. PICK msOld, fsOld, tsOld : msOld = g.ms /\ fsOld = g.fs /\ tsOld = g.ts
  OBVIOUS
<1> DEFINE r == NewMilestone(Cardinality(DOMAIN msOld))
           ms == Put(msOld, m, r)
           h == [g EXCEPT !.ms = ms]
<1>1. Keyed(r, MilestoneFields)
  BY DEF NewMilestone, Keyed, MilestoneFields
<1>2. Table(ms, MilestoneFields) /\ DOMAIN msOld \subseteq DOMAIN ms
  <2> HIDE DEF r
  <2>1. Table(msOld, MilestoneFields) /\ m \notin DOMAIN msOld
    BY <1>o, GoodParts DEF CanCreateMilestone
  <2>2. Table(ms, MilestoneFields)
    BY <1>1, <2>1, RowAdded
  <2> QED BY <2>2 DEF Put
<1>3. /\ Keyed(h, GraphFields) /\ h.ms = ms /\ h.fs = fsOld /\ h.ts = tsOld
      /\ h.fsucc = g.fsucc /\ h.tsucc = g.tsucc
  <2> HIDE DEF ms
  <2> QED BY <1>o, GoodParts DEF Keyed, GraphFields
<1>4. h = CreateMilestone(g, m)
  BY <1>o DEF CreateMilestone
<1> HIDE DEF h, ms
<1>5. WellFormed(h)
  BY <1>2, <1>3, <1>o, GoodParts DEF WellFormed
<1> QED BY <1>2, <1>3, <1>4, <1>5, <1>o, SameRefsGood DEF SameFeatureRefs, SameTaskRefs

\* createFeature: nothing depends on the new feature, nor it on anything.
LEMMA CreateFeatureGood ==
    ASSUME NEW g, Good(g), NEW f, NEW m, CanCreateFeature(g, f, m)
    PROVE  Good(CreateFeature(g, f, m))
<1>o. PICK msOld, fsOld, tsOld : msOld = g.ms /\ fsOld = g.fs /\ tsOld = g.ts
  OBVIOUS
<1> DEFINE mates == {k \in DOMAIN fsOld : fsOld[k].milestone = m}
           r == NewFeature(m, OrderAfter(fsOld, mates))
           fs == Put(fsOld, f, r)
           h == [g EXCEPT !.fs = fs]
<1>1. Keyed(r, FeatureFields) /\ r.deps = {} /\ r.milestone = m
  BY DEF NewFeature, Keyed, FeatureFields
<1>4. h = CreateFeature(g, f, m)
  BY <1>o DEF CreateFeature
<1> HIDE DEF r
<1>2. /\ Table(fs, FeatureFields) /\ DOMAIN fs = DOMAIN fsOld \cup {f} /\ fs[f] = r
      /\ \A k \in DOMAIN fsOld : fs[k] = fsOld[k]
      /\ Pairs(fs) = Pairs(fsOld)
  <2>1. Table(fsOld, FeatureFields) /\ f \notin DOMAIN fsOld
    BY <1>o, GoodParts DEF CanCreateFeature
  <2>2. Table(fs, FeatureFields)
    BY <1>1, <2>1, RowAdded
  <2>3. Pairs(fs) = Pairs(fsOld)
    BY <1>1, <2>1, EdgesOfNewRow
  <2> QED BY <2>1, <2>2, <2>3 DEF Put
<1>3. /\ Keyed(h, GraphFields) /\ h.ms = msOld /\ h.fs = fs /\ h.ts = tsOld
      /\ h.fsucc = g.fsucc /\ h.tsucc = g.tsucc
  <2> HIDE DEF fs
  <2> QED BY <1>o, GoodParts DEF Keyed, GraphFields
<1> HIDE DEF h, fs
<1>5. Closed(DOMAIN msOld, fs, tsOld)
  BY <1>1, <1>2, <1>o, GoodParts DEF Closed, CanCreateFeature
<1> QED BY <1>2, <1>3, <1>4, <1>5, <1>o, GoodParts, GoodWhen

\* createTask: the new task has a feature, and no edges.
LEMMA CreateTaskGood ==
    ASSUME NEW g, Good(g), NEW t, NEW f, NEW weight, CanCreateTask(g, t, f)
    PROVE  Good(CreateTask(g, t, f, weight))
<1>o. PICK msOld, fsOld, tsOld : msOld = g.ms /\ fsOld = g.fs /\ tsOld = g.ts
  OBVIOUS
<1> DEFINE r == NewTask(f, OrderAfter(tsOld, TasksOf(g, f)), weight)
           ts == Put(tsOld, t, r)
           h == [g EXCEPT !.ts = ts]
<1>1. Keyed(r, TaskFields) /\ r.deps = {} /\ r.feature = f
  BY DEF NewTask, Keyed, TaskFields
<1>4. h = CreateTask(g, t, f, weight)
  BY <1>o DEF CreateTask
<1> HIDE DEF r
<1>2. /\ Table(ts, TaskFields) /\ DOMAIN ts = DOMAIN tsOld \cup {t} /\ ts[t] = r
      /\ \A k \in DOMAIN tsOld : ts[k] = tsOld[k]
      /\ Pairs(ts) = Pairs(tsOld)
  <2>1. Table(tsOld, TaskFields) /\ t \notin DOMAIN tsOld
    BY <1>o, GoodParts DEF CanCreateTask
  <2>2. Table(ts, TaskFields)
    BY <1>1, <2>1, RowAdded
  <2>3. Pairs(ts) = Pairs(tsOld)
    BY <1>1, <2>1, EdgesOfNewRow
  <2> QED BY <2>1, <2>2, <2>3 DEF Put
<1>3. /\ Keyed(h, GraphFields) /\ h.ms = msOld /\ h.fs = fsOld /\ h.ts = ts
      /\ h.fsucc = g.fsucc /\ h.tsucc = g.tsucc
  <2> HIDE DEF ts
  <2> QED BY <1>o, GoodParts DEF Keyed, GraphFields
<1> HIDE DEF h, ts
<1>5. Closed(DOMAIN msOld, fsOld, ts)
  BY <1>1, <1>2, <1>o, GoodParts DEF Closed, CanCreateTask
<1> QED BY <1>2, <1>3, <1>4, <1>5, <1>o, GoodParts, GoodWhen

\* editFeature and editTask write a column no edge depends on.
LEMMA EditsGood ==
    ASSUME NEW g, Good(g), NEW v
    PROVE  /\ \A f \in DOMAIN g.fs : Good(EditFeature(g, f, v))
           /\ \A t \in DOMAIN g.ts : Good(EditTask(g, t, v))
<1>1. ASSUME NEW f \in DOMAIN g.fs PROVE Good(EditFeature(g, f, v))
  <2> DEFINE r == [g.fs[f] EXCEPT !.text = v]
             fs == [g.fs EXCEPT ![f] = r]
             h == [g EXCEPT !.fs = fs]
  <2>1. /\ Keyed(r, FeatureFields) /\ r.milestone = g.fs[f].milestone
        /\ r.deps = g.fs[f].deps
    <3>1. Keyed(g.fs[f], FeatureFields)
      BY GoodParts DEF Table
    <3> QED BY <3>1 DEF Keyed, FeatureFields
  <2>2. h = EditFeature(g, f, v)
    BY DEF EditFeature
  <2> HIDE DEF r
  <2>3. Table(fs, FeatureFields) /\ SameFeatureRefs(fs, g.fs)
    BY <2>1, RowWritten, GoodParts DEF SameFeatureRefs
  <2> HIDE DEF fs
  <2>4. /\ WellFormed(h) /\ h.ms = g.ms /\ h.fs = fs /\ h.ts = g.ts
        /\ h.fsucc = g.fsucc /\ h.tsucc = g.tsucc
    BY <2>3, GoodParts DEF WellFormed, Keyed, GraphFields
  <2> HIDE DEF h
  <2> QED BY <2>2, <2>3, <2>4, SameRefsGood DEF SameTaskRefs
<1>2. ASSUME NEW t \in DOMAIN g.ts PROVE Good(EditTask(g, t, v))
  <2> DEFINE r == [g.ts[t] EXCEPT !.weight = v]
             ts == [g.ts EXCEPT ![t] = r]
             h == [g EXCEPT !.ts = ts]
  <2>1. /\ Keyed(r, TaskFields) /\ r.feature = g.ts[t].feature
        /\ r.deps = g.ts[t].deps
    <3>1. Keyed(g.ts[t], TaskFields)
      BY GoodParts DEF Table
    <3> QED BY <3>1 DEF Keyed, TaskFields
  <2>2. h = EditTask(g, t, v)
    BY DEF EditTask
  <2> HIDE DEF r
  <2>3. Table(ts, TaskFields) /\ SameTaskRefs(ts, g.ts)
    BY <2>1, RowWritten, GoodParts DEF SameTaskRefs
  <2> HIDE DEF ts
  <2>4. /\ WellFormed(h) /\ h.ms = g.ms /\ h.fs = g.fs /\ h.ts = ts
        /\ h.fsucc = g.fsucc /\ h.tsucc = g.tsucc
    BY <2>3, GoodParts DEF WellFormed, Keyed, GraphFields
  <2> HIDE DEF h
  <2> QED BY <2>2, <2>3, <2>4, SameRefsGood DEF SameFeatureRefs
<1> QED BY <1>1, <1>2

\* removeTask: the edges of the task leave with it, in rows and index.
LEMMA RemoveTaskGood ==
    ASSUME NEW g, Good(g), NEW t
    PROVE  Good(RemoveTask(g, t))
<1>o. PICK msOld, fsOld, tsOld : msOld = g.ms /\ fsOld = g.fs /\ tsOld = g.ts
  OBVIOUS
<1> DEFINE ts == Without(tsOld, {t})
           succ == EdgesWithout(g.tsucc, {t})
           h == [g EXCEPT !.ts = ts, !.tsucc = succ]
<1>1. h = RemoveTask(g, t)
  BY <1>o DEF RemoveTask
<1>2. /\ Table(ts, TaskFields) /\ DOMAIN ts = DOMAIN tsOld \ {t}
      /\ \A i \in DOMAIN ts : /\ ts[i].deps = tsOld[i].deps \ {t}
                              /\ ts[i].feature = tsOld[i].feature
      /\ Pairs(ts) = EdgesWithout(Pairs(tsOld), {t})
  <2>1. /\ Table(tsOld, TaskFields) /\ "deps" \in TaskFields
        /\ "feature" \in TaskFields \ {"deps"}
    BY <1>o, GoodParts DEF TaskFields
  <2>2. Table(ts, TaskFields)
    BY <2>1, RowsRemoved
  <2>3. Pairs(ts) = EdgesWithout(Pairs(tsOld), {t})
    BY <2>1, <2>2, RowsRemoved
  <2>4. /\ DOMAIN ts = DOMAIN tsOld \ {t}
        /\ \A i \in DOMAIN ts : ts[i] = [tsOld[i] EXCEPT !.deps = tsOld[i].deps \ {t}]
    BY DEF Without
  <2>5. \A i \in DOMAIN tsOld : Keyed(tsOld[i], TaskFields)
    BY <2>1 DEF Table
  <2> HIDE DEF ts
  <2>6. \A i \in DOMAIN ts : /\ ts[i].deps = tsOld[i].deps \ {t}
                            /\ ts[i].feature = tsOld[i].feature
    BY <2>1, <2>4, <2>5 DEF Keyed
  <2> QED BY <2>2, <2>3, <2>4, <2>6
<1>3. succ = Pairs(ts) /\ NoCycle(succ)
  <2>1. succ \subseteq g.tsucc
    BY DEF EdgesWithout
  <2> QED BY <1>2, <2>1, <1>o, GoodParts, FewerEdges
<1> HIDE DEF ts, succ
<1>4. /\ Keyed(h, GraphFields) /\ h.ms = msOld /\ h.fs = fsOld /\ h.ts = ts
      /\ h.fsucc = g.fsucc /\ h.tsucc = succ
  BY <1>o, GoodParts DEF Keyed, GraphFields
<1> HIDE DEF h
<1>5. Closed(DOMAIN msOld, fsOld, ts)
  BY <1>2, <1>o, GoodParts DEF Closed
<1> QED BY <1>1, <1>2, <1>3, <1>4, <1>5, <1>o, GoodParts, GoodWhen

\* removeFeature: its tasks leave too, and no other task depended on them.
LEMMA RemoveFeatureGood ==
    ASSUME NEW g, Good(g), NEW f
    PROVE  Good(RemoveFeature(g, f))
<1>o. PICK msOld, fsOld, tsOld : msOld = g.ms /\ fsOld = g.fs /\ tsOld = g.ts
  OBVIOUS
<1> DEFINE gone == TasksOf(g, f)
           fs == Without(fsOld, {f})
           fsucc == EdgesWithout(g.fsucc, {f})
           ts == Without(tsOld, gone)
           tsucc == EdgesWithout(g.tsucc, gone)
           h == [g EXCEPT !.fs = fs, !.fsucc = fsucc, !.ts = ts, !.tsucc = tsucc]
<1>1. h = RemoveFeature(g, f)
  BY <1>o DEF RemoveFeature
<1>2. /\ Table(fs, FeatureFields) /\ DOMAIN fs = DOMAIN fsOld \ {f}
      /\ \A i \in DOMAIN fs : /\ fs[i].deps = fsOld[i].deps \ {f}
                              /\ fs[i].milestone = fsOld[i].milestone
      /\ Pairs(fs) = EdgesWithout(Pairs(fsOld), {f})
  <2>1. /\ Table(fsOld, FeatureFields) /\ "deps" \in FeatureFields
        /\ "milestone" \in FeatureFields \ {"deps"}
    BY <1>o, GoodParts DEF FeatureFields
  <2>2. Table(fs, FeatureFields)
    BY <2>1, RowsRemoved
  <2>3. Pairs(fs) = EdgesWithout(Pairs(fsOld), {f})
    BY <2>1, <2>2, RowsRemoved
  <2> QED BY <2>1, <2>2, <2>3 DEF Without, Table, Keyed
<1>3. fsucc = Pairs(fs) /\ NoCycle(fsucc)
  <2>1. fsucc \subseteq g.fsucc
    BY DEF EdgesWithout
  <2> QED BY <1>2, <2>1, <1>o, GoodParts, FewerEdges
<1>g. gone = {t \in DOMAIN tsOld : tsOld[t].feature = f}
  BY <1>o DEF TasksOf
<1> HIDE DEF gone
<1>4. /\ Table(ts, TaskFields) /\ DOMAIN ts = DOMAIN tsOld \ gone
      /\ \A i \in DOMAIN ts : /\ ts[i].deps = tsOld[i].deps \ gone
                              /\ ts[i].feature = tsOld[i].feature
      /\ Pairs(ts) = EdgesWithout(Pairs(tsOld), gone)
  <2>1. /\ Table(tsOld, TaskFields) /\ "deps" \in TaskFields
        /\ "feature" \in TaskFields \ {"deps"}
    BY <1>o, GoodParts DEF TaskFields
  <2>2. Table(ts, TaskFields)
    BY <2>1, RowsRemoved
  <2>3. Pairs(ts) = EdgesWithout(Pairs(tsOld), gone)
    BY <2>1, <2>2, RowsRemoved
  <2> QED BY <2>1, <2>2, <2>3 DEF Without, Table, Keyed
<1>5. tsucc = Pairs(ts) /\ NoCycle(tsucc)
  <2>1. tsucc \subseteq g.tsucc
    BY DEF EdgesWithout
  <2> QED BY <1>4, <2>1, <1>o, GoodParts, FewerEdges
<1> HIDE DEF fs, fsucc, ts, tsucc
<1>6. /\ Keyed(h, GraphFields) /\ h.ms = msOld /\ h.fs = fs /\ h.ts = ts
      /\ h.fsucc = fsucc /\ h.tsucc = tsucc
  BY <1>o, GoodParts DEF Keyed, GraphFields
<1> HIDE DEF h
<1>7. Closed(DOMAIN msOld, fs, ts)
  BY <1>2, <1>4, <1>g, <1>o, GoodParts DEF Closed
<1> QED BY <1>1, <1>2, <1>3, <1>4, <1>5, <1>6, <1>7, <1>o, GoodParts, GoodWhen

\* addDependency: the check of the path keeps the rows acyclic, and the edge
\* is written to the row and to the index.
LEMMA DependGood ==
    ASSUME NEW g, Good(g), NEW rows \in {"fs", "ts"}, NEW from, NEW to,
           CanDepend(g, rows, from, to)
    PROVE  Good(Depend(g, rows, from, to))
<1>o. PICK msOld, fsOld, tsOld : msOld = g.ms /\ fsOld = g.fs /\ tsOld = g.ts
  OBVIOUS
<1>1. CASE rows = "fs"
  <2> DEFINE fs == [fsOld EXCEPT ![from] = [fsOld[from] EXCEPT !.deps = @ \cup {to}]]
             succ == g.fsucc \cup {<< to, from >>}
             h == [g EXCEPT !.fs = fs, !.fsucc = succ]
  <2>1. h = Depend(g, rows, from, to)
    BY <1>o, <1>1 DEF Depend, Index
  <2>2. from \in DOMAIN fsOld /\ to \in DOMAIN fsOld /\ ~ HasPath(from, to, g.fsucc)
    BY <1>o, <1>1 DEF CanDepend, Index
  <2>3. /\ Table(fs, FeatureFields) /\ DOMAIN fs = DOMAIN fsOld
        /\ \A i \in DOMAIN fs : /\ fs[i].deps = IF i = from THEN fsOld[i].deps \cup {to}
                                                ELSE fsOld[i].deps
                                /\ fs[i].milestone = fsOld[i].milestone
        /\ Pairs(fs) = Pairs(fsOld) \cup {<< to, from >>}
    <3>1. /\ Table(fsOld, FeatureFields) /\ "deps" \in FeatureFields
          /\ "milestone" \in FeatureFields \ {"deps"}
      BY <1>o, GoodParts DEF FeatureFields
    <3>2. Table(fs, FeatureFields)
      BY <2>2, <3>1, EdgeAdded
    <3>3. /\ DOMAIN fs = DOMAIN fsOld
          /\ \A i \in DOMAIN fs :
               /\ fs[i].deps = IF i = from THEN fsOld[i].deps \cup {to}
                               ELSE fsOld[i].deps
               /\ fs[i].milestone = fsOld[i].milestone
      <4>1. \A i \in DOMAIN fsOld : Keyed(fsOld[i], FeatureFields)
        BY <3>1 DEF Table
      <4>2. /\ DOMAIN fs = DOMAIN fsOld
            /\ fs[from] = [fsOld[from] EXCEPT !.deps = @ \cup {to}]
            /\ \A i \in DOMAIN fsOld : i # from => fs[i] = fsOld[i]
        BY <2>2
      <4> HIDE DEF fs
      <4>3. fs[from].deps = fsOld[from].deps \cup {to}
            /\ fs[from].milestone = fsOld[from].milestone
        BY <2>2, <3>1, <4>1, <4>2 DEF Keyed
      <4> QED BY <4>2, <4>3
    <3>4. Pairs(fs) = Pairs(fsOld) \cup {<< to, from >>}
      <4>1. OneMore(fs, fsOld, from, to)
        BY <2>2, <3>3 DEF OneMore
      <4> HIDE DEF fs
      <4> QED BY <4>1, EdgesWithOneMore
    <3> QED BY <3>2, <3>3, <3>4
  <2>4. succ = Pairs(fs) /\ NoCycle(succ)
    BY <2>2, <2>3, OneMoreEdge, <1>o, GoodParts
  <2> HIDE DEF fs, succ
  <2>5. /\ Keyed(h, GraphFields) /\ h.ms = msOld /\ h.fs = fs /\ h.ts = tsOld
        /\ h.fsucc = succ /\ h.tsucc = g.tsucc
    BY <1>o, GoodParts DEF Keyed, GraphFields
  <2> HIDE DEF h
  <2>6. Closed(DOMAIN msOld, fs, tsOld)
    <3>1. Closed(DOMAIN msOld, fsOld, tsOld)
      BY <1>o, GoodParts
    <3> QED BY <2>2, <2>3, <3>1 DEF Closed
  <2>7. /\ Keyed(h, GraphFields) /\ Table(h.ms, MilestoneFields)
        /\ Table(h.fs, FeatureFields) /\ Table(h.ts, TaskFields)
        /\ Closed(DOMAIN h.ms, h.fs, h.ts)
    BY <2>3, <2>5, <2>6, <1>o, GoodParts
  <2>8. /\ h.fsucc = Pairs(h.fs) /\ NoCycle(h.fsucc)
        /\ h.tsucc = Pairs(h.ts) /\ NoCycle(h.tsucc)
    BY <2>3, <2>4, <2>5, <1>o, GoodParts
  <2>9. Good(h)
    BY <2>7, <2>8, GoodWhen
  <2> QED BY <2>1, <2>9
<1>2. CASE rows = "ts"
  <2> DEFINE ts == [tsOld EXCEPT ![from] = [tsOld[from] EXCEPT !.deps = @ \cup {to}]]
             succ == g.tsucc \cup {<< to, from >>}
             h == [g EXCEPT !.ts = ts, !.tsucc = succ]
  <2>1. h = Depend(g, rows, from, to)
    BY <1>o, <1>2 DEF Depend, Index
  <2>2. /\ from \in DOMAIN tsOld /\ to \in DOMAIN tsOld /\ ~ HasPath(from, to, g.tsucc)
        /\ tsOld[from].feature = tsOld[to].feature
    BY <1>o, <1>2 DEF CanDepend, Index, SameFeature
  <2>3. /\ Table(ts, TaskFields) /\ DOMAIN ts = DOMAIN tsOld
        /\ \A i \in DOMAIN ts : /\ ts[i].deps = IF i = from THEN tsOld[i].deps \cup {to}
                                                ELSE tsOld[i].deps
                                /\ ts[i].feature = tsOld[i].feature
        /\ Pairs(ts) = Pairs(tsOld) \cup {<< to, from >>}
    <3>1. /\ Table(tsOld, TaskFields) /\ "deps" \in TaskFields
          /\ "feature" \in TaskFields \ {"deps"}
      BY <1>o, GoodParts DEF TaskFields
    <3>2. Table(ts, TaskFields)
      BY <2>2, <3>1, EdgeAdded
    <3>3. /\ DOMAIN ts = DOMAIN tsOld
          /\ \A i \in DOMAIN ts :
               /\ ts[i].deps = IF i = from THEN tsOld[i].deps \cup {to}
                               ELSE tsOld[i].deps
               /\ ts[i].feature = tsOld[i].feature
      <4>1. \A i \in DOMAIN tsOld : Keyed(tsOld[i], TaskFields)
        BY <3>1 DEF Table
      <4>2. /\ DOMAIN ts = DOMAIN tsOld
            /\ ts[from] = [tsOld[from] EXCEPT !.deps = @ \cup {to}]
            /\ \A i \in DOMAIN tsOld : i # from => ts[i] = tsOld[i]
        BY <2>2
      <4> HIDE DEF ts
      <4>3. ts[from].deps = tsOld[from].deps \cup {to}
            /\ ts[from].feature = tsOld[from].feature
        BY <2>2, <3>1, <4>1, <4>2 DEF Keyed
      <4> QED BY <4>2, <4>3
    <3>4. Pairs(ts) = Pairs(tsOld) \cup {<< to, from >>}
      <4>1. OneMore(ts, tsOld, from, to)
        BY <2>2, <3>3 DEF OneMore
      <4> HIDE DEF ts
      <4> QED BY <4>1, EdgesWithOneMore
    <3> QED BY <3>2, <3>3, <3>4
  <2>4. succ = Pairs(ts) /\ NoCycle(succ)
    BY <2>2, <2>3, OneMoreEdge, <1>o, GoodParts
  <2> HIDE DEF ts, succ
  <2>5. /\ Keyed(h, GraphFields) /\ h.ms = msOld /\ h.fs = fsOld /\ h.ts = ts
        /\ h.fsucc = g.fsucc /\ h.tsucc = succ
    BY <1>o, GoodParts DEF Keyed, GraphFields
  <2> HIDE DEF h
  <2>6. Closed(DOMAIN msOld, fsOld, ts)
    <3>1. Closed(DOMAIN msOld, fsOld, tsOld)
      BY <1>o, GoodParts
    <3>2. \A t \in DOMAIN ts : ts[t].feature \in DOMAIN fsOld
      BY <2>3, <3>1 DEF Closed
    <3>3. ASSUME NEW t \in DOMAIN ts, NEW d \in ts[t].deps
          PROVE  d \in DOMAIN ts /\ ts[d].feature = ts[t].feature
      <4>1. CASE t = from /\ d = to
        BY <2>2, <2>3, <4>1
      <4>2. CASE ~ (t = from /\ d = to)
        <5>1. d \in tsOld[t].deps
          BY <2>3, <4>2
        <5> QED BY <2>3, <3>1, <5>1 DEF Closed
      <4> QED BY <4>1, <4>2
    <3> QED BY <3>1, <3>2, <3>3 DEF Closed
  <2>7. /\ Keyed(h, GraphFields) /\ Table(h.ms, MilestoneFields)
        /\ Table(h.fs, FeatureFields) /\ Table(h.ts, TaskFields)
        /\ Closed(DOMAIN h.ms, h.fs, h.ts)
    BY <2>3, <2>5, <2>6, <1>o, GoodParts
  <2>8. /\ h.fsucc = Pairs(h.fs) /\ NoCycle(h.fsucc)
        /\ h.tsucc = Pairs(h.ts) /\ NoCycle(h.tsucc)
    BY <2>3, <2>4, <2>5, <1>o, GoodParts
  <2>9. Good(h)
    BY <2>7, <2>8, GoodWhen
  <2> QED BY <2>1, <2>9
<1> QED BY <1>1, <1>2

\* removeDependency: the edge leaves the row and the index.
LEMMA UndependGood ==
    ASSUME NEW g, Good(g), NEW rows \in {"fs", "ts"}, NEW from, NEW to,
           CanUndepend(g, rows, from, to)
    PROVE  Good(Undepend(g, rows, from, to))
<1>o. PICK msOld, fsOld, tsOld : msOld = g.ms /\ fsOld = g.fs /\ tsOld = g.ts
  OBVIOUS
<1>1. CASE rows = "fs"
  <2> DEFINE fs == [fsOld EXCEPT ![from] = [fsOld[from] EXCEPT !.deps = @ \ {to}]]
             succ == g.fsucc \ {<< to, from >>}
             h == [g EXCEPT !.fs = fs, !.fsucc = succ]
  <2>1. h = Undepend(g, rows, from, to)
    BY <1>o, <1>1 DEF Undepend, Index
  <2>2. from \in DOMAIN fsOld
    BY <1>o, <1>1 DEF CanUndepend
  <2>3. /\ Table(fs, FeatureFields) /\ DOMAIN fs = DOMAIN fsOld
        /\ \A i \in DOMAIN fs : /\ fs[i].deps = IF i = from THEN fsOld[i].deps \ {to}
                                                ELSE fsOld[i].deps
                                /\ fs[i].milestone = fsOld[i].milestone
        /\ Pairs(fs) = Pairs(fsOld) \ {<< to, from >>}
    <3>1. /\ Table(fsOld, FeatureFields) /\ "deps" \in FeatureFields
          /\ "milestone" \in FeatureFields \ {"deps"}
      BY <1>o, GoodParts DEF FeatureFields
    <3>2. Table(fs, FeatureFields)
      BY <2>2, <3>1, EdgeRemoved
    <3>3. Pairs(fs) = Pairs(fsOld) \ {<< to, from >>}
      BY <2>2, <3>1, <3>2, EdgeRemoved
    <3> QED BY <2>2, <3>1, <3>2, <3>3 DEF Table, Keyed
  <2>4. succ = Pairs(fs) /\ NoCycle(succ)
    BY <2>3, FewerEdges, <1>o, GoodParts
  <2> HIDE DEF fs, succ
  <2>5. /\ Keyed(h, GraphFields) /\ h.ms = msOld /\ h.fs = fs /\ h.ts = tsOld
        /\ h.fsucc = succ /\ h.tsucc = g.tsucc
    BY <1>o, GoodParts DEF Keyed, GraphFields
  <2> HIDE DEF h
  <2>6. Closed(DOMAIN msOld, fs, tsOld)
    <3>1. Closed(DOMAIN msOld, fsOld, tsOld)
      BY <1>o, GoodParts
    <3> QED BY <2>3, <3>1 DEF Closed
  <2>7. /\ Keyed(h, GraphFields) /\ Table(h.ms, MilestoneFields)
        /\ Table(h.fs, FeatureFields) /\ Table(h.ts, TaskFields)
        /\ Closed(DOMAIN h.ms, h.fs, h.ts)
    BY <2>3, <2>5, <2>6, <1>o, GoodParts
  <2>8. /\ h.fsucc = Pairs(h.fs) /\ NoCycle(h.fsucc)
        /\ h.tsucc = Pairs(h.ts) /\ NoCycle(h.tsucc)
    BY <2>3, <2>4, <2>5, <1>o, GoodParts
  <2>9. Good(h)
    BY <2>7, <2>8, GoodWhen
  <2> QED BY <2>1, <2>9
<1>2. CASE rows = "ts"
  <2> DEFINE ts == [tsOld EXCEPT ![from] = [tsOld[from] EXCEPT !.deps = @ \ {to}]]
             succ == g.tsucc \ {<< to, from >>}
             h == [g EXCEPT !.ts = ts, !.tsucc = succ]
  <2>1. h = Undepend(g, rows, from, to)
    BY <1>o, <1>2 DEF Undepend, Index
  <2>2. from \in DOMAIN tsOld
    BY <1>o, <1>2 DEF CanUndepend
  <2>3. /\ Table(ts, TaskFields) /\ DOMAIN ts = DOMAIN tsOld
        /\ \A i \in DOMAIN ts : /\ ts[i].deps = IF i = from THEN tsOld[i].deps \ {to}
                                                ELSE tsOld[i].deps
                                /\ ts[i].feature = tsOld[i].feature
        /\ Pairs(ts) = Pairs(tsOld) \ {<< to, from >>}
    <3>1. /\ Table(tsOld, TaskFields) /\ "deps" \in TaskFields
          /\ "feature" \in TaskFields \ {"deps"}
      BY <1>o, GoodParts DEF TaskFields
    <3>2. Table(ts, TaskFields)
      BY <2>2, <3>1, EdgeRemoved
    <3>3. Pairs(ts) = Pairs(tsOld) \ {<< to, from >>}
      BY <2>2, <3>1, <3>2, EdgeRemoved
    <3> QED BY <2>2, <3>1, <3>2, <3>3 DEF Table, Keyed
  <2>4. succ = Pairs(ts) /\ NoCycle(succ)
    BY <2>3, FewerEdges, <1>o, GoodParts
  <2> HIDE DEF ts, succ
  <2>5. /\ Keyed(h, GraphFields) /\ h.ms = msOld /\ h.fs = fsOld /\ h.ts = ts
        /\ h.fsucc = g.fsucc /\ h.tsucc = succ
    BY <1>o, GoodParts DEF Keyed, GraphFields
  <2> HIDE DEF h
  <2>6. Closed(DOMAIN msOld, fsOld, ts)
    <3>1. Closed(DOMAIN msOld, fsOld, tsOld)
      BY <1>o, GoodParts
    <3> QED BY <2>3, <3>1 DEF Closed
  <2>7. /\ Keyed(h, GraphFields) /\ Table(h.ms, MilestoneFields)
        /\ Table(h.fs, FeatureFields) /\ Table(h.ts, TaskFields)
        /\ Closed(DOMAIN h.ms, h.fs, h.ts)
    BY <2>3, <2>5, <2>6, <1>o, GoodParts
  <2>8. /\ h.fsucc = Pairs(h.fs) /\ NoCycle(h.fsucc)
        /\ h.tsucc = Pairs(h.ts) /\ NoCycle(h.tsucc)
    BY <2>3, <2>4, <2>5, <1>o, GoodParts
  <2>9. Good(h)
    BY <2>7, <2>8, GoodWhen
  <2> QED BY <2>1, <2>9
<1> QED BY <1>1, <1>2

\* Every operation a good graph accepts leaves it good: acyclic, closed under
\* its references, its index that of its edges (graph/index.ts).
THEOREM EffectGood ==
    ASSUME NEW g, Good(g), NEW op, Accepts(g, op)
    PROVE  Good(Effect(g, op))
<1> DEFINE k == op.kind
<1>1. CASE k = "add_milestone"
  <2>1. CanCreateMilestone(g, op.id)
    BY <1>1 DEF Accepts, Links, Unlinks
  <2>2. Effect(g, op) = CreateMilestone(g, op.id)
    BY <1>1 DEF Effect, Links, Unlinks
  <2> QED BY <2>1, <2>2, CreateMilestoneGood
<1>2. CASE k = "add_feature"
  <2>1. CanCreateFeature(g, op.id, op.ref)
    BY <1>2 DEF Accepts, Links, Unlinks
  <2>2. Effect(g, op) = CreateFeature(g, op.id, op.ref)
    BY <1>2 DEF Effect, Links, Unlinks
  <2> QED BY <2>1, <2>2, CreateFeatureGood
<1>3. CASE k = "add_task"
  <2>1. CanCreateTask(g, op.id, op.ref)
    BY <1>3 DEF Accepts, Links, Unlinks
  <2>2. Effect(g, op) = CreateTask(g, op.id, op.ref, op.val)
    BY <1>3 DEF Effect, Links, Unlinks
  <2> QED BY <2>1, <2>2, CreateTaskGood
<1>4. CASE k = "remove_feature"
  <2>1. Effect(g, op) = RemoveFeature(g, op.id)
    BY <1>4 DEF Effect, Links, Unlinks
  <2> QED BY <2>1, RemoveFeatureGood
<1>5. CASE k = "edit_feature"
  <2>1. op.id \in DOMAIN g.fs
    BY <1>5 DEF Accepts, Links, Unlinks
  <2>2. Effect(g, op) = EditFeature(g, op.id, op.val)
    BY <1>5 DEF Effect, Links, Unlinks
  <2> QED BY <2>1, <2>2, EditsGood
<1>6. CASE k = "remove_task"
  <2>1. Effect(g, op) = RemoveTask(g, op.id)
    BY <1>6 DEF Effect, Links, Unlinks
  <2> QED BY <2>1, RemoveTaskGood
<1>7. CASE k = "edit_task"
  <2>1. op.id \in DOMAIN g.ts
    BY <1>7 DEF Accepts, Links, Unlinks
  <2>2. Effect(g, op) = EditTask(g, op.id, op.val)
    BY <1>7 DEF Effect, Links, Unlinks
  <2> QED BY <2>1, <2>2, EditsGood
<1>8. CASE Links(op)
  <2>1. CanDepend(g, RowKind(op), op.id, op.ref)
    BY <1>8 DEF Accepts, Links, Unlinks
  <2>2. Effect(g, op) = Depend(g, RowKind(op), op.id, op.ref)
    BY <1>8 DEF Effect, Links, Unlinks
  <2>3. RowKind(op) \in {"fs", "ts"}
    BY <1>8 DEF RowKind, Links
  <2> QED BY <2>1, <2>2, <2>3, DependGood
<1>9. CASE Unlinks(op)
  <2>1. CanUndepend(g, RowKind(op), op.id, op.ref)
    BY <1>9 DEF Accepts, Links, Unlinks
  <2>2. Effect(g, op) = Undepend(g, RowKind(op), op.id, op.ref)
    BY <1>9 DEF Effect, Links, Unlinks
  <2>3. RowKind(op) \in {"fs", "ts"}
    BY <1>9 DEF RowKind, Unlinks
  <2> QED BY <2>1, <2>2, <2>3, UndependGood
<1> QED BY <1>1, <1>2, <1>3, <1>4, <1>5, <1>6, <1>7, <1>8, <1>9 DEF Accepts

----------------------------------------------------------------------------
(* Applying a proposal *)

ApplyOne(resolved, acc, i) ==
    LET op == resolved.ops[i] IN
    IF Applicable(acc.graph, op)
    THEN [acc EXCEPT !.graph = Effect(@, op), !.applied = Append(@, op)]
    ELSE [acc EXCEPT !.skipped = Append(@, op)]
FirstAcc(g, resolved) ==
    [graph |-> g, applied |-> << >>, skipped |-> << >>, bound |-> resolved.bound]

\* The function by which the fold of Applied is defined, over some of the sets
\* of places in the record.
IsIter(iter, g, resolved, n, domain) ==
    iter = [s \in domain |->
              IF s = {} THEN FirstAcc(g, resolved)
              ELSE ApplyOne(resolved, iter[s \ {Max(s)}], [i \in 1..n |-> i][Max(s)])]

\* Applied is a fold over the places of the record, by its definition.
LEMMA AppliedIsFold ==
    ASSUME NEW g, NEW ops, NEW n \in Nat
    PROVE  Applied(g, ops, n) =
             (CHOOSE iter : IsIter(iter, g, Resolved(g, ops), n, SUBSET (1..n)))[1..n]
<1> DEFINE R == Resolved(g, ops)
           places == [i \in 1..n |-> i]
<1>1. Applied(g, ops, n) =
        (CHOOSE iter : IsIter(iter, g, R, n, SUBSET DOMAIN places))[DOMAIN places]
  <2> HIDE DEF R
  <2>1. Applied(g, ops, n) =
          FoldLeft(LAMBDA acc, i : ApplyOne(R, acc, i), FirstAcc(g, R), places)
    BY DEF R, Applied, ApplyOne, FirstAcc
  <2> QED BY <2>1 DEF FoldLeft, MapThenFoldSet, IsIter
<1>2. DOMAIN places = 1..n
  OBVIOUS
<1> QED BY <1>1, <1>2

\* The last place of a record is the greatest.
LEMMA LastIsMax ==
    ASSUME NEW k \in Nat, NEW s \in SUBSET (1..(k + 1)), k + 1 \in s
    PROVE  Max(s) = k + 1
<1>1. \A y \in s : k + 1 >= y
  OBVIOUS
<1>2. Max(s) \in s /\ \A y \in s : Max(s) >= y
  BY <1>1 DEF Max
<1>3. PICK m : m = Max(s)
  OBVIOUS
<1>4. m \in 1..(k + 1) /\ m >= k + 1
  BY <1>2, <1>3
<1> QED BY <1>3, <1>4

\* The function of the fold exists: it is extended one place at a time.
LEMMA IterExists ==
    ASSUME NEW g, NEW resolved, NEW n \in Nat
    PROVE  \E iter : IsIter(iter, g, resolved, n, SUBSET (1..n))
<1> DEFINE place(x) == [i \in 1..n |-> i][x]
           Have == {k \in Nat : \E iter : IsIter(iter, g, resolved, n, SUBSET (1..k))}
<1>1. 0 \in Have
  <2> DEFINE iter == [s \in SUBSET (1..0) |-> FirstAcc(g, resolved)]
  <2>1. IsIter(iter, g, resolved, n, SUBSET (1..0))
    <3>1. \A s \in SUBSET (1..0) : s = {}
      OBVIOUS
    <3> QED BY <3>1 DEF IsIter
  <2> QED BY <2>1
<1>2. ASSUME NEW k \in Nat, k \in Have PROVE k + 1 \in Have
  <2>1. PICK iter : IsIter(iter, g, resolved, n, SUBSET (1..k))
    BY <1>2
  <2> DEFINE D == SUBSET (1..(k + 1))
             more == [s \in D |->
                        IF k + 1 \in s
                        THEN ApplyOne(resolved, iter[s \ {k + 1}], place(k + 1))
                        ELSE iter[s]]
             next(s) == IF s = {} THEN FirstAcc(g, resolved)
                        ELSE ApplyOne(resolved, more[s \ {Max(s)}], place(Max(s)))
  <2>2. ASSUME NEW s \in SUBSET (1..k) PROVE more[s] = iter[s] /\ s \in D
    <3>1. s \in D /\ k + 1 \notin s
      OBVIOUS
    <3> QED BY <3>1
  <2>3. ASSUME NEW s \in D PROVE more[s] = next(s)
    <3>1. CASE k + 1 \in s
      <4>1. Max(s) = k + 1 /\ s # {}
        BY <3>1, LastIsMax
      <4>2. s \ {k + 1} \in SUBSET (1..k)
        OBVIOUS
      <4>3. more[s \ {k + 1}] = iter[s \ {k + 1}]
        BY <4>2, <2>2
      <4>4. more[s] = ApplyOne(resolved, iter[s \ {k + 1}], place(k + 1))
        BY <3>1
      <4> HIDE DEF more
      <4> QED BY <4>1, <4>3, <4>4
    <3>2. CASE k + 1 \notin s
      <4>1. s \in SUBSET (1..k) /\ s \ {Max(s)} \in SUBSET (1..k)
        <5>1. s \in SUBSET (1..k)
          BY <3>2
        <5>2. s \ {Max(s)} \subseteq s
          OBVIOUS
        <5> QED BY <5>1, <5>2
      <4>2. more[s] = iter[s] /\ more[s \ {Max(s)}] = iter[s \ {Max(s)}]
        BY <4>1, <2>2
      <4>3. iter[s] = IF s = {} THEN FirstAcc(g, resolved)
                      ELSE ApplyOne(resolved, iter[s \ {Max(s)}], place(Max(s)))
        BY <4>1, <2>1 DEF IsIter
      <4> HIDE DEF more
      <4> QED BY <4>2, <4>3
    <3> QED BY <3>1, <3>2
  <2>4. more = [s \in D |-> next(s)]
    <3>1. DOMAIN more = D /\ more = [s \in D |-> more[s]]
      OBVIOUS
    <3> HIDE DEF more, D
    <3> QED BY <2>3, <3>1
  <2>5. IsIter(more, g, resolved, n, D)
    <3> HIDE DEF more, D
    <3> QED BY <2>4 DEF IsIter
  <2> HIDE DEF more
  <2> QED BY <2>5
<1>3. Nat \subseteq Have
  <2> HIDE DEF Have
  <2> QED BY <1>1, <1>2, NatSteps
<1> QED BY <1>3

\* The states that applying goes through, one operation after the other.
Applying(acc, g, ops, n) ==
    /\ acc[0] = FirstAcc(g, Resolved(g, ops))
    /\ \A k \in Nat : k + 1 <= n =>
          acc[k + 1] = ApplyOne(Resolved(g, ops), acc[k], k + 1)
    /\ Applied(g, ops, n) = acc[n]

\* There are such states.
LEMMA AppliedSteps ==
    ASSUME NEW g, NEW ops, NEW n \in Nat
    PROVE  \E acc : Applying(acc, g, ops, n)
<1> DEFINE R == Resolved(g, ops)
<1>1. PICK iter : IsIter(iter, g, R, n, SUBSET (1..n)) /\ Applied(g, ops, n) = iter[1..n]
  <2>1. PICK iter : iter = CHOOSE it : IsIter(it, g, R, n, SUBSET (1..n))
    OBVIOUS
  <2>2. Applied(g, ops, n) = iter[1..n]
    BY <2>1, AppliedIsFold
  <2> HIDE DEF R
  <2>3. \E it : IsIter(it, g, R, n, SUBSET (1..n))
    BY IterExists
  <2>4. IsIter(iter, g, R, n, SUBSET (1..n))
    BY <2>1, <2>3
  <2> QED BY <2>2, <2>4
<1> HIDE DEF R
<1> DEFINE acc == [k \in 0..n |-> iter[1..k]]
<1>2. acc[0] = FirstAcc(g, R)
  <2>1. acc[0] = iter[{}]
    <3>1. 1..0 = {} /\ 0 \in 0..n
      OBVIOUS
    <3> QED BY <3>1
  <2> QED BY <1>1, <2>1 DEF IsIter
<1>3. ASSUME NEW k \in Nat, k + 1 <= n PROVE acc[k + 1] = ApplyOne(R, acc[k], k + 1)
  <2> DEFINE s == 1..(k + 1)
  <2>1. s \in SUBSET (1..n) /\ s # {} /\ Max(s) = k + 1
    <3>1. s \in SUBSET (1..(k + 1)) /\ k + 1 \in s
      OBVIOUS
    <3>2. s \in SUBSET (1..n) /\ s # {}
      BY <1>3, <3>1
    <3> HIDE DEF s
    <3> QED BY <3>1, <3>2, LastIsMax
  <2>2. s \ {k + 1} = 1..k
    OBVIOUS
  <2>3. [i \in 1..n |-> i][k + 1] = k + 1 /\ k \in 0..n /\ k + 1 \in 0..n
    BY <1>3
  <2>4. acc[k + 1] = iter[s] /\ acc[k] = iter[1..k]
    BY <2>3
  <2> HIDE DEF s, acc
  <2>5. iter[s] = ApplyOne(R, iter[s \ {Max(s)}], [i \in 1..n |-> i][Max(s)])
    BY <1>1, <2>1 DEF IsIter
  <2> QED BY <2>1, <2>2, <2>3, <2>4, <2>5
<1>4. Applied(g, ops, n) = acc[n]
  BY <1>1
<1> HIDE DEF acc
<1> QED BY <1>2, <1>3, <1>4 DEF R, Applying

\* A list of anything.
Listed(s) == s \in Seq({s[i] : i \in DOMAIN s})

\* The empty list is a list.
LEMMA ListedEmpty == Listed(<< >>)
BY DEF Listed

\* A list stays one when something is appended, and is not empty then.
LEMMA ListedMore ==
    ASSUME NEW s, NEW x, Listed(s)
    PROVE  Listed(Append(s, x)) /\ Append(s, x) # << >>
<1> DEFINE U == {s[i] : i \in DOMAIN s} \cup {x}
           t == Append(s, x)
<1>1. s \in Seq(U)
  <2> DEFINE V == {s[i] : i \in DOMAIN s}
  <2>1. s \in Seq(V) /\ V \subseteq U
    BY DEF Listed
  <2> HIDE DEF V, U
  <2> QED BY <2>1
<1> HIDE DEF U
<1>2. t \in Seq(U) /\ Len(t) = Len(s) + 1 /\ Len(s) \in Nat
  BY <1>1, x \in U DEF U
<1> HIDE DEF t
<1>3. Listed(t)
  <2> DEFINE V == {t[i] : i \in DOMAIN t}
  <2>1. DOMAIN t = 1..Len(t) /\ \A i \in 1..Len(t) : t[i] \in V
    BY <1>2
  <2>2. t = [i \in 1..Len(t) |-> t[i]]
    BY <1>2
  <2>3. t \in Seq(V)
    <3> HIDE DEF V
    <3> QED BY <1>2, <2>1, <2>2, SeqDef
  <2> QED BY <2>3 DEF Listed
<1>4. t # << >>
  BY <1>2
<1> QED BY <1>3, <1>4 DEF t

\* Applied to a good graph, any first part of any record gives a good graph,
\* and the graph itself when no operation was applied, whatever is skipped
\* and whatever its aliases stand for (proposals/index.ts,
\* applyGraphProposal).
THEOREM AppliedGood ==
    ASSUME NEW g, Good(g), NEW ops, NEW n \in Nat
    PROVE  /\ Good(Applied(g, ops, n).graph)
           /\ Applied(g, ops, n).applied = << >> => Applied(g, ops, n).graph = g
<1> DEFINE R == Resolved(g, ops)
           Fields == {"graph", "applied", "skipped", "bound"}
           Fine(a) == /\ Keyed(a, Fields)
                      /\ Good(a.graph)
                      /\ Listed(a.applied)
                      /\ a.applied = << >> => a.graph = g
<1>1. PICK acc : /\ acc[0] = FirstAcc(g, R)
                 /\ \A k \in Nat : k + 1 <= n => acc[k + 1] = ApplyOne(R, acc[k], k + 1)
                 /\ Applied(g, ops, n) = acc[n]
  BY AppliedSteps DEF Applying
<1> HIDE DEF R
<1> DEFINE Have == {k \in Nat : k <= n => Fine(acc[k])}
<1>2. 0 \in Have
  <2>1. Fine(FirstAcc(g, R))
    BY ListedEmpty DEF FirstAcc, Keyed
  <2> HIDE DEF Fine
  <2> QED BY <1>1, <2>1
<1>3. ASSUME NEW k \in Nat, k \in Have PROVE k + 1 \in Have
  <2> SUFFICES ASSUME k + 1 <= n PROVE Fine(acc[k + 1])
    OBVIOUS
  <2>1. Fine(acc[k])
    <3> HIDE DEF Fine
    <3> QED BY <1>3
  <2>2. acc[k + 1] = ApplyOne(R, acc[k], k + 1)
    BY <1>1
  <2> DEFINE a == acc[k]
             op == R.ops[k + 1]
  <2>3. CASE Applicable(a.graph, op)
    <3> DEFINE b == [a EXCEPT !.graph = Effect(a.graph, op), !.applied = Append(a.applied, op)]
    <3>1. acc[k + 1] = b
      BY <2>2, <2>3 DEF ApplyOne
    <3>2. /\ Keyed(b, Fields) /\ b.graph = Effect(a.graph, op)
          /\ b.applied = Append(a.applied, op)
      <4>1. Keyed(a, Fields)
        BY <2>1
      <4> HIDE DEF a
      <4> QED BY <4>1 DEF Keyed
    <3>3. Good(Effect(a.graph, op))
      BY <2>1, <2>3, EffectGood DEF Applicable
    <3>4. Listed(Append(a.applied, op)) /\ Append(a.applied, op) # << >>
      BY <2>1, ListedMore
    <3> HIDE DEF b, a, op
    <3> QED BY <3>1, <3>2, <3>3, <3>4
  <2>4. CASE ~ Applicable(a.graph, op)
    <3> DEFINE b == [a EXCEPT !.skipped = Append(a.skipped, op)]
    <3>1. acc[k + 1] = b
      BY <2>2, <2>4 DEF ApplyOne
    <3>2. Keyed(b, Fields) /\ b.graph = a.graph /\ b.applied = a.applied
      <4>1. Keyed(a, Fields)
        BY <2>1
      <4> HIDE DEF a
      <4> QED BY <4>1 DEF Keyed
    <3> HIDE DEF b
    <3> QED BY <2>1, <3>1, <3>2
  <2> QED BY <2>3, <2>4
<1>4. Fine(acc[n])
  <2>1. Nat \subseteq Have
    <3> HIDE DEF Have
    <3> QED BY <1>2, <1>3, NatSteps
  <2> HIDE DEF Fine
  <2> QED BY <2>1
<1> QED BY <1>1, <1>4

----------------------------------------------------------------------------
(* Renaming the rows of a graph *)

Under(f, D) == {f[i] : i \in D}
Ends(f, succ) == {<< f[e[1]], f[e[2]] >> : e \in succ}
Injective(f, D) == \A i, j \in D : f[i] = f[j] => i = j

\* A row under other names: its owner (milestone, feature) and what it depends
\* on are renamed, its other columns are the same.
RowRenamed(r, q, fields, own, fo, fr) ==
    /\ Keyed(r, fields) /\ Keyed(q, fields)
    /\ q[own] = fo[r[own]]
    /\ q.deps = Under(fr, r.deps)
    /\ \A x \in fields \ {own, "deps"} : q[x] = r[x]
TableRenamed(a, b, fields, own, fo, fr) ==
    /\ DOMAIN b = Under(fr, DOMAIN a)
    /\ \A i \in DOMAIN a : RowRenamed(a[i], b[fr[i]], fields, own, fo, fr)

\* h is g under the names m, one function for each kind of row.
GraphRenamed(g, h, m) ==
    /\ DOMAIN h.ms = Under(m.ms, DOMAIN g.ms)
    /\ \A i \in DOMAIN g.ms : h.ms[m.ms[i]] = g.ms[i]
    /\ TableRenamed(g.fs, h.fs, FeatureFields, "milestone", m.ms, m.fs)
    /\ TableRenamed(g.ts, h.ts, TaskFields, "feature", m.fs, m.ts)

\* The names tell the rows of each kind apart.
Tells(g, m) == \A kind \in Kinds : Injective(m[kind], DOMAIN g[kind])

\* A row is added under its name.
LEMMA PutRenamed ==
    ASSUME NEW a, NEW b, NEW fields, NEW own, NEW fo, NEW fr,
           TableRenamed(a, b, fields, own, fo, fr),
           NEW x, x \notin DOMAIN a, Injective(fr, DOMAIN a \cup {x}),
           NEW r, NEW q, RowRenamed(r, q, fields, own, fo, fr)
    PROVE  TableRenamed(Put(a, x, r), Put(b, fr[x], q), fields, own, fo, fr)
<1>o. PICK y : y = fr[x]
  OBVIOUS
<1> DEFINE A == Put(a, x, r)
           B == Put(b, y, q)
<1>1. /\ DOMAIN A = DOMAIN a \cup {x} /\ A[x] = r
      /\ \A i \in DOMAIN a : A[i] = a[i]
  BY DEF Put
<1>2. /\ DOMAIN B = DOMAIN b \cup {y} /\ B[y] = q
      /\ \A j \in DOMAIN b : j # y => B[j] = b[j]
  BY DEF Put
<1>3. \A i \in DOMAIN a : fr[i] # y /\ fr[i] \in DOMAIN b
  BY <1>o DEF Injective, TableRenamed, Under
<1> HIDE DEF A, B
<1>4. DOMAIN B = Under(fr, DOMAIN A)
  BY <1>1, <1>2, <1>o DEF TableRenamed, Under
<1>5. ASSUME NEW i \in DOMAIN A PROVE RowRenamed(A[i], B[fr[i]], fields, own, fo, fr)
  <2>1. CASE i = x
    BY <2>1, <1>1, <1>2, <1>o
  <2>2. CASE i # x
    <3>1. i \in DOMAIN a /\ A[i] = a[i] /\ B[fr[i]] = b[fr[i]]
      BY <2>2, <1>1, <1>2, <1>3
    <3> QED BY <3>1 DEF TableRenamed
  <2> QED BY <2>1, <2>2
<1> QED BY <1>4, <1>5, <1>o DEF TableRenamed, A, B

\* A row is written under its name.
LEMMA WriteRenamed ==
    ASSUME NEW a, NEW b, NEW fields, NEW own, NEW fo, NEW fr,
           TableRenamed(a, b, fields, own, fo, fr), Injective(fr, DOMAIN a),
           NEW x \in DOMAIN a,
           NEW r, NEW q, RowRenamed(r, q, fields, own, fo, fr)
    PROVE  TableRenamed([a EXCEPT ![x] = r], [b EXCEPT ![fr[x]] = q],
                        fields, own, fo, fr)
<1>o. PICK y : y = fr[x]
  OBVIOUS
<1> DEFINE A == [a EXCEPT ![x] = r]
           B == [b EXCEPT ![y] = q]
<1>1. /\ DOMAIN A = DOMAIN a /\ A[x] = r
      /\ \A i \in DOMAIN a : i # x => A[i] = a[i]
  OBVIOUS
<1>3. /\ y \in DOMAIN b
      /\ \A i \in DOMAIN a : fr[i] \in DOMAIN b /\ (i # x => fr[i] # y)
  BY <1>o DEF Injective, TableRenamed, Under
<1>2. /\ DOMAIN B = DOMAIN b /\ B[y] = q
      /\ \A j \in DOMAIN b : j # y => B[j] = b[j]
  BY <1>3
<1> HIDE DEF A, B
<1>5. ASSUME NEW i \in DOMAIN A PROVE RowRenamed(A[i], B[fr[i]], fields, own, fo, fr)
  <2>1. CASE i = x
    BY <2>1, <1>1, <1>2, <1>o
  <2>2. CASE i # x
    <3>1. i \in DOMAIN a /\ A[i] = a[i] /\ B[fr[i]] = b[fr[i]]
      BY <2>2, <1>1, <1>2, <1>3
    <3> QED BY <3>1 DEF TableRenamed
  <2> QED BY <2>1, <2>2
<1> QED BY <1>1, <1>2, <1>5, <1>o DEF TableRenamed, A, B

\* Rows are removed under their names, and the others no longer depend on them.
LEMMA WithoutRenamed ==
    ASSUME NEW a, NEW b, NEW fields, NEW own, NEW fo, NEW fr,
           "deps" \in fields, own # "deps", own \in fields,
           TableRenamed(a, b, fields, own, fo, fr), Injective(fr, DOMAIN a),
           \A i \in DOMAIN a : a[i].deps \subseteq DOMAIN a,
           NEW gone \in SUBSET DOMAIN a
    PROVE  TableRenamed(Without(a, gone), Without(b, Under(fr, gone)),
                        fields, own, fo, fr)
<1>o. PICK left1 : left1 = Under(fr, gone)
  OBVIOUS
<1> DEFINE A == Without(a, gone)
           B == Without(b, left1)
<1>1. /\ DOMAIN A = DOMAIN a \ gone
      /\ \A i \in DOMAIN A : A[i] = [a[i] EXCEPT !.deps = @ \ gone]
  BY DEF Without
<1>2. /\ DOMAIN B = DOMAIN b \ left1
      /\ \A i \in DOMAIN B : B[i] = [b[i] EXCEPT !.deps = @ \ left1]
  BY DEF Without
<1> HIDE DEF A, B
<1>3. ASSUME NEW i \in DOMAIN a PROVE fr[i] \in left1 <=> i \in gone
  BY <1>o DEF Injective, Under
<1>4. DOMAIN B = Under(fr, DOMAIN A)
  BY <1>1, <1>2, <1>3 DEF TableRenamed, Under
<1>5. ASSUME NEW i \in DOMAIN A PROVE RowRenamed(A[i], B[fr[i]], fields, own, fo, fr)
  <2>o. PICK r, q : r = a[i] /\ q = b[fr[i]]
    OBVIOUS
  <2>1. RowRenamed(r, q, fields, own, fo, fr) /\ i \in DOMAIN a /\ r.deps \subseteq DOMAIN a
    BY <1>1, <2>o DEF TableRenamed
  <2>2. A[i] = [r EXCEPT !.deps = @ \ gone] /\ B[fr[i]] = [q EXCEPT !.deps = @ \ left1]
    <3>1. fr[i] \in DOMAIN B
      BY <1>4 DEF Under
    <3> QED BY <1>1, <1>2, <2>o, <3>1
  <2>3. q.deps \ left1 = Under(fr, r.deps \ gone)
    <3>1. q.deps = Under(fr, r.deps)
      BY <2>1 DEF RowRenamed
    <3>2. ASSUME NEW j \in q.deps \ left1 PROVE j \in Under(fr, r.deps \ gone)
      <4>1. PICK d \in r.deps : j = fr[d]
        BY <3>1 DEF Under
      <4>2. d \notin gone
        BY <4>1, <1>3, <2>1
      <4> QED BY <4>1, <4>2 DEF Under
    <3>3. ASSUME NEW j \in Under(fr, r.deps \ gone) PROVE j \in q.deps \ left1
      <4>1. PICK d \in r.deps \ gone : j = fr[d]
        BY DEF Under
      <4>2. j \in q.deps
        BY <4>1, <3>1 DEF Under
      <4>3. j \notin left1
        BY <4>1, <1>3, <2>1
      <4> QED BY <4>2, <4>3
    <3> QED BY <3>2, <3>3
  <2>4. Keyed(r, fields) /\ Keyed(q, fields)
    BY <2>1 DEF RowRenamed
  <2>5. Keyed(A[i], fields) /\ Keyed(B[fr[i]], fields)
    BY <2>2, <2>4 DEF Keyed
  <2>6. /\ \A x \in fields \ {"deps"} : A[i][x] = r[x] /\ B[fr[i]][x] = q[x]
        /\ A[i].deps = r.deps \ gone /\ B[fr[i]].deps = q.deps \ left1
    BY <2>2, <2>4 DEF Keyed
  <2>7. B[fr[i]].deps = Under(fr, A[i].deps)
    BY <2>3, <2>6
  <2> QED BY <2>1, <2>5, <2>6, <2>7 DEF RowRenamed
<1> QED BY <1>4, <1>5, <1>o DEF TableRenamed, A, B

\* The edges of the rows are renamed with them.
LEMMA EdgesRenamed ==
    ASSUME NEW a, NEW b, NEW fields, NEW own, NEW fo, NEW fr,
           TableRenamed(a, b, fields, own, fo, fr)
    PROVE  Pairs(b) = Ends(fr, Pairs(a))
<1>1. ASSUME NEW e \in Pairs(b) PROVE \E c \in Pairs(a) : e = << fr[c[1]], fr[c[2]] >>
  <2>1. e = << e[1], e[2] >> /\ e[2] \in DOMAIN b /\ e[1] \in b[e[2]].deps
    BY EdgeOf
  <2>2. PICK i \in DOMAIN a : e[2] = fr[i]
    BY <2>1 DEF TableRenamed, Under
  <2>3. PICK d \in a[i].deps : e[1] = fr[d]
    BY <2>1, <2>2 DEF TableRenamed, RowRenamed, Under
  <2>4. << d, i >> \in Pairs(a) /\ << d, i >>[1] = d /\ << d, i >>[2] = i
    BY EdgeOf
  <2>5. e = << fr[d], fr[i] >>
    BY <2>1, <2>2, <2>3
  <2> QED BY <2>4, <2>5
<1>2. ASSUME NEW c \in Pairs(a) PROVE << fr[c[1]], fr[c[2]] >> \in Pairs(b)
  <2>1. c[2] \in DOMAIN a /\ c[1] \in a[c[2]].deps
    BY EdgeOf
  <2>2. fr[c[2]] \in DOMAIN b /\ fr[c[1]] \in b[fr[c[2]]].deps
    BY <2>1 DEF TableRenamed, RowRenamed, Under
  <2> QED BY <2>2, EdgeOf
<1> QED BY <1>1, <1>2 DEF Ends

\* A path between renamed rows is one between the rows.
LEMMA PathRenamed ==
    ASSUME NEW D, NEW succ, IsFiniteSet(succ), \A e \in succ : {e[1], e[2]} \subseteq D,
           NEW f, Injective(f, D), NEW from \in D, NEW to \in D,
           HasPath(f[from], f[to], Ends(f, succ))
    PROVE  HasPath(from, to, succ)
<1>o. PICK R, new : R = Reach(from, succ) /\ new = Ends(f, succ)
  OBVIOUS
<1>n. new = {<< f[e[1]], f[e[2]] >> : e \in succ}
  BY <1>o DEF Ends
<1>1. from \in R /\ \A e \in succ : e[1] \in R => e[2] \in R
  BY <1>o, ReachClosed
<1>2. R \subseteq D
  BY <1>o, ReachLeast, FS_CardinalityType
<1>3. Cardinality(new) \in Nat
  <2> DEFINE pair == [e \in succ |-> << f[e[1]], f[e[2]] >>]
  <2>1. pair \in Surjection(succ, new)
    BY <1>n DEF Surjection
  <2> HIDE DEF pair
  <2>2. IsFiniteSet(new)
    BY <2>1, FS_Surjection
  <2> QED BY <2>2, FS_CardinalityType
<1>4. ASSUME NEW c \in new, c[1] \in Under(f, R) PROVE c[2] \in Under(f, R)
  <2>1. PICK e \in succ : c = << f[e[1]], f[e[2]] >>
    BY <1>n
  <2>2. PICK y \in R : f[e[1]] = f[y]
    BY <1>4, <2>1 DEF Under
  <2>3. e[1] = y
    BY <2>2, <1>2 DEF Injective
  <2> QED BY <1>1, <2>1, <2>2, <2>3 DEF Under
<1>5. f[from] \in Under(f, R)
  BY <1>1 DEF Under
<1>6. Reach(f[from], new) \subseteq Under(f, R)
  <2>1. \A c \in new : c[1] \in Under(f, R) => c[2] \in Under(f, R)
    BY <1>4
  <2> QED BY <1>3, <1>5, <2>1, ReachLeast
<1>7. PICK y \in R : f[to] = f[y]
  BY <1>6, <1>o DEF HasPath, Under
<1>8. to = y
  BY <1>7, <1>2 DEF Injective
<1> QED BY <1>7, <1>8, <1>o DEF HasPath

\* As many rows have as many names.
LEMMA CardinalityUnder ==
    ASSUME NEW f, NEW D, IsFiniteSet(D), Injective(f, D)
    PROVE  Cardinality(Under(f, D)) = Cardinality(D)
<1> DEFINE F == [i \in D |-> f[i]]
           E == Under(f, D)
<1>1. F \in Bijection(D, E)
  BY DEF Bijection, Injection, Surjection, IsInjective, Injective, Under
<1> HIDE DEF F, E
<1>2. ExistsBijection(D, E)
  BY <1>1 DEF ExistsBijection
<1> QED BY <1>2, FS_Bijection DEF E

\* The rows of an owner: of a milestone, or of a feature.
Owned(rows, own, o) == {i \in DOMAIN rows : rows[i][own] = o}

\* The rows of an owner are those of its name, and the next place among them
\* is the same.
LEMMA OwnedRenamed ==
    ASSUME NEW a, NEW b, NEW fields, NEW own, NEW fo, NEW fr,
           TableRenamed(a, b, fields, own, fo, fr),
           "order" \in fields \ {own, "deps"},
           NEW O, Injective(fo, O), \A i \in DOMAIN a : a[i][own] \in O,
           NEW o \in O
    PROVE  /\ Owned(b, own, fo[o]) = Under(fr, Owned(a, own, o))
           /\ OrderAfter(b, Owned(b, own, fo[o])) = OrderAfter(a, Owned(a, own, o))
<1> DEFINE mates == Owned(a, own, o)
           named == Owned(b, own, fo[o])
<1>1. ASSUME NEW i \in DOMAIN a
      PROVE  /\ fr[i] \in DOMAIN b /\ b[fr[i]].order = a[i].order
             /\ b[fr[i]][own] = fo[o] <=> a[i][own] = o
  BY DEF TableRenamed, RowRenamed, Under, Injective
<1>2. \A j \in DOMAIN b : \E i \in DOMAIN a : j = fr[i]
  BY DEF TableRenamed, Under
<1>3. named = Under(fr, mates)
  BY <1>1, <1>2 DEF Under, Owned
<1>4. {b[j].order : j \in named} = {a[i].order : i \in mates}
  <2>1. \A j \in named : \E i \in mates : b[j].order = a[i].order
    BY <1>1, <1>2 DEF Owned
  <2>2. \A i \in mates : \E j \in named : b[j].order = a[i].order
    BY <1>1 DEF Owned
  <2> HIDE DEF mates, named
  <2> QED BY <2>1, <2>2
<1> HIDE DEF mates, named
<1>5. OrderAfter(b, named) = OrderAfter(a, mates)
  BY <1>4 DEF OrderAfter
<1> QED BY <1>3, <1>5 DEF mates, named

----------------------------------------------------------------------------
(* Operations on graphs that are alike *)

\* Two good graphs are the same up to names that tell rows apart.
Alike(g, h, m) == Good(g) /\ Good(h) /\ GraphRenamed(g, h, m) /\ Tells(g, m)

\* What this means, for each kind of row.
LEMMA AlikeParts ==
    ASSUME NEW g, NEW h, NEW m, Alike(g, h, m)
    PROVE  /\ DOMAIN h.ms = Under(m.ms, DOMAIN g.ms)
           /\ \A i \in DOMAIN g.ms : h.ms[m.ms[i]] = g.ms[i]
           /\ TableRenamed(g.fs, h.fs, FeatureFields, "milestone", m.ms, m.fs)
           /\ TableRenamed(g.ts, h.ts, TaskFields, "feature", m.fs, m.ts)
           /\ Injective(m.ms, DOMAIN g.ms)
           /\ Injective(m.fs, DOMAIN g.fs)
           /\ Injective(m.ts, DOMAIN g.ts)
<1>1. Injective(m["ms"], DOMAIN g["ms"]) /\ Injective(m["fs"], DOMAIN g["fs"])
      /\ Injective(m["ts"], DOMAIN g["ts"])
  BY DEF Alike, Tells, Kinds
<1> QED BY <1>1 DEF Alike, GraphRenamed

\* A milestone is added to both.
LEMMA AddMilestoneAlike ==
    ASSUME NEW g, NEW h, NEW m, Alike(g, h, m), NEW x, CanCreateMilestone(g, x),
           Injective(m.ms, DOMAIN g.ms \cup {x})
    PROVE  /\ CanCreateMilestone(h, m.ms[x])
           /\ GraphRenamed(CreateMilestone(g, x), CreateMilestone(h, m.ms[x]), m)
<1>o. PICK a, b, y, f : /\ a = g.ms /\ b = h.ms /\ f = m.ms /\ y = f[x]
  OBVIOUS
<1>p. /\ DOMAIN b = Under(f, DOMAIN a) /\ \A i \in DOMAIN a : b[f[i]] = a[i]
      /\ Injective(f, DOMAIN a) /\ IsFiniteSet(DOMAIN a)
      /\ x \notin DOMAIN a /\ Injective(f, DOMAIN a \cup {x})
  <2>1. Table(g.ms, MilestoneFields)
    BY GoodParts DEF Alike
  <2> QED BY <1>o, <2>1, AlikeParts DEF Table, CanCreateMilestone
<1>1. \A i \in DOMAIN a : f[i] # y /\ f[i] \in DOMAIN b
  BY <1>o, <1>p DEF Injective, Under
<1>2. y \notin DOMAIN b
  BY <1>1, <1>p DEF Under
<1> DEFINE r == NewMilestone(Cardinality(DOMAIN a))
           A == Put(a, x, r)
           B == Put(b, y, r)
<1>3. Cardinality(DOMAIN b) = Cardinality(DOMAIN a)
  BY <1>p, CardinalityUnder
<1>4. /\ CreateMilestone(g, x) = [g EXCEPT !.ms = A]
      /\ CreateMilestone(h, m.ms[x]) = [h EXCEPT !.ms = B]
  BY <1>3, <1>o DEF CreateMilestone
<1> HIDE DEF r
<1>5. DOMAIN B = Under(f, DOMAIN A) /\ \A i \in DOMAIN A : B[f[i]] = A[i]
  BY <1>1, <1>2, <1>p, <1>o DEF Put, Under
<1> HIDE DEF A, B
<1>6. GraphRenamed([g EXCEPT !.ms = A], [h EXCEPT !.ms = B], m)
  <2> DEFINE G == [g EXCEPT !.ms = A]
             H == [h EXCEPT !.ms = B]
  <2>1. G.ms = A /\ G.fs = g.fs /\ G.ts = g.ts /\ H.ms = B /\ H.fs = h.fs /\ H.ts = h.ts
    BY GoodParts DEF Alike, Keyed, GraphFields
  <2> HIDE DEF G, H
  <2>2. GraphRenamed(G, H, m)
    BY <2>1, <1>5, <1>o, AlikeParts DEF GraphRenamed
  <2> QED BY <2>2 DEF G, H
<1> QED BY <1>2, <1>4, <1>6, <1>o DEF CanCreateMilestone

\* Features are replaced in both.
LEMMA FeaturesAlike ==
    ASSUME NEW g, NEW h, NEW m, Alike(g, h, m), NEW a, NEW b,
           TableRenamed(a, b, FeatureFields, "milestone", m.ms, m.fs)
    PROVE  /\ GraphRenamed([g EXCEPT !.fs = a], [h EXCEPT !.fs = b], m)
           /\ \A u, v : GraphRenamed([g EXCEPT !.fs = a, !.fsucc = u],
                                     [h EXCEPT !.fs = b, !.fsucc = v], m)
<1> SUFFICES ASSUME NEW u, NEW v
             PROVE  /\ GraphRenamed([g EXCEPT !.fs = a], [h EXCEPT !.fs = b], m)
                    /\ GraphRenamed([g EXCEPT !.fs = a, !.fsucc = u],
                                    [h EXCEPT !.fs = b, !.fsucc = v], m)
  OBVIOUS
<1> DEFINE G == [g EXCEPT !.fs = a, !.fsucc = u]
           H == [h EXCEPT !.fs = b, !.fsucc = v]
           I == [g EXCEPT !.fs = a]
           J == [h EXCEPT !.fs = b]
<1>1. Keyed(g, GraphFields) /\ Keyed(h, GraphFields)
  BY GoodParts DEF Alike
<1>2. G.ms = g.ms /\ G.fs = a /\ G.ts = g.ts /\ H.ms = h.ms /\ H.fs = b /\ H.ts = h.ts
  BY <1>1 DEF Keyed, GraphFields
<1>3. I.ms = g.ms /\ I.fs = a /\ I.ts = g.ts /\ J.ms = h.ms /\ J.fs = b /\ J.ts = h.ts
  BY <1>1 DEF Keyed, GraphFields
<1> HIDE DEF G, H, I, J
<1>4. GraphRenamed(G, H, m) /\ GraphRenamed(I, J, m)
  BY <1>2, <1>3, AlikeParts DEF GraphRenamed
<1> QED BY <1>4 DEF G, H, I, J

\* Tasks are replaced in both.
LEMMA TasksAlike ==
    ASSUME NEW g, NEW h, NEW m, Alike(g, h, m), NEW a, NEW b,
           TableRenamed(a, b, TaskFields, "feature", m.fs, m.ts)
    PROVE  /\ GraphRenamed([g EXCEPT !.ts = a], [h EXCEPT !.ts = b], m)
           /\ \A u, v : GraphRenamed([g EXCEPT !.ts = a, !.tsucc = u],
                                     [h EXCEPT !.ts = b, !.tsucc = v], m)
<1> SUFFICES ASSUME NEW u, NEW v
             PROVE  /\ GraphRenamed([g EXCEPT !.ts = a], [h EXCEPT !.ts = b], m)
                    /\ GraphRenamed([g EXCEPT !.ts = a, !.tsucc = u],
                                    [h EXCEPT !.ts = b, !.tsucc = v], m)
  OBVIOUS
<1> DEFINE G == [g EXCEPT !.ts = a, !.tsucc = u]
           H == [h EXCEPT !.ts = b, !.tsucc = v]
           I == [g EXCEPT !.ts = a]
           J == [h EXCEPT !.ts = b]
<1>1. Keyed(g, GraphFields) /\ Keyed(h, GraphFields)
  BY GoodParts DEF Alike
<1>2. G.ms = g.ms /\ G.ts = a /\ G.fs = g.fs /\ H.ms = h.ms /\ H.ts = b /\ H.fs = h.fs
  BY <1>1 DEF Keyed, GraphFields
<1>3. I.ms = g.ms /\ I.ts = a /\ I.fs = g.fs /\ J.ms = h.ms /\ J.ts = b /\ J.fs = h.fs
  BY <1>1 DEF Keyed, GraphFields
<1> HIDE DEF G, H, I, J
<1>4. GraphRenamed(G, H, m) /\ GraphRenamed(I, J, m)
  BY <1>2, <1>3, AlikeParts DEF GraphRenamed
<1> QED BY <1>4 DEF G, H, I, J

\* A new row has the columns of the new row of that name.
LEMMA NewRowsRenamed ==
    ASSUME NEW fo, NEW fr, NEW o, NEW k, NEW weight
    PROVE  /\ RowRenamed(NewFeature(o, k), NewFeature(fo[o], k),
                         FeatureFields, "milestone", fo, fr)
           /\ RowRenamed(NewTask(o, k, weight), NewTask(fo[o], k, weight),
                         TaskFields, "feature", fo, fr)
<1>1. PICK f, u, t, v : /\ f = NewFeature(o, k) /\ u = NewFeature(fo[o], k)
                        /\ t = NewTask(o, k, weight) /\ v = NewTask(fo[o], k, weight)
  OBVIOUS
<1>2. Keyed(f, FeatureFields) /\ Keyed(u, FeatureFields)
  BY <1>1 DEF NewFeature, Keyed, FeatureFields
<1>3. Keyed(t, TaskFields) /\ Keyed(v, TaskFields)
  BY <1>1 DEF NewTask, Keyed, TaskFields
<1>4. /\ u.milestone = fo[f.milestone] /\ f.deps = {} /\ u.deps = {}
      /\ \A x \in FeatureFields \ {"milestone", "deps"} : u[x] = f[x]
  <2>1. /\ f.milestone = o /\ u.milestone = fo[o] /\ f.deps = {} /\ u.deps = {}
        /\ u.order = f.order /\ u.text = f.text /\ u.status = f.status
        /\ u.work = f.work /\ u.collab = f.collab /\ u.blocked = f.blocked
    BY <1>1 DEF NewFeature
  <2> QED BY <2>1 DEF FeatureFields
<1>5. /\ v.feature = fo[t.feature] /\ t.deps = {} /\ v.deps = {}
      /\ \A x \in TaskFields \ {"feature", "deps"} : v[x] = t[x]
  BY <1>1 DEF NewTask, TaskFields
<1>6. Under(fr, {}) = {}
  BY DEF Under
<1> QED BY <1>1, <1>2, <1>3, <1>4, <1>5, <1>6 DEF RowRenamed

\* A feature is added to both.
LEMMA AddFeatureAlike ==
    ASSUME NEW g, NEW h, NEW m, Alike(g, h, m), NEW x, NEW o, CanCreateFeature(g, x, o),
           Injective(m.fs, DOMAIN g.fs \cup {x})
    PROVE  /\ CanCreateFeature(h, m.fs[x], m.ms[o])
           /\ GraphRenamed(CreateFeature(g, x, o), CreateFeature(h, m.fs[x], m.ms[o]), m)
<1>o. PICK a, b, fo, fr : a = g.fs /\ b = h.fs /\ fo = m.ms /\ fr = m.fs
  OBVIOUS
<1>1. /\ TableRenamed(a, b, FeatureFields, "milestone", fo, fr)
      /\ Injective(fo, DOMAIN g.ms) /\ Injective(fr, DOMAIN a \cup {x})
      /\ x \notin DOMAIN a /\ o \in DOMAIN g.ms
      /\ \A i \in DOMAIN a : a[i].milestone \in DOMAIN g.ms
  BY <1>o, AlikeParts, GoodParts DEF Alike, CanCreateFeature, Closed
<1>2. fr[x] \notin DOMAIN b /\ fo[o] \in DOMAIN h.ms
  BY <1>1, <1>o, AlikeParts DEF TableRenamed, Under, Injective
<1> DEFINE mates == Owned(a, "milestone", o)
           named == Owned(b, "milestone", fo[o])
           r == NewFeature(o, OrderAfter(a, mates))
           q == NewFeature(fo[o], OrderAfter(a, mates))
           A == Put(a, x, r)
           B == Put(b, fr[x], q)
<1>3. OrderAfter(b, named) = OrderAfter(a, mates)
  <2>1. "order" \in FeatureFields \ {"milestone", "deps"}
    BY DEF FeatureFields
  <2> QED BY <1>1, <2>1, OwnedRenamed
<1>4. /\ CreateFeature(g, x, o) = [g EXCEPT !.fs = A]
      /\ CreateFeature(h, m.fs[x], m.ms[o]) = [h EXCEPT !.fs = B]
  BY <1>3, <1>o DEF CreateFeature, Owned
<1>5. RowRenamed(r, q, FeatureFields, "milestone", fo, fr)
  BY NewRowsRenamed
<1> HIDE DEF r, q
<1>6. TableRenamed(A, B, FeatureFields, "milestone", m.ms, m.fs)
  BY <1>1, <1>5, <1>o, PutRenamed
<1> HIDE DEF A, B
<1>7. GraphRenamed(CreateFeature(g, x, o), CreateFeature(h, m.fs[x], m.ms[o]), m)
  <2>1. GraphRenamed([g EXCEPT !.fs = A], [h EXCEPT !.fs = B], m)
    BY <1>6, FeaturesAlike
  <2> QED BY <2>1, <1>4
<1> QED BY <1>2, <1>7, <1>o DEF CanCreateFeature

\* A task is added to both.
LEMMA AddTaskAlike ==
    ASSUME NEW g, NEW h, NEW m, Alike(g, h, m), NEW x, NEW o, CanCreateTask(g, x, o),
           Injective(m.ts, DOMAIN g.ts \cup {x}), NEW weight
    PROVE  /\ CanCreateTask(h, m.ts[x], m.fs[o])
           /\ GraphRenamed(CreateTask(g, x, o, weight),
                           CreateTask(h, m.ts[x], m.fs[o], weight), m)
<1>o. PICK a, b, fo, fr : a = g.ts /\ b = h.ts /\ fo = m.fs /\ fr = m.ts
  OBVIOUS
<1>1. /\ TableRenamed(a, b, TaskFields, "feature", fo, fr)
      /\ Injective(fo, DOMAIN g.fs) /\ Injective(fr, DOMAIN a \cup {x})
      /\ x \notin DOMAIN a /\ o \in DOMAIN g.fs /\ Editable(g.fs[o])
      /\ \A i \in DOMAIN a : a[i].feature \in DOMAIN g.fs
  BY <1>o, AlikeParts, GoodParts DEF Alike, CanCreateTask, Closed
<1>2. fr[x] \notin DOMAIN b
  BY <1>1 DEF TableRenamed, Under, Injective
<1>3. fo[o] \in DOMAIN h.fs /\ Editable(h.fs[fo[o]])
  <2>1. RowRenamed(g.fs[o], h.fs[fo[o]], FeatureFields, "milestone", m.ms, fo)
        /\ fo[o] \in DOMAIN h.fs
    BY <1>1, <1>o, AlikeParts DEF TableRenamed, Under
  <2>2. {"work", "collab"} \subseteq FeatureFields \ {"milestone", "deps"}
    BY DEF FeatureFields
  <2>3. h.fs[fo[o]].work = g.fs[o].work /\ h.fs[fo[o]].collab = g.fs[o].collab
    BY <2>1, <2>2 DEF RowRenamed
  <2> QED BY <1>1, <2>1, <2>3 DEF Editable, Completed
<1> DEFINE mates == Owned(a, "feature", o)
           named == Owned(b, "feature", fo[o])
           r == NewTask(o, OrderAfter(a, mates), weight)
           q == NewTask(fo[o], OrderAfter(a, mates), weight)
           A == Put(a, x, r)
           B == Put(b, fr[x], q)
<1>4. OrderAfter(b, named) = OrderAfter(a, mates)
  <2>1. "order" \in TaskFields \ {"feature", "deps"}
    BY DEF TaskFields
  <2> QED BY <1>1, <2>1, OwnedRenamed
<1>5. /\ CreateTask(g, x, o, weight) = [g EXCEPT !.ts = A]
      /\ CreateTask(h, m.ts[x], m.fs[o], weight) = [h EXCEPT !.ts = B]
  BY <1>4, <1>o DEF CreateTask, TasksOf, Owned
<1>6. RowRenamed(r, q, TaskFields, "feature", fo, fr)
  BY NewRowsRenamed
<1> HIDE DEF r, q
<1>7. TableRenamed(A, B, TaskFields, "feature", m.fs, m.ts)
  BY <1>1, <1>6, <1>o, PutRenamed
<1> HIDE DEF A, B
<1>8. GraphRenamed(CreateTask(g, x, o, weight), CreateTask(h, m.ts[x], m.fs[o], weight), m)
  <2>1. GraphRenamed([g EXCEPT !.ts = A], [h EXCEPT !.ts = B], m)
    BY <1>7, TasksAlike
  <2> QED BY <2>1, <1>5
<1> QED BY <1>2, <1>3, <1>8, <1>o DEF CanCreateTask

\* A column is written in a row and in the row of its name.
LEMMA ColumnRenamed ==
    ASSUME NEW r, NEW q, NEW fields, NEW own, NEW fo, NEW fr,
           RowRenamed(r, q, fields, own, fo, fr),
           NEW x \in fields \ {own, "deps"}, NEW v
    PROVE  RowRenamed([r EXCEPT ![x] = v], [q EXCEPT ![x] = v], fields, own, fo, fr)
<1> DEFINE R == [r EXCEPT ![x] = v]
           Q == [q EXCEPT ![x] = v]
<1>1. DOMAIN r = fields /\ DOMAIN q = fields
  BY DEF RowRenamed, Keyed
<1>2. /\ Keyed(R, fields) /\ Keyed(Q, fields)
      /\ \A y \in fields \ {x} : R[y] = r[y] /\ Q[y] = q[y]
      /\ R[x] = v /\ Q[x] = v
  BY <1>1 DEF Keyed
<1>3. Q[own] = fo[R[own]]
  <2>1. CASE own \in fields
    BY <1>2, <2>1 DEF RowRenamed
  <2>2. CASE own \notin fields
    <3>1. Q[own] = q[own] /\ R[own] = r[own]
      BY <2>2
    <3> QED BY <3>1 DEF RowRenamed
  <2> QED BY <2>1, <2>2
<1>4. R.deps = r.deps /\ Q.deps = q.deps
  OBVIOUS
<1> HIDE DEF R, Q
<1>5. RowRenamed(R, Q, fields, own, fo, fr)
  BY <1>2, <1>3, <1>4 DEF RowRenamed
<1> QED BY <1>5 DEF R, Q

\* What a row depends on is written in both.
LEMMA DepsRenamed ==
    ASSUME NEW r, NEW q, NEW fields, NEW own, NEW fo, NEW fr,
           RowRenamed(r, q, fields, own, fo, fr),
           own # "deps", own \in fields, "deps" \in fields,
           NEW ds, NEW es, es = Under(fr, ds)
    PROVE  RowRenamed([r EXCEPT !.deps = ds], [q EXCEPT !.deps = es], fields, own, fo, fr)
<1> DEFINE R == [r EXCEPT !.deps = ds]
           Q == [q EXCEPT !.deps = es]
<1>1. DOMAIN r = fields /\ DOMAIN q = fields
  BY DEF RowRenamed, Keyed
<1>2. /\ Keyed(R, fields) /\ Keyed(Q, fields)
      /\ \A y \in fields \ {"deps"} : R[y] = r[y] /\ Q[y] = q[y]
      /\ R.deps = ds /\ Q.deps = es
  BY <1>1 DEF Keyed
<1> HIDE DEF R, Q
<1>3. RowRenamed(R, Q, fields, own, fo, fr)
  BY <1>2 DEF RowRenamed
<1> QED BY <1>3 DEF R, Q

\* A feature or a task is edited in both.
LEMMA EditAlike ==
    ASSUME NEW g, NEW h, NEW m, Alike(g, h, m), NEW v
    PROVE  /\ \A f \in DOMAIN g.fs :
                /\ m.fs[f] \in DOMAIN h.fs
                /\ Editable(g.fs[f]) => Editable(h.fs[m.fs[f]])
                /\ GraphRenamed(EditFeature(g, f, v), EditFeature(h, m.fs[f], v), m)
           /\ \A t \in DOMAIN g.ts :
                /\ m.ts[t] \in DOMAIN h.ts
                /\ GraphRenamed(EditTask(g, t, v), EditTask(h, m.ts[t], v), m)
<1>1. ASSUME NEW f \in DOMAIN g.fs
      PROVE  /\ m.fs[f] \in DOMAIN h.fs
             /\ Editable(g.fs[f]) => Editable(h.fs[m.fs[f]])
             /\ GraphRenamed(EditFeature(g, f, v), EditFeature(h, m.fs[f], v), m)
  <2>o. PICK a, b, y : a = g.fs /\ b = h.fs /\ y = m.fs[f]
    OBVIOUS
  <2>1. /\ TableRenamed(a, b, FeatureFields, "milestone", m.ms, m.fs)
        /\ Injective(m.fs, DOMAIN a) /\ f \in DOMAIN a
    BY <2>o, AlikeParts
  <2>2. y \in DOMAIN b /\ RowRenamed(a[f], b[y], FeatureFields, "milestone", m.ms, m.fs)
    BY <2>1, <2>o DEF TableRenamed, Under
  <2>3. b[y].work = a[f].work /\ b[y].collab = a[f].collab
    <3>1. {"work", "collab"} \subseteq FeatureFields \ {"milestone", "deps"}
      BY DEF FeatureFields
    <3> QED BY <2>2, <3>1 DEF RowRenamed
  <2> DEFINE r == [a[f] EXCEPT !.text = v]
             q == [b[y] EXCEPT !.text = v]
             A == [a EXCEPT ![f] = r]
             B == [b EXCEPT ![y] = q]
  <2>4. RowRenamed(r, q, FeatureFields, "milestone", m.ms, m.fs)
    <3>1. "text" \in FeatureFields \ {"milestone", "deps"}
      BY DEF FeatureFields
    <3> QED BY <2>2, <3>1, ColumnRenamed
  <2>5. EditFeature(g, f, v) = [g EXCEPT !.fs = A] /\ EditFeature(h, y, v) = [h EXCEPT !.fs = B]
    BY <2>o DEF EditFeature
  <2> HIDE DEF r, q
  <2>6. TableRenamed(A, B, FeatureFields, "milestone", m.ms, m.fs)
    BY <2>1, <2>4, <2>o, WriteRenamed
  <2> HIDE DEF A, B
  <2>7. GraphRenamed([g EXCEPT !.fs = A], [h EXCEPT !.fs = B], m)
    BY <2>6, FeaturesAlike
  <2> QED BY <2>2, <2>3, <2>5, <2>7, <2>o DEF Editable, Completed
<1>2. ASSUME NEW t \in DOMAIN g.ts
      PROVE  /\ m.ts[t] \in DOMAIN h.ts
             /\ GraphRenamed(EditTask(g, t, v), EditTask(h, m.ts[t], v), m)
  <2>o. PICK a, b, y : a = g.ts /\ b = h.ts /\ y = m.ts[t]
    OBVIOUS
  <2>1. /\ TableRenamed(a, b, TaskFields, "feature", m.fs, m.ts)
        /\ Injective(m.ts, DOMAIN a) /\ t \in DOMAIN a
    BY <2>o, AlikeParts
  <2>2. y \in DOMAIN b /\ RowRenamed(a[t], b[y], TaskFields, "feature", m.fs, m.ts)
    BY <2>1, <2>o DEF TableRenamed, Under
  <2> DEFINE r == [a[t] EXCEPT !.weight = v]
             q == [b[y] EXCEPT !.weight = v]
             A == [a EXCEPT ![t] = r]
             B == [b EXCEPT ![y] = q]
  <2>4. RowRenamed(r, q, TaskFields, "feature", m.fs, m.ts)
    <3>1. "weight" \in TaskFields \ {"feature", "deps"}
      BY DEF TaskFields
    <3> QED BY <2>2, <3>1, ColumnRenamed
  <2>5. EditTask(g, t, v) = [g EXCEPT !.ts = A] /\ EditTask(h, y, v) = [h EXCEPT !.ts = B]
    BY <2>o DEF EditTask
  <2> HIDE DEF r, q
  <2>6. TableRenamed(A, B, TaskFields, "feature", m.fs, m.ts)
    BY <2>1, <2>4, <2>o, WriteRenamed
  <2> HIDE DEF A, B
  <2>7. GraphRenamed([g EXCEPT !.ts = A], [h EXCEPT !.ts = B], m)
    BY <2>6, TasksAlike
  <2> QED BY <2>2, <2>5, <2>7, <2>o
<1> QED BY <1>1, <1>2

\* A task is removed from both.
LEMMA RemoveTaskAlike ==
    ASSUME NEW g, NEW h, NEW m, Alike(g, h, m), NEW t, CanRemoveTask(g, t)
    PROVE  /\ CanRemoveTask(h, m.ts[t])
           /\ GraphRenamed(RemoveTask(g, t), RemoveTask(h, m.ts[t]), m)
<1>o. PICK a, b, y : a = g.ts /\ b = h.ts /\ y = m.ts[t]
  OBVIOUS
<1>1. /\ TableRenamed(a, b, TaskFields, "feature", m.fs, m.ts)
      /\ Injective(m.ts, DOMAIN a) /\ t \in DOMAIN a
      /\ \A i \in DOMAIN a : a[i].deps \subseteq DOMAIN a
  BY <1>o, AlikeParts, GoodParts DEF CanRemoveTask, Closed, Alike
<1>2. y \in DOMAIN b /\ b[y].status = a[t].status
  <2>1. y \in DOMAIN b /\ RowRenamed(a[t], b[y], TaskFields, "feature", m.fs, m.ts)
    BY <1>1, <1>o DEF TableRenamed, Under
  <2>2. "status" \in TaskFields \ {"feature", "deps"}
    BY DEF TaskFields
  <2> QED BY <2>1, <2>2 DEF RowRenamed
<1> DEFINE A == Without(a, {t})
           B == Without(b, {y})
           u == EdgesWithout(g.tsucc, {t})
           v == EdgesWithout(h.tsucc, {y})
<1>3. /\ RemoveTask(g, t) = [g EXCEPT !.ts = A, !.tsucc = u]
      /\ RemoveTask(h, y) = [h EXCEPT !.ts = B, !.tsucc = v]
  BY <1>o DEF RemoveTask
<1>4. TableRenamed(A, B, TaskFields, "feature", m.fs, m.ts)
  <2>1. Under(m.ts, {t}) = {y} /\ {t} \in SUBSET DOMAIN a
    BY <1>1, <1>o DEF Under
  <2>2. "deps" \in TaskFields /\ "feature" \in TaskFields
    BY DEF TaskFields
  <2>3. TableRenamed(A, Without(b, Under(m.ts, {t})), TaskFields, "feature", m.fs, m.ts)
    BY <1>1, <2>1, <2>2, WithoutRenamed
  <2> QED BY <2>1, <2>3
<1> HIDE DEF A, B, u, v
<1>5. GraphRenamed([g EXCEPT !.ts = A, !.tsucc = u], [h EXCEPT !.ts = B, !.tsucc = v], m)
  BY <1>4, TasksAlike
<1> QED BY <1>1, <1>2, <1>3, <1>5, <1>o DEF CanRemoveTask

\* A feature is removed from both, with its tasks.
LEMMA RemoveFeatureAlike ==
    ASSUME NEW g, NEW h, NEW m, Alike(g, h, m), NEW f \in DOMAIN g.fs
    PROVE  /\ m.fs[f] \in DOMAIN h.fs
           /\ GraphRenamed(RemoveFeature(g, f), RemoveFeature(h, m.fs[f]), m)
<1>o. PICK a, b, c, d, y : /\ a = g.fs /\ b = h.fs /\ c = g.ts /\ d = h.ts
                           /\ y = m.fs[f]
  OBVIOUS
<1>1. /\ TableRenamed(a, b, FeatureFields, "milestone", m.ms, m.fs)
      /\ TableRenamed(c, d, TaskFields, "feature", m.fs, m.ts)
      /\ Injective(m.fs, DOMAIN a) /\ Injective(m.ts, DOMAIN c) /\ f \in DOMAIN a
      /\ \A i \in DOMAIN a : a[i].deps \subseteq DOMAIN a
      /\ \A i \in DOMAIN c : c[i].deps \subseteq DOMAIN c /\ c[i].feature \in DOMAIN a
  BY <1>o, AlikeParts, GoodParts DEF Closed, Alike
<1>2. y \in DOMAIN b
  BY <1>1, <1>o DEF TableRenamed, Under
<1> DEFINE gone == Owned(c, "feature", f)
           lost == Owned(d, "feature", y)
           A == Without(a, {f})
           B == Without(b, {y})
           C == Without(c, gone)
           D == Without(d, lost)
           u == EdgesWithout(g.fsucc, {f})
           v == EdgesWithout(h.fsucc, {y})
           w == EdgesWithout(g.tsucc, gone)
           z == EdgesWithout(h.tsucc, lost)
           G == [g EXCEPT !.fs = A, !.fsucc = u, !.ts = C, !.tsucc = w]
           H == [h EXCEPT !.fs = B, !.fsucc = v, !.ts = D, !.tsucc = z]
<1>3. RemoveFeature(g, f) = G /\ RemoveFeature(h, y) = H
  BY <1>o DEF RemoveFeature, TasksOf, Owned
<1>4. TableRenamed(A, B, FeatureFields, "milestone", m.ms, m.fs)
  <2>1. Under(m.fs, {f}) = {y} /\ {f} \in SUBSET DOMAIN a
    BY <1>1, <1>o DEF Under
  <2>2. "deps" \in FeatureFields /\ "milestone" \in FeatureFields
    BY DEF FeatureFields
  <2>3. TableRenamed(A, Without(b, Under(m.fs, {f})), FeatureFields, "milestone", m.ms, m.fs)
    BY <1>1, <2>1, <2>2, WithoutRenamed
  <2> QED BY <2>1, <2>3
<1>5. TableRenamed(C, D, TaskFields, "feature", m.fs, m.ts)
  <2>2. "deps" \in TaskFields /\ "feature" \in TaskFields
        /\ "order" \in TaskFields \ {"feature", "deps"}
    BY DEF TaskFields
  <2>1. lost = Under(m.ts, gone) /\ gone \in SUBSET DOMAIN c
    <3>1. Owned(d, "feature", m.fs[f]) = Under(m.ts, gone)
      BY <1>1, <2>2, OwnedRenamed
    <3>2. gone \in SUBSET DOMAIN c
      BY DEF Owned
    <3> QED BY <3>1, <3>2, <1>o
  <2> HIDE DEF gone, lost
  <2>3. TableRenamed(C, Without(d, Under(m.ts, gone)), TaskFields, "feature", m.fs, m.ts)
    BY <1>1, <2>1, <2>2, WithoutRenamed
  <2> QED BY <2>1, <2>3
<1> HIDE DEF A, B, C, D, u, v, w, z
<1>6. GraphRenamed(G, H, m)
  <2>1. Keyed(g, GraphFields) /\ Keyed(h, GraphFields)
    BY GoodParts DEF Alike
  <2>2. G.ms = g.ms /\ G.fs = A /\ G.ts = C /\ H.ms = h.ms /\ H.fs = B /\ H.ts = D
    BY <2>1 DEF Keyed, GraphFields
  <2> HIDE DEF G, H
  <2> QED BY <2>2, <1>4, <1>5, AlikeParts DEF GraphRenamed
<1> QED BY <1>2, <1>3, <1>6, <1>o

\* A row depends on one more: the check of the path answers the same for the
\* names.
LEMMA DependRenamed ==
    ASSUME NEW a, NEW b, NEW fields, NEW own, NEW fo, NEW fr,
           TableRenamed(a, b, fields, own, fo, fr), Injective(fr, DOMAIN a),
           own # "deps", own \in fields, "deps" \in fields,
           \A i \in DOMAIN a : a[i].deps \subseteq DOMAIN a, IsFiniteSet(Pairs(a)),
           NEW from \in DOMAIN a, NEW to \in DOMAIN a, to \notin a[from].deps,
           ~ HasPath(from, to, Pairs(a))
    PROVE  /\ {fr[from], fr[to]} \subseteq DOMAIN b
           /\ fr[to] \notin b[fr[from]].deps
           /\ ~ HasPath(fr[from], fr[to], Pairs(b))
           /\ TableRenamed([a EXCEPT ![from] = [a[from] EXCEPT !.deps = @ \cup {to}]],
                           [b EXCEPT ![fr[from]] =
                                [b[fr[from]] EXCEPT !.deps = @ \cup {fr[to]}]],
                           fields, own, fo, fr)
<1>o. PICK x, y, r, q : x = fr[from] /\ y = fr[to] /\ r = a[from] /\ q = b[x]
  OBVIOUS
<1>1. /\ x \in DOMAIN b /\ y \in DOMAIN b
      /\ RowRenamed(r, q, fields, own, fo, fr)
      /\ r.deps \subseteq DOMAIN a /\ q.deps = Under(fr, r.deps)
  BY <1>o DEF TableRenamed, RowRenamed, Under
<1>2. y \notin q.deps
  BY <1>1, <1>o DEF Injective, Under
<1>3. ~ HasPath(x, y, Pairs(b))
  <2>1. Pairs(b) = Ends(fr, Pairs(a))
    BY EdgesRenamed
  <2>2. \A e \in Pairs(a) : {e[1], e[2]} \subseteq DOMAIN a
    BY EdgeOf
  <2> QED BY <2>1, <2>2, <1>o, PathRenamed
<1> DEFINE R == [r EXCEPT !.deps = r.deps \cup {to}]
           Q == [q EXCEPT !.deps = q.deps \cup {y}]
<1>4. RowRenamed(R, Q, fields, own, fo, fr)
  <2>1. q.deps \cup {y} = Under(fr, r.deps \cup {to})
    BY <1>1, <1>o DEF Under
  <2> QED BY <1>1, <2>1, DepsRenamed
<1> HIDE DEF R, Q
<1>5. TableRenamed([a EXCEPT ![from] = R], [b EXCEPT ![x] = Q], fields, own, fo, fr)
  BY <1>4, <1>o, WriteRenamed
<1> QED BY <1>1, <1>2, <1>3, <1>5, <1>o DEF R, Q

\* A row depends on one less.
LEMMA UndependRenamed ==
    ASSUME NEW a, NEW b, NEW fields, NEW own, NEW fo, NEW fr,
           TableRenamed(a, b, fields, own, fo, fr), Injective(fr, DOMAIN a),
           own # "deps", own \in fields, "deps" \in fields,
           \A i \in DOMAIN a : a[i].deps \subseteq DOMAIN a,
           NEW from \in DOMAIN a, NEW to \in a[from].deps
    PROVE  /\ fr[from] \in DOMAIN b
           /\ fr[to] \in b[fr[from]].deps
           /\ TableRenamed([a EXCEPT ![from] = [a[from] EXCEPT !.deps = @ \ {to}]],
                           [b EXCEPT ![fr[from]] =
                                [b[fr[from]] EXCEPT !.deps = @ \ {fr[to]}]],
                           fields, own, fo, fr)
<1>o. PICK x, y, r, q : x = fr[from] /\ y = fr[to] /\ r = a[from] /\ q = b[x]
  OBVIOUS
<1>1. /\ x \in DOMAIN b
      /\ RowRenamed(r, q, fields, own, fo, fr)
      /\ r.deps \subseteq DOMAIN a /\ q.deps = Under(fr, r.deps)
      /\ to \in r.deps
  BY <1>o DEF TableRenamed, RowRenamed, Under
<1>2. y \in q.deps
  BY <1>1, <1>o DEF Under
<1> DEFINE R == [r EXCEPT !.deps = r.deps \ {to}]
           Q == [q EXCEPT !.deps = q.deps \ {y}]
<1>4. RowRenamed(R, Q, fields, own, fo, fr)
  <2>1. ASSUME NEW j \in q.deps \ {y} PROVE j \in Under(fr, r.deps \ {to})
    BY <1>1, <1>o DEF Under
  <2>2. ASSUME NEW j \in Under(fr, r.deps \ {to}) PROVE j \in q.deps \ {y}
    <3>1. PICK d \in r.deps \ {to} : j = fr[d]
      BY DEF Under
    <3>2. j # y
      BY <3>1, <1>1, <1>o DEF Injective
    <3> QED BY <3>1, <3>2, <1>1 DEF Under
  <2>3. q.deps \ {y} = Under(fr, r.deps \ {to})
    BY <2>1, <2>2
  <2> QED BY <1>1, <2>3, DepsRenamed
<1> HIDE DEF R, Q
<1>5. TableRenamed([a EXCEPT ![from] = R], [b EXCEPT ![x] = Q], fields, own, fo, fr)
  BY <1>4, <1>o, WriteRenamed
<1> QED BY <1>1, <1>2, <1>5, <1>o DEF R, Q

\* A dependency is added to both, and the one takes it when the other does.
LEMMA DependAlike ==
    ASSUME NEW g, NEW h, NEW m, Alike(g, h, m), NEW rows \in {"fs", "ts"},
           NEW from, NEW to, CanDepend(g, rows, from, to)
    PROVE  /\ CanDepend(h, rows, m[rows][from], m[rows][to])
           /\ GraphRenamed(Depend(g, rows, from, to),
                           Depend(h, rows, m[rows][from], m[rows][to]), m)
<1>o. PICK x, y : x = m[rows][from] /\ y = m[rows][to]
  OBVIOUS
<1>1. CASE rows = "fs"
  <2>o. PICK a, b : a = g.fs /\ b = h.fs
    OBVIOUS
  <2>1. /\ TableRenamed(a, b, FeatureFields, "milestone", m.ms, m.fs)
        /\ Injective(m.fs, DOMAIN a) /\ x = m.fs[from] /\ y = m.fs[to]
    BY <1>1, <1>o, <2>o, AlikeParts
  <2>2. /\ \A i \in DOMAIN a : a[i].deps \subseteq DOMAIN a
        /\ g.fsucc = Pairs(a) /\ h.fsucc = Pairs(b) /\ IsFiniteSet(Pairs(a))
    BY <2>o, GoodParts DEF Alike, Closed
  <2>3. /\ from \in DOMAIN a /\ to \in DOMAIN a /\ to \notin a[from].deps
        /\ ~ HasPath(from, to, Pairs(a))
    BY <1>1, <2>o, <2>2 DEF CanDepend, Index
  <2>4. "milestone" \in FeatureFields /\ "deps" \in FeatureFields
    BY DEF FeatureFields
  <2> DEFINE A == [a EXCEPT ![from] = [a[from] EXCEPT !.deps = @ \cup {to}]]
             B == [b EXCEPT ![x] = [b[x] EXCEPT !.deps = @ \cup {y}]]
             u == g.fsucc \cup {<< to, from >>}
             v == h.fsucc \cup {<< y, x >>}
  <2>5. /\ {x, y} \subseteq DOMAIN b /\ y \notin b[x].deps /\ ~ HasPath(x, y, Pairs(b))
        /\ TableRenamed(A, B, FeatureFields, "milestone", m.ms, m.fs)
    <3> HIDE DEF A, B
    <3>1. {x, y} \subseteq DOMAIN b
      BY <2>1, <2>3 DEF TableRenamed, Under
    <3>3. y \notin b[x].deps
      BY <2>1, <2>2, <2>3, <2>4, DependRenamed
    <3>4. ~ HasPath(x, y, Pairs(b))
      BY <2>1, <2>2, <2>3, <2>4, DependRenamed
    <3>2. TableRenamed(A, B, FeatureFields, "milestone", m.ms, m.fs)
      BY <2>1, <2>2, <2>3, <2>4, DependRenamed DEF A, B
    <3> QED BY <3>1, <3>2, <3>3, <3>4
  <2>6. CanDepend(h, rows, x, y)
    BY <1>1, <2>o, <2>2, <2>5 DEF CanDepend, SameFeature, Index
  <2>7. /\ Depend(g, rows, from, to) = [g EXCEPT !.fs = A, !.fsucc = u]
        /\ Depend(h, rows, x, y) = [h EXCEPT !.fs = B, !.fsucc = v]
    BY <1>1, <2>o DEF Depend, Index
  <2> HIDE DEF A, B, u, v
  <2>8. GraphRenamed([g EXCEPT !.fs = A, !.fsucc = u], [h EXCEPT !.fs = B, !.fsucc = v], m)
    BY <2>5, FeaturesAlike
  <2> QED BY <2>6, <2>7, <2>8, <1>o
<1>2. CASE rows = "ts"
  <2>o. PICK a, b : a = g.ts /\ b = h.ts
    OBVIOUS
  <2>1. /\ TableRenamed(a, b, TaskFields, "feature", m.fs, m.ts)
        /\ Injective(m.ts, DOMAIN a) /\ x = m.ts[from] /\ y = m.ts[to]
    BY <1>2, <1>o, <2>o, AlikeParts
  <2>2. /\ \A i \in DOMAIN a : a[i].deps \subseteq DOMAIN a
        /\ g.tsucc = Pairs(a) /\ h.tsucc = Pairs(b) /\ IsFiniteSet(Pairs(a))
    BY <2>o, GoodParts DEF Alike, Closed
  <2>3. /\ from \in DOMAIN a /\ to \in DOMAIN a /\ to \notin a[from].deps
        /\ ~ HasPath(from, to, Pairs(a)) /\ a[from].feature = a[to].feature
    BY <1>2, <2>o, <2>2 DEF CanDepend, Index, SameFeature
  <2>4. "feature" \in TaskFields /\ "deps" \in TaskFields
    BY DEF TaskFields
  <2> DEFINE A == [a EXCEPT ![from] = [a[from] EXCEPT !.deps = @ \cup {to}]]
             B == [b EXCEPT ![x] = [b[x] EXCEPT !.deps = @ \cup {y}]]
             u == g.tsucc \cup {<< to, from >>}
             v == h.tsucc \cup {<< y, x >>}
  <2>5. /\ {x, y} \subseteq DOMAIN b /\ y \notin b[x].deps /\ ~ HasPath(x, y, Pairs(b))
        /\ TableRenamed(A, B, TaskFields, "feature", m.fs, m.ts)
    <3> HIDE DEF A, B
    <3>1. {x, y} \subseteq DOMAIN b
      BY <2>1, <2>3 DEF TableRenamed, Under
    <3>3. y \notin b[x].deps
      BY <2>1, <2>2, <2>3, <2>4, DependRenamed
    <3>4. ~ HasPath(x, y, Pairs(b))
      BY <2>1, <2>2, <2>3, <2>4, DependRenamed
    <3>2. TableRenamed(A, B, TaskFields, "feature", m.fs, m.ts)
      BY <2>1, <2>2, <2>3, <2>4, DependRenamed DEF A, B
    <3> QED BY <3>1, <3>2, <3>3, <3>4
  <2>f. b[x].feature = b[y].feature
    BY <2>1, <2>3 DEF TableRenamed, RowRenamed
  <2>6. CanDepend(h, rows, x, y)
    BY <1>2, <2>o, <2>2, <2>5, <2>f DEF CanDepend, SameFeature, Index
  <2>7. /\ Depend(g, rows, from, to) = [g EXCEPT !.ts = A, !.tsucc = u]
        /\ Depend(h, rows, x, y) = [h EXCEPT !.ts = B, !.tsucc = v]
    BY <1>2, <2>o DEF Depend, Index
  <2> HIDE DEF A, B, u, v
  <2>8. GraphRenamed([g EXCEPT !.ts = A, !.tsucc = u], [h EXCEPT !.ts = B, !.tsucc = v], m)
    BY <2>5, TasksAlike
  <2> QED BY <2>6, <2>7, <2>8, <1>o
<1> QED BY <1>1, <1>2

\* A dependency is taken from both.
LEMMA UndependAlike ==
    ASSUME NEW g, NEW h, NEW m, Alike(g, h, m), NEW rows \in {"fs", "ts"},
           NEW from, NEW to, CanUndepend(g, rows, from, to)
    PROVE  /\ CanUndepend(h, rows, m[rows][from], m[rows][to])
           /\ GraphRenamed(Undepend(g, rows, from, to),
                           Undepend(h, rows, m[rows][from], m[rows][to]), m)
<1>o. PICK x, y : x = m[rows][from] /\ y = m[rows][to]
  OBVIOUS
<1>1. CASE rows = "fs"
  <2>o. PICK a, b : a = g.fs /\ b = h.fs
    OBVIOUS
  <2>1. /\ TableRenamed(a, b, FeatureFields, "milestone", m.ms, m.fs)
        /\ Injective(m.fs, DOMAIN a) /\ x = m.fs[from] /\ y = m.fs[to]
        /\ \A i \in DOMAIN a : a[i].deps \subseteq DOMAIN a
        /\ from \in DOMAIN a /\ to \in a[from].deps
        /\ "milestone" \in FeatureFields /\ "deps" \in FeatureFields
    BY <1>1, <1>o, <2>o, AlikeParts, GoodParts
       DEF Alike, Closed, CanUndepend, FeatureFields
  <2> DEFINE A == [a EXCEPT ![from] = [a[from] EXCEPT !.deps = @ \ {to}]]
             B == [b EXCEPT ![x] = [b[x] EXCEPT !.deps = @ \ {y}]]
             u == g.fsucc \ {<< to, from >>}
             v == h.fsucc \ {<< y, x >>}
  <2>5. /\ x \in DOMAIN b /\ y \in b[x].deps
        /\ TableRenamed(A, B, FeatureFields, "milestone", m.ms, m.fs)
    <3> HIDE DEF A, B
    <3>1. x \in DOMAIN b /\ y \in b[x].deps
      BY <2>1, UndependRenamed
    <3>2. TableRenamed(A, B, FeatureFields, "milestone", m.ms, m.fs)
      BY <2>1, UndependRenamed DEF A, B
    <3> QED BY <3>1, <3>2
  <2>6. CanUndepend(h, rows, x, y)
    BY <1>1, <2>o, <2>5 DEF CanUndepend
  <2>7. /\ Undepend(g, rows, from, to) = [g EXCEPT !.fs = A, !.fsucc = u]
        /\ Undepend(h, rows, x, y) = [h EXCEPT !.fs = B, !.fsucc = v]
    BY <1>1, <2>o DEF Undepend, Index
  <2> HIDE DEF A, B, u, v
  <2>8. GraphRenamed([g EXCEPT !.fs = A, !.fsucc = u], [h EXCEPT !.fs = B, !.fsucc = v], m)
    BY <2>5, FeaturesAlike
  <2> QED BY <2>6, <2>7, <2>8, <1>o
<1>2. CASE rows = "ts"
  <2>o. PICK a, b : a = g.ts /\ b = h.ts
    OBVIOUS
  <2>1. /\ TableRenamed(a, b, TaskFields, "feature", m.fs, m.ts)
        /\ Injective(m.ts, DOMAIN a) /\ x = m.ts[from] /\ y = m.ts[to]
        /\ \A i \in DOMAIN a : a[i].deps \subseteq DOMAIN a
        /\ from \in DOMAIN a /\ to \in a[from].deps
        /\ "feature" \in TaskFields /\ "deps" \in TaskFields
    BY <1>2, <1>o, <2>o, AlikeParts, GoodParts
       DEF Alike, Closed, CanUndepend, TaskFields
  <2> DEFINE A == [a EXCEPT ![from] = [a[from] EXCEPT !.deps = @ \ {to}]]
             B == [b EXCEPT ![x] = [b[x] EXCEPT !.deps = @ \ {y}]]
             u == g.tsucc \ {<< to, from >>}
             v == h.tsucc \ {<< y, x >>}
  <2>5. /\ x \in DOMAIN b /\ y \in b[x].deps
        /\ TableRenamed(A, B, TaskFields, "feature", m.fs, m.ts)
    <3> HIDE DEF A, B
    <3>1. x \in DOMAIN b /\ y \in b[x].deps
      BY <2>1, UndependRenamed
    <3>2. TableRenamed(A, B, TaskFields, "feature", m.fs, m.ts)
      BY <2>1, UndependRenamed DEF A, B
    <3> QED BY <3>1, <3>2
  <2>6. CanUndepend(h, rows, x, y)
    BY <1>2, <2>o, <2>5 DEF CanUndepend
  <2>7. /\ Undepend(g, rows, from, to) = [g EXCEPT !.ts = A, !.tsucc = u]
        /\ Undepend(h, rows, x, y) = [h EXCEPT !.ts = B, !.tsucc = v]
    BY <1>2, <2>o DEF Undepend, Index
  <2> HIDE DEF A, B, u, v
  <2>8. GraphRenamed([g EXCEPT !.ts = A, !.tsucc = u], [h EXCEPT !.ts = B, !.tsucc = v], m)
    BY <2>5, TasksAlike
  <2> QED BY <2>6, <2>7, <2>8, <1>o
<1> QED BY <1>1, <1>2

\* The operation under the names of what it is about.
OpRenamed(op, q, m) ==
    /\ q.kind = op.kind /\ q.val = op.val
    /\ q.id = m[RowKind(op)][op.id]
    /\ q.ref = m[RefKind(op)][op.ref]

\* What one of two graphs that are alike takes, the other takes under its
\* name, and they stay alike: recording on a draft and applying to the graph
\* agree for every operation.
THEOREM EffectAlike ==
    ASSUME NEW g, NEW h, NEW m, Alike(g, h, m), NEW op, NEW q, OpRenamed(op, q, m),
           Accepts(g, op),
           Adds(op) => Injective(m[RowKind(op)], DOMAIN g[RowKind(op)] \cup {op.id})
    PROVE  Accepts(h, q) /\ GraphRenamed(Effect(g, op), Effect(h, q), m)
<1>o. PICK k, i, r, v, x, y :
        /\ k = op.kind /\ i = op.id /\ r = op.ref /\ v = op.val
        /\ x = q.id /\ y = q.ref
  OBVIOUS
<1>k. q.kind = k /\ q.val = v /\ x = m[RowKind(op)][i] /\ y = m[RefKind(op)][r]
  BY <1>o DEF OpRenamed
<1>1. CASE k = "add_milestone"
  <2>1. RowKind(op) = "ms" /\ Adds(op)
    BY <1>1, <1>o DEF RowKind, Adds
  <2>2. CanCreateMilestone(g, i) /\ Effect(g, op) = CreateMilestone(g, i)
    BY <1>1, <1>o DEF Accepts, Effect, Links, Unlinks
  <2>3. /\ CanCreateMilestone(h, x)
        /\ GraphRenamed(CreateMilestone(g, i), CreateMilestone(h, x), m)
    BY <1>k, <1>o, <2>1, <2>2, AddMilestoneAlike
  <2>4. Accepts(h, q) /\ Effect(h, q) = CreateMilestone(h, x)
    BY <1>1, <1>k, <1>o, <2>3 DEF Accepts, Effect, Links, Unlinks
  <2> QED BY <2>2, <2>3, <2>4
<1>2. CASE k = "add_feature"
  <2>1. RowKind(op) = "fs" /\ RefKind(op) = "ms" /\ Adds(op)
    BY <1>2, <1>o DEF RowKind, RefKind, Adds
  <2>2. CanCreateFeature(g, i, r) /\ Effect(g, op) = CreateFeature(g, i, r)
    BY <1>2, <1>o DEF Accepts, Effect, Links, Unlinks
  <2>3. /\ CanCreateFeature(h, x, y)
        /\ GraphRenamed(CreateFeature(g, i, r), CreateFeature(h, x, y), m)
    BY <1>k, <1>o, <2>1, <2>2, AddFeatureAlike
  <2>4. Accepts(h, q) /\ Effect(h, q) = CreateFeature(h, x, y)
    BY <1>2, <1>k, <1>o, <2>3 DEF Accepts, Effect, Links, Unlinks
  <2> QED BY <2>2, <2>3, <2>4
<1>3. CASE k = "add_task"
  <2>1. RowKind(op) = "ts" /\ RefKind(op) = "fs" /\ Adds(op)
    BY <1>3, <1>o DEF RowKind, RefKind, Adds
  <2>2. CanCreateTask(g, i, r) /\ Effect(g, op) = CreateTask(g, i, r, v)
    BY <1>3, <1>o DEF Accepts, Effect, Links, Unlinks
  <2>3. /\ CanCreateTask(h, x, y)
        /\ GraphRenamed(CreateTask(g, i, r, v), CreateTask(h, x, y, v), m)
    BY <1>k, <1>o, <2>1, <2>2, AddTaskAlike
  <2>4. Accepts(h, q) /\ Effect(h, q) = CreateTask(h, x, y, v)
    BY <1>3, <1>k, <1>o, <2>3 DEF Accepts, Effect, Links, Unlinks
  <2> QED BY <2>2, <2>3, <2>4
<1>4. CASE k = "remove_feature"
  <2>1. RowKind(op) = "fs"
    BY <1>4, <1>o DEF RowKind
  <2>2. i \in DOMAIN g.fs /\ Effect(g, op) = RemoveFeature(g, i)
    BY <1>4, <1>o DEF Accepts, Effect, Links, Unlinks
  <2>3. x \in DOMAIN h.fs /\ GraphRenamed(RemoveFeature(g, i), RemoveFeature(h, x), m)
    BY <1>k, <1>o, <2>1, <2>2, RemoveFeatureAlike
  <2>4. Accepts(h, q) /\ Effect(h, q) = RemoveFeature(h, x)
    BY <1>4, <1>k, <1>o, <2>3 DEF Accepts, Effect, Links, Unlinks
  <2> QED BY <2>2, <2>3, <2>4
<1>5. CASE k = "edit_feature"
  <2>1. RowKind(op) = "fs"
    BY <1>5, <1>o DEF RowKind
  <2>2. i \in DOMAIN g.fs /\ Editable(g.fs[i]) /\ Effect(g, op) = EditFeature(g, i, v)
    BY <1>5, <1>o DEF Accepts, Effect, Links, Unlinks
  <2>3. /\ x \in DOMAIN h.fs /\ Editable(h.fs[x])
        /\ GraphRenamed(EditFeature(g, i, v), EditFeature(h, x, v), m)
    BY <1>k, <1>o, <2>1, <2>2, EditAlike
  <2>4. Accepts(h, q) /\ Effect(h, q) = EditFeature(h, x, v)
    BY <1>5, <1>k, <1>o, <2>3 DEF Accepts, Effect, Links, Unlinks
  <2> QED BY <2>2, <2>3, <2>4
<1>6. CASE k = "remove_task"
  <2>1. RowKind(op) = "ts"
    BY <1>6, <1>o DEF RowKind
  <2>2. CanRemoveTask(g, i) /\ Effect(g, op) = RemoveTask(g, i)
    BY <1>6, <1>o DEF Accepts, Effect, Links, Unlinks
  <2>3. CanRemoveTask(h, x) /\ GraphRenamed(RemoveTask(g, i), RemoveTask(h, x), m)
    BY <1>k, <1>o, <2>1, <2>2, RemoveTaskAlike
  <2>4. Accepts(h, q) /\ Effect(h, q) = RemoveTask(h, x)
    BY <1>6, <1>k, <1>o, <2>3 DEF Accepts, Effect, Links, Unlinks
  <2> QED BY <2>2, <2>3, <2>4
<1>7. CASE k = "edit_task"
  <2>1. RowKind(op) = "ts"
    BY <1>7, <1>o DEF RowKind
  <2>2. i \in DOMAIN g.ts /\ Effect(g, op) = EditTask(g, i, v)
    BY <1>7, <1>o DEF Accepts, Effect, Links, Unlinks
  <2>3. /\ x \in DOMAIN h.ts
        /\ GraphRenamed(EditTask(g, i, v), EditTask(h, x, v), m)
    BY <1>k, <1>o, <2>1, <2>2, EditAlike
  <2>4. Accepts(h, q) /\ Effect(h, q) = EditTask(h, x, v)
    BY <1>7, <1>k, <1>o, <2>3 DEF Accepts, Effect, Links, Unlinks
  <2> QED BY <2>2, <2>3, <2>4
<1>8. CASE Links(op)
  <2> DEFINE rows == RowKind(op)
  <2>1. rows \in {"fs", "ts"} /\ RefKind(op) = rows /\ RowKind(q) = rows /\ Links(q)
    BY <1>8, <1>k, <1>o DEF RowKind, RefKind, Links
  <2>2. CanDepend(g, rows, i, r) /\ Effect(g, op) = Depend(g, rows, i, r)
    BY <1>8, <1>o DEF Accepts, Effect, Links, Unlinks
  <2>3. CanDepend(h, rows, x, y) /\ GraphRenamed(Depend(g, rows, i, r), Depend(h, rows, x, y), m)
    BY <1>k, <2>1, <2>2, DependAlike
  <2>4. Accepts(h, q)
    BY <1>o, <2>1, <2>3 DEF Accepts
  <2>5. Effect(h, q) = Depend(h, rows, x, y)
    BY <1>o, <2>1 DEF Effect, Links, Unlinks
  <2> QED BY <2>2, <2>3, <2>4, <2>5
<1>9. CASE Unlinks(op)
  <2> DEFINE rows == RowKind(op)
  <2>1. rows \in {"fs", "ts"} /\ RefKind(op) = rows /\ RowKind(q) = rows /\ Unlinks(q)
    BY <1>9, <1>k, <1>o DEF RowKind, RefKind, Unlinks
  <2>2. CanUndepend(g, rows, i, r) /\ Effect(g, op) = Undepend(g, rows, i, r)
    BY <1>9, <1>o DEF Accepts, Effect, Links, Unlinks
  <2>3. /\ CanUndepend(h, rows, x, y)
        /\ GraphRenamed(Undepend(g, rows, i, r), Undepend(h, rows, x, y), m)
    BY <1>k, <2>1, <2>2, UndependAlike
  <2>4. Accepts(h, q)
    BY <1>o, <2>1, <2>3 DEF Accepts
  <2>5. Effect(h, q) = Undepend(h, rows, x, y)
    BY <1>o, <2>1 DEF Effect, Links, Unlinks
  <2> QED BY <2>2, <2>3, <2>4, <2>5
<1> QED BY <1>1, <1>2, <1>3, <1>4, <1>5, <1>6, <1>7, <1>8, <1>9, <1>o DEF Accepts

----------------------------------------------------------------------------
(* The greatest identifier *)

\* Finitely many numbers have a bound.
LEMMA FiniteBounded ==
    ASSUME NEW D \in SUBSET Nat, IsFiniteSet(D)
    PROVE  \E b \in Nat : \A i \in D : i <= b
<1>1. PICK n \in Nat : ExistsBijection(1..n, D)
  BY FS_NatBijection
<1>2. PICK f : /\ \A k \in 1..n : f[k] \in D
               /\ \A i \in D : \E k \in 1..n : f[k] = i
  BY <1>1 DEF ExistsBijection, Bijection, Injection, Surjection
<1> DEFINE Have == {k \in Nat : k <= n => \E b \in Nat : \A j \in 1..k : f[j] <= b}
<1>3. 0 \in Have
  OBVIOUS
<1>4. ASSUME NEW k \in Nat, k \in Have PROVE k + 1 \in Have
  <2> SUFFICES ASSUME k + 1 <= n PROVE \E b \in Nat : \A j \in 1..(k + 1) : f[j] <= b
    OBVIOUS
  <2>1. PICK b \in Nat : \A j \in 1..k : f[j] <= b
    BY <1>4
  <2>2. PICK v \in Nat : v = f[k + 1]
    <3>1. k + 1 \in 1..n
      OBVIOUS
    <3>2. f[k + 1] \in D
      BY <1>2, <3>1
    <3> QED BY <3>2
  <2>3. CASE v <= b
    <3>1. \A j \in 1..(k + 1) : f[j] <= b
      BY <2>1, <2>2, <2>3
    <3> QED BY <3>1
  <2>4. CASE b < v
    <3>1. ASSUME NEW j \in 1..(k + 1) PROVE f[j] <= v
      <4>1. f[j] \in Nat
        <5>1. j \in 1..n
          OBVIOUS
        <5>2. f[j] \in D
          BY <1>2, <5>1
        <5> QED BY <5>2
      <4>2. CASE j = k + 1
        BY <2>2, <4>1, <4>2
      <4>3. CASE j # k + 1
        <5>1. f[j] <= b
          BY <2>1, <4>3
        <5> QED BY <5>1, <4>1, <2>4
      <4> QED BY <4>2, <4>3
    <3> QED BY <3>1
  <2> QED BY <2>3, <2>4
<1>5. Nat \subseteq Have
  <2> HIDE DEF Have
  <2> QED BY <1>3, <1>4, NatSteps
<1>6. PICK b \in Nat : \A j \in 1..n : f[j] <= b
  <2>1. n \in Have
    BY <1>5
  <2> QED BY <2>1
<1> QED BY <1>2, <1>6

\* Finitely many numbers, if there are any, have a greatest.
LEMMA GreatestNumber ==
    ASSUME NEW nums \in SUBSET Nat, IsFiniteSet(nums), nums # {}
    PROVE  Max(nums) \in nums /\ \A z \in nums : z <= Max(nums)
<1> DEFINE T == {b \in Nat : \A i \in nums : i <= b}
           R == OpToRel(<, Nat)
<1>1. T # {}
  BY FiniteBounded
<1>2. PICK x \in T : \A y \in T : ~ (<< y, x >> \in R)
  <2>1. IsWellFoundedOn(R, Nat)
    BY NatLessThanWellFounded
  <2> HIDE DEF R
  <2> QED BY <1>1, <2>1, WFMin
<1>3. x \in nums
  <2> SUFFICES ASSUME x \notin nums PROVE FALSE
    OBVIOUS
  <2>1. x # 0 /\ x - 1 \in Nat
    <3>1. PICK z \in nums : TRUE
      OBVIOUS
    <3>2. z \in Nat /\ z <= x /\ z # x
      BY <3>1
    <3> QED BY <3>2
  <2>2. x - 1 \in T
    BY <2>1
  <2>3. << x - 1, x >> \in R
    BY <2>1 DEF OpToRel
  <2> QED BY <1>2, <2>2, <2>3
<1>4. \E y \in nums : \A z \in nums : y >= z
  BY <1>3
<1>5. Max(nums) \in nums /\ \A z \in nums : Max(nums) >= z
  BY <1>4 DEF Max
<1> QED BY <1>5

\* The greatest identifier is a number that no identifier exceeds.
LEMMA MaxIdBounds ==
    ASSUME NEW rows, DOMAIN rows \subseteq Nat, IsFiniteSet(DOMAIN rows)
    PROVE  /\ MaxId(rows) \in Nat
           /\ \A i \in DOMAIN rows : i <= MaxId(rows)
<1>o. PICK nums : nums = {0} \cup DOMAIN rows
  OBVIOUS
<1>1. nums \in SUBSET Nat /\ nums # {}
  BY <1>o
<1>2. IsFiniteSet(nums)
  BY <1>o, FS_Singleton, FS_Union
<1>3. Max(nums) \in nums /\ \A z \in nums : z <= Max(nums)
  BY <1>1, <1>2, GreatestNumber
<1> QED BY <1>1, <1>3, <1>o DEF MaxId

----------------------------------------------------------------------------
(* Resolving a record *)

\* The step of the fold of Resolved, and what it starts with.
ResolveOne(acc, op) ==
    LET kind == RowKind(op)
        next == acc.max[kind] + 1
        bound == IF Adds(op) /\ op.id < 0
                 THEN Put(acc.bound, - op.id, next) ELSE acc.bound
    IN [ops |-> Append(acc.ops, [op EXCEPT !.id = Bound(bound, @),
                                           !.ref = Bound(bound, @)]),
        bound |-> bound,
        max |-> IF Adds(op) /\ op.id < 0
                THEN [acc.max EXCEPT ![kind] = next] ELSE acc.max]
FirstResolved(g) ==
    [ops |-> << >>, bound |-> << >>, max |-> [kind \in Kinds |-> MaxId(g[kind])]]

\* The function by which the fold of Resolved is defined.
IsResolving(iter, g, ops, domain) ==
    iter = [s \in domain |->
              IF s = {} THEN FirstResolved(g)
              ELSE ResolveOne(iter[s \ {Max(s)}], ops[Max(s)])]

\* Resolved is a fold over the record, by its definition.
LEMMA ResolvedIsFold ==
    ASSUME NEW g, NEW ops
    PROVE  Resolved(g, ops) =
             (CHOOSE iter : IsResolving(iter, g, ops, SUBSET DOMAIN ops))[DOMAIN ops]
<1>1. Resolved(g, ops) =
        FoldLeft(LAMBDA acc, op : ResolveOne(acc, op), FirstResolved(g), ops)
  BY DEF Resolved, ResolveOne, FirstResolved
<1> QED BY <1>1 DEF FoldLeft, MapThenFoldSet, IsResolving

\* The function exists: it is extended one operation at a time.
LEMMA ResolvingExists ==
    ASSUME NEW g, NEW ops, NEW n \in Nat
    PROVE  \E iter : IsResolving(iter, g, ops, SUBSET (1..n))
<1> DEFINE Have == {k \in Nat : \E iter : IsResolving(iter, g, ops, SUBSET (1..k))}
<1>1. 0 \in Have
  <2> DEFINE iter == [s \in SUBSET (1..0) |-> FirstResolved(g)]
  <2>1. IsResolving(iter, g, ops, SUBSET (1..0))
    <3>1. \A s \in SUBSET (1..0) : s = {}
      OBVIOUS
    <3> QED BY <3>1 DEF IsResolving
  <2> QED BY <2>1
<1>2. ASSUME NEW k \in Nat, k \in Have PROVE k + 1 \in Have
  <2>1. PICK iter : IsResolving(iter, g, ops, SUBSET (1..k))
    BY <1>2
  <2> DEFINE D == SUBSET (1..(k + 1))
             more == [s \in D |->
                        IF k + 1 \in s
                        THEN ResolveOne(iter[s \ {k + 1}], ops[k + 1])
                        ELSE iter[s]]
             next(s) == IF s = {} THEN FirstResolved(g)
                        ELSE ResolveOne(more[s \ {Max(s)}], ops[Max(s)])
  <2>2. ASSUME NEW s \in SUBSET (1..k) PROVE more[s] = iter[s] /\ s \in D
    <3>1. s \in D /\ k + 1 \notin s
      OBVIOUS
    <3> QED BY <3>1
  <2>3. ASSUME NEW s \in D PROVE more[s] = next(s)
    <3>1. CASE k + 1 \in s
      <4>1. Max(s) = k + 1 /\ s # {}
        BY <3>1, LastIsMax
      <4>2. s \ {k + 1} \in SUBSET (1..k)
        OBVIOUS
      <4>3. more[s \ {k + 1}] = iter[s \ {k + 1}]
        BY <4>2, <2>2
      <4>4. more[s] = ResolveOne(iter[s \ {k + 1}], ops[k + 1])
        BY <3>1
      <4> HIDE DEF more
      <4> QED BY <4>1, <4>3, <4>4
    <3>2. CASE k + 1 \notin s
      <4>1. s \in SUBSET (1..k) /\ s \ {Max(s)} \in SUBSET (1..k)
        <5>1. s \in SUBSET (1..k)
          BY <3>2
        <5>2. s \ {Max(s)} \subseteq s
          OBVIOUS
        <5> QED BY <5>1, <5>2
      <4>2. more[s] = iter[s] /\ more[s \ {Max(s)}] = iter[s \ {Max(s)}]
        BY <4>1, <2>2
      <4>3. iter[s] = IF s = {} THEN FirstResolved(g)
                      ELSE ResolveOne(iter[s \ {Max(s)}], ops[Max(s)])
        BY <4>1, <2>1 DEF IsResolving
      <4> HIDE DEF more
      <4> QED BY <4>2, <4>3
    <3> QED BY <3>1, <3>2
  <2>4. more = [s \in D |-> next(s)]
    <3>1. DOMAIN more = D /\ more = [s \in D |-> more[s]]
      OBVIOUS
    <3> HIDE DEF more, D
    <3> QED BY <2>3, <3>1
  <2>5. IsResolving(more, g, ops, D)
    <3> HIDE DEF more, D
    <3> QED BY <2>4 DEF IsResolving
  <2> HIDE DEF more
  <2> QED BY <2>5
<1>3. Nat \subseteq Have
  <2> HIDE DEF Have
  <2> QED BY <1>1, <1>2, NatSteps
<1> QED BY <1>3

\* The states that resolving goes through, one operation after the other.
Resolving(acc, g, ops, n) ==
    /\ acc[0] = FirstResolved(g)
    /\ \A k \in Nat : k + 1 <= n => acc[k + 1] = ResolveOne(acc[k], ops[k + 1])
    /\ Resolved(g, ops) = acc[n]

\* There are such states.
LEMMA ResolvedSteps ==
    ASSUME NEW g, NEW ops, NEW n \in Nat, DOMAIN ops = 1..n
    PROVE  \E acc : Resolving(acc, g, ops, n)
<1>1. PICK iter : /\ IsResolving(iter, g, ops, SUBSET (1..n))
                  /\ Resolved(g, ops) = iter[1..n]
  BY ResolvingExists, ResolvedIsFold
<1> DEFINE acc == [k \in 0..n |-> iter[1..k]]
<1>2. acc[0] = FirstResolved(g)
  <2>1. acc[0] = iter[{}]
    <3>1. 1..0 = {} /\ 0 \in 0..n
      OBVIOUS
    <3> QED BY <3>1
  <2> QED BY <1>1, <2>1 DEF IsResolving
<1>3. ASSUME NEW k \in Nat, k + 1 <= n PROVE acc[k + 1] = ResolveOne(acc[k], ops[k + 1])
  <2> DEFINE s == 1..(k + 1)
  <2>1. s \in SUBSET (1..n) /\ s # {} /\ Max(s) = k + 1
    <3>1. s \in SUBSET (1..(k + 1)) /\ k + 1 \in s
      OBVIOUS
    <3>2. s # {} /\ \A i \in s : i \in 1..n
      BY <1>3
    <3> HIDE DEF s
    <3> QED BY <3>1, <3>2, LastIsMax
  <2>2. s \ {k + 1} = 1..k
    OBVIOUS
  <2>3. k \in 0..n /\ k + 1 \in 0..n
    BY <1>3
  <2>4. acc[k + 1] = iter[s] /\ acc[k] = iter[1..k]
    BY <2>3
  <2> HIDE DEF s, acc
  <2>5. iter[s] = ResolveOne(iter[s \ {Max(s)}], ops[Max(s)])
    BY <1>1, <2>1 DEF IsResolving
  <2> QED BY <2>1, <2>2, <2>4, <2>5
<1>4. Resolved(g, ops) = acc[n]
  BY <1>1
<1> HIDE DEF acc
<1> QED BY <1>2, <1>3, <1>4 DEF Resolving

\* Nothing is resolved to begin with, and an operation that is recorded last is
\* resolved last.
LEMMA ResolvedAppend ==
    ASSUME NEW g, NEW ops, Listed(ops), NEW x
    PROVE  Resolved(g, Append(ops, x)) = ResolveOne(Resolved(g, ops), x)
<1>o. PICK n, more : n = Len(ops) /\ more = Append(ops, x)
  OBVIOUS
<1>1. n \in Nat /\ DOMAIN ops = 1..n
  BY <1>o DEF Listed
<1>2. /\ DOMAIN more = 1..(n + 1) /\ more[n + 1] = x
      /\ \A k \in 1..n : more[k] = ops[k]
  BY <1>o DEF Listed
<1>3. PICK a : Resolving(a, g, ops, n)
  BY <1>1, ResolvedSteps
<1>4. PICK b : Resolving(b, g, more, n + 1)
  BY <1>1, <1>2, ResolvedSteps
<1> DEFINE Have == {k \in Nat : k <= n => a[k] = b[k]}
<1>5. 0 \in Have
  BY <1>3, <1>4 DEF Resolving
<1>6. ASSUME NEW k \in Nat, k \in Have PROVE k + 1 \in Have
  <2> SUFFICES ASSUME k + 1 <= n PROVE a[k + 1] = b[k + 1]
    OBVIOUS
  <2>1. a[k] = b[k]
    BY <1>1, <1>6
  <2>2. k + 1 <= n + 1 /\ k + 1 \in 1..n
    BY <1>1
  <2>3. more[k + 1] = ops[k + 1]
    BY <1>2, <2>2
  <2>4. a[k + 1] = ResolveOne(a[k], ops[k + 1])
    BY <1>3 DEF Resolving
  <2>5. b[k + 1] = ResolveOne(b[k], more[k + 1])
    BY <1>4, <2>2 DEF Resolving
  <2> QED BY <2>1, <2>3, <2>4, <2>5
<1>7. a[n] = b[n]
  <2>1. Nat \subseteq Have
    <3> HIDE DEF Have
    <3> QED BY <1>5, <1>6, NatSteps
  <2>2. n \in Have
    BY <1>1, <2>1
  <2> QED BY <1>1, <2>2
<1>8. b[n + 1] = ResolveOne(b[n], more[n + 1])
  <2>1. n + 1 <= n + 1
    BY <1>1
  <2> QED BY <1>1, <1>4, <2>1 DEF Resolving
<1> QED BY <1>2, <1>3, <1>4, <1>7, <1>8, <1>o DEF Resolving

\* Nothing is resolved to begin with.
LEMMA ResolvedNothing ==
    ASSUME NEW g PROVE Resolved(g, << >>) = FirstResolved(g)
<1>1. DOMAIN << >> = 1..0
  OBVIOUS
<1> QED BY <1>1, ResolvedSteps DEF Resolving

\* The columns of an operation.
OpFields == {"kind", "id", "ref", "val"}

\* An operation as it is recorded: what it adds has an alias.
OpFine(op) == Keyed(op, OpFields) /\ (Adds(op) => op.id \in Int /\ op.id < 0)
RecordFine(ops) == Listed(ops) /\ \A i \in DOMAIN ops : OpFine(ops[i])

\* A list and the list with one more.
LEMMA ListedParts ==
    ASSUME NEW s, NEW x, Listed(s)
    PROVE  /\ Len(s) \in Nat /\ DOMAIN s = 1..Len(s)
           /\ Listed(Append(s, x)) /\ Len(Append(s, x)) = Len(s) + 1
           /\ DOMAIN Append(s, x) = 1..(Len(s) + 1)
           /\ Append(s, x)[Len(s) + 1] = x
           /\ \A i \in 1..Len(s) : Append(s, x)[i] = s[i]
<1>1. Listed(Append(s, x))
  BY ListedMore
<1>2. /\ Len(s) \in Nat /\ DOMAIN s = 1..Len(s)
      /\ Len(Append(s, x)) = Len(s) + 1
      /\ DOMAIN Append(s, x) = 1..(Len(s) + 1)
      /\ Append(s, x)[Len(s) + 1] = x
      /\ \A i \in 1..Len(s) : Append(s, x)[i] = s[i]
  BY DEF Listed
<1> QED BY <1>1, <1>2

\* Every kind of row has a greatest identifier.
LEMMA GreatestIds ==
    ASSUME NEW g, Good(g), Numbered(g), NEW kind \in Kinds
    PROVE  /\ MaxId(g[kind]) \in Nat
           /\ \A i \in DOMAIN g[kind] : i \in Nat /\ i <= MaxId(g[kind])
<1>1. DOMAIN g[kind] \subseteq Nat
  BY DEF Numbered
<1>2. IsFiniteSet(DOMAIN g[kind])
  BY GoodParts DEF Table, Kinds
<1> QED BY <1>1, <1>2, MaxIdBounds

\* What is resolved after k operations: as many, and no alias is left for a
\* row that is added.
ResolvedFine(acc, k) ==
    /\ Listed(acc.ops) /\ Len(acc.ops) = k
    /\ Keyed(acc.max, Kinds) /\ \A kind \in Kinds : acc.max[kind] \in Nat
    /\ \A i \in 1..k : Adds(acc.ops[i]) => acc.ops[i].id \in Nat

\* The name a row that is added takes is a number.
LEMMA ResolveOneFine ==
    ASSUME NEW acc, NEW k \in Nat, ResolvedFine(acc, k), NEW x, OpFine(x)
    PROVE  ResolvedFine(ResolveOne(acc, x), k + 1)
<1>o. PICK kind, next : kind = RowKind(x) /\ next = acc.max[kind] + 1
  OBVIOUS
<1> DEFINE bound == IF Adds(x) /\ x.id < 0
                    THEN Put(acc.bound, - x.id, next) ELSE acc.bound
           y == [x EXCEPT !.id = Bound(bound, x.id), !.ref = Bound(bound, x.ref)]
           max == IF Adds(x) /\ x.id < 0 THEN [acc.max EXCEPT ![kind] = next] ELSE acc.max
           new == ResolveOne(acc, x)
<1>1. new.ops = Append(acc.ops, y) /\ new.max = max
  BY <1>o DEF ResolveOne
<1>2. kind \in Kinds /\ acc.max[kind] \in Nat /\ next \in Nat
  BY <1>o DEF RowKind, Kinds, ResolvedFine
<1>3. Keyed(max, Kinds) /\ \A kd \in Kinds : max[kd] \in Nat
  BY <1>2 DEF ResolvedFine, Keyed
<1>4. y.kind = x.kind /\ y.id = Bound(bound, x.id)
  <2> HIDE DEF bound
  <2> QED BY DEF OpFine, Keyed, OpFields
<1>5. Adds(y) => y.id \in Nat
  <2> SUFFICES ASSUME Adds(y) PROVE y.id \in Nat
    OBVIOUS
  <2>1. Adds(x) /\ x.id \in Int /\ x.id < 0
    <3> HIDE DEF y
    <3> QED BY <1>4 DEF Adds, OpFine
  <2>2. bound = Put(acc.bound, - x.id, next)
    BY <2>1
  <2>3. - x.id \in DOMAIN bound /\ bound[- x.id] = next
    <3> HIDE DEF bound
    <3> QED BY <2>2 DEF Put
  <2> HIDE DEF bound, y
  <2> QED BY <1>2, <1>4, <2>1, <2>3 DEF Bound
<1> HIDE DEF y, max, new
<1>6. Listed(new.ops) /\ Len(new.ops) = k + 1
  BY <1>1, ListedParts DEF ResolvedFine
<1>7. ASSUME NEW i \in 1..(k + 1), Adds(new.ops[i]) PROVE new.ops[i].id \in Nat
  <2>1. CASE i = k + 1
    BY <1>1, <1>5, <1>7, <2>1, ListedParts DEF ResolvedFine
  <2>2. CASE i # k + 1
    <3>1. i \in 1..k
      BY <2>2
    <3>2. new.ops[i] = acc.ops[i]
      BY <1>1, <3>1, ListedParts DEF ResolvedFine
    <3> QED BY <1>7, <3>1, <3>2 DEF ResolvedFine
  <2> QED BY <2>1, <2>2
<1> QED BY <1>1, <1>3, <1>6, <1>7 DEF ResolvedFine, new

\* A record resolved against a good graph has as many operations, and a number
\* for each row that it adds.
LEMMA ResolvedIsFine ==
    ASSUME NEW g, Good(g), Numbered(g), NEW ops, RecordFine(ops)
    PROVE  ResolvedFine(Resolved(g, ops), Len(ops))
<1>o. PICK n : n = Len(ops)
  OBVIOUS
<1>1. n \in Nat /\ DOMAIN ops = 1..n
  BY <1>o, ListedParts DEF RecordFine
<1>2. PICK a : Resolving(a, g, ops, n)
  BY <1>1, ResolvedSteps
<1> DEFINE Have == {k \in Nat : k <= n => ResolvedFine(a[k], k)}
<1>3. 0 \in Have
  <2>1. a[0] = FirstResolved(g)
    BY <1>2 DEF Resolving
  <2>2. Len(<< >>) = 0 /\ 1..0 = {}
    OBVIOUS
  <2>3. ResolvedFine(a[0], 0)
    BY <2>1, <2>2, ListedEmpty, GreatestIds DEF FirstResolved, ResolvedFine, Keyed
  <2> QED BY <2>3
<1>4. ASSUME NEW k \in Nat, k \in Have PROVE k + 1 \in Have
  <2> SUFFICES ASSUME k + 1 <= n PROVE ResolvedFine(a[k + 1], k + 1)
    OBVIOUS
  <2>1. ResolvedFine(a[k], k)
    BY <1>1, <1>4
  <2>2. a[k + 1] = ResolveOne(a[k], ops[k + 1])
    BY <1>2 DEF Resolving
  <2>3. k + 1 \in 1..n
    BY <1>1
  <2>4. OpFine(ops[k + 1])
    BY <1>1, <2>3 DEF RecordFine
  <2> QED BY <2>1, <2>2, <2>4, ResolveOneFine
<1>5. Nat \subseteq Have
  <2> HIDE DEF Have
  <2> QED BY <1>3, <1>4, NatSteps
<1>6. ResolvedFine(a[n], n)
  <2>1. n \in Have
    BY <1>1, <1>5
  <2> QED BY <1>1, <2>1
<1> QED BY <1>2, <1>6, <1>o DEF Resolving

\* What an operation may do to the identifiers of a graph, and that it leaves
\* the counter of tasks alone.
LEMMA EffectRows ==
    ASSUME NEW g, Keyed(g, GraphFields), NEW op, Accepts(g, op)
    PROVE  /\ Effect(g, op).counter = g.counter
           /\ \A kind \in Kinds : DOMAIN Effect(g, op)[kind] \subseteq
                DOMAIN g[kind] \cup (IF Adds(op) /\ kind = RowKind(op) THEN {op.id} ELSE {})
<1> DEFINE k == op.kind
<1>1. CASE k = "add_milestone"
  <2>1. Effect(g, op) = [g EXCEPT !.ms = Put(g.ms, op.id, NewMilestone(Cardinality(DOMAIN g.ms)))]
    BY <1>1 DEF Effect, Links, Unlinks, CreateMilestone
  <2>2. Adds(op) /\ RowKind(op) = "ms"
    BY <1>1 DEF Adds, RowKind
  <2>3. \A row : DOMAIN Put(g.ms, op.id, row) = DOMAIN g.ms \cup {op.id}
    BY DEF Put
  <2> QED BY <2>1, <2>2, <2>3 DEF Keyed, GraphFields, Kinds
<1>2. CASE k = "add_feature"
  <2>1. PICK row : Effect(g, op) = [g EXCEPT !.fs = Put(g.fs, op.id, row)]
    BY <1>2 DEF Effect, Links, Unlinks, CreateFeature
  <2>2. Adds(op) /\ RowKind(op) = "fs"
    BY <1>2 DEF Adds, RowKind
  <2>3. DOMAIN Put(g.fs, op.id, row) = DOMAIN g.fs \cup {op.id}
    BY DEF Put
  <2> QED BY <2>1, <2>2, <2>3 DEF Keyed, GraphFields, Kinds
<1>3. CASE k = "add_task"
  <2>1. PICK row : Effect(g, op) = [g EXCEPT !.ts = Put(g.ts, op.id, row)]
    BY <1>3 DEF Effect, Links, Unlinks, CreateTask
  <2>2. Adds(op) /\ RowKind(op) = "ts"
    BY <1>3 DEF Adds, RowKind
  <2>3. DOMAIN Put(g.ts, op.id, row) = DOMAIN g.ts \cup {op.id}
    BY DEF Put
  <2> QED BY <2>1, <2>2, <2>3 DEF Keyed, GraphFields, Kinds
<1>4. CASE k = "remove_feature"
  <2>1. Effect(g, op) = RemoveFeature(g, op.id)
    BY <1>4 DEF Effect, Links, Unlinks
  <2>2. PICK fs, ts, u, v :
          /\ fs = Without(g.fs, {op.id}) /\ ts = Without(g.ts, TasksOf(g, op.id))
          /\ RemoveFeature(g, op.id) =
               [g EXCEPT !.fs = fs, !.fsucc = u, !.ts = ts, !.tsucc = v]
    BY DEF RemoveFeature
  <2>3. DOMAIN fs \subseteq DOMAIN g.fs /\ DOMAIN ts \subseteq DOMAIN g.ts
    BY <2>2 DEF Without
  <2>4. PICK h : h = [g EXCEPT !.fs = fs, !.fsucc = u, !.ts = ts, !.tsucc = v]
    OBVIOUS
  <2>5. h.counter = g.counter /\ h.ms = g.ms /\ h.fs = fs /\ h.ts = ts
    BY <2>4 DEF Keyed, GraphFields
  <2> QED BY <2>1, <2>2, <2>3, <2>4, <2>5 DEF Kinds
<1>5. CASE k = "edit_feature"
  <2>1. PICK row : Effect(g, op) = [g EXCEPT !.fs = [g.fs EXCEPT ![op.id] = row]]
    BY <1>5 DEF Effect, Links, Unlinks, EditFeature
  <2> QED BY <2>1 DEF Keyed, GraphFields, Kinds
<1>6. CASE k = "remove_task"
  <2>1. Effect(g, op) = RemoveTask(g, op.id)
    BY <1>6 DEF Effect, Links, Unlinks
  <2>2. PICK ts, v : /\ ts = Without(g.ts, {op.id})
                     /\ RemoveTask(g, op.id) = [g EXCEPT !.ts = ts, !.tsucc = v]
    BY DEF RemoveTask
  <2>3. DOMAIN ts \subseteq DOMAIN g.ts
    BY <2>2 DEF Without
  <2>4. PICK h : h = [g EXCEPT !.ts = ts, !.tsucc = v]
    OBVIOUS
  <2>5. h.counter = g.counter /\ h.ms = g.ms /\ h.fs = g.fs /\ h.ts = ts
    BY <2>4 DEF Keyed, GraphFields
  <2> QED BY <2>1, <2>2, <2>3, <2>4, <2>5 DEF Kinds
<1>7. CASE k = "edit_task"
  <2>1. PICK row : Effect(g, op) = [g EXCEPT !.ts = [g.ts EXCEPT ![op.id] = row]]
    BY <1>7 DEF Effect, Links, Unlinks, EditTask
  <2> QED BY <2>1 DEF Keyed, GraphFields, Kinds
<1>8. CASE Links(op)
  <2>1. Effect(g, op) = Depend(g, RowKind(op), op.id, op.ref)
    BY <1>8 DEF Effect, Links, Unlinks
  <2>3. RowKind(op) \in {"fs", "ts"}
    BY <1>8 DEF RowKind, Links
  <2>4. CASE RowKind(op) = "fs"
    BY <2>1, <2>4 DEF Depend, Index, Keyed, GraphFields, Kinds
  <2>5. CASE RowKind(op) = "ts"
    BY <2>1, <2>5 DEF Depend, Index, Keyed, GraphFields, Kinds
  <2> QED BY <2>3, <2>4, <2>5
<1>9. CASE Unlinks(op)
  <2>1. Effect(g, op) = Undepend(g, RowKind(op), op.id, op.ref)
    BY <1>9 DEF Effect, Links, Unlinks
  <2>3. RowKind(op) \in {"fs", "ts"}
    BY <1>9 DEF RowKind, Unlinks
  <2>4. CASE RowKind(op) = "fs"
    BY <2>1, <2>4 DEF Undepend, Index, Keyed, GraphFields, Kinds
  <2>5. CASE RowKind(op) = "ts"
    BY <2>1, <2>5 DEF Undepend, Index, Keyed, GraphFields, Kinds
  <2> QED BY <2>3, <2>4, <2>5
<1> QED BY <1>1, <1>2, <1>3, <1>4, <1>5, <1>6, <1>7, <1>8, <1>9 DEF Accepts

\* The parts of what Applied returns.
AccFields == {"graph", "applied", "skipped", "bound"}

\* What applying keeps as it goes.
AccFine(acc, bound) ==
    Keyed(acc, AccFields) /\ Listed(acc.skipped) /\ acc.bound = bound

\* One operation is applied, and changes the graph, or it is skipped.
Advances(acc, new, op) ==
    IF Applicable(acc.graph, op)
    THEN new.graph = Effect(acc.graph, op) /\ new.skipped = acc.skipped
    ELSE new.graph = acc.graph /\ new.skipped = Append(acc.skipped, op)

\* So does each step of applying.
LEMMA ApplyOneIs ==
    ASSUME NEW resolved, NEW acc, NEW bound, AccFine(acc, bound), NEW i
    PROVE  /\ AccFine(ApplyOne(resolved, acc, i), bound)
           /\ Advances(acc, ApplyOne(resolved, acc, i), resolved.ops[i])
<1>o. PICK new, op, h : /\ new = ApplyOne(resolved, acc, i) /\ op = resolved.ops[i]
                        /\ h = Effect(acc.graph, op)
  OBVIOUS
<1>k. Keyed(acc, AccFields) /\ Listed(acc.skipped) /\ acc.bound = bound
  BY DEF AccFine
<1>1. CASE Applicable(acc.graph, op)
  <2>1. new = [acc EXCEPT !.graph = h, !.applied = Append(acc.applied, op)]
    BY <1>1, <1>o DEF ApplyOne
  <2>2. /\ Keyed(new, AccFields) /\ new.graph = h /\ new.skipped = acc.skipped
        /\ new.bound = acc.bound
    BY <1>k, <2>1 DEF Keyed, AccFields
  <2> QED BY <1>1, <1>k, <1>o, <2>2 DEF AccFine, Advances
<1>2. CASE ~ Applicable(acc.graph, op)
  <2>1. new = [acc EXCEPT !.skipped = Append(acc.skipped, op)]
    BY <1>2, <1>o DEF ApplyOne
  <2>2. /\ Keyed(new, AccFields) /\ new.graph = acc.graph
        /\ new.skipped = Append(acc.skipped, op) /\ new.bound = acc.bound
    BY <1>k, <2>1 DEF Keyed, AccFields
  <2> QED BY <1>2, <1>k, <1>o, <2>2, ListedMore DEF AccFine, Advances
<1> QED BY <1>1, <1>2

\* The states of applying are fine.
LEMMA ApplyingFine ==
    ASSUME NEW g, NEW ops, NEW n \in Nat, NEW acc, Applying(acc, g, ops, n), NEW j \in 0..n
    PROVE  AccFine(acc[j], Resolved(g, ops).bound)
<1>o. PICK R : R = Resolved(g, ops)
  OBVIOUS
<1> DEFINE Have == {k \in Nat : k <= n => AccFine(acc[k], R.bound)}
<1>1. 0 \in Have
  <2>1. acc[0] = FirstAcc(g, R)
    BY <1>o DEF Applying
  <2> QED BY <2>1, ListedEmpty DEF FirstAcc, AccFine, AccFields, Keyed
<1>2. ASSUME NEW k \in Nat, k \in Have PROVE k + 1 \in Have
  <2> SUFFICES ASSUME k + 1 <= n PROVE AccFine(acc[k + 1], R.bound)
    OBVIOUS
  <2>1. AccFine(acc[k], R.bound)
    BY <1>2
  <2>2. acc[k + 1] = ApplyOne(R, acc[k], k + 1)
    BY <1>o DEF Applying
  <2> QED BY <2>1, <2>2, ApplyOneIs
<1>3. Nat \subseteq Have
  <2> HIDE DEF Have
  <2> QED BY <1>1, <1>2, NatSteps
<1>4. j \in Have
  BY <1>3
<1> QED BY <1>4, <1>o

\* An operation with its aliases resolved.
ResolvedAs(x, bound) == [x EXCEPT !.id = Bound(bound, @), !.ref = Bound(bound, @)]

\* A record applied to its end.
InFull(g, ops) == Applied(g, ops, Len(ops))

\* A number is taken by what is added, and by nothing else; then the aliases
\* of the operation are resolved.
LEMMA ResolveAdds ==
    ASSUME NEW acc, NEW x
    PROVE  /\ Adds(x) /\ x.id < 0 =>
                /\ ResolveOne(acc, x).bound = Put(acc.bound, - x.id, acc.max[RowKind(x)] + 1)
                /\ ResolveOne(acc, x).max =
                     [acc.max EXCEPT ![RowKind(x)] = acc.max[RowKind(x)] + 1]
           /\ ~ Adds(x) => /\ ResolveOne(acc, x).bound = acc.bound
                           /\ ResolveOne(acc, x).max = acc.max
           /\ ResolveOne(acc, x).ops =
                Append(acc.ops, ResolvedAs(x, ResolveOne(acc, x).bound))
<1> DEFINE bound == IF Adds(x) /\ x.id < 0
                    THEN Put(acc.bound, - x.id, acc.max[RowKind(x)] + 1) ELSE acc.bound
<1>1. /\ ResolveOne(acc, x).bound = bound
      /\ ResolveOne(acc, x).ops = Append(acc.ops, ResolvedAs(x, bound))
      /\ ResolveOne(acc, x).max =
           IF Adds(x) /\ x.id < 0
           THEN [acc.max EXCEPT ![RowKind(x)] = acc.max[RowKind(x)] + 1] ELSE acc.max
  BY DEF ResolveOne, ResolvedAs
<1> QED BY <1>1

\* The alias of what is added is bound to the next number of its kind.
LEMMA ResolveTakes ==
    ASSUME NEW acc, NEW x, Adds(x), x.id < 0
    PROVE  /\ ResolveOne(acc, x).bound = Put(acc.bound, - x.id, acc.max[RowKind(x)] + 1)
           /\ ResolveOne(acc, x).max =
                [acc.max EXCEPT ![RowKind(x)] = acc.max[RowKind(x)] + 1]
<1>1. ResolveOne(acc, x).bound = Put(acc.bound, - x.id, acc.max[RowKind(x)] + 1)
  BY DEF ResolveOne
<1>2. ResolveOne(acc, x).max = [acc.max EXCEPT ![RowKind(x)] = acc.max[RowKind(x)] + 1]
  BY DEF ResolveOne
<1> QED BY <1>1, <1>2

\* A record with one more operation is applied as the record is, and then that
\* operation: what was resolved before stays resolved.
LEMMA AppliedAppend ==
    ASSUME NEW g, Good(g), Numbered(g), NEW ops, RecordFine(ops), NEW x
    PROVE  /\ Listed(InFull(g, ops).skipped)
           /\ Advances(InFull(g, ops), InFull(g, Append(ops, x)),
                       ResolvedAs(x, Resolved(g, Append(ops, x)).bound))
<1>o. PICK n, more, R, Q, y :
        /\ n = Len(ops) /\ more = Append(ops, x) /\ R = Resolved(g, ops)
        /\ Q = Resolved(g, more) /\ y = ResolvedAs(x, Q.bound)
  OBVIOUS
<1>p. PICK A, B : A = InFull(g, ops) /\ B = InFull(g, more)
  OBVIOUS
<1>1. n \in Nat /\ Len(more) = n + 1
  BY <1>o, ListedParts DEF RecordFine
<1>2. Listed(R.ops) /\ Len(R.ops) = n
  BY <1>o, ResolvedIsFine DEF ResolvedFine
<1>3. Q.ops = Append(R.ops, y)
  <2>1. Q = ResolveOne(R, x)
    BY <1>o, ResolvedAppend DEF RecordFine
  <2>2. ResolveOne(R, x).ops = Append(R.ops, ResolvedAs(x, ResolveOne(R, x).bound))
    BY ResolveAdds
  <2> QED BY <2>1, <2>2, <1>o
<1>4. Q.ops[n + 1] = y /\ \A k \in 1..n : Q.ops[k] = R.ops[k]
  BY <1>2, <1>3, ListedParts
<1>5. PICK a : Applying(a, g, ops, n)
  BY <1>1, AppliedSteps
<1>6. PICK b : Applying(b, g, more, n + 1)
  <2>1. n + 1 \in Nat
    BY <1>1
  <2> QED BY <2>1, AppliedSteps
<1>7. ASSUME NEW k \in 0..n PROVE AccFine(a[k], R.bound) /\ AccFine(b[k], Q.bound)
  <2>1. AccFine(a[k], R.bound)
    BY <1>1, <1>5, <1>o, ApplyingFine
  <2>2. n + 1 \in Nat /\ k \in 0..(n + 1)
    BY <1>1
  <2>3. AccFine(b[k], Q.bound)
    BY <1>6, <2>2, <1>o, ApplyingFine
  <2> QED BY <2>1, <2>3
<1> DEFINE Have == {k \in Nat : k <= n =>
                      a[k].graph = b[k].graph /\ a[k].skipped = b[k].skipped}
<1>8. 0 \in Have
  <2>1. a[0] = FirstAcc(g, R) /\ b[0] = FirstAcc(g, Q)
    BY <1>5, <1>6, <1>o DEF Applying
  <2> QED BY <2>1 DEF FirstAcc
<1>9. ASSUME NEW k \in Nat, k \in Have PROVE k + 1 \in Have
  <2> SUFFICES ASSUME k + 1 <= n
               PROVE  a[k + 1].graph = b[k + 1].graph /\ a[k + 1].skipped = b[k + 1].skipped
    OBVIOUS
  <2>1. a[k].graph = b[k].graph /\ a[k].skipped = b[k].skipped /\ k \in 0..n
    BY <1>1, <1>9
  <2>2. a[k + 1] = ApplyOne(R, a[k], k + 1)
    BY <1>5, <1>o DEF Applying
  <2>3. b[k + 1] = ApplyOne(Q, b[k], k + 1)
    <3>1. k + 1 <= n + 1
      BY <1>1
    <3> QED BY <1>6, <1>o, <3>1 DEF Applying
  <2>4. PICK op : op = R.ops[k + 1] /\ op = Q.ops[k + 1]
    <3>1. k + 1 \in 1..n
      BY <1>1
    <3> QED BY <1>4, <3>1
  <2>5. AccFine(a[k], R.bound) /\ AccFine(b[k], Q.bound)
    BY <1>7, <2>1
  <2>6. Advances(a[k], a[k + 1], op)
    BY <2>2, <2>4, <2>5, ApplyOneIs
  <2>7. Advances(b[k], b[k + 1], op)
    BY <2>3, <2>4, <2>5, ApplyOneIs
  <2> QED BY <2>1, <2>6, <2>7 DEF Advances
<1>10. a[n].graph = b[n].graph /\ a[n].skipped = b[n].skipped
  <2>1. Nat \subseteq Have
    <3> HIDE DEF Have
    <3> QED BY <1>8, <1>9, NatSteps
  <2>2. n \in Have
    BY <1>1, <2>1
  <2> QED BY <1>1, <2>2
<1>11. AccFine(a[n], R.bound) /\ AccFine(b[n], Q.bound)
  BY <1>1, <1>7
<1>12. b[n + 1] = ApplyOne(Q, b[n], n + 1)
  <2>1. n + 1 <= n + 1
    BY <1>1
  <2> QED BY <1>1, <1>6, <1>o, <2>1 DEF Applying
<1>13. A = a[n] /\ B = b[n + 1]
  BY <1>1, <1>5, <1>6, <1>o, <1>p DEF Applying, InFull
<1>14. Advances(b[n], B, y)
  <2>1. /\ AccFine(ApplyOne(Q, b[n], n + 1), Q.bound)
        /\ Advances(b[n], ApplyOne(Q, b[n], n + 1), Q.ops[n + 1])
    BY <1>11, ApplyOneIs
  <2> QED BY <2>1, <1>4, <1>12, <1>13
<1>15. Advances(A, B, y) /\ Listed(A.skipped)
  BY <1>10, <1>11, <1>13, <1>14 DEF AccFine, Advances
<1> QED BY <1>15, <1>o, <1>p

\* Identifiers stay numbers when a record is applied, or its first part.
LEMMA AppliedNumbered ==
    ASSUME NEW g, Good(g), Numbered(g), NEW ops, RecordFine(ops),
           NEW n \in 0..Len(ops)
    PROVE  Numbered(Applied(g, ops, n).graph)
<1>o. PICK R : R = Resolved(g, ops)
  OBVIOUS
<1>n. Len(ops) \in Nat /\ n \in Nat /\ n <= Len(ops)
  BY ListedParts DEF RecordFine
<1>1. PICK a : Applying(a, g, ops, n)
  BY <1>n, AppliedSteps
<1> DEFINE Have == {k \in Nat : k <= n => Good(a[k].graph) /\ Numbered(a[k].graph)}
<1>2. 0 \in Have
  <2>1. a[0] = FirstAcc(g, R)
    BY <1>1, <1>o DEF Applying
  <2> QED BY <2>1 DEF FirstAcc
<1>3. ASSUME NEW k \in Nat, k \in Have PROVE k + 1 \in Have
  <2> SUFFICES ASSUME k + 1 <= n PROVE Good(a[k + 1].graph) /\ Numbered(a[k + 1].graph)
    OBVIOUS
  <2>o. PICK op, h : op = R.ops[k + 1] /\ h = a[k].graph
    OBVIOUS
  <2>1. Good(h) /\ Numbered(h) /\ k \in 0..n /\ k + 1 \in 1..Len(ops)
    BY <1>3, <1>n, <2>o
  <2>2. AccFine(a[k], R.bound)
    BY <1>1, <1>n, <1>o, <2>1, ApplyingFine
  <2>3. a[k + 1] = ApplyOne(R, a[k], k + 1)
    BY <1>1, <1>o DEF Applying
  <2>4. /\ Applicable(h, op) => a[k + 1].graph = Effect(h, op)
        /\ ~ Applicable(h, op) => a[k + 1].graph = h
    <3>1. Advances(a[k], ApplyOne(R, a[k], k + 1), R.ops[k + 1])
      BY <2>2, ApplyOneIs
    <3> QED BY <2>3, <2>o, <3>1 DEF Advances
  <2>5. Adds(op) => op.id \in Nat
    BY <2>1, <2>o, <1>o, ResolvedIsFine DEF ResolvedFine
  <2>6. ASSUME Applicable(h, op) PROVE Good(Effect(h, op)) /\ Numbered(Effect(h, op))
    <3>1. Accepts(h, op)
      BY <2>6 DEF Applicable
    <3>2. Keyed(h, GraphFields)
      BY <2>1, GoodParts
    <3>3. ASSUME NEW kind \in Kinds PROVE DOMAIN Effect(h, op)[kind] \subseteq Nat
      BY <2>1, <2>5, <3>1, <3>2, EffectRows DEF Numbered
    <3> QED BY <2>1, <3>1, <3>3, EffectGood DEF Numbered
  <2> QED BY <2>1, <2>4, <2>6
<1>4. n \in Have
  <2>1. Nat \subseteq Have
    <3> HIDE DEF Have
    <3> QED BY <1>2, <1>3, NatSteps
  <2> QED BY <1>n, <2>1
<1>5. Numbered(a[n].graph)
  BY <1>4, <1>n
<1> QED BY <1>1, <1>5 DEF Applying

----------------------------------------------------------------------------
(* The names a draft gets *)

\* The name of each row, as NameOf gives it.
Naming(names, bound) ==
    [kind \in Kinds |-> [i \in Nat |-> NameOf(names, bound, kind, i)]]

\* Each alias stands for a row of its own, and for a number above those of the
\* graph the session started from.
NamesFine(from, names, bound, max) ==
    /\ Listed(names) /\ DOMAIN bound = DOMAIN names
    /\ \A j, k \in DOMAIN names : names[j] = names[k] => j = k
    /\ \A k \in DOMAIN names :
          /\ bound[k] \in Nat
          /\ names[k][1] \in Kinds
          /\ MaxId(from[names[k][1]]) < bound[k] /\ bound[k] <= max[names[k][1]]
    /\ \A j, k \in DOMAIN names :
          names[j][1] = names[k][1] /\ bound[j] = bound[k] => j = k
    /\ \A kind \in Kinds : max[kind] \in Nat /\ MaxId(from[kind]) <= max[kind]

\* These rows of a kind are of the session or of the graph it started from.
Known(from, names, kind, ids) ==
    \A i \in ids : i \in Nat /\ (Aliased(names, << kind, i >>) \/ i \in DOMAIN from[kind])

\* The alias of a row is minus its place, and another row has none.
LEMMA AliasIs ==
    ASSUME NEW names, Listed(names), NEW row
    PROVE  IF Aliased(names, row)
           THEN \E k \in DOMAIN names :
                   k \in Nat /\ k > 0 /\ names[k] = row /\ AliasFor(names, row) = - k
           ELSE AliasFor(names, row) = row[2]
<1>1. DOMAIN names = 1..Len(names) /\ Len(names) \in Nat
  BY DEF Listed
<1>2. CASE Aliased(names, row)
  <2>1. PICK k : k = CHOOSE j \in DOMAIN names : names[j] = row
    OBVIOUS
  <2>2. k \in DOMAIN names /\ names[k] = row
    BY <1>2, <2>1 DEF Aliased
  <2>3. AliasFor(names, row) = - k
    BY <1>2, <2>1 DEF AliasFor
  <2>4. k \in Nat /\ k > 0
    BY <1>1, <2>2
  <2> QED BY <1>2, <2>2, <2>3, <2>4
<1>3. CASE ~ Aliased(names, row)
  BY <1>3 DEF AliasFor
<1> QED BY <1>2, <1>3

\* The name of a row: what its alias stands for, or its own.
NamedBy(names, bound, kind, id, name) ==
    \/ \E k \in DOMAIN names : names[k] = << kind, id >> /\ name = bound[k]
    \/ ~ Aliased(names, << kind, id >>) /\ name = id

\* So it is called when its alias is resolved.
LEMMA NameIs ==
    ASSUME NEW names, Listed(names), NEW bound, DOMAIN bound = DOMAIN names,
           NEW kind, NEW id \in Nat
    PROVE  NamedBy(names, bound, kind, id, NameOf(names, bound, kind, id))
<1>o. PICK row, alias : row = << kind, id >> /\ alias = AliasFor(names, row)
  OBVIOUS
<1>1. CASE Aliased(names, row)
  <2>1. PICK k \in DOMAIN names : k \in Nat /\ k > 0 /\ names[k] = row /\ alias = - k
    BY <1>1, <1>o, AliasIs
  <2>2. alias < 0 /\ - alias = k
    BY <2>1
  <2>3. Bound(bound, alias) = bound[k]
    BY <2>1, <2>2 DEF Bound
  <2> QED BY <1>o, <2>1, <2>3 DEF NameOf, NamedBy
<1>2. CASE ~ Aliased(names, row)
  <2>1. alias = id
    <3>1. row[2] = id
      BY <1>o
    <3> QED BY <1>2, <1>o, <3>1, AliasIs
  <2>2. Bound(bound, alias) = id
    BY <2>1 DEF Bound
  <2> QED BY <1>2, <1>o, <2>2 DEF NameOf, NamedBy
<1> QED BY <1>1, <1>2

\* The names tell the rows of a draft apart.
LEMMA NamesTell ==
    ASSUME NEW from, Good(from), Numbered(from), NEW names, NEW bound, NEW max,
           NamesFine(from, names, bound, max),
           NEW kind \in Kinds, NEW ids, Known(from, names, kind, ids)
    PROVE  Injective(Naming(names, bound)[kind], ids)
<1>1. ASSUME NEW i \in ids
      PROVE  /\ i \in Nat
             /\ NamedBy(names, bound, kind, i, Naming(names, bound)[kind][i])
             /\ ~ Aliased(names, << kind, i >>) => i <= MaxId(from[kind])
  <2>1. i \in Nat /\ (Aliased(names, << kind, i >>) \/ i \in DOMAIN from[kind])
    BY DEF Known
  <2>2. Naming(names, bound)[kind][i] = NameOf(names, bound, kind, i)
    BY <2>1 DEF Naming
  <2>3. NamedBy(names, bound, kind, i, NameOf(names, bound, kind, i))
    BY <2>1, NameIs DEF NamesFine
  <2> QED BY <2>1, <2>2, <2>3, GreatestIds
<1>2. MaxId(from[kind]) \in Nat
  BY GreatestIds
<1>3. ASSUME NEW k \in DOMAIN names, NEW i \in ids, names[k] = << kind, i >>
      PROVE  /\ names[k][1] = kind /\ names[k][2] = i
             /\ bound[k] \in Nat /\ MaxId(from[kind]) < bound[k]
  BY <1>3 DEF NamesFine
<1>4. \A j, k \in DOMAIN names : names[j][1] = names[k][1] /\ bound[j] = bound[k] => j = k
  BY DEF NamesFine
<1> SUFFICES ASSUME NEW i \in ids, NEW j \in ids,
                    Naming(names, bound)[kind][i] = Naming(names, bound)[kind][j]
             PROVE  i = j
  BY DEF Injective
<1>5. PICK name : /\ NamedBy(names, bound, kind, i, name)
                  /\ NamedBy(names, bound, kind, j, name)
  BY <1>1
<1>6. CASE Aliased(names, << kind, i >>) /\ Aliased(names, << kind, j >>)
  <2>1. PICK k \in DOMAIN names : names[k] = << kind, i >> /\ name = bound[k]
    BY <1>5, <1>6 DEF NamedBy
  <2>2. PICK l \in DOMAIN names : names[l] = << kind, j >> /\ name = bound[l]
    BY <1>5, <1>6 DEF NamedBy
  <2>3. /\ names[k][1] = kind /\ names[k][2] = i
        /\ names[l][1] = kind /\ names[l][2] = j
    BY <2>1, <2>2
  <2>4. k = l
    BY <1>4, <2>1, <2>2, <2>3
  <2> QED BY <2>3, <2>4
<1>7. CASE ~ Aliased(names, << kind, i >>) /\ ~ Aliased(names, << kind, j >>)
  BY <1>5, <1>7 DEF NamedBy, Aliased
<1>8. CASE Aliased(names, << kind, i >>) /\ ~ Aliased(names, << kind, j >>)
  <2>1. PICK k \in DOMAIN names : names[k] = << kind, i >> /\ name = bound[k]
    BY <1>5, <1>8 DEF NamedBy
  <2>2. name = j /\ j <= MaxId(from[kind]) /\ j \in Nat
    BY <1>1, <1>5, <1>8 DEF NamedBy, Aliased
  <2>3. MaxId(from[kind]) < name /\ name \in Nat
    BY <1>3, <2>1
  <2> QED BY <1>2, <2>2, <2>3
<1>9. CASE ~ Aliased(names, << kind, i >>) /\ Aliased(names, << kind, j >>)
  <2>1. PICK k \in DOMAIN names : names[k] = << kind, j >> /\ name = bound[k]
    BY <1>5, <1>9 DEF NamedBy
  <2>2. name = i /\ i <= MaxId(from[kind]) /\ i \in Nat
    BY <1>1, <1>5, <1>9 DEF NamedBy, Aliased
  <2>3. MaxId(from[kind]) < name /\ name \in Nat
    BY <1>3, <2>1
  <2> QED BY <1>2, <2>2, <2>3
<1> QED BY <1>6, <1>7, <1>8, <1>9

\* The names with a row that has alias k, the one it had or a new one.
NamedAs(names, row, more, k) ==
    /\ k > 0 /\ AliasFor(more, row) = - k /\ more[k] = row
    /\ Listed(more) /\ DOMAIN more = DOMAIN names \cup {k}
    /\ \A j \in DOMAIN names : more[j] = names[j]
    /\ \A i, j \in DOMAIN more : more[i] = more[j] => i = j

\* A row that is added has an alias then.
LEMMA AllocateIs ==
    ASSUME NEW names, Listed(names), \A j, k \in DOMAIN names : names[j] = names[k] => j = k,
           NEW row
    PROVE  \E k \in Nat : NamedAs(names, row, Allocate(names, row), k)
<1>o. PICK more : more = Allocate(names, row)
  OBVIOUS
<1>1. CASE Aliased(names, row)
  <2>1. more = names
    BY <1>1, <1>o DEF Allocate
  <2>2. PICK k \in DOMAIN names :
          k \in Nat /\ k > 0 /\ names[k] = row /\ AliasFor(names, row) = - k
    BY <1>1, AliasIs
  <2>3. DOMAIN names = DOMAIN names \cup {k}
    BY <2>2
  <2>4. NamedAs(names, row, names, k)
    BY <2>1, <2>2, <2>3 DEF NamedAs
  <2> QED BY <2>1, <2>2, <2>4, <1>o
<1>2. CASE ~ Aliased(names, row)
  <2>1. more = Append(names, row)
    BY <1>2, <1>o DEF Allocate
  <2>o. PICK n : n = Len(names) + 1
    OBVIOUS
  <2>2. /\ n \in Nat /\ n > 0 /\ DOMAIN names = 1..(n - 1) /\ DOMAIN more = 1..n
        /\ more[n] = row /\ Listed(more) /\ \A j \in 1..(n - 1) : more[j] = names[j]
    BY <2>1, <2>o, ListedParts
  <2>3. \A j \in DOMAIN names : names[j] # row
    BY <1>2 DEF Aliased
  <2>4. \A i \in DOMAIN more : more[i] = row => i = n
    BY <2>2, <2>3
  <2>5. Aliased(more, row)
    BY <2>2 DEF Aliased
  <2>6. PICK k \in DOMAIN more : k \in Nat /\ more[k] = row /\ AliasFor(more, row) = - k
    BY <2>2, <2>5, AliasIs
  <2>7. k = n
    BY <2>4, <2>6
  <2>8. DOMAIN more = DOMAIN names \cup {n}
    BY <2>2
  <2>9. ASSUME NEW i \in DOMAIN more, NEW j \in DOMAIN more, more[i] = more[j] PROVE i = j
    <3>1. CASE i = n
      BY <2>2, <2>4, <2>9, <3>1
    <3>2. CASE j = n
      BY <2>2, <2>4, <2>9, <3>2
    <3>3. CASE i # n /\ j # n
      BY <2>2, <2>8, <2>9, <3>3
    <3> QED BY <3>1, <3>2, <3>3
  <2>10. \A j \in DOMAIN names : more[j] = names[j]
    BY <2>2
  <2> QED BY <2>2, <2>6, <2>7, <2>8, <2>9, <2>10, <1>o DEF NamedAs
<1> QED BY <1>1, <1>2

\* A row that is added takes the number after the last one given; the names
\* stay apart, and no other row changes its name.
LEMMA NamesAdd ==
    ASSUME NEW from, NEW names, NEW bound, NEW max, NamesFine(from, names, bound, max),
           Keyed(max, Kinds),
           \A kd \in Kinds : MaxId(from[kd]) \in Nat,
           NEW kind \in Kinds, NEW id \in Nat,
           NEW more, more = Allocate(names, << kind, id >>),
           NEW alias, alias = AliasFor(more, << kind, id >>)
    PROVE  LET next == max[kind] + 1
               new == Put(bound, - alias, next)
           IN /\ alias \in Int /\ alias < 0
              /\ NamesFine(from, more, new, [max EXCEPT ![kind] = next])
              /\ \A kd \in Kinds, i \in Nat : << kd, i >> # << kind, id >> =>
                    NameOf(more, new, kd, i) = NameOf(names, bound, kd, i)
              /\ Aliased(more, << kind, id >>)
              /\ \A row : Aliased(names, row) => Aliased(more, row)
<1>o. PICK row, next : row = << kind, id >> /\ next = max[kind] + 1
  OBVIOUS
<1>1. PICK k \in Nat :
        /\ k > 0 /\ alias = - k /\ more[k] = row
        /\ Listed(more) /\ DOMAIN more = DOMAIN names \cup {k}
        /\ \A j \in DOMAIN names : more[j] = names[j]
        /\ \A i, j \in DOMAIN more : more[i] = more[j] => i = j
  <2>1. Listed(names) /\ \A j, k \in DOMAIN names : names[j] = names[k] => j = k
    BY DEF NamesFine
  <2>2. PICK k \in Nat : NamedAs(names, row, Allocate(names, row), k)
    BY <2>1, AllocateIs
  <2> QED BY <2>2, <1>o DEF NamedAs
<1>2. alias \in Int /\ alias < 0 /\ - alias = k
  BY <1>1
<1>3. PICK new, top : new = Put(bound, k, next) /\ top = [max EXCEPT ![kind] = next]
  OBVIOUS
<1>4. /\ Listed(names) /\ DOMAIN bound = DOMAIN names
      /\ \A j \in DOMAIN names :
            /\ bound[j] \in Nat
            /\ names[j][1] \in Kinds
            /\ MaxId(from[names[j][1]]) < bound[j] /\ bound[j] <= max[names[j][1]]
      /\ \A i, j \in DOMAIN names :
            names[i][1] = names[j][1] /\ bound[i] = bound[j] => i = j
      /\ \A kd \in Kinds : max[kd] \in Nat /\ MaxId(from[kd]) <= max[kd]
  BY DEF NamesFine
<1>5. /\ DOMAIN new = DOMAIN bound \cup {k} /\ new[k] = next
      /\ \A j \in DOMAIN bound : j # k => new[j] = bound[j]
  BY <1>3 DEF Put
<1>6. /\ top[kind] = next /\ \A kd \in Kinds : kd # kind => top[kd] = max[kd]
  BY <1>3 DEF Keyed
<1>7. next \in Nat /\ max[kind] < next /\ MaxId(from[kind]) < next
  BY <1>4, <1>o
<1>8. \A kd \in Kinds : top[kd] \in Nat /\ MaxId(from[kd]) <= top[kd] /\ max[kd] <= top[kd]
  BY <1>4, <1>6, <1>7
<1>9. more[k][1] = kind
  BY <1>1, <1>o
<1>10. ASSUME NEW j \in DOMAIN more
       PROVE  /\ new[j] \in Nat
              /\ more[j][1] \in Kinds
              /\ MaxId(from[more[j][1]]) < new[j] /\ new[j] <= top[more[j][1]]
              /\ j # k /\ more[j][1] = kind => new[j] < next
  <2>1. CASE j = k
    BY <1>5, <1>6, <1>7, <1>9, <2>1
  <2>2. CASE j # k
    <3>1. j \in DOMAIN names /\ new[j] = bound[j] /\ more[j] = names[j]
      BY <1>1, <1>4, <1>5, <2>2
    <3>2. PICK kd \in Kinds : kd = names[j][1]
      BY <1>4, <3>1
    <3>3. bound[j] \in Nat /\ MaxId(from[kd]) < bound[j] /\ bound[j] <= max[kd]
      BY <1>4, <3>1, <3>2
    <3>4. bound[j] <= top[kd]
      BY <1>4, <1>8, <3>3
    <3>5. kd = kind => bound[j] < next
      BY <1>4, <1>7, <3>3
    <3> QED BY <3>1, <3>2, <3>3, <3>4, <3>5
  <2> QED BY <2>1, <2>2
<1>11. ASSUME NEW i \in DOMAIN more, NEW j \in DOMAIN more,
              more[i][1] = more[j][1], new[i] = new[j]
       PROVE  i = j
  <2>1. CASE i = k
    BY <1>5, <1>7, <1>9, <1>10, <1>11, <2>1
  <2>2. CASE j = k
    BY <1>5, <1>7, <1>9, <1>10, <1>11, <2>2
  <2>3. CASE i # k /\ j # k
    <3>1. /\ i \in DOMAIN names /\ new[i] = bound[i] /\ more[i] = names[i]
          /\ j \in DOMAIN names /\ new[j] = bound[j] /\ more[j] = names[j]
      BY <1>1, <1>4, <1>5, <2>3
    <3> QED BY <1>4, <1>11, <3>1
  <2> QED BY <2>1, <2>2, <2>3
<1>12. DOMAIN new = DOMAIN more
  BY <1>1, <1>4, <1>5
<1>13. NamesFine(from, more, new, top)
  <2>1. \A j \in DOMAIN more :
          /\ new[j] \in Nat
          /\ more[j][1] \in Kinds
          /\ MaxId(from[more[j][1]]) < new[j] /\ new[j] <= top[more[j][1]]
    BY <1>10
  <2>2. \A i, j \in DOMAIN more : more[i][1] = more[j][1] /\ new[i] = new[j] => i = j
    BY <1>11
  <2>3. \A kd \in Kinds : top[kd] \in Nat /\ MaxId(from[kd]) <= top[kd]
    BY <1>8
  <2>4. Listed(more) /\ \A i, j \in DOMAIN more : more[i] = more[j] => i = j
    BY <1>1
  <2> QED BY <1>12, <2>1, <2>2, <2>3, <2>4 DEF NamesFine
<1>14. ASSUME NEW kd \in Kinds, NEW i \in Nat, << kd, i >> # row
       PROVE  NameOf(more, new, kd, i) = NameOf(names, bound, kd, i)
  <2>1. NamedBy(more, new, kd, i, NameOf(more, new, kd, i))
    BY <1>1, <1>12, NameIs
  <2>2. NamedBy(names, bound, kd, i, NameOf(names, bound, kd, i))
    BY <1>4, NameIs
  <2>3. \A j \in DOMAIN more : more[j] = << kd, i >> =>
           j \in DOMAIN names /\ names[j] = << kd, i >> /\ new[j] = bound[j]
    BY <1>1, <1>4, <1>5, <1>14
  <2>4. \A j \in DOMAIN names : names[j] = << kd, i >> =>
           j \in DOMAIN more /\ more[j] = << kd, i >>
    BY <1>1
  <2>5. \A j, l \in DOMAIN names : names[j] = names[l] => j = l
    BY DEF NamesFine
  <2> QED BY <2>1, <2>2, <2>3, <2>4, <2>5 DEF NamedBy, Aliased
<1>15. Aliased(more, row) /\ \A r : Aliased(names, r) => Aliased(more, r)
  BY <1>1 DEF Aliased
<1> QED BY <1>2, <1>3, <1>13, <1>14, <1>15, <1>o

----------------------------------------------------------------------------
(* A draft is what its record gives *)

\* Names that agree on the rows of a graph rename it alike.
LEMMA SameNames ==
    ASSUME NEW g, Good(g), NEW h, NEW m, GraphRenamed(g, h, m), NEW n,
           \A kind \in Kinds : \A i \in DOMAIN g[kind] : n[kind][i] = m[kind][i]
    PROVE  GraphRenamed(g, h, n)
<1>1. /\ \A i \in DOMAIN g.ms : n.ms[i] = m.ms[i]
      /\ \A i \in DOMAIN g.fs : n.fs[i] = m.fs[i]
      /\ \A i \in DOMAIN g.ts : n.ts[i] = m.ts[i]
  <2>1. /\ \A i \in DOMAIN g["ms"] : n["ms"][i] = m["ms"][i]
        /\ \A i \in DOMAIN g["fs"] : n["fs"][i] = m["fs"][i]
        /\ \A i \in DOMAIN g["ts"] : n["ts"][i] = m["ts"][i]
    BY DEF Kinds
  <2> QED BY <2>1
<1>2. Closed(DOMAIN g.ms, g.fs, g.ts)
  BY GoodParts
<1>3. \A f1, f2, D : (\A i \in D : f1[i] = f2[i]) => Under(f1, D) = Under(f2, D)
  BY DEF Under
<1>4. DOMAIN h.ms = Under(n.ms, DOMAIN g.ms) /\ \A i \in DOMAIN g.ms : h.ms[n.ms[i]] = g.ms[i]
  BY <1>1, <1>3 DEF GraphRenamed
<1>5. TableRenamed(g.fs, h.fs, FeatureFields, "milestone", n.ms, n.fs)
  <2>o. PICK a, b : a = g.fs /\ b = h.fs
    OBVIOUS
  <2>1. TableRenamed(a, b, FeatureFields, "milestone", m.ms, m.fs)
    BY <2>o DEF GraphRenamed
  <2>2. DOMAIN b = Under(n.fs, DOMAIN a)
    BY <2>o, <2>1, <1>1, <1>3 DEF TableRenamed
  <2>3. ASSUME NEW i \in DOMAIN a
        PROVE  RowRenamed(a[i], b[n.fs[i]], FeatureFields, "milestone", n.ms, n.fs)
    <3>1. RowRenamed(a[i], b[n.fs[i]], FeatureFields, "milestone", m.ms, m.fs)
      BY <2>o, <2>1, <1>1 DEF TableRenamed
    <3>2. n.ms[a[i].milestone] = m.ms[a[i].milestone]
      BY <2>o, <1>1, <1>2 DEF Closed
    <3>3. Under(n.fs, a[i].deps) = Under(m.fs, a[i].deps)
      <4>1. \A d \in a[i].deps : n.fs[d] = m.fs[d]
        BY <2>o, <1>1, <1>2 DEF Closed
      <4> QED BY <4>1, <1>3
    <3> QED BY <3>1, <3>2, <3>3 DEF RowRenamed
  <2> QED BY <2>o, <2>2, <2>3 DEF TableRenamed
<1>6. TableRenamed(g.ts, h.ts, TaskFields, "feature", n.fs, n.ts)
  <2>o. PICK a, b : a = g.ts /\ b = h.ts
    OBVIOUS
  <2>1. TableRenamed(a, b, TaskFields, "feature", m.fs, m.ts)
    BY <2>o DEF GraphRenamed
  <2>2. DOMAIN b = Under(n.ts, DOMAIN a)
    BY <2>o, <2>1, <1>1, <1>3 DEF TableRenamed
  <2>3. ASSUME NEW i \in DOMAIN a
        PROVE  RowRenamed(a[i], b[n.ts[i]], TaskFields, "feature", n.fs, n.ts)
    <3>1. RowRenamed(a[i], b[n.ts[i]], TaskFields, "feature", m.fs, m.ts)
      BY <2>o, <2>1, <1>1 DEF TableRenamed
    <3>2. n.fs[a[i].feature] = m.fs[a[i].feature]
      BY <2>o, <1>1, <1>2 DEF Closed
    <3>3. Under(n.ts, a[i].deps) = Under(m.ts, a[i].deps)
      <4>1. \A d \in a[i].deps : n.ts[d] = m.ts[d]
        BY <2>o, <1>1, <1>2 DEF Closed
      <4> QED BY <4>1, <1>3
    <3> QED BY <3>1, <3>2, <3>3 DEF RowRenamed
  <2> QED BY <2>o, <2>2, <2>3 DEF TableRenamed
<1> QED BY <1>4, <1>5, <1>6 DEF GraphRenamed

\* Applied to the graph the session started from, the record gives the draft
\* under its names; or its first operation to be skipped removes a feature.
Agrees(draft, applied, m) ==
    IF applied.skipped = << >> THEN GraphRenamed(draft, applied.graph, m)
    ELSE applied.skipped[1].kind = "remove_feature"

\* The draft of a session is good, its rows are known, its names are fine, and
\* it agrees with what its record gives.
Previewed(from, ops, names, draft) ==
    LET resolved == Resolved(from, ops) IN
    /\ Good(from) /\ Numbered(from) /\ Good(draft) /\ RecordFine(ops)
    /\ NamesFine(from, names, resolved.bound, resolved.max)
    /\ \A kind \in Kinds : Known(from, names, kind, DOMAIN draft[kind])
    /\ Agrees(draft, InFull(from, ops), Naming(names, resolved.bound))

\* The names with that of what an operation adds, and the operation recorded.
NamesWith(names, op) ==
    IF Adds(op) THEN Allocate(names, << RowKind(op), op.id >>) ELSE names
AsRecorded(names, op) == Recorded(NamesWith(names, op), op)

\* The names hold what is added, and change for nothing else.
NamesGrow(op, names, more) ==
    /\ Adds(op) => Aliased(more, << RowKind(op), op.id >>)
    /\ \A row : Aliased(names, row) => Aliased(more, row)

\* Nothing but what is added changes its name.
ElseSame(op, m, n) ==
    \A kind \in Kinds, i \in Nat :
        ~ (Adds(op) /\ kind = RowKind(op) /\ i = op.id) => n[kind][i] = m[kind][i]

\* The names after one more operation, and the operation under them.
LEMMA NamesOfOp ==
    ASSUME NEW from, Good(from), Numbered(from), NEW ops, RecordFine(ops),
           NEW names, NEW R, R = Resolved(from, ops),
           NamesFine(from, names, R.bound, R.max),
           NEW op, Keyed(op, OpFields), op.id \in Nat, op.ref \in Nat,
           NEW Q, Q = Resolved(from, Append(ops, AsRecorded(names, op)))
    PROVE  /\ OpFine(AsRecorded(names, op))
           /\ NamesFine(from, NamesWith(names, op), Q.bound, Q.max)
           /\ OpRenamed(op, ResolvedAs(AsRecorded(names, op), Q.bound),
                        Naming(NamesWith(names, op), Q.bound))
           /\ ElseSame(op, Naming(names, R.bound), Naming(NamesWith(names, op), Q.bound))
           /\ NamesGrow(op, names, NamesWith(names, op))
<1>p. PICK more, x, y :
        /\ more = NamesWith(names, op) /\ x = AsRecorded(names, op)
        /\ y = ResolvedAs(x, Q.bound)
  OBVIOUS
<1>1. Q = ResolveOne(R, x)
  BY <1>p, ResolvedAppend DEF RecordFine
<1>2. Keyed(R.max, Kinds)
  BY ResolvedIsFine DEF ResolvedFine
<1>o. PICK kind, alias, other :
        /\ kind = RowKind(op) /\ alias = AliasFor(more, << kind, op.id >>)
        /\ other = AliasFor(more, << RefKind(op), op.ref >>)
  OBVIOUS
<1>3. /\ Keyed(x, OpFields) /\ x.kind = op.kind /\ x.val = op.val
      /\ x.id = alias /\ x.ref = other
  BY <1>o, <1>p DEF AsRecorded, Recorded, Keyed, OpFields
<1>4. RowKind(x) = kind /\ (Adds(x) <=> Adds(op)) /\ kind \in Kinds /\ RefKind(op) \in Kinds
  BY <1>3, <1>o DEF RowKind, RefKind, Adds, Kinds
<1>5. /\ y.kind = op.kind /\ y.val = op.val
      /\ y.id = Bound(Q.bound, alias) /\ y.ref = Bound(Q.bound, other)
  BY <1>3, <1>p DEF ResolvedAs, Keyed, OpFields
<1>6. OpRenamed(op, y, Naming(more, Q.bound))
  <2>1. /\ Naming(more, Q.bound)[kind][op.id] = NameOf(more, Q.bound, kind, op.id)
        /\ Naming(more, Q.bound)[RefKind(op)][op.ref] =
             NameOf(more, Q.bound, RefKind(op), op.ref)
    BY <1>4 DEF Naming
  <2> QED BY <1>5, <1>o, <2>1 DEF OpRenamed, NameOf
<1>7. \A kd \in Kinds, i \in Nat :
        /\ Naming(more, Q.bound)[kd][i] = NameOf(more, Q.bound, kd, i)
        /\ Naming(names, R.bound)[kd][i] = NameOf(names, R.bound, kd, i)
  BY DEF Naming
<1>8. CASE Adds(op)
  <2>1. PICK next, new, top :
          /\ next = R.max[kind] + 1 /\ new = Put(R.bound, - alias, next)
          /\ top = [R.max EXCEPT ![kind] = next]
    OBVIOUS
  <2>2. /\ alias \in Int /\ alias < 0
        /\ NamesFine(from, more, new, top)
        /\ \A kd \in Kinds, i \in Nat : << kd, i >> # << kind, op.id >> =>
              NameOf(more, new, kd, i) = NameOf(names, R.bound, kd, i)
        /\ Aliased(more, << kind, op.id >>)
        /\ \A row : Aliased(names, row) => Aliased(more, row)
    <3>1. more = Allocate(names, << kind, op.id >>)
      BY <1>8, <1>o, <1>p DEF NamesWith
    <3>2. \A kd \in Kinds : MaxId(from[kd]) \in Nat
      BY GreatestIds
    <3> QED BY <1>2, <1>4, <1>o, <2>1, <3>1, <3>2, NamesAdd
  <2>3. Q.bound = new /\ Q.max = top
    <3>0. RowKind(x) = kind /\ x.id = alias
      BY <1>3, <1>4
    <3>1. Adds(x) /\ x.id < 0
      BY <3>0, <1>4, <1>8, <2>2
    <3>2. ResolveOne(R, x).bound = Put(R.bound, - x.id, R.max[RowKind(x)] + 1)
      BY <3>1, ResolveTakes
    <3>3. ResolveOne(R, x).max = [R.max EXCEPT ![RowKind(x)] = R.max[RowKind(x)] + 1]
      BY <3>1, ResolveTakes
    <3> QED BY <1>1, <2>1, <3>0, <3>2, <3>3
  <2>4. OpFine(x)
    BY <1>3, <2>2 DEF OpFine
  <2>5. ElseSame(op, Naming(names, R.bound), Naming(more, Q.bound))
    <3> SUFFICES ASSUME NEW kd \in Kinds, NEW i \in Nat,
                        ~ (kd = RowKind(op) /\ i = op.id)
                 PROVE  Naming(more, Q.bound)[kd][i] = Naming(names, R.bound)[kd][i]
      BY <1>8 DEF ElseSame
    <3>1. << kd, i >> # << kind, op.id >>
      BY <1>o
    <3>2. NameOf(more, new, kd, i) = NameOf(names, R.bound, kd, i)
      BY <2>2, <3>1
    <3> QED BY <1>7, <2>3, <3>2
  <2>6. NamesGrow(op, names, more)
    BY <2>2, <1>o DEF NamesGrow
  <2> QED BY <1>6, <1>p, <2>2, <2>3, <2>4, <2>5, <2>6
<1>9. CASE ~ Adds(op)
  <2>1. more = names
    BY <1>9, <1>p DEF NamesWith
  <2>2. Q.bound = R.bound /\ Q.max = R.max
    <3>1. ~ Adds(x)
      BY <1>4, <1>9
    <3>2. ResolveOne(R, x).bound = R.bound /\ ResolveOne(R, x).max = R.max
      BY <3>1, ResolveAdds
    <3> QED BY <1>1, <3>2
  <2>3. OpFine(x)
    BY <1>3, <1>4, <1>9 DEF OpFine
  <2>4. ElseSame(op, Naming(names, R.bound), Naming(more, Q.bound))
    BY <2>1, <2>2 DEF ElseSame
  <2>5. NamesGrow(op, names, more)
    BY <1>9, <2>1 DEF NamesGrow
  <2> QED BY <1>6, <1>p, <2>1, <2>2, <2>3, <2>4, <2>5
<1> QED BY <1>8, <1>9

\* A record with one more operation is fine.
LEMMA RecordMore ==
    ASSUME NEW ops, RecordFine(ops), NEW x, OpFine(x)
    PROVE  RecordFine(Append(ops, x))
<1>o. PICK n, more : n = Len(ops) /\ more = Append(ops, x)
  OBVIOUS
<1>1. /\ n \in Nat /\ DOMAIN ops = 1..n /\ Listed(more) /\ DOMAIN more = 1..(n + 1)
      /\ more[n + 1] = x /\ \A i \in 1..n : more[i] = ops[i]
  BY <1>o, ListedParts DEF RecordFine
<1>2. ASSUME NEW i \in DOMAIN more PROVE OpFine(more[i])
  <2>1. CASE i = n + 1
    BY <1>1, <2>1
  <2>2. CASE i # n + 1
    <3>1. i \in 1..n
      BY <1>1, <2>2
    <3> QED BY <1>1, <3>1 DEF RecordFine
  <2> QED BY <2>1, <2>2
<1> QED BY <1>1, <1>2, <1>o DEF RecordFine

\* What is skipped first stays so.
LEMMA FirstSkipped ==
    ASSUME NEW s, Listed(s), NEW y
    PROVE  /\ Append(s, y) # << >>
           /\ s = << >> => Append(s, y)[1] = y
           /\ s # << >> => Append(s, y)[1] = s[1]
<1>1. Append(s, y) # << >>
  BY ListedMore
<1>2. ASSUME s = << >> PROVE Append(s, y)[1] = y
  <2>1. Len(s) + 1 = 1
    BY <1>2
  <2>2. Append(s, y)[Len(s) + 1] = y
    BY ListedParts
  <2> QED BY <2>1, <2>2
<1>3. ASSUME s # << >> PROVE Append(s, y)[1] = s[1]
  <2>1. 1 \in 1..Len(s)
    BY <1>3 DEF Listed
  <2> QED BY <2>1, ListedParts
<1> QED BY <1>1, <1>2, <1>3

\* Recording an operation that the draft takes keeps draft and record in step.
THEOREM RecordPreviews ==
    ASSUME NEW from, NEW ops, NEW names, NEW draft, Previewed(from, ops, names, draft),
           NEW op, Keyed(op, OpFields), op.id \in Nat, op.ref \in Nat, Accepts(draft, op)
    PROVE  Previewed(from, Append(ops, AsRecorded(names, op)), NamesWith(names, op),
                     Effect(draft, op))
<1>o. PICK x, more, R, Q : /\ x = AsRecorded(names, op) /\ more = NamesWith(names, op)
                           /\ R = Resolved(from, ops) /\ Q = Resolved(from, Append(ops, x))
  OBVIOUS
<1>p. PICK y, m, n, A, B :
        /\ y = ResolvedAs(x, Q.bound)
        /\ m = Naming(names, R.bound) /\ n = Naming(more, Q.bound)
        /\ A = InFull(from, ops) /\ B = InFull(from, Append(ops, x))
  OBVIOUS
<1>1. /\ Good(from) /\ Numbered(from) /\ Good(draft) /\ RecordFine(ops)
      /\ NamesFine(from, names, R.bound, R.max)
      /\ \A kind \in Kinds : Known(from, names, kind, DOMAIN draft[kind])
      /\ Agrees(draft, A, m)
  BY <1>o, <1>p DEF Previewed
<1>2. /\ OpFine(x)
      /\ NamesFine(from, more, Q.bound, Q.max)
      /\ OpRenamed(op, y, n)
      /\ ElseSame(op, m, n)
      /\ NamesGrow(op, names, more)
  BY <1>1, <1>o, <1>p, NamesOfOp
<1>3. RowKind(op) \in Kinds
  BY DEF RowKind, Kinds
<1>4. \A kind \in Kinds : Known(from, more, kind, DOMAIN draft[kind])
  BY <1>1, <1>2 DEF Known, NamesGrow
<1>5. Adds(op) => Known(from, more, RowKind(op), DOMAIN draft[RowKind(op)] \cup {op.id})
  BY <1>2, <1>3, <1>4 DEF Known, NamesGrow
<1>6. Adds(op) => op.id \notin DOMAIN draft[RowKind(op)]
  BY DEF Adds, Accepts, Links, Unlinks, RowKind, CanCreateMilestone, CanCreateFeature,
         CanCreateTask
<1>7. \A kind \in Kinds : \A i \in DOMAIN draft[kind] : n[kind][i] = m[kind][i]
  BY <1>1, <1>2, <1>6 DEF Known, ElseSame
<1>8. Tells(draft, n)
  BY <1>1, <1>2, <1>4, <1>p, NamesTell DEF Tells
<1>9. Adds(op) => Injective(n[RowKind(op)], DOMAIN draft[RowKind(op)] \cup {op.id})
  BY <1>1, <1>2, <1>3, <1>5, <1>p, NamesTell
<1>10. /\ Listed(A.skipped) /\ Advances(A, B, y)
  BY <1>1, <1>o, <1>p, AppliedAppend
<1>11. Good(A.graph)
  <2>1. Len(ops) \in Nat
    BY <1>1 DEF RecordFine, Listed
  <2> QED BY <1>1, <1>p, <2>1, AppliedGood DEF InFull
<1>12. Agrees(Effect(draft, op), B, n)
  <2>1. CASE A.skipped = << >>
    <3>1. GraphRenamed(draft, A.graph, n)
      BY <1>1, <1>7, <2>1, SameNames DEF Agrees
    <3>2. Alike(draft, A.graph, n)
      BY <1>1, <1>8, <1>11, <3>1 DEF Alike
    <3>3. Accepts(A.graph, y) /\ GraphRenamed(Effect(draft, op), Effect(A.graph, y), n)
      BY <1>2, <1>9, <3>2, EffectAlike
    <3>4. CASE Applicable(A.graph, y)
      BY <1>10, <2>1, <3>3, <3>4 DEF Agrees, Advances
    <3>5. CASE ~ Applicable(A.graph, y)
      <4>1. y.kind = "remove_feature"
        BY <3>3, <3>5 DEF Applicable
      <4>2. B.skipped = Append(A.skipped, y)
        BY <1>10, <3>5 DEF Advances
      <4> QED BY <1>10, <2>1, <4>1, <4>2, FirstSkipped DEF Agrees
    <3> QED BY <3>4, <3>5
  <2>2. CASE A.skipped # << >>
    <3>1. A.skipped[1].kind = "remove_feature"
      BY <1>1, <2>2 DEF Agrees
    <3>2. B.skipped # << >> /\ B.skipped[1] = A.skipped[1]
      BY <1>10, <2>2, FirstSkipped DEF Advances
    <3> QED BY <3>1, <3>2 DEF Agrees
  <2> QED BY <2>1, <2>2
<1>13. Good(Effect(draft, op))
  BY <1>1, EffectGood
<1>14. ASSUME NEW kind \in Kinds PROVE Known(from, more, kind, DOMAIN Effect(draft, op)[kind])
  <2>1. DOMAIN Effect(draft, op)[kind] \subseteq
          DOMAIN draft[kind] \cup (IF Adds(op) /\ kind = RowKind(op) THEN {op.id} ELSE {})
    BY <1>1, GoodParts, EffectRows
  <2>2. Known(from, more, kind, DOMAIN draft[kind])
    BY <1>4
  <2> QED BY <2>1, <2>2, <1>5 DEF Known
<1>15. RecordFine(Append(ops, x))
  BY <1>1, <1>2, RecordMore
<1> QED BY <1>1, <1>2, <1>12, <1>13, <1>14, <1>15, <1>o, <1>p DEF Previewed

\* A new session, on a good graph, shows that graph.
LEMMA HostPreviewed ==
    ASSUME NEW g, Good(g), Numbered(g)
    PROVE  Previewed(g, << >>, << >>, Loaded(g))
<1>o. PICK R, h, m : /\ R = Resolved(g, << >>) /\ h = Loaded(g)
                     /\ m = Naming(<< >>, R.bound)
  OBVIOUS
<1>1. R.bound = << >> /\ R.max = [kind \in Kinds |-> MaxId(g[kind])]
  BY <1>o, ResolvedNothing DEF FirstResolved
<1>2. RecordFine(<< >>)
  BY ListedEmpty DEF RecordFine
<1>3. \A kind \in Kinds : R.max[kind] = MaxId(g[kind]) /\ MaxId(g[kind]) \in Nat
  BY <1>1, GreatestIds
<1>4. NamesFine(g, << >>, R.bound, R.max)
  BY <1>1, <1>3, ListedEmpty DEF NamesFine
<1>5. Good(h) /\ h.ms = g.ms /\ h.fs = g.fs /\ h.ts = g.ts
  <2>1. Good(h)
    BY <1>o, KeepsLoaded, KeepsGood
  <2>2. h.ms = g.ms /\ h.fs = g.fs /\ h.ts = g.ts
    BY <1>o, GoodParts DEF Loaded, Keyed, GraphFields
  <2> QED BY <2>1, <2>2
<1>6. \A kind \in Kinds : h[kind] = g[kind]
  BY <1>5 DEF Kinds
<1>7. \A kind \in Kinds : Known(g, << >>, kind, DOMAIN h[kind])
  BY <1>6 DEF Known, Numbered
<1>8. ASSUME NEW kind \in Kinds, NEW i \in Nat PROVE m[kind][i] = i
  <2>1. m[kind][i] = NameOf(<< >>, << >>, kind, i)
    BY <1>o, <1>1 DEF Naming
  <2>2. NamedBy(<< >>, << >>, kind, i, NameOf(<< >>, << >>, kind, i))
    BY ListedEmpty, NameIs
  <2> QED BY <2>1, <2>2 DEF NamedBy
<1>9. /\ \A i \in DOMAIN g.ms : m.ms[i] = i
      /\ \A i \in DOMAIN g.fs : m.fs[i] = i
      /\ \A i \in DOMAIN g.ts : m.ts[i] = i
  <2>1. /\ DOMAIN g["ms"] \subseteq Nat /\ DOMAIN g["fs"] \subseteq Nat
        /\ DOMAIN g["ts"] \subseteq Nat
    BY DEF Numbered, Kinds
  <2>2. /\ \A i \in DOMAIN g["ms"] : m["ms"][i] = i
        /\ \A i \in DOMAIN g["fs"] : m["fs"][i] = i
        /\ \A i \in DOMAIN g["ts"] : m["ts"][i] = i
    BY <1>8, <2>1 DEF Kinds
  <2> QED BY <2>2
<1>10. \A f, D : (\A i \in D : f[i] = i) => Under(f, D) = D
  BY DEF Under
<1>11. Closed(DOMAIN g.ms, g.fs, g.ts) /\ Table(g.fs, FeatureFields) /\ Table(g.ts, TaskFields)
  BY GoodParts
<1>12. TableRenamed(g.fs, g.fs, FeatureFields, "milestone", m.ms, m.fs)
  <2>1. ASSUME NEW i \in DOMAIN g.fs
        PROVE  RowRenamed(g.fs[i], g.fs[m.fs[i]], FeatureFields, "milestone", m.ms, m.fs)
    <3>1. m.fs[i] = i /\ Keyed(g.fs[i], FeatureFields)
      BY <1>9, <1>11 DEF Table
    <3>2. m.ms[g.fs[i].milestone] = g.fs[i].milestone
      BY <1>9, <1>11 DEF Closed
    <3>3. Under(m.fs, g.fs[i].deps) = g.fs[i].deps
      BY <1>9, <1>10, <1>11 DEF Closed
    <3> QED BY <3>1, <3>2, <3>3 DEF RowRenamed
  <2>2. DOMAIN g.fs = Under(m.fs, DOMAIN g.fs)
    BY <1>9, <1>10
  <2> QED BY <2>1, <2>2 DEF TableRenamed
<1>13. TableRenamed(g.ts, g.ts, TaskFields, "feature", m.fs, m.ts)
  <2>1. ASSUME NEW i \in DOMAIN g.ts
        PROVE  RowRenamed(g.ts[i], g.ts[m.ts[i]], TaskFields, "feature", m.fs, m.ts)
    <3>1. m.ts[i] = i /\ Keyed(g.ts[i], TaskFields)
      BY <1>9, <1>11 DEF Table
    <3>2. m.fs[g.ts[i].feature] = g.ts[i].feature
      BY <1>9, <1>11 DEF Closed
    <3>3. Under(m.ts, g.ts[i].deps) = g.ts[i].deps
      BY <1>9, <1>10, <1>11 DEF Closed
    <3> QED BY <3>1, <3>2, <3>3 DEF RowRenamed
  <2>2. DOMAIN g.ts = Under(m.ts, DOMAIN g.ts)
    BY <1>9, <1>10
  <2> QED BY <2>1, <2>2 DEF TableRenamed
<1>14. GraphRenamed(h, g, m)
  BY <1>5, <1>9, <1>10, <1>12, <1>13 DEF GraphRenamed
<1>15. Agrees(h, InFull(g, << >>), m)
  <2>1. Applied(g, << >>, 0) = FirstAcc(g, R)
    BY <1>o, AppliedSteps DEF Applying
  <2>2. Len(<< >>) = 0
    OBVIOUS
  <2> QED BY <1>14, <2>1, <2>2 DEF InFull, FirstAcc, Agrees
<1> QED BY <1>2, <1>4, <1>5, <1>7, <1>15, <1>o DEF Previewed

\* Counting a task shows in no row.
LEMMA PreviewCounted ==
    ASSUME NEW from, NEW ops, NEW names, NEW draft, Previewed(from, ops, names, draft),
           NEW n
    PROVE  Previewed(from, ops, names, [draft EXCEPT !.counter = n])
<1>o. PICK h : h = [draft EXCEPT !.counter = n]
  OBVIOUS
<1>1. Good(draft)
  BY DEF Previewed
<1>2. h.ms = draft.ms /\ h.fs = draft.fs /\ h.ts = draft.ts
  BY <1>1, <1>o, GoodParts DEF Keyed, GraphFields
<1>3. Good(h)
  BY <1>1, <1>o, KeepsCounter, KeepsGood DEF Good
<1>4. \A kind \in Kinds : h[kind] = draft[kind]
  BY <1>2 DEF Kinds
<1>5. \A k, m : GraphRenamed(draft, k, m) => GraphRenamed(h, k, m)
  BY <1>2 DEF GraphRenamed
<1>6. \A a, m : Agrees(draft, a, m) => Agrees(h, a, m)
  BY <1>5 DEF Agrees
<1> QED BY <1>3, <1>4, <1>6, <1>o DEF Previewed

\* An edit that is not recorded changes nothing.
LEMMA SilentSame ==
    ASSUME NEW g, Good(g), NEW op, Silent(g, op), Accepts(g, op)
    PROVE  ~ Adds(op) /\ Counted(g, op) = g /\ Effect(g, op) = g
<1>1. op.kind = "edit_feature" /\ g.fs[op.id].text = op.val
  BY DEF Silent
<1>2. ~ Adds(op) /\ Counted(g, op) = g /\ Effect(g, op) = EditFeature(g, op.id, op.val)
  BY <1>1 DEF Adds, Counted, Effect, Links, Unlinks
<1>3. op.id \in DOMAIN g.fs
  BY <1>1 DEF Accepts, Links, Unlinks
<1>o. PICK fs, r, f : fs = g.fs /\ f = op.id /\ r = fs[f]
  OBVIOUS
<1>4. Keyed(g, GraphFields) /\ Keyed(fs, DOMAIN fs) /\ Keyed(r, FeatureFields)
  BY <1>3, <1>o, GoodParts DEF Table
<1>5. [r EXCEPT !.text = op.val] = r
  BY <1>1, <1>4, <1>o DEF Keyed, FeatureFields
<1>6. [fs EXCEPT ![f] = r] = fs
  BY <1>4, <1>o DEF Keyed
<1>7. EditFeature(g, f, op.val) = [g EXCEPT !.fs = [fs EXCEPT ![f] = [r EXCEPT !.text = op.val]]]
  BY <1>o DEF EditFeature
<1>8. [g EXCEPT !.fs = fs] = g
  BY <1>4, <1>o DEF Keyed, GraphFields
<1> QED BY <1>2, <1>5, <1>6, <1>7, <1>8, <1>o

----------------------------------------------------------------------------
(* The draft and the graph that results *)

\* A row under other names is the row with its owner and what it depends on
\* replaced.
LEMMA RowWrittenAs ==
    ASSUME NEW r, NEW q, NEW fields, NEW own \in fields, own # "deps", "deps" \in fields,
           NEW fo, NEW fr, RowRenamed(r, q, fields, own, fo, fr)
    PROVE  [r EXCEPT ![own] = fo[r[own]], !.deps = Under(fr, r.deps)] = q
<1>o. PICK o, D, s : /\ o = fo[r[own]] /\ D = Under(fr, r.deps)
                     /\ s = [r EXCEPT ![own] = o, !.deps = D]
  OBVIOUS
<1>1. /\ Keyed(r, fields) /\ Keyed(q, fields)
      /\ q[own] = o /\ q.deps = D
      /\ \A x \in fields \ {own, "deps"} : q[x] = r[x]
  BY <1>o DEF RowRenamed
<1>2. DOMAIN s = fields /\ s = [x \in fields |-> s[x]]
  BY <1>o, <1>1 DEF Keyed
<1>3. s[own] = o /\ s.deps = D /\ \A x \in fields \ {own, "deps"} : s[x] = r[x]
  BY <1>o, <1>1 DEF Keyed
<1>4. \A x \in fields : s[x] = q[x]
  BY <1>1, <1>3
<1>5. s = q
  BY <1>1, <1>2, <1>4 DEF Keyed
<1> QED BY <1>5, <1>o

\* The row that a name stands for.
LEMMA NamedRow ==
    ASSUME NEW f, NEW D, Injective(f, D), NEW i \in D,
           NEW names, NEW bound, NEW kind,
           \A k \in D : NameOf(names, bound, kind, k) = f[k]
    PROVE  (CHOOSE k \in D : NameOf(names, bound, kind, k) = f[i]) = i
<1>1. \A k \in D : NameOf(names, bound, kind, k) = f[i] => k = i
  BY DEF Injective
<1>2. NameOf(names, bound, kind, i) = f[i]
  OBVIOUS
<1> QED BY <1>1, <1>2

\* The parts of a graph under the names of its record.
NamedRows(rows, names, bound, kind) ==
    [j \in {NameOf(names, bound, kind, i) : i \in DOMAIN rows} |->
        rows[CHOOSE i \in DOMAIN rows : NameOf(names, bound, kind, i) = j]]
NamedTable(rows, names, bound, kind, own, other) ==
    [j \in {NameOf(names, bound, kind, i) : i \in DOMAIN rows} |->
        LET r == rows[CHOOSE i \in DOMAIN rows : NameOf(names, bound, kind, i) = j]
        IN [r EXCEPT ![own] = NameOf(names, bound, other, r[own]),
                     !.deps = {NameOf(names, bound, kind, d) : d \in r.deps}]]
NamedEdges(edges, names, bound, kind) ==
    {<< NameOf(names, bound, kind, e[1]), NameOf(names, bound, kind, e[2]) >> : e \in edges}

\* Renamed has these parts.
LEMMA RenamedParts ==
    ASSUME NEW g, NEW names, NEW bound
    PROVE  Renamed(g, names, bound) =
             [ms |-> NamedRows(g.ms, names, bound, "ms"),
              fs |-> NamedTable(g.fs, names, bound, "fs", "milestone", "ms"),
              ts |-> NamedTable(g.ts, names, bound, "ts", "feature", "fs"),
              fsucc |-> NamedEdges(g.fsucc, names, bound, "fs"),
              tsucc |-> NamedEdges(g.tsucc, names, bound, "ts")]
BY DEF Renamed, NamedRows, NamedTable, NamedEdges

\* A table renamed row by row is the table under the other names.
LEMMA TablePlain ==
    ASSUME NEW a, NEW b, NEW fields, NEW own \in fields, own # "deps", "deps" \in fields,
           NEW fo, NEW fr, TableRenamed(a, b, fields, own, fo, fr),
           Injective(fr, DOMAIN a), Keyed(b, DOMAIN b),
           NEW names, NEW bound, NEW kind, NEW other,
           \A i \in DOMAIN a : /\ NameOf(names, bound, kind, i) = fr[i]
                               /\ NameOf(names, bound, other, a[i][own]) = fo[a[i][own]]
                               /\ a[i].deps \subseteq DOMAIN a
    PROVE  NamedTable(a, names, bound, kind, own, other) = b
<1> DEFINE as(r) == [r EXCEPT ![own] = NameOf(names, bound, other, r[own]),
                              !.deps = {NameOf(names, bound, kind, d) : d \in r.deps}]
           place(j) == CHOOSE i \in DOMAIN a : NameOf(names, bound, kind, i) = j
<1>1. {NameOf(names, bound, kind, i) : i \in DOMAIN a} = DOMAIN b
  BY DEF TableRenamed, Under
<1>2. ASSUME NEW i \in DOMAIN a PROVE as(a[i]) = b[fr[i]]
  <2>o. PICK r : r = a[i]
    OBVIOUS
  <2>1. [r EXCEPT ![own] = fo[r[own]], !.deps = Under(fr, r.deps)] = b[fr[i]]
    BY <2>o, RowWrittenAs DEF TableRenamed
  <2>2. NameOf(names, bound, other, r[own]) = fo[r[own]]
    BY <2>o
  <2>3. {NameOf(names, bound, kind, d) : d \in r.deps} = Under(fr, r.deps)
    BY <2>o DEF Under
  <2> QED BY <2>1, <2>2, <2>3, <2>o
<1> HIDE DEF as
<1>3. ASSUME NEW j \in DOMAIN b PROVE as(a[place(j)]) = b[j]
  <2>1. PICK i \in DOMAIN a : j = fr[i]
    BY DEF TableRenamed, Under
  <2>2. place(fr[i]) = i
    BY NamedRow
  <2> HIDE DEF place
  <2> QED BY <1>2, <2>1, <2>2
<1>4. NamedTable(a, names, bound, kind, own, other) =
        [j \in {NameOf(names, bound, kind, i) : i \in DOMAIN a} |-> as(a[place(j)])]
  BY DEF NamedTable, as
<1> HIDE DEF place
<1> QED BY <1>1, <1>3, <1>4 DEF Keyed

\* Under names that tell its rows apart, the draft that the record gives is
\* the graph it gives, column by column.
LEMMA PreviewPlain ==
    ASSUME NEW g, Good(g), NEW h, Good(h), NEW names, NEW bound,
           GraphRenamed(g, h, Naming(names, bound)), Tells(g, Naming(names, bound)),
           \A kind \in Kinds : DOMAIN g[kind] \subseteq Nat
    PROVE  Plain(h) = Renamed(g, names, bound)
<1>o. PICK m, R : m = Naming(names, bound) /\ R = Renamed(g, names, bound)
  OBVIOUS
<1>1. /\ "ms" \in Kinds /\ "fs" \in Kinds /\ "ts" \in Kinds
  BY DEF Kinds
<1>2. /\ \A i \in DOMAIN g.ms : NameOf(names, bound, "ms", i) = m.ms[i]
      /\ \A i \in DOMAIN g.fs : NameOf(names, bound, "fs", i) = m.fs[i]
      /\ \A i \in DOMAIN g.ts : NameOf(names, bound, "ts", i) = m.ts[i]
  <2>1. \A kind \in Kinds : \A i \in Nat : m[kind][i] = NameOf(names, bound, kind, i)
    BY <1>o DEF Naming
  <2>2. DOMAIN g.ms \subseteq Nat /\ DOMAIN g.fs \subseteq Nat /\ DOMAIN g.ts \subseteq Nat
    BY <1>1
  <2> QED BY <1>1, <2>1, <2>2
<1>3. /\ Injective(m.ms, DOMAIN g.ms)
      /\ Injective(m.fs, DOMAIN g.fs)
      /\ Injective(m.ts, DOMAIN g.ts)
  BY <1>o, <1>1 DEF Tells
<1>4. /\ DOMAIN h.ms = Under(m.ms, DOMAIN g.ms)
      /\ \A i \in DOMAIN g.ms : h.ms[m.ms[i]] = g.ms[i]
      /\ TableRenamed(g.fs, h.fs, FeatureFields, "milestone", m.ms, m.fs)
      /\ TableRenamed(g.ts, h.ts, TaskFields, "feature", m.fs, m.ts)
  BY <1>o DEF GraphRenamed
<1>5. Keyed(h.ms, DOMAIN h.ms) /\ Keyed(h.fs, DOMAIN h.fs) /\ Keyed(h.ts, DOMAIN h.ts)
  BY GoodParts DEF Table
<1>6. Closed(DOMAIN g.ms, g.fs, g.ts)
  BY GoodParts
<1>r. R = [ms |-> NamedRows(g.ms, names, bound, "ms"),
           fs |-> NamedTable(g.fs, names, bound, "fs", "milestone", "ms"),
           ts |-> NamedTable(g.ts, names, bound, "ts", "feature", "fs"),
           fsucc |-> NamedEdges(g.fsucc, names, bound, "fs"),
           tsucc |-> NamedEdges(g.tsucc, names, bound, "ts")]
  BY <1>o, RenamedParts
<1>7. NamedRows(g.ms, names, bound, "ms") = h.ms
  <2> DEFINE place(j) == CHOOSE i \in DOMAIN g.ms : NameOf(names, bound, "ms", i) = j
  <2>1. DOMAIN h.ms = {NameOf(names, bound, "ms", i) : i \in DOMAIN g.ms}
    BY <1>2, <1>4 DEF Under
  <2>2. ASSUME NEW j \in DOMAIN h.ms PROVE g.ms[place(j)] = h.ms[j]
    <3>1. PICK i \in DOMAIN g.ms : j = m.ms[i]
      BY <1>4 DEF Under
    <3>2. place(m.ms[i]) = i
      <4>1. PICK f, D : f = m.ms /\ D = DOMAIN g.ms
        OBVIOUS
      <4>2. (CHOOSE k \in D : NameOf(names, bound, "ms", k) = f[i]) = i
        BY <1>2, <1>3, <4>1, NamedRow
      <4> QED BY <4>1, <4>2
    <3> HIDE DEF place
    <3> QED BY <1>4, <3>1, <3>2
  <2>3. NamedRows(g.ms, names, bound, "ms") =
          [j \in {NameOf(names, bound, "ms", i) : i \in DOMAIN g.ms} |-> g.ms[place(j)]]
    BY DEF NamedRows
  <2> HIDE DEF place
  <2> QED BY <1>5, <2>1, <2>2, <2>3 DEF Keyed
<1>8. NamedTable(g.fs, names, bound, "fs", "milestone", "ms") = h.fs
  <2>o. PICK a, b : a = g.fs /\ b = h.fs
    OBVIOUS
  <2>1. \A i \in DOMAIN a : /\ NameOf(names, bound, "fs", i) = m.fs[i]
                            /\ NameOf(names, bound, "ms", a[i].milestone) = m.ms[a[i].milestone]
                            /\ a[i].deps \subseteq DOMAIN a
    BY <1>2, <1>6, <2>o DEF Closed
  <2>2. "milestone" \in FeatureFields /\ "deps" \in FeatureFields
    BY DEF FeatureFields
  <2>3. /\ TableRenamed(a, b, FeatureFields, "milestone", m.ms, m.fs)
        /\ Injective(m.fs, DOMAIN a) /\ Keyed(b, DOMAIN b)
    BY <1>3, <1>4, <1>5, <2>o
  <2>4. NamedTable(a, names, bound, "fs", "milestone", "ms") = b
    BY <2>1, <2>2, <2>3, TablePlain
  <2> QED BY <2>o, <2>4
<1>9. NamedTable(g.ts, names, bound, "ts", "feature", "fs") = h.ts
  <2>o. PICK a, b : a = g.ts /\ b = h.ts
    OBVIOUS
  <2>1. \A i \in DOMAIN a : /\ NameOf(names, bound, "ts", i) = m.ts[i]
                            /\ NameOf(names, bound, "fs", a[i].feature) = m.fs[a[i].feature]
                            /\ a[i].deps \subseteq DOMAIN a
    BY <1>2, <1>6, <2>o DEF Closed
  <2>2. "feature" \in TaskFields /\ "deps" \in TaskFields
    BY DEF TaskFields
  <2>3. /\ TableRenamed(a, b, TaskFields, "feature", m.fs, m.ts)
        /\ Injective(m.ts, DOMAIN a) /\ Keyed(b, DOMAIN b)
    BY <1>3, <1>4, <1>5, <2>o
  <2>4. NamedTable(a, names, bound, "ts", "feature", "fs") = b
    BY <2>1, <2>2, <2>3, TablePlain
  <2> QED BY <2>o, <2>4
<1>10. ASSUME NEW e \in g.fsucc PROVE e[1] \in DOMAIN g.fs /\ e[2] \in DOMAIN g.fs
  <2>1. PICK i \in DOMAIN g.fs : \E d \in g.fs[i].deps : e = << d, i >>
    BY GoodParts DEF Pairs
  <2> QED BY <1>6, <2>1 DEF Closed
<1>11. ASSUME NEW e \in g.tsucc PROVE e[1] \in DOMAIN g.ts /\ e[2] \in DOMAIN g.ts
  <2>1. PICK i \in DOMAIN g.ts : \E d \in g.ts[i].deps : e = << d, i >>
    BY GoodParts DEF Pairs
  <2> QED BY <1>6, <2>1 DEF Closed
<1>12. NamedEdges(g.fsucc, names, bound, "fs") = h.fsucc
  <2>1. h.fsucc = Ends(m.fs, g.fsucc)
    <3>1. Pairs(h.fs) = Ends(m.fs, Pairs(g.fs))
      BY <1>4, EdgesRenamed
    <3> QED BY <3>1, GoodParts
  <2> QED BY <1>2, <1>10, <2>1 DEF Ends, NamedEdges
<1>13. NamedEdges(g.tsucc, names, bound, "ts") = h.tsucc
  <2>1. h.tsucc = Ends(m.ts, g.tsucc)
    <3>1. Pairs(h.ts) = Ends(m.ts, Pairs(g.ts))
      BY <1>4, EdgesRenamed
    <3> QED BY <3>1, GoodParts
  <2> QED BY <1>2, <1>11, <2>1 DEF Ends, NamedEdges
<1> QED BY <1>r, <1>7, <1>8, <1>9, <1>12, <1>13, <1>o DEF Plain

----------------------------------------------------------------------------
(* What a session records *)

\* The next task of a draft has a number.
LEMMA NextTaskNumber ==
    ASSUME NEW g, Good(g), Numbered(g), g.counter \in Nat
    PROVE  NextTask(g) \in Nat
<1>o. PICK nums : nums = {g.counter} \cup DOMAIN g.ts
  OBVIOUS
<1>1. DOMAIN g.ts \subseteq Nat
  BY DEF Numbered, Kinds
<1>2. IsFiniteSet(DOMAIN g.ts)
  BY GoodParts DEF Table
<1>3. nums \in SUBSET Nat /\ nums # {} /\ IsFiniteSet(nums)
  BY <1>1, <1>2, <1>o, FS_Singleton, FS_Union
<1>4. Max(nums) \in Nat
  BY <1>3, GreatestNumber
<1> QED BY <1>4, <1>o DEF NextTask

\* What a session may record names its rows by numbers.
LEMMA OpsNumbered ==
    ASSUME NEW g, Good(g), Numbered(g), g.counter \in Nat,
           NEW op \in ProjectOps(g) \cup FeatureOps(g)
    PROVE  Keyed(op, OpFields) /\ op.id \in Nat /\ op.ref \in Nat
<1>1. \A k, i, r, v : /\ Keyed(Op(k, i, r, v), OpFields)
                      /\ Op(k, i, r, v).id = i /\ Op(k, i, r, v).ref = r
  BY DEF Op, Keyed, OpFields
<1>2. ASSUME NEW kinds, NEW ids \in SUBSET Nat, NEW refs \in SUBSET Nat, NEW vals,
             op \in Pick(kinds, ids, refs, vals)
      PROVE  Keyed(op, OpFields) /\ op.id \in Nat /\ op.ref \in Nat
  <2>1. PICK k \in kinds, i \in ids, r \in refs, v \in vals : op = Op(k, i, r, v)
    BY <1>2 DEF Pick
  <2> QED BY <1>1, <2>1
<1>3. /\ DOMAIN g.ms \in SUBSET Nat /\ DOMAIN g.fs \in SUBSET Nat
      /\ DOMAIN g.ts \in SUBSET Nat /\ {0} \in SUBSET Nat
  BY DEF Numbered, Kinds
<1>4. {MaxId(g.ms) + 1} \in SUBSET Nat /\ {MaxId(g.fs) + 1} \in SUBSET Nat
  <2>1. MaxId(g["ms"]) \in Nat /\ MaxId(g["fs"]) \in Nat
    BY GreatestIds DEF Kinds
  <2> QED BY <2>1
<1>5. {NextTask(g)} \in SUBSET Nat
  BY NextTaskNumber
<1>6. CASE op \in ProjectOps(g)
  <2>1. \E kinds, vals : \E ids, refs \in SUBSET Nat : op \in Pick(kinds, ids, refs, vals)
    BY <1>3, <1>4, <1>6 DEF ProjectOps
  <2> QED BY <1>2, <2>1
<1>7. CASE op \in FeatureOps(g)
  <2>1. \E kinds, vals : \E ids, refs \in SUBSET Nat : op \in Pick(kinds, ids, refs, vals)
    BY <1>3, <1>5, <1>7 DEF FeatureOps
  <2> QED BY <1>2, <2>1
<1> QED BY <1>6, <1>7

\* Counting a task does not change what a draft accepts, and keeps it good.
LEMMA AcceptsCounted ==
    ASSUME NEW draft, Good(draft), NEW op, Accepts(draft, op)
    PROVE  Accepts(Counted(draft, op), op) /\ Good(Counted(draft, op))
<1> DEFINE g == Counted(draft, op)
<1>1. Good(g)
  <2>1. Keeps(draft, g)
    BY KeepsCounter, KeepsItself DEF Counted, Good
  <2> QED BY <2>1, KeepsGood
<1>2. /\ g.ms = draft.ms /\ g.fs = draft.fs /\ g.ts = draft.ts
      /\ g.fsucc = draft.fsucc /\ g.tsucc = draft.tsucc
  BY GoodParts DEF Counted, Keyed, GraphFields
<1>3. \A rows \in {"fs", "ts"} :
        g[rows] = draft[rows] /\ g[Index(rows)] = draft[Index(rows)]
  BY <1>2 DEF Index
<1>4. Links(op) \/ Unlinks(op) => RowKind(op) \in {"fs", "ts"}
  BY DEF RowKind, Links, Unlinks
<1> HIDE DEF g
<1>5. Accepts(g, op)
  BY <1>2, <1>3, <1>4 DEF Accepts, CanCreateMilestone, CanCreateFeature,
     CanCreateTask, CanRemoveTask, CanDepend, CanUndepend, SameFeature
<1> QED BY <1>1, <1>5 DEF g

\* The draft and the record of a session, after one more operation.
LEMMA RecordShows ==
    ASSUME NEW from, NEW ops, NEW names, NEW draft, Previewed(from, ops, names, draft),
           draft.counter \in Nat,
           NEW op \in ProjectOps(draft) \cup FeatureOps(draft), Accepts(draft, op)
    PROVE  /\ Previewed(from,
                        IF Silent(draft, op) THEN ops ELSE Append(ops, AsRecorded(names, op)),
                        NamesWith(names, op), Effect(Counted(draft, op), op))
           /\ Effect(Counted(draft, op), op).counter \in Nat
<1>1. Good(draft) /\ Numbered(draft)
  BY DEF Previewed, Known, Numbered
<1>2. Keyed(op, OpFields) /\ op.id \in Nat /\ op.ref \in Nat
  BY <1>1, OpsNumbered
<1>3. CASE Silent(draft, op)
  <2>1. ~ Adds(op) /\ Counted(draft, op) = draft /\ Effect(draft, op) = draft
    BY <1>1, <1>3, SilentSame
  <2>2. NamesWith(names, op) = names
    BY <2>1 DEF NamesWith
  <2> QED BY <1>3, <2>1, <2>2
<1>4. CASE ~ Silent(draft, op)
  <2>1. PICK g : g = Counted(draft, op)
    OBVIOUS
  <2>2. Previewed(from, ops, names, g) /\ g.counter \in Nat
    <3>1. CASE op.kind = "add_task"
      <4>1. g = [draft EXCEPT !.counter = op.id]
        BY <2>1, <3>1 DEF Counted
      <4>2. g.counter = op.id
        BY <1>1, <4>1, GoodParts DEF Keyed, GraphFields
      <4> QED BY <1>2, <4>1, <4>2, PreviewCounted
    <3>2. CASE op.kind # "add_task"
      BY <2>1, <3>2 DEF Counted
    <3> QED BY <3>1, <3>2
  <2>3. Accepts(g, op) /\ Good(g)
    BY <1>1, <2>1, AcceptsCounted
  <2>4. Previewed(from, Append(ops, AsRecorded(names, op)), NamesWith(names, op),
                  Effect(g, op))
    BY <1>2, <2>2, <2>3, RecordPreviews
  <2>5. Effect(g, op).counter = g.counter
    BY <2>3, GoodParts, EffectRows
  <2> QED BY <1>4, <2>1, <2>2, <2>4, <2>5
<1> QED BY <1>3, <1>4

----------------------------------------------------------------------------
(* Running the work keeps the structure of the graph *)

\* A row of a feature, or of a task, of which only what running it changes is
\* written.
RunsFeature(r, q) ==
    /\ Keyed(r, FeatureFields)
    /\ r.milestone = q.milestone /\ r.order = q.order
    /\ r.deps = q.deps /\ r.text = q.text
RunsTask(r, q) ==
    /\ Keyed(r, TaskFields)
    /\ r.feature = q.feature /\ r.order = q.order
    /\ r.deps = q.deps /\ r.weight = q.weight

\* The row of a feature is written so; a feature that is not there is not
\* written.
LEMMA FeatureRun ==
    ASSUME NEW fs, Table(fs, FeatureFields), NEW f, NEW r,
           f \in DOMAIN fs => RunsFeature(r, fs[f])
    PROVE  LET new == [fs EXCEPT ![f] = r]
           IN  Table(new, FeatureFields) /\ SameFeatures(new, fs)
<1> DEFINE new == [fs EXCEPT ![f] = r]
<1>1. CASE f \in DOMAIN fs
  <2>1. /\ DOMAIN new = DOMAIN fs /\ new[f] = r /\ Keyed(new, DOMAIN new)
        /\ \A k \in DOMAIN fs : k # f => new[k] = fs[k]
    BY <1>1 DEF Keyed
  <2> HIDE DEF new
  <2>2. Table(new, FeatureFields)
    BY <1>1, <2>1 DEF Table, RunsFeature
  <2>3. SameFeatures(new, fs)
    BY <1>1, <2>1 DEF SameFeatures, SameFeatureRefs, RunsFeature
  <2> QED BY <2>2, <2>3 DEF new
<1>2. CASE f \notin DOMAIN fs
  <2>1. new = fs
    BY <1>2 DEF Table, Keyed
  <2>2. Table(fs, FeatureFields) /\ SameFeatures(fs, fs)
    BY DEF SameFeatures, SameFeatureRefs
  <2> QED BY <2>1, <2>2
<1> QED BY <1>1, <1>2

\* The same for the row of a task.
LEMMA TaskRun ==
    ASSUME NEW ts, Table(ts, TaskFields), NEW t, NEW r,
           t \in DOMAIN ts => RunsTask(r, ts[t])
    PROVE  LET new == [ts EXCEPT ![t] = r]
           IN  Table(new, TaskFields) /\ SameTasks(new, ts)
<1> DEFINE new == [ts EXCEPT ![t] = r]
<1>1. CASE t \in DOMAIN ts
  <2>1. /\ DOMAIN new = DOMAIN ts /\ new[t] = r /\ Keyed(new, DOMAIN new)
        /\ \A k \in DOMAIN ts : k # t => new[k] = ts[k]
    BY <1>1 DEF Keyed
  <2> HIDE DEF new
  <2>2. Table(new, TaskFields)
    BY <1>1, <2>1 DEF Table, RunsTask
  <2>3. SameTasks(new, ts)
    BY <1>1, <2>1 DEF SameTasks, SameTaskRefs, RunsTask
  <2> QED BY <2>2, <2>3 DEF new
<1>2. CASE t \notin DOMAIN ts
  <2>1. new = ts
    BY <1>2 DEF Table, Keyed
  <2>2. Table(ts, TaskFields) /\ SameTasks(ts, ts)
    BY DEF SameTasks, SameTaskRefs
  <2> QED BY <2>1, <2>2
<1> QED BY <1>1, <1>2

\* Writing a row of a feature so keeps the structure of the graph.
LEMMA KeepsFeature ==
    ASSUME NEW g, WellFormed(g), NEW f, NEW r,
           f \in DOMAIN g.fs => RunsFeature(r, g.fs[f])
    PROVE  Keeps(g, [g EXCEPT !.fs = [g.fs EXCEPT ![f] = r]])
<1>o. PICK fs : fs = g.fs
  OBVIOUS
<1> DEFINE new == [fs EXCEPT ![f] = r]
<1>1. Table(fs, FeatureFields)
  BY <1>o DEF WellFormed
<1>2. Table(new, FeatureFields) /\ SameFeatures(new, fs)
  BY <1>1, <1>o, FeatureRun
<1> HIDE DEF new
<1>3. Keeps(g, [g EXCEPT !.fs = new])
  BY <1>2, <1>o, KeepsFeatures
<1> QED BY <1>3, <1>o DEF new

\* The same for a task.
LEMMA KeepsTask ==
    ASSUME NEW g, WellFormed(g), NEW t, NEW r,
           t \in DOMAIN g.ts => RunsTask(r, g.ts[t])
    PROVE  Keeps(g, [g EXCEPT !.ts = [g.ts EXCEPT ![t] = r]])
<1>o. PICK ts : ts = g.ts
  OBVIOUS
<1> DEFINE new == [ts EXCEPT ![t] = r]
<1>1. Table(ts, TaskFields)
  BY <1>o DEF WellFormed
<1>2. Table(new, TaskFields) /\ SameTasks(new, ts)
  BY <1>1, <1>o, TaskRun
<1> HIDE DEF new
<1>3. Keeps(g, [g EXCEPT !.ts = new])
  BY <1>2, <1>o, KeepsTasks
<1> QED BY <1>3, <1>o DEF new

\* The status of a task is no part of the structure.
LEMMA KeepsTaskStatus ==
    ASSUME NEW g, WellFormed(g), NEW t, NEW v
    PROVE  Keeps(g, [g EXCEPT !.ts[t].status = v])
<1> DEFINE r == [g.ts[t] EXCEPT !.status = v]
<1>1. t \in DOMAIN g.ts => RunsTask(r, g.ts[t])
  BY DEF WellFormed, Table, Keyed, RunsTask, TaskFields
<1>2. [g EXCEPT !.ts[t].status = v] = [g EXCEPT !.ts = [g.ts EXCEPT ![t] = r]]
  OBVIOUS
<1> HIDE DEF r
<1>3. Keeps(g, [g EXCEPT !.ts = [g.ts EXCEPT ![t] = r]])
  BY <1>1, KeepsTask
<1> QED BY <1>2, <1>3

\* Nor are the columns of a feature that running it changes.
LEMMA KeepsFeatureStatus ==
    ASSUME NEW g, WellFormed(g), NEW f, NEW v
    PROVE  /\ Keeps(g, [g EXCEPT !.fs[f].status = v])
           /\ Keeps(g, [g EXCEPT !.fs[f].work = v])
           /\ Keeps(g, [g EXCEPT !.fs[f].collab = v])
           /\ Keeps(g, [g EXCEPT !.fs[f].blocked = v])
<1> DEFINE r(x) == [g.fs[f] EXCEPT ![x] = v]
           h(x) == [g EXCEPT !.fs = [g.fs EXCEPT ![f] = r(x)]]
<1>1. ASSUME NEW x \in {"status", "work", "collab", "blocked"}
      PROVE  Keeps(g, h(x))
  <2>1. f \in DOMAIN g.fs => RunsFeature(r(x), g.fs[f])
    BY DEF WellFormed, Table, Keyed, RunsFeature, FeatureFields
  <2> HIDE DEF r
  <2> QED BY <2>1, KeepsFeature
<1>2. /\ [g EXCEPT !.fs[f].status = v] = h("status")
      /\ [g EXCEPT !.fs[f].work = v] = h("work")
      /\ [g EXCEPT !.fs[f].collab = v] = h("collab")
      /\ [g EXCEPT !.fs[f].blocked = v] = h("blocked")
  OBVIOUS
<1> HIDE DEF h
<1> QED BY <1>1, <1>2

\* Three of them are written one after the other.
LEMMA KeepsPhase ==
    ASSUME NEW g, WellFormed(g), NEW f, NEW work, NEW status, NEW collab
    PROVE  Keeps(g, [g EXCEPT !.fs[f].work = work, !.fs[f].status = status,
                              !.fs[f].collab = collab])
<1> DEFINE a == [g EXCEPT !.fs[f].work = work]
           b == [a EXCEPT !.fs[f].status = status]
           c == [b EXCEPT !.fs[f].collab = collab]
<1>1. Keeps(g, a)
  BY KeepsFeatureStatus
<1> HIDE DEF a
<1>2. Keeps(a, b)
  <2>1. WellFormed(a)
    BY <1>1 DEF Keeps
  <2> QED BY <2>1, KeepsFeatureStatus
<1> HIDE DEF b
<1>3. Keeps(b, c)
  <2>1. WellFormed(b)
    BY <1>2 DEF Keeps
  <2> QED BY <2>1, KeepsFeatureStatus
<1> HIDE DEF c
<1>4. Keeps(g, c)
  BY <1>1, <1>2, <1>3, KeepsTwice
<1> QED BY <1>4 DEF a, b, c

\* The status of a task and the phase of a feature are written.
LEMMA KeepsTaskAndWork ==
    ASSUME NEW g, WellFormed(g), NEW t, NEW f, NEW v, NEW work
    PROVE  Keeps(g, [g EXCEPT !.ts[t].status = v, !.fs[f].work = work])
<1> DEFINE a == [g EXCEPT !.ts[t].status = v]
           b == [a EXCEPT !.fs[f].work = work]
<1>1. Keeps(g, a)
  BY KeepsTaskStatus
<1> HIDE DEF a
<1>2. Keeps(a, b)
  <2>1. WellFormed(a)
    BY <1>1 DEF Keeps
  <2> QED BY <2>1, KeepsFeatureStatus
<1> HIDE DEF b
<1>3. Keeps(g, b)
  BY <1>1, <1>2, KeepsTwice
<1> QED BY <1>3 DEF a, b

\* Cancelling a feature keeps the structure: its rows remain.
LEMMA KeepsCancelFeature ==
    ASSUME NEW g, WellFormed(g), NEW f
    PROVE  Keeps(g, CancelFeature(g, f))
<1>o. PICK ts : ts = g.ts
  OBVIOUS
<1> DEFINE a == [g EXCEPT !.fs[f].collab = "cancelled"]
           b == [a EXCEPT !.fs[f].blocked = FALSE]
           new == [t \in DOMAIN ts |->
                     IF ts[t].feature = f /\ ts[t].status # "done"
                        THEN [ts[t] EXCEPT !.status = "cancelled"] ELSE ts[t]]
           c == [b EXCEPT !.ts = new]
<1>1. Keeps(g, a) /\ a.ts = ts
  BY <1>o, KeepsFeatureStatus DEF WellFormed, Keyed, GraphFields
<1>2. CancelFeature(g, f) = c
  BY <1>o DEF CancelFeature
<1> HIDE DEF a
<1>3. Keeps(a, b) /\ b.ts = ts
  <2>1. WellFormed(a)
    BY <1>1 DEF Keeps
  <2>2. Keeps(a, b)
    BY <2>1, KeepsFeatureStatus
  <2> QED BY <1>1, <2>1, <2>2 DEF WellFormed, Keyed, GraphFields
<1> HIDE DEF b
<1>4. Table(new, TaskFields) /\ SameTasks(new, ts)
  <2>1. Table(ts, TaskFields)
    BY <1>o DEF WellFormed
  <2>2. /\ DOMAIN new = DOMAIN ts /\ Keyed(new, DOMAIN new)
        /\ \A t \in DOMAIN ts : RunsTask(new[t], ts[t])
    <3>1. \A t \in DOMAIN ts : /\ RunsTask(ts[t], ts[t])
                               /\ RunsTask([ts[t] EXCEPT !.status = "cancelled"], ts[t])
      BY <2>1 DEF Table, Keyed, RunsTask, TaskFields
    <3> QED BY <3>1 DEF Keyed
  <2> HIDE DEF new
  <2>3. Table(new, TaskFields)
    BY <2>1, <2>2 DEF Table, RunsTask
  <2>4. SameTasks(new, ts)
    BY <2>2 DEF SameTasks, SameTaskRefs, RunsTask
  <2> QED BY <2>3, <2>4
<1> HIDE DEF new
<1>5. Keeps(b, c)
  BY <1>3, <1>4, KeepsTasks DEF Keeps
<1> HIDE DEF c
<1> QED BY <1>1, <1>2, <1>3, <1>5, KeepsTwice

\* Making tasks ready keeps the structure.
LEMMA KeepsPromoted ==
    ASSUME NEW g, WellFormed(g), NEW f, NEW phase, NEW tasks
    PROVE  Keeps(g, PromotedOf(g, f, phase, tasks))
<1>o. PICK ts : ts = g.ts
  OBVIOUS
<1> DEFINE promotes(t) == /\ t \in tasks /\ ts[t].feature = f
                          /\ \/ ts[t].status = "pending"
                             \/ ts[t].status = "stuck" /\ phase = "replan"
                          /\ DependenciesDone(g, t)
           new == [t \in DOMAIN ts |->
                     IF promotes(t) THEN [ts[t] EXCEPT !.status = "ready"] ELSE ts[t]]
<1>1. PromotedOf(g, f, phase, tasks) = [g EXCEPT !.ts = new]
  BY <1>o DEF PromotedOf
<1>2. Table(ts, TaskFields)
  BY <1>o DEF WellFormed
<1> HIDE DEF promotes
<1>3. /\ DOMAIN new = DOMAIN ts /\ Keyed(new, DOMAIN new)
      /\ \A t \in DOMAIN ts : RunsTask(new[t], ts[t])
  <2>1. \A t \in DOMAIN ts : /\ RunsTask(ts[t], ts[t])
                             /\ RunsTask([ts[t] EXCEPT !.status = "ready"], ts[t])
    BY <1>2 DEF Table, Keyed, RunsTask, TaskFields
  <2> QED BY <2>1 DEF Keyed
<1> HIDE DEF new
<1>4. Table(new, TaskFields)
  BY <1>2, <1>3 DEF Table, RunsTask
<1>5. SameTasks(new, ts)
  BY <1>3 DEF SameTasks, SameTaskRefs, RunsTask
<1> QED BY <1>1, <1>4, <1>5, <1>o, KeepsTasks

\* The queue of milestones is no part of the structure.
LEMMA KeepsQueue ==
    ASSUME NEW g, WellFormed(g), NEW m
    PROVE  Keeps(g, QueueMilestone(g, m)) /\ Keeps(g, DequeueMilestone(g, m))
<1>1. ASSUME NEW v PROVE Keeps(g, [g EXCEPT !.ms[m].queued = v])
  <2>o. PICK ms : ms = g.ms
    OBVIOUS
  <2> DEFINE new == [ms EXCEPT ![m].queued = v]
  <2>1. Table(ms, MilestoneFields)
    BY <2>o DEF WellFormed
  <2>2. DOMAIN new = DOMAIN ms /\ Keyed(new, DOMAIN new)
    BY DEF Keyed
  <2>3. \A i \in DOMAIN ms : Keyed(new[i], MilestoneFields)
    BY <2>1 DEF Table, Keyed, MilestoneFields
  <2>4. [g EXCEPT !.ms[m].queued = v] = [g EXCEPT !.ms = new]
    BY <2>o
  <2> HIDE DEF new
  <2>5. Table(new, MilestoneFields)
    BY <2>1, <2>2, <2>3 DEF Table
  <2> QED BY <2>2, <2>4, <2>5, <2>o, KeepsMilestones
<1> QED BY <1>1 DEF QueueMilestone, DequeueMilestone

----------------------------------------------------------------------------
(* The inductive invariant *)

HostFields == {"draft", "ops", "names", "from", "aborted"}

\* A session shows what its record gives.
HostFine(host) ==
    /\ Keyed(host, HostFields)
    /\ Previewed(host.from, host.ops, host.names, host.draft)
    /\ host.draft.counter \in Nat

\* So did the session that left this proposal.
RowFine(payload) == Previewed(payload.from, payload.ops, payload.names, payload.draft)

HasProposal(key) == runs[key].status = "await_approval"

\* A proposal of the project that is still current was submitted against the
\* graph of now.
BaselineKept(key) ==
    LET payload == runs[key].payload IN
    /\ payload.baseline \in Nat
    /\ payload.baseline <= version
    /\ payload.baseline = version => payload.at = Structure(graph)

PlanInv ==
    /\ Good(graph) /\ Numbered(graph)
    /\ version \in Nat
    /\ \A s \in DOMAIN sessions : HostFine(sessions[s])
    /\ \A key \in DOMAIN runs : HasProposal(key) => RowFine(runs[key].payload)
    /\ ~ torn => \A key \in DOMAIN runs :
                    IsProject(key) /\ HasProposal(key) => BaselineKept(key)

\* What a step may do to the graph: keep its structure, or count the change,
\* unless it is cut short.
GraphStep ==
    /\ Good(graph') /\ Numbered(graph')
    /\ version' \in Nat /\ version' >= version
    /\ torn => torn'
    /\ ~ torn' => \/ version' > version
                  \/ Structure(graph') = Structure(graph)

\* What it may do to a session: what it finds in its place is fine.
SessionStep == \A s \in DOMAIN sessions' : HostFine(sessions'[s])

\* What it may do to a row: leave it, take its proposal away, or give it one
\* made against the graph of now.
RowKept(key) == key \in DOMAIN runs /\ runs'[key] = runs[key]
RowSubmits(key) ==
    LET payload == runs'[key].payload IN
    /\ RowFine(payload)
    /\ payload.baseline = version'
    /\ payload.at = Structure(graph')
RowStep ==
    \A key \in DOMAIN runs' :
        RowKept(key) \/ runs'[key].status # "await_approval" \/ RowSubmits(key)

\* What it may do to a proposal of the project: apply it when it is current.
Approves ==
    \A key \in DOMAIN runs :
        ProjectApplied(key) => runs[key].payload.baseline = version

PlanStep == GraphStep /\ SessionStep /\ RowStep /\ Approves

\* Such a step keeps the invariant.  A proposal that is left in its row was
\* made against the graph of now, or at a version that is now past.
LEMMA PlanStepKeepsInv ==
    ASSUME PlanInv, GraphStep, SessionStep, RowStep
    PROVE  PlanInv'
<1>1. /\ Good(graph') /\ Numbered(graph')
      /\ version' \in Nat /\ version \in Nat /\ version' >= version
  BY DEF GraphStep, PlanInv
<1>2. ASSUME NEW key \in DOMAIN runs', HasProposal(key)'
      PROVE  RowFine(runs'[key].payload)
  <2>1. CASE RowKept(key)
    BY <1>2, <2>1 DEF PlanInv, HasProposal, RowKept
  <2>2. CASE RowSubmits(key)
    BY <2>2 DEF RowSubmits
  <2> QED BY <1>2, <2>1, <2>2 DEF RowStep, HasProposal
<1>3. ASSUME ~ torn', NEW key \in DOMAIN runs', IsProject(key), HasProposal(key)'
      PROVE  BaselineKept(key)'
  <2>1. CASE RowKept(key)
    <3>1. ~ torn /\ BaselineKept(key)
      BY <1>3, <2>1 DEF GraphStep, PlanInv, HasProposal, RowKept
    <3>2. \/ version' > version
          \/ Structure(graph') = Structure(graph)
      BY <1>3 DEF GraphStep
    <3> QED BY <1>1, <2>1, <3>1, <3>2 DEF BaselineKept, RowKept
  <2>2. CASE RowSubmits(key)
    BY <1>1, <2>2 DEF RowSubmits, BaselineKept
  <2> QED BY <1>3, <2>1, <2>2 DEF RowStep, HasProposal
<1> QED BY <1>1, <1>2, <1>3 DEF PlanInv, SessionStep

----------------------------------------------------------------------------
(* Parts of a step *)

\* SetRun writes one row.
LEMMA RunsWritten ==
    ASSUME NEW key, NEW status, NEW payload, SetRun(key, status, payload)
    PROVE  /\ DOMAIN runs' = DOMAIN runs \cup {key}
           /\ runs'[key].status = status /\ runs'[key].payload = payload
           /\ \A k \in DOMAIN runs \ {key} : runs'[k] = runs[k]
BY DEF SetRun, Put, Row

\* No row is written.
LEMMA RunsSame ==
    ASSUME UNCHANGED runs
    PROVE  RowStep /\ Approves
BY DEF RowStep, RowKept, Approves, ProjectApplied

\* A row is written that does not wait then; if it is one of the project, it
\* is not completed either.
LEMMA RunsStarted ==
    ASSUME NEW key, NEW status, NEW payload, SetRun(key, status, payload),
           status # "await_approval", IsProject(key) => status # "completed"
    PROVE  RowStep /\ Approves
BY RunsWritten DEF RowStep, RowKept, Approves, ProjectApplied

\* The graph is left alone.
LEMMA GraphSame ==
    ASSUME PlanInv, UNCHANGED << graph, version, torn >>
    PROVE  GraphStep
BY DEF PlanInv, GraphStep

\* Rows keep their numbers with the structure.
LEMMA KeepsNumbered ==
    ASSUME NEW g, Numbered(g), NEW h, Keeps(g, h)
    PROVE  Numbered(h)
<1>1. /\ DOMAIN h.ms = DOMAIN g.ms /\ DOMAIN h.fs = DOMAIN g.fs
      /\ DOMAIN h.ts = DOMAIN g.ts
  <2>1. Structure(h) = Structure(g)
    BY DEF Keeps
  <2>2. \A k : /\ Structure(k).ms = DOMAIN k.ms
               /\ DOMAIN Structure(k).fs = DOMAIN k.fs
               /\ DOMAIN Structure(k).ts = DOMAIN k.ts
    BY DEF Structure
  <2> QED BY <2>1, <2>2
<1> QED BY <1>1 DEF Numbered, Kinds

\* The graph keeps its structure.
LEMMA GraphKept ==
    ASSUME PlanInv, Keeps(graph, graph'), UNCHANGED << version, torn >>
    PROVE  GraphStep
<1>1. Good(graph') /\ Numbered(graph')
  BY KeepsGood, KeepsNumbered DEF PlanInv
<1> QED BY <1>1 DEF PlanInv, GraphStep, Keeps

\* The sessions are left alone.
LEMMA HostsSame ==
    ASSUME PlanInv, UNCHANGED sessions
    PROVE  SessionStep
BY DEF PlanInv, SessionStep

\* Some sessions end.
LEMMA HostsKept ==
    ASSUME PlanInv, NEW domain \in SUBSET DOMAIN sessions, Keep(domain)
    PROVE  SessionStep
BY DEF PlanInv, SessionStep, Keep

\* A new session has a draft that is good, and an empty record that gives it.
LEMMA HostOfGood ==
    ASSUME NEW g, Good(g), Numbered(g)
    PROVE  HostFine(Host(g))
<1>1. Previewed(g, << >>, << >>, Loaded(g))
  BY HostPreviewed
<1>2. Keyed(Host(g), HostFields)
  BY DEF Host, Keyed, HostFields
<1>3. Loaded(g).counter \in Nat
  <2>1. MaxId(g["ts"]) \in Nat
    BY GreatestIds DEF Kinds
  <2>2. Loaded(g).counter = MaxId(g.ts)
    BY GoodParts DEF Loaded, Keyed, GraphFields
  <2> QED BY <2>1, <2>2
<1> QED BY <1>1, <1>2, <1>3 DEF Host, HostFine

\* A session is opened.
LEMMA HostOpened ==
    ASSUME PlanInv, NEW s, NEW g, Good(g), Numbered(g),
           sessions' = Put(sessions, s, Host(g))
    PROVE  SessionStep
BY HostOfGood DEF PlanInv, SessionStep, Put

\* After a restart every session is a new one.
LEMMA HostsRestarted ==
    ASSUME NEW g, Good(g), Numbered(g), sessions' = Restarted(g)
    PROVE  SessionStep
BY HostOfGood DEF SessionStep, Restarted

\* A session that is told to stop keeps its draft.
LEMMA HostAborted ==
    ASSUME NEW host, HostFine(host)
    PROVE  HostFine([host EXCEPT !.aborted = TRUE])
<1>1. PICK new : new = [host EXCEPT !.aborted = TRUE]
  OBVIOUS
<1>2. /\ Keyed(new, HostFields) /\ new.from = host.from /\ new.ops = host.ops
      /\ new.names = host.names /\ new.draft = host.draft
  BY <1>1 DEF HostFine, Keyed, HostFields
<1> QED BY <1>1, <1>2 DEF HostFine

\* Recording an operation the draft accepts keeps the draft good, and what the
\* record gives (tool host, agents/tools/proposal-host.ts).
LEMMA HostRecords ==
    ASSUME NEW host, HostFine(host),
           NEW op \in ProjectOps(host.draft) \cup FeatureOps(host.draft),
           Accepts(host.draft, op)
    PROVE  HostFine(Record(host, op))
<1>o. PICK from, ops, names, draft, new :
        /\ from = host.from /\ ops = host.ops /\ names = host.names
        /\ draft = host.draft /\ new = Record(host, op)
  OBVIOUS
<1> DEFINE more == IF Silent(draft, op) THEN ops ELSE Append(ops, AsRecorded(names, op))
           named == NamesWith(names, op)
           shown == Effect(Counted(draft, op), op)
<1>1. new = [host EXCEPT !.draft = shown, !.ops = more, !.names = named]
  BY <1>o DEF Record, NamesWith, AsRecorded
<1>2. Previewed(from, more, named, shown) /\ shown.counter \in Nat
  BY <1>o, RecordShows DEF HostFine
<1> HIDE DEF more, named, shown
<1>3. /\ Keyed(new, HostFields) /\ new.from = from /\ new.ops = more
      /\ new.names = named /\ new.draft = shown
  BY <1>1, <1>o DEF HostFine, Keyed, HostFields
<1> QED BY <1>2, <1>3, <1>o DEF HostFine

----------------------------------------------------------------------------
(* Each step *)

\* A task is started, a planner is, or a phase passes.
LEMMA DispatchStep ==
    ASSUME PlanInv, Dispatch
    PROVE  PlanStep
<1>w. WellFormed(graph) /\ Good(graph) /\ UNCHANGED << version, torn >>
  BY DEF PlanInv, Good, Dispatch
<1>1. ASSUME NEW t, LaunchTask(t) PROVE PlanStep
  <2>1. Keeps(graph, graph') /\ UNCHANGED << runs, sessions >>
    BY <1>w, <1>1, KeepsTaskStatus DEF LaunchTask
  <2> QED BY <1>w, <2>1, GraphKept, HostsSame, RunsSame DEF PlanStep
<1>2. ASSUME NEW f, LaunchPlanner(f) PROVE PlanStep
  <2> DEFINE key == << PhaseOf(f), f >>
             g == [graph EXCEPT !.fs[f].status = "in_progress"]
  <2>1. /\ graph' = g /\ SetRun(key, "running", Nothing)
        /\ sessions' = Put(sessions, << key, 1 >>, Host(g))
    BY <1>2 DEF LaunchPlanner
  <2>2. Keeps(graph, g)
    BY <1>w, KeepsFeatureStatus
  <2> HIDE DEF g, key
  <2>3. Good(g) /\ Numbered(g)
    BY <1>w, <2>2, KeepsGood, KeepsNumbered DEF PlanInv
  <2>4. GraphStep
    BY <1>w, <2>1, <2>2, GraphKept
  <2>5. SessionStep
    BY <2>1, <2>3, HostOpened
  <2>6. RowStep /\ Approves
    BY <2>1, RunsStarted
  <2> QED BY <2>4, <2>5, <2>6 DEF PlanStep
<1>3. ASSUME NEW f, PassPhase(f) PROVE PlanStep
  <2> DEFINE work == NextWork[graph.fs[f].work]
             collab == IF graph.fs[f].work = "verifying" THEN "merge_queued"
                       ELSE graph.fs[f].collab
             g == [graph EXCEPT !.fs[f].work = work, !.fs[f].status = "pending",
                                !.fs[f].collab = collab]
  <2>1. graph' = g
    BY <1>w, <1>3 DEF PassPhase, WellFormed, Table, Keyed, GraphFields, FeatureFields
  <2> HIDE DEF work, collab
  <2>2. Keeps(graph, g)
    BY <1>w, KeepsPhase
  <2> HIDE DEF g
  <2>3. Keeps(graph, graph') /\ UNCHANGED << runs, sessions >>
    BY <1>3, <2>1, <2>2 DEF PassPhase
  <2> QED BY <1>w, <2>3, GraphKept, HostsSame, RunsSame DEF PlanStep
<1> QED BY <1>1, <1>2, <1>3 DEF Dispatch

\* A task lands or conflicts, a feature lands.
LEMMA WorkStep ==
    ASSUME PlanInv, NEW i, TaskLands(i) \/ TaskConflicts(i) \/ Lands(i)
    PROVE  PlanStep
<1>w. WellFormed(graph)
  BY DEF PlanInv, Good
<1>1. UNCHANGED << version, torn, runs, sessions >>
  BY DEF TaskLands, TaskConflicts, Lands
<1>2. CASE TaskLands(i)
  <2>1. PICK f : f = graph.ts[i].feature
    OBVIOUS
  <2>2. PICK last : last = \A u \in TasksOf(graph, f) \ {i} : graph.ts[u].status = "done"
    OBVIOUS
  <2> DEFINE work == IF graph.fs[f].work = "executing" /\ last THEN "ci_check"
                     ELSE graph.fs[f].work
             g == [graph EXCEPT !.ts[i].status = "done", !.fs[f].work = work]
  <2>3. graph' = g
    BY <1>w, <1>2, <2>1, <2>2
       DEF TaskLands, WellFormed, Keyed, GraphFields
  <2> HIDE DEF work
  <2>4. Keeps(graph, g)
    BY <1>w, KeepsTaskAndWork
  <2> QED BY <1>1, <2>3, <2>4, GraphKept, HostsSame, RunsSame DEF PlanStep
<1>3. CASE TaskConflicts(i)
  <2>1. PICK f : f = graph.ts[i].feature
    OBVIOUS
  <2> DEFINE a == [graph EXCEPT !.ts[i].status = "failed", !.fs[f].work = "replanning"]
             g == [a EXCEPT !.fs[f].status = "pending"]
  <2>2. graph' = g
    BY <1>3, <2>1 DEF TaskConflicts
  <2>3. Keeps(graph, a)
    BY <1>w, KeepsTaskAndWork
  <2> HIDE DEF a
  <2>4. Keeps(a, g)
    <3>1. WellFormed(a)
      BY <2>3 DEF Keeps
    <3> QED BY <3>1, KeepsFeatureStatus
  <2> HIDE DEF g
  <2>5. Keeps(graph, graph')
    BY <2>2, <2>3, <2>4, KeepsTwice
  <2> QED BY <1>1, <2>5, GraphKept, HostsSame, RunsSame DEF PlanStep
<1>4. CASE Lands(i)
  <2> DEFINE a == [graph EXCEPT !.fs[i].collab = "merged"]
             g == [a EXCEPT !.fs[i].work = "summarizing"]
  <2>1. graph' = g
    BY <1>4 DEF Lands
  <2>2. Keeps(graph, a)
    BY <1>w, KeepsFeatureStatus
  <2> HIDE DEF a
  <2>3. Keeps(a, g)
    <3>1. WellFormed(a)
      BY <2>2 DEF Keeps
    <3> QED BY <3>1, KeepsFeatureStatus
  <2> HIDE DEF g
  <2>4. Keeps(graph, graph')
    BY <2>1, <2>2, <2>3, KeepsTwice
  <2> QED BY <1>1, <2>4, GraphKept, HostsSame, RunsSame DEF PlanStep
<1> QED BY <1>2, <1>3, <1>4

\* The user cancels a feature: rows of the project keep their proposals.
LEMMA UserCancelsStep ==
    ASSUME PlanInv, NEW f, UserCancels(f)
    PROVE  PlanStep
<1> DEFINE mine == {key \in DOMAIN runs : ~ IsProject(key) /\ key[2] = f}
<1>1. WellFormed(graph) /\ UNCHANGED << version, torn >>
  BY DEF PlanInv, Good, UserCancels
<1>2. GraphStep
  <2>1. Keeps(graph, graph')
    BY <1>1, KeepsCancelFeature DEF UserCancels
  <2> QED BY <1>1, <2>1, GraphKept
<1>3. /\ DOMAIN runs' = DOMAIN runs
      /\ \A key \in DOMAIN runs :
            IF key \in mine THEN runs'[key].status = "cancelled"
            ELSE runs'[key] = runs[key]
  BY DEF UserCancels, Row
<1>4. \A key \in mine : ~ IsProject(key)
  OBVIOUS
<1>5. SessionStep
  <2>1. /\ DOMAIN sessions' = DOMAIN sessions
        /\ \A s \in DOMAIN sessions :
              sessions'[s] = IF s[1] \in mine THEN [sessions[s] EXCEPT !.aborted = TRUE]
                             ELSE sessions[s]
    BY DEF UserCancels
  <2> HIDE DEF mine
  <2>2. ASSUME NEW s \in DOMAIN sessions
        PROVE  HostFine(sessions[s]) /\ HostFine([sessions[s] EXCEPT !.aborted = TRUE])
    BY HostAborted DEF PlanInv
  <2> QED BY <2>1, <2>2 DEF SessionStep
<1> HIDE DEF mine
<1>6. RowStep /\ Approves
  BY <1>3, <1>4 DEF RowStep, RowKept, Approves, ProjectApplied
<1> QED BY <1>2, <1>5, <1>6 DEF PlanStep

\* The user changes the queue.
LEMMA TogglesMilestoneStep ==
    ASSUME PlanInv, NEW m, TogglesMilestone(m)
    PROVE  PlanStep
<1>1. UNCHANGED << version, runs, sessions, torn >> /\ WellFormed(graph)
  BY DEF TogglesMilestone, PlanInv, Good
<1>2. Keeps(graph, graph')
  BY <1>1, KeepsQueue DEF TogglesMilestone
<1> QED BY <1>1, <1>2, GraphKept, HostsSame, RunsSame DEF PlanStep

\* A session of the project starts or is resumed.
LEMMA ProjectSessionStep ==
    ASSUME PlanInv, StartProject \/ \E key \in DOMAIN runs : ResumeProject(key)
    PROVE  PlanStep
<1>1. UNCHANGED << graph, version, torn >>
  BY DEF StartProject, ResumeProject
<1>2. PICK key, n : SetRun(key, "running", Nothing) /\ Opens(key, n)
  BY DEF StartProject, ResumeProject
<1>3. SessionStep
  BY <1>2, HostOpened DEF Opens, PlanInv
<1>4. RowStep /\ Approves
  BY <1>2, RunsStarted
<1> QED BY <1>1, <1>3, <1>4, GraphSame DEF PlanStep

\* A session of the project is cancelled.
LEMMA CancelProjectStep ==
    ASSUME PlanInv, NEW key \in DOMAIN runs, CancelProject(key)
    PROVE  PlanStep
<1>1. UNCHANGED << graph, version, torn >> /\ SetRun(key, "cancelled", Nothing)
  BY DEF CancelProject
<1>2. SessionStep
  <2>1. /\ DOMAIN sessions' = DOMAIN sessions
        /\ \A s \in DOMAIN sessions :
              sessions'[s] = IF s[1] = key THEN [sessions[s] EXCEPT !.aborted = TRUE]
                             ELSE sessions[s]
    BY DEF CancelProject
  <2>2. ASSUME NEW s \in DOMAIN sessions
        PROVE  HostFine(sessions[s]) /\ HostFine([sessions[s] EXCEPT !.aborted = TRUE])
    BY HostAborted DEF PlanInv
  <2> QED BY <2>1, <2>2 DEF SessionStep
<1>3. RowStep /\ Approves
  BY <1>1, RunsStarted
<1> QED BY <1>1, <1>2, <1>3, GraphSame DEF PlanStep

\* An operation is recorded.
LEMMA RecordOpStep ==
    ASSUME PlanInv, NEW s \in DOMAIN sessions, RecordOp(s)
    PROVE  PlanStep
<1>1. UNCHANGED << graph, version, runs, torn >>
  BY DEF RecordOp
<1>2. PICK op \in ProjectOps(sessions[s].draft) \cup FeatureOps(sessions[s].draft) :
        /\ Accepts(sessions[s].draft, op)
        /\ sessions' = [sessions EXCEPT ![s] = Record(sessions[s], op)]
  BY DEF RecordOp
<1>3. HostFine(Record(sessions[s], op))
  BY <1>2, HostRecords DEF PlanInv
<1>4. SessionStep
  BY <1>2, <1>3 DEF PlanInv, SessionStep
<1> QED BY <1>1, <1>4, GraphSame, RunsSame DEF PlanStep

\* A proposal is submitted, at the version and against the graph of now.
LEMMA SubmitStep ==
    ASSUME PlanInv, NEW s \in DOMAIN sessions, Submit(s)
    PROVE  PlanStep
<1>1. UNCHANGED << graph, version, torn >> /\ Keep(DOMAIN sessions \ {s})
  BY DEF Submit
<1>2. SessionStep
  BY <1>1, HostsKept
<1> DEFINE host == sessions[s]
           payload == [ops |-> host.ops, baseline |-> version, at |-> Structure(graph),
                       names |-> host.names, from |-> host.from, draft |-> host.draft]
<1>3. SetRun(s[1], "await_approval", payload)
  BY DEF Submit
<1>4. /\ payload.ops = host.ops /\ payload.baseline = version
      /\ payload.at = Structure(graph) /\ payload.names = host.names
      /\ payload.from = host.from /\ payload.draft = host.draft
  OBVIOUS
<1> HIDE DEF payload
<1>5. /\ DOMAIN runs' = DOMAIN runs \cup {s[1]}
      /\ runs'[s[1]].status = "await_approval" /\ runs'[s[1]].payload = payload
      /\ \A k \in DOMAIN runs \ {s[1]} : runs'[k] = runs[k]
  BY <1>3, RunsWritten
<1>6. RowSubmits(s[1])
  BY <1>1, <1>4, <1>5 DEF RowSubmits, RowFine, PlanInv, HostFine
<1>7. RowStep /\ Approves
  BY <1>5, <1>6 DEF RowStep, RowKept, Approves, ProjectApplied
<1> QED BY <1>1, <1>2, <1>7, GraphSame DEF PlanStep

\* A session ends without a proposal.
LEMMA SessionErrsStep ==
    ASSUME PlanInv, NEW s \in DOMAIN sessions, SessionErrs(s)
    PROVE  PlanStep
<1>1. UNCHANGED << graph, version, torn >> /\ Keep(DOMAIN sessions \ {s})
  BY DEF SessionErrs
<1>2. SessionStep
  BY <1>1, HostsKept
<1>3. PICK status \in {"retry_await", "failed"} :
        UNCHANGED runs \/ SetRun(s[1], status, Nothing)
  BY DEF SessionErrs
<1>4. RowStep /\ Approves
  BY <1>3, RunsStarted, RunsSame
<1> QED BY <1>1, <1>2, <1>4, GraphSame DEF PlanStep

\* What a proposal gives is good, and the graph itself when nothing is applied.
LEMMA ProposalGood ==
    ASSUME PlanInv, NEW key \in DOMAIN runs, HasProposal(key),
           NEW n \in 0..Len(runs[key].payload.ops)
    PROVE  LET result == Applied(graph, runs[key].payload.ops, n)
           IN /\ Good(result.graph) /\ Numbered(result.graph)
              /\ result.applied = << >> => result.graph = graph
<1>o. PICK ops : ops = runs[key].payload.ops
  OBVIOUS
<1>1. RecordFine(ops)
  BY <1>o DEF PlanInv, RowFine, Previewed
<1>2. Len(ops) \in Nat
  BY <1>1 DEF RecordFine, Listed
<1>3. n \in Nat /\ n \in 0..Len(ops)
  BY <1>2, <1>o
<1>4. /\ Good(Applied(graph, ops, n).graph)
      /\ Applied(graph, ops, n).applied = << >> => Applied(graph, ops, n).graph = graph
  BY <1>3, AppliedGood DEF PlanInv
<1>5. Numbered(Applied(graph, ops, n).graph)
  BY <1>1, <1>3, AppliedNumbered DEF PlanInv
<1> QED BY <1>4, <1>5, <1>o

\* The whole of it is.
LEMMA WholeGood ==
    ASSUME PlanInv, NEW key \in DOMAIN runs, HasProposal(key)
    PROVE  /\ Good(Whole(runs[key].payload).graph)
           /\ Numbered(Whole(runs[key].payload).graph)
           /\ Whole(runs[key].payload).applied = << >> =>
                Whole(runs[key].payload).graph = graph
<1>1. RecordFine(runs[key].payload.ops)
  BY DEF PlanInv, RowFine, Previewed
<1>2. Len(runs[key].payload.ops) \in 0..Len(runs[key].payload.ops)
  BY <1>1 DEF RecordFine, Listed
<1> QED BY <1>2, ProposalGood DEF Whole

\* A proposal of a feature is approved: its changes are counted, unless none
\* was applied, and then the graph keeps its structure.
LEMMA ApproveFeatureStep ==
    ASSUME PlanInv, NEW key \in DOMAIN runs, NEW branch, ApproveFeature(key, branch)
    PROVE  PlanStep
<1> DEFINE f == key[2]
           result == Whole(runs[key].payload)
           g == Promoted(result.graph, f, key[1])
<1>1. UNCHANGED << sessions, torn >> /\ SetRun(key, "completed", Nothing)
  BY DEF ApproveFeature
<1>2. ~ IsProject(key) /\ HasProposal(key)
  BY DEF ApproveFeature, Waiting, HasProposal
<1>3. /\ Good(result.graph) /\ Numbered(result.graph)
      /\ result.applied = << >> => result.graph = graph
  BY <1>2, WholeGood
<1>4. /\ graph' \in {CancelFeature(g, f), Advanced(g, f), g}
      /\ version' = version + Bump(key, result)
  BY DEF ApproveFeature
<1> HIDE DEF result
<1>5. Keeps(result.graph, g)
  BY <1>3, KeepsPromoted DEF Good, Promoted
<1> HIDE DEF g, f
<1>6. Keeps(g, graph')
  <2>1. WellFormed(g)
    BY <1>5 DEF Keeps
  <2>2. Keeps(g, CancelFeature(g, f))
    BY <2>1, KeepsCancelFeature
  <2>3. Keeps(g, Advanced(g, f))
    BY <2>1, KeepsPhase DEF Advanced
  <2> QED BY <1>4, <2>1, <2>2, <2>3, KeepsItself
<1>7. Keeps(result.graph, graph')
  BY <1>5, <1>6, KeepsTwice
<1>8. GraphStep
  <2>1. Good(graph') /\ Numbered(graph')
    BY <1>3, <1>7, KeepsGood, KeepsNumbered
  <2>2. CASE result.applied = << >>
    <3>1. version' = version /\ Structure(graph') = Structure(graph)
      BY <1>3, <1>4, <1>7, <2>2 DEF Keeps, Bump, PlanInv
    <3> QED BY <1>1, <2>1, <3>1 DEF GraphStep, PlanInv
  <2>3. CASE result.applied # << >>
    <3>1. version' = version + 1
      BY <1>4, <2>3 DEF Bump
    <3> QED BY <1>1, <2>1, <3>1 DEF GraphStep, PlanInv
  <2> QED BY <2>2, <2>3
<1>9. RowStep /\ Approves
  BY <1>1, <1>2, RunsStarted
<1> QED BY <1>1, <1>8, <1>9, HostsSame DEF PlanStep

\* A proposal of the project is approved, if it is current.
LEMMA ApproveProjectStep ==
    ASSUME PlanInv, NEW key \in DOMAIN runs, ApproveProject(key)
    PROVE  PlanStep
<1> DEFINE payload == runs[key].payload
           result == Whole(payload)
<1>1. UNCHANGED << sessions, torn >> /\ HasProposal(key)
  BY DEF ApproveProject, Waiting, HasProposal
<1>2. CASE ~ Current(payload)
  <2>1. SetRun(key, "running", Nothing) /\ UNCHANGED << graph, version >>
    BY <1>2 DEF ApproveProject
  <2>2. RowStep /\ Approves
    BY <2>1, RunsStarted
  <2> QED BY <1>1, <2>1, <2>2, GraphSame, HostsSame DEF PlanStep
<1>3. CASE Current(payload)
  <2>1. /\ graph' = result.graph /\ version' = version + Bump(key, result)
        /\ SetRun(key, "completed", Nothing) /\ payload.baseline = version
    BY <1>3 DEF ApproveProject, Current
  <2>2. /\ Good(result.graph) /\ Numbered(result.graph)
        /\ result.applied = << >> => result.graph = graph
    BY <1>1, WholeGood
  <2> HIDE DEF result
  <2>3. GraphStep
    <3>1. CASE result.applied = << >>
      BY <1>1, <2>1, <2>2, <3>1 DEF GraphStep, Bump, PlanInv
    <3>2. CASE result.applied # << >>
      BY <1>1, <2>1, <2>2, <3>2 DEF GraphStep, Bump, PlanInv
    <3> QED BY <3>1, <3>2
  <2>4. RowStep /\ Approves
    <3>1. /\ DOMAIN runs' = DOMAIN runs \cup {key}
          /\ runs'[key].status = "completed"
          /\ \A k \in DOMAIN runs \ {key} : runs'[k] = runs[k]
      BY <2>1, RunsWritten
    <3> QED BY <2>1, <3>1 DEF RowStep, RowKept, Approves, ProjectApplied
  <2> QED BY <1>1, <2>3, <2>4, HostsSame DEF PlanStep
<1> QED BY <1>2, <1>3

\* A proposal is rejected.
LEMMA RejectStep ==
    ASSUME PlanInv, NEW key \in DOMAIN runs, RejectFeature(key) \/ RejectProject(key)
    PROVE  PlanStep
<1>1. UNCHANGED << graph, version, torn, sessions >>
  BY DEF RejectFeature, RejectProject
<1>2. PICK status : /\ SetRun(key, status, Nothing)
                    /\ status # "await_approval"
                    /\ IsProject(key) => status # "completed"
  BY DEF RejectFeature, RejectProject
<1>3. RowStep /\ Approves
  BY <1>2, RunsStarted
<1> QED BY <1>1, <1>3, GraphSame, HostsSame DEF PlanStep

\* A crash keeps the graph and makes its index again.
LEMMA CrashStep ==
    ASSUME PlanInv, Crash
    PROVE  PlanStep
<1>1. /\ UNCHANGED << version, runs, torn >>
      /\ graph' = Loaded(graph) /\ sessions' = Restarted(graph')
  BY DEF Crash
<1>2. Keeps(graph, graph') /\ Good(graph') /\ Numbered(graph')
  BY <1>1, KeepsLoaded, KeepsGood, KeepsNumbered DEF PlanInv
<1>3. SessionStep
  BY <1>1, <1>2, HostsRestarted
<1> QED BY <1>1, <1>2, <1>3, GraphKept, RunsSame DEF PlanStep

\* A crash cuts an approval: it left changes that were not counted (torn), or
\* counted them.
LEMMA CrashInApprovalStep ==
    ASSUME PlanInv, NEW key \in DOMAIN runs, CrashInApproval(key)
    PROVE  PlanStep
<1> DEFINE payload == runs[key].payload
<1>1. UNCHANGED runs /\ sessions' = Restarted(graph')
  BY DEF CrashInApproval
<1>2. PICK n \in 1..Len(payload.ops), bumped \in BOOLEAN :
        /\ graph' = Loaded(Applied(graph, payload.ops, n).graph)
        /\ version' = IF bumped THEN version + 1 ELSE version
        /\ torn' = (torn \/ ~ bumped)
  BY DEF CrashInApproval
<1>3. HasProposal(key) /\ n \in 0..Len(payload.ops)
  BY DEF CrashInApproval, Waiting, HasProposal
<1>4. Good(graph') /\ Numbered(graph')
  <2>o. PICK h : h = Applied(graph, payload.ops, n).graph
    OBVIOUS
  <2>1. Good(h) /\ Numbered(h)
    BY <1>3, <2>o, ProposalGood
  <2> QED BY <1>2, <2>o, <2>1, KeepsLoaded, KeepsGood, KeepsNumbered
<1>5. GraphStep
  <2>1. CASE bumped
    <3>1. version' = version + 1 /\ (torn => torn')
      BY <1>2, <2>1
    <3> QED BY <1>4, <3>1 DEF GraphStep, PlanInv
  <2>2. CASE ~ bumped
    <3>1. version' = version /\ torn'
      BY <1>2, <2>2
    <3> QED BY <1>4, <3>1 DEF GraphStep, PlanInv
  <2> QED BY <2>1, <2>2
<1>6. SessionStep
  BY <1>1, <1>4, HostsRestarted
<1> QED BY <1>1, <1>5, <1>6, RunsSame DEF PlanStep

\* A crash after the version counts what was applied, and keeps the structure
\* it was applied to.
LEMMA CrashAfterApplyingStep ==
    ASSUME PlanInv, NEW key \in DOMAIN runs, CrashAfterApplying(key)
    PROVE  PlanStep
<1>1. UNCHANGED << runs, torn >> /\ sessions' = Restarted(graph')
  BY DEF CrashAfterApplying
<1>2. HasProposal(key)
  BY DEF CrashAfterApplying, Waiting, HasProposal
<1>3. PICK result : result = Whole(runs[key].payload)
  OBVIOUS
<1>4. /\ Good(result.graph) /\ Numbered(result.graph)
      /\ result.applied = << >> => result.graph = graph
  BY <1>2, <1>3, WholeGood
<1>5. version' = version + Bump(key, result)
  BY <1>3 DEF CrashAfterApplying
<1>6. PICK f, g : f = key[2] /\ g = Promoted(result.graph, f, key[1])
  OBVIOUS
<1>7. \/ graph' = Loaded(CancelFeature(g, f))
      \/ \E tasks : graph' = Loaded(PromotedOf(result.graph, f, key[1], tasks))
      \/ \E h \in Advancing(g, f) : graph' = Loaded(h)
  BY <1>3, <1>6 DEF CrashAfterApplying
<1>8. WellFormed(result.graph) /\ Keeps(result.graph, g) /\ WellFormed(g)
  BY <1>4, <1>6, KeepsPromoted DEF Good, Promoted, Keeps
<1>9. ASSUME NEW h, Keeps(g, h) PROVE Keeps(result.graph, h)
  BY <1>8, <1>9, KeepsTwice
<1>10. ASSUME NEW h, Keeps(result.graph, h), graph' = Loaded(h)
       PROVE  Keeps(result.graph, graph')
  <2>1. Good(h)
    BY <1>4, <1>10, KeepsGood
  <2>2. Keeps(h, graph')
    BY <1>10, <2>1, KeepsLoaded
  <2> QED BY <1>10, <2>2, KeepsTwice
<1>11. ASSUME NEW h \in Advancing(g, f) PROVE Keeps(g, h)
  <2>1. CASE h = Advanced(g, f)
    BY <1>8, <2>1, KeepsPhase DEF Advanced
  <2>2. ASSUME NEW s, h = [g EXCEPT !.fs[f].status = s] PROVE Keeps(g, h)
    BY <1>8, <2>2, KeepsFeatureStatus
  <2> QED BY <1>11, <2>1, <2>2 DEF Advancing
<1>12. Keeps(result.graph, graph')
  <2>1. Keeps(g, CancelFeature(g, f))
    BY <1>8, KeepsCancelFeature
  <2>2. \A tasks : Keeps(result.graph, PromotedOf(result.graph, f, key[1], tasks))
    BY <1>8, KeepsPromoted
  <2> QED BY <1>7, <1>9, <1>10, <1>11, <2>1, <2>2
<1>13. Good(graph') /\ Numbered(graph')
  BY <1>4, <1>12, KeepsGood, KeepsNumbered
<1>14. GraphStep
  <2>1. CASE result.applied = << >>
    <3>1. version' = version /\ Structure(graph') = Structure(graph)
      BY <1>4, <1>5, <1>12, <2>1 DEF Keeps, Bump, PlanInv
    <3> QED BY <1>1, <1>13, <3>1 DEF GraphStep, PlanInv
  <2>2. CASE result.applied # << >>
    <3>1. version' = version + 1
      BY <1>5, <2>2 DEF Bump
    <3> QED BY <1>1, <1>13, <3>1 DEF GraphStep, PlanInv
  <2> QED BY <2>1, <2>2
<1>15. SessionStep
  BY <1>1, <1>13, HostsRestarted
<1> QED BY <1>1, <1>14, <1>15, RunsSame DEF PlanStep

----------------------------------------------------------------------------

\* Every step is one of these.
LEMMA PlanNext ==
    ASSUME PlanInv, [NextPlanning]_planVars
    PROVE  PlanStep
<1>1. CASE UNCHANGED planVars
  BY <1>1, GraphSame, HostsSame, RunsSame DEF planVars, PlanStep
<1>2. CASE NextPlanning
  BY <1>2, DispatchStep, WorkStep, UserCancelsStep, TogglesMilestoneStep,
     ProjectSessionStep, CancelProjectStep, RecordOpStep, SubmitStep, SessionErrsStep,
     ApproveFeatureStep, ApproveProjectStep, RejectStep, CrashStep, CrashInApprovalStep,
     CrashAfterApplyingStep
     DEF NextPlanning
<1> QED BY <1>1, <1>2

\* The invariant holds of every graph the program may start from.
LEMMA PlanInit == InitPlanning => PlanInv
<1> SUFFICES ASSUME InitPlanning PROVE PlanInv
  OBVIOUS
<1>1. Good(graph) /\ Numbered(graph)
  BY PlanningConstants DEF InitPlanning, Good
<1> QED BY <1>1 DEF InitPlanning, PlanInv

\* The invariant holds of every graph, proposal, decision and crash.
THEOREM PlanInvariant == SpecPlanning => []PlanInv
<1>1. PlanInv /\ [NextPlanning]_planVars => PlanInv'
  BY PlanNext, PlanStepKeepsInv DEF PlanStep
<1> QED BY <1>1, PlanInit, PTL DEF SpecPlanning

\* The graph and every draft stay acyclic and closed under their references,
\* and their index is that of their edges, for every graph the program starts
\* from and any number of sessions, operations and crashes
\* (graph/validation.ts).
THEOREM GraphAlwaysValid == SpecPlanning => []GraphValid
<1>1. PlanInv => GraphValid
  BY DEF PlanInv, GraphValid, Good, HostFine, Previewed
<1> QED BY <1>1, PlanInvariant, PTL

\* A proposal of the project is applied to the structure it was submitted
\* against, unless a crash cut an approval before (applyProjectProposal):
\* whatever else was approved in between has moved the version.
THEOREM BaselineAlwaysApplied == SpecPlanning => AppliedToItsBaseline
<1> DEFINE A == \A key \in DOMAIN runs :
                  ProjectApplied(key) /\ ~ torn =>
                      Structure(graph) = runs[key].payload.at
<1>1. PlanInv /\ [NextPlanning]_planVars => A
  <2> SUFFICES ASSUME PlanInv, [NextPlanning]_planVars, NEW key \in DOMAIN runs,
                      ProjectApplied(key), ~ torn
               PROVE  Structure(graph) = runs[key].payload.at
    OBVIOUS
  <2>1. runs[key].payload.baseline = version
    BY PlanNext DEF PlanStep, Approves
  <2>2. BaselineKept(key)
    BY DEF PlanInv, ProjectApplied, HasProposal
  <2> QED BY <2>1, <2>2 DEF BaselineKept
<1>2. PlanInv /\ [NextPlanning]_planVars => [A]_planVars
  BY <1>1
<1> HIDE DEF A
<1>3. SpecPlanning => [][A]_planVars
  BY <1>2, PlanInvariant, PTL DEF SpecPlanning
<1> QED BY <1>3 DEF AppliedToItsBaseline, A

\* Applied to the graph its session started from, a proposal gives the draft it
\* showed, up to the names of new rows, or skips first the removal of a feature
\* (proposals/index.ts): whatever was recorded, and whatever happened beside it.
THEOREM PreviewAlwaysApplied == SpecPlanning => []PreviewIsApplied
<1>1. ASSUME PlanInv, NEW key \in DOMAIN runs, runs[key].status = "await_approval",
             runs[key].payload.from = graph
      PROVE  LET p == runs[key].payload
                 result == Whole(p)
             IN IF result.skipped = << >>
                THEN Plain(result.graph) = Renamed(p.draft, p.names, result.bound)
                ELSE result.skipped[1].kind = "remove_feature"
  <2>o. PICK from, ops, names, draft, R, A, m :
          /\ from = runs[key].payload.from /\ ops = runs[key].payload.ops
          /\ names = runs[key].payload.names /\ draft = runs[key].payload.draft
          /\ R = Resolved(from, ops) /\ A = Whole(runs[key].payload)
          /\ m = Naming(names, R.bound)
    OBVIOUS
  <2>1. /\ Good(from) /\ Numbered(from) /\ Good(draft) /\ RecordFine(ops)
        /\ NamesFine(from, names, R.bound, R.max)
        /\ \A kind \in Kinds : Known(from, names, kind, DOMAIN draft[kind])
        /\ Agrees(draft, InFull(from, ops), m)
    BY <1>1, <2>o DEF PlanInv, HasProposal, RowFine, Previewed
  <2>2. A = InFull(from, ops)
    BY <1>1, <2>o DEF Whole, InFull
  <2>3. Len(ops) \in Nat
    BY <2>1 DEF RecordFine, Listed
  <2>4. A.bound = R.bound
    <3>1. PICK acc : Applying(acc, from, ops, Len(ops))
      BY <2>3, AppliedSteps
    <3>2. AccFine(acc[Len(ops)], R.bound)
      BY <2>3, <2>o, <3>1, ApplyingFine
    <3> QED BY <2>2, <3>1, <3>2 DEF Applying, AccFine, InFull
  <2>5. CASE A.skipped = << >>
    <3>1. GraphRenamed(draft, A.graph, m)
      BY <2>1, <2>2, <2>5 DEF Agrees
    <3>2. Good(A.graph)
      BY <2>1, <2>2, <2>3, AppliedGood DEF InFull
    <3>3. Tells(draft, m)
      BY <2>1, <2>o, NamesTell DEF Tells
    <3>4. \A kind \in Kinds : DOMAIN draft[kind] \subseteq Nat
      BY <2>1 DEF Known
    <3>5. Plain(A.graph) = Renamed(draft, names, R.bound)
      BY <2>1, <2>o, <3>1, <3>2, <3>3, <3>4, PreviewPlain
    <3> QED BY <2>o, <2>4, <2>5, <3>5
  <2>6. CASE A.skipped # << >>
    BY <2>1, <2>2, <2>6, <2>o DEF Agrees
  <2> QED BY <2>5, <2>6, <2>o
<1>2. PlanInv => PreviewIsApplied
  BY <1>1 DEF PreviewIsApplied
<1> QED BY <1>2, PlanInvariant, PTL
=============================================================================
