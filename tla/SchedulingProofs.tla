--------------------------- MODULE SchedulingProofs ---------------------------
(***************************************************************************)
(* The order of dispatch: of ready tasks of equal milestone and tier, the  *)
(* one that starts holds up the heaviest chain of remaining work, for any  *)
(* graph, however it was edited.                                           *)
(*                                                                         *)
(* The code adds weights along the edges of a combined graph of nodes; the *)
(* property adds them over chains of dependencies.  Nodes are ordered by   *)
(* NodeBefore, a finite strict order; each edge of the combined graph is   *)
(* in that order, and each pair of the order is an edge or passes through  *)
(* one (Generates).  Over such edges there is one function that adds to    *)
(* the weight of a node the greatest of those of its successors, and the   *)
(* weights of the heaviest chains are one (HeaviestAfter).  A sum over a   *)
(* set takes its members in an order it does not tell; that it is additive *)
(* all the same is shown once (SumIsTotal).                                *)
(*                                                                         *)
(* WeightsInv, beside PlanInv, says that the weights of tasks, and those   *)
(* that recorded operations would give, are weights there are.             *)
(***************************************************************************)
EXTENDS PlanningProofs

----------------------------------------------------------------------------
(* Finite strict orders *)

\* P is a set of pairs, of which those between members of N are an order.
StrictOrder(N, P) ==
    /\ IsFiniteSet(N)
    /\ \A a \in N : << a, a >> \notin P
    /\ \A a, b, c \in N : << a, b >> \in P /\ << b, c >> \in P => << a, c >> \in P

\* What follows a node, within some of them.
Following(P, B, a) == {x \in B : << a, x >> \in P}

\* Some of finitely many nodes have a last one: one that fewest follow.
LEMMA LastOne ==
    ASSUME NEW N, NEW P, StrictOrder(N, P), NEW B \in SUBSET N, B # {}
    PROVE  \E b \in B : \A x \in B : << b, x >> \notin P
<1> DEFINE Tails == {Following(P, B, b) : b \in B}
           R == StrictSubsetOrdering(N)
<1>1. IsWellFoundedOn(R, FiniteSubsetsOf(N))
  BY FS_StrictSubsetOrderingWellFounded
<1>2. \A b \in B : Following(P, B, b) \in SUBSET N
  BY DEF Following
<1>3. Tails \subseteq FiniteSubsetsOf(N)
  BY <1>2, FS_Subset DEF StrictOrder, FiniteSubsetsOf
<1>4. Tails # {}
  OBVIOUS
<1>5. PICK X \in Tails : \A Y \in Tails : << Y, X >> \notin R
  <2> HIDE DEF Tails, R
  <2> QED BY <1>1, <1>3, <1>4, WFMin
<1>6. PICK b \in B : X = Following(P, B, b)
  OBVIOUS
<1>7. ASSUME NEW x \in B, << b, x >> \in P PROVE FALSE
  <2>1. x \in X /\ x \notin Following(P, B, x)
    BY <1>6, <1>7 DEF Following, StrictOrder
  <2>2. Following(P, B, x) \subseteq X
    BY <1>6, <1>7 DEF Following, StrictOrder
  <2>3. << Following(P, B, x), X >> \in R
    BY <1>2, <1>6, <2>1, <2>2 DEF StrictSubsetOrdering
  <2> QED BY <1>5, <2>3
<1> QED BY <1>7

\* They have a first one, too.
LEMMA FirstOne ==
    ASSUME NEW N, NEW P, StrictOrder(N, P), NEW B \in SUBSET N, B # {}
    PROVE  \E b \in B : \A x \in B : << x, b >> \notin P
<1> DEFINE Q == {e \in N \X N : << e[2], e[1] >> \in P}
<1>1. \A a, b \in N : << a, b >> \in Q <=> << b, a >> \in P
  OBVIOUS
<1> HIDE DEF Q
<1>2. StrictOrder(N, Q)
  BY <1>1 DEF StrictOrder
<1>3. PICK b \in B : \A x \in B : << b, x >> \notin Q
  BY <1>2, LastOne
<1> QED BY <1>1, <1>3

----------------------------------------------------------------------------
(* Totals *)

\* T gives the total weight of every part of D.
Additive(T, D, w) ==
    /\ \A s \in SUBSET D : T[s] \in Nat
    /\ T[{}] = 0
    /\ \A s \in SUBSET D : \A x \in D \ s : T[s \cup {x}] = w[x] + T[s]

\* There is a total of finitely many weights: one more node adds its own.
LEMMA TotalExists ==
    ASSUME NEW N, IsFiniteSet(N), NEW w, \A x \in N : w[x] \in Nat
    PROVE  \E T : Additive(T, N, w)
<1> DEFINE Have == {k \in Nat : \A D \in SUBSET N :
                                  Cardinality(D) = k => \E T : Additive(T, D, w)}
<1>1. 0 \in Have
  <2> SUFFICES ASSUME NEW D \in SUBSET N, Cardinality(D) = 0
               PROVE  \E T : Additive(T, D, w)
    OBVIOUS
  <2>1. D = {}
    BY FS_Subset, FS_EmptySet
  <2>2. Additive([s \in {{}} |-> 0], D, w)
    BY <2>1 DEF Additive
  <2> QED BY <2>2
<1>2. ASSUME NEW k \in Nat, k \in Have PROVE k + 1 \in Have
  <2> SUFFICES ASSUME NEW D \in SUBSET N, Cardinality(D) = k + 1
               PROVE  \E T : Additive(T, D, w)
    OBVIOUS
  <2>1. IsFiniteSet(D)
    BY FS_Subset
  <2>2. PICK y : y \in D
    BY FS_EmptySet
  <2>3. Cardinality(D \ {y}) = k
    <3>1. Cardinality(D \ {y}) = Cardinality(D) - 1
      BY <2>1, <2>2, FS_RemoveElement
    <3> QED BY <3>1
  <2>o. PICK C : C = D \ {y}
    OBVIOUS
  <2>4. PICK U : Additive(U, C, w)
    BY <1>2, <2>3, <2>o
  <2> DEFINE T == [s \in SUBSET D |-> IF y \in s THEN w[y] + U[s \ {y}] ELSE U[s]]
  <2>5. \A s \in SUBSET D : s \ {y} \in SUBSET C /\ (y \notin s => s \in SUBSET C)
    BY <2>o
  <2>6. \A s \in SUBSET D : T[s] = IF y \in s THEN w[y] + U[s \ {y}] ELSE U[s]
    OBVIOUS
  <2>7. /\ \A s \in SUBSET C : U[s] \in Nat
        /\ U[{}] = 0
        /\ \A s \in SUBSET C : \A x \in C \ s : U[s \cup {x}] = w[x] + U[s]
    BY <2>4 DEF Additive
  <2>8. w[y] \in Nat /\ \A x \in D : w[x] \in Nat
    BY <2>2
  <2> HIDE DEF T
  <2>9. ASSUME NEW s \in SUBSET D PROVE T[s] \in Nat
    <3>1. CASE y \in s
      <4>1. U[s \ {y}] \in Nat
        BY <2>5, <2>7
      <4>2. T[s] = w[y] + U[s \ {y}]
        BY <2>6, <3>1
      <4> QED BY <2>8, <4>1, <4>2
    <3>2. CASE y \notin s
      BY <2>5, <2>6, <2>7, <3>2
    <3> QED BY <3>1, <3>2
  <2>10. T[{}] = 0
    BY <2>6, <2>7
  <2>11. ASSUME NEW s \in SUBSET D, NEW x \in D \ s PROVE T[s \cup {x}] = w[x] + T[s]
    <3>o. PICK r : r = s \cup {x}
      OBVIOUS
    <3>1. r \in SUBSET D
      BY <3>o
    <3>2. CASE x = y
      <4>1. r \ {y} = s /\ y \in r /\ y \notin s
        BY <3>2, <3>o
      <4> QED BY <2>6, <3>1, <3>2, <3>o, <4>1
    <3>3. CASE x # y /\ y \in s
      <4>o. PICK q : q = s \ {y}
        OBVIOUS
      <4>1. r \ {y} = q \cup {x} /\ x \in C \ q /\ q \in SUBSET C /\ y \in r
        BY <3>3, <3>o, <4>o, <2>o
      <4>2. U[q \cup {x}] = w[x] + U[q] /\ U[q] \in Nat
        BY <2>7, <4>1
      <4>3. T[r] = w[y] + (w[x] + U[q]) /\ T[s] = w[y] + U[q]
        BY <2>6, <3>1, <3>3, <4>o, <4>1, <4>2
      <4> QED BY <2>8, <3>o, <4>2, <4>3
    <3>4. CASE x # y /\ y \notin s
      <4>1. x \in C \ s /\ s \in SUBSET C /\ y \notin r
        BY <3>4, <3>o, <2>o
      <4>2. U[s \cup {x}] = w[x] + U[s]
        BY <2>7, <4>1
      <4> QED BY <2>6, <3>1, <3>4, <3>o, <4>1, <4>2
    <3> QED BY <3>2, <3>3, <3>4
  <2> QED BY <2>9, <2>10, <2>11 DEF Additive
<1>3. Cardinality(N) \in Nat
  BY FS_CardinalityType
<1>4. Cardinality(N) \in Have
  <2>1. Nat \subseteq Have
    <3> HIDE DEF Have
    <3> QED BY <1>1, <1>2, NatSteps
  <2> QED BY <1>3, <2>1
<1> QED BY <1>4

\* The function by which a sum over a set is defined: it takes out one member
\* after another, whichever is chosen.
IsSumming(iter, w, D) ==
    iter = [s \in SUBSET D |->
              IF s = {} THEN 0
              ELSE w[CHOOSE x \in s : TRUE] + iter[s \ {CHOOSE x \in s : TRUE}]]
SumOf(w, D) == (CHOOSE iter : IsSumming(iter, w, D))[D]

\* What it sums is the total.
LEMMA SumIsTotal ==
    ASSUME NEW N, IsFiniteSet(N), NEW w, NEW T, Additive(T, N, w), NEW c \in SUBSET N
    PROVE  SumOf(w, c) = T[c]
<1>1. \A s \in SUBSET c : s # {} =>
         LET x == CHOOSE y \in s : TRUE
         IN  /\ x \in s /\ s \ {x} \in SUBSET c
             /\ T[s] = w[x] + T[s \ {x}]
  <2> SUFFICES ASSUME NEW s \in SUBSET c, s # {}, NEW x, x = CHOOSE y \in s : TRUE
               PROVE  /\ x \in s /\ s \ {x} \in SUBSET c
                      /\ T[s] = w[x] + T[s \ {x}]
    OBVIOUS
  <2>1. x \in s
    OBVIOUS
  <2>o. PICK r : r = s \ {x}
    OBVIOUS
  <2>2. r \in SUBSET N /\ x \in N \ r /\ s = r \cup {x}
    BY <2>1, <2>o
  <2>3. T[r \cup {x}] = w[x] + T[r]
    BY <2>2 DEF Additive
  <2> QED BY <2>1, <2>2, <2>3, <2>o
<1>2. \E iter : IsSumming(iter, w, c)
  <2> DEFINE U == [s \in SUBSET c |-> T[s]]
  <2>1. IsSumming(U, w, c)
    BY <1>1 DEF IsSumming, Additive
  <2> QED BY <2>1
<1>3. PICK iter : IsSumming(iter, w, c) /\ SumOf(w, c) = iter[c]
  BY <1>2 DEF SumOf
<1> DEFINE Bad == {s \in SUBSET c : iter[s] # T[s]}
           R == StrictSubsetOrdering(c)
<1>4. SUFFICES ASSUME Bad # {} PROVE FALSE
  BY <1>3
<1>5. IsWellFoundedOn(R, FiniteSubsetsOf(c))
  BY FS_StrictSubsetOrderingWellFounded
<1>6. Bad \subseteq FiniteSubsetsOf(c)
  <2>1. IsFiniteSet(c)
    BY FS_Subset
  <2> QED BY <2>1, FS_FiniteSubsetsOfFinite
<1>7. PICK s \in Bad : \A r \in Bad : << r, s >> \notin R
  <2> HIDE DEF Bad, R
  <2> QED BY <1>4, <1>5, <1>6, WFMin
<1>8. s # {}
  BY <1>3 DEF IsSumming, Additive
<1>9. PICK x : x = CHOOSE y \in s : TRUE
  OBVIOUS
<1>10. /\ x \in s /\ s \ {x} \in SUBSET c
       /\ T[s] = w[x] + T[s \ {x}]
  BY <1>1, <1>8, <1>9
<1>11. iter[s] = w[x] + iter[s \ {x}]
  BY <1>3, <1>8, <1>9 DEF IsSumming
<1>12. << s \ {x}, s >> \in R
  BY <1>10 DEF StrictSubsetOrdering
<1>13. iter[s \ {x}] = T[s \ {x}]
  BY <1>7, <1>10, <1>12
<1> QED BY <1>10, <1>11, <1>13

\* The sums of the model: of the weights of nodes, and of those of tasks.
NodesWeight(g, c) == LET weigh(n) == NodeWeight(g, n) IN MapThenSumSet(weigh, c)
TasksWeight(g, c) == LET weigh(t) == WeightValue[g.ts[t].weight] IN MapThenSumSet(weigh, c)

\* The sum over some nodes is that function.
LEMMA NodesWeightIs ==
    ASSUME NEW g, NEW c, NEW w, \A x \in c : w[x] = NodeWeight(g, x)
    PROVE  NodesWeight(g, c) = SumOf(w, c)
<1> DEFINE Summing(iter) ==
             iter = [s \in SUBSET c |->
                       IF s = {} THEN 0
                       ELSE NodeWeight(g, CHOOSE x \in s : TRUE)
                              + iter[s \ {CHOOSE x \in s : TRUE}]]
<1>1. NodesWeight(g, c) = (CHOOSE iter : Summing(iter))[c]
  BY DEF NodesWeight, MapThenSumSet, MapThenFoldSet
<1>2. ASSUME NEW iter PROVE Summing(iter) <=> IsSumming(iter, w, c)
  <2>1. \A s \in SUBSET c : s # {} => (CHOOSE x \in s : TRUE) \in c
    OBVIOUS
  <2>2. \A s \in SUBSET c :
          s # {} => w[CHOOSE x \in s : TRUE] = NodeWeight(g, CHOOSE x \in s : TRUE)
    BY <2>1
  <2> QED BY <2>2 DEF IsSumming
<1> HIDE DEF Summing
<1>3. (CHOOSE iter : Summing(iter)) = (CHOOSE iter : IsSumming(iter, w, c))
  BY <1>2
<1> QED BY <1>1, <1>3 DEF SumOf

\* So is the sum over some tasks.
LEMMA TasksWeightIs ==
    ASSUME NEW g, NEW c, NEW w, \A x \in c : w[x] = WeightValue[g.ts[x].weight]
    PROVE  TasksWeight(g, c) = SumOf(w, c)
<1> DEFINE Summing(iter) ==
             iter = [s \in SUBSET c |->
                       IF s = {} THEN 0
                       ELSE WeightValue[g.ts[CHOOSE x \in s : TRUE].weight]
                              + iter[s \ {CHOOSE x \in s : TRUE}]]
<1>1. TasksWeight(g, c) = (CHOOSE iter : Summing(iter))[c]
  BY DEF TasksWeight, MapThenSumSet, MapThenFoldSet
<1>2. ASSUME NEW iter PROVE Summing(iter) <=> IsSumming(iter, w, c)
  <2>1. \A s \in SUBSET c : s # {} => (CHOOSE x \in s : TRUE) \in c
    OBVIOUS
  <2>2. \A s \in SUBSET c :
          s # {} => w[CHOOSE x \in s : TRUE] =
                      WeightValue[g.ts[CHOOSE x \in s : TRUE].weight]
    BY <2>1
  <2> QED BY <2>2 DEF IsSumming
<1> HIDE DEF Summing
<1>3. (CHOOSE iter : Summing(iter)) = (CHOOSE iter : IsSumming(iter, w, c))
  BY <1>2
<1> QED BY <1>1, <1>3 DEF SumOf

\* Totals of finitely many weights are numbers, and one node counts its own.
LEMMA TotalParts ==
    ASSUME NEW N, NEW w, NEW T, Additive(T, N, w), NEW c \in SUBSET N, NEW x \in c
    PROVE  /\ T[c] \in Nat /\ T[c \ {x}] \in Nat
           /\ T[c] = w[x] + T[c \ {x}]
<1>o. PICK r : r = c \ {x}
  OBVIOUS
<1>1. r \in SUBSET N /\ x \in N \ r /\ c = r \cup {x}
  BY <1>o
<1>2. T[r \cup {x}] = w[x] + T[r] /\ T[r] \in Nat /\ T[c] \in Nat
  BY <1>1 DEF Additive
<1> QED BY <1>1, <1>2, <1>o

----------------------------------------------------------------------------
(* Chains *)

\* The chains of nodes that follow one.
Chains(N, P, n) ==
    {c \in SUBSET Following(P, N, n) :
       \A a, b \in c : a = b \/ << a, b >> \in P \/ << b, a >> \in P}

\* The total weight of the heaviest of them.
HeaviestAfter(N, P, T, n) == Max({T[c] : c \in Chains(N, P, n)})

\* There is a heaviest chain.
LEMMA HeaviestChain ==
    ASSUME NEW N, NEW P, IsFiniteSet(N), NEW w, NEW T, Additive(T, N, w), NEW n
    PROVE  /\ \E c \in Chains(N, P, n) : T[c] = HeaviestAfter(N, P, T, n)
           /\ \A c \in Chains(N, P, n) : T[c] <= HeaviestAfter(N, P, T, n)
           /\ HeaviestAfter(N, P, T, n) \in Nat
<1>o. PICK all, sums : all = Chains(N, P, n) /\ sums = {T[c] : c \in all}
  OBVIOUS
<1>1. {} \in all /\ all \in SUBSET SUBSET N
  BY <1>o DEF Chains, Following
<1>2. IsFiniteSet(all)
  BY <1>1, FS_SUBSET, FS_Subset
<1> DEFINE f == [c \in all |-> T[c]]
<1>3. f \in Surjection(all, sums)
  BY <1>o DEF Surjection
<1>4. IsFiniteSet(sums)
  <2> HIDE DEF f
  <2> QED BY <1>2, <1>3, FS_Surjection
<1>5. sums \in SUBSET Nat /\ sums # {}
  BY <1>1, <1>o DEF Additive
<1>6. Max(sums) \in sums /\ \A z \in sums : z <= Max(sums)
  BY <1>4, <1>5, GreatestNumber
<1> QED BY <1>5, <1>6, <1>o DEF HeaviestAfter

\* The edges E give the order: each of them is in it, and every pair of the
\* order starts with one.
Generates(E, N, P) ==
    /\ \A e \in E : e = << e[1], e[2] >> /\ e[1] \in N /\ e[2] \in N /\ e \in P
    /\ \A a, b \in N : << a, b >> \in P =>
         << a, b >> \in E \/ \E c \in N : << a, c >> \in E /\ << c, b >> \in P

\* The weights of the heaviest chains that start with each node.
Chained(H, N, P, w, T) ==
    \A n \in N : H[n] = w[n] + HeaviestAfter(N, P, T, n)

\* A chain weighs no more than what starts with the first node of it, nor
\* than what starts with a node before all of it.
LEMMA ChainWithin ==
    ASSUME NEW N, NEW P, StrictOrder(N, P), NEW w, \A x \in N : w[x] \in Nat,
           NEW T, Additive(T, N, w),
           NEW H, Chained(H, N, P, w, T), NEW n \in N, NEW c \in Chains(N, P, n),
           NEW m \in N, \A x \in c : x = m \/ << m, x >> \in P
    PROVE  T[c] <= H[m]
<1>1. c \in SUBSET N
  BY DEF Chains, Following
<1>2. w[m] \in Nat /\ H[m] = w[m] + HeaviestAfter(N, P, T, m)
  BY DEF Chained
<1>3. c \ {m} \in Chains(N, P, m)
  BY DEF Chains, Following
<1>4. T[c \ {m}] <= HeaviestAfter(N, P, T, m) /\ HeaviestAfter(N, P, T, m) \in Nat
  BY <1>3, HeaviestChain DEF StrictOrder
<1>5. CASE m \in c
  <2>o. PICK d : d = c
    OBVIOUS
  <2>1. m \in d /\ d \in SUBSET N
    BY <1>1, <1>5, <2>o
  <2>2. T[d] = w[m] + T[d \ {m}] /\ T[d \ {m}] \in Nat
    BY <2>1, TotalParts
  <2> QED BY <1>2, <1>4, <2>2, <2>o
<1>6. CASE m \notin c
  <2>1. c \ {m} = c /\ T[c] \in Nat
    BY <1>1, <1>6 DEF Additive
  <2> QED BY <1>2, <1>4, <2>1
<1> QED BY <1>5, <1>6

\* What starts with the next node of an edge is a chain after the first.
LEMMA ChainLonger ==
    ASSUME NEW N, NEW P, StrictOrder(N, P), NEW w, \A x \in N : w[x] \in Nat,
           NEW T, Additive(T, N, w),
           NEW H, Chained(H, N, P, w, T), NEW n \in N, NEW m \in N, << n, m >> \in P
    PROVE  H[m] <= HeaviestAfter(N, P, T, n)
<1>1. IsFiniteSet(N)
  BY DEF StrictOrder
<1>2. PICK c \in Chains(N, P, m) : T[c] = HeaviestAfter(N, P, T, m)
  BY <1>1, HeaviestChain
<1>o. PICK d : d = c \cup {m}
  OBVIOUS
<1>3. d \in Chains(N, P, n) /\ d \in SUBSET N
  BY <1>o DEF Chains, Following, StrictOrder
<1>4. m \notin c /\ d \ {m} = c /\ m \in d
  BY <1>o DEF Chains, Following, StrictOrder
<1>5. T[d] = w[m] + T[c]
  BY <1>3, <1>4, TotalParts
<1>6. T[d] <= HeaviestAfter(N, P, T, n)
  BY <1>1, <1>3, HeaviestChain
<1> QED BY <1>2, <1>5, <1>6 DEF Chained

\* What the heaviest chains weigh is the depth along the edges.
NextDepths(d, E, n) == {0} \cup {d[e[2]] : e \in {x \in E : x[1] = n}}
LEMMA ChainsAreDepths ==
    ASSUME NEW N, NEW P, StrictOrder(N, P), NEW w, \A x \in N : w[x] \in Nat,
           NEW T, Additive(T, N, w), NEW E, Generates(E, N, P),
           NEW H, Chained(H, N, P, w, T), NEW n \in N
    PROVE  H[n] = w[n] + Max(NextDepths(H, E, n))
<1>1. IsFiniteSet(N)
  BY DEF StrictOrder
<1>o. PICK M, nums : M = HeaviestAfter(N, P, T, n) /\ nums = NextDepths(H, E, n)
  OBVIOUS
<1>2. M \in Nat
  BY <1>1, <1>o, HeaviestChain
<1>3. ASSUME NEW z \in nums PROVE z \in Nat /\ z <= M
  <2>1. CASE z = 0
    BY <1>2, <2>1
  <2>2. CASE z # 0
    <3>1. PICK e \in E : e[1] = n /\ z = H[e[2]]
      BY <1>3, <1>o, <2>2 DEF NextDepths
    <3>o. PICK m : m = e[2]
      OBVIOUS
    <3>2. m \in N /\ << n, m >> \in P
      BY <3>1, <3>o DEF Generates
    <3>3. z <= M
      BY <1>o, <3>1, <3>2, <3>o, ChainLonger
    <3>4. w[m] \in Nat /\ H[m] = w[m] + HeaviestAfter(N, P, T, m)
          /\ HeaviestAfter(N, P, T, m) \in Nat
      BY <1>1, <3>2, HeaviestChain DEF Chained
    <3> QED BY <3>1, <3>3, <3>4, <3>o
  <2> QED BY <2>1, <2>2
<1>4. nums \in SUBSET Nat /\ nums # {} /\ 0 \in nums
  BY <1>3, <1>o DEF NextDepths
<1>5. M \in nums
  <2>1. PICK c \in Chains(N, P, n) : T[c] = M
    BY <1>1, <1>o, HeaviestChain
  <2>2. c \in SUBSET N
    BY DEF Chains, Following
  <2>3. CASE c = {}
    BY <1>4, <2>1, <2>3 DEF Additive
  <2>4. CASE c # {}
    <3>1. PICK m \in c : \A x \in c : << x, m >> \notin P
      BY <2>2, <2>4, FirstOne
    <3>2. m \in N /\ << n, m >> \in P /\ \A x \in c : x = m \/ << m, x >> \in P
      BY <3>1 DEF Chains, Following
    <3>3. PICK k \in N : << n, k >> \in E /\ \A x \in c : x = k \/ << k, x >> \in P
      <4>1. CASE << n, m >> \in E
        BY <3>2, <4>1
      <4>2. CASE << n, m >> \notin E
        <5>1. PICK k \in N : << n, k >> \in E /\ << k, m >> \in P
          BY <3>2, <4>2 DEF Generates
        <5>2. \A x \in c : << k, x >> \in P
          BY <2>2, <3>2, <5>1 DEF StrictOrder
        <5> QED BY <5>1, <5>2
      <4> QED BY <4>1, <4>2
    <3>4. M <= H[k]
      BY <2>1, <3>3, ChainWithin
    <3>5. H[k] \in nums
      BY <3>3, <1>o DEF NextDepths
    <3>6. H[k] = M
      BY <1>2, <1>3, <3>4, <3>5
    <3> QED BY <3>5, <3>6
  <2> QED BY <2>3, <2>4
<1>6. Max(nums) = M
  <2>1. \A z \in nums : M >= z
    BY <1>2, <1>3
  <2>2. Max(nums) \in nums /\ \A z \in nums : Max(nums) >= z
    BY <1>5, <2>1 DEF Max
  <2>3. Max(nums) \in Nat /\ Max(nums) >= M /\ M >= Max(nums)
    BY <1>3, <1>5, <2>1, <2>2
  <2> QED BY <1>2, <2>3
<1> QED BY <1>6, <1>o DEF Chained

\* Depths are one function only.
IsDepths(d, N, E, w) == \A n \in N : d[n] = w[n] + Max(NextDepths(d, E, n))
LEMMA DepthsUnique ==
    ASSUME NEW N, NEW P, StrictOrder(N, P), NEW E, Generates(E, N, P), NEW w,
           NEW c, IsDepths(c, N, E, w), NEW d, IsDepths(d, N, E, w), NEW n \in N
    PROVE  c[n] = d[n]
<1> DEFINE Bad == {m \in N : c[m] # d[m]}
<1> SUFFICES ASSUME Bad # {} PROVE FALSE
  OBVIOUS
<1>1. PICK m \in Bad : \A x \in Bad : << m, x >> \notin P
  <2> HIDE DEF Bad
  <2>1. Bad \in SUBSET N
    BY DEF Bad
  <2> QED BY <2>1, LastOne
<1>2. \A e \in E : e[1] = m => c[e[2]] = d[e[2]]
  BY <1>1 DEF Generates
<1>3. NextDepths(c, E, m) = NextDepths(d, E, m)
  BY <1>2 DEF NextDepths
<1> QED BY <1>1, <1>3 DEF IsDepths

----------------------------------------------------------------------------
(* The order of a relation without cycles *)

Leads(edges, a, b) == a # b /\ b \in Reach(a, edges)

\* What a path starts with.
LEMMA LeadsFirst ==
    ASSUME NEW edges, IsFiniteSet(edges), NEW a, NEW b, Leads(edges, a, b)
    PROVE  \E e \in edges : e[1] = a /\ b \in Reach(e[2], edges)
<1> DEFINE C == {a} \cup UNION {Reach(e[2], edges) : e \in {d \in edges : d[1] = a}}
<1>1. a \in C
  OBVIOUS
<1>2. ASSUME NEW e \in edges, e[1] \in C PROVE e[2] \in C
  <2>1. CASE e[1] = a
    <3>1. e[2] \in Reach(e[2], edges)
      BY ReachClosed
    <3> QED BY <2>1, <3>1
  <2>2. CASE e[1] # a
    <3>1. PICK d \in edges : d[1] = a /\ e[1] \in Reach(d[2], edges)
      BY <1>2, <2>2
    <3>2. e[2] \in Reach(d[2], edges)
      BY <3>1, ReachClosed
    <3> QED BY <3>1, <3>2
  <2> QED BY <2>1, <2>2
<1>3. Reach(a, edges) \subseteq C
  <2> HIDE DEF C
  <2> QED BY <1>1, <1>2, ReachLeast, FS_CardinalityType
<1> QED BY <1>3 DEF Leads

\* Paths can be joined.
LEMMA ReachJoined ==
    ASSUME NEW edges, IsFiniteSet(edges), NEW a, NEW b \in Reach(a, edges),
           NEW c \in Reach(b, edges)
    PROVE  c \in Reach(a, edges)
<1>1. \A e \in edges : e[1] \in Reach(a, edges) => e[2] \in Reach(a, edges)
  BY ReachClosed
<1> QED BY <1>1, ReachLeast, FS_CardinalityType

\* So what leads to what is an order, and edges are part of it.
LEMMA LeadsOrder ==
    ASSUME NEW edges, IsFiniteSet(edges), NoCycle(edges)
    PROVE  /\ \A e \in edges : Leads(edges, e[1], e[2])
           /\ \A a, b, c : Leads(edges, a, b) /\ Leads(edges, b, c) => Leads(edges, a, c)
<1>1. ASSUME NEW e \in edges PROVE Leads(edges, e[1], e[2])
  BY ReachClosed DEF Leads, NoCycle
<1>2. ASSUME NEW a, NEW b, Leads(edges, a, b) PROVE a \notin Reach(b, edges)
  <2>1. PICK e \in edges : e[1] = a /\ b \in Reach(e[2], edges)
    BY <1>2, LeadsFirst
  <2> QED BY <2>1, ReachJoined DEF NoCycle
<1>3. ASSUME NEW a, NEW b, NEW c, Leads(edges, a, b), Leads(edges, b, c)
      PROVE  Leads(edges, a, c)
  BY <1>2, <1>3, ReachJoined DEF Leads
<1> QED BY <1>1, <1>3

----------------------------------------------------------------------------
(* The nodes of a graph and their order *)

OpenEdges(g) == {e \in Pairs(g.fs) : {e[1], e[2]} \subseteq Unfinished(g)}
NodeOrder(g) == {e \in Nodes(g) \X Nodes(g) : NodeBefore(g, e[1], e[2])}

\* A node is a task of an executing feature, or a feature in another phase.
LEMMA NodeIs ==
    ASSUME NEW g, NEW f, NEW n \in NodesOf(g, f)
    PROVE  /\ f \in Unfinished(g) /\ FeatureOf(g, n) = f
           /\ \/ /\ Expanded(g, f)
                 /\ n = << "ts", n[2] >> /\ n[2] \in TasksOf(g, f)
              \/ ~ Expanded(g, f) /\ n = << "fs", f >>
BY DEF NodesOf, FeatureOf, TasksOf

\* A node is one of its feature.
LEMMA NodeOfFeature ==
    ASSUME NEW g, NEW n \in Nodes(g)
    PROVE  FeatureOf(g, n) \in DOMAIN g.fs /\ n \in NodesOf(g, FeatureOf(g, n))
<1>1. PICK f \in DOMAIN g.fs : n \in NodesOf(g, f)
  BY DEF Nodes
<1> QED BY <1>1, NodeIs

\* A node of a feature is a node of the graph.
LEMMA NodesAll ==
    ASSUME NEW g, NEW f, NEW n \in NodesOf(g, f)
    PROVE  n \in Nodes(g)
BY NodeIs DEF Nodes, Unfinished

\* There are finitely many nodes.
LEMMA FiniteNodes ==
    ASSUME NEW g, Good(g)
    PROVE  IsFiniteSet(Nodes(g))
<1>o. PICK tags, rows : tags = {"ts", "fs"} /\ rows = DOMAIN g.ts \cup DOMAIN g.fs
  OBVIOUS
<1>1. IsFiniteSet(tags) /\ IsFiniteSet(rows)
  <2>1. IsFiniteSet(DOMAIN g.fs) /\ IsFiniteSet(DOMAIN g.ts)
    BY GoodParts DEF Table
  <2>2. IsFiniteSet({"ts"}) /\ IsFiniteSet({"fs"}) /\ tags = {"ts"} \cup {"fs"}
    BY <1>o, FS_Singleton
  <2>3. IsFiniteSet(rows)
    BY <1>o, <2>1, FS_Union
  <2>4. IsFiniteSet(tags)
    BY <2>2, FS_Union
  <2> QED BY <2>3, <2>4
<1>2. ASSUME NEW n \in Nodes(g) PROVE n \in tags \X rows
  <2>1. PICK f : n \in NodesOf(g, f)
    BY DEF Nodes
  <2> QED BY <1>o, <2>1, NodeIs DEF TasksOf, Unfinished
<1>3. IsFiniteSet(tags \X rows)
  BY <1>1, FS_Product
<1> QED BY <1>2, <1>3, FS_Subset

\* The edges of features that are not done, and those of tasks, have no cycle.
LEMMA OpenEdgesFine ==
    ASSUME NEW g, Good(g)
    PROVE  /\ IsFiniteSet(OpenEdges(g)) /\ NoCycle(OpenEdges(g))
           /\ IsFiniteSet(Pairs(g.ts)) /\ NoCycle(Pairs(g.ts))
<1>1. /\ IsFiniteSet(Pairs(g.fs)) /\ NoCycle(Pairs(g.fs))
      /\ IsFiniteSet(Pairs(g.ts)) /\ NoCycle(Pairs(g.ts))
  BY GoodParts
<1>2. OpenEdges(g) \in SUBSET Pairs(g.fs)
  BY DEF OpenEdges
<1> QED BY <1>1, <1>2, FewerEdges

\* The order, in terms of paths.
LEMMA BeforeIs ==
    ASSUME NEW g, NEW a \in Nodes(g), NEW b \in Nodes(g)
    PROVE  << a, b >> \in NodeOrder(g) <=>
             \/ Leads(OpenEdges(g), FeatureOf(g, a), FeatureOf(g, b))
             \/ /\ FeatureOf(g, a) = FeatureOf(g, b)
                /\ Expanded(g, FeatureOf(g, a))
                /\ Leads(Pairs(g.ts), a[2], b[2])
<1>o. PICK f, h : f = FeatureOf(g, a) /\ h = FeatureOf(g, b)
  OBVIOUS
<1>1. a \in NodesOf(g, f) /\ b \in NodesOf(g, h)
  BY <1>o, NodeOfFeature
<1>2. FeatureBefore(g, f, h) <=> Leads(OpenEdges(g), f, h)
  BY DEF FeatureBefore, Leads, OpenEdges
<1>3. f = h => ((a[1] = "ts" /\ b[1] = "ts" /\ a # b) <=> (Expanded(g, f) /\ a[2] # b[2]))
  <2> SUFFICES ASSUME f = h
               PROVE (a[1] = "ts" /\ b[1] = "ts" /\ a # b) <=> (Expanded(g, f) /\ a[2] # b[2])
    OBVIOUS
  <2>1. CASE Expanded(g, f)
    <3>1. a = << "ts", a[2] >> /\ b = << "ts", b[2] >>
      BY <1>1, <2>1, NodeIs
    <3>2. a[1] = "ts" /\ b[1] = "ts" /\ (a = b <=> a[2] = b[2])
      BY <3>1
    <3> QED BY <2>1, <3>2
  <2>2. CASE ~ Expanded(g, f)
    <3>1. a = << "fs", f >> /\ b = << "fs", f >>
      BY <1>1, <2>2, NodeIs
    <3> QED BY <2>2, <3>1
  <2> QED BY <2>1, <2>2
<1>4. << a, b >> \in NodeOrder(g) <=> NodeBefore(g, a, b)
  BY DEF NodeOrder
<1> QED BY <1>o, <1>2, <1>3, <1>4 DEF NodeBefore, Leads

\* It is a strict order.
LEMMA NodesOrdered ==
    ASSUME NEW g, Good(g)
    PROVE  StrictOrder(Nodes(g), NodeOrder(g))
<1>o. PICK F, G : F = OpenEdges(g) /\ G = Pairs(g.ts)
  OBVIOUS
<1>1. /\ \A a, b, c : Leads(F, a, b) /\ Leads(F, b, c) => Leads(F, a, c)
      /\ \A a, b, c : Leads(G, a, b) /\ Leads(G, b, c) => Leads(G, a, c)
      /\ \A a : ~ Leads(F, a, a) /\ ~ Leads(G, a, a)
  <2>1. /\ IsFiniteSet(F) /\ NoCycle(F)
        /\ IsFiniteSet(G) /\ NoCycle(G)
    BY <1>o, OpenEdgesFine
  <2>2. \A a : ~ Leads(F, a, a) /\ ~ Leads(G, a, a)
    BY DEF Leads
  <2> QED BY <2>1, <2>2, LeadsOrder
<1>2. ASSUME NEW a \in Nodes(g) PROVE << a, a >> \notin NodeOrder(g)
  BY <1>1, <1>o, BeforeIs
<1>3. ASSUME NEW a \in Nodes(g), NEW b \in Nodes(g), NEW c \in Nodes(g),
             << a, b >> \in NodeOrder(g), << b, c >> \in NodeOrder(g)
      PROVE  << a, c >> \in NodeOrder(g)
  BY <1>1, <1>3, <1>o, BeforeIs
<1> QED BY <1>2, <1>3, FiniteNodes DEF StrictOrder

----------------------------------------------------------------------------
(* The edges between nodes generate the order *)

\* Tasks of an executing feature that depend on each other are nodes.
LEMMA TaskEdgeIs ==
    ASSUME NEW g, Good(g), NEW f \in DOMAIN g.fs, NEW e \in TaskEdges(g, f)
    PROVE  /\ e = << e[1], e[2] >>
           /\ e[1] \in NodesOf(g, f) /\ e[2] \in NodesOf(g, f)
           /\ << e[1], e[2] >> \in NodeOrder(g)
<1>1. Expanded(g, f)
  BY DEF TaskEdges
<1>2. PICK p \in Pairs(g.ts) :
        g.ts[p[2]].feature = f /\ e = << << "ts", p[1] >>, << "ts", p[2] >> >>
  BY <1>1 DEF TaskEdges
<1>3. f \in Unfinished(g)
  BY <1>1 DEF Unfinished, Expanded
<1>4. p[2] \in DOMAIN g.ts /\ p[1] \in g.ts[p[2]].deps
  BY EdgeOf
<1>5. p[1] \in TasksOf(g, f) /\ p[2] \in TasksOf(g, f)
  BY <1>2, <1>4, GoodParts DEF Closed, TasksOf
<1>6. e[1] \in NodesOf(g, f) /\ e[2] \in NodesOf(g, f)
  BY <1>1, <1>2, <1>3, <1>5 DEF NodesOf
<1>7. Leads(Pairs(g.ts), p[1], p[2])
  BY OpenEdgesFine, LeadsOrder
<1>8. /\ e[1] \in Nodes(g) /\ e[2] \in Nodes(g)
      /\ FeatureOf(g, e[1]) = f /\ FeatureOf(g, e[2]) = f
  BY <1>6, NodeIs, NodesAll
<1>9. e[1][2] = p[1] /\ e[2][2] = p[2]
  BY <1>2
<1>10. << e[1], e[2] >> \in NodeOrder(g)
  BY <1>1, <1>7, <1>8, <1>9, BeforeIs
<1> QED BY <1>2, <1>6, <1>10

\* Every node of a feature is a first one, or comes after a first one.
LEMMA RootBefore ==
    ASSUME NEW g, Good(g), NEW f \in DOMAIN g.fs, NEW n \in NodesOf(g, f)
    PROVE  \E r \in Roots(g, f) : r = n \/ << r, n >> \in NodeOrder(g)
<1> DEFINE B == {x \in NodesOf(g, f) : x = n \/ << x, n >> \in NodeOrder(g)}
<1>1. StrictOrder(Nodes(g), NodeOrder(g))
  BY NodesOrdered
<1>2. B \in SUBSET Nodes(g) /\ B # {}
  BY NodesAll
<1>3. PICK r \in B : \A x \in B : << x, r >> \notin NodeOrder(g)
  <2> HIDE DEF B
  <2> QED BY <1>1, <1>2, FirstOne
<1>4. ASSUME NEW e \in TaskEdges(g, f), e[2] = r PROVE FALSE
  <2>1. e[1] \in NodesOf(g, f) /\ << e[1], r >> \in NodeOrder(g)
    BY <1>4, TaskEdgeIs
  <2>2. << e[1], n >> \in NodeOrder(g)
    BY <1>1, <1>2, <1>3, <2>1, NodesAll DEF StrictOrder
  <2> QED BY <1>3, <2>1, <2>2
<1>5. r \in Roots(g, f)
  BY <1>4 DEF Roots
<1> QED BY <1>5

\* An executing feature without tasks would break the chains through it.
AllHaveTasks(g) == \A f \in DOMAIN g.fs : Expanded(g, f) => TasksOf(g, f) # {}

\* So a feature that is not done has a first node, if it has tasks when it is
\* executed.
LEMMA RootExists ==
    ASSUME NEW g, Good(g), AllHaveTasks(g), NEW f \in Unfinished(g)
    PROVE  Roots(g, f) # {}
<1>1. f \in DOMAIN g.fs
  BY DEF Unfinished
<1>2. NodesOf(g, f) # {}
  BY <1>1 DEF NodesOf, AllHaveTasks
<1> QED BY <1>1, <1>2, RootBefore

\* The edges of the combined graph.
LEMMA SuccessorIs ==
    ASSUME NEW g
    PROVE  /\ \A f \in DOMAIN g.fs : TaskEdges(g, f) \subseteq Successors(g)
           /\ \A f \in Unfinished(g) : \A d \in g.fs[f].deps \cap DOMAIN g.fs :
                Terminals(g, d) \X Roots(g, f) \subseteq Successors(g)
           /\ \A e \in Successors(g) :
                \/ \E f \in DOMAIN g.fs : e \in TaskEdges(g, f)
                \/ \E f \in Unfinished(g) : \E d \in g.fs[f].deps \cap DOMAIN g.fs :
                     e \in Terminals(g, d) \X Roots(g, f)
<1> DEFINE Between(f) ==
             UNION {Terminals(g, d) \X Roots(g, f) : d \in g.fs[f].deps \cap DOMAIN g.fs}
           Within == UNION {TaskEdges(g, f) : f \in DOMAIN g.fs}
           Across == UNION {Between(f) : f \in Unfinished(g)}
<1>1. Successors(g) = Within \cup Across
  BY DEF Successors
<1>2. /\ \A f \in DOMAIN g.fs : TaskEdges(g, f) \subseteq Within
      /\ \A e \in Within : \E f \in DOMAIN g.fs : e \in TaskEdges(g, f)
  OBVIOUS
<1>3. ASSUME NEW f
      PROVE  /\ \A d \in g.fs[f].deps \cap DOMAIN g.fs :
                  Terminals(g, d) \X Roots(g, f) \subseteq Between(f)
             /\ \A e \in Between(f) : \E d \in g.fs[f].deps \cap DOMAIN g.fs :
                  e \in Terminals(g, d) \X Roots(g, f)
  OBVIOUS
<1> HIDE DEF Between
<1>4. /\ \A f \in Unfinished(g) : Between(f) \subseteq Across
      /\ \A e \in Across : \E f \in Unfinished(g) : e \in Between(f)
  OBVIOUS
<1> HIDE DEF Within, Across
<1> QED BY <1>1, <1>2, <1>3, <1>4

\* They go from a node to one after it.
LEMMA SuccessorAfter ==
    ASSUME NEW g, Good(g), NEW e \in Successors(g)
    PROVE  e = << e[1], e[2] >> /\ e[1] \in Nodes(g) /\ e[2] \in Nodes(g)
             /\ e \in NodeOrder(g)
<1>1. CASE \E f \in DOMAIN g.fs : e \in TaskEdges(g, f)
  BY <1>1, TaskEdgeIs, NodesAll
<1>2. CASE \E f \in Unfinished(g) : \E d \in g.fs[f].deps \cap DOMAIN g.fs :
             e \in Terminals(g, d) \X Roots(g, f)
  <2>1. PICK f, d : /\ f \in Unfinished(g) /\ d \in g.fs[f].deps \cap DOMAIN g.fs
                    /\ e \in Terminals(g, d) \X Roots(g, f)
    BY <1>2
  <2>2. /\ e = << e[1], e[2] >>
        /\ e[1] \in NodesOf(g, d) /\ e[2] \in NodesOf(g, f)
    BY <2>1 DEF Terminals, Roots
  <2>3. /\ e[1] \in Nodes(g) /\ FeatureOf(g, e[1]) = d /\ d \in Unfinished(g)
        /\ e[2] \in Nodes(g) /\ FeatureOf(g, e[2]) = f
    BY <2>2, NodesAll, NodeIs
  <2>4. << d, f >> \in OpenEdges(g)
    <3>1. << d, f >> \in Pairs(g.fs)
      BY <2>1, EdgeOf DEF Unfinished
    <3> QED BY <2>1, <2>3, <3>1 DEF OpenEdges
  <2>5. Leads(OpenEdges(g), d, f)
    BY <2>4, OpenEdgesFine, LeadsOrder
  <2>6. << e[1], e[2] >> \in NodeOrder(g)
    BY <2>3, <2>5, BeforeIs
  <2> QED BY <2>2, <2>3, <2>6
<1> QED BY <1>1, <1>2, SuccessorIs

\* And a node that is before another has an edge to it, or to one before it:
\* along the dependencies of tasks, and from the last tasks of a feature to
\* the first of the next, through features of which none is empty.
LEMMA SuccessorsReach ==
    ASSUME NEW g, Good(g), AllHaveTasks(g), NEW a \in Nodes(g), NEW b \in Nodes(g),
           << a, b >> \in NodeOrder(g)
    PROVE  \/ << a, b >> \in Successors(g)
           \/ \E c \in Nodes(g) : << a, c >> \in Successors(g) /\ << c, b >> \in NodeOrder(g)
<1>o. PICK f, h, F, G : /\ f = FeatureOf(g, a) /\ h = FeatureOf(g, b)
                        /\ F = OpenEdges(g) /\ G = Pairs(g.ts)
  OBVIOUS
<1>1. /\ f \in DOMAIN g.fs /\ a \in NodesOf(g, f)
      /\ h \in DOMAIN g.fs /\ b \in NodesOf(g, h)
  BY <1>o, NodeOfFeature
<1>2. IsFiniteSet(F) /\ IsFiniteSet(G)
  BY <1>o, OpenEdgesFine
<1>3. CASE f = h /\ Expanded(g, f) /\ Leads(G, a[2], b[2])
  <2>1. PICK p \in G : p[1] = a[2] /\ b[2] \in Reach(p[2], G)
    BY <1>2, <1>3, LeadsFirst
  <2>2. /\ a = << "ts", a[2] >> /\ a[2] \in TasksOf(g, f)
        /\ b = << "ts", b[2] >> /\ b[2] \in TasksOf(g, f)
    BY <1>1, <1>3, NodeIs
  <2>3. g.ts[p[2]].feature = f
    <3>1. p[2] \in DOMAIN g.ts /\ p[1] \in g.ts[p[2]].deps
      BY <1>o, EdgeOf
    <3> QED BY <2>1, <2>2, <3>1, GoodParts DEF Closed, TasksOf
  <2>o. PICK c : c = << "ts", p[2] >>
    OBVIOUS
  <2>4. << a, c >> \in TaskEdges(g, f)
    BY <1>3, <1>o, <2>1, <2>2, <2>3, <2>o DEF TaskEdges
  <2>5. << a, c >> \in Successors(g) /\ c \in NodesOf(g, f)
    <3>o. PICK e : e = << a, c >>
      OBVIOUS
    <3>1. e \in TaskEdges(g, f) /\ e[2] = c
      BY <2>4, <3>o
    <3>2. e[2] \in NodesOf(g, f)
      BY <1>1, <3>1, TaskEdgeIs
    <3> QED BY <1>1, <3>1, <3>2, <3>o, SuccessorIs
  <2>6. CASE p[2] = b[2]
    BY <2>2, <2>5, <2>6, <2>o
  <2>7. CASE p[2] # b[2]
    <3>1. Leads(G, c[2], b[2]) /\ c \in Nodes(g) /\ FeatureOf(g, c) = f
      BY <2>1, <2>5, <2>7, <2>o, NodesAll, NodeIs DEF Leads
    <3>2. << c, b >> \in NodeOrder(g)
      BY <1>3, <1>o, <3>1, BeforeIs
    <3> QED BY <2>5, <3>1, <3>2
  <2> QED BY <2>6, <2>7
<1>4. CASE Leads(F, f, h) /\ a \notin Terminals(g, f)
  <2>1. PICK e \in TaskEdges(g, f) : e[1] = a
    BY <1>1, <1>4 DEF Terminals
  <2>o. PICK c : c = e[2]
    OBVIOUS
  <2>2. c \in NodesOf(g, f) /\ e = << a, c >> /\ e \in Successors(g)
    BY <1>1, <2>1, <2>o, TaskEdgeIs, SuccessorIs
  <2>3. c \in Nodes(g) /\ FeatureOf(g, c) = f
    BY <2>2, NodesAll, NodeIs
  <2>4. << c, b >> \in NodeOrder(g)
    BY <1>4, <1>o, <2>3, BeforeIs
  <2> QED BY <2>2, <2>3, <2>4
<1>5. CASE Leads(F, f, h) /\ a \in Terminals(g, f)
  <2>1. PICK e \in F : e[1] = f /\ h \in Reach(e[2], F)
    BY <1>2, <1>5, LeadsFirst
  <2>o. PICK k : k = e[2]
    OBVIOUS
  <2>2. k \in Unfinished(g) /\ k \in DOMAIN g.fs /\ f \in g.fs[k].deps
    BY <1>o, <2>1, <2>o, EdgeOf DEF OpenEdges
  <2>3. Terminals(g, f) \X Roots(g, k) \subseteq Successors(g)
    BY <1>1, <2>2, SuccessorIs
  <2>4. \A r \in Roots(g, k) : << a, r >> \in Successors(g) /\ r \in NodesOf(g, k)
    BY <1>5, <2>3 DEF Roots
  <2>5. CASE k = h
    <3>1. PICK r \in Roots(g, h) : r = b \/ << r, b >> \in NodeOrder(g)
      BY <1>1, RootBefore
    <3> QED BY <2>4, <2>5, <3>1, NodesAll
  <2>6. CASE k # h
    <3>1. PICK r : r \in Roots(g, k)
      BY <2>2, RootExists
    <3>2. r \in Nodes(g) /\ FeatureOf(g, r) = k
      BY <2>4, <3>1, NodesAll, NodeIs
    <3>3. Leads(F, k, h)
      BY <2>1, <2>6, <2>o DEF Leads
    <3>4. << r, b >> \in NodeOrder(g)
      BY <1>o, <3>2, <3>3, BeforeIs
    <3> QED BY <2>4, <3>1, <3>2, <3>4
  <2> QED BY <2>5, <2>6
<1>6. \/ f = h /\ Expanded(g, f) /\ Leads(G, a[2], b[2])
      \/ Leads(F, f, h)
  BY <1>o, BeforeIs
<1> QED BY <1>3, <1>4, <1>5, <1>6

----------------------------------------------------------------------------
(* Depths are weights of chains *)

\* Nodes have weights: that of the task, or those of the tasks of the feature.
LEMMA NodeWeightNat ==
    ASSUME NEW g, Good(g), Weighed(g), NEW n \in Nodes(g)
    PROVE  NodeWeight(g, n) \in Nat
<1>1. WeightValue.medium \in Nat /\ \A v \in Weights : WeightValue[v] \in Nat
  BY DEF WeightValue, Weights
<1>2. \A t \in DOMAIN g.ts : WeightValue[g.ts[t].weight] \in Nat
  BY <1>1 DEF Weighed
<1>3. PICK f : n \in NodesOf(g, f)
  BY NodeOfFeature
<1>4. CASE Expanded(g, f)
  <2>1. n[1] = "ts" /\ n[2] \in DOMAIN g.ts
    BY <1>3, <1>4, NodeIs DEF TasksOf
  <2> QED BY <1>2, <2>1 DEF NodeWeight
<1>5. CASE ~ Expanded(g, f)
  <2>1. n[1] # "ts"
    BY <1>3, <1>5, NodeIs
  <2>o. PICK D : D = TasksOf(g, n[2])
    OBVIOUS
  <2>2. NodeWeight(g, n) \in {WeightValue.medium, TasksWeight(g, D)}
    BY <2>1, <2>o DEF NodeWeight, TasksWeight
  <2>3. D \in SUBSET DOMAIN g.ts /\ IsFiniteSet(D)
    <3>1. IsFiniteSet(DOMAIN g.ts)
      BY GoodParts DEF Table
    <3>2. D \in SUBSET DOMAIN g.ts
      BY <2>o DEF TasksOf
    <3> QED BY <3>1, <3>2, FS_Subset
  <2>4. PICK w : \A t \in D : w[t] = WeightValue[g.ts[t].weight]
    <3> DEFINE v == [t \in D |-> WeightValue[g.ts[t].weight]]
    <3>1. \A t \in D : v[t] = WeightValue[g.ts[t].weight]
      OBVIOUS
    <3> QED BY <3>1
  <2>5. \A t \in D : w[t] \in Nat
    BY <1>2, <2>3, <2>4
  <2>6. PICK T : Additive(T, D, w)
    BY <2>3, <2>5, TotalExists
  <2>7. SumOf(w, D) = T[D]
    BY <2>3, <2>6, SumIsTotal
  <2>8. T[D] \in Nat
    BY <2>6 DEF Additive
  <2>9. TasksWeight(g, D) = SumOf(w, D)
    BY <2>4, TasksWeightIs
  <2> QED BY <1>1, <2>2, <2>7, <2>8, <2>9
<1> QED BY <1>4, <1>5

\* The heaviest chain of nodes that starts with one, in terms of the order.
LEMMA ChainWeightIs ==
    ASSUME NEW g, IsFiniteSet(Nodes(g)),
           NEW w, \A n \in Nodes(g) : w[n] = NodeWeight(g, n),
           NEW T, Additive(T, Nodes(g), w), NEW n \in Nodes(g)
    PROVE  ChainWeight(g, n) = w[n] + HeaviestAfter(Nodes(g), NodeOrder(g), T, n)
<1> DEFINE after == {m \in Nodes(g) : NodeBefore(g, n, m)}
           chains == {c \in SUBSET after : \A a, b \in c :
                         a = b \/ NodeBefore(g, a, b) \/ NodeBefore(g, b, a)}
<1>1. ChainWeight(g, n) = NodeWeight(g, n) + Max({NodesWeight(g, c) : c \in chains})
  BY DEF ChainWeight, NodesWeight
<1>2. \A a, b \in Nodes(g) : << a, b >> \in NodeOrder(g) <=> NodeBefore(g, a, b)
  BY DEF NodeOrder
<1>3. after = Following(NodeOrder(g), Nodes(g), n)
  BY <1>2 DEF Following
<1>4. after \subseteq Nodes(g)
  OBVIOUS
<1> HIDE DEF after
<1>5. chains = Chains(Nodes(g), NodeOrder(g), n)
  BY <1>2, <1>3, <1>4 DEF Chains
<1>6. \A c \in chains : NodesWeight(g, c) = T[c]
  <2> SUFFICES ASSUME NEW c \in chains PROVE NodesWeight(g, c) = T[c]
    OBVIOUS
  <2>1. c \in SUBSET Nodes(g)
    BY <1>4
  <2>2. NodesWeight(g, c) = SumOf(w, c)
    BY <2>1, NodesWeightIs
  <2> QED BY <2>1, <2>2, SumIsTotal
<1> HIDE DEF chains
<1>7. {NodesWeight(g, c) : c \in chains} = {T[c] : c \in chains}
  BY <1>6
<1> QED BY <1>1, <1>5, <1>7 DEF HeaviestAfter

\* The function by which MaxDepth is defined.
IsMaxDepth(depth, g) ==
    depth = [n \in Nodes(g) |->
               NodeWeight(g, n) + Max(NextDepths(depth, Successors(g), n))]

\* The depths are such a function.
LEMMA MaxDepthIs ==
    ASSUME NEW g
    PROVE  MaxDepth(g) = CHOOSE depth : IsMaxDepth(depth, g)
BY DEF MaxDepth, IsMaxDepth, NextDepths

\* The depth of a node, computed over the edges of the combined graph, is the
\* weight of the heaviest chain of nodes that starts with it, over the
\* dependencies of tasks and features (core/scheduling/index.ts).
THEOREM DepthIsChainWeight ==
    ASSUME NEW g, Good(g), Weighed(g), AllHaveTasks(g)
    PROVE  /\ DOMAIN MaxDepth(g) = Nodes(g)
           /\ \A n \in Nodes(g) : /\ MaxDepth(g)[n] = ChainWeight(g, n)
                                  /\ MaxDepth(g)[n] \in Nat
<1>o. PICK N, P, E : N = Nodes(g) /\ P = NodeOrder(g) /\ E = Successors(g)
  OBVIOUS
<1>1. StrictOrder(N, P) /\ IsFiniteSet(N)
  BY <1>o, NodesOrdered, FiniteNodes
<1>2. Generates(E, N, P)
  BY <1>o, SuccessorAfter, SuccessorsReach DEF Generates
<1>3. PICK w : \A n \in N : w[n] = NodeWeight(g, n)
  <2> DEFINE v == [n \in N |-> NodeWeight(g, n)]
  <2>1. \A n \in N : v[n] = NodeWeight(g, n)
    OBVIOUS
  <2> QED BY <2>1
<1>4. \A n \in N : w[n] \in Nat
  BY <1>3, <1>o, NodeWeightNat
<1>5. PICK T : Additive(T, N, w)
  BY <1>1, <1>4, TotalExists
<1>6. PICK H : H = [n \in N |-> w[n] + HeaviestAfter(N, P, T, n)]
  OBVIOUS
<1>7. Chained(H, N, P, w, T)
  BY <1>6 DEF Chained
<1>8. \A n \in N : H[n] = w[n] + Max(NextDepths(H, E, n))
  BY <1>1, <1>2, <1>4, <1>5, <1>7, ChainsAreDepths
<1>9. IsDepths(H, N, E, w) /\ IsMaxDepth(H, g)
  BY <1>3, <1>6, <1>8, <1>o DEF IsDepths, IsMaxDepth
<1>10. PICK d : d = MaxDepth(g) /\ IsMaxDepth(d, g)
  BY <1>9, MaxDepthIs
<1>11. DOMAIN d = N /\ IsDepths(d, N, E, w)
  BY <1>3, <1>10, <1>o DEF IsDepths, IsMaxDepth
<1>12. ASSUME NEW n \in N PROVE d[n] = ChainWeight(g, n) /\ d[n] \in Nat
  <2>1. d[n] = H[n]
    BY <1>1, <1>2, <1>9, <1>11, DepthsUnique
  <2>2. H[n] = w[n] + HeaviestAfter(N, P, T, n)
    BY <1>6
  <2>3. HeaviestAfter(N, P, T, n) \in Nat
    BY <1>1, <1>5, HeaviestChain
  <2>4. ChainWeight(g, n) = w[n] + HeaviestAfter(N, P, T, n)
    BY <1>1, <1>3, <1>5, <1>o, ChainWeightIs
  <2> QED BY <1>4, <2>1, <2>2, <2>3, <2>4
<1> QED BY <1>10, <1>11, <1>12, <1>o

----------------------------------------------------------------------------
(* Weights and starts: what an operation does to tasks *)

\* What gives a task its weight is one of the weights there are.
OpWeighed(op) == op.kind \in {"add_task", "edit_task"} => op.val \in Weights
RecordWeighed(ops) == \A i \in DOMAIN ops : OpWeighed(ops[i])

\* No task runs that did not.
NoneStarted(g, h) ==
    \A t \in DOMAIN h.ts : h.ts[t].status = "running" =>
        t \in DOMAIN g.ts /\ g.ts[t].status = "running"

\* A task has the weight and status it had, or is new and waits, or is edited.
TaskAfter(g, h, op, t) ==
    \/ /\ t \in DOMAIN g.ts
       /\ h.ts[t].status = g.ts[t].status
       /\ \/ h.ts[t].weight = g.ts[t].weight
          \/ op.kind = "edit_task" /\ h.ts[t].weight = op.val
    \/ /\ op.kind = "add_task"
       /\ h.ts[t].status = "pending" /\ h.ts[t].weight = op.val

\* An operation the graph accepts does no more than that to a task.
LEMMA EffectTasks ==
    ASSUME NEW g, Good(g), NEW op, Accepts(g, op), NEW t \in DOMAIN Effect(g, op).ts
    PROVE  TaskAfter(g, Effect(g, op), op, t)
<1>o. PICK k, h, ts : k = op.kind /\ h = Effect(g, op) /\ ts = g.ts
  OBVIOUS
<1>k. Keyed(g, GraphFields) /\ \A i \in DOMAIN ts : Keyed(ts[i], TaskFields)
  BY <1>o, GoodParts DEF Table
<1>s. ASSUME h.ts = ts PROVE TaskAfter(g, h, op, t)
  BY <1>s, <1>o DEF TaskAfter
<1>1. CASE k \in {"add_milestone", "add_feature", "edit_feature"}
  <2>1. h.ts = ts
    BY <1>1, <1>k, <1>o DEF Effect, Links, Unlinks, CreateMilestone, CreateFeature,
       EditFeature, Keyed, GraphFields
  <2> QED BY <1>o, <1>s, <2>1
<1>2. CASE k = "add_task"
  <2>1. PICK row : /\ row.status = "pending" /\ row.weight = op.val
                   /\ h = [g EXCEPT !.ts = Put(g.ts, op.id, row)]
    <3>1. h = CreateTask(g, op.id, op.ref, op.val)
      BY <1>2, <1>o DEF Effect, Links, Unlinks
    <3>2. PICK order, row : /\ order = OrderAfter(g.ts, TasksOf(g, op.ref))
                            /\ row = NewTask(op.ref, order, op.val)
      OBVIOUS
    <3>3. row.status = "pending" /\ row.weight = op.val
      BY <3>2 DEF NewTask
    <3>4. h = [g EXCEPT !.ts = Put(g.ts, op.id, row)]
      BY <3>1, <3>2 DEF CreateTask
    <3> QED BY <3>3, <3>4
  <2>2. h.ts = Put(ts, op.id, row)
    BY <1>k, <1>o, <2>1 DEF Keyed, GraphFields
  <2>3. /\ t = op.id => h.ts[t] = row
        /\ t # op.id => t \in DOMAIN ts /\ h.ts[t] = ts[t]
    BY <1>o, <2>2 DEF Put
  <2> QED BY <1>2, <1>o, <2>1, <2>3 DEF TaskAfter
<1>w. ASSUME NEW gone, h.ts = Without(ts, gone) PROVE TaskAfter(g, h, op, t)
  <2>1. t \in DOMAIN ts /\ h.ts[t] = [ts[t] EXCEPT !.deps = ts[t].deps \ gone]
    BY <1>w, <1>o DEF Without
  <2>2. h.ts[t].status = ts[t].status /\ h.ts[t].weight = ts[t].weight
    BY <1>k, <2>1 DEF Keyed, TaskFields
  <2> QED BY <1>o, <2>1, <2>2 DEF TaskAfter
<1>3. CASE k = "remove_feature"
  <2>1. h.ts = Without(ts, TasksOf(g, op.id))
    BY <1>3, <1>k, <1>o DEF Effect, Links, Unlinks, RemoveFeature, Keyed, GraphFields
  <2> QED BY <1>o, <1>w, <2>1
<1>4. CASE k = "remove_task"
  <2>1. h.ts = Without(ts, {op.id})
    BY <1>4, <1>k, <1>o DEF Effect, Links, Unlinks, RemoveTask, Keyed, GraphFields
  <2> QED BY <1>o, <1>w, <2>1
<1>5. CASE k = "edit_task"
  <2>1. h.ts = [ts EXCEPT ![op.id] = [ts[op.id] EXCEPT !.weight = op.val]]
    BY <1>5, <1>k, <1>o DEF Effect, Links, Unlinks, EditTask, Keyed, GraphFields
  <2>2. /\ t \in DOMAIN ts
        /\ t = op.id => h.ts[t] = [ts[t] EXCEPT !.weight = op.val]
        /\ t # op.id => h.ts[t] = ts[t]
    BY <1>o, <2>1
  <2>3. h.ts[t].status = ts[t].status /\ h.ts[t].weight \in {ts[t].weight, op.val}
    BY <1>k, <2>2 DEF Keyed, TaskFields
  <2> QED BY <1>5, <1>o, <2>2, <2>3 DEF TaskAfter
<1>d. ASSUME NEW i, NEW deps, h.ts = [ts EXCEPT ![i] = [ts[i] EXCEPT !.deps = deps]]
      PROVE  TaskAfter(g, h, op, t)
  <2>1. /\ t \in DOMAIN ts
        /\ t = i => h.ts[t] = [ts[t] EXCEPT !.deps = deps]
        /\ t # i => h.ts[t] = ts[t]
    BY <1>o, <1>d
  <2>2. h.ts[t].status = ts[t].status /\ h.ts[t].weight = ts[t].weight
    BY <1>k, <2>1 DEF Keyed, TaskFields
  <2> QED BY <1>o, <2>1, <2>2 DEF TaskAfter
<1>6. CASE Links(op)
  <2>1. h = Depend(g, RowKind(op), op.id, op.ref) /\ RowKind(op) \in {"fs", "ts"}
    BY <1>6, <1>o DEF Effect, Links, Unlinks, RowKind
  <2>2. CASE RowKind(op) = "fs"
    <3>1. h.ts = ts
      BY <1>k, <1>o, <2>1, <2>2 DEF Depend, Index, Keyed, GraphFields
    <3> QED BY <1>o, <1>s, <3>1
  <2>3. CASE RowKind(op) = "ts"
    <3>1. PICK i, deps : i = op.id /\ deps = ts[op.id].deps \cup {op.ref}
      OBVIOUS
    <3>2. h.ts = [ts EXCEPT ![i] = [ts[i] EXCEPT !.deps = deps]]
      BY <1>k, <1>o, <2>1, <2>3, <3>1 DEF Depend, Index, Keyed, GraphFields
    <3>3. TaskAfter(g, h, op, t)
      BY <1>d, <3>2
    <3> QED BY <1>o, <3>3
  <2> QED BY <2>1, <2>2, <2>3
<1>7. CASE Unlinks(op)
  <2>1. h = Undepend(g, RowKind(op), op.id, op.ref) /\ RowKind(op) \in {"fs", "ts"}
    BY <1>7, <1>o DEF Effect, Links, Unlinks, RowKind
  <2>2. CASE RowKind(op) = "fs"
    <3>1. h.ts = ts
      BY <1>k, <1>o, <2>1, <2>2 DEF Undepend, Index, Keyed, GraphFields
    <3> QED BY <1>o, <1>s, <3>1
  <2>3. CASE RowKind(op) = "ts"
    <3>1. PICK i, deps : i = op.id /\ deps = ts[op.id].deps \ {op.ref}
      OBVIOUS
    <3>2. h.ts = [ts EXCEPT ![i] = [ts[i] EXCEPT !.deps = deps]]
      BY <1>k, <1>o, <2>1, <2>3, <3>1 DEF Undepend, Index, Keyed, GraphFields
    <3>3. TaskAfter(g, h, op, t)
      BY <1>d, <3>2
    <3> QED BY <1>o, <3>3
  <2> QED BY <2>1, <2>2, <2>3
<1> QED BY <1>1, <1>2, <1>3, <1>4, <1>5, <1>6, <1>7, <1>o DEF Accepts

\* So an operation starts nothing and leaves tasks weighed.
LEMMA EffectWeighed ==
    ASSUME NEW g, Good(g), Weighed(g), NEW op, OpWeighed(op), Accepts(g, op)
    PROVE  Weighed(Effect(g, op)) /\ NoneStarted(g, Effect(g, op))
<1>o. PICK h : h = Effect(g, op)
  OBVIOUS
<1>1. \A t \in DOMAIN h.ts : TaskAfter(g, h, op, t)
  BY <1>o, EffectTasks
<1>2. Weighed(h)
  BY <1>1 DEF Weighed, TaskAfter, OpWeighed
<1>3. NoneStarted(g, h)
  BY <1>1 DEF NoneStarted, TaskAfter
<1> QED BY <1>2, <1>3, <1>o

\* Resolving aliases changes neither the kind nor the value of an operation.
LEMMA ResolvedWeighed ==
    ASSUME NEW g, NEW ops, RecordFine(ops), RecordWeighed(ops)
    PROVE  \A i \in 1..Len(ops) : OpWeighed(Resolved(g, ops).ops[i])
<1>o. PICK n : n = Len(ops)
  OBVIOUS
<1>1. n \in Nat /\ DOMAIN ops = 1..n
  BY <1>o, ListedParts DEF RecordFine
<1>2. PICK a : Resolving(a, g, ops, n)
  BY <1>1, ResolvedSteps
<1> DEFINE Fine(s, k) == Listed(s) /\ Len(s) = k /\ \A i \in 1..k : OpWeighed(s[i])
           Have == {k \in Nat : k <= n => Fine(a[k].ops, k)}
<1>3. 0 \in Have
  <2>1. a[0].ops = << >>
    BY <1>2 DEF Resolving, FirstResolved
  <2> QED BY <2>1, ListedEmpty
<1>4. ASSUME NEW k \in Nat, k \in Have PROVE k + 1 \in Have
  <2> SUFFICES ASSUME k + 1 <= n PROVE Fine(a[k + 1].ops, k + 1)
    OBVIOUS
  <2>o. PICK s, x : s = a[k].ops /\ x = ops[k + 1]
    OBVIOUS
  <2>1. Listed(s) /\ Len(s) = k /\ \A i \in 1..k : OpWeighed(s[i])
    <3>1. Fine(a[k].ops, k)
      <4>1. k <= n
        BY <1>1
      <4> HIDE DEF Fine
      <4> QED BY <1>4, <4>1
    <3> QED BY <2>o, <3>1
  <2>2. OpFine(x) /\ OpWeighed(x)
    <3>1. k + 1 \in DOMAIN ops
      BY <1>1
    <3> QED BY <2>o, <3>1 DEF RecordFine, RecordWeighed
  <2>3. \E id, ref : a[k + 1].ops = Append(s, [x EXCEPT !.id = id, !.ref = ref])
    <3>1. a[k + 1] = ResolveOne(a[k], x)
      BY <1>2, <2>o DEF Resolving
    <3>2. PICK acc : acc = a[k]
      OBVIOUS
    <3>3. PICK id, ref :
            ResolveOne(acc, x).ops = Append(acc.ops, [x EXCEPT !.id = id, !.ref = ref])
      BY Zenon DEF ResolveOne
    <3>4. a[k + 1].ops = Append(s, [x EXCEPT !.id = id, !.ref = ref])
      BY <2>o, <3>1, <3>2, <3>3
    <3> QED BY <3>4
  <2>3a. PICK id, ref : a[k + 1].ops = Append(s, [x EXCEPT !.id = id, !.ref = ref])
    BY <2>3
  <2>4. PICK y : y = [x EXCEPT !.id = id, !.ref = ref]
    OBVIOUS
  <2>5. OpWeighed(y)
    BY <2>2, <2>4 DEF OpFine, Keyed, OpFields, OpWeighed
  <2>6. PICK r : r = Append(s, y) /\ r = a[k + 1].ops
    BY <2>3a, <2>4
  <2>7. /\ Listed(r) /\ Len(r) = k + 1 /\ r[k + 1] = y
        /\ \A i \in 1..k : r[i] = s[i]
    <3>1. /\ Listed(Append(s, y)) /\ Len(Append(s, y)) = Len(s) + 1
          /\ Append(s, y)[Len(s) + 1] = y
          /\ \A i \in 1..Len(s) : Append(s, y)[i] = s[i]
      BY <2>1, ListedParts
    <3> QED BY <2>1, <2>6, <3>1
  <2>8. \A i \in 1..(k + 1) : OpWeighed(r[i])
    BY <2>1, <2>5, <2>7
  <2> QED BY <2>6, <2>7, <2>8
<1>5. Fine(a[n].ops, n)
  <2>1. Nat \subseteq Have
    <3> HIDE DEF Have
    <3> QED BY <1>3, <1>4, NatSteps
  <2> QED BY <1>1, <2>1
<1> QED BY <1>2, <1>5, <1>o DEF Resolving

\* So a record that is applied, or its first part, starts nothing and leaves
\* tasks weighed.
LEMMA AppliedWeighed ==
    ASSUME NEW g, Good(g), Weighed(g), NEW ops, RecordFine(ops), RecordWeighed(ops),
           NEW n \in 0..Len(ops)
    PROVE  /\ Weighed(Applied(g, ops, n).graph)
           /\ NoneStarted(g, Applied(g, ops, n).graph)
<1>o. PICK R : R = Resolved(g, ops)
  OBVIOUS
<1>n. Len(ops) \in Nat /\ n \in Nat /\ n <= Len(ops)
  BY ListedParts DEF RecordFine
<1>1. PICK a : Applying(a, g, ops, n)
  BY <1>n, AppliedSteps
<1> DEFINE Fine(h) == Good(h) /\ Weighed(h) /\ NoneStarted(g, h)
           Have == {k \in Nat : k <= n => Fine(a[k].graph)}
<1>2. 0 \in Have
  <2>1. a[0] = FirstAcc(g, R)
    BY <1>1, <1>o DEF Applying
  <2>2. NoneStarted(g, g)
    BY DEF NoneStarted
  <2> QED BY <2>1, <2>2 DEF FirstAcc
<1>3. ASSUME NEW k \in Nat, k \in Have PROVE k + 1 \in Have
  <2> SUFFICES ASSUME k + 1 <= n PROVE Fine(a[k + 1].graph)
    OBVIOUS
  <2>o. PICK op, h : op = R.ops[k + 1] /\ h = a[k].graph
    OBVIOUS
  <2>1. Good(h) /\ Weighed(h) /\ NoneStarted(g, h) /\ k \in 0..n /\ k + 1 \in 1..Len(ops)
    BY <1>3, <1>n, <2>o
  <2>2. AccFine(a[k], R.bound)
    BY <1>1, <1>n, <1>o, <2>1, ApplyingFine
  <2>3. a[k + 1] = ApplyOne(R, a[k], k + 1)
    BY <1>1, <1>o DEF Applying
  <2>4. /\ Applicable(h, op) => a[k + 1].graph = Effect(h, op)
        /\ ~ Applicable(h, op) => a[k + 1].graph = h
    <3>1. Advances(a[k], ApplyOne(R, a[k], k + 1), R.ops[k + 1])
      BY <2>2, ApplyOneIs
    <3> QED BY <2>3, <2>o, <3>1 DEF Advances
  <2>5. OpWeighed(op)
    BY <2>1, <2>o, <1>o, ResolvedWeighed
  <2>6. ASSUME Applicable(h, op) PROVE Fine(Effect(h, op))
    <3>1. Accepts(h, op)
      BY <2>6 DEF Applicable
    <3>2. Weighed(Effect(h, op)) /\ NoneStarted(h, Effect(h, op))
      BY <2>1, <2>5, <3>1, EffectWeighed
    <3>3. NoneStarted(g, Effect(h, op))
      BY <2>1, <3>2 DEF NoneStarted
    <3> QED BY <2>1, <3>1, <3>2, <3>3, EffectGood
  <2> QED BY <2>1, <2>4, <2>6
<1>4. Fine(a[n].graph)
  <2>1. Nat \subseteq Have
    <3> HIDE DEF Have
    <3> QED BY <1>2, <1>3, NatSteps
  <2> QED BY <1>n, <2>1
<1> QED BY <1>1, <1>4 DEF Applying

----------------------------------------------------------------------------
(* The weights stay weights, and only a dispatch starts a task *)

SessionsWeighed == \A s \in DOMAIN sessions : RecordWeighed(sessions[s].ops)
RowsWeighed ==
    \A key \in DOMAIN runs : HasProposal(key) => RecordWeighed(runs[key].payload.ops)
WeightsInv == Weighed(graph) /\ SessionsWeighed /\ RowsWeighed

\* Tasks keep their weights, none is new and none started.
Quiet(g, h) ==
    \A t \in DOMAIN h.ts :
        /\ t \in DOMAIN g.ts /\ h.ts[t].weight = g.ts[t].weight
        /\ h.ts[t].status = "running" => g.ts[t].status = "running"

\* One quiet change after another is quiet.
LEMMA QuietTwice ==
    ASSUME NEW g, NEW h, NEW k, Quiet(g, h), Quiet(h, k)
    PROVE  Quiet(g, k)
BY DEF Quiet

\* A quiet change leaves tasks weighed.
LEMMA QuietWeighed ==
    ASSUME NEW g, NEW h, Quiet(g, h), Weighed(g)
    PROVE  Weighed(h)
BY DEF Quiet, Weighed

\* Two changes that start nothing start nothing together.
LEMMA StartedTwice ==
    ASSUME NEW g, NEW h, NEW k, NoneStarted(g, h), NoneStarted(h, k)
    PROVE  NoneStarted(g, k)
BY DEF NoneStarted

\* A quiet change starts nothing.
LEMMA QuietStarts ==
    ASSUME NEW g, NEW h, Quiet(g, h)
    PROVE  NoneStarted(g, h)
BY DEF Quiet, NoneStarted

\* Writing a status other than that of a run is quiet.
LEMMA QuietWrites ==
    ASSUME NEW g, WellFormed(g), NEW h, NEW v, v # "running",
           \A t \in DOMAIN h.ts :
               /\ t \in DOMAIN g.ts
               /\ h.ts[t] \in {g.ts[t], [g.ts[t] EXCEPT !.status = v]}
    PROVE  Quiet(g, h)
<1>1. \A t \in DOMAIN g.ts : Keyed(g.ts[t], TaskFields)
  BY DEF WellFormed, Table
<1>2. ASSUME NEW t \in DOMAIN h.ts
      PROVE  /\ h.ts[t].weight = g.ts[t].weight
             /\ h.ts[t].status = "running" => g.ts[t].status = "running"
  <2>1. Keyed(g.ts[t], TaskFields) /\ t \in DOMAIN g.ts
    BY <1>1
  <2>2. PICK r : r = [g.ts[t] EXCEPT !.status = v]
    OBVIOUS
  <2>3. r.weight = g.ts[t].weight /\ r.status = v
    BY <2>1, <2>2 DEF Keyed, TaskFields
  <2>4. h.ts[t] \in {g.ts[t], r}
    BY <2>2
  <2> QED BY <2>3, <2>4
<1> QED BY <1>2 DEF Quiet

\* What is done to a graph beside editing it is quiet.
LEMMA QuietOperations ==
    ASSUME NEW g, WellFormed(g)
    PROVE  /\ \A f : Quiet(g, CancelFeature(g, f))
           /\ \A f, phase, tasks : Quiet(g, PromotedOf(g, f, phase, tasks))
           /\ \A f : Quiet(g, Advanced(g, f))
           /\ \A f, s : Quiet(g, [g EXCEPT !.fs[f].status = s])
           /\ \A m : Quiet(g, QueueMilestone(g, m)) /\ Quiet(g, DequeueMilestone(g, m))
           /\ Quiet(g, Loaded(g))
<1>o. PICK ts : ts = g.ts
  OBVIOUS
<1>k. Keyed(g, GraphFields)
  BY DEF WellFormed
<1>s. ASSUME NEW h, h.ts = ts PROVE Quiet(g, h)
  BY <1>s, <1>o DEF Quiet
<1>1. ASSUME NEW f PROVE Quiet(g, CancelFeature(g, f))
  <2>1. PICK h : h = CancelFeature(g, f)
    OBVIOUS
  <2>2. h.ts = [t \in DOMAIN ts |->
                  IF ts[t].feature = f /\ ts[t].status # "done"
                     THEN [ts[t] EXCEPT !.status = "cancelled"] ELSE ts[t]]
    BY <1>k, <1>o, <2>1 DEF CancelFeature, Keyed, GraphFields
  <2>3. \A t \in DOMAIN h.ts :
          /\ t \in DOMAIN ts
          /\ h.ts[t] \in {ts[t], [ts[t] EXCEPT !.status = "cancelled"]}
    BY <2>2
  <2>4. Quiet(g, h)
    BY <1>o, <2>3, QuietWrites
  <2> QED BY <2>1, <2>4
<1>2. ASSUME NEW f, NEW phase, NEW tasks
      PROVE  Quiet(g, PromotedOf(g, f, phase, tasks))
  <2>1. PICK h : h = PromotedOf(g, f, phase, tasks)
    OBVIOUS
  <2> DEFINE promotes(t) == /\ t \in tasks /\ ts[t].feature = f
                            /\ \/ ts[t].status = "pending"
                               \/ ts[t].status = "stuck" /\ phase = "replan"
                            /\ DependenciesDone(g, t)
  <2>2. h.ts = [t \in DOMAIN ts |->
                  IF promotes(t) THEN [ts[t] EXCEPT !.status = "ready"] ELSE ts[t]]
    BY <1>k, <1>o, <2>1 DEF PromotedOf, Keyed, GraphFields
  <2> HIDE DEF promotes
  <2>3. \A t \in DOMAIN h.ts :
          /\ t \in DOMAIN ts
          /\ h.ts[t] \in {ts[t], [ts[t] EXCEPT !.status = "ready"]}
    BY <2>2
  <2>4. Quiet(g, h)
    BY <1>o, <2>3, QuietWrites
  <2> QED BY <2>1, <2>4
<1>3. ASSUME NEW f PROVE Quiet(g, Advanced(g, f))
  <2>1. PICK h : h = Advanced(g, f)
    OBVIOUS
  <2>2. h.ts = ts
    BY <1>k, <1>o, <2>1 DEF Advanced, Keyed, GraphFields
  <2> QED BY <1>s, <2>1, <2>2
<1>6. ASSUME NEW f, NEW s PROVE Quiet(g, [g EXCEPT !.fs[f].status = s])
  <2>1. PICK h : h = [g EXCEPT !.fs[f].status = s]
    OBVIOUS
  <2>2. h.ts = ts
    BY <1>k, <1>o, <2>1 DEF Keyed, GraphFields
  <2> QED BY <1>s, <2>1, <2>2
<1>4. ASSUME NEW m
      PROVE  Quiet(g, QueueMilestone(g, m)) /\ Quiet(g, DequeueMilestone(g, m))
  <2>1. PICK h, k : h = QueueMilestone(g, m) /\ k = DequeueMilestone(g, m)
    OBVIOUS
  <2>2. h.ts = ts /\ k.ts = ts
    BY <1>k, <1>o, <2>1 DEF QueueMilestone, DequeueMilestone, Keyed, GraphFields
  <2> QED BY <1>s, <2>1, <2>2
<1>5. Quiet(g, Loaded(g))
  <2>1. PICK h : h = Loaded(g)
    OBVIOUS
  <2>2. h.ts = ts
    BY <1>k, <1>o, <2>1 DEF Loaded, Keyed, GraphFields
  <2> QED BY <1>s, <2>1, <2>2
<1> QED BY <1>1, <1>2, <1>3, <1>4, <1>5, <1>6

\* A proposal that is applied, or its first part, starts nothing and leaves
\* tasks weighed.
LEMMA ProposalWeighed ==
    ASSUME PlanInv, WeightsInv, NEW key \in DOMAIN runs, HasProposal(key),
           NEW n \in 0..Len(runs[key].payload.ops)
    PROVE  LET h == Applied(graph, runs[key].payload.ops, n).graph
           IN  WellFormed(h) /\ Weighed(h) /\ NoneStarted(graph, h)
<1>o. PICK ops, h : ops = runs[key].payload.ops /\ h = Applied(graph, ops, n).graph
  OBVIOUS
<1>1. RecordFine(ops) /\ RecordWeighed(ops) /\ Good(graph) /\ Weighed(graph)
  BY <1>o DEF PlanInv, RowFine, Previewed, WeightsInv, RowsWeighed
<1>2. n \in 0..Len(ops)
  BY <1>o
<1>3. Weighed(h) /\ NoneStarted(graph, h)
  BY <1>o, <1>1, <1>2, AppliedWeighed
<1>4. Good(Applied(graph, runs[key].payload.ops, n).graph)
  BY ProposalGood
<1> QED BY <1>o, <1>3, <1>4 DEF Good

\* What a step other than a dispatch may do to tasks.
TasksRest == Weighed(graph') /\ NoneStarted(graph, graph')

\* A step that changes the graph quietly does that.
LEMMA QuietStep ==
    ASSUME WeightsInv, Quiet(graph, graph')
    PROVE  TasksRest
BY QuietWeighed, QuietStarts DEF WeightsInv, TasksRest

\* The work goes on, the user cancels or changes the queue: no task starts.
LEMMA WorkRests ==
    ASSUME PlanInv, WeightsInv, NEW i,
           \/ TaskLands(i) \/ TaskConflicts(i) \/ Lands(i)
           \/ UserCancels(i) \/ TogglesMilestone(i)
    PROVE  TasksRest
<1>w. WellFormed(graph)
  BY DEF PlanInv, Good
<1>o. PICK ts, new : ts = graph.ts /\ new = graph'.ts
  OBVIOUS
<1>k. Keyed(graph, GraphFields)
  BY <1>w DEF WellFormed
<1>s. ASSUME NEW v, v # "running", new = [ts EXCEPT ![i].status = v]
      PROVE  Quiet(graph, graph')
  <2>1. \A t \in DOMAIN new :
          /\ t \in DOMAIN ts
          /\ new[t] \in {ts[t], [ts[t] EXCEPT !.status = v]}
    BY <1>s
  <2> QED BY <1>o, <1>s, <1>w, <2>1, QuietWrites
<1>1. CASE TaskLands(i)
  <2>1. new = [ts EXCEPT ![i].status = "done"]
    BY <1>1, <1>k, <1>o DEF TaskLands, Keyed, GraphFields
  <2> QED BY <1>s, <2>1, QuietStep
<1>2. CASE TaskConflicts(i)
  <2>1. new = [ts EXCEPT ![i].status = "failed"]
    BY <1>2, <1>k, <1>o DEF TaskConflicts, Keyed, GraphFields
  <2> QED BY <1>s, <2>1, QuietStep
<1>3. CASE Lands(i)
  <2>1. new = ts
    BY <1>3, <1>k, <1>o DEF Lands, Keyed, GraphFields
  <2>2. Quiet(graph, graph')
    BY <1>o, <2>1 DEF Quiet
  <2> QED BY <2>2, QuietStep
<1>4. CASE UserCancels(i)
  <2>1. graph' = CancelFeature(graph, i)
    BY <1>4 DEF UserCancels
  <2>2. Quiet(graph, CancelFeature(graph, i))
    BY <1>w, QuietOperations
  <2> QED BY <2>1, <2>2, QuietStep
<1>5. CASE TogglesMilestone(i)
  <2>1. graph' \in {QueueMilestone(graph, i), DequeueMilestone(graph, i)}
    BY <1>5 DEF TogglesMilestone
  <2>2. Quiet(graph, QueueMilestone(graph, i)) /\ Quiet(graph, DequeueMilestone(graph, i))
    BY <1>w, QuietOperations
  <2> QED BY <2>1, <2>2, QuietStep
<1> QED BY <1>1, <1>2, <1>3, <1>4, <1>5

\* A proposal is approved, or a crash cuts its approval: no task starts.
LEMMA ApprovalRests ==
    ASSUME PlanInv, WeightsInv, NEW key \in DOMAIN runs,
           \/ \E branch \in BOOLEAN : ApproveFeature(key, branch)
           \/ ApproveProject(key) \/ CrashInApproval(key)
           \/ CrashAfterApplying(key)
    PROVE  TasksRest
<1>p. PICK payload : payload = runs[key].payload
  OBVIOUS
<1>1. HasProposal(key)
  BY DEF ApproveFeature, ApproveProject, CrashInApproval, CrashAfterApplying,
         Waiting, HasProposal
<1>2. ASSUME NEW n \in 0..Len(payload.ops), NEW h,
             h = Applied(graph, payload.ops, n).graph
      PROVE  WellFormed(h) /\ Weighed(h) /\ NoneStarted(graph, h)
  BY <1>1, <1>2, <1>p, ProposalWeighed
<1>3. Len(payload.ops) \in 0..Len(payload.ops)
  <2>1. RecordFine(payload.ops)
    BY <1>1, <1>p DEF PlanInv, RowFine, Previewed
  <2> QED BY <2>1 DEF RecordFine, Listed
<1>4. ASSUME NEW h, h = Whole(payload).graph
      PROVE  WellFormed(h) /\ Weighed(h) /\ NoneStarted(graph, h)
  <2>1. h = Applied(graph, payload.ops, Len(payload.ops)).graph
    BY <1>4 DEF Whole
  <2> QED BY <1>2, <1>3, <2>1
<1>5. ASSUME NEW h, Weighed(h), NoneStarted(graph, h), Quiet(h, graph')
      PROVE  TasksRest
  BY <1>5, QuietWeighed, QuietStarts, StartedTwice DEF TasksRest
<1>6. ASSUME NEW branch \in BOOLEAN, ApproveFeature(key, branch) PROVE TasksRest
  <2>1. PICK f, h, g : /\ f = key[2] /\ h = Whole(payload).graph
                       /\ g = Promoted(h, f, key[1])
    OBVIOUS
  <2>2. graph' \in {CancelFeature(g, f), Advanced(g, f), g}
    BY <1>6, <1>p, <2>1 DEF ApproveFeature
  <2>3. WellFormed(h) /\ Weighed(h) /\ NoneStarted(graph, h)
    BY <1>4, <2>1
  <2>4. Quiet(h, g) /\ WellFormed(g)
    <3>1. Keeps(h, Promoted(h, f, key[1]))
      BY <2>3, KeepsPromoted DEF Promoted
    <3>2. Quiet(h, Promoted(h, f, key[1]))
      BY <2>3, QuietOperations DEF Promoted
    <3> QED BY <2>1, <3>1, <3>2 DEF Keeps
  <2>5. Quiet(g, graph')
    <3>1. Quiet(g, CancelFeature(g, f)) /\ Quiet(g, Advanced(g, f))
      BY <2>4, QuietOperations
    <3>2. Quiet(g, g)
      BY DEF Quiet
    <3> QED BY <2>2, <3>1, <3>2
  <2>6. Quiet(h, graph')
    BY <2>4, <2>5, QuietTwice
  <2> QED BY <1>5, <2>3, <2>6
<1>7. CASE ApproveProject(key)
  <2>1. PICK h : h = Whole(payload).graph
    OBVIOUS
  <2>2. graph' \in {h, graph}
    BY <1>7, <1>p, <2>1 DEF ApproveProject
  <2>3. Weighed(h) /\ NoneStarted(graph, h)
    BY <1>4, <2>1
  <2>4. NoneStarted(graph, graph)
    BY DEF NoneStarted
  <2> QED BY <2>2, <2>3, <2>4 DEF TasksRest, WeightsInv
<1>8. CASE CrashInApproval(key)
  <2>1. PICK n \in 1..Len(payload.ops) :
          graph' = Loaded(Applied(graph, payload.ops, n).graph)
    BY <1>8, <1>p DEF CrashInApproval
  <2>2. PICK h : h = Applied(graph, payload.ops, n).graph
    OBVIOUS
  <2>3. n \in 0..Len(payload.ops)
    BY <1>3
  <2>4. WellFormed(h) /\ Weighed(h) /\ NoneStarted(graph, h)
    BY <1>2, <2>2, <2>3
  <2>5. Quiet(h, Loaded(h))
    BY <2>4, QuietOperations
  <2> QED BY <1>5, <2>1, <2>2, <2>4, <2>5
<1>9. CASE CrashAfterApplying(key)
  <2>1. PICK f, h, g : /\ f = key[2] /\ h = Whole(payload).graph
                       /\ g = Promoted(h, f, key[1])
    OBVIOUS
  <2>2. \/ graph' = Loaded(CancelFeature(g, f))
        \/ \E tasks : graph' = Loaded(PromotedOf(h, f, key[1], tasks))
        \/ \E j \in Advancing(g, f) : graph' = Loaded(j)
    BY <1>9, <1>p, <2>1 DEF CrashAfterApplying
  <2>3. WellFormed(h) /\ Weighed(h) /\ NoneStarted(graph, h)
    BY <1>4, <2>1
  <2>4. \A tasks : /\ Keeps(h, PromotedOf(h, f, key[1], tasks))
                   /\ Quiet(h, PromotedOf(h, f, key[1], tasks))
    BY <2>3, KeepsPromoted, QuietOperations
  <2>5. Quiet(h, g) /\ WellFormed(g)
    BY <2>1, <2>4 DEF Keeps, Promoted
  <2>6. ASSUME NEW j, Quiet(h, j), WellFormed(j), graph' = Loaded(j)
        PROVE  TasksRest
    <3>1. Quiet(j, Loaded(j))
      BY <2>6, QuietOperations
    <3>2. Quiet(h, graph')
      BY <2>6, <3>1, QuietTwice
    <3> QED BY <1>5, <2>3, <3>2
  <2>7. ASSUME NEW j, Quiet(g, j), Keeps(g, j), graph' = Loaded(j)
        PROVE  TasksRest
    <3>1. Quiet(h, j) /\ WellFormed(j)
      BY <2>5, <2>7, QuietTwice DEF Keeps
    <3> QED BY <2>6, <2>7, <3>1
  <2>8. CASE graph' = Loaded(CancelFeature(g, f))
    <3>1. Quiet(g, CancelFeature(g, f)) /\ Keeps(g, CancelFeature(g, f))
      BY <2>5, QuietOperations, KeepsCancelFeature
    <3> QED BY <2>7, <2>8, <3>1
  <2>9. ASSUME NEW tasks, graph' = Loaded(PromotedOf(h, f, key[1], tasks))
        PROVE  TasksRest
    BY <2>4, <2>6, <2>9 DEF Keeps
  <2>10. ASSUME NEW j \in Advancing(g, f), graph' = Loaded(j) PROVE TasksRest
    <3>1. CASE j = Advanced(g, f)
      <4>1. Quiet(g, Advanced(g, f))
        BY <2>5, QuietOperations
      <4>2. Keeps(g, Advanced(g, f))
        BY <2>5, KeepsPhase DEF Advanced
      <4> QED BY <2>7, <2>10, <3>1, <4>1, <4>2
    <3>2. ASSUME NEW s, j = [g EXCEPT !.fs[f].status = s] PROVE TasksRest
      <4>1. Quiet(g, j) /\ Keeps(g, j)
        BY <2>5, <3>2, QuietOperations, KeepsFeatureStatus
      <4> QED BY <2>7, <2>10, <4>1
    <3> QED BY <2>10, <3>1, <3>2 DEF Advancing
  <2> QED BY <2>2, <2>8, <2>9, <2>10
<1> QED BY <1>6, <1>7, <1>8, <1>9

\* A unit that may go first is a ready task or a ready feature.
LEMMA UnitIs ==
    ASSUME NEW waiting, NEW u \in First(waiting)
    PROVE  /\ u \in Dispatchable
           /\ \/ \E t \in DOMAIN graph.ts : u = << "ts", t >> /\ ReadyTask(graph, t)
              \/ \E f \in DOMAIN graph.fs : u = << "fs", f >> /\ ReadyFeature(graph, f)
<1>1. u \in Dispatchable
  BY DEF First, FirstUnits
<1> QED BY <1>1 DEF Dispatchable, ReadyUnits, Units

\* A dispatch writes at most the status of the task it starts, which was ready
\* and goes first.
LEMMA DispatchStarts ==
    ASSUME PlanInv, WeightsInv, Dispatch
    PROVE  /\ Weighed(graph')
           /\ \/ NoneStarted(graph, graph')
              \/ \E waiting \in SUBSET Waits : \E t :
                    /\ << "ts", t >> \in First(waiting)
                    /\ graph' = [graph EXCEPT !.ts[t].status = "running"]
<1>w. WellFormed(graph) /\ Weighed(graph)
  BY DEF PlanInv, Good, WeightsInv
<1>o. PICK ts, new : ts = graph.ts /\ new = graph'.ts
  OBVIOUS
<1>k. Keyed(graph, GraphFields) /\ \A t \in DOMAIN ts : Keyed(ts[t], TaskFields)
  BY <1>o, <1>w DEF WellFormed, Table
<1>q. ASSUME new = ts PROVE Weighed(graph') /\ NoneStarted(graph, graph')
  BY <1>o, <1>q, <1>w DEF Weighed, NoneStarted
<1>1. PICK unit \in UNION {First(waiting) : waiting \in SUBSET Waits} :
        \/ unit[1] = "ts" /\ LaunchTask(unit[2])
        \/ unit[1] = "fs" /\ LaunchPlanner(unit[2])
        \/ unit[1] = "fs" /\ PassPhase(unit[2])
  BY DEF Dispatch
<1>f. PICK waiting \in SUBSET Waits : unit \in First(waiting)
  BY <1>1
<1>2. PICK t : t = unit[2]
  OBVIOUS
<1>3. CASE unit[1] = "ts" /\ LaunchTask(t)
  <2>1. graph' = [graph EXCEPT !.ts[t].status = "running"]
    BY <1>3 DEF LaunchTask
  <2>2. new = [ts EXCEPT ![t].status = "running"]
    BY <1>k, <1>o, <2>1 DEF Keyed, GraphFields
  <2>3. \A u \in DOMAIN new :
          u \in DOMAIN ts /\ new[u] \in {ts[u], [ts[u] EXCEPT !.status = "running"]}
    BY <2>2
  <2>4. \A u \in DOMAIN new : u \in DOMAIN ts /\ new[u].weight = ts[u].weight
    BY <1>k, <2>3 DEF Keyed, TaskFields
  <2>5. Weighed(graph')
    BY <1>o, <1>w, <2>4 DEF Weighed
  <2>6. << "ts", t >> \in First(waiting)
    <3>1. unit = << "ts", t >>
      BY <1>f, <1>2, <1>3, UnitIs
    <3> QED BY <1>f, <3>1
  <2> QED BY <2>1, <2>5, <2>6
<1>4. CASE LaunchPlanner(t)
  <2>1. new = ts
    BY <1>4, <1>k, <1>o DEF LaunchPlanner, Keyed, GraphFields
  <2> QED BY <1>q, <2>1
<1>5. CASE PassPhase(t)
  <2>1. new = ts
    BY <1>5, <1>k, <1>o DEF PassPhase, Keyed, GraphFields
  <2> QED BY <1>q, <2>1
<1> QED BY <1>1, <1>2, <1>3, <1>4, <1>5

\* A session that opens has recorded nothing.
LEMMA HostWeighed ==
    ASSUME NEW g
    PROVE  RecordWeighed(Host(g).ops)
BY DEF Host, RecordWeighed

\* Operations of some kinds and values.
Weighs(kind, val) == kind \in {"add_task", "edit_task"} => val \in Weights

\* Operations of such kinds and values weigh what they should.
LEMMA PickWeighs ==
    ASSUME NEW kinds, NEW ids, NEW refs, NEW vals,
           \A k \in kinds, v \in vals : Weighs(k, v)
    PROVE  \A op \in Pick(kinds, ids, refs, vals) :
             \E k, i, r, v : op = Op(k, i, r, v) /\ Weighs(k, v)
BY DEF Pick

\* The operations a session may record give tasks one of the weights.
LEMMA OpsWeigh ==
    ASSUME NEW g, NEW op \in ProjectOps(g) \cup FeatureOps(g)
    PROVE  \E k, i, r, v : op = Op(k, i, r, v) /\ Weighs(k, v)
<1> DEFINE Fine(ops) == \A o \in ops : \E k, i, r, v : o = Op(k, i, r, v) /\ Weighs(k, v)
<1>w. \A kinds, ids, refs, vals :
        (\A k \in kinds, v \in vals : Weighs(k, v)) => Fine(Pick(kinds, ids, refs, vals))
  BY PickWeighs
<1> HIDE DEF Fine
<1>u. \A a, b : Fine(a) /\ Fine(b) => Fine(a \cup b)
  BY DEF Fine
<1>1. Fine(FeatureOps(g))
  <2>1. ASSUME NEW ids, NEW refs
        PROVE  /\ Fine(Pick({"add_task"}, ids, refs, {"heavy"}))
               /\ Fine(Pick({"remove_task"}, ids, refs, {""}))
               /\ Fine(Pick({"edit_task"}, ids, refs, {"trivial"}))
               /\ Fine(Pick({"edit_feature"}, ids, refs, {"new"}))
               /\ Fine(Pick({"add_task_dep", "remove_task_dep"}, ids, refs, {""}))
    BY <1>w DEF Weighs, Weights
  <2> QED BY <1>u, <2>1, Zenon DEF FeatureOps
<1>2. Fine(ProjectOps(g))
  <2>1. ASSUME NEW ids, NEW refs
        PROVE  /\ Fine(Pick({"add_milestone"}, ids, refs, {""}))
               /\ Fine(Pick({"add_feature"}, ids, refs, {""}))
               /\ Fine(Pick({"remove_feature"}, ids, refs, {""}))
               /\ Fine(Pick({"edit_feature"}, ids, refs, {"new"}))
               /\ Fine(Pick({"add_feature_dep", "remove_feature_dep"}, ids, refs, {""}))
    BY <1>w DEF Weighs
  <2> QED BY <1>u, <2>1, Zenon DEF ProjectOps
<1> QED BY <1>1, <1>2 DEF Fine

\* What a session records gives tasks one of the weights.
LEMMA RecordStaysWeighed ==
    ASSUME NEW host, HostFine(host), RecordWeighed(host.ops),
           NEW op \in ProjectOps(host.draft) \cup FeatureOps(host.draft)
    PROVE  RecordWeighed(Record(host, op).ops)
<1>o. PICK ops, names, new, y :
        /\ ops = host.ops /\ names = host.names /\ new = Record(host, op).ops
        /\ y = AsRecorded(names, op)
  OBVIOUS
<1>1. new \in {ops, Append(ops, y)}
  BY <1>o DEF Record, NamesWith, AsRecorded, HostFine, Keyed, HostFields
<1>2. Listed(ops)
  BY <1>o DEF HostFine, Previewed, RecordFine
<1>3. PICK k, i, r, v : op = Op(k, i, r, v) /\ Weighs(k, v)
  BY OpsWeigh
<1>4. OpWeighed(y)
  <2>1. op.kind = k /\ op.val = v
    BY <1>3 DEF Op
  <2>2. PICK id, ref : y = [op EXCEPT !.id = id, !.ref = ref]
    BY <1>o DEF AsRecorded, Recorded
  <2>3. y.kind = k /\ y.val = v
    BY <1>3, <2>2 DEF Op
  <2> QED BY <1>3, <2>3 DEF OpWeighed, Weighs
<1>5. RecordWeighed(Append(ops, y))
  <2>1. /\ Len(ops) \in Nat /\ DOMAIN ops = 1..Len(ops)
        /\ DOMAIN Append(ops, y) = 1..(Len(ops) + 1)
        /\ Append(ops, y)[Len(ops) + 1] = y
        /\ \A j \in 1..Len(ops) : Append(ops, y)[j] = ops[j]
    BY <1>2, ListedParts
  <2>2. \A j \in 1..Len(ops) : OpWeighed(ops[j])
    BY <1>o, <2>1 DEF RecordWeighed
  <2> QED BY <1>4, <2>1, <2>2 DEF RecordWeighed
<1> QED BY <1>1, <1>5, <1>o

\* Sessions record operations that give weights.
LEMMA SessionsStayWeighed ==
    ASSUME PlanInv, WeightsInv, NextPlanning
    PROVE  SessionsWeighed'
<1>s. \A s \in DOMAIN sessions : HostFine(sessions[s]) /\ RecordWeighed(sessions[s].ops)
  BY DEF PlanInv, WeightsInv, SessionsWeighed
<1>1. ASSUME UNCHANGED sessions PROVE SessionsWeighed'
  BY <1>1, <1>s DEF SessionsWeighed
<1>2. ASSUME NEW s, NEW g, sessions' = Put(sessions, s, Host(g)) PROVE SessionsWeighed'
  <2>1. \A r \in DOMAIN sessions' : \/ r \in DOMAIN sessions /\ sessions'[r] = sessions[r]
                                    \/ sessions'[r] = Host(g)
    BY <1>2 DEF Put
  <2> QED BY <1>s, <2>1, HostWeighed DEF SessionsWeighed
<1>3. ASSUME NEW domain \in SUBSET DOMAIN sessions, Keep(domain) PROVE SessionsWeighed'
  BY <1>3, <1>s DEF Keep, SessionsWeighed
<1>4. ASSUME NEW g, sessions' = Restarted(g) PROVE SessionsWeighed'
  BY <1>4, HostWeighed DEF Restarted, SessionsWeighed
<1>5. ASSUME DOMAIN sessions' = DOMAIN sessions,
             \A s \in DOMAIN sessions :
                sessions'[s] \in {sessions[s], [sessions[s] EXCEPT !.aborted = TRUE]}
      PROVE  SessionsWeighed'
  <2>1. ASSUME NEW s \in DOMAIN sessions PROVE RecordWeighed(sessions'[s].ops)
    <3>1. [sessions[s] EXCEPT !.aborted = TRUE].ops = sessions[s].ops
      BY <1>s DEF HostFine, Keyed, HostFields
    <3> QED BY <1>5, <1>s, <3>1
  <2> QED BY <1>5, <2>1 DEF SessionsWeighed
<1>6. CASE Dispatch
  <2>1. \/ UNCHANGED sessions
        \/ \E s, g : sessions' = Put(sessions, s, Host(g))
    BY <1>6 DEF Dispatch, LaunchTask, LaunchPlanner, PassPhase
  <2> QED BY <1>1, <1>2, <2>1
<1>7. ASSUME NEW i, TaskLands(i) \/ TaskConflicts(i) \/ Lands(i) \/ TogglesMilestone(i)
      PROVE  SessionsWeighed'
  BY <1>1, <1>7 DEF TaskLands, TaskConflicts, Lands, TogglesMilestone
<1>8. ASSUME NEW f, UserCancels(f) PROVE SessionsWeighed'
  BY <1>5, <1>8 DEF UserCancels
<1>9. CASE StartProject
  BY <1>2, <1>9 DEF StartProject, Opens
<1>10. ASSUME NEW s \in DOMAIN sessions, RecordOp(s) PROVE SessionsWeighed'
  <2>1. PICK op \in ProjectOps(sessions[s].draft) \cup FeatureOps(sessions[s].draft) :
          sessions' = [sessions EXCEPT ![s] = Record(sessions[s], op)]
    BY <1>10 DEF RecordOp
  <2>2. RecordWeighed(Record(sessions[s], op).ops)
    BY <1>s, RecordStaysWeighed
  <2> QED BY <1>s, <2>1, <2>2 DEF SessionsWeighed
<1>11. ASSUME NEW s \in DOMAIN sessions, Submit(s) \/ SessionErrs(s)
       PROVE  SessionsWeighed'
  BY <1>3, <1>11 DEF Submit, SessionErrs
<1>12. ASSUME NEW key \in DOMAIN runs, ResumeProject(key) PROVE SessionsWeighed'
  BY <1>2, <1>12 DEF ResumeProject, Opens
<1>13. ASSUME NEW key \in DOMAIN runs, CancelProject(key) PROVE SessionsWeighed'
  BY <1>5, <1>13 DEF CancelProject
<1>14. ASSUME NEW key \in DOMAIN runs,
              \/ \E branch \in BOOLEAN : ApproveFeature(key, branch)
              \/ RejectFeature(key) \/ ApproveProject(key) \/ RejectProject(key)
       PROVE  SessionsWeighed'
  BY <1>1, <1>14 DEF ApproveFeature, RejectFeature, ApproveProject, RejectProject
<1>15. ASSUME Crash \/ \E key \in DOMAIN runs :
                           CrashInApproval(key) \/ CrashAfterApplying(key)
       PROVE  SessionsWeighed'
  BY <1>4, <1>15 DEF Crash, CrashInApproval, CrashAfterApplying
<1> QED BY <1>6, <1>7, <1>8, <1>9, <1>10, <1>11, <1>12, <1>13, <1>14, <1>15
        DEF NextPlanning

\* So do the proposals that wait.
LEMMA RowsStayWeighed ==
    ASSUME PlanInv, WeightsInv, NextPlanning
    PROVE  RowsWeighed'
<1>r. \A key \in DOMAIN runs : HasProposal(key) => RecordWeighed(runs[key].payload.ops)
  BY DEF WeightsInv, RowsWeighed
<1>1. ASSUME UNCHANGED runs PROVE RowsWeighed'
  BY <1>1, <1>r DEF RowsWeighed, HasProposal
<1>2. ASSUME NEW key, NEW status, NEW payload, SetRun(key, status, payload),
             status = "await_approval" => RecordWeighed(payload.ops)
      PROVE  RowsWeighed'
  <2>1. /\ DOMAIN runs' = DOMAIN runs \cup {key}
        /\ runs'[key].status = status /\ runs'[key].payload = payload
        /\ \A k \in DOMAIN runs \ {key} : runs'[k] = runs[k]
    BY <1>2, RunsWritten
  <2> QED BY <1>2, <1>r, <2>1 DEF RowsWeighed, HasProposal
<1>3. ASSUME NEW key, NEW status, NEW payload, SetRun(key, status, payload),
             status # "await_approval"
      PROVE  RowsWeighed'
  BY <1>2, <1>3
<1>4. CASE Dispatch
  <2>1. UNCHANGED runs \/ \E key : SetRun(key, "running", Nothing)
    BY <1>4 DEF Dispatch, LaunchTask, LaunchPlanner, PassPhase
  <2> QED BY <1>1, <1>3, <2>1
<1>5. ASSUME NEW i, TaskLands(i) \/ TaskConflicts(i) \/ Lands(i) \/ TogglesMilestone(i)
      PROVE  RowsWeighed'
  BY <1>1, <1>5 DEF TaskLands, TaskConflicts, Lands, TogglesMilestone
<1>6. ASSUME NEW f, UserCancels(f) PROVE RowsWeighed'
  <2>1. /\ DOMAIN runs' = DOMAIN runs
        /\ \A key \in DOMAIN runs :
              runs'[key].status = "cancelled" \/ runs'[key] = runs[key]
    BY <1>6 DEF UserCancels, Row
  <2> QED BY <1>r, <2>1 DEF RowsWeighed, HasProposal
<1>7. CASE StartProject
  BY <1>3, <1>7 DEF StartProject
<1>8. ASSUME NEW s \in DOMAIN sessions, RecordOp(s) PROVE RowsWeighed'
  BY <1>1, <1>8 DEF RecordOp
<1>9. ASSUME NEW s \in DOMAIN sessions, Submit(s) PROVE RowsWeighed'
  <2>1. PICK payload : /\ SetRun(s[1], "await_approval", payload)
                       /\ payload.ops = sessions[s].ops
    BY <1>9 DEF Submit
  <2>2. RecordWeighed(payload.ops)
    BY <2>1 DEF WeightsInv, SessionsWeighed
  <2> QED BY <1>2, <2>1, <2>2
<1>10. ASSUME NEW s \in DOMAIN sessions, SessionErrs(s) PROVE RowsWeighed'
  <2>1. PICK status \in {"retry_await", "failed"} :
          UNCHANGED runs \/ SetRun(s[1], status, Nothing)
    BY <1>10 DEF SessionErrs
  <2> QED BY <1>1, <1>3, <2>1
<1>11. ASSUME NEW key \in DOMAIN runs,
              \/ ResumeProject(key) \/ CancelProject(key)
              \/ \E branch \in BOOLEAN : ApproveFeature(key, branch)
              \/ RejectFeature(key) \/ ApproveProject(key) \/ RejectProject(key)
       PROVE  RowsWeighed'
  <2>1. \E status \in {"running", "cancelled", "completed"} : SetRun(key, status, Nothing)
    BY <1>11 DEF ResumeProject, CancelProject, ApproveFeature, RejectFeature,
       ApproveProject, RejectProject
  <2> QED BY <1>3, <2>1
<1>12. ASSUME Crash \/ \E key \in DOMAIN runs :
                           CrashInApproval(key) \/ CrashAfterApplying(key)
       PROVE  RowsWeighed'
  BY <1>1, <1>12 DEF Crash, CrashInApproval, CrashAfterApplying
<1> QED BY <1>4, <1>5, <1>6, <1>7, <1>8, <1>9, <1>10, <1>11, <1>12 DEF NextPlanning

\* No step but a dispatch starts a task.
LEMMA OthersRest ==
    ASSUME PlanInv, WeightsInv, [NextPlanning]_planVars
    PROVE  Dispatch \/ TasksRest
<1>1. ASSUME UNCHANGED graph PROVE TasksRest
  BY <1>1 DEF WeightsInv, TasksRest, NoneStarted
<1>2. CASE UNCHANGED planVars
  BY <1>1, <1>2 DEF planVars
<1>3. ASSUME NEW i, \/ TaskLands(i) \/ TaskConflicts(i) \/ Lands(i)
                    \/ UserCancels(i) \/ TogglesMilestone(i)
      PROVE  TasksRest
  BY <1>3, WorkRests
<1>4. ASSUME \/ StartProject
             \/ \E s \in DOMAIN sessions : RecordOp(s) \/ Submit(s) \/ SessionErrs(s)
      PROVE  TasksRest
  BY <1>1, <1>4 DEF StartProject, RecordOp, Submit, SessionErrs
<1>5. ASSUME NEW key \in DOMAIN runs,
             \/ ResumeProject(key) \/ CancelProject(key)
             \/ RejectFeature(key) \/ RejectProject(key)
      PROVE  TasksRest
  BY <1>1, <1>5 DEF ResumeProject, CancelProject, RejectFeature, RejectProject
<1>6. ASSUME NEW key \in DOMAIN runs,
             \/ \E branch \in BOOLEAN : ApproveFeature(key, branch)
             \/ ApproveProject(key) \/ CrashInApproval(key)
             \/ CrashAfterApplying(key)
      PROVE  TasksRest
  BY <1>6, ApprovalRests
<1>7. CASE Crash
  <2>1. graph' = Loaded(graph) /\ WellFormed(graph)
    BY <1>7 DEF Crash, PlanInv, Good
  <2>2. Quiet(graph, Loaded(graph))
    BY <2>1, QuietOperations
  <2> QED BY <2>1, <2>2, QuietStep
<1> QED BY <1>2, <1>3, <1>4, <1>5, <1>6, <1>7 DEF NextPlanning

\* Tasks keep to the weights there are, through every record, approval and
\* crash.
THEOREM WeightsInvariant == SpecPlanning => []WeightsInv
<1>1. InitPlanning => WeightsInv
  BY PlanningConstants
     DEF InitPlanning, WeightsInv, SessionsWeighed, RowsWeighed
<1>2. PlanInv /\ WeightsInv /\ [NextPlanning]_planVars => WeightsInv'
  <2> SUFFICES ASSUME PlanInv, WeightsInv, [NextPlanning]_planVars PROVE WeightsInv'
    OBVIOUS
  <2>1. Weighed(graph')
    BY OthersRest, DispatchStarts DEF TasksRest
  <2>2. SessionsWeighed' /\ RowsWeighed'
    <3>1. CASE NextPlanning
      BY <3>1, SessionsStayWeighed, RowsStayWeighed
    <3>2. CASE UNCHANGED planVars
      BY <3>2 DEF planVars, WeightsInv, SessionsWeighed, RowsWeighed, HasProposal
    <3> QED BY <3>1, <3>2
  <2>3. Weighed(graph)'
    BY <2>1 DEF Weighed
  <2> QED BY <2>2, <2>3 DEF WeightsInv
<1> QED BY <1>1, <1>2, PlanInvariant, PTL DEF SpecPlanning

----------------------------------------------------------------------------
(* The unit that goes first *)

\* The first two keys of a unit do not depend on the depths.
LEMMA FirstKeys ==
    ASSUME NEW g, NEW depth, NEW units, NEW u, NEW v,
           SubSeq(Keys(g, << >>, units, u), 1, 2) = SubSeq(Keys(g, << >>, units, v), 1, 2)
    PROVE  /\ Keys(g, depth, units, u)[1] = Keys(g, depth, units, v)[1]
           /\ Keys(g, depth, units, u)[2] = Keys(g, depth, units, v)[2]
<1>1. ASSUME NEW a, NEW b, NEW c, NEW d
      PROVE  /\ SubSeq(<< a, b, c, d >>, 1, 2)[1] = a
             /\ SubSeq(<< a, b, c, d >>, 1, 2)[2] = b
  OBVIOUS
<1>2. ASSUME NEW e, NEW n
      PROVE  /\ SubSeq(Keys(g, e, units, n), 1, 2)[1] = Keys(g, e, units, n)[1]
             /\ SubSeq(Keys(g, e, units, n), 1, 2)[2] = Keys(g, e, units, n)[2]
  BY <1>1 DEF Keys
<1>3. ASSUME NEW n
      PROVE  /\ Keys(g, depth, units, n)[1] = Keys(g, << >>, units, n)[1]
             /\ Keys(g, depth, units, n)[2] = Keys(g, << >>, units, n)[2]
  BY DEF Keys
<1> QED BY <1>2, <1>3

\* Of units with the same first two keys, the deeper one precedes.
LEMMA DeeperPrecedes ==
    ASSUME NEW g, NEW depth, NEW units, NEW u \in DOMAIN depth, NEW v \in DOMAIN depth,
           depth[u] \in Nat, depth[v] \in Nat, depth[u] > depth[v],
           Keys(g, depth, units, u)[1] = Keys(g, depth, units, v)[1],
           Keys(g, depth, units, u)[2] = Keys(g, depth, units, v)[2]
    PROVE  Precedes(Keys(g, depth, units, u), Keys(g, depth, units, v))
<1>1. PICK a, b : a = Keys(g, depth, units, u) /\ b = Keys(g, depth, units, v)
  OBVIOUS
<1>2. 3 \in DOMAIN a /\ a[3] = - depth[u] /\ b[3] = - depth[v]
  BY <1>1 DEF Keys, DepthOf
<1>3. \A j \in 1..(3 - 1) : a[j] = b[j]
  <2>1. a[1] = b[1] /\ a[2] = b[2]
    BY <1>1
  <2>2. \A j \in 1..(3 - 1) : j = 1 \/ j = 2
    OBVIOUS
  <2> QED BY <2>1, <2>2
<1>4. a[3] < b[3]
  BY <1>2
<1> QED BY <1>1, <1>2, <1>3, <1>4 DEF Precedes

\* The task of a node belongs to an executing feature; a ready feature is not
\* executing.
LEMMA TiersTell ==
    ASSUME NEW g, NEW t, << "ts", t >> \in Nodes(g), NEW f, ReadyFeature(g, f)
    PROVE  Tier(g.fs[g.ts[t].feature].work) # Tier(g.fs[f].work)
<1>1. PICK h \in DOMAIN g.fs : << "ts", t >> \in NodesOf(g, h)
  BY DEF Nodes
<1>2. Expanded(g, h) /\ g.ts[t].feature = h
  BY <1>1 DEF NodesOf, TasksOf
<1>3. Category(g.fs[h].work) = "executing"
  BY <1>2 DEF Expanded
<1>4. g.fs[h].work = "executing"
  BY <1>3 DEF Category
<1>5. Tier("executing") = 1
  BY DEF Tier
<1>6. \A work \in {"discussing", "researching", "planning", "ci_check", "verifying",
                   "replanning", "summarizing"} : Tier(work) \in {0, 2, 3}
  BY DEF Tier
<1> QED BY <1>2, <1>4, <1>5, <1>6 DEF ReadyFeature

\* A ready task that goes first is as deep as any unit of equal milestone and
\* tier.
LEMMA FirstIsDeepest ==
    ASSUME NEW waiting, NEW t, << "ts", t >> \in First(waiting), NEW u \in Dispatchable,
           {<< "ts", t >>, u} \subseteq Nodes(graph),
           DOMAIN MaxDepth(graph) = Nodes(graph),
           \A n \in Nodes(graph) : MaxDepth(graph)[n] \in Nat,
           SubSeq(Keys(graph, << >>, ReadyUnits, u), 1, 2) =
             SubSeq(Keys(graph, << >>, ReadyUnits, << "ts", t >>), 1, 2)
    PROVE  MaxDepth(graph)[u] <= MaxDepth(graph)[<< "ts", t >>]
<1>o. PICK n, depth, C : /\ n = << "ts", t >> /\ depth = MaxDepth(graph)
                         /\ C = Dispatchable \ {<< "fs", f >> : f \in waiting}
  OBVIOUS
<1>1. /\ Keys(graph, depth, ReadyUnits, u)[1] = Keys(graph, depth, ReadyUnits, n)[1]
      /\ Keys(graph, depth, ReadyUnits, u)[2] = Keys(graph, depth, ReadyUnits, n)[2]
  BY <1>o, FirstKeys
<1>2. u \in C
  <2>1. ASSUME NEW f, u = << "fs", f >> PROVE FALSE
    <3>1. ReadyFeature(graph, f)
      BY <2>1 DEF Dispatchable, ReadyUnits, Units
    <3>2. Tier(graph.fs[graph.ts[t].feature].work) # Tier(graph.fs[f].work)
      BY <3>1, TiersTell
    <3>3. /\ Keys(graph, depth, ReadyUnits, u)[2] = Tier(graph.fs[f].work)
          /\ Keys(graph, depth, ReadyUnits, n)[2] = Tier(graph.fs[graph.ts[t].feature].work)
      BY <1>o, <2>1 DEF Keys, FeatureOf
    <3> QED BY <1>1, <3>2, <3>3
  <2> QED BY <1>o, <2>1
<1>3. ~ Precedes(Keys(graph, depth, ReadyUnits, u), Keys(graph, depth, ReadyUnits, n))
  BY <1>o, <1>2 DEF First, FirstUnits
<1>4. ~ depth[u] > depth[n]
  BY <1>1, <1>3, <1>o, DeeperPrecedes
<1> QED BY <1>4, <1>o

\* Of ready tasks of equal milestone and tier, the one dispatched holds up the
\* heaviest chain of remaining work (core/scheduling/index.ts), for every graph
\* the program may reach: the depths that order the list are computed over the
\* graph of nodes, the chains counted over the dependencies.
THEOREM HeaviestChainAlwaysFirst == SpecPlanning => HeaviestChainFirst
<1> DEFINE key(unit) == SubSeq(Keys(graph, << >>, ReadyUnits, unit), 1, 2)
           A == \A t \in DOMAIN graph.ts, u \in Dispatchable :
                   /\ graph.ts[t].status = "ready"
                   /\ t \in DOMAIN graph'.ts /\ graph'.ts[t].status = "running"
                   /\ \A f \in DOMAIN graph.fs :
                         Expanded(graph, f) => TasksOf(graph, f) # {}
                   /\ {<< "ts", t >>, u} \subseteq Nodes(graph)
                   /\ key(u) = key(<< "ts", t >>)
                   => ChainWeight(graph, u) <= ChainWeight(graph, << "ts", t >>)
<1>1. ASSUME PlanInv, WeightsInv, [NextPlanning]_planVars,
             NEW t \in DOMAIN graph.ts, NEW u \in Dispatchable,
             graph.ts[t].status = "ready",
             t \in DOMAIN graph'.ts, graph'.ts[t].status = "running",
             AllHaveTasks(graph), {<< "ts", t >>, u} \subseteq Nodes(graph),
             key(u) = key(<< "ts", t >>)
      PROVE  ChainWeight(graph, u) <= ChainWeight(graph, << "ts", t >>)
  <2>1. ~ NoneStarted(graph, graph')
    BY <1>1 DEF NoneStarted
  <2>1a. PICK waiting \in SUBSET Waits :
          \E i : /\ << "ts", i >> \in First(waiting)
                /\ graph' = [graph EXCEPT !.ts[i].status = "running"]
    BY <1>1, <2>1, OthersRest, DispatchStarts DEF TasksRest
  <2>2. PICK i : /\ << "ts", i >> \in First(waiting)
                 /\ graph' = [graph EXCEPT !.ts[i].status = "running"]
    BY <2>1a
  <2>3. i = t
    <3>1. graph'.ts = [graph.ts EXCEPT ![i].status = "running"]
      BY <1>1, <2>2 DEF PlanInv, Good, WellFormed, Keyed, GraphFields
    <3> QED BY <1>1, <3>1
  <2>4. << "ts", t >> \in First(waiting)
    BY <2>2, <2>3
  <2>5. Good(graph) /\ Weighed(graph)
    BY <1>1 DEF PlanInv, WeightsInv
  <2>6. /\ DOMAIN MaxDepth(graph) = Nodes(graph)
        /\ \A n \in Nodes(graph) : /\ MaxDepth(graph)[n] = ChainWeight(graph, n)
                                   /\ MaxDepth(graph)[n] \in Nat
    BY <1>1, <2>5, DepthIsChainWeight
  <2>7. MaxDepth(graph)[u] <= MaxDepth(graph)[<< "ts", t >>]
    BY <1>1, <2>4, <2>6, FirstIsDeepest
  <2> QED BY <1>1, <2>6, <2>7
<1>2. PlanInv /\ WeightsInv /\ [NextPlanning]_planVars => [A]_planVars
  BY <1>1 DEF AllHaveTasks
<1> HIDE DEF A
<1>3. SpecPlanning => [][A]_planVars
  BY <1>2, PlanInvariant, WeightsInvariant, PTL DEF SpecPlanning
<1> QED BY <1>3 DEF HeaviestChainFirst, A

=============================================================================
