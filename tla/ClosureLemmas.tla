--------------------------- MODULE ClosureLemmas ---------------------------
(***************************************************************************)
(* What a bounded walk over a finite graph computes.  The code walks its   *)
(* graphs (reachable_ids, _downstream_check_ids, the lineage of a witness) *)
(* until nothing new turns up; the models walk as many steps as the graph  *)
(* has nodes.  The lemmas say that such a walk exists as a function, that  *)
(* it meets everything there is to meet, and nothing else.                 *)
(***************************************************************************)
EXTENDS Integers, FiniteSets, FiniteSetTheorems, WellFoundedInduction, TLAPS

\* A set of numbers that is not empty has a least element.
LEMMA LeastNumber ==
    ASSUME NEW T \in SUBSET Nat, T # {}
    PROVE  \E m \in T : \A t \in T : m <= t
<1> DEFINE R == {ss \in Nat \X Nat : ss[1] < ss[2]}
<1>1. IsWellFoundedOn(R, Nat)
  BY NatLessThanWellFounded DEF OpToRel
<1> HIDE DEF R
<1>2. PICK m \in T : \A t \in T : <<t, m>> \notin R
  BY <1>1, WFMin, Zenon
<1>3. \A t \in T : ~ (t < m)
  BY <1>2 DEF R
<1> QED
  BY <1>3

\* A set of numbers up to n that is not empty has a greatest element.
LEMMA GreatestNumber ==
    ASSUME NEW n \in Nat, NEW D \in SUBSET (1..n), D # {}
    PROVE  \E i \in D : \A j \in D : j <= i
<1> DEFINE T == {m \in Nat : \E i \in D : m = n - i}
<1>1. T \in SUBSET Nat /\ T # {}
  <2>1. PICK i \in D : TRUE
    OBVIOUS
  <2>2. n - i \in Nat
    OBVIOUS
  <2> QED
    BY <2>2
<1>2. PICK m \in T : \A t \in T : m <= t
  <2> HIDE DEF T
  <2> QED
    BY <1>1, LeastNumber
<1>3. PICK i \in D : m = n - i
  OBVIOUS
<1>4. ASSUME NEW j \in D PROVE j <= i
  <2>1. n - j \in T
    OBVIOUS
  <2>2. m <= n - j
    BY <1>2, <2>1
  <2> QED
    BY <1>3, <2>2
<1> QED
  BY <1>4

\* f is made by repeating F from s on.
Iterates(f, s, F, N) == \A n \in 0..N : f[n] = IF n = 0 THEN s ELSE F[f[n - 1]]

\* A function on an initial segment of the numbers, defined by its first value and by
\* what one step F makes of a value, exists.
LEMMA IterationExists ==
    ASSUME NEW V, NEW F \in [V -> V], NEW s \in V, NEW N \in Nat
    PROVE  \E f \in [0..N -> V] : Iterates(f, s, F, N)
<1> USE DEF Iterates
<1> DEFINE T == {m \in Nat : ~ \E f \in [0..m -> V] : Iterates(f, s, F, m)}
<1>1. ASSUME T # {} PROVE FALSE
  <2>1. PICK m \in T : \A t \in T : m <= t
    BY <1>1, LeastNumber
  <2>2. m # 0
    <3>1. [n \in 0..0 |-> s] \in [0..0 -> V]
      OBVIOUS
    <3>2. Iterates([n \in 0..0 |-> s], s, F, 0)
      OBVIOUS
    <3> QED
      BY <2>1, <3>1, <3>2
  <2>3. m - 1 \in Nat /\ m - 1 \notin T
    <3>1. m \in Nat
      OBVIOUS
    <3> HIDE DEF T
    <3> QED
      BY <2>1, <2>2, <3>1
  <2>4. PICK f \in [0..(m - 1) -> V] : Iterates(f, s, F, m - 1)
    BY <2>3
  <2> DEFINE g == [n \in 0..m |-> IF n = m THEN F[f[m - 1]] ELSE f[n]]
  <2>5. g \in [0..m -> V]
    BY <2>1, <2>3
  <2>6. \A n \in 0..m : g[n] = IF n = 0 THEN s ELSE F[g[n - 1]]
    <3> SUFFICES ASSUME NEW n \in 0..m PROVE g[n] = IF n = 0 THEN s ELSE F[g[n - 1]]
      OBVIOUS
    <3>1. CASE n = m
      BY <2>1, <2>2, <2>3, <3>1
    <3>2. CASE n # m
      <4>1. n \in 0..(m - 1) /\ (n # 0 => n - 1 \in 0..m /\ n - 1 # m)
        BY <2>1, <3>2
      <4>2. g[n] = f[n] /\ (n # 0 => g[n - 1] = f[n - 1])
        BY <3>2, <4>1
      <4>3. f[n] = IF n = 0 THEN s ELSE F[f[n - 1]]
        BY <2>4, <4>1
      <4> QED
        BY <4>2, <4>3
    <3> QED
      BY <3>1, <3>2
  <2>7. Iterates(g, s, F, m)
    BY <2>6
  <2> QED
    BY <2>1, <2>5, <2>7
<1> QED
  BY <1>1

\* One walk of f from s over the graph of K with edges E.
Walks(f, s, K, E, N) ==
  \A n \in 0..N : f[n] = IF n = 0 THEN s ELSE f[n - 1] \cup UNION {E[x] : x \in f[n - 1] \cap K}

ClosedIn(S, K, E) == \A x \in S \cap K : E[x] \subseteq S

\* The walk exists.
LEMMA WalkExists ==
    ASSUME NEW U, NEW K, NEW E, \A x \in K : E[x] \subseteq U, NEW s \in SUBSET U, NEW N \in Nat
    PROVE  \E f \in [0..N -> SUBSET U] : Walks(f, s, K, E, N)
<1> DEFINE F == [S \in SUBSET U |-> S \cup UNION {E[x] : x \in S \cap K}]
<1>1. F \in [SUBSET U -> SUBSET U]
  OBVIOUS
<1>2. PICK f \in [0..N -> SUBSET U] : Iterates(f, s, F, N)
  <2> DEFINE V == SUBSET U
  <2>1. F \in [V -> V] /\ s \in V
    BY <1>1
  <2> HIDE DEF F, V
  <2>2. \E f \in [0..N -> V] : Iterates(f, s, F, N)
    BY <2>1, IterationExists
  <2> QED
    BY <2>2 DEF V
<1>3. \A n \in 0..N : n # 0 => n - 1 \in 0..N /\ f[n - 1] \in SUBSET U
  OBVIOUS
<1>4. \A n \in 0..N :
        f[n] = IF n = 0 THEN s ELSE f[n - 1] \cup UNION {E[x] : x \in f[n - 1] \cap K}
  <2> SUFFICES ASSUME NEW n \in 0..N
               PROVE  f[n] = IF n = 0 THEN s
                             ELSE f[n - 1] \cup UNION {E[x] : x \in f[n - 1] \cap K}
    OBVIOUS
  <2>1. f[n] = IF n = 0 THEN s ELSE F[f[n - 1]]
    BY <1>2 DEF Iterates
  <2>2. n # 0 => F[f[n - 1]] = f[n - 1] \cup UNION {E[x] : x \in f[n - 1] \cap K}
    BY <1>3
  <2> QED
    BY <2>1, <2>2
<1> QED
  BY <1>4 DEF Walks

\* The walk stays in every closed set it starts in.
LEMMA WalkStays ==
    ASSUME NEW K, NEW E, NEW s, NEW N \in Nat, NEW f, Walks(f, s, K, E, N),
           NEW C, s \subseteq C, ClosedIn(C, K, E)
    PROVE  \A n \in 0..N : f[n] \subseteq C
<1> DEFINE T == {m \in 0..N : ~ (f[m] \subseteq C)}
<1>1. ASSUME T # {} PROVE FALSE
  <2> T \in SUBSET Nat
    OBVIOUS
  <2> HIDE DEF T
  <2>1. PICK m \in T : \A t \in T : m <= t
    BY <1>1, LeastNumber
  <2> USE DEF T
  <2>2. m # 0
    BY <2>1 DEF Walks
  <2>3. m - 1 \in 0..N /\ m - 1 \notin T
    BY <2>1, <2>2
  <2>4. f[m] = f[m - 1] \cup UNION {E[x] : x \in f[m - 1] \cap K}
    BY <2>1, <2>2 DEF Walks
  <2> QED
    BY <2>1, <2>3, <2>4 DEF ClosedIn
<1> QED
  BY <1>1

\* It never forgets where it started.
LEMMA WalkKeeps ==
    ASSUME NEW K, NEW E, NEW s, NEW N \in Nat, NEW f, Walks(f, s, K, E, N)
    PROVE  \A n \in 0..N : s \subseteq f[n]
<1> DEFINE T == {m \in 0..N : ~ (s \subseteq f[m])}
<1>1. ASSUME T # {} PROVE FALSE
  <2> T \in SUBSET Nat
    OBVIOUS
  <2> HIDE DEF T
  <2>1. PICK m \in T : \A t \in T : m <= t
    BY <1>1, LeastNumber
  <2> USE DEF T
  <2>2. m # 0
    BY <2>1 DEF Walks
  <2>3. m - 1 \in 0..N /\ m - 1 \notin T
    BY <2>1, <2>2
  <2>4. f[m] = f[m - 1] \cup UNION {E[x] : x \in f[m - 1] \cap K}
    BY <2>1, <2>2 DEF Walks
  <2> QED
    BY <2>1, <2>3, <2>4
<1> QED
  BY <1>1

\* As many steps as the graph has nodes meet everything: the walk ends in a closed set,
\* because a step that does not close it meets a node more.
LEMMA WalkCloses ==
    ASSUME NEW K, IsFiniteSet(K), NEW E, NEW s, NEW f, Walks(f, s, K, E, Cardinality(K))
    PROVE  ClosedIn(f[Cardinality(K)], K, E)
<1> DEFINE N == Cardinality(K)
           T == {m \in 0..N : ~ ClosedIn(f[m], K, E) /\ Cardinality(f[m] \cap K) <= m}
<1>1. N \in Nat
  BY FS_CardinalityType
<1>2. \A m \in 0..N : /\ IsFiniteSet(f[m] \cap K)
                    /\ Cardinality(f[m] \cap K) \in Nat
                    /\ Cardinality(f[m] \cap K) <= N
  <2> SUFFICES ASSUME NEW m \in 0..N PROVE /\ IsFiniteSet(f[m] \cap K)
                                          /\ Cardinality(f[m] \cap K) \in Nat
                                          /\ Cardinality(f[m] \cap K) <= N
    OBVIOUS
  <2>1. f[m] \cap K \in SUBSET K
    OBVIOUS
  <2> QED
    BY <2>1, FS_Subset, FS_CardinalityType
<1>3. ASSUME T # {} PROVE FALSE
  <2> T \in SUBSET Nat
    BY <1>1
  <2> HIDE DEF T
  <2>1. PICK m \in T : \A t \in T : m <= t
    BY <1>3, LeastNumber
  <2> USE DEF T
  <2>2. CASE m = 0
    <3>1. Cardinality(f[0] \cap K) = 0
      BY <1>2, <2>1, <2>2
    <3>2. f[0] \cap K = {}
      BY <1>2, <2>1, <2>2, <3>1, FS_EmptySet
    <3> QED
      BY <2>1, <2>2, <3>2 DEF ClosedIn
  <2>3. CASE m # 0
    <3>1. m \in 0..N /\ m - 1 \in 0..N /\ m - 1 \notin T
      BY <1>1, <2>1, <2>3
    <3>2. f[m] = f[m - 1] \cup UNION {E[x] : x \in f[m - 1] \cap K}
      BY <2>3, <3>1 DEF Walks
    <3>3. CASE ClosedIn(f[m - 1], K, E)
      <4>1. f[m] = f[m - 1]
        BY <3>2, <3>3 DEF ClosedIn
      <4> QED
        BY <2>1, <3>3, <4>1
    <3>4. CASE Cardinality(f[m - 1] \cap K) > m - 1
      <4>1. f[m - 1] \cap K \in SUBSET (f[m] \cap K)
        BY <3>2
      <4>2. /\ Cardinality(f[m - 1] \cap K) <= Cardinality(f[m] \cap K)
            /\ (Cardinality(f[m] \cap K) = Cardinality(f[m - 1] \cap K)
                  => f[m] \cap K = f[m - 1] \cap K)
        BY <1>2, <3>1, <4>1, FS_Subset
      <4>3. Cardinality(f[m] \cap K) = Cardinality(f[m - 1] \cap K)
        BY <1>2, <2>1, <3>1, <3>4, <4>2
      <4>4. f[m] \cap K = f[m - 1] \cap K
        BY <4>2, <4>3
      <4>5. \A x \in f[m] \cap K : E[x] \subseteq f[m]
        BY <3>2, <4>4
      <4> QED
        BY <2>1, <4>5 DEF ClosedIn
    <3> QED
      BY <1>2, <3>1, <3>3, <3>4
  <2> QED
    BY <2>2, <2>3
<1>4. CASE ~ ClosedIn(f[N], K, E)
  <2>1. N \in 0..N /\ Cardinality(f[N] \cap K) <= N
    BY <1>1, <1>2
  <2> QED
    BY <1>3, <1>4, <2>1
<1> QED
  BY <1>4

\* What a walk of that many steps ends with is the smallest closed set around its start.
FullWalk(U, K, E, s, f, R) ==
  /\ K \subseteq U /\ IsFiniteSet(K) /\ \A x \in K : E[x] \subseteq U
  /\ s \subseteq U /\ Walks(f, s, K, E, Cardinality(K)) /\ R = f[Cardinality(K)]

SmallestAround(U, K, E, s, R) ==
  /\ s \subseteq R /\ R \subseteq U /\ ClosedIn(R, K, E)
  /\ \A C : s \subseteq C /\ ClosedIn(C, K, E) => R \subseteq C

LEMMA WalkMeets ==
    ASSUME NEW U, NEW K, NEW E, NEW s, NEW f, NEW R, FullWalk(U, K, E, s, f, R)
    PROVE  SmallestAround(U, K, E, s, R)
<1> DEFINE N == Cardinality(K)
<1>1. N \in Nat /\ N \in 0..N /\ R = f[N] /\ Walks(f, s, K, E, N)
  BY FS_CardinalityType DEF FullWalk
<1>2. s \subseteq f[N] /\ \A C : s \subseteq C /\ ClosedIn(C, K, E) => f[N] \subseteq C
  <2> HIDE DEF N
  <2> QED
    BY <1>1, WalkKeeps, WalkStays
<1>3. ClosedIn(f[N], K, E)
  BY <1>1, WalkCloses DEF FullWalk
<1>4. ClosedIn(U, K, E) /\ s \subseteq U
  BY DEF ClosedIn, FullWalk
<1> HIDE DEF N
<1> QED
  BY <1>1, <1>2, <1>3, <1>4 DEF SmallestAround

(***************************************************************************)
(* The same when every node has edges, as the models write it.             *)
(***************************************************************************)
WalksAll(f, s, E, N) ==
  \A n \in 0..N : f[n] = IF n = 0 THEN s ELSE f[n - 1] \cup UNION {E[x] : x \in f[n - 1]}

LEMMA WalkAllExists ==
    ASSUME NEW U, NEW E, \A x \in U : E[x] \subseteq U, NEW s \in SUBSET U, NEW N \in Nat
    PROVE  \E f \in [0..N -> SUBSET U] : WalksAll(f, s, E, N)
<1>1. PICK f \in [0..N -> SUBSET U] : Walks(f, s, U, E, N)
  BY WalkExists
<1>2. \A n \in 0..N : n # 0 => n - 1 \in 0..N /\ f[n - 1] \cap U = f[n - 1]
  OBVIOUS
<1>3. WalksAll(f, s, E, N)
  BY <1>1, <1>2 DEF Walks, WalksAll
<1> QED
  BY <1>3

LEMMA WalkMeetsAll ==
    ASSUME NEW U, IsFiniteSet(U), NEW E, \A x \in U : E[x] \subseteq U,
           NEW s \in SUBSET U, NEW f, WalksAll(f, s, E, Cardinality(U))
    PROVE  SmallestAround(U, U, E, s, f[Cardinality(U)])
<1> DEFINE N == Cardinality(U)
<1>1. N \in Nat /\ N \in 0..N /\ WalksAll(f, s, E, N)
  BY FS_CardinalityType
<1>2. \A n \in 0..N : f[n] \subseteq U
  <2> DEFINE T == {n \in 0..N : ~ (f[n] \subseteq U)}
  <2> SUFFICES ASSUME T # {} PROVE FALSE
    OBVIOUS
  <2> HIDE DEF N
  <2>1. T \in SUBSET Nat
    BY <1>1
  <2>2. PICK m \in T : \A t \in T : m <= t
    <3> HIDE DEF T
    <3> QED
      BY <2>1, LeastNumber
  <2>3. m # 0
    BY <1>1 DEF WalksAll
  <2>4. m - 1 \in 0..N /\ m - 1 \notin T
    BY <1>1, <2>2, <2>3
  <2>5. f[m] = f[m - 1] \cup UNION {E[x] : x \in f[m - 1]}
    BY <1>1, <2>3 DEF WalksAll
  <2> QED
    BY <2>4, <2>5
<1>3. Walks(f, s, U, E, N)
  <2> HIDE DEF N
  <2>1. \A n \in 0..N : n # 0 => n - 1 \in 0..N /\ f[n - 1] \cap U = f[n - 1]
    BY <1>1, <1>2
  <2> QED
    BY <1>1, <2>1 DEF Walks, WalksAll
<1>4. FullWalk(U, U, E, s, f, f[Cardinality(U)])
  BY <1>3 DEF FullWalk
<1> QED
  BY <1>4, WalkMeets

(***************************************************************************)
(* A loop that visits the entries of a list one after the other.           *)
(***************************************************************************)
\* Induction along a loop: what holds of its start and of each turn after one of which it
\* holds, holds of every turn.
LEMMA TurnByTurn ==
    ASSUME NEW N \in Nat, NEW T, 0 \in T, \A n \in 1..N : n - 1 \in T => n \in T
    PROVE  0..N \subseteq T
<1> DEFINE Rest == {n \in 0..N : n \notin T}
<1> SUFFICES ASSUME Rest # {} PROVE FALSE
  OBVIOUS
<1>1. Rest \in SUBSET Nat
  OBVIOUS
<1>2. PICK m \in Rest : \A t \in Rest : m <= t
  <2> HIDE DEF Rest
  <2> QED
    BY <1>1, LeastNumber
<1>3. m \in 1..N /\ m - 1 \in 0..N
  OBVIOUS
<1>4. m - 1 \notin Rest
  <2> HIDE DEF Rest
  <2> QED
    BY <1>2, <1>3
<1> QED
  BY <1>3, <1>4

\* f is what a loop makes of s, its turn n doing F[n].
Accumulates(f, s, F, N) == \A n \in 0..N : f[n] = IF n = 0 THEN s ELSE F[n][f[n - 1]]

\* The values a loop goes through exist as a function.
LEMMA AccumulationExists ==
    ASSUME NEW V, NEW N \in Nat, NEW F \in [1..N -> [V -> V]], NEW s \in V
    PROVE  \E f \in [0..N -> V] : Accumulates(f, s, F, N)
<1> DEFINE T == {m \in 0..N : \E f \in [0..m -> V] : Accumulates(f, s, F, m)}
<1>1. 0 \in T
  <2> DEFINE f == [n \in 0..0 |-> s]
  <2>1. f \in [0..0 -> V] /\ Accumulates(f, s, F, 0)
    BY DEF Accumulates
  <2> QED
    BY <2>1
<1>2. ASSUME NEW m \in 1..N, m - 1 \in T PROVE m \in T
  <2>1. PICK f \in [0..(m - 1) -> V] : Accumulates(f, s, F, m - 1)
    BY <1>2
  <2>2. m - 1 \in 0..(m - 1) /\ F[m][f[m - 1]] \in V
    <3>1. m - 1 \in 0..(m - 1)
      OBVIOUS
    <3>2. f[m - 1] \in V /\ F[m] \in [V -> V]
      BY <3>1
    <3> QED
      BY <3>1, <3>2
  <2> DEFINE g == [n \in 0..m |-> IF n = m THEN F[m][f[m - 1]] ELSE f[n]]
  <2>3. g \in [0..m -> V]
    BY <2>2
  <2>4. Accumulates(g, s, F, m)
    <3> SUFFICES ASSUME NEW n \in 0..m
                 PROVE  g[n] = IF n = 0 THEN s ELSE F[n][g[n - 1]]
      BY DEF Accumulates
    <3>1. CASE n = m
      BY <3>1
    <3>2. CASE n # m
      <4>1. n \in 0..(m - 1) /\ (n # 0 => n - 1 \in 0..m /\ n - 1 # m)
        BY <3>2
      <4>2. g[n] = f[n] /\ (n # 0 => g[n - 1] = f[n - 1])
        BY <3>2, <4>1
      <4> QED
        BY <2>1, <4>1, <4>2 DEF Accumulates
    <3> QED
      BY <3>1, <3>2
  <2> QED
    BY <2>3, <2>4
<1> HIDE DEF T
<1>3. N \in 0..N /\ 0..N \subseteq T
  <2>1. \A m \in 1..N : m - 1 \in T => m \in T
    BY <1>2
  <2>2. 0..N \subseteq T
    BY <1>1, <2>1, TurnByTurn, Zenon
  <2> QED
    BY <2>2
<1> QED
  BY <1>3 DEF T

=============================================================================
