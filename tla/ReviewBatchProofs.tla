------------------------- MODULE ReviewBatchProofs -------------------------
(***************************************************************************)
(* The batch transaction, for any plan, sources, submissions and           *)
(* assessments: the committed artifact compiles again (SavedReplays), what *)
(* it rests on stands (OwnersStandBehind, EveryCalculationCounts), and the *)
(* transaction implements CommitLedger.                                    *)
(*                                                                         *)
(* The walk a CHECK's verdict takes through the witnesses is replaced by   *)
(* the least set of (CHECK, witness, path) it meets; an artifact that      *)
(* agrees with another on a set of CHECKs closed under upstreams carries   *)
(* the verdicts of that set over (Carries), which is why a batch may be    *)
(* committed in part and a recheck may drop CHECKs.                        *)
(***************************************************************************)
EXTENDS ReviewBatch, ClosureLemmas

USE GateAssumption

-----------------------------------------------------------------------------
(* Operators. *)

UpstreamClosed(S) == \A c \in S : Upstream[c] \subseteq S

\* UpstreamOf is what a CHECK rests on, itself included, and nothing else.
LEMMA UpstreamOfIs ==
    ASSUME NEW c \in Checks
    PROVE  /\ c \in UpstreamOf[c] /\ UpstreamOf[c] \subseteq Checks
           /\ UpstreamClosed(UpstreamOf[c])
           /\ \A C \in SUBSET Checks : c \in C /\ UpstreamClosed(C) => UpstreamOf[c] \subseteq C
<1> DEFINE N == Cardinality(Checks)
           Is(f) == f = [n \in 0..N |->
                           IF n = 0 THEN {c}
                           ELSE f[n - 1] \cup UNION {Upstream[x] : x \in f[n - 1]}]
           near == CHOOSE f : Is(f)
<1>1. UpstreamOf[c] = near[N]
  BY DEF UpstreamOf
<1>2. {c} \in SUBSET Checks /\ \A x \in Checks : Upstream[x] \subseteq Checks
  OBVIOUS
<1>3. Is(near)
  <2>1. N \in Nat
    BY FS_CardinalityType
  <2>2. PICK f \in [0..N -> SUBSET Checks] : WalksAll(f, {c}, Upstream, N)
    <3> HIDE DEF N
    <3> QED
      BY <1>2, <2>1, WalkAllExists
  <2>3. Is(f)
    BY <2>2 DEF WalksAll
  <2> QED
    BY <2>3, Zenon
<1>4. WalksAll(near, {c}, Upstream, N)
  <2> HIDE DEF N, near
  <2> QED
    BY <1>3 DEF WalksAll
<1>5. /\ {c} \subseteq near[N] /\ near[N] \subseteq Checks
      /\ \A x \in near[N] : Upstream[x] \subseteq near[N]
      /\ \A C \in SUBSET Checks :
           {c} \subseteq C /\ (\A x \in C : Upstream[x] \subseteq C) => near[N] \subseteq C
  <2> HIDE DEF near
  <2>1. SmallestAround(Checks, Checks, Upstream, {c}, near[N])
    BY <1>2, <1>4, WalkMeetsAll
  <2> HIDE DEF N
  <2> QED
    BY <2>1 DEF SmallestAround, ClosedIn
<1> QED
  BY <1>1, <1>5 DEF UpstreamClosed

OperandsOf(w) == Ids(Witness[w].refs, "WITNESS")

\* The basis of a calculation is closed over operands, and the smallest set that is.
LEMMA BasisIs ==
    ASSUME NEW w \in WitnessIds
    PROVE  /\ w \in Basis[w] /\ Basis[w] \subseteq WitnessIds
           /\ \A x \in Basis[w] : OperandsOf(x) \subseteq Basis[w]
           /\ \A C \in SUBSET WitnessIds :
                w \in C /\ (\A x \in C : OperandsOf(x) \subseteq C) => Basis[w] \subseteq C
<1> DEFINE N == Cardinality(WitnessIds)
           Is(f) == f = [n \in 0..N |->
                           IF n = 0 THEN {w}
                           ELSE f[n - 1] \cup UNION {OperandsOf(x) : x \in f[n - 1]}]
           near == CHOOSE f : Is(f)
           edges == [x \in WitnessIds |-> OperandsOf(x)]
<1>1. Basis[w] = near[N]
  BY DEF Basis, OperandsOf
<1>2. /\ {w} \in SUBSET WitnessIds
      /\ \A x \in WitnessIds : edges[x] \subseteq WitnessIds /\ edges[x] = OperandsOf(x)
  BY DEF OperandsOf
<1>3. Is(near)
  <2>1. N \in Nat
    BY FS_CardinalityType
  <2>2. PICK f \in [0..N -> SUBSET WitnessIds] : WalksAll(f, {w}, edges, N)
    <3> HIDE DEF N, edges
    <3> QED
      BY <1>2, <2>1, WalkAllExists
  <2>3. \A n \in 0..N : n # 0 =>
          UNION {edges[x] : x \in f[n - 1]} = UNION {OperandsOf(x) : x \in f[n - 1]}
    <3> HIDE DEF edges
    <3> QED
      BY <1>2, <2>1
  <2>4. Is(f)
    BY <2>2, <2>3 DEF WalksAll
  <2> QED
    BY <2>4, Zenon
<1>4. WalksAll(near, {w}, edges, N)
  <2>1. \A n \in 0..N :
          near[n] = IF n = 0 THEN {w}
                    ELSE near[n - 1] \cup UNION {OperandsOf(x) : x \in near[n - 1]}
    <3> HIDE DEF N, near
    <3> QED
      BY <1>3
  <2>2. \A n \in 0..N : near[n] \subseteq WitnessIds
    <3> DEFINE T == {n \in 0..N : ~ (near[n] \subseteq WitnessIds)}
    <3> SUFFICES ASSUME T # {} PROVE FALSE
      OBVIOUS
    <3>1. N \in Nat
      BY FS_CardinalityType
    <3> HIDE DEF N, near
    <3>2. T \in SUBSET Nat
      BY <3>1
    <3>3. PICK m \in T : \A t \in T : m <= t
      <4> HIDE DEF T
      <4> QED
        BY <3>2, LeastNumber
    <3>4. m # 0
      BY <2>1, <3>3
    <3>5. m - 1 \in 0..N /\ m - 1 \notin T
      BY <3>1, <3>3, <3>4
    <3>6. near[m] = near[m - 1] \cup UNION {OperandsOf(x) : x \in near[m - 1]}
      BY <2>1, <3>4
    <3> QED
      BY <1>2, <3>5, <3>6
  <2>3. \A n \in 0..N : n # 0 => n - 1 \in 0..N
    BY FS_CardinalityType
  <2>4. \A n \in 0..N : n # 0 =>
          UNION {edges[x] : x \in near[n - 1]} = UNION {OperandsOf(x) : x \in near[n - 1]}
    <3> HIDE DEF edges, near, N
    <3> QED
      BY <1>2, <2>2, <2>3
  <2> HIDE DEF edges, near, N
  <2> QED
    BY <2>1, <2>4 DEF WalksAll
<1>5. /\ {w} \subseteq near[N] /\ near[N] \subseteq WitnessIds
      /\ \A x \in near[N] : edges[x] \subseteq near[N]
      /\ \A C \in SUBSET WitnessIds :
           {w} \subseteq C /\ (\A x \in C : edges[x] \subseteq C) => near[N] \subseteq C
  <2> HIDE DEF edges, near
  <2>1. SmallestAround(WitnessIds, WitnessIds, edges, {w}, near[N])
    BY <1>2, <1>4, WalkMeetsAll
  <2> HIDE DEF N
  <2> QED
    BY <2>1 DEF SmallestAround, ClosedIn
<1> HIDE DEF edges, near, N
<1> QED
  BY <1>1, <1>2, <1>5

\* What is ready is committed or accepted, and rests on what is ready.
LEMMA ReadyIs ==
    ASSUME NEW ok \in SUBSET Checks
    PROVE  /\ Committed \subseteq Ready(ok) /\ Ready(ok) \subseteq Committed \cup ok
           /\ UpstreamClosed(Committed) => UpstreamClosed(Ready(ok))
<1> DEFINE N == Cardinality(Checks)
           Is(f) == f = [n \in 0..N |->
                           IF n = 0 THEN Committed
                           ELSE f[n - 1] \cup {c \in ok : Upstream[c] \subseteq f[n - 1]}]
           near == CHOOSE f : Is(f)
           F == [S \in SUBSET Checks |-> S \cup {c \in ok : Upstream[c] \subseteq S}]
<1>1. Ready(ok) = near[N]
  BY DEF Ready
<1>2. Committed \in SUBSET Checks /\ F \in [SUBSET Checks -> SUBSET Checks]
  BY DEF Committed
<1>3. N \in Nat
  BY FS_CardinalityType
<1>4. Is(near)
  <2>1. PICK f \in [0..N -> SUBSET Checks] : Iterates(f, Committed, F, N)
    <3> DEFINE V == SUBSET Checks
               s == Committed
    <3>1. s \in V /\ F \in [V -> V]
      BY <1>2
    <3> HIDE DEF N, F, V, s
    <3>2. \E f \in [0..N -> V] : Iterates(f, s, F, N)
      BY <1>3, <3>1, IterationExists
    <3> QED
      BY <3>2 DEF V, s
  <2>2. \A n \in 0..N : n # 0 => n - 1 \in 0..N /\ f[n - 1] \in SUBSET Checks
    BY <1>3
  <2>3. Is(f)
    BY <2>1, <2>2 DEF Iterates
  <2> QED
    BY <2>3, Zenon
<1>5. \A n \in 0..N :
        near[n] = IF n = 0 THEN Committed
                  ELSE near[n - 1] \cup {c \in ok : Upstream[c] \subseteq near[n - 1]}
  <2> HIDE DEF N, near
  <2> QED
    BY <1>4
<1> DEFINE Good(S) == /\ Committed \subseteq S /\ S \subseteq Committed \cup ok
                      /\ UpstreamClosed(Committed) => UpstreamClosed(S)
<1>6. \A n \in 0..N : Good(near[n])
  <2> DEFINE T == {n \in 0..N : ~ Good(near[n])}
  <2> SUFFICES ASSUME T # {} PROVE FALSE
    OBVIOUS
  <2> HIDE DEF N, near
  <2>1. T \in SUBSET Nat
    BY <1>3
  <2>2. PICK m \in T : \A t \in T : m <= t
    <3> HIDE DEF T
    <3> QED
      BY <2>1, LeastNumber
  <2>3. m # 0
    BY <1>5, <2>2
  <2>4. m - 1 \in 0..N /\ m - 1 \notin T
    <3>1. m \in Nat /\ m \in 0..N
      BY <1>3
    <3> HIDE DEF T
    <3> QED
      BY <1>3, <2>2, <2>3, <3>1
  <2>5. near[m] = near[m - 1] \cup {c \in ok : Upstream[c] \subseteq near[m - 1]}
    BY <1>5, <2>3
  <2>6. Good(near[m - 1])
    BY <2>4
  <2> QED
    BY <2>5, <2>6 DEF UpstreamClosed
<1>7. N \in 0..N
  BY <1>3
<1> HIDE DEF N, near
<1> QED
  BY <1>1, <1>6, <1>7
-----------------------------------------------------------------------------
(* What it is for a witness to be valid: the walk of _validate_witness. *)

Walked == Checks \X WitnessIds \X SUBSET WitnessIds

\* Witness x counts when CHECK node names it, its operands left aside
Stands(A, node, x) ==
  /\ x \in A.witnesses
  /\ OwnedWitness(A, node, x)
  /\ Ids(Witness[x].refs, "CLAIM") \subseteq A.claims \cap A.sub[Witness[x].check].claims

\* The step from x, reached along path, to its operand p
NextOn(x, p, path) == <<Witness[x].check, p, path \cup {x}>>

\* H holds the <<node, witness, path>> at which the walk ends well.
Accepts(A, H) ==
  \A node \in Checks, x \in WitnessIds, path \in SUBSET WitnessIds :
    <<node, x, path>> \in H <=>
      /\ Stands(A, node, x)
      /\ x \notin path
      /\ \A p \in OperandsOf(x) : NextOn(x, p, path) \in H

\* A path that meets a witness more has fewer left.
LEMMA PathShortens ==
    ASSUME NEW path \in SUBSET WitnessIds, NEW x \in WitnessIds \ path
    PROVE  /\ path \cup {x} \in SUBSET WitnessIds
           /\ Cardinality(WitnessIds \ path) \in Nat
           /\ Cardinality(WitnessIds \ (path \cup {x})) \in Nat
           /\ Cardinality(WitnessIds \ (path \cup {x})) < Cardinality(WitnessIds \ path)
<1> DEFINE left == WitnessIds \ path
           then == WitnessIds \ (path \cup {x})
<1>1. left \in SUBSET WitnessIds /\ then \in SUBSET left /\ then # left
  OBVIOUS
<1>2. IsFiniteSet(left)
  BY <1>1, FS_Subset
<1>3. IsFiniteSet(then) /\ Cardinality(then) <= Cardinality(left)
      /\ (Cardinality(left) = Cardinality(then) => left = then)
  BY <1>1, <1>2, FS_Subset
<1>4. Cardinality(left) \in Nat /\ Cardinality(then) \in Nat
  BY <1>2, <1>3, FS_CardinalityType
<1> QED
  BY <1>1, <1>3, <1>4

\* The walk takes one step from each of D's elements, judged by the set H.
StepOf(A, H) ==
  {v \in Walked : /\ Stands(A, v[1], v[2])
                  /\ v[2] \notin v[3]
                  /\ \A p \in OperandsOf(v[2]) : NextOn(v[2], p, v[3]) \in H}

LEMMA StepOfIs ==
    ASSUME NEW A, NEW H, NEW node \in Checks, NEW x \in WitnessIds, NEW path \in SUBSET WitnessIds
    PROVE  <<node, x, path>> \in StepOf(A, H) <=>
             /\ Stands(A, node, x)
             /\ x \notin path
             /\ \A p \in OperandsOf(x) : NextOn(x, p, path) \in H
<1>1. PICK v : v = <<node, x, path>>
  OBVIOUS
<1>2. v \in Walked /\ v[1] = node /\ v[2] = x /\ v[3] = path
  BY <1>1 DEF Walked
<1>3. v \in StepOf(A, H) <=>
        /\ Stands(A, node, x)
        /\ x \notin path
        /\ \A p \in OperandsOf(x) : NextOn(x, p, path) \in H
  BY <1>2 DEF StepOf
<1> QED
  BY <1>1, <1>3

LEMMA NextOnIs ==
    ASSUME NEW x \in WitnessIds, NEW p \in OperandsOf(x), NEW path \in SUBSET WitnessIds
    PROVE  NextOn(x, p, path) \in Walked
  BY DEF NextOn, OperandsOf, Walked
\* As many steps as there are witnesses decide every path, so the walk is well defined.
LEMMA StepsSettle ==
    ASSUME NEW A
    PROVE  \E H \in SUBSET Walked : H = StepOf(A, H)
<1> DEFINE N == Cardinality(WitnessIds)
           V == SUBSET Walked
           F == [H \in V |-> StepOf(A, H)]
           Left(path) == Cardinality(WitnessIds \ path)
<1>1. N \in Nat /\ N + 1 \in Nat
  BY FS_CardinalityType
<1>2. F \in [V -> V] /\ {} \in V
  BY DEF StepOf
<1>3. PICK f \in [0..(N + 1) -> V] : Iterates(f, {}, F, N + 1)
  <2> DEFINE M == N + 1
             s == {}
  <2>1. M \in Nat /\ s \in V
    BY <1>1, <1>2
  <2> HIDE DEF M, F, V, s
  <2>2. \E f \in [0..M -> V] : Iterates(f, s, F, M)
    BY <1>2, <2>1, IterationExists
  <2> QED
    BY <2>2 DEF M, s
<1>4. \A n \in 0..N : n \in 0..(N + 1) /\ n + 1 \in 0..(N + 1) /\ n + 1 # 0 /\ (n + 1) - 1 = n
  BY <1>1
<1>5. f[0] = {} /\ \A n \in 0..N : f[n] \in V /\ f[n + 1] \in V /\ f[n + 1] = StepOf(A, f[n])
  <2>1. 0 \in 0..(N + 1)
    BY <1>1
  <2>2. f[0] = {}
    BY <1>3, <2>1 DEF Iterates
  <2>3. ASSUME NEW n \in 0..N PROVE f[n] \in V /\ f[n + 1] \in V /\ f[n + 1] = StepOf(A, f[n])
    <3>1. f[n] \in V /\ f[n + 1] \in V
      BY <1>3, <1>4
    <3>2. f[n + 1] = F[f[n]]
      <4> HIDE DEF F, N
      <4> QED
        BY <1>3, <1>4 DEF Iterates
    <3> HIDE DEF V
    <3> QED
      BY <3>1, <3>2
  <2> QED
    BY <2>2, <2>3
<1> DEFINE Settled(n) == \A node \in Checks, x \in WitnessIds, path \in SUBSET WitnessIds :
                           Left(path) <= n => (<<node, x, path>> \in f[n + 1] <=> <<node, x, path>> \in f[n])
<1>6. \A n \in 0..N : Settled(n)
  <2> DEFINE T == {n \in 0..N : ~ Settled(n)}
  <2> SUFFICES ASSUME T # {} PROVE FALSE
    OBVIOUS
  <2> HIDE DEF Settled, N
  <2>1. T \in SUBSET Nat
    BY <1>1
  <2>2. PICK m \in T : \A t \in T : m <= t
    <3> HIDE DEF T
    <3> QED
      BY <2>1, LeastNumber
  <2>3. m \in 0..N /\ m \in Nat
    BY <2>1
  <2>4. Settled(m)
    <3> SUFFICES ASSUME NEW node \in Checks, NEW x \in WitnessIds, NEW path \in SUBSET WitnessIds,
                        Left(path) <= m
                 PROVE  <<node, x, path>> \in f[m + 1] <=> <<node, x, path>> \in f[m]
      BY DEF Settled
    <3>1. <<node, x, path>> \in f[m + 1] <=> /\ Stands(A, node, x)
                                           /\ x \notin path
                                           /\ \A p \in OperandsOf(x) : NextOn(x, p, path) \in f[m]
      BY <1>5, <2>3, StepOfIs
    <3>2. CASE m = 0
      <4>1. WitnessIds \ path \in SUBSET WitnessIds /\ IsFiniteSet(WitnessIds)
        OBVIOUS
      <4>2. IsFiniteSet(WitnessIds \ path)
        BY <4>1, FS_Subset
      <4>3. Left(path) = 0
        BY <3>2, <4>2, FS_CardinalityType
      <4>4. WitnessIds \ path = {}
        BY <4>2, <4>3, FS_EmptySet
      <4> QED
        BY <1>5, <3>1, <3>2, <4>4
    <3>3. CASE m # 0
      <4>1. m - 1 \in 0..N /\ m - 1 + 1 = m
        BY <1>1, <2>3, <3>3
      <4>2. Settled(m - 1)
        <5>1. m - 1 \notin T
          <6> HIDE DEF T
          <6> QED
            BY <2>2, <2>3, <3>3, <4>1
        <5> QED
          BY <4>1, <5>1
      <4>3. <<node, x, path>> \in f[m] <=> /\ Stands(A, node, x)
                                         /\ x \notin path
                                         /\ \A p \in OperandsOf(x) : NextOn(x, p, path) \in f[m - 1]
        <5>1. f[m] = StepOf(A, f[m - 1])
          BY <1>5, <4>1
        <5> QED
          BY <5>1, StepOfIs
      <4>4. ASSUME x \notin path, NEW p \in OperandsOf(x)
            PROVE  NextOn(x, p, path) \in f[m] <=> NextOn(x, p, path) \in f[m - 1]
        <5>0. /\ Left(path) \in Nat /\ Left(path \cup {x}) \in Nat
              /\ Left(path \cup {x}) < Left(path)
          BY <4>4, PathShortens
        <5>1. path \cup {x} \in SUBSET WitnessIds /\ Left(path \cup {x}) <= m - 1
          <6>1. path \cup {x} \in SUBSET WitnessIds
            OBVIOUS
          <6> HIDE DEF Left
          <6> QED
            BY <2>3, <5>0, <6>1
        <5>2. Witness[x].check \in Checks /\ p \in WitnessIds
          BY <4>4 DEF OperandsOf
        <5> QED
          BY <4>1, <4>2, <5>1, <5>2 DEF Settled, NextOn
      <4> QED
        BY <3>1, <4>3, <4>4
    <3> QED
      BY <3>2, <3>3
  <2> QED
    BY <2>2, <2>4
<1>7. StepOf(A, f[N]) = f[N]
  <2>1. N \in 0..N /\ f[N + 1] = StepOf(A, f[N]) /\ f[N] \in SUBSET Walked /\ f[N + 1] \in SUBSET Walked
    BY <1>1, <1>5
  <2>2. \A path \in SUBSET WitnessIds : Left(path) <= N
    <3> SUFFICES ASSUME NEW path \in SUBSET WitnessIds PROVE Left(path) <= N
      OBVIOUS
    <3>1. WitnessIds \ path \in SUBSET WitnessIds
      OBVIOUS
    <3> QED
      BY <3>1, FS_Subset
  <2>3. \A node \in Checks, x \in WitnessIds, path \in SUBSET WitnessIds :
          <<node, x, path>> \in f[N + 1] <=> <<node, x, path>> \in f[N]
    <3> HIDE DEF N
    <3> QED
      BY <1>6, <2>1, <2>2
  <2>4. \A v \in Walked : v \in f[N + 1] <=> v \in f[N]
    <3> HIDE DEF N
    <3> QED
      BY <2>3 DEF Walked
  <2> QED
    BY <2>1, <2>4
<1> QED
  BY <1>1, <1>5, <1>7
\* What ValidWitness computes is the verdict of such a walk.
LEMMA ValidIs ==
    ASSUME NEW A
    PROVE  \E H : Accepts(A, H) /\ \A c \in Checks, w \in WitnessIds :
                     ValidWitness(A, c, w) <=> <<c, w, {}>> \in H
<1> DEFINE Is(g) == g = [v \in Checks \X WitnessIds \X SUBSET WitnessIds |->
                     /\ v[2] \in A.witnesses
                     /\ OwnedWitness(A, v[1], v[2])
                     /\ v[2] \notin v[3]
                     /\ Ids(Witness[v[2]].refs, "CLAIM")
                          \subseteq A.claims \cap A.sub[Witness[v[2]].check].claims
                     /\ \A p \in Ids(Witness[v[2]].refs, "WITNESS") :
                          g[<<Witness[v[2]].check, p, v[3] \cup {v[2]}>>]]
           valid == CHOOSE g : Is(g)
           H == {v \in Walked : valid[v]}
<1>1. \A c, w : ValidWitness(A, c, w) = valid[<<c, w, {}>>]
  BY DEF ValidWitness
<1>2. Is(valid)
  <2>1. PICK S \in SUBSET Walked : S = StepOf(A, S)
    BY StepsSettle
  <2> DEFINE g == [v \in Walked |-> v \in S]
             Ends(v) == \A p \in OperandsOf(v[2]) : NextOn(v[2], p, v[3]) \in S
  <2>2. ASSUME NEW v \in Walked
        PROVE  (v \in S) = (/\ v[2] \in A.witnesses
                           /\ OwnedWitness(A, v[1], v[2])
                           /\ v[2] \notin v[3]
                           /\ Ids(Witness[v[2]].refs, "CLAIM")
                                \subseteq A.claims \cap A.sub[Witness[v[2]].check].claims
                           /\ \A p \in Ids(Witness[v[2]].refs, "WITNESS") :
                                g[<<Witness[v[2]].check, p, v[3] \cup {v[2]}>>])
    <3>1. v \in S <=> /\ Stands(A, v[1], v[2]) /\ v[2] \notin v[3] /\ Ends(v)
      BY <2>1 DEF StepOf
    <3>2. ASSUME NEW p \in OperandsOf(v[2])
          PROVE  (NextOn(v[2], p, v[3]) \in S)
                    <=> g[<<Witness[v[2]].check, p, v[3] \cup {v[2]}>>]
      <4>1. v[2] \in WitnessIds /\ v[3] \in SUBSET WitnessIds
        BY DEF Walked
      <4>2. NextOn(v[2], p, v[3]) \in Walked
        BY <4>1, NextOnIs
      <4>3. g[NextOn(v[2], p, v[3])] = (NextOn(v[2], p, v[3]) \in S)
        BY <4>2, Zenon
      <4> QED
        BY <4>3, Zenon DEF NextOn
    <3>3. Ends(v) <=> \A p \in OperandsOf(v[2]) : g[<<Witness[v[2]].check, p, v[3] \cup {v[2]}>>]
      <4> HIDE DEF g
      <4> QED
        BY <3>2, Zenon
    <3>4. v \in S <=> (/\ v[2] \in A.witnesses
                      /\ OwnedWitness(A, v[1], v[2])
                      /\ v[2] \notin v[3]
                      /\ Ids(Witness[v[2]].refs, "CLAIM")
                           \subseteq A.claims \cap A.sub[Witness[v[2]].check].claims
                      /\ \A p \in Ids(Witness[v[2]].refs, "WITNESS") :
                           g[<<Witness[v[2]].check, p, v[3] \cup {v[2]}>>])
      <4> HIDE DEF g, Ends
      <4> QED
        BY <3>1, <3>3, Zenon DEF Stands, OperandsOf
    <3> HIDE DEF g
    <3> QED
      BY <3>4
  <2>3. Is(g)
    <3>1. g = [v \in Checks \X WitnessIds \X SUBSET WitnessIds |-> v \in S]
      BY DEF Walked
    <3>2. \A v \in Checks \X WitnessIds \X SUBSET WitnessIds :
            (v \in S) = (/\ v[2] \in A.witnesses
                           /\ OwnedWitness(A, v[1], v[2])
                           /\ v[2] \notin v[3]
                           /\ Ids(Witness[v[2]].refs, "CLAIM")
                                \subseteq A.claims \cap A.sub[Witness[v[2]].check].claims
                           /\ \A p \in Ids(Witness[v[2]].refs, "WITNESS") :
                                g[<<Witness[v[2]].check, p, v[3] \cup {v[2]}>>])
      <4> HIDE DEF g
      <4> QED
        BY <2>2 DEF Walked
    <3> HIDE DEF g
    <3> QED
      BY <3>1, <3>2, Zenon
  <2> HIDE DEF Is
  <2> QED
    BY <2>3, Zenon
<1>3. Accepts(A, H)
  <2> SUFFICES ASSUME NEW node \in Checks, NEW x \in WitnessIds, NEW path \in SUBSET WitnessIds
               PROVE  <<node, x, path>> \in H <=> /\ Stands(A, node, x)
                                                /\ x \notin path
                                                /\ \A p \in OperandsOf(x) : NextOn(x, p, path) \in H
    BY DEF Accepts
  <2>1. PICK v : v = <<node, x, path>>
    OBVIOUS
  <2>2. /\ v[1] = node /\ v[2] = x /\ v[3] = path
        /\ v \in Checks \X WitnessIds \X SUBSET WitnessIds /\ v \in Walked
    BY <2>1 DEF Walked
  <2>3. valid[v] = (/\ v[2] \in A.witnesses
                    /\ OwnedWitness(A, v[1], v[2])
                    /\ v[2] \notin v[3]
                    /\ Ids(Witness[v[2]].refs, "CLAIM")
                         \subseteq A.claims \cap A.sub[Witness[v[2]].check].claims
                    /\ \A p \in Ids(Witness[v[2]].refs, "WITNESS") :
                         valid[<<Witness[v[2]].check, p, v[3] \cup {v[2]}>>])
    <3> HIDE DEF valid
    <3> QED
      BY <1>2, <2>2, Zenon
  <2> HIDE DEF valid
  <2>4. \A p \in OperandsOf(x) : NextOn(x, p, path) \in H
                                 <=> valid[<<Witness[x].check, p, path \cup {x}>>]
    <3> SUFFICES ASSUME NEW p \in OperandsOf(x)
                 PROVE  NextOn(x, p, path) \in H <=> valid[<<Witness[x].check, p, path \cup {x}>>]
      OBVIOUS
    <3>1. NextOn(x, p, path) \in Walked
      BY NextOnIs
    <3> QED
      BY <3>1, Zenon DEF NextOn
  <2>5. v \in H <=> /\ Stands(A, node, x)
                    /\ x \notin path
                    /\ \A p \in OperandsOf(x) : NextOn(x, p, path) \in H
    <3>1. v \in H <=> valid[v]
      BY <2>2, Zenon
    <3> HIDE DEF H
    <3> QED
      BY <2>2, <2>3, <2>4, <3>1, Zenon DEF Stands, OperandsOf
  <2> QED
    BY <2>1, <2>5, Zenon
<1>4. \A c \in Checks, w \in WitnessIds : ValidWitness(A, c, w) <=> <<c, w, {}>> \in H
  <2> HIDE DEF valid
  <2> SUFFICES ASSUME NEW c \in Checks, NEW w \in WitnessIds
               PROVE  ValidWitness(A, c, w) <=> <<c, w, {}>> \in H
    OBVIOUS
  <2>1. <<c, w, {}>> \in Walked
    BY DEF Walked
  <2> QED
    BY <1>1, <2>1, Zenon
<1> HIDE DEF H
<1> QED
  BY <1>3, <1>4
LEMMA UpstreamStays ==
    ASSUME NEW S \in SUBSET Checks, UpstreamClosed(S), NEW c \in S, NEW d \in UpstreamOf[c]
    PROVE  d \in S
  BY UpstreamOfIs

\* Everything a valid witness rests on is submitted by a CHECK upstream, and the walk
\* meets none of it twice.
MetIn(H, S, w) == \E n \in S, q \in SUBSET WitnessIds : <<n, w, q>> \in H

OwnedIn(A, S, w) ==
  /\ w \in WitnessIds /\ w \in A.witnesses
  /\ Witness[w].check \in S
  /\ Submitted(A, Witness[w].check)
  /\ w \in A.sub[Witness[w].check].witnesses

LEMMA ValidBasis ==
    ASSUME NEW A, NEW H, Accepts(A, H), NEW S \in SUBSET Checks, UpstreamClosed(S),
           NEW node \in S, NEW x \in WitnessIds, NEW path \in SUBSET WitnessIds,
           <<node, x, path>> \in H, NEW w \in Basis[x]
    PROVE  w \notin path /\ OwnedIn(A, S, w) /\ MetIn(H, S, w)
<1> DEFINE C == {z \in WitnessIds : \E n \in S, q \in SUBSET WitnessIds :
                                     path \subseteq q /\ <<n, z, q>> \in H}
<1>1. x \in C
  OBVIOUS
<1>2. ASSUME NEW z \in C, NEW p \in OperandsOf(z) PROVE p \in C
  <2>1. PICK n \in S, q \in SUBSET WitnessIds : path \subseteq q /\ <<n, z, q>> \in H
    OBVIOUS
  <2>2. Stands(A, n, z) /\ NextOn(z, p, q) \in H
    BY <2>1 DEF Accepts
  <2>3. Witness[z].check \in S
    BY <2>2, UpstreamStays DEF Stands, OwnedWitness
  <2>4. p \in WitnessIds /\ q \cup {z} \in SUBSET WitnessIds /\ path \subseteq q \cup {z}
    BY <2>1 DEF OperandsOf
  <2>5. <<Witness[z].check, p, q \cup {z}>> \in H
    BY <2>2 DEF NextOn
  <2> QED
    BY <2>3, <2>4, <2>5
<1>3. C \in SUBSET WitnessIds /\ \A z \in C : OperandsOf(z) \subseteq C
  BY <1>2
<1>4. w \in C
  <2> HIDE DEF C
  <2> QED
    BY <1>1, <1>3, BasisIs
<1>5. PICK n \in S, q \in SUBSET WitnessIds : path \subseteq q /\ <<n, w, q>> \in H
  BY <1>4
<1>6. Stands(A, n, w) /\ w \notin q /\ w \in WitnessIds
  BY <1>4, <1>5 DEF Accepts
<1> QED
  BY <1>5, <1>6, UpstreamStays DEF Stands, OwnedWitness, OwnedIn, MetIn

-----------------------------------------------------------------------------
(* What an artifact needs of another to have the same verdicts. *)

UniqueIds(bs) == \A x, y \in bs : x.id = y.id => x = y

\* B has, for every CHECK of S, its submission, its assessment and its own terms of A.
Carries(A, B, S) ==
  /\ \A c \in S : B.sub[c] = A.sub[c] /\ B.assess[c] = A.assess[c]
  /\ \A c \in S : Submitted(A, c) =>
       /\ A.claims \cap A.sub[c].claims \subseteq B.claims
       /\ \A w \in A.witnesses \cap A.sub[c].witnesses : Witness[w].check = c => w \in B.witnesses
       /\ \A x \in A.bindings : x.check = c /\ x.id \in A.sub[c].bindings => x \in B.bindings
  /\ \A x \in A.bindings, y \in B.bindings : x.id = y.id => x = y

\* A valid witness stays valid.
LEMMA ValidCarries ==
    ASSUME NEW A, NEW B, NEW S \in SUBSET Checks, UpstreamClosed(S), Carries(A, B, S),
           NEW c \in S, NEW w \in WitnessIds, ValidWitness(A, c, w)
    PROVE  ValidWitness(B, c, w)
<1>1. PICK G : Accepts(A, G) /\ \A d \in Checks, x \in WitnessIds :
                                  ValidWitness(A, d, x) <=> <<d, x, {}>> \in G
  BY ValidIs
<1>2. PICK H : Accepts(B, H) /\ \A d \in Checks, x \in WitnessIds :
                                  ValidWitness(B, d, x) <=> <<d, x, {}>> \in H
  BY ValidIs
<1> DEFINE Left(path) == Cardinality(WitnessIds \ path)
           Lost(n) == \E node \in S, x \in WitnessIds, path \in SUBSET WitnessIds :
                        Left(path) = n /\ <<node, x, path>> \in G /\ <<node, x, path>> \notin H
           T == {n \in Nat : Lost(n)}
<1>3. ASSUME NEW node \in S, NEW x \in WitnessIds, Stands(A, node, x)
      PROVE  Stands(B, node, x) /\ Witness[x].check \in S
  <2>1. /\ Witness[x].check \in UpstreamOf[node] /\ Submitted(A, Witness[x].check)
        /\ x \in A.witnesses /\ x \in A.sub[Witness[x].check].witnesses
        /\ Ids(Witness[x].refs, "CLAIM") \subseteq A.claims \cap A.sub[Witness[x].check].claims
    BY <1>3 DEF Stands, OwnedWitness
  <2>2. Witness[x].check \in S
    BY <2>1, UpstreamStays
  <2>3. B.sub[Witness[x].check] = A.sub[Witness[x].check] /\ x \in B.witnesses
    BY <2>1, <2>2 DEF Carries
  <2>4. Ids(Witness[x].refs, "CLAIM") \subseteq B.claims
    BY <2>1, <2>2 DEF Carries
  <2> QED
    BY <2>1, <2>2, <2>3, <2>4 DEF Stands, OwnedWitness, Submitted
<1>4. T = {}
  <2> SUFFICES ASSUME T # {} PROVE FALSE
    OBVIOUS
  <2>1. T \in SUBSET Nat
    OBVIOUS
  <2>2. PICK m \in T : \A t \in T : m <= t
    <3> HIDE DEF T
    <3> QED
      BY <2>1, LeastNumber
  <2>3. PICK node \in S, x \in WitnessIds, path \in SUBSET WitnessIds :
          Left(path) = m /\ <<node, x, path>> \in G /\ <<node, x, path>> \notin H
    OBVIOUS
  <2>4. Stands(A, node, x) /\ x \notin path /\ \A p \in OperandsOf(x) : NextOn(x, p, path) \in G
    BY <1>1, <2>3 DEF Accepts
  <2>5. Stands(B, node, x) /\ Witness[x].check \in S
    BY <1>3, <2>4
  <2>6. ASSUME NEW p \in OperandsOf(x) PROVE NextOn(x, p, path) \in H
    <3>1. /\ Left(path) \in Nat /\ Left(path \cup {x}) \in Nat
          /\ Left(path \cup {x}) < Left(path)
      BY <2>4, PathShortens
    <3>2. p \in WitnessIds /\ path \cup {x} \in SUBSET WitnessIds
      BY DEF OperandsOf
    <3>3. Left(path \cup {x}) \notin T
      <4> HIDE DEF T, Left
      <4> QED
        BY <2>2, <2>3, <3>1
    <3>4. ~ Lost(Left(path \cup {x}))
      <4> HIDE DEF Left, Lost
      <4> QED
        BY <3>1, <3>3
    <3>5. <<Witness[x].check, p, path \cup {x}>> \in G
      BY <2>4 DEF NextOn
    <3> HIDE DEF Left
    <3> QED
      BY <2>5, <3>2, <3>4, <3>5 DEF NextOn
  <2>7. <<node, x, path>> \in H
    BY <1>2, <2>4, <2>5, <2>6 DEF Accepts
  <2> QED
    BY <2>3, <2>7
<1>5. <<c, w, {}>> \in G /\ Left({}) \in Nat
  <2>1. WitnessIds \ {} \in SUBSET WitnessIds /\ IsFiniteSet(WitnessIds)
    OBVIOUS
  <2>2. Left({}) \in Nat
    BY <2>1, FS_Subset, FS_CardinalityType
  <2> QED
    BY <1>1, <2>2
<1>6. ~ Lost(Left({}))
  <2> HIDE DEF Left, Lost
  <2> QED
    BY <1>4, <1>5
<1>7. <<c, w, {}>> \in H
  <2> HIDE DEF Left
  <2> QED
    BY <1>5, <1>6
<1> QED
  BY <1>2, <1>7
\* The terms of a sandbox or an artifact are terms of the review.
TermsTyped(A) ==
  /\ A.claims \subseteq ClaimIds /\ A.witnesses \subseteq WitnessIds
  /\ \A x \in A.bindings : /\ Ids(x.refs, "CLAIM") \subseteq ClaimIds
                           /\ Ids(x.refs, "WITNESS") \subseteq WitnessIds

\* The kernel's verdict on a CHECK of S is the same in every artifact that carries S.
LEMMA PassesCarries ==
    ASSUME NEW A, NEW B, NEW S \in SUBSET Checks, UpstreamClosed(S), Carries(A, B, S),
           TermsTyped(A), NEW c \in S, Passes(A, c)
    PROVE  Passes(B, c) /\ NodeResult(B, c) = NodeResult(A, c)
<1> DEFINE a == A.assess[c]
<1>1. /\ Submitted(A, c) /\ a # NoAssessment
      /\ ClosureAccepted(A, c, a) /\ SourcesAccepted(A, c, a) /\ a.consistent
      /\ IF a.status = "NOT_FOUND" THEN a.missing
         ELSE StrongSources(A, c, a) /\ TerminalAccepted(A, c, a)
  BY DEF Passes
<1>2. B.assess[c] = a /\ B.sub[c] = A.sub[c] /\ Submitted(B, c)
  BY <1>1 DEF Carries, Submitted
<1> HIDE DEF a
<1>3. ASSUME NEW x \in BindingsOf(A, a)
      PROVE  x \in B.bindings /\ x \in A.bindings /\ x.check = c /\ ValidRefs(A, c, x.refs)
  <2>1. x \in A.bindings /\ x.id \in A.sub[c].bindings /\ ValidBinding(A, c, x)
    BY <1>1, <1>3 DEF ClosureAccepted, BindingsOf
  <2> QED
    BY <1>1, <2>1 DEF Carries, ValidBinding
<1>4. BindingsOf(B, a) = BindingsOf(A, a)
  <2>1. ASSUME NEW x \in BindingsOf(B, a) PROVE x \in BindingsOf(A, a)
    <3>1. PICK y \in A.bindings : y.id = x.id
      BY <1>1 DEF ClosureAccepted, BindingsOf
    <3>2. y = x
      BY <3>1 DEF Carries, BindingsOf
    <3> QED
      BY <3>1, <3>2 DEF BindingsOf
  <2> QED
    BY <1>3, <2>1 DEF BindingsOf
<1>5. ASSUME NEW refs, ValidRefs(A, c, refs), Ids(refs, "WITNESS") \subseteq WitnessIds
      PROVE  ValidRefs(B, c, refs)
  <2>1. \A w \in Ids(refs, "WITNESS") : ValidWitness(B, c, w)
    BY <1>5, ValidCarries DEF ValidRefs
  <2> QED
    BY <1>1, <1>2, <1>5, <2>1 DEF ValidRefs, Carries
<1>6. ClosureAccepted(B, c, a)
  <2>1. a.claims \subseteq B.claims \cap B.sub[c].claims
    BY <1>1, <1>2 DEF ClosureAccepted, Carries
  <2>2. a.bindings \subseteq {x.id : x \in B.bindings} \cap B.sub[c].bindings
    <3> SUFFICES ASSUME NEW id \in a.bindings
                 PROVE  id \in {x.id : x \in B.bindings} /\ id \in B.sub[c].bindings
      OBVIOUS
    <3>1. PICK x \in A.bindings : x.id = id
      BY <1>1 DEF ClosureAccepted
    <3>2. x \in B.bindings
      BY <1>3, <3>1 DEF BindingsOf
    <3> QED
      BY <1>1, <1>2, <3>1, <3>2 DEF ClosureAccepted
  <2>3. \A x \in BindingsOf(B, a) : ValidBinding(B, c, x)
    BY <1>3, <1>4, <1>5 DEF ValidBinding, TermsTyped
  <2>4. a.witnesses \subseteq A.witnesses \cap A.sub[c].witnesses /\ a.witnesses \subseteq WitnessIds
        /\ \A w \in a.witnesses : ValidWitness(A, c, w)
    BY <1>1 DEF ClosureAccepted, TermsTyped
  <2>5. \A w \in a.witnesses : ValidWitness(B, c, w)
    BY <2>4, ValidCarries
  <2>6. \A w \in a.witnesses : w \in B.witnesses
    <3> SUFFICES ASSUME NEW w \in a.witnesses PROVE w \in B.witnesses
      OBVIOUS
    <3>1. PICK H : Accepts(B, H) /\ \A d \in Checks, x \in WitnessIds :
                                      ValidWitness(B, d, x) <=> <<d, x, {}>> \in H
      BY ValidIs
    <3>2. <<c, w, {}>> \in H /\ w \in WitnessIds /\ c \in Checks
      BY <2>4, <2>5, <3>1
    <3> QED
      BY <3>1, <3>2 DEF Accepts, Stands
  <2> QED
    BY <1>2, <2>1, <2>2, <2>3, <2>4, <2>5, <2>6 DEF ClosureAccepted
<1>7. AcceptedWitnesses(B, a) = AcceptedWitnesses(A, a) /\ AcceptedClaims(B, a) = AcceptedClaims(A, a)
  BY <1>4 DEF AcceptedWitnesses, AcceptedClaims
<1>8. SourcesAccepted(B, c, a)
  BY <1>1, <1>7 DEF SourcesAccepted
<1>9. StrongSources(A, c, a) => StrongSources(B, c, a)
  BY <1>7 DEF StrongSources
<1>10. TerminalAccepted(A, c, a) => TerminalAccepted(B, c, a)
  BY <1>2, <1>4, <1>7 DEF TerminalAccepted, CalculationsConsumed, LinksAgree
<1>11. Passes(B, c)
  BY <1>1, <1>2, <1>6, <1>8, <1>9, <1>10 DEF Passes
<1>12. A.assess[c] = a
  BY DEF a
<1> QED
  BY <1>2, <1>7, <1>11, <1>12 DEF NodeResult
\* The terms of a verdict are those of valid witnesses.
LEMMA AcceptedFrom ==
    ASSUME NEW A, TermsTyped(A), NEW c \in Checks, Passes(A, c),
           NEW w \in AcceptedWitnesses(A, A.assess[c])
    PROVE  \E x \in WitnessIds : ValidWitness(A, c, x) /\ w \in Basis[x]
<1> DEFINE a == A.assess[c]
<1>1. ClosureAccepted(A, c, a)
  BY DEF Passes
<1> HIDE DEF a
<1>2. PICK x \in a.witnesses \cup UNION {Ids(b.refs, "WITNESS") : b \in BindingsOf(A, a)} :
        w \in Basis[x]
  BY DEF AcceptedWitnesses, Lineage, a
<1>3. CASE x \in a.witnesses
  BY <1>1, <1>2, <1>3 DEF ClosureAccepted, TermsTyped
<1>4. CASE \E b \in BindingsOf(A, a) : x \in Ids(b.refs, "WITNESS")
  <2>1. PICK b \in BindingsOf(A, a) : x \in Ids(b.refs, "WITNESS")
    BY <1>4
  <2>2. b \in A.bindings /\ ValidRefs(A, c, b.refs)
    BY <1>1 DEF ClosureAccepted, ValidBinding, BindingsOf
  <2> QED
    BY <1>2, <2>1, <2>2 DEF ValidRefs, TermsTyped
<1> QED
  BY <1>2, <1>3, <1>4

\* A verdict rests on witnesses of CHECKs upstream, each submitted by its owner, and no
\* witness among them rests on itself.
LEMMA AcceptedOwned ==
    ASSUME NEW A, TermsTyped(A), NEW S \in SUBSET Checks, UpstreamClosed(S), NEW c \in S,
           Passes(A, c), NEW w \in AcceptedWitnesses(A, A.assess[c])
    PROVE  OwnedIn(A, S, w) /\ \A p \in OperandsOf(w) : w \notin Basis[p]
<1>1. PICK x \in WitnessIds : ValidWitness(A, c, x) /\ w \in Basis[x]
  BY AcceptedFrom
<1>2. PICK H : Accepts(A, H) /\ \A d \in Checks, y \in WitnessIds :
                                  ValidWitness(A, d, y) <=> <<d, y, {}>> \in H
  BY ValidIs
<1>3. PICK path \in SUBSET WitnessIds : <<c, x, path>> \in H
  BY <1>1, <1>2
<1>4. OwnedIn(A, S, w) /\ MetIn(H, S, w)
  <2>1. Accepts(A, H) /\ w \in Basis[x]
    BY <1>1, <1>2
  <2> QED
    BY <1>3, <2>1, ValidBasis
<1>5. ASSUME NEW p \in OperandsOf(w) PROVE w \notin Basis[p]
  <2>1. PICK n \in S, q \in SUBSET WitnessIds : <<n, w, q>> \in H
    BY <1>4 DEF MetIn
  <2>2. <<Witness[w].check, p, q \cup {w}>> \in H
    BY <1>2, <1>4, <2>1 DEF Accepts, NextOn, OwnedIn
  <2>3. p \in WitnessIds /\ q \cup {w} \in SUBSET WitnessIds /\ Witness[w].check \in S
    BY <1>4 DEF OperandsOf, OwnedIn
  <2> SUFFICES ASSUME w \in Basis[p] PROVE FALSE
    OBVIOUS
  <2> QED
    BY <1>2, <1>4, <2>2, <2>3, ValidBasis
<1> QED
  BY <1>4, <1>5

\* A strong verdict that accepts all calculations of a CHECK binds them all: what no
\* other calculation consumes is bound, and what one consumes is reached through it.
LEMMA CalculationsBound ==
    ASSUME NEW A, TermsTyped(A), NEW S \in SUBSET Checks, UpstreamClosed(S), NEW c \in S,
           Passes(A, c), A.assess[c].status # "NOT_FOUND",
           NEW b \in BindingsOf(A, A.assess[c])
    PROVE  {w \in A.sub[c].witnesses : Witness[w].check = c} \subseteq BoundWitnesses(b)
<1> DEFINE own == {w \in A.sub[c].witnesses : Witness[w].check = c}
           size(w) == Cardinality(Basis[w])
           bad == own \ BoundWitnesses(b)
<1>1. /\ A.sub[c].witnesses \subseteq AcceptedWitnesses(A, A.assess[c])
      /\ own \ Operands(own, "WITNESS") \subseteq Ids(b.refs, "WITNESS")
  <2>1. TerminalAccepted(A, c, A.assess[c])
    BY DEF Passes
  <2>2. CalculationsConsumed(A, c, A.assess[c], b)
    BY <2>1 DEF TerminalAccepted
  <2> QED
    BY <2>2 DEF CalculationsConsumed
<1>2. \A w \in own : w \in WitnessIds /\ \A p \in OperandsOf(w) : w \notin Basis[p]
  BY <1>1, AcceptedOwned DEF OwnedIn
<1>3. \A w \in own : IsFiniteSet(Basis[w]) /\ size(w) \in Nat /\ size(w) <= Cardinality(WitnessIds)
  <2> SUFFICES ASSUME NEW w \in own
               PROVE  IsFiniteSet(Basis[w]) /\ size(w) \in Nat /\ size(w) <= Cardinality(WitnessIds)
    OBVIOUS
  <2>1. Basis[w] \in SUBSET WitnessIds /\ IsFiniteSet(WitnessIds)
    BY <1>2, BasisIs
  <2> QED
    BY <2>1, FS_Subset, FS_CardinalityType
<1>4. \A w \in bad : \E y \in bad : size(w) < size(y)
  <2> SUFFICES ASSUME NEW w \in bad PROVE \E y \in bad : size(w) < size(y)
    OBVIOUS
  <2>1. w \in WitnessIds /\ w \in own
    BY <1>2
  <2>2. w \in Operands(own, "WITNESS")
    <3> SUFFICES ASSUME w \notin Operands(own, "WITNESS") PROVE FALSE
      OBVIOUS
    <3>1. w \in Ids(b.refs, "WITNESS")
      BY <1>1, <2>1
    <3>2. w \in BoundWitnesses(b)
      BY <2>1, <3>1, BasisIs DEF BoundWitnesses, Lineage
    <3> QED
      BY <3>2
  <2>3. PICK y \in own : w \in OperandsOf(y)
    BY <2>2 DEF Operands, OperandsOf
  <2>4. Basis[w] \in SUBSET Basis[y]
    <3>1. w \in Basis[y] /\ Basis[y] \in SUBSET WitnessIds
          /\ \A x \in Basis[y] : OperandsOf(x) \subseteq Basis[y]
      BY <1>2, <2>3, BasisIs
    <3> QED
      BY <2>1, <3>1, BasisIs
  <2>5. y \in Basis[y] /\ y \notin Basis[w]
    BY <1>2, <2>3, BasisIs
  <2>6. size(w) < size(y)
    <3>1. IsFiniteSet(Basis[y]) /\ size(w) \in Nat /\ size(y) \in Nat
      BY <1>3, <2>1, <2>3
    <3>2. size(w) <= size(y) /\ (size(y) = size(w) => Basis[w] = Basis[y])
      BY <2>4, <3>1, FS_Subset
    <3> QED
      BY <2>5, <3>1, <3>2
  <2>7. y \notin BoundWitnesses(b)
    <3> SUFFICES ASSUME y \in BoundWitnesses(b) PROVE FALSE
      OBVIOUS
    <3>1. PICK t \in Ids(b.refs, "WITNESS") : y \in Basis[t]
      BY DEF BoundWitnesses, Lineage
    <3>2. t \in WitnessIds
      BY DEF TermsTyped, BindingsOf
    <3>3. w \in Basis[t]
      BY <2>3, <3>1, <3>2, BasisIs
    <3>4. w \in BoundWitnesses(b)
      BY <3>3 DEF BoundWitnesses, Lineage
    <3> QED
      BY <3>4
  <2> QED
    BY <2>3, <2>6, <2>7
<1>5. bad = {}
  <2> SUFFICES ASSUME bad # {} PROVE FALSE
    OBVIOUS
  <2> DEFINE L == Cardinality(WitnessIds)
             T == {n \in Nat : \E w \in bad : n = L - size(w)}
  <2>1. L \in Nat
    BY FS_CardinalityType
  <2>2. T \in SUBSET Nat /\ T # {}
    <3> HIDE DEF L, size
    <3>1. PICK w \in bad : TRUE
      OBVIOUS
    <3>2. size(w) \in Nat /\ size(w) <= L
      BY <1>3 DEF L
    <3>3. L - size(w) \in Nat
      BY <2>1, <3>2
    <3> QED
      BY <3>3
  <2>3. PICK m \in T : \A t \in T : m <= t
    <3> HIDE DEF T
    <3> QED
      BY <2>2, LeastNumber
  <2>4. PICK w \in bad : m = L - size(w)
    OBVIOUS
  <2>5. PICK y \in bad : size(w) < size(y)
    BY <1>4
  <2>6. size(w) \in Nat /\ size(y) \in Nat /\ size(y) <= L
    BY <1>3
  <2> HIDE DEF L, size
  <2>7. L - size(y) \in T /\ L - size(y) < m
    BY <2>1, <2>4, <2>5, <2>6
  <2> QED
    BY <2>1, <2>3, <2>6, <2>7
<1> QED
  BY <1>5
-----------------------------------------------------------------------------
(* The inductive invariant. *)

Bindings == UNION {UNION {s.bindings : s \in Candidate[c]} : c \in Checks}
BindingIds == {x.id : x \in Bindings}
Assessments == UNION {Assessment[c] : c \in Checks}

Submissions == [claims : SUBSET ClaimIds, bindings : SUBSET BindingIds, witnesses : SUBSET WitnessIds]
Entries == [check : Checks, claims : SUBSET ClaimIds, bindings : SUBSET BindingIds,
            witnesses : SUBSET WitnessIds, note : BOOLEAN, restored : BOOLEAN]
Boxes == [reads : SUBSET DOMAIN Observed, claims : SUBSET ClaimIds, witnesses : SUBSET WitnessIds,
          bindings : SUBSET Bindings, subs : Seq(Entries)]
Artifacts == [claims : SUBSET ClaimIds, witnesses : SUBSET WitnessIds, bindings : SUBSET Bindings,
              sub : [Checks -> Submissions \cup {NoSubmission}],
              assess : [Checks -> Assessments \cup {NoAssessment}]]

TypeInv ==
  /\ focus \in SUBSET Checks /\ revision \in 0..MaxRevision
  /\ outcome \in {"none", "protocol_failure", "not_submitted", "batch_committed",
                  "batch_partially_committed", "rechecked"}
  /\ box \in Boxes /\ base \in Artifacts
  /\ TermsTyped(box) /\ TermsTyped(base)

\* A batch works beside the artifact: it starts from all of it, focuses on all that is
\* left of it, and leaves what the committed CHECKs submitted as it was.
BatchInv ==
  /\ focus = {} => box = Restored(base)
  /\ focus # {} => focus = Remaining
  /\ \A c \in Checks \ focus : Latest(box, c) = base.sub[c]
  /\ base.claims \subseteq box.claims /\ base.witnesses \subseteq box.witnesses
  /\ base.bindings \subseteq box.bindings
  /\ UniqueIds(box.bindings)

\* What is committed rests on what is committed, and the kernel closes it.
CommitInv == UpstreamClosed(Committed) /\ \A c \in Committed : Passes(base, c)

IInv == TypeInv /\ BatchInv /\ CommitInv
Subs == [Checks -> Submissions \cup {NoSubmission}]
Assesses == [Checks -> Assessments \cup {NoAssessment}]

LEMMA ArtifactTyped ==
    ASSUME NEW b, TermsTyped(b), b.bindings \subseteq Bindings, NEW sub \in Subs, NEW assess \in Assesses
    PROVE  /\ Artifact(b, sub, assess) \in Artifacts /\ TermsTyped(Artifact(b, sub, assess))
           /\ Artifact(b, sub, assess).sub = sub /\ Artifact(b, sub, assess).assess = assess
           /\ Artifact(b, sub, assess).claims \subseteq b.claims
           /\ Artifact(b, sub, assess).witnesses \subseteq b.witnesses
           /\ Artifact(b, sub, assess).bindings \subseteq b.bindings
<1> DEFINE active == ActiveClosure(b, sub)
           A == Artifact(b, sub, assess)
<1>1. active.bindings \subseteq b.bindings
  BY DEF ActiveClosure
<1>2. A = [claims |-> b.claims \cap active.claims, witnesses |-> b.witnesses \cap active.witnesses,
           bindings |-> active.bindings, sub |-> sub, assess |-> assess]
  BY DEF Artifact
<1> HIDE DEF active, A
<1>3. /\ A.claims \subseteq b.claims /\ A.witnesses \subseteq b.witnesses /\ A.bindings \subseteq b.bindings
      /\ A.sub = sub /\ A.assess = assess
  BY <1>1, <1>2
<1>4. TermsTyped(A)
  BY <1>3 DEF TermsTyped
<1>5. A \in Artifacts
  BY <1>1, <1>2 DEF Artifacts, Subs, Assesses, TermsTyped
<1> QED
  BY <1>3, <1>4, <1>5 DEF A

\* An artifact with the submissions and assessments of A for the CHECKs of S, made from a
\* sandbox that still has what these submitted, carries A on S.
LEMMA ArtifactCarries ==
    ASSUME NEW A, TermsTyped(A), NEW S \in SUBSET Checks, NEW b, NEW sub, NEW assess,
           \A c \in S : sub[c] = A.sub[c] /\ assess[c] = A.assess[c],
           \A c \in S : Submitted(A, c) =>
             /\ A.claims \cap A.sub[c].claims \subseteq b.claims
             /\ \A w \in A.witnesses : Witness[w].check = c => w \in b.witnesses
             /\ \A x \in A.bindings : x.check = c => x \in b.bindings,
           \A x \in A.bindings, y \in b.bindings : x.id = y.id => x = y
    PROVE  Carries(A, Artifact(b, sub, assess), S)
<1> DEFINE active == ActiveClosure(b, sub)
           given == {c \in Checks : sub[c] # NoSubmission}
           bound == {x \in b.bindings : x.id \in UNION {sub[c].bindings : c \in given}}
           lin == Lineage((UNION {sub[c].witnesses : c \in given})
                             \cup UNION {Ids(x.refs, "WITNESS") : x \in bound})
           B == Artifact(b, sub, assess)
<1>1. /\ B.claims = b.claims \cap active.claims /\ B.witnesses = b.witnesses \cap active.witnesses
      /\ B.bindings = active.bindings /\ B.sub = sub /\ B.assess = assess
  BY DEF Artifact
<1>2. /\ active.bindings = bound
      /\ active.witnesses = lin
      /\ \A c \in given : sub[c].claims \subseteq active.claims
  BY DEF ActiveClosure
<1> HIDE DEF active, B
<1>3. ASSUME NEW c \in S, Submitted(A, c)
      PROVE  /\ A.claims \cap A.sub[c].claims \subseteq B.claims
             /\ \A w \in A.witnesses \cap A.sub[c].witnesses : Witness[w].check = c => w \in B.witnesses
             /\ \A x \in A.bindings : x.check = c /\ x.id \in A.sub[c].bindings => x \in B.bindings
  <2>1. c \in given /\ sub[c] = A.sub[c]
    BY <1>3 DEF Submitted
  <2>2. A.claims \cap A.sub[c].claims \subseteq B.claims
    BY <1>1, <1>2, <1>3, <2>1
  <2>3. ASSUME NEW w \in A.witnesses \cap A.sub[c].witnesses, Witness[w].check = c
        PROVE  w \in B.witnesses
    <3>1. w \in b.witnesses /\ w \in WitnessIds
      BY <1>3, <2>3 DEF TermsTyped
    <3>2. w \in Basis[w]
      BY <3>1, BasisIs
    <3>3. w \in lin
      BY <2>1, <2>3, <3>2 DEF Lineage
    <3> HIDE DEF lin
    <3> QED
      BY <1>1, <1>2, <3>1, <3>3
  <2>4. ASSUME NEW x \in A.bindings, x.check = c, x.id \in A.sub[c].bindings PROVE x \in B.bindings
    <3>1. x \in b.bindings
      BY <1>3, <2>4
    <3>2. x \in bound
      BY <2>1, <2>4, <3>1
    <3> QED
      BY <1>1, <1>2, <3>2
  <2> QED
    BY <2>2, <2>3, <2>4
<1>4. \A x \in A.bindings, y \in B.bindings : x.id = y.id => x = y
  BY <1>1, <1>2
<1> QED
  BY <1>1, <1>3, <1>4 DEF Carries, B

\* What a batch starts from: the artifact's terms and active submissions.
LEMMA RestoredIs ==
    ASSUME NEW A \in Artifacts, TermsTyped(A)
    PROVE  /\ Restored(A) \in Boxes /\ TermsTyped(Restored(A))
           /\ Restored(A).claims = A.claims /\ Restored(A).witnesses = A.witnesses
           /\ Restored(A).bindings = A.bindings
           /\ \A c \in Checks : Latest(Restored(A), c) = A.sub[c]
<1> DEFINE kept == {c \in Checks : Submitted(A, c)}
           n == Cardinality(kept)
           Orders(f) == f \in [1..n -> kept] /\ \A c \in kept : \E i \in DOMAIN f : f[i] = c
           order == CHOOSE f \in [1..n -> kept] : \A c \in kept : \E i \in DOMAIN f : f[i] = c
           entry(i) == [check |-> order[i], claims |-> A.sub[order[i]].claims,
                        bindings |-> A.sub[order[i]].bindings,
                        witnesses |-> A.sub[order[i]].witnesses,
                        note |-> FALSE, restored |-> TRUE]
           R == Restored(A)
<1>1. kept \in SUBSET Checks /\ IsFiniteSet(kept) /\ n \in Nat
  <2>1. kept \in SUBSET Checks /\ IsFiniteSet(Checks)
    OBVIOUS
  <2> QED
    BY <2>1, FS_Subset, FS_CardinalityType
<1>2. \E f : Orders(f)
  <2> HIDE DEF kept
  <2>1. ExistsBijection(1..n, kept)
    BY <1>1, FS_CardinalityType
  <2>2. PICK f : f \in [1..n -> kept] /\ \A c \in kept : \E i \in 1..n : f[i] = c
    BY <2>1 DEF Bijection, Surjection, ExistsBijection
  <2> QED
    BY <2>2
<1>3. Orders(order)
  <2> HIDE DEF kept, n
  <2> QED
    BY <1>2
<1>4. R = [reads |-> {}, claims |-> A.claims, witnesses |-> A.witnesses,
           bindings |-> A.bindings, subs |-> [i \in 1..n |-> entry(i)]]
  BY DEF Restored
<1> HIDE DEF R, order
<1>5. \A c \in kept : A.sub[c] \in Submissions
  BY DEF Artifacts, Submitted
<1>6. \A i \in 1..n : order[i] \in kept
  BY <1>3
<1>7. \A i \in 1..n : entry(i) \in Entries
  BY <1>1, <1>5, <1>6 DEF Submissions, Entries
<1>8. R.subs \in Seq(Entries) /\ DOMAIN R.subs = 1..n /\ \A i \in 1..n : R.subs[i] = entry(i)
  <2> HIDE DEF entry, kept
  <2> QED
    BY <1>1, <1>4, <1>7
<1>9. /\ R.claims = A.claims /\ R.witnesses = A.witnesses /\ R.bindings = A.bindings /\ R.reads = {}
  BY <1>4
<1>10. R \in Boxes /\ TermsTyped(R)
  <2> DEFINE subs == [i \in 1..n |-> entry(i)]
  <2>1. subs \in Seq(Entries)
    BY <1>4, <1>8
  <2> HIDE DEF subs, entry
  <2>2. R = [reads |-> {}, claims |-> A.claims, witnesses |-> A.witnesses,
             bindings |-> A.bindings, subs |-> subs]
    BY <1>4 DEF subs
  <2>3. A.claims \in SUBSET ClaimIds /\ A.witnesses \in SUBSET WitnessIds /\ A.bindings \in SUBSET Bindings
    BY DEF Artifacts
  <2> QED
    BY <2>1, <2>2, <2>3 DEF Boxes, TermsTyped
<1>11. ASSUME NEW c \in Checks PROVE Latest(R, c) = A.sub[c]
  <2>1. A.sub[c] \in Submissions \cup {NoSubmission}
    BY DEF Artifacts
  <2>2. SubmissionsOf(R, c) = {i \in 1..n : order[i] = c}
    <3>1. \A i \in 1..n : R.subs[i].check = order[i]
      <4>1. \A i \in 1..n : entry(i).check = order[i]
        OBVIOUS
      <4> HIDE DEF n, entry
      <4> QED
        BY <1>8, <4>1
    <3> HIDE DEF n, entry
    <3> QED
      BY <1>8, <3>1 DEF SubmissionsOf
  <2>3. CASE A.sub[c] = NoSubmission
    <3>1. c \notin kept
      BY <2>3 DEF Submitted
    <3>2. SubmissionsOf(R, c) = {}
      BY <1>6, <2>2, <3>1
    <3> QED
      BY <2>3, <3>2 DEF Latest
  <2>4. CASE A.sub[c] # NoSubmission
    <3>1. c \in kept
      BY <2>4 DEF Submitted
    <3>2. SubmissionsOf(R, c) # {}
      BY <1>3, <2>2, <3>1
    <3> DEFINE last == CHOOSE i \in SubmissionsOf(R, c) : \A j \in SubmissionsOf(R, c) : j <= i
    <3>3. last \in SubmissionsOf(R, c)
      <4>1. \E i \in SubmissionsOf(R, c) : \A j \in SubmissionsOf(R, c) : j <= i
        <5> DEFINE D == SubmissionsOf(R, c)
        <5>1. D \in SUBSET (1..n) /\ D # {}
          BY <2>2, <3>2
        <5> HIDE DEF D
        <5>2. PICK i \in D : \A j \in D : j <= i
          BY <1>1, <5>1, GreatestNumber
        <5> QED
          BY <5>2 DEF D
      <4> QED
        BY <4>1
    <3> HIDE DEF last
    <3>4. last \in 1..n /\ order[last] = c /\ R.subs[last] = entry(last)
      BY <1>8, <2>2, <3>3
    <3>5. Latest(R, c) = [claims |-> R.subs[last].claims, bindings |-> R.subs[last].bindings,
                          witnesses |-> R.subs[last].witnesses]
      BY <3>2 DEF Latest, last
    <3>6. Latest(R, c) = [claims |-> A.sub[c].claims, bindings |-> A.sub[c].bindings,
                          witnesses |-> A.sub[c].witnesses]
      BY <3>4, <3>5
    <3>7. A.sub[c] \in Submissions
      BY <2>1, <2>4
    <3> QED
      BY <3>6, <3>7 DEF Submissions
  <2> QED
    BY <2>3, <2>4
<1> QED
  BY <1>9, <1>10, <1>11 DEF R
-----------------------------------------------------------------------------
(* The steps preserve it. *)

Done(A) == {c \in Checks : A.assess[c] # NoAssessment}

\* Replacing the artifact by one the kernel closes, with nothing running, is safe.
LEMMA CloseKeeps ==
    ASSUME NEW A \in Artifacts, TermsTyped(A), UniqueIds(A.bindings),
           UpstreamClosed(Done(A)), \A c \in Done(A) : Passes(A, c),
           base' = A, box' = Restored(A), focus' = {}, revision' \in 0..MaxRevision,
           outcome' \in {"none", "protocol_failure", "not_submitted", "batch_committed",
                        "batch_partially_committed", "rechecked"}
    PROVE  IInv'
<1>1. /\ Restored(A) \in Boxes /\ TermsTyped(Restored(A))
      /\ Restored(A).claims = A.claims /\ Restored(A).witnesses = A.witnesses
      /\ Restored(A).bindings = A.bindings
      /\ \A c \in Checks : Latest(Restored(A), c) = A.sub[c]
  BY RestoredIs
<1>2. TypeInv'
  BY <1>1 DEF TypeInv
<1>3. BatchInv'
  BY <1>1 DEF BatchInv
<1>4. CommitInv'
  BY DEF CommitInv, Committed, Done
<1> QED
  BY <1>2, <1>3, <1>4 DEF IInv
LEMMA InitHolds == Init => IInv
<1> SUFFICES ASSUME Init PROVE IInv
  OBVIOUS
<1> USE DEF Init
<1>1. Blank \in Artifacts
  BY DEF Blank, Artifacts
<1>2. TermsTyped(Blank) /\ UniqueIds(Blank.bindings) /\ Done(Blank) = {}
  BY DEF Blank, TermsTyped, UniqueIds, Done
<1>3. /\ Restored(Blank) \in Boxes /\ TermsTyped(Restored(Blank))
      /\ Restored(Blank).claims = Blank.claims /\ Restored(Blank).witnesses = Blank.witnesses
      /\ Restored(Blank).bindings = Blank.bindings
      /\ \A c \in Checks : Latest(Restored(Blank), c) = Blank.sub[c]
  BY <1>1, <1>2, RestoredIs
<1>4. TypeInv
  BY <1>1, <1>2, <1>3, ReviewAssumption DEF TypeInv
<1>5. BatchInv
  BY <1>2, <1>3 DEF BatchInv
<1>6. CommitInv
  BY <1>2 DEF CommitInv, Committed, Done, UpstreamClosed
<1> QED
  BY <1>4, <1>5, <1>6 DEF IInv

\* A tool of the Executor that only adds to the sandbox, and nothing to what the CHECKs
\* out of focus submitted, keeps it.
LEMMA GrowKeeps ==
    ASSUME IInv, focus # {}, box' \in Boxes, TermsTyped(box'),
           box.claims \subseteq box'.claims, box.witnesses \subseteq box'.witnesses,
           box.bindings \subseteq box'.bindings, UniqueIds(box'.bindings),
           \A c \in Checks \ focus : Latest(box', c) = Latest(box, c),
           UNCHANGED <<focus, base, outcome, revision>>
    PROVE  IInv'
<1>1. TypeInv'
  BY DEF IInv, TypeInv
<1>2. BatchInv'
  <2>1. Remaining' = Remaining
    BY DEF Remaining, Committed
  <2>2. \A c \in Checks \ focus : Latest(box', c) = base.sub[c]
    BY DEF IInv, BatchInv
  <2> QED
    BY <2>1, <2>2 DEF IInv, BatchInv
<1>3. CommitInv'
  BY DEF IInv, CommitInv, Committed
<1> QED
  BY <1>1, <1>2, <1>3 DEF IInv

LEMMA LatestIs ==
    ASSUME NEW b, NEW d, NEW c, d.subs = b.subs
    PROVE  Latest(d, c) = Latest(b, c)
  BY DEF Latest, SubmissionsOf

LEMMA BeginKeeps == IInv /\ Begin => IInv'
<1> SUFFICES ASSUME IInv, Begin PROVE IInv'
  OBVIOUS
<1> DEFINE R == Restored(base)
           reads == UNION {Contract[c].sources : c \in Remaining}
<1>1. /\ base \in Artifacts /\ TermsTyped(base) /\ box = R /\ R \in Boxes /\ focus = {}
      /\ revision' \in 0..MaxRevision /\ focus' = Remaining /\ base' = base /\ outcome' = outcome
      /\ box' = [R EXCEPT !.reads = reads]
  BY ReviewAssumption DEF IInv, TypeInv, BatchInv, Begin
<1>2. reads \in SUBSET DOMAIN Observed
  BY DEF Remaining
<1> HIDE DEF R, reads
<1>3. /\ box' \in Boxes /\ box'.claims = box.claims /\ box'.witnesses = box.witnesses
      /\ box'.bindings = box.bindings /\ box'.subs = box.subs
  BY <1>1, <1>2 DEF Boxes
<1>4. TypeInv'
  BY <1>1, <1>3 DEF IInv, TypeInv, TermsTyped, Remaining
<1>5. BatchInv'
  <2>1. Remaining' = Remaining
    BY <1>1 DEF Remaining, Committed
  <2>2. \A c \in Checks : Latest(box', c) = base.sub[c]
    <3>1. \A c \in Checks : Latest(box, c) = base.sub[c]
      BY <1>1 DEF IInv, BatchInv
    <3>2. \A c \in Checks : Latest(box', c) = Latest(box, c)
      BY <1>3, LatestIs
    <3> QED
      BY <3>1, <3>2
  <2> QED
    BY <1>1, <1>3, <2>1, <2>2 DEF IInv, BatchInv, Begin
<1>6. CommitInv'
  BY <1>1 DEF IInv, CommitInv, Committed
<1> QED
  BY <1>4, <1>5, <1>6 DEF IInv

LEMMA AppendClaimKeeps ==
    ASSUME IInv, NEW k \in ClaimIds, AppendClaim(k)
    PROVE  IInv'
<1>1. /\ box \in Boxes /\ focus # {} /\ box' = [box EXCEPT !.claims = @ \cup {k}]
      /\ UNCHANGED <<focus, base, outcome, revision>>
  BY DEF IInv, TypeInv, AppendClaim, Tool
<1>2. /\ box' \in Boxes /\ box'.claims = box.claims \cup {k} /\ box'.witnesses = box.witnesses
      /\ box'.bindings = box.bindings /\ box'.subs = box.subs
  BY <1>1 DEF Boxes
<1>3. TermsTyped(box') /\ UniqueIds(box'.bindings)
  BY <1>2 DEF IInv, TypeInv, BatchInv, TermsTyped
<1>4. \A c \in Checks \ focus : Latest(box', c) = Latest(box, c)
  BY <1>2, LatestIs
<1> QED
  BY <1>1, <1>2, <1>3, <1>4, GrowKeeps

LEMMA ComputeWitnessKeeps ==
    ASSUME IInv, NEW w \in WitnessIds, ComputeWitness(w)
    PROVE  IInv'
<1>1. /\ box \in Boxes /\ focus # {} /\ box' = [box EXCEPT !.witnesses = @ \cup {w}]
      /\ UNCHANGED <<focus, base, outcome, revision>>
  BY DEF IInv, TypeInv, ComputeWitness, Tool
<1>2. /\ box' \in Boxes /\ box'.witnesses = box.witnesses \cup {w} /\ box'.claims = box.claims
      /\ box'.bindings = box.bindings /\ box'.subs = box.subs
  BY <1>1 DEF Boxes
<1>3. TermsTyped(box') /\ UniqueIds(box'.bindings)
  BY <1>2 DEF IInv, TypeInv, BatchInv, TermsTyped
<1>4. \A c \in Checks \ focus : Latest(box', c) = Latest(box, c)
  BY <1>2, LatestIs
<1> QED
  BY <1>1, <1>2, <1>3, <1>4, GrowKeeps
LEMMA SubmitCheckKeeps ==
    ASSUME IInv, NEW c \in Checks, NEW s \in Candidate[c], SubmitCheck(c, s)
    PROVE  IInv'
<1> DEFINE e == Entry(c, s)
<1>1. /\ box \in Boxes /\ focus # {} /\ c \in focus
      /\ box' = [box EXCEPT !.subs = Append(@, e), !.bindings = @ \cup s.bindings]
      /\ UNCHANGED <<focus, base, outcome, revision>>
  BY DEF IInv, TypeInv, SubmitCheck, Tool
<1>2. /\ s.claims \subseteq box.claims /\ s.witnesses \subseteq box.witnesses
      /\ \A x \in s.bindings : /\ Ids(x.refs, "CLAIM") \subseteq s.claims
                               /\ Ids(x.refs, "WITNESS") \subseteq s.witnesses
                               /\ \A y \in box.bindings \cup s.bindings : y.id = x.id => y = x
  BY DEF SubmitCheck, Admissible
<1>3. s.bindings \subseteq Bindings
  BY DEF Bindings
<1>4. e \in Entries /\ e.check = c
  <2>1. s.claims \in SUBSET ClaimIds /\ s.witnesses \in SUBSET WitnessIds /\ s.note \in BOOLEAN
    BY <1>1, <1>2, ReviewAssumption DEF Boxes
  <2>2. {x.id : x \in s.bindings} \in SUBSET BindingIds
    BY <1>3 DEF BindingIds
  <2> QED
    BY <2>1, <2>2 DEF Entry, Entries
<1>5. box.subs \in Seq(Entries) /\ Append(box.subs, e) \in Seq(Entries)
  <2>1. box.subs \in Seq(Entries)
    BY <1>1 DEF Boxes
  <2> HIDE DEF e
  <2> QED
    BY <1>4, <2>1
<1> HIDE DEF e
<1>6. /\ box'.subs = Append(box.subs, e) /\ box'.bindings = box.bindings \cup s.bindings
      /\ box'.claims = box.claims /\ box'.witnesses = box.witnesses /\ box'.reads = box.reads
      /\ box' = [reads |-> box.reads, claims |-> box.claims, witnesses |-> box.witnesses,
                 bindings |-> box.bindings \cup s.bindings, subs |-> Append(box.subs, e)]
  BY <1>1 DEF Boxes
<1>7. box' \in Boxes
  <2>1. /\ box.reads \in SUBSET DOMAIN Observed /\ box.claims \in SUBSET ClaimIds
        /\ box.witnesses \in SUBSET WitnessIds /\ box.bindings \cup s.bindings \in SUBSET Bindings
    BY <1>1, <1>3 DEF Boxes
  <2> QED
    BY <1>5, <1>6, <2>1 DEF Boxes
<1>8. TermsTyped(box')
  BY <1>2, <1>6 DEF IInv, TypeInv, TermsTyped
<1>9. UniqueIds(box'.bindings)
  BY <1>2, <1>6 DEF IInv, BatchInv, UniqueIds
<1>10. \A d \in Checks \ focus : Latest(box', d) = Latest(box, d)
  <2> SUFFICES ASSUME NEW d \in Checks \ focus PROVE Latest(box', d) = Latest(box, d)
    OBVIOUS
  <2>1. d # c
    BY <1>1
  <2>2. /\ DOMAIN box.subs = 1..Len(box.subs) /\ Len(box.subs) \in Nat
        /\ DOMAIN box'.subs = 1..(Len(box.subs) + 1)
        /\ \A i \in 1..Len(box.subs) : box'.subs[i] = box.subs[i]
        /\ box'.subs[Len(box.subs) + 1] = e
    BY <1>5, <1>6
  <2>3. SubmissionsOf(box', d) = SubmissionsOf(box, d)
    BY <1>4, <2>1, <2>2 DEF SubmissionsOf
  <2>4. CASE SubmissionsOf(box, d) = {}
    BY <2>3, <2>4 DEF Latest
  <2>5. CASE SubmissionsOf(box, d) # {}
    <3> DEFINE last == CHOOSE i \in SubmissionsOf(box, d) : \A j \in SubmissionsOf(box, d) : j <= i
    <3>1. last \in 1..Len(box.subs)
      <4> DEFINE D == SubmissionsOf(box, d)
                 n == Len(box.subs)
      <4>1. n \in Nat /\ D \in SUBSET (1..n) /\ D # {}
        BY <2>2, <2>5 DEF SubmissionsOf
      <4> HIDE DEF D, n
      <4>2. \E i \in D : \A j \in D : j <= i
        BY <4>1, GreatestNumber
      <4>3. (CHOOSE i \in D : \A j \in D : j <= i) \in D
        BY <4>2
      <4>4. (CHOOSE i \in D : \A j \in D : j <= i) \in 1..n
        BY <4>1, <4>3
      <4> QED
        BY <4>4 DEF D, n
    <3>2. Latest(box, d) = [claims |-> box.subs[last].claims, bindings |-> box.subs[last].bindings,
                            witnesses |-> box.subs[last].witnesses]
      BY <2>5 DEF Latest
    <3>3. Latest(box', d) = [claims |-> box'.subs[last].claims, bindings |-> box'.subs[last].bindings,
                             witnesses |-> box'.subs[last].witnesses]
      BY <2>3, <2>5 DEF Latest
    <3> HIDE DEF last
    <3> QED
      BY <2>2, <3>1, <3>2, <3>3
  <2> QED
    BY <2>4, <2>5
<1> QED
  BY <1>1, <1>6, <1>7, <1>8, <1>9, <1>10, GrowKeeps

\* A batch that ends without a commit leaves the artifact it started from.
LEMMA LeaveKeeps ==
    ASSUME IInv, NEW how \in {"protocol_failure", "not_submitted"}, Close(base, how)
    PROVE  IInv'
<1>1. /\ base \in Artifacts /\ TermsTyped(base)
      /\ UpstreamClosed(Done(base)) /\ \A c \in Done(base) : Passes(base, c)
      /\ revision \in 0..MaxRevision
  BY DEF IInv, TypeInv, CommitInv, Committed, Done
<1>2. UniqueIds(base.bindings)
  BY DEF IInv, BatchInv, UniqueIds
<1>3. /\ base' = base /\ box' = Restored(base) /\ focus' = {} /\ revision' = revision
      /\ outcome' = how
  BY DEF Close
<1> QED
  BY <1>1, <1>2, <1>3, CloseKeeps
LEMMA LatestTyped ==
    ASSUME NEW b \in Boxes, NEW c \in Checks
    PROVE  Latest(b, c) \in Submissions \cup {NoSubmission}
<1> DEFINE D == SubmissionsOf(b, c)
           n == Len(b.subs)
           last == CHOOSE i \in D : \A j \in D : j <= i
<1>1. /\ b.subs \in Seq(Entries) /\ n \in Nat /\ DOMAIN b.subs = 1..n
      /\ \A i \in 1..n : b.subs[i] \in Entries
  <2>1. b.subs \in Seq(Entries)
    BY DEF Boxes
  <2> QED
    BY <2>1
<1>2. CASE D = {}
  BY <1>2 DEF Latest
<1>3. CASE D # {}
  <2>1. D \in SUBSET (1..n)
    BY <1>1 DEF SubmissionsOf
  <2>2. last \in 1..n
    <3> HIDE DEF D, n
    <3>1. \E i \in D : \A j \in D : j <= i
      BY <1>1, <1>3, <2>1, GreatestNumber
    <3> QED
      BY <2>1, <3>1
  <2>3. Latest(b, c) = [claims |-> b.subs[last].claims, bindings |-> b.subs[last].bindings,
                        witnesses |-> b.subs[last].witnesses]
    BY <1>3 DEF Latest
  <2> HIDE DEF last
  <2>4. b.subs[last] \in Entries
    BY <1>1, <2>2
  <2> QED
    BY <2>3, <2>4 DEF Entries, Submissions
<1> QED
  BY <1>2, <1>3

\* What a batch puts before the Verifier still has the committed material.
LEMMA OwnedIs ==
    ASSUME IInv
    PROVE  /\ TermsTyped(Owned(box)) /\ Owned(box).bindings \subseteq Bindings
           /\ base.claims \subseteq Owned(box).claims /\ base.witnesses \subseteq Owned(box).witnesses
           /\ base.bindings \subseteq Owned(box).bindings /\ Owned(box).bindings \subseteq box.bindings
<1> DEFINE r == Reached(box)
           o == Owned(box)
<1>1. box \in Boxes
  BY DEF IInv, TypeInv
<1>2. o = [box EXCEPT !.claims = @ \cap (base.claims \cup r.claims),
                      !.witnesses = @ \cap (base.witnesses \cup r.witnesses),
                      !.bindings = @ \cap (base.bindings \cup r.bindings)]
  BY DEF Owned
<1> HIDE DEF r, o
<1>3. /\ o.claims = box.claims \cap (base.claims \cup r.claims)
      /\ o.witnesses = box.witnesses \cap (base.witnesses \cup r.witnesses)
      /\ o.bindings = box.bindings \cap (base.bindings \cup r.bindings)
  BY <1>1, <1>2 DEF Boxes
<1>4. TermsTyped(o)
  BY <1>3 DEF IInv, TypeInv, TermsTyped
<1>5. box.bindings \subseteq Bindings
  BY <1>1 DEF Boxes
<1> QED
  BY <1>3, <1>4, <1>5 DEF IInv, BatchInv, o

\* The artifact a batch is judged by says of the committed CHECKs what was committed.
LEMMA WholeIs ==
    ASSUME IInv, focus # {}, NEW f \in Verdicts
    PROVE  /\ Whole(f) \in Artifacts /\ TermsTyped(Whole(f)) /\ UniqueIds(Whole(f).bindings)
           /\ Carries(base, Whole(f), Committed)
           /\ Done(Whole(f)) = Checks
           /\ \A c \in focus : c \notin Committed
<1> DEFINE o == Owned(box)
           sub == [c \in Checks |-> Latest(box, c)]
           assess == [c \in Checks |-> IF c \in focus THEN f[c] ELSE base.assess[c]]
           W == Artifact(o, sub, assess)
<1>1. /\ box \in Boxes /\ base \in Artifacts /\ TermsTyped(base) /\ focus = Remaining
      /\ focus \in SUBSET Checks
  BY DEF IInv, TypeInv, BatchInv
<1>2. Whole(f) = W
  BY DEF Whole
<1>3. sub \in Subs
  BY <1>1, LatestTyped DEF Subs
<1>4. \A c \in focus : f[c] \in Assessments /\ f[c] # NoAssessment
  BY <1>1, ReviewAssumption DEF Verdicts, Assessments
<1>5. assess \in Assesses
  BY <1>1, <1>4 DEF Assesses, Artifacts
<1>6. \A c \in Committed : c \in Checks /\ c \notin focus /\ sub[c] = base.sub[c] /\ assess[c] = base.assess[c]
  <2>1. \A c \in Checks \ focus : Latest(box, c) = base.sub[c]
    BY DEF IInv, BatchInv
  <2> QED
    BY <1>1, <2>1 DEF Remaining, Committed
<1>7. \A c \in Checks : assess[c] # NoAssessment
  BY <1>1, <1>4 DEF Remaining, Committed
<1> HIDE DEF sub, assess, W, o
<1>8. /\ TermsTyped(o) /\ o.bindings \subseteq Bindings
      /\ base.claims \subseteq o.claims /\ base.witnesses \subseteq o.witnesses
      /\ base.bindings \subseteq o.bindings /\ o.bindings \subseteq box.bindings
  BY OwnedIs DEF o
<1>9. /\ W \in Artifacts /\ TermsTyped(W) /\ W.assess = assess /\ W.bindings \subseteq o.bindings
  BY <1>3, <1>5, <1>8, ArtifactTyped DEF W
<1>10. UniqueIds(box.bindings) /\ UniqueIds(W.bindings)
  BY <1>8, <1>9 DEF IInv, BatchInv, UniqueIds
<1>11. Carries(base, W, Committed)
  <2>1. \A x \in base.bindings, y \in o.bindings : x.id = y.id => x = y
    BY <1>8, <1>10 DEF UniqueIds
  <2>2. \A c \in Committed : Submitted(base, c) =>
             /\ base.claims \cap base.sub[c].claims \subseteq o.claims
             /\ \A w \in base.witnesses : Witness[w].check = c => w \in o.witnesses
             /\ \A x \in base.bindings : x.check = c => x \in o.bindings
    BY <1>8
  <2>3. Committed \in SUBSET Checks
    BY DEF Committed
  <2>4. \A c \in Committed : sub[c] = base.sub[c] /\ assess[c] = base.assess[c]
    BY <1>6
  <2> QED
    BY <1>1, <2>1, <2>2, <2>3, <2>4, ArtifactCarries DEF W
<1>12. Done(W) = Checks
  BY <1>7, <1>9 DEF Done
<1> QED
  BY <1>2, <1>6, <1>9, <1>10, <1>11, <1>12

\* Publishing only the ready CHECKs carries them.
LEMMA OnlyIs ==
    ASSUME NEW A \in Artifacts, TermsTyped(A), UniqueIds(A.bindings), NEW S \in SUBSET Checks
    PROVE  /\ Only(A, S) \in Artifacts /\ TermsTyped(Only(A, S)) /\ UniqueIds(Only(A, S).bindings)
           /\ Carries(A, Only(A, S), S)
           /\ Done(Only(A, S)) = Done(A) \cap S
<1> DEFINE sub == [c \in Checks |-> IF c \in S THEN A.sub[c] ELSE NoSubmission]
           assess == [c \in Checks |-> IF c \in S THEN A.assess[c] ELSE NoAssessment]
           B == Artifact(A, sub, assess)
<1>1. Only(A, S) = B
  BY DEF Only
<1>2. /\ sub \in Subs /\ assess \in Assesses /\ A.bindings \subseteq Bindings
  BY DEF Artifacts, Subs, Assesses
<1>3. /\ \A c \in S : sub[c] = A.sub[c] /\ assess[c] = A.assess[c]
      /\ \A c \in Checks \ S : assess[c] = NoAssessment
  OBVIOUS
<1> HIDE DEF sub, assess, B
<1>4. B \in Artifacts /\ TermsTyped(B) /\ B.assess = assess /\ B.bindings \subseteq A.bindings
  BY <1>2, ArtifactTyped DEF B
<1>5. UniqueIds(B.bindings)
  BY <1>4 DEF UniqueIds
<1>6. Carries(A, B, S)
  <2>1. \A x \in A.bindings, y \in A.bindings : x.id = y.id => x = y
    BY DEF UniqueIds
  <2>2. \A c \in S : Submitted(A, c) =>
             /\ A.claims \cap A.sub[c].claims \subseteq A.claims
             /\ \A w \in A.witnesses : Witness[w].check = c => w \in A.witnesses
             /\ \A x \in A.bindings : x.check = c => x \in A.bindings
    OBVIOUS
  <2>3. \A c \in S : sub[c] = A.sub[c] /\ assess[c] = A.assess[c]
    BY <1>3
  <2> QED
    BY <2>1, <2>2, <2>3, ArtifactCarries DEF B
<1>7. Done(B) = Done(A) \cap S
  BY <1>3, <1>4 DEF Done
<1> QED
  BY <1>1, <1>4, <1>5, <1>6, <1>7
\* What a judged batch commits: the ready CHECKs, with the verdicts committed before as
\* they were.
LEMMA JudgeIs ==
    ASSUME IInv, NEW f \in Verdicts, Judge(f)
    PROVE  /\ base' \in Artifacts /\ TermsTyped(base') /\ UniqueIds(base'.bindings)
           /\ box' = Restored(base') /\ focus' = {} /\ revision' = revision
           /\ outcome' \in {"batch_committed", "batch_partially_committed"}
           /\ Committed \subseteq Done(base') /\ UpstreamClosed(Done(base'))
           /\ \A c \in Done(base') : Passes(base', c)
           /\ \A c \in Committed : NodeResult(base', c) = NodeResult(base, c)
<1> DEFINE whole == Whole(f)
           ok == {c \in focus : Accepted(whole, c, f[c])}
           ready == Ready(ok)
           how == IF focus \subseteq ready THEN "batch_committed" ELSE "batch_partially_committed"
<1>1. /\ focus # {} /\ focus \in SUBSET Checks /\ base \in Artifacts /\ TermsTyped(base)
      /\ UpstreamClosed(Committed) /\ Committed \in SUBSET Checks
      /\ \A c \in Committed : Passes(base, c)
  BY DEF IInv, TypeInv, CommitInv, Judge, Committed
<1>2. Close(Only(whole, ready), how)
  BY DEF Judge
<1>3. /\ whole \in Artifacts /\ TermsTyped(whole) /\ UniqueIds(whole.bindings)
      /\ Carries(base, whole, Committed) /\ Done(whole) = Checks
  BY <1>1, WholeIs
<1> HIDE DEF whole
<1>4. ok \in SUBSET Checks
  BY <1>1
<1> HIDE DEF ok
<1>5. Committed \subseteq ready /\ ready \subseteq Committed \cup ok /\ UpstreamClosed(ready)
  BY <1>1, <1>4, ReadyIs
<1>6. ready \in SUBSET Checks
  BY <1>1, <1>4, <1>5
<1> HIDE DEF ready
<1> DEFINE B == Only(whole, ready)
<1>7. /\ B \in Artifacts /\ TermsTyped(B) /\ UniqueIds(B.bindings)
      /\ Carries(whole, B, ready) /\ Done(B) = ready
  <2>1. /\ B \in Artifacts /\ TermsTyped(B) /\ UniqueIds(B.bindings)
        /\ Carries(whole, B, ready) /\ Done(B) = Done(whole) \cap ready
    BY <1>3, <1>6, OnlyIs
  <2> QED
    BY <1>3, <1>6, <2>1
<1> HIDE DEF B
<1>8. \A c \in Committed : Passes(whole, c) /\ NodeResult(whole, c) = NodeResult(base, c)
  BY <1>1, <1>3, PassesCarries
<1>9. \A c \in ready : Passes(whole, c)
  BY <1>5, <1>8 DEF ok, Accepted
<1>10. \A c \in ready : Passes(B, c) /\ NodeResult(B, c) = NodeResult(whole, c)
  BY <1>3, <1>5, <1>6, <1>7, <1>9, PassesCarries
<1>11. base' = B /\ box' = Restored(base') /\ focus' = {} /\ revision' = revision /\ outcome' = how
  BY <1>2 DEF Close, B
<1> QED
  BY <1>5, <1>7, <1>8, <1>10, <1>11

LEMMA JudgeKeeps ==
    ASSUME IInv, NEW f \in Verdicts, Judge(f)
    PROVE  IInv'
<1>1. revision' \in 0..MaxRevision
  BY JudgeIs DEF IInv, TypeInv
<1>2. PICK A : A = base'
  OBVIOUS
<1>3. /\ A \in Artifacts /\ TermsTyped(A) /\ UniqueIds(A.bindings)
      /\ UpstreamClosed(Done(A)) /\ \A c \in Done(A) : Passes(A, c)
      /\ base' = A /\ box' = Restored(A) /\ focus' = {}
      /\ outcome' \in {"batch_committed", "batch_partially_committed"}
  BY <1>2, JudgeIs
<1> QED
  BY <1>1, <1>3, CloseKeeps

\* What a CHECK downstream rests on stays downstream.
LEMMA DownstreamIs ==
    ASSUME NEW c \in Checks
    PROVE  /\ DownstreamOf(c) \in SUBSET Checks /\ c \in DownstreamOf(c)
           /\ \A d \in Checks : Upstream[d] \cap DownstreamOf(c) # {} => d \in DownstreamOf(c)
<1>1. DownstreamOf(c) \in SUBSET Checks /\ c \in DownstreamOf(c)
  BY UpstreamOfIs DEF DownstreamOf
<1>2. ASSUME NEW d \in Checks, NEW u \in Upstream[d], u \in DownstreamOf(c)
      PROVE  d \in DownstreamOf(c)
  <2>1. u \in Checks /\ c \in UpstreamOf[u]
    BY <1>2 DEF DownstreamOf
  <2>2. u \in UpstreamOf[d] /\ UpstreamOf[d] \in SUBSET Checks /\ UpstreamClosed(UpstreamOf[d])
    BY UpstreamOfIs DEF UpstreamClosed
  <2>3. c \in UpstreamOf[d]
    BY <2>1, <2>2, UpstreamStays
  <2> QED
    BY <2>3 DEF DownstreamOf
<1> QED
  BY <1>1, <1>2

\* What a recheck leaves: the committed CHECKs that do not rest on the rechecked one, as
\* they were.
LEMMA RecheckIs ==
    ASSUME IInv, NEW c \in Checks, Recheck(c)
    PROVE  /\ base' \in Artifacts /\ TermsTyped(base') /\ UniqueIds(base'.bindings)
           /\ box' = Restored(base') /\ focus' = {} /\ revision' \in 0..MaxRevision
           /\ outcome' = "rechecked"
           /\ Done(base') = Committed \ DownstreamOf(c) /\ UpstreamClosed(Done(base'))
           /\ \A d \in Done(base') : Passes(base', d) /\ NodeResult(base', d) = NodeResult(base, d)
<1> DEFINE affected == DownstreamOf(c)
           assess == [d \in Checks |-> IF d \in affected THEN NoAssessment ELSE base.assess[d]]
           sub == [d \in Checks |-> IF d \in affected THEN NoSubmission ELSE base.sub[d]]
           kept == [base EXCEPT
                      !.assess = [d \in Checks |-> IF d \in affected THEN NoAssessment ELSE @[d]],
                      !.sub = [d \in Checks |-> IF d \in affected THEN NoSubmission ELSE @[d]],
                      !.witnesses = {w \in @ : Witness[w].check \notin affected},
                      !.bindings = {x \in @ : x.check \notin affected}]
           R == Restored(kept)
           A == Artifact(R, kept.sub, kept.assess)
           S == Committed \ affected
<1>1. /\ base \in Artifacts /\ TermsTyped(base) /\ UpstreamClosed(Committed)
      /\ \A d \in Committed : Passes(base, d)
      /\ UniqueIds(base.bindings)
  BY DEF IInv, TypeInv, BatchInv, CommitInv, UniqueIds
<1>2. /\ base' = A /\ box' = Restored(A) /\ outcome' = "rechecked" /\ revision' \in 0..MaxRevision
      /\ focus' = {}
  BY ReviewAssumption DEF Recheck, IInv, TypeInv
<1>3. affected \in SUBSET Checks /\ \A d \in Checks : Upstream[d] \cap affected # {} => d \in affected
  BY DownstreamIs
<1> HIDE DEF affected
<1>4. /\ kept.assess = assess /\ kept.sub = sub /\ kept.claims = base.claims
      /\ kept.witnesses = {w \in base.witnesses : Witness[w].check \notin affected}
      /\ kept.bindings = {x \in base.bindings : x.check \notin affected}
  BY <1>1 DEF Artifacts
<1>5. sub \in Subs /\ assess \in Assesses
  BY <1>1 DEF Artifacts, Subs, Assesses
<1>6. kept \in Artifacts
  <2> DEFINE ws == {w \in base.witnesses : Witness[w].check \notin affected}
             xs == {x \in base.bindings : x.check \notin affected}
  <2>1. kept = [base EXCEPT !.assess = assess, !.sub = sub, !.witnesses = ws, !.bindings = xs]
    OBVIOUS
  <2>2. ws \in SUBSET WitnessIds /\ xs \in SUBSET Bindings /\ base.claims \in SUBSET ClaimIds
    BY <1>1 DEF Artifacts
  <2> HIDE DEF sub, assess, kept, ws, xs
  <2> QED
    BY <1>1, <1>5, <2>1, <2>2 DEF Artifacts, Subs, Assesses
<1>7. TermsTyped(kept)
  <2> HIDE DEF kept
  <2> QED
    BY <1>1, <1>4 DEF TermsTyped
<1>8. /\ \A d \in S : sub[d] = base.sub[d] /\ assess[d] = base.assess[d]
      /\ {d \in Checks : assess[d] # NoAssessment} = S
  BY DEF Committed
<1> HIDE DEF kept, sub, assess
<1>9. /\ TermsTyped(R) /\ R.bindings \subseteq Bindings /\ R.claims = kept.claims
      /\ R.witnesses = kept.witnesses /\ R.bindings = kept.bindings
  BY <1>6, <1>7, RestoredIs DEF Boxes
<1> HIDE DEF R
<1>10. /\ A \in Artifacts /\ TermsTyped(A) /\ A.assess = assess /\ A.bindings \subseteq R.bindings
  BY <1>4, <1>5, <1>9, ArtifactTyped
<1>11. UniqueIds(A.bindings)
  <2> HIDE DEF A
  <2> QED
    BY <1>1, <1>4, <1>9, <1>10 DEF UniqueIds
<1>12. S \in SUBSET Checks /\ UpstreamClosed(S)
  <2>1. S \in SUBSET Checks
    BY DEF Committed
  <2> QED
    BY <1>1, <1>3, <2>1 DEF UpstreamClosed
<1>13. Carries(base, A, S)
  <2>1. \A x \in base.bindings, y \in R.bindings : x.id = y.id => x = y
    BY <1>1, <1>4, <1>9 DEF UniqueIds
  <2>2. \A d \in S : Submitted(base, d) =>
             /\ base.claims \cap base.sub[d].claims \subseteq R.claims
             /\ \A w \in base.witnesses : Witness[w].check = d => w \in R.witnesses
             /\ \A x \in base.bindings : x.check = d => x \in R.bindings
    BY <1>4, <1>9
  <2>3. \A d \in S : sub[d] = base.sub[d] /\ assess[d] = base.assess[d]
    BY <1>8
  <2>4. A = Artifact(R, sub, assess)
    BY <1>4
  <2> HIDE DEF A, S
  <2> QED
    BY <1>1, <1>12, <2>1, <2>2, <2>3, <2>4, ArtifactCarries
<1> HIDE DEF A
<1>14. Done(A) = S
  BY <1>8, <1>10 DEF Done
<1>15. \A d \in S : Passes(A, d) /\ NodeResult(A, d) = NodeResult(base, d)
  BY <1>1, <1>12, <1>13, PassesCarries
<1> QED
  BY <1>2, <1>10, <1>11, <1>12, <1>14, <1>15 DEF affected

LEMMA RecheckKeeps ==
    ASSUME IInv, NEW c \in Checks, Recheck(c)
    PROVE  IInv'
<1>1. PICK A : A = base'
  OBVIOUS
<1>2. /\ A \in Artifacts /\ TermsTyped(A) /\ UniqueIds(A.bindings)
      /\ UpstreamClosed(Done(A)) /\ \A d \in Done(A) : Passes(A, d)
      /\ base' = A /\ box' = Restored(A) /\ focus' = {} /\ revision' \in 0..MaxRevision
      /\ outcome' = "rechecked"
  BY <1>1, RecheckIs
<1> QED
  BY <1>2, CloseKeeps
LEMMA StepKeeps == IInv /\ [Next]_vars => IInv'
<1> SUFFICES ASSUME IInv, [Next]_vars PROVE IInv'
  OBVIOUS
<1>1. CASE Begin
  BY <1>1, BeginKeeps
<1>2. CASE Abort
  BY <1>2, LeaveKeeps DEF Abort
<1>3. CASE NotSubmitted
  BY <1>3, LeaveKeeps DEF NotSubmitted
<1>4. ASSUME NEW k \in ClaimIds, BindClaim(k) \/ BindRecordFieldClaim(k) PROVE IInv'
  BY <1>4, AppendClaimKeeps DEF BindClaim, BindRecordFieldClaim
<1>5. ASSUME NEW w \in WitnessIds, ComputeWitness(w) PROVE IInv'
  BY <1>5, ComputeWitnessKeeps
<1>6. ASSUME NEW c \in Checks, Recheck(c) PROVE IInv'
  BY <1>6, RecheckKeeps
<1>7. ASSUME NEW c \in Checks, NEW s \in Candidate[c], SubmitCheck(c, s) PROVE IInv'
  BY <1>7, SubmitCheckKeeps
<1>8. ASSUME NEW f \in Verdicts, Judge(f) PROVE IInv'
  BY <1>8, JudgeKeeps
<1>9. CASE UNCHANGED vars
  BY <1>9 DEF vars, IInv, TypeInv, BatchInv, CommitInv, Committed, Remaining
<1> QED
  BY <1>1, <1>2, <1>3, <1>4, <1>5, <1>6, <1>7, <1>8, <1>9 DEF Next

-----------------------------------------------------------------------------
(* Theorems. *)

\* The inductive invariant holds.
THEOREM Inductive == Spec => []IInv
<1>1. Init => IInv
  BY InitHolds
<1>2. IInv /\ [Next]_vars => IInv'
  BY StepKeeps
<1> QED
  BY <1>1, <1>2, PTL DEF Spec

\* Type correctness, for every plan, source and bound.
THEOREM TypeCorrect == Spec => []TypeOK
<1>1. IInv => TypeOK
  BY DEF IInv, TypeInv, BatchInv, TypeOK, TermsTyped, Boxes
<1> QED
  BY <1>1, Inductive, PTL

\* Whatever batches committed and rechecks dropped, the saved artifact can be resumed: the
\* kernel closes every CHECK that counts as completed.
THEOREM AlwaysReplays == Spec => []SavedReplays
<1>1. IInv => SavedReplays
  <2> SUFFICES ASSUME IInv, NEW c \in Checks, base.assess[c] # NoAssessment
               PROVE  /\ Submitted(base, c) /\ Passes(base, c)
                      /\ NodeResult(base, c).status = base.assess[c].status
    BY DEF SavedReplays, ProofClosed
  <2>1. Passes(base, c)
    BY DEF IInv, CommitInv, Committed
  <2> QED
    BY <2>1 DEF Passes, NodeResult
<1> QED
  BY <1>1, Inductive, PTL

\* A committed strong verdict rests on calculations of committed CHECKs only, each carried
\* by the committed submission of the CHECK that made it.
THEOREM OwnersAlwaysStandBehind == Spec => []OwnersStandBehind
<1>1. IInv => OwnersStandBehind
  <2> SUFFICES ASSUME IInv, NEW c \in Committed, NEW w \in NodeResult(base, c).witnesses
               PROVE  /\ Witness[w].check \in Committed
                      /\ w \in base.witnesses \cap base.sub[Witness[w].check].witnesses
    BY DEF OwnersStandBehind
  <2>1. /\ TermsTyped(base) /\ Committed \in SUBSET Checks /\ UpstreamClosed(Committed)
        /\ Passes(base, c)
    BY DEF IInv, TypeInv, CommitInv, Committed
  <2>2. w \in AcceptedWitnesses(base, base.assess[c])
    BY <2>1 DEF NodeResult
  <2>3. OwnedIn(base, Committed, w)
    BY <2>1, <2>2, AcceptedOwned
  <2> QED
    BY <2>3 DEF OwnedIn
<1> QED
  BY <1>1, Inductive, PTL

\* No calculation of a CHECK is passed over in its committed strong verdict.
THEOREM EveryCalculationAlwaysCounts == Spec => []EveryCalculationCounts
<1>1. IInv => EveryCalculationCounts
  <2> SUFFICES ASSUME IInv, NEW c \in Committed, base.assess[c].status # "NOT_FOUND",
                      NEW x \in BindingsOf(base, base.assess[c])
               PROVE  {w \in base.sub[c].witnesses : Witness[w].check = c} \subseteq BoundWitnesses(x)
    BY DEF EveryCalculationCounts
  <2>1. /\ TermsTyped(base) /\ Committed \in SUBSET Checks /\ UpstreamClosed(Committed)
        /\ Passes(base, c)
    BY DEF IInv, TypeInv, CommitInv, Committed
  <2> QED
    BY <2>1, CalculationsBound
<1> QED
  BY <1>1, Inductive, PTL
-----------------------------------------------------------------------------
(* The batch transaction implements the ledger of verdicts. *)

LedgerVerdicts ==
  [status : {"SUPPORTED", "CONTRADICTED", "NOT_FOUND"}, claims : SUBSET ClaimIds,
   bindings : SUBSET UNION {UNION {{x.id : x \in s.bindings} : s \in Candidate[c]} : c \in Checks},
   witnesses : SUBSET WitnessIds]

\* What the kernel makes of a CHECK that passes is a verdict of the ledger.
LEMMA ResultTyped ==
    ASSUME NEW A \in Artifacts, TermsTyped(A), NEW c \in Checks, Passes(A, c)
    PROVE  NodeResult(A, c) \in LedgerVerdicts
<1> DEFINE a == A.assess[c]
<1>1. a # NoAssessment /\ ClosureAccepted(A, c, a)
  BY DEF Passes
<1>2. a.status \in {"SUPPORTED", "CONTRADICTED", "NOT_FOUND"}
  BY <1>1, ReviewAssumption DEF Artifacts, Assessments
<1> HIDE DEF a
<1>3. AcceptedWitnesses(A, a) \in SUBSET WitnessIds
  <2>1. \A w \in a.witnesses \cup UNION {Ids(b.refs, "WITNESS") : b \in BindingsOf(A, a)} : w \in WitnessIds
    BY <1>1 DEF ClosureAccepted, TermsTyped, BindingsOf
  <2>2. \A w \in WitnessIds : Basis[w] \in SUBSET WitnessIds
    BY BasisIs
  <2> QED
    BY <2>1, <2>2 DEF AcceptedWitnesses, Lineage
<1>4. AcceptedClaims(A, a) \in SUBSET ClaimIds
  <2>1. a.claims \subseteq ClaimIds
    BY <1>1 DEF ClosureAccepted, TermsTyped
  <2>2. \A b \in BindingsOf(A, a) : Ids(b.refs, "CLAIM") \subseteq ClaimIds
    BY DEF TermsTyped, BindingsOf
  <2>3. Operands(AcceptedWitnesses(A, a), "CLAIM") \subseteq ClaimIds
    BY <1>3 DEF Operands
  <2>4. UNION {Ids(b.refs, "CLAIM") : b \in BindingsOf(A, a)} \subseteq ClaimIds
    BY <2>2
  <2> DEFINE bound == UNION {Ids(b.refs, "CLAIM") : b \in BindingsOf(A, a)}
             used == Operands(AcceptedWitnesses(A, a), "CLAIM")
  <2>5. AcceptedClaims(A, a) = a.claims \cup bound \cup used
    BY DEF AcceptedClaims
  <2> HIDE DEF bound, used
  <2> QED
    <3>1. bound \subseteq ClaimIds /\ used \subseteq ClaimIds
      BY <2>3, <2>4 DEF bound, used
    <3> QED
      BY <2>1, <2>5, <3>1
<1>5. a.bindings \in SUBSET UNION {UNION {{x.id : x \in s.bindings} : s \in Candidate[d]} : d \in Checks}
  <2>1. A.bindings \subseteq Bindings
    BY DEF Artifacts
  <2>2. \A id \in a.bindings : \E x \in Bindings : id = x.id
    BY <1>1, <2>1 DEF ClosureAccepted
  <2> QED
    BY <2>2 DEF Bindings
<1>6. NodeResult(A, c) = [status |-> a.status, claims |-> AcceptedClaims(A, a),
                          bindings |-> a.bindings, witnesses |-> AcceptedWitnesses(A, a)]
  BY DEF NodeResult, a
<1> QED
  BY <1>2, <1>3, <1>4, <1>5, <1>6 DEF LedgerVerdicts

LEMMA OpenIsNoVerdict == OpenVerdict \notin LedgerVerdicts
<1>1. OpenVerdict.status = "OPEN"
  BY DEF OpenVerdict
<1>2. \A v \in LedgerVerdicts : v.status # "OPEN"
  BY DEF LedgerVerdicts
<1> QED
  BY <1>1, <1>2

LEMMA VerdictIs ==
    ASSUME IInv, NEW c \in Checks
    PROVE  /\ c \in Committed => Verdict(c) = NodeResult(base, c) /\ Verdict(c) \in LedgerVerdicts
                                 /\ Verdict(c) # OpenVerdict
           /\ c \notin Committed => Verdict(c) = OpenVerdict
<1>1. ASSUME c \in Committed PROVE NodeResult(base, c) \in LedgerVerdicts
  BY <1>1, ResultTyped DEF IInv, TypeInv, CommitInv
<1> QED
  BY <1>1, OpenIsNoVerdict DEF Verdict

LEMMA LedgerCommitted ==
    ASSUME IInv
    PROVE  Ledger!Committed = Committed
<1> DEFINE v == [c \in Checks |-> Verdict(c)]
<1>1. Ledger!Committed = {c \in Checks : v[c] # OpenVerdict}
  BY DEF Ledger!Committed
<1>2. \A c \in Checks : v[c] # OpenVerdict <=> c \in Committed
  BY VerdictIs
<1> HIDE DEF v
<1> QED
  BY <1>1, <1>2 DEF Committed

LEMMA LedgerInit == Init => Ledger!Init
<1> SUFFICES ASSUME Init PROVE [c \in Checks |-> Verdict(c)] = [c \in Checks |-> OpenVerdict]
  BY DEF Ledger!Init
<1>1. \A c \in Checks : base.assess[c] = NoAssessment
  BY DEF Init, Blank
<1>2. \A c \in Checks : Verdict(c) = OpenVerdict
  BY <1>1 DEF Verdict, Committed
<1> QED
  BY <1>2

\* The verdicts of the next state, read from the artifact it saves.
LEMMA NextVerdicts ==
    ASSUME IInv, IInv', NEW c \in Checks
    PROVE  /\ c \in Done(base') => /\ Verdict(c)' = NodeResult(base', c)
                                   /\ Verdict(c)' \in LedgerVerdicts
           /\ c \notin Done(base') => Verdict(c)' = OpenVerdict
<1>1. PICK A : A = base'
  OBVIOUS
<1>2. A \in Artifacts /\ TermsTyped(A) /\ \A d \in Done(A) : Passes(A, d)
  BY <1>1 DEF IInv, TypeInv, CommitInv, Committed, Done
<1>3. c \in Done(A) => NodeResult(A, c) \in LedgerVerdicts
  BY <1>2, ResultTyped
<1>4. Verdict(c)' = IF c \in Done(A) THEN NodeResult(A, c) ELSE OpenVerdict
  BY <1>1 DEF Verdict, Committed, Done, OpenVerdict
<1> QED
  BY <1>1, <1>3, <1>4

\* A batch that commits is a Commit of the ledger, a recheck is a Reopen, and no other
\* step shows.
LEMMA LedgerStep == IInv /\ [Next]_vars => [Ledger!Next]_([c \in Checks |-> Verdict(c)])
<1> SUFFICES ASSUME IInv, [Next]_vars
             PROVE  \/ Ledger!Next
                    \/ [c \in Checks |-> Verdict(c)]' = [c \in Checks |-> Verdict(c)]
  OBVIOUS
<1> USE StepKeeps
<1>1. IInv'
  OBVIOUS
<1>2. CASE base' = base
  <2>1. \A c \in Checks : Verdict(c)' = Verdict(c)
    BY <1>2 DEF Verdict, Committed
  <2> QED
    BY <2>1
<1>3. ASSUME NEW f \in Verdicts, Judge(f)
      PROVE  \/ Ledger!Next
             \/ [c \in Checks |-> Verdict(c)]' = [c \in Checks |-> Verdict(c)]
  <2> DEFINE S == Done(base') \ Committed
  <2>1. /\ Committed \subseteq Done(base') /\ UpstreamClosed(Done(base'))
        /\ \A c \in Committed : NodeResult(base', c) = NodeResult(base, c)
    BY <1>3, JudgeIs
  <2>2. \A c \in S : Verdict(c)' \in LedgerVerdicts
    BY <1>1, NextVerdicts DEF Done
  <2>3. \A c \in Checks \ S : Verdict(c)' = Verdict(c)
    BY <1>1, <2>1, NextVerdicts, VerdictIs
  <2>4. S \in SUBSET Checks /\ S \cap Committed = {}
    BY DEF Done
  <2>5. \A c \in S : Upstream[c] \subseteq Committed \cup S
    BY <2>1 DEF UpstreamClosed
  <2> HIDE DEF S
  <2>6. CASE S = {}
    BY <2>3, <2>6
  <2>7. CASE S # {}
    <3>1. Ledger!Commit(S)
      BY <2>2, <2>3, <2>4, <2>5, <2>7, LedgerCommitted DEF Ledger!Commit, LedgerVerdicts
    <3> QED
      BY <2>4, <3>1 DEF Ledger!Next
  <2> QED
    BY <2>6, <2>7
<1>4. ASSUME NEW c \in Checks, Recheck(c)
      PROVE  Ledger!Next
  <2> DEFINE S == DownstreamOf(c)
  <2>1. /\ Done(base') = Committed \ S
        /\ \A d \in Done(base') : NodeResult(base', d) = NodeResult(base, d)
    BY <1>4, RecheckIs
  <2>2. /\ S \in SUBSET Checks /\ S # {}
        /\ \A d \in Checks : Upstream[d] \cap S # {} => d \in S
    BY DownstreamIs
  <2> HIDE DEF S
  <2>3. \A d \in Checks : Verdict(d)' = IF d \in S THEN OpenVerdict ELSE Verdict(d)
    BY <1>1, <2>1, NextVerdicts, VerdictIs
  <2>4. Ledger!Dependents(S) \subseteq S
    BY <2>2 DEF Ledger!Dependents
  <2>5. Ledger!Reopen(S)
    BY <2>2, <2>3, <2>4 DEF Ledger!Reopen
  <2> QED
    BY <2>2, <2>5 DEF Ledger!Next
<1>5. \/ base' = base
      \/ \E f \in Verdicts : Judge(f)
      \/ \E c \in Checks : Recheck(c)
  BY DEF Next, Begin, Abort, NotSubmitted, Close, BindClaim, BindRecordFieldClaim, AppendClaim,
         Tool, ComputeWitness, SubmitCheck, vars
<1> QED
  BY <1>2, <1>3, <1>4, <1>5

\* Every review, whatever its Executors submit and its Verifiers return, is an execution of
\* the ledger: batches close under upstream, no batch rewrites a verdict of an earlier one,
\* and a recheck opens all that rests on it.
THEOREM BatchesImplementLedger == Spec => ImplementsLedger
<1>1. Init => Ledger!Init
  BY LedgerInit
<1>2. IInv /\ [Next]_vars => [Ledger!Next]_([c \in Checks |-> Verdict(c)])
  BY LedgerStep
<1> QED
  BY <1>1, <1>2, Inductive, PTL DEF Spec, ImplementsLedger, Ledger!Spec
=============================================================================
