--------------------------- MODULE EvidenceProofs ---------------------------
(***************************************************************************)
(* From the evidence of a case to a committed CHECK: theorems about        *)
(* CaseFile and AttachmentManifest, for every requirement pack, set of     *)
(* originals, evidence and requests, and about CheckFrontier, for every    *)
(* attempt cap, budget, bound on submissions and set of Kernel diagnostics. *)
(* The two systems share no state; each theorem is about one of them.      *)
(***************************************************************************)
EXTENDS CaseFile, CheckFrontier, ClosureLemmas, SequenceTheorems, TLAPS

(***************************************************************************)
(* The case file.                                                          *)
(***************************************************************************)
-----------------------------------------------------------------------------
(* The status of an attachment.                                            *)

\* How bad a status is; what is not yet excluded may still be lifted and lowered.
Level(s) == IF s = "quarantined" THEN 3 ELSE IF s = "excluded" THEN 2 ELSE 1

\* Merging takes the worse level, and within the lowest one the later word counts.
LEMMA MergeTakesWorse ==
    ASSUME NEW old \in Statuses, NEW new \in Statuses
    PROVE  /\ Merge(old, new) \in Statuses
           /\ Level(Merge(old, new)) >= Level(old)
           /\ Level(old) > 1 /\ Level(old) >= Level(new) => Merge(old, new) = old
           /\ new # "error" => /\ Level(Merge(old, new)) >= Level(new)
                               /\ Level(Merge(old, new)) = 1 => Merge(old, new) = new
                               /\ Level(old) = 1 /\ Level(new) = 1 => Merge(old, new) = new
BY DEF Merge, Level, Statuses, Rank

LEMMA SaysIsAStatus ==
    ASSUME NEW x PROVE StatusFrom(x) \in Statuses \ {"error"}
BY DEF StatusFrom, Statuses

\* Two manifests with the same originals, of the same bytes, find the same entries.
LEMMA FindsAlike ==
    ASSUME NEW m, NEW n, NEW b, NEW x, DOMAIN m = DOMAIN n,
           \A r \in DOMAIN m : m[r].version = n[r].version
    PROVE  Linked(m, b, x) = Linked(n, b, x) /\ Precise(m, b, x) = Precise(n, b, x)
<1>1. Matches(m, x) = Matches(n, x)
  BY DEF Matches
<1> QED
  BY <1>1 DEF Linked, Precise

LEMMA FindsKnown ==
    ASSUME NEW m, NEW b, NEW x PROVE Precise(m, b, x) \subseteq DOMAIN m
<1>1. Matches(m, x) \subseteq DOMAIN m
  BY DEF Matches
<1> QED
  BY <1>1 DEF Precise

-----------------------------------------------------------------------------
(* Linking evidence to the manifest.                                       *)

\* What item n of a list makes of the status st of r
Told(m, b, items, r, n, st) ==
  IF r \in Linked(m, b, items[n]) THEN Merge(st, StatusFrom(items[n])) ELSE st

\* The statuses r goes through while a list of items is linked.
Goes(f, m, b, items, r) ==
  /\ f \in [0..Len(items) -> Statuses]
  /\ f[0] = m[r].status
  /\ \A n \in 1..Len(items) : f[n] = Told(m, b, items, r, n, f[n - 1])

LEMMA ToldIsAStatus ==
    ASSUME NEW m, NEW b, NEW items, NEW r, NEW n, NEW st \in Statuses
    PROVE  /\ Told(m, b, items, r, n, st) \in Statuses
           /\ Level(Told(m, b, items, r, n, st)) >= Level(st)
<1>1. StatusFrom(items[n]) \in Statuses
  BY SaysIsAStatus
<1>2. Level(st) >= Level(st)
  BY DEF Level
<1> QED
  BY <1>1, <1>2, MergeTakesWorse DEF Told

LEMMA LinkGoes ==
    ASSUME NEW m, NEW b, NEW items, Len(items) \in Nat, NEW r \in DOMAIN m, m[r].status \in Statuses
    PROVE  \E f : Goes(f, m, b, items, r) /\ LinkedStatus(m, b, items, r) = f[Len(items)]
<1> DEFINE N == Len(items)
           s == m[r].status
           F == [n \in 1..N |-> [st \in Statuses |-> Told(m, b, items, r, n, st)]]
           Is(f) == f = [n \in 0..N |-> IF n = 0 THEN s
                           ELSE IF r \in Linked(m, b, items[n])
                                THEN Merge(f[n - 1], StatusFrom(items[n])) ELSE f[n - 1]]
           g == CHOOSE f : Is(f)
<1>1. LinkedStatus(m, b, items, r) = g[N]
  BY DEF LinkedStatus
<1>2. \A n \in 1..N : F[n] \in [Statuses -> Statuses]
  BY ToldIsAStatus
<1>3. PICK f \in [0..N -> Statuses] : Accumulates(f, s, F, N)
  <2>1. F \in [1..N -> [Statuses -> Statuses]]
    BY <1>2
  <2> HIDE DEF F, N, s
  <2>2. N \in Nat /\ s \in Statuses
    BY DEF N, s
  <2> QED
    BY <2>1, <2>2, AccumulationExists
<1>4. \A n \in 0..N : n # 0 => n \in 1..N /\ n - 1 \in 0..N /\ f[n - 1] \in Statuses
  OBVIOUS
<1>5. \A n \in 0..N : f[n] = IF n = 0 THEN s ELSE Told(m, b, items, r, n, f[n - 1])
  <2> TAKE n \in 0..N
  <2>1. f[n] = IF n = 0 THEN s ELSE F[n][f[n - 1]]
    BY <1>3 DEF Accumulates
  <2>2. n # 0 => F[n][f[n - 1]] = Told(m, b, items, r, n, f[n - 1])
    BY <1>4
  <2> QED
    BY <2>1, <2>2
<1>6. Is(f)
  <2> HIDE DEF N, s
  <2> QED
    BY <1>5 DEF Told
<1>7. Is(g)
  <2> HIDE DEF Is
  <2> QED
    BY <1>6, Zenon
<1>8. g[0] = s /\ \A n \in 1..N : g[n] = Told(m, b, items, r, n, g[n - 1])
  <2> DEFINE step(n, v) == IF r \in Linked(m, b, items[n]) THEN Merge(v, StatusFrom(items[n])) ELSE v
  <2>1. g = [n \in 0..N |-> IF n = 0 THEN s ELSE step(n, g[n - 1])]
    BY <1>7
  <2>2. \A n, v : step(n, v) = Told(m, b, items, r, n, v)
    BY DEF Told
  <2>3. N \in Nat
    OBVIOUS
  <2> HIDE DEF g, s, N, step
  <2>4. \A n \in 0..N : g[n] = IF n = 0 THEN s ELSE step(n, g[n - 1])
    BY <2>1
  <2>5. 0 \in 0..N /\ \A n \in 1..N : n \in 0..N /\ n # 0
    BY <2>3
  <2> QED
    BY <2>2, <2>4, <2>5
<1>9. 0..N \subseteq {n \in 0..N : g[n] \in Statuses}
  <2> DEFINE T == {n \in 0..N : g[n] \in Statuses}
  <2>1. 0 \in T
    BY <1>8
  <2>2. \A n \in 1..N : n - 1 \in T => n \in T
    <3> HIDE DEF g, F
    <3> QED
      BY <1>8, ToldIsAStatus
  <2>3. N \in Nat
    OBVIOUS
  <2> HIDE DEF T, N
  <2>4. 0..N \subseteq T
    BY <2>1, <2>2, <2>3, TurnByTurn, Zenon
  <2> QED
    BY <2>4 DEF T
<1>10. g \in [0..N -> Statuses]
  <2> HIDE DEF g, s
  <2> QED
    BY <1>7, <1>9
<1> HIDE DEF g
<1> QED
  BY <1>1, <1>8, <1>10 DEF Goes

\* Nothing that is linked makes a status better than the level it has reached.
LEMMA LevelsClimb ==
    ASSUME NEW m, NEW b, NEW items, Len(items) \in Nat, NEW r, NEW f, Goes(f, m, b, items, r),
           NEW k \in 0..Len(items)
    PROVE  \A n \in k..Len(items) : Level(f[n]) >= Level(f[k])
<1> DEFINE N == Len(items)
           T == {n \in 0..N : n >= k => Level(f[n]) >= Level(f[k])}
<1>0. \A n \in 0..N : f[n] \in Statuses /\ Level(f[n]) \in Nat
  BY DEF Goes, Level
<1>1. 0 \in T
  BY <1>0
<1>2. \A n \in 1..N : n - 1 \in T => n \in T
  <2> SUFFICES ASSUME NEW n \in 1..N, n - 1 \in T, n >= k PROVE Level(f[n]) >= Level(f[k])
    OBVIOUS
  <2>1. CASE n = k
    BY <1>0, <2>1
  <2>2. CASE n # k
    <3>1. n - 1 \in 0..N /\ n - 1 >= k /\ Level(f[n - 1]) >= Level(f[k])
      BY <2>2
    <3>2. f[n] = Told(m, b, items, r, n, f[n - 1])
      BY DEF Goes
    <3>3. Level(f[n]) >= Level(f[n - 1])
      BY <1>0, <3>1, <3>2, ToldIsAStatus
    <3> QED
      BY <1>0, <3>1, <3>3
  <2> QED
    BY <2>1, <2>2
<1>3. N \in Nat
  OBVIOUS
<1> HIDE DEF T, N
<1>4. 0..N \subseteq T
  BY <1>1, <1>2, <1>3, TurnByTurn, Zenon
<1> QED
  BY <1>4 DEF T, N

\* Linking evidence keeps the entries and their bytes and betters no entry beyond its level.
LEMMA LinkKeeps ==
    ASSUME NEW m, NEW b, NEW items, Len(items) \in Nat, ManOK(m)
    PROVE  /\ ManOK(Link(m, b, items)) /\ DOMAIN Link(m, b, items) = DOMAIN m
           /\ \A r \in DOMAIN m :
                /\ Link(m, b, items)[r].version = m[r].version
                /\ Link(m, b, items)[r].dossier = m[r].dossier
                /\ Level(Link(m, b, items)[r].status) >= Level(m[r].status)
<1> DEFINE L == Link(m, b, items)
<1>1. ASSUME NEW r \in DOMAIN m
      PROVE  /\ LinkedStatus(m, b, items, r) \in Statuses
             /\ Level(LinkedStatus(m, b, items, r)) >= Level(m[r].status)
  <2>1. m[r].status \in Statuses
    BY DEF ManOK
  <2>2. PICK f : Goes(f, m, b, items, r) /\ LinkedStatus(m, b, items, r) = f[Len(items)]
    BY <2>1, LinkGoes
  <2>3. 0 \in 0..Len(items) /\ Len(items) \in 0..Len(items)
    OBVIOUS
  <2>4. \A n \in 0..Len(items) : Level(f[n]) >= Level(f[0])
    BY <2>2, <2>3, LevelsClimb
  <2> QED
    BY <2>2, <2>3, <2>4 DEF Goes
<1>2. DOMAIN L = DOMAIN m
  BY DEF Link
<1>3. ASSUME NEW r \in DOMAIN m
      PROVE  /\ L[r] = [m[r] EXCEPT !.status = LinkedStatus(m, b, items, r)]
             /\ m[r] \in [version : 1..MaxVersion, status : Statuses, dossier : 0..MaxVersion]
  BY DEF Link, ManOK
<1> HIDE DEF L
<1>4. ASSUME NEW r \in DOMAIN m
      PROVE  /\ L[r] \in [version : 1..MaxVersion, status : Statuses, dossier : 0..MaxVersion]
             /\ L[r].version = m[r].version /\ L[r].dossier = m[r].dossier
             /\ L[r].status = LinkedStatus(m, b, items, r)
  BY <1>1, <1>3
<1>5. ManOK(L)
  <2>1. L \in [DOMAIN L -> [version : 1..MaxVersion, status : Statuses, dossier : 0..MaxVersion]]
    <3>1. L = [r \in DOMAIN L |-> L[r]]
      BY DEF L, Link
    <3> QED
      BY <1>2, <1>4, <3>1
  <2> QED
    BY <1>2, <2>1 DEF ManOK
<1> QED
  BY <1>1, <1>2, <1>4, <1>5 DEF L

\* An entry is as bad as any item that speaks of it says.
LEMMA LinkHears ==
    ASSUME NEW m, NEW b, NEW items, Len(items) \in Nat, ManOK(m), NEW n \in 1..Len(items),
           NEW r \in Linked(m, b, items[n]), r \in DOMAIN m
    PROVE  Level(Link(m, b, items)[r].status) >= Level(StatusFrom(items[n]))
<1>1. m[r].status \in Statuses
        /\ m[r] \in [version : 1..MaxVersion, status : Statuses, dossier : 0..MaxVersion]
  BY DEF ManOK
<1>2. PICK f : Goes(f, m, b, items, r) /\ LinkedStatus(m, b, items, r) = f[Len(items)]
  BY <1>1, LinkGoes
<1>3. n \in 0..Len(items) /\ n - 1 \in 0..Len(items) /\ Len(items) \in n..Len(items)
  OBVIOUS
<1>4. f[n - 1] \in Statuses /\ f[n] = Merge(f[n - 1], StatusFrom(items[n]))
  BY <1>2, <1>3 DEF Goes, Told
<1>5. Level(f[n]) >= Level(StatusFrom(items[n]))
  BY <1>4, SaysIsAStatus, MergeTakesWorse
<1>6. Level(f[Len(items)]) >= Level(f[n])
  BY <1>2, <1>3, LevelsClimb
<1>7. Link(m, b, items)[r].status = f[Len(items)]
  BY <1>1, <1>2 DEF Link
<1>8. Level(f[Len(items)]) \in Nat /\ Level(f[n]) \in Nat /\ Level(StatusFrom(items[n])) \in Nat
  BY DEF Level
<1> HIDE DEF Level
<1> QED
  BY <1>5, <1>6, <1>7, <1>8

\* Linking the same evidence again changes nothing: an entry that was excluded or
\* quarantined stays so, and on any other the last item that speaks of it decides.
LEMMA LinkSettles ==
    ASSUME NEW m, NEW b, NEW items, NEW items2, ManOK(m), Len(items) \in Nat,
           Len(items2) = Len(items),
           \A n \in 1..Len(items) : /\ StatusFrom(items2[n]) = StatusFrom(items[n])
                                    /\ Linked(m, b, items2[n]) = Linked(m, b, items[n])
    PROVE  Link(Link(m, b, items), b, items2) = Link(m, b, items)
<1> DEFINE L == Link(m, b, items)
           N == Len(items)
<1>0. /\ ManOK(L) /\ DOMAIN L = DOMAIN m
      /\ \A r \in DOMAIN m : L[r].version = m[r].version
  BY LinkKeeps
<1>1. \A n \in 1..N : Linked(L, b, items2[n]) = Linked(m, b, items[n])
  <2> HIDE DEF L
  <2>1. \A n \in 1..N : Linked(L, b, items2[n]) = Linked(m, b, items2[n])
    BY <1>0, FindsAlike
  <2> QED
    BY <2>1
<1>2. ASSUME NEW r \in DOMAIN m PROVE LinkedStatus(L, b, items2, r) = L[r].status
  <2>1. m[r].status \in Statuses /\ L[r].status \in Statuses /\ r \in DOMAIN L
    BY <1>0 DEF ManOK
  <2>2. PICK f : Goes(f, m, b, items, r) /\ LinkedStatus(m, b, items, r) = f[N]
    BY <2>1, LinkGoes
  <2>3. L[r].status = f[N]
    <3>1. m[r] \in [version : 1..MaxVersion, status : Statuses, dossier : 0..MaxVersion]
      BY DEF ManOK
    <3> QED
      BY <2>2, <3>1 DEF Link
  <2> HIDE DEF L
  <2>4. PICK g : Goes(g, L, b, items2, r) /\ LinkedStatus(L, b, items2, r) = g[Len(items2)]
    BY <2>1, LinkGoes
  <2> DEFINE t == f[N]
  <2>5. \A n \in 0..N : f[n] \in Statuses /\ g[n] \in Statuses
    BY <2>2, <2>4 DEF Goes
  <2>6. \A n \in 0..N : Level(f[n]) <= Level(t)
    <3> SUFFICES ASSUME NEW n \in 0..N PROVE Level(f[n]) <= Level(t)
      OBVIOUS
    <3>1. \A k \in n..N : Level(f[k]) >= Level(f[n])
      BY <2>2, LevelsClimb
    <3>2. N \in n..N
      OBVIOUS
    <3>3. Level(f[n]) \in Nat /\ Level(t) \in Nat
      BY DEF Level
    <3> HIDE DEF N
    <3> QED
      BY <3>1, <3>2, <3>3
  <2> DEFINE T == {n \in 0..N : g[n] = t \/ (Level(t) = 1 /\ g[n] = f[n])}
  <2>7. g[0] = t /\ 0 \in T
    BY <2>3, <2>4 DEF Goes
  <2>8. ASSUME NEW n \in 1..N, n - 1 \in T PROVE n \in T
    <3>1. /\ n \in 0..N /\ n - 1 \in 0..N
          /\ f[n] = Told(m, b, items, r, n, f[n - 1])
          /\ g[n] = Told(L, b, items2, r, n, g[n - 1])
      BY <2>2, <2>4 DEF Goes
    <3>2. CASE r \notin Linked(m, b, items[n])
      <4>1. f[n] = f[n - 1] /\ g[n] = g[n - 1]
        BY <1>1, <3>1, <3>2 DEF Told
      <4> QED
        BY <2>8, <3>1, <4>1
    <3>3. CASE r \in Linked(m, b, items[n])
      <4> DEFINE w == StatusFrom(items[n])
      <4>1. f[n] = Merge(f[n - 1], w) /\ g[n] = Merge(g[n - 1], w)
        BY <1>1, <3>1, <3>3 DEF Told
      <4>2. w \in Statuses /\ w # "error"
        BY SaysIsAStatus
      <4>3. Level(f[n]) >= Level(w)
        BY <2>5, <3>1, <4>1, <4>2, MergeTakesWorse
      <4>4. Level(w) \in 1..3 /\ Level(t) \in 1..3 /\ Level(f[n]) \in 1..3
            /\ Level(f[n - 1]) \in 1..3
        BY DEF Level
      <4>5. Level(w) <= Level(t)
        BY <2>6, <3>1, <4>3, <4>4
      <4>6. CASE Level(t) > 1
        <5>1. g[n - 1] = t
          BY <2>8, <4>6
        <5>2. t \in Statuses
          BY <2>5
        <5> HIDE DEF w, t
        <5>3. Merge(t, w) = t
          BY <4>2, <4>4, <4>5, <4>6, <5>2, MergeTakesWorse
        <5> QED
          BY <3>1, <4>1, <5>1, <5>3
      <4>7. CASE Level(t) = 1
        <5>1. Level(f[n - 1]) = 1 /\ Level(w) = 1
          BY <2>6, <3>1, <4>4, <4>5, <4>7
        <5>2. Level(g[n - 1]) = 1
          BY <2>8, <4>7, <5>1
        <5> HIDE DEF w, t
        <5>3. f[n] = w /\ g[n] = w
          BY <2>5, <3>1, <4>1, <4>2, <5>1, <5>2, MergeTakesWorse
        <5> QED
          BY <3>1, <4>7, <5>3
      <4> QED
        BY <4>4, <4>6, <4>7
    <3> QED
      BY <3>2, <3>3
  <2>9. N \in Nat /\ N \in 0..N
    OBVIOUS
  <2> HIDE DEF T, N
  <2>10. 0..N \subseteq T
    <3>1. \A n \in 1..N : n - 1 \in T => n \in T
      BY <2>8
    <3> QED
      BY <2>7, <2>9, <3>1, TurnByTurn, Zenon
  <2>11. g[N] = t
    BY <2>9, <2>10 DEF T
  <2> QED
    BY <2>3, <2>4, <2>11 DEF N
<1>3. L = [r \in DOMAIN m |-> L[r]]
  BY DEF Link
<1>4. \A r \in DOMAIN m : L[r] \in [version : 1..MaxVersion, status : Statuses,
                                   dossier : 0..MaxVersion]
  BY <1>0 DEF ManOK
<1> HIDE DEF L
<1>5. \A r \in DOMAIN m : [L[r] EXCEPT !.status = LinkedStatus(L, b, items2, r)] = L[r]
  BY <1>2, <1>4
<1>6. Link(L, b, items2) = L
  BY <1>0, <1>3, <1>5 DEF Link
<1> QED
  BY <1>6 DEF L

-----------------------------------------------------------------------------
(* Requirements.                                                           *)

\* Requirements as the operations leave them before their premises are added
Askings == {req \in UNION {[D -> BOOLEAN] : D \in SUBSET ReqIds} :
              \A q \in DOMAIN req : q \in Authority => req[q]}

LEMMA AskingsAre ==
    ASSUME NEW req
    PROVE  req \in Askings <=> /\ req \in [DOMAIN req -> BOOLEAN] /\ DOMAIN req \subseteq ReqIds
                              /\ \A q \in DOMAIN req : q \in Authority => req[q]
<1>1. ASSUME req \in [DOMAIN req -> BOOLEAN], DOMAIN req \subseteq ReqIds
      PROVE  req \in UNION {[D -> BOOLEAN] : D \in SUBSET ReqIds}
  BY <1>1
<1>2. ASSUME req \in UNION {[D -> BOOLEAN] : D \in SUBSET ReqIds}
      PROVE  req \in [DOMAIN req -> BOOLEAN] /\ DOMAIN req \subseteq ReqIds
  <2>1. PICK D \in SUBSET ReqIds : req \in [D -> BOOLEAN]
    BY <1>2
  <2> QED
    BY <2>1
<1> QED
  BY <1>1, <1>2 DEF Askings

\* Premises have no premises, and what has any is a reviewer's conclusion.
LEMMA PremisesFlat ==
    ASSUME NEW c \in ReqIds, NEW p \in Premises[c]
    PROVE  /\ p \in ReqIds \ Authority /\ p \notin Derived /\ Premises[p] = {}
           /\ c \in Authority \ Derived
<1>1. Premises[c] \subseteq ReqIds \ Authority
  BY PackAssumption
<1>2. Owner[c] = "reviewer" /\ Owner[p] # "reviewer" /\ Owner[p] # "derived"
  BY <1>1, PackAssumption DEF Authority
<1>3. Premises[p] = {}
  BY <1>1, <1>2, PackAssumption
<1> QED
  BY <1>1, <1>2, <1>3 DEF Authority, Derived

\* A conclusion is required whenever it is asked whether it is.
LEMMA ConclusionsNeeded ==
    ASSUME NEW req \in Askings, NEW q \in ReqIds, NEW e \in BOOLEAN, NEW was \in BOOLEAN
    PROVE  /\ Needed(req, q, e, was) \in BOOLEAN
           /\ q \in Authority => Needed(req, q, e, was) = TRUE
<1>1. Default[q] \in BOOLEAN /\ (q \in Authority => Default[q])
  BY PackAssumption
<1>2. q \in Authority => q \notin InvoiceFields /\ q \notin Dynamic
  BY PackAssumption
<1>3. q \in Authority => \A p \in DOMAIN req : q \notin Premises[p]
  <2> SUFFICES ASSUME NEW p \in DOMAIN req, q \in Premises[p] PROVE q \notin Authority
    OBVIOUS
  <2>1. p \in ReqIds
    BY AskingsAre
  <2> QED
    BY <2>1, PremisesFlat
<1> QED
  BY <1>1, <1>2, <1>3 DEF Needed

LEMMA CanonicalKeeps ==
    ASSUME NEW req \in Askings PROVE Canonical(req) \in Askings /\ DOMAIN Canonical(req) = DOMAIN req
<1>1. req \in [DOMAIN req -> BOOLEAN] /\ DOMAIN req \subseteq ReqIds
  BY AskingsAre
<1>2. \A q \in DOMAIN req : /\ Needed(req, q, FALSE, req[q]) \in BOOLEAN
                            /\ q \in Authority => Needed(req, q, FALSE, req[q])
  BY <1>1, ConclusionsNeeded
<1>3. DOMAIN Canonical(req) = DOMAIN req /\ Canonical(req) \in [DOMAIN req -> BOOLEAN]
      /\ \A q \in DOMAIN req : Canonical(req)[q] = Needed(req, q, FALSE, req[q])
  BY <1>2 DEF Canonical
<1> HIDE DEF Canonical
<1> QED
  BY <1>1, <1>2, <1>3, AskingsAre

\* Adding the premises closes the requirements under them.
LEMMA PremisesClose ==
    ASSUME NEW req \in Askings
    PROVE  /\ ReqOK(WithPremises(req)) /\ DOMAIN req \subseteq DOMAIN WithPremises(req)
           /\ ReqOK(req) => DOMAIN WithPremises(req) = DOMAIN req
<1> DEFINE W == WithPremises(req)
           concl == DOMAIN req \ Derived
           of(p) == {c \in concl : p \in Premises[c]}
<1>1. /\ req \in [DOMAIN req -> BOOLEAN] /\ DOMAIN req \subseteq ReqIds
      /\ \A q \in DOMAIN req : q \in Authority => req[q]
  BY AskingsAre
<1>2. DOMAIN W = DOMAIN req \cup UNION {Premises[c] : c \in concl}
  BY DEF WithPremises
<1>3. \A p \in DOMAIN W : W[p] = ((p \in DOMAIN req /\ req[p]) \/ \E c \in of(p) : req[c])
  BY DEF WithPremises
<1>4. W = [p \in DOMAIN W |-> W[p]]
  BY DEF WithPremises
<1> HIDE DEF W
<1>5. W \in [DOMAIN W -> BOOLEAN]
  <2>1. \A p \in DOMAIN W : W[p] \in BOOLEAN
    BY <1>3
  <2> QED
    BY <1>4, <2>1
<1>6. \A p \in DOMAIN W : p \in DOMAIN req \/ \E c \in concl : p \in Premises[c]
  BY <1>2
<1>7. DOMAIN W \subseteq ReqIds
  BY <1>1, <1>6, PremisesFlat
<1>8. ASSUME NEW q \in DOMAIN W, q \in Authority PROVE W[q]
  BY <1>1, <1>3, <1>6, <1>8, PremisesFlat
<1>9. ASSUME NEW q \in DOMAIN W, NEW p \in Premises[q] PROVE p \in DOMAIN W
  <2>1. q \in DOMAIN req
    BY <1>1, <1>6, <1>7, <1>9, PremisesFlat
  <2>2. q \in concl
    BY <1>1, <2>1, PremisesFlat
  <2> QED
    BY <1>2, <2>2
<1>10. ReqOK(W)
  BY <1>5, <1>7, <1>8, <1>9 DEF ReqOK
<1>11. ASSUME ReqOK(req) PROVE DOMAIN W = DOMAIN req
  <2>1. \A c \in concl : Premises[c] \subseteq DOMAIN req
    BY <1>11 DEF ReqOK
  <2> QED
    BY <1>2, <2>1
<1> QED
  BY <1>2, <1>10, <1>11 DEF W

LEMMA OKAsks == ASSUME NEW req, ReqOK(req) PROVE req \in Askings
BY AskingsAre DEF ReqOK

\* What a refresh makes of the requirements before it drops the derived ones
Settled(req) == WithPremises(Canonical(req))

Wanted(D, p) == \E c \in D : p \in Premises[c]

\* A premise is required because its conclusion is; any other requirement keeps its
\* default, unless invoice fields are left out of a chain or an optional one was dropped.
LEMMA SettledIs ==
    ASSUME NEW req, ReqOK(req)
    PROVE  /\ ReqOK(Settled(req)) /\ DOMAIN Settled(req) = DOMAIN req
           /\ \A p \in DOMAIN req :
                Settled(req)[p] = \/ Wanted(DOMAIN req, p)
                                  \/ /\ ~(p \in InvoiceFields /\ ApChain(DOMAIN req))
                                     /\ req[p] \/ p \notin Dynamic
                                     /\ Default[p]
<1> DEFINE D == DOMAIN req
           C == Canonical(req)
           S == Settled(req)
<1>1. /\ req \in Askings /\ C \in Askings /\ DOMAIN C = D
      /\ req \in [D -> BOOLEAN] /\ D \subseteq ReqIds
      /\ \A q \in D : q \in Authority => req[q]
      /\ \A q \in D : Premises[q] \subseteq D
  BY OKAsks, CanonicalKeeps DEF ReqOK
<1>2. \A q \in D : /\ C[q] = Needed(req, q, FALSE, req[q])
                   /\ C[q] \in BOOLEAN /\ (q \in Authority => C[q])
  <2>1. \A q \in D : C[q] = Needed(req, q, FALSE, req[q])
    BY DEF Canonical
  <2>2. \A q \in D : C[q] \in BOOLEAN /\ (q \in Authority => C[q])
    <3> HIDE DEF C
    <3> QED
      BY <1>1, AskingsAre
  <2> QED
    BY <2>1, <2>2
<1> HIDE DEF C
<1>3. ReqOK(C)
  <2>1. C \in [DOMAIN C -> BOOLEAN]
    BY <1>1, AskingsAre
  <2> QED
    BY <1>1, <1>2, <2>1 DEF ReqOK
<1>4. ReqOK(S) /\ DOMAIN S = D
  BY <1>1, <1>3, PremisesClose DEF Settled, C
<1>5. ASSUME NEW p \in D
      PROVE  S[p] = (C[p] \/ \E c \in {x \in D \ Derived : p \in Premises[x]} : C[c])
  <2>1. p \in DOMAIN WithPremises(C)
    BY <1>4 DEF Settled, C
  <2>2. WithPremises(C)[p] = ((p \in DOMAIN C /\ C[p])
                               \/ \E c \in {x \in DOMAIN C \ Derived : p \in Premises[x]} : C[c])
    BY <2>1 DEF WithPremises
  <2> QED
    BY <1>1, <2>2 DEF Settled, C
<1>6. ASSUME NEW p \in D, NEW c \in D, p \in Premises[c]
      PROVE  c \in D \ Derived /\ req[c] = TRUE /\ C[c] = TRUE
  BY <1>1, <1>2, <1>6, PremisesFlat
<1>7. ASSUME NEW p \in D
      PROVE  C[p] = IF p \in InvoiceFields /\ ApChain(D) THEN FALSE
                    ELSE IF Wanted(D, p) THEN TRUE
                    ELSE IF ~req[p] /\ p \in Dynamic THEN FALSE ELSE Default[p]
  BY <1>1, <1>2, <1>6 DEF Needed, Wanted
<1>8. ASSUME NEW p \in D
      PROVE  S[p] = (C[p] \/ Wanted(D, p))
  <2>1. (\E c \in {x \in D \ Derived : p \in Premises[x]} : C[c]) = Wanted(D, p)
    BY <1>6 DEF Wanted
  <2> QED
    BY <1>5, <2>1
<1>9. ASSUME NEW p \in D PROVE req[p] \in BOOLEAN /\ Default[p] \in BOOLEAN
  BY <1>1, PackAssumption
<1> HIDE DEF S
<1>10. ASSUME NEW p \in D
       PROVE  S[p] = \/ Wanted(D, p)
                     \/ /\ ~(p \in InvoiceFields /\ ApChain(D))
                        /\ req[p] \/ p \notin Dynamic
                        /\ Default[p]
  BY <1>7, <1>8, <1>9
<1> QED
  BY <1>4, <1>10 DEF S

\* The requirements that are not derived
Kept(req) == [q \in DOMAIN req \ Derived |-> req[q]]

\* What a refresh leaves of the requirements
Left(req, compiled) ==
  LET ids == Expanded(DOMAIN Kept(Settled(req)))
  IN IF compiled
     THEN [q \in DOMAIN Kept(Settled(req)) \cup ids |->
             IF q \in DOMAIN Kept(Settled(req)) THEN Kept(Settled(req))[q] ELSE Default[q]]
     ELSE Kept(Settled(req))

LEMMA KeptIs ==
    ASSUME NEW req, ReqOK(req)
    PROVE  /\ ReqOK(Kept(Settled(req)))
           /\ DOMAIN Kept(Settled(req)) = DOMAIN req \ Derived
           /\ \A q \in DOMAIN req \ Derived : Kept(Settled(req))[q] = Settled(req)[q]
           /\ Expanded(DOMAIN Kept(Settled(req))) \subseteq ReqIds
           /\ Expanded(DOMAIN Kept(Settled(req))) \ Derived = DOMAIN req \ Derived
<1> DEFINE S == Settled(req)
           K == Kept(S)
<1>1. ReqOK(S) /\ DOMAIN S = DOMAIN req
  BY SettledIs
<1> HIDE DEF S
<1>2. /\ DOMAIN K = DOMAIN req \ Derived /\ \A q \in DOMAIN req \ Derived : K[q] = S[q]
      /\ K \in [DOMAIN K -> BOOLEAN] /\ DOMAIN K \subseteq ReqIds
  BY <1>1 DEF Kept, ReqOK
<1>3. \A q \in DOMAIN K : Premises[q] \subseteq DOMAIN K
  <2> SUFFICES ASSUME NEW q \in DOMAIN K, NEW p \in Premises[q] PROVE p \in DOMAIN K
    OBVIOUS
  <2>1. q \in ReqIds /\ p \in DOMAIN S
    BY <1>1, <1>2 DEF ReqOK
  <2> QED
    BY <1>1, <1>2, <2>1, PremisesFlat
<1>4. ReqOK(K)
  BY <1>1, <1>2, <1>3 DEF ReqOK
<1> HIDE DEF K
<1>5. DOMAIN K \cup UNION {Premises[q] : q \in DOMAIN K} = DOMAIN K
  BY <1>3
<1>6. Expanded(DOMAIN K) \subseteq DOMAIN K \cup Derived /\ DOMAIN K \subseteq Expanded(DOMAIN K)
  BY <1>5 DEF Expanded
<1> QED
  BY <1>2, <1>4, <1>6 DEF K, S, Derived

\* A refresh leaves good requirements, and doing it again leaves the same ones: an entry
\* that was not required stays so, a derived one is put back as it was.
LEMMA RequirementsSettle ==
    ASSUME NEW req, ReqOK(req), NEW compiled \in BOOLEAN
    PROVE  /\ ReqOK(Left(req, compiled))
           /\ Kept(Settled(Left(req, compiled))) = Kept(Settled(req))
<1> DEFINE S == Settled(req)
           K == Kept(S)
           L == Left(req, compiled)
           ids == Expanded(DOMAIN K)
<1>1. /\ ReqOK(S) /\ DOMAIN S = DOMAIN req /\ ReqOK(K) /\ DOMAIN K = DOMAIN req \ Derived
      /\ \A q \in DOMAIN K : K[q] = S[q]
      /\ ids \subseteq ReqIds /\ ids \ Derived = DOMAIN K
  BY KeptIs, SettledIs
<1>2. /\ DOMAIN L = IF compiled THEN DOMAIN K \cup ids ELSE DOMAIN K
      /\ \A q \in DOMAIN L : L[q] = IF q \in DOMAIN K THEN K[q] ELSE Default[q]
      /\ L = [q \in DOMAIN L |-> L[q]]
  <2>1. CASE compiled
    <3>1. L = [q \in DOMAIN K \cup ids |-> IF q \in DOMAIN K THEN K[q] ELSE Default[q]]
      BY <2>1 DEF Left
    <3> QED
      BY <2>1, <3>1
  <2>2. CASE ~compiled
    <3>1. L = K
      BY <2>2 DEF Left
    <3>2. K = [q \in DOMAIN K |-> K[q]]
      BY DEF Kept
    <3> HIDE DEF K, L
    <3> QED
      BY <2>2, <3>1, <3>2
  <2> QED
    BY <2>1, <2>2
<1> HIDE DEF S, K, L, ids
<1>3. DOMAIN L \subseteq ReqIds /\ DOMAIN L \ Derived = DOMAIN K /\ DOMAIN K \subseteq DOMAIN L
  BY <1>1, <1>2 DEF ReqOK
<1>4. L \in [DOMAIN L -> BOOLEAN] /\ \A q \in DOMAIN L : q \in Authority => L[q]
  <2>1. \A q \in DOMAIN L : L[q] \in BOOLEAN /\ (q \in Authority => L[q])
    BY <1>1, <1>2, <1>3, PackAssumption DEF ReqOK
  <2> QED
    BY <1>2, <2>1
<1>5. \A q \in DOMAIN L : Premises[q] \subseteq DOMAIN L
  <2> SUFFICES ASSUME NEW q \in DOMAIN L, NEW p \in Premises[q] PROVE p \in DOMAIN L
    OBVIOUS
  <2>1. q \in DOMAIN K
    BY <1>3, PremisesFlat
  <2> QED
    BY <1>1, <1>3, <2>1 DEF ReqOK
<1>6. ReqOK(L)
  BY <1>3, <1>4, <1>5 DEF ReqOK
<1>7. \A p : Wanted(DOMAIN L, p) <=> Wanted(DOMAIN req, p)
  <2>1. DOMAIN req \subseteq ReqIds
    BY DEF ReqOK
  <2>2. \A c \in DOMAIN L : \A p \in Premises[c] : c \in DOMAIN req
    BY <1>1, <1>3, PremisesFlat
  <2>3. \A c \in DOMAIN req : \A p \in Premises[c] : c \in DOMAIN L
    BY <1>1, <1>3, <2>1, PremisesFlat
  <2> QED
    BY <2>2, <2>3 DEF Wanted
<1>8. ApChain(DOMAIN L) = ApChain(DOMAIN req)
  <2>1. \A q \in ApLite : q \notin Derived
    BY PackAssumption DEF Authority, Derived
  <2>2. DOMAIN L \cap ApLite = DOMAIN req \cap ApLite
    BY <1>1, <1>3, <2>1
  <2> QED
    BY <2>2 DEF ApChain
<1>9. ASSUME NEW p \in DOMAIN K PROVE Settled(L)[p] = K[p]
  <2>1. /\ p \in DOMAIN L /\ p \in DOMAIN req /\ L[p] = S[p] /\ K[p] = S[p]
        /\ Default[p] \in BOOLEAN /\ req[p] \in BOOLEAN
    BY <1>1, <1>2, <1>3, PackAssumption DEF ReqOK
  <2>2. S[p] = \/ Wanted(DOMAIN req, p)
               \/ /\ ~(p \in InvoiceFields /\ ApChain(DOMAIN req))
                  /\ req[p] \/ p \notin Dynamic
                  /\ Default[p]
    BY <2>1, SettledIs DEF S
  <2>3. Settled(L)[p] = \/ Wanted(DOMAIN L, p)
                        \/ /\ ~(p \in InvoiceFields /\ ApChain(DOMAIN L))
                           /\ L[p] \/ p \notin Dynamic
                           /\ Default[p]
    BY <1>6, <2>1, SettledIs
  <2> QED
    BY <1>7, <1>8, <2>1, <2>2, <2>3
<1>10. Kept(Settled(L)) = K
  <2>1. DOMAIN Kept(Settled(L)) = DOMAIN K
    BY <1>3, <1>6, KeptIs
  <2>2. \A p \in DOMAIN K : Kept(Settled(L))[p] = K[p]
    BY <1>3, <1>6, <1>9, KeptIs
  <2>3. K = [p \in DOMAIN K |-> K[p]]
    BY DEF K, Kept
  <2>4. Kept(Settled(L)) = [p \in DOMAIN Kept(Settled(L)) |-> Kept(Settled(L))[p]]
    BY DEF Kept
  <2> QED
    BY <2>1, <2>2, <2>3, <2>4
<1> QED
  BY <1>6, <1>10 DEF L, K, S

-----------------------------------------------------------------------------
(* Evidence.                                                               *)

\* The same evidence, superseded
Past(x) == [x EXCEPT !.stage = "superseded"]

LEMMA NormalIsEvidence ==
    ASSUME NEW p \in Offered
    PROVE  /\ p \in Evidence /\ Normal(p) \in Evidence /\ Normal(p) \in Item
           /\ Normal(p).id = p.id /\ Normal(p).stage = p.stage
           /\ Normal(p).supersedes = p.supersedes
<1>1. p \in Evidence
  BY OfferAssumption
<1>2. Normal(p) \in Item
  BY DEF Item
<1>3. Normal(p) \in Evidence /\ Normal(p).id = p.id /\ Normal(p).stage = p.stage
      /\ Normal(p).supersedes = p.supersedes
  <2>1. CASE Injected(p)
    <3>1. Normal(p) = [p EXCEPT !.class = "quarantined", !.type = "unknown", !.low = TRUE,
                                !.supports = {}, !.text = "redacted"]
      BY <2>1 DEF Normal
    <3> QED
      BY <1>1, <3>1 DEF Evidence
  <2>2. CASE ~Injected(p) /\ p.class = "cross_case_sample"
    <3>1. Normal(p) = [p EXCEPT !.supports = {}]
      BY <2>2 DEF Normal
    <3> QED
      BY <1>1, <3>1 DEF Evidence
  <2>3. CASE ~Injected(p) /\ p.class # "cross_case_sample"
    <3>1. Normal(p) = [p EXCEPT !.supports = @ \ Authority]
      BY <2>3 DEF Normal
    <3>2. p.supports \ Authority \in SUBSET ReqIds
      BY <1>1 DEF Evidence
    <3> QED
      BY <1>1, <3>1, <3>2 DEF Evidence
  <2> QED
    BY <2>1, <2>2, <2>3
<1> QED
  BY <1>1, <1>2, <1>3

\* An item is offered evidence, normalised, and has the stage it was offered with unless
\* it was superseded.
LEMMA ItemsAre ==
    ASSUME NEW x \in Item
    PROVE  /\ x \in Evidence /\ Past(x) \in Item
           /\ \E p \in Offered : /\ x.id = p.id /\ x.supersedes = p.supersedes
                                /\ (x.stage = p.stage \/ x.stage = "superseded")
<1>1. PICK p \in Offered : x = Normal(p) \/ x = [Normal(p) EXCEPT !.stage = "superseded"]
  BY DEF Item
<1>2. /\ Normal(p) \in Evidence /\ Normal(p).id = p.id /\ Normal(p).stage = p.stage
      /\ Normal(p).supersedes = p.supersedes
  BY NormalIsEvidence
<1>3. x \in Evidence /\ x.id = p.id /\ x.supersedes = p.supersedes
      /\ (x.stage = p.stage \/ x.stage = "superseded")
  BY <1>1, <1>2 DEF Evidence
<1>4. Past(x) = [Normal(p) EXCEPT !.stage = "superseded"]
  BY <1>1, <1>2 DEF Evidence, Past
<1>5. Past(x) \in Item
  BY <1>4 DEF Item
<1> QED
  BY <1>3, <1>5

\* Nothing but the stage tells an item from its past.
LEMMA PastIs ==
    ASSUME NEW x \in Item
    PROVE  /\ Past(x).stage = "superseded" /\ Past(x).id = x.id /\ Past(x).type = x.type
           /\ Past(x).supersedes = x.supersedes /\ Past(x).by = x.by /\ Past(x).ref = x.ref
           /\ Past(x).version = x.version /\ Past(x).class = x.class /\ Past(x).low = x.low
           /\ Past(x).supports = x.supports /\ Past(x).accepted = x.accepted
           /\ (x.stage = "superseded" => Past(x) = x)
BY ItemsAre DEF Past, Evidence

LEMMA PastFindsTheSame ==
    ASSUME NEW x \in Item, NEW m, NEW b, NEW fl, NEW ds
    PROVE  /\ StatusFrom(Past(x)) = StatusFrom(x)
           /\ Precise(m, b, Past(x)) = Precise(m, b, x)
           /\ Linked(m, b, Past(x)) = Linked(m, b, x)
           /\ Trusts(m, b, fl, ds, Past(x)) = Trusts(m, b, fl, ds, x)
<1>1. StatusFrom(Past(x)) = StatusFrom(x)
  BY PastIs DEF StatusFrom
<1>2. Matches(m, Past(x)) = Matches(m, x)
  BY PastIs DEF Matches
<1>3. Precise(m, b, Past(x)) = Precise(m, b, x)
  BY <1>2, PastIs DEF Precise
<1>4. Linked(m, b, Past(x)) = Linked(m, b, x)
  BY <1>3, PastIs DEF Linked
<1>5. Trusts(m, b, fl, ds, Past(x)) = Trusts(m, b, fl, ds, x)
  BY <1>3 DEF Trusts
<1> QED
  BY <1>1, <1>3, <1>4, <1>5

\* Each item is kept where it was, or put in the past.
LEMMA MarkedIs ==
    ASSUME NEW ev, EvOK(ev), NEW T
    PROVE  /\ EvOK(Marked(ev, T)) /\ Len(Marked(ev, T)) = Len(ev)
           /\ DOMAIN Marked(ev, T) = DOMAIN ev /\ DOMAIN ev = 1..Len(ev) /\ Len(ev) \in Nat
           /\ \A i \in DOMAIN ev :
                /\ ev[i] \in Item /\ Marked(ev, T)[i].id = ev[i].id
                /\ Marked(ev, T)[i] = IF ev[i] \in Superseded(ev, T) THEN Past(ev[i]) ELSE ev[i]
<1>1. ev \in Seq(Item) /\ DOMAIN ev = 1..Len(ev) /\ Len(ev) \in Nat /\ \A i \in DOMAIN ev : ev[i] \in Item
  BY DEF EvOK
<1> DEFINE M == Marked(ev, T)
<1>2. DOMAIN M = 1..Len(ev)
      /\ \A i \in DOMAIN ev : M[i] = IF ev[i] \in Superseded(ev, T) THEN Past(ev[i]) ELSE ev[i]
  BY <1>1 DEF Marked, Past
<1>3. M = [i \in 1..Len(ev) |-> M[i]]
  BY <1>1 DEF Marked
<1> HIDE DEF M
<1>4. \A i \in 1..Len(ev) : M[i] \in Item /\ M[i].id = ev[i].id
  BY <1>1, <1>2, ItemsAre, PastIs
<1>5. M \in Seq(Item) /\ Len(M) = Len(ev)
  BY <1>1, <1>3, <1>4
<1>6. EvOK(M)
  BY <1>1, <1>2, <1>4, <1>5 DEF EvOK
<1> QED
  BY <1>1, <1>2, <1>4, <1>5, <1>6 DEF M

\* What is trusted does not rest on what is superseded.
LEMMA MarkedTrusted ==
    ASSUME NEW ev, EvOK(ev), NEW T, NEW m, NEW b, NEW fl, NEW ds
    PROVE  Trusted(m, b, fl, ds, Marked(ev, T)) = Trusted(m, b, fl, ds, ev)
<1> DEFINE M == Marked(ev, T)
<1>1. DOMAIN M = DOMAIN ev
      /\ \A i \in DOMAIN ev : ev[i] \in Item /\ M[i].id = ev[i].id /\ M[i] \in {Past(ev[i]), ev[i]}
  BY MarkedIs
<1> HIDE DEF M
<1>2. \A i \in DOMAIN ev : Trusts(m, b, fl, ds, M[i]) <=> Trusts(m, b, fl, ds, ev[i])
  BY <1>1, PastFindsTheSame
<1>3. ASSUME NEW e, NEW v
      PROVE  v \in Trusted(m, b, fl, ds, e)
               <=> \E i \in DOMAIN e : Trusts(m, b, fl, ds, e[i]) /\ v = e[i].id
  BY DEF Trusted, ToSet
<1>4. \A v : v \in Trusted(m, b, fl, ds, M) <=> v \in Trusted(m, b, fl, ds, ev)
  BY <1>1, <1>2, <1>3
<1>5. Trusted(m, b, fl, ds, M) = Trusted(m, b, fl, ds, ev)
  BY <1>4 DEF Trusted
<1> QED
  BY <1>5 DEF M

\* With unique ids, what is trusted by its id is trusted itself.
LEMMA TrustedById ==
    ASSUME NEW ev, EvOK(ev), NEW m, NEW b, NEW fl, NEW ds,
           NEW i \in DOMAIN ev, ev[i].id \in Trusted(m, b, fl, ds, ev)
    PROVE  Trusts(m, b, fl, ds, ev[i])
<1>1. PICK x \in ToSet(ev) : Trusts(m, b, fl, ds, x) /\ x.id = ev[i].id
  BY DEF Trusted
<1>2. PICK j \in DOMAIN ev : x = ev[j]
  BY DEF ToSet
<1>3. i = j
  BY <1>1, <1>2 DEF EvOK
<1> QED
  BY <1>1, <1>2, <1>3

-----------------------------------------------------------------------------
(* Corrections.                                                            *)

LEMMA ReplacementsFinite ==
    ASSUME NEW ev, EvOK(ev), NEW T, NEW x
    PROVE  IsFiniteSet(Replacements(ev, T, x)) /\ Replacements(ev, T, x) \subseteq DOMAIN ev
<1>1. DOMAIN ev = 1..Len(ev) /\ Len(ev) \in Nat
  BY DEF EvOK
<1>2. IsFiniteSet(1..Len(ev))
  BY <1>1, FS_Interval
<1>3. Replacements(ev, T, x) \in SUBSET (1..Len(ev))
  BY <1>1 DEF Replacements
<1> QED
  BY <1>1, <1>2, <1>3, FS_Subset

\* A document is superseded by the one correction it has.
LEMMA SupersededBy ==
    ASSUME NEW ev, EvOK(ev), NEW T, NEW x \in ToSet(ev)
    PROVE  x \in Superseded(ev, T) <=> \E j : Replacements(ev, T, x) = {j}
<1>1. Cardinality(Replacements(ev, T, x)) = 1 <=> \E j : Replacements(ev, T, x) = {j}
  BY ReplacementsFinite, FS_Singleton
<1> QED
  BY <1>1 DEF Superseded

\* Marking what is superseded settles what is: an item marked no longer corrects, and with
\* simple corrections that makes nothing else the only correction of a document.
LEMMA MarksSettle ==
    ASSUME NEW ev, EvOK(ev), NEW T, SimpleCorrections
    PROVE  Marked(Marked(ev, T), T) = Marked(ev, T)
<1> DEFINE M == Marked(ev, T)
<1>1. /\ EvOK(M) /\ DOMAIN M = DOMAIN ev
      /\ \A i \in DOMAIN ev :
           /\ ev[i] \in Item /\ M[i].id = ev[i].id
           /\ M[i] = IF ev[i] \in Superseded(ev, T) THEN Past(ev[i]) ELSE ev[i]
  BY MarkedIs
<1>2. M = [i \in DOMAIN M |-> M[i]]
  BY <1>1 DEF Marked
<1> HIDE DEF M
<1>3. ASSUME NEW i \in DOMAIN ev, M[i] \in Superseded(M, T) PROVE Past(M[i]) = M[i]
  <2>1. CASE ev[i] \in Superseded(ev, T)
    <3>1. M[i] = Past(ev[i]) /\ M[i] \in Item
      BY <1>1, <2>1, ItemsAre
    <3> QED
      BY <1>1, <3>1, PastIs
  <2>2. CASE ev[i] \notin Superseded(ev, T)
    <3> DEFINE x == ev[i]
    <3>1. M[i] = x /\ x \in ToSet(M) /\ x \in ToSet(ev)
      BY <1>1, <2>2 DEF ToSet
    <3>2. PICK j : Replacements(M, T, x) = {j}
      <4>1. EvOK(M) /\ x \in ToSet(M) /\ x \in Superseded(M, T)
        BY <1>1, <1>3, <3>1
      <4> HIDE DEF x
      <4> QED
        BY <4>1, SupersededBy, Zenon
    <3>3. j \in DOMAIN ev /\ CanReplace(M[j], T) /\ M[j].stage = "corrected"
      BY <1>1, <3>2 DEF Replacements, CanReplace
    <3>4. M[j] = ev[j]
      BY <1>1, <3>3, PastIs
    <3>5. j \in Replacements(ev, T, x)
      BY <1>1, <3>2, <3>3, <3>4 DEF Replacements
    <3>6. ASSUME NEW k \in Replacements(ev, T, x), k # j PROVE FALSE
      <4>1. /\ k \in DOMAIN ev /\ ev[k].stage = "corrected" /\ x.id \in ev[k].supersedes
            /\ x.id \in ev[j].supersedes /\ ev[j].id # ev[k].id
        BY <3>3, <3>5, <3>6 DEF Replacements, CanReplace, EvOK
      <4>2. PICK p \in Offered : ev[k].id = p.id /\ ev[k].supersedes = p.supersedes
                                /\ (ev[k].stage = p.stage \/ ev[k].stage = "superseded")
        BY <1>1, <4>1, ItemsAre
      <4>3. PICK q \in Offered : ev[j].id = q.id /\ ev[j].supersedes = q.supersedes
        BY <1>1, <3>3, ItemsAre
      <4>4. CASE \A r, s \in Offered : r.id # s.id => r.supersedes \cap s.supersedes = {}
        BY <4>1, <4>2, <4>3, <4>4
      <4>5. CASE \A r, s \in Offered : r.stage = "corrected" => r.id \notin s.supersedes
        <5>1. M[k] = Past(ev[k])
          <6>1. M[k] = ev[k] => k \in Replacements(M, T, x)
            BY <1>1, <3>6 DEF Replacements
          <6> QED
            BY <1>1, <3>2, <3>6, <4>1, <6>1
        <5>2. M[k] # ev[k]
          BY <1>1, <4>1, <5>1, PastIs
        <5>3. ev[k] \in Superseded(ev, T) /\ ev[k] \in ToSet(ev)
          BY <1>1, <4>1, <5>2 DEF ToSet
        <5>4. PICK l : Replacements(ev, T, ev[k]) = {l}
          BY <5>3, SupersededBy
        <5>5. l \in DOMAIN ev /\ ev[k].id \in ev[l].supersedes
          BY <5>4 DEF Replacements
        <5>6. PICK s \in Offered : ev[l].supersedes = s.supersedes
          BY <1>1, <5>5, ItemsAre
        <5> QED
          BY <4>1, <4>2, <4>5, <5>5, <5>6
      <4> QED
        BY <4>4, <4>5 DEF SimpleCorrections
    <3>7. Replacements(ev, T, x) = {j}
      BY <3>5, <3>6
    <3> QED
      BY <2>2, <3>1, <3>7, SupersededBy
  <2> QED
    BY <2>1, <2>2
<1>4. \A i \in DOMAIN M : Marked(M, T)[i] = M[i] /\ DOMAIN Marked(M, T) = DOMAIN M
  <2>1. \A i \in DOMAIN M : Marked(M, T)[i] = IF M[i] \in Superseded(M, T) THEN Past(M[i]) ELSE M[i]
    BY <1>1, MarkedIs
  <2>2. DOMAIN Marked(M, T) = DOMAIN M
    BY <1>1, MarkedIs
  <2> QED
    BY <1>1, <1>3, <2>1, <2>2
<1>5. Marked(M, T) = [i \in DOMAIN M |-> Marked(M, T)[i]]
  BY <1>1 DEF Marked
<1>6. Marked(M, T) = M
  BY <1>2, <1>4, <1>5
<1> QED
  BY <1>6 DEF M

-----------------------------------------------------------------------------
(* Refreshing.                                                             *)

LinkedTo(c, m) == Link(m, failed, c.ev)
TrustedNow(c, m) == Trusted(LinkedTo(c, m), failed, file, dossier, c.ev)

\* n is the case c, refreshed against the manifest m.
Refreshed(n, c, m) ==
  /\ n.man = LinkedTo(c, m)
  /\ n.active = Active(Marked(c.ev, TrustedNow(c, m)), TrustedNow(c, m))
  /\ n.case.ev = Marked(c.ev, TrustedNow(c, m))
  /\ n.case.compiled = Fits(c.artifact, Expanded(DOMAIN Kept(Settled(c.req))), n.active)
  /\ n.case.req = Left(c.req, n.case.compiled)
  /\ n.case.artifact = c.artifact
  /\ n.case.status = IF /\ n.case.ev # <<>> /\ n.case.req # <<>>
                        /\ n.case.compiled /\ DecisionReady(c.artifact, n.case.req)
                     THEN "ready" ELSE IF n.case.ev # <<>> THEN "collecting" ELSE "new"
  /\ n.case = [ev |-> n.case.ev, req |-> n.case.req, artifact |-> n.case.artifact,
               compiled |-> n.case.compiled, status |-> n.case.status]
  /\ n = [man |-> n.man, active |-> n.active, case |-> n.case]

LEMMA RefreshIs == ASSUME NEW c, NEW m PROVE Refreshed(Refresh(c, m), c, m)
BY DEF Refreshed, Refresh, RefreshOn, LinkedTo, TrustedNow, Left, Kept, Settled

\* A refresh keeps the case and the manifest as they have to be.
LEMMA RefreshKeeps ==
    ASSUME NEW c, NEW m, CaseOK(c), ManOK(m)
    PROVE  /\ CaseOK(Refresh(c, m).case) /\ ManOK(Refresh(c, m).man)
           /\ DOMAIN Refresh(c, m).man = DOMAIN m
           /\ Len(Refresh(c, m).case.ev) = Len(c.ev)
           /\ Refresh(c, m).case.compiled \in BOOLEAN
           /\ Refresh(c, m).case.status \in {"new", "collecting", "ready"}
<1> DEFINE n == Refresh(c, m)
<1>1. Len(c.ev) \in Nat /\ EvOK(c.ev) /\ ReqOK(c.req)
  BY DEF CaseOK, EvOK
<1>2. Refreshed(n, c, m)
  BY RefreshIs
<1> HIDE DEF n
<1>3. ManOK(n.man) /\ DOMAIN n.man = DOMAIN m
  BY <1>1, <1>2, LinkKeeps DEF LinkedTo, Refreshed
<1>4. EvOK(n.case.ev) /\ Len(n.case.ev) = Len(c.ev)
  BY <1>1, <1>2, MarkedIs DEF Refreshed
<1>5. n.case.compiled \in BOOLEAN
  BY <1>2 DEF Fits, Refreshed
<1>6. ReqOK(n.case.req)
  BY <1>1, <1>2, <1>5, RequirementsSettle DEF Refreshed
<1>7. n.case.status \in {"new", "collecting", "ready"}
  BY <1>2 DEF Refreshed
<1> QED
  BY <1>3, <1>4, <1>5, <1>6, <1>7 DEF CaseOK, n

\* Refreshing what a refresh leaves changes nothing.
LEMMA RefreshSettles ==
    ASSUME NEW c, NEW m, CaseOK(c), ManOK(m), SimpleCorrections
    PROVE  Refresh(Refresh(c, m).case, Refresh(c, m).man) = Refresh(c, m)
<1> DEFINE n == Refresh(c, m)
           T == TrustedNow(c, m)
           o == Refresh(n.case, n.man)
<1>1. Len(c.ev) \in Nat /\ EvOK(c.ev) /\ ReqOK(c.req) /\ n.case.compiled \in BOOLEAN
  BY RefreshKeeps DEF CaseOK, EvOK
<1>2. Refreshed(n, c, m) /\ Refreshed(o, n.case, n.man)
  BY RefreshIs
<1> HIDE DEF n, o
<1>3. n.case.ev = Marked(c.ev, T) /\ n.man = Link(m, failed, c.ev)
      /\ T = Trusted(n.man, failed, file, dossier, c.ev)
  BY <1>2 DEF LinkedTo, TrustedNow, Refreshed
<1> HIDE DEF T
<1>4. o.man = n.man
  <2>1. /\ Len(n.case.ev) = Len(c.ev)
        /\ \A k \in 1..Len(c.ev) : c.ev[k] \in Item /\ n.case.ev[k] \in {c.ev[k], Past(c.ev[k])}
    BY <1>1, <1>3, MarkedIs
  <2>2. \A k \in 1..Len(c.ev) : /\ StatusFrom(n.case.ev[k]) = StatusFrom(c.ev[k])
                                /\ Linked(m, failed, n.case.ev[k]) = Linked(m, failed, c.ev[k])
    BY <2>1, PastFindsTheSame
  <2>3. o.man = Link(n.man, failed, n.case.ev)
    BY <1>2 DEF LinkedTo, Refreshed
  <2> QED
    BY <1>1, <1>3, <2>1, <2>2, <2>3, LinkSettles
<1>5. TrustedNow(n.case, n.man) = T
  <2>1. TrustedNow(n.case, n.man) = Trusted(n.man, failed, file, dossier, n.case.ev)
    BY <1>2, <1>4 DEF TrustedNow, Refreshed
  <2> QED
    BY <1>1, <1>3, <2>1, MarkedTrusted
<1>6. o.case.ev = n.case.ev /\ o.active = n.active
  <2>1. o.case.ev = Marked(n.case.ev, T) /\ o.active = Active(Marked(n.case.ev, T), T)
    BY <1>2, <1>5 DEF Refreshed
  <2>2. n.active = Active(n.case.ev, T)
    BY <1>2 DEF T, Refreshed
  <2>3. Marked(n.case.ev, T) = n.case.ev
    BY <1>1, <1>3, MarksSettle
  <2> QED
    BY <2>1, <2>2, <2>3
<1>7. Kept(Settled(n.case.req)) = Kept(Settled(c.req))
  BY <1>1, <1>2, RequirementsSettle DEF Refreshed
<1>8. o.case.artifact = n.case.artifact /\ n.case.artifact = c.artifact
  BY <1>2 DEF Refreshed
<1>9. o.case.compiled = n.case.compiled
  BY <1>2, <1>6, <1>7, <1>8 DEF Refreshed
<1>10. o.case.req = n.case.req
  BY <1>2, <1>7, <1>9 DEF Left, Refreshed
<1>11. o.case.status = n.case.status
  BY <1>2, <1>6, <1>8, <1>9, <1>10 DEF Refreshed
<1>12. o.case = n.case
  BY <1>2, <1>6, <1>8, <1>9, <1>10, <1>11 DEF Refreshed
<1>13. o = n
  BY <1>2, <1>4, <1>6, <1>12 DEF Refreshed
<1> QED
  BY <1>13 DEF n, o

-----------------------------------------------------------------------------
(* Patching.                                                               *)

LEMMA PutKeeps ==
    ASSUME NEW req \in Askings, NEW q \in ReqIds PROVE Put(req, q) \in Askings
<1>1. /\ req \in [DOMAIN req -> BOOLEAN] /\ DOMAIN req \subseteq ReqIds
      /\ \A p \in DOMAIN req : p \in Authority => req[p]
  BY AskingsAre
<1>2. CASE q \in Derived
  BY <1>2 DEF Put
<1>3. CASE q \notin Derived
  <2> DEFINE v == IF q \in DOMAIN req THEN Needed(req, q, TRUE, req[q]) ELSE Default[q]
             P == [p \in DOMAIN req \cup {q} |-> IF p # q THEN req[p] ELSE v]
  <2>1. v \in BOOLEAN /\ (q \in Authority => v)
    <3>1. q \in DOMAIN req => req[q] \in BOOLEAN
      BY <1>1
    <3>2. Default[q] \in BOOLEAN /\ (q \in Authority => Default[q])
      BY PackAssumption
    <3> QED
      BY <3>1, <3>2, ConclusionsNeeded
  <2>2. Put(req, q) = P
    BY <1>3 DEF Put
  <2> HIDE DEF v
  <2>3. /\ P \in [DOMAIN P -> BOOLEAN] /\ DOMAIN P \subseteq ReqIds
        /\ \A p \in DOMAIN P : p \in Authority => P[p]
    BY <1>1, <2>1
  <2> HIDE DEF P
  <2> QED
    BY <2>2, <2>3, AskingsAre
<1> QED
  BY <1>2, <1>3

\* What is asked for leaves requirements of known shape.
LEMMA UpdatedKeeps ==
    ASSUME NEW c, ReqOK(c.req), NEW ask, ask.add \in Seq(ReqIds) PROVE Updated(c, ask) \in Askings
<1> DEFINE N == Len(ask.add)
           s == [q \in DOMAIN c.req \ (ask.remove \ Derived) |-> c.req[q]]
           F == [n \in 1..N |-> [req \in Askings |-> Put(req, ask.add[n])]]
           Is(f) == f = [n \in 0..N |-> IF n = 0 THEN s ELSE Put(f[n - 1], ask.add[n])]
           g == CHOOSE f : Is(f)
<1>1. Updated(c, ask) = g[N]
  BY DEF Updated
<1>2. N \in Nat /\ \A n \in 1..N : ask.add[n] \in ReqIds
  OBVIOUS
<1>3. s \in Askings
  <2>1. /\ s \in [DOMAIN s -> BOOLEAN] /\ DOMAIN s \subseteq ReqIds
        /\ \A q \in DOMAIN s : q \in Authority => s[q]
    BY DEF ReqOK
  <2> HIDE DEF s
  <2> QED
    BY <2>1, AskingsAre
<1>4. F \in [1..N -> [Askings -> Askings]]
  <2>1. \A n \in 1..N : \A req \in Askings : Put(req, ask.add[n]) \in Askings
    BY <1>2, PutKeeps
  <2> HIDE DEF N
  <2> QED
    BY <2>1
<1> HIDE DEF N, s
<1>5. PICK f \in [0..N -> Askings] : Accumulates(f, s, F, N)
  <2> HIDE DEF F
  <2> QED
    BY <1>2, <1>3, <1>4, AccumulationExists
<1>6. \A n \in 0..N : f[n] = IF n = 0 THEN s ELSE Put(f[n - 1], ask.add[n])
  <2> TAKE n \in 0..N
  <2>1. f[n] = IF n = 0 THEN s ELSE F[n][f[n - 1]]
    BY <1>5 DEF Accumulates
  <2>2. n # 0 => n \in 1..N /\ f[n - 1] \in Askings
    BY <1>2
  <2> QED
    BY <2>1, <2>2
<1>7. Is(f)
  <2>1. f = [n \in 0..N |-> f[n]]
    OBVIOUS
  <2> QED
    BY <1>6, <2>1
<1>8. Is(g)
  <2> HIDE DEF Is
  <2> QED
    BY <1>7, Zenon
<1> HIDE DEF g
<1>9. 0 \in 0..N /\ N \in 0..N /\ \A n \in 1..N : n \in 0..N /\ n # 0
  BY <1>2
<1>10. g[0] = s /\ \A n \in 1..N : g[n] = Put(g[n - 1], ask.add[n])
  <2>1. \A n \in 0..N : g[n] = IF n = 0 THEN s ELSE Put(g[n - 1], ask.add[n])
    BY <1>8
  <2> QED
    BY <1>9, <2>1
<1> DEFINE T == {n \in 0..N : g[n] \in Askings}
<1>11. 0 \in T
  BY <1>3, <1>9, <1>10
<1>12. \A n \in 1..N : n - 1 \in T => n \in T
  <2> HIDE DEF F, Is
  <2> QED
    BY <1>2, <1>9, <1>10, PutKeeps
<1> HIDE DEF T
<1>13. 0..N \subseteq T
  BY <1>2, <1>11, <1>12, TurnByTurn, Zenon
<1> QED
  BY <1>1, <1>9, <1>13 DEF T

\* So does what new evidence brings along, and it keeps closed what was.
LEMMA ReqsForKeeps ==
    ASSUME NEW c, ReqOK(c.req), NEW items \in Seq(Offered) PROVE ReqOK(ReqsFor(c, items).req)
<1> DEFINE sup == Supported(items)
           base == IF WrongDefault(c, sup) THEN <<>> ELSE c.req
           new == sup \ DOMAIN base
<1>1. sup \subseteq ReqIds \ Authority
  <2> SUFFICES ASSUME NEW p \in ToSet(items), NEW q \in p.supports PROVE q \in ReqIds
    BY DEF Supported
  <2>1. p \in Offered
    BY DEF ToSet
  <2>2. p \in Evidence
    BY <2>1, NormalIsEvidence
  <2> QED
    BY <2>2 DEF Evidence
<1>2. base \in [DOMAIN base -> BOOLEAN] /\ ReqOK(base)
  BY DEF ReqOK
<1>3. ASSUME NEW R, R \in [DOMAIN R -> BOOLEAN], NEW D, DOMAIN R = D \cup DOMAIN base, 
             D \subseteq ReqIds \ Authority, \A q \in DOMAIN base : R[q] = base[q]
      PROVE  ReqOK(R)
  <2> HIDE DEF base
  <2>1. \A q \in D : Premises[q] = {}
    BY <1>3, PackAssumption DEF Authority
  <2> QED
    BY <1>2, <1>3, <2>1 DEF ReqOK
<1> HIDE DEF sup, base
<1>4. ReqsFor(c, items) =
        IF sup = {} THEN [ok |-> TRUE, req |-> c.req]
        ELSE IF DOMAIN base = {} THEN [ok |-> TRUE, req |-> Initial(items, sup)]
        ELSE [ok |-> new \subseteq Dynamic,
              req |-> [q \in DOMAIN base \cup new |-> q \in DOMAIN base /\ base[q]]]
  BY DEF ReqsFor, sup, base
<1>5. CASE sup = {}
  BY <1>4, <1>5
<1>6. CASE sup # {} /\ DOMAIN base = {}
  <2> DEFINE I == Initial(items, sup)
  <2>1. /\ I \in [DOMAIN I -> BOOLEAN]
        /\ DOMAIN I \subseteq InvoiceFields \cup ApLite \cup sup
    <3>1. DOMAIN I \subseteq InvoiceFields \cup ApLite \cup sup
      BY DEF Initial
    <3>2. \A q \in DOMAIN I : I[q] \in BOOLEAN
      BY DEF Initial
    <3>3. I = [q \in DOMAIN I |-> I[q]]
      BY DEF Initial
    <3> HIDE DEF I
    <3> QED
      BY <3>1, <3>2, <3>3
  <2> HIDE DEF I
  <2>2. DOMAIN I \subseteq ReqIds \ Authority
    BY <1>1, <2>1, PackAssumption
  <2>3. ReqOK(I)
    BY <1>3, <1>6, <2>1, <2>2
  <2> QED
    BY <1>4, <1>6, <2>3 DEF I
<1>7. CASE sup # {} /\ DOMAIN base # {}
  <2> DEFINE R == [q \in DOMAIN base \cup new |-> q \in DOMAIN base /\ base[q]]
  <2>1. /\ R \in [DOMAIN R -> BOOLEAN] /\ DOMAIN R = new \cup DOMAIN base
        /\ \A q \in DOMAIN base : R[q] = base[q]
    BY <1>2
  <2>2. new \subseteq ReqIds \ Authority
    BY <1>1
  <2> HIDE DEF R, new
  <2>3. ReqOK(R)
    BY <1>3, <2>1, <2>2
  <2> QED
    BY <1>4, <1>7, <2>3 DEF R, new
<1> QED
  BY <1>5, <1>6, <1>7

\* What evidence is appended to, as it goes
Growing == {acc \in [ok : BOOLEAN, ev : Seq(Item)] : EvOK(acc.ev)}

\* Appending keeps ids apart: a packet whose id is taken replaces that one or is refused.
LEMMA AppendOneKeeps ==
    ASSUME NEW acc \in Growing, NEW raw \in Offered PROVE AppendOne(acc, raw) \in Growing
<1> DEFINE p == Normal(raw)
           same == {i \in DOMAIN acc.ev : acc.ev[i].id = p.id}
           at == CHOOSE i \in same : TRUE
           ev == acc.ev
<1>1. /\ acc \in [ok : BOOLEAN, ev : Seq(Item)] /\ ev \in Seq(Item)
      /\ \A i, j \in DOMAIN ev : ev[i].id = ev[j].id => i = j
      /\ DOMAIN ev = 1..Len(ev) /\ Len(ev) \in Nat
  BY DEF Growing, EvOK
<1>2. p \in Item
  BY NormalIsEvidence
<1>3. \/ AppendOne(acc, raw) = acc
      \/ same = {} /\ AppendOne(acc, raw) = [acc EXCEPT !.ev = Append(ev, p)]
      \/ same # {} /\ AppendOne(acc, raw) = [acc EXCEPT !.ev = ReplaceAt(ev, at, p)]
      \/ AppendOne(acc, raw) = [acc EXCEPT !.ok = FALSE]
  BY DEF AppendOne
<1>4. same # {} => at \in same
  OBVIOUS
<1> HIDE DEF p, same, at
<1>5. CASE AppendOne(acc, raw) = acc
  BY <1>5
<1>6. CASE same = {} /\ AppendOne(acc, raw) = [acc EXCEPT !.ev = Append(ev, p)]
  <2> DEFINE A == Append(ev, p)
  <2>1. /\ A \in Seq(Item) /\ DOMAIN A = 1..(Len(ev) + 1)
        /\ \A i \in 1..(Len(ev) + 1) : A[i] = IF i \in DOMAIN ev THEN ev[i] ELSE p
        /\ \A i \in 1..(Len(ev) + 1) : i \in DOMAIN ev \/ i = Len(ev) + 1
    BY <1>1, <1>2
  <2>2. \A i \in DOMAIN ev : ev[i].id # p.id
    BY <1>6 DEF same
  <2> HIDE DEF A
  <2>3. \A i, j \in DOMAIN A : A[i].id = A[j].id => i = j
    BY <1>1, <2>1, <2>2
  <2> QED
    BY <1>1, <1>6, <2>1, <2>3 DEF A, Growing, EvOK
<1>7. CASE same # {} /\ AppendOne(acc, raw) = [acc EXCEPT !.ev = ReplaceAt(ev, at, p)]
  <2> DEFINE R == ReplaceAt(ev, at, p)
  <2>1. at \in DOMAIN ev /\ ev[at].id = p.id
    BY <1>4, <1>7 DEF same
  <2>2. R = [ev EXCEPT ![at] = p]
    BY DEF ReplaceAt
  <2> HIDE DEF R
  <2>3. R \in Seq(Item) /\ DOMAIN R = DOMAIN ev /\ \A i \in DOMAIN ev : R[i].id = ev[i].id
    BY <1>1, <1>2, <2>1, <2>2
  <2> QED
    BY <1>1, <1>7, <2>3 DEF R, Growing, EvOK
<1>8. CASE AppendOne(acc, raw) = [acc EXCEPT !.ok = FALSE]
  BY <1>1, <1>8 DEF Growing
<1> QED
  BY <1>3, <1>5, <1>6, <1>7, <1>8

LEMMA AppendedKeeps ==
    ASSUME NEW ev, EvOK(ev), NEW items \in Seq(Offered) PROVE Appended(ev, items) \in Growing
<1> DEFINE N == Len(items)
           s == [ok |-> TRUE, ev |-> ev]
           F == [n \in 1..N |-> [acc \in Growing |-> AppendOne(acc, items[n])]]
           Is(f) == f = [n \in 0..N |-> IF n = 0 THEN s ELSE AppendOne(f[n - 1], items[n])]
           g == CHOOSE f : Is(f)
<1>1. Appended(ev, items) = g[N]
  BY DEF Appended
<1>2. N \in Nat /\ \A n \in 1..N : items[n] \in Offered
  OBVIOUS
<1>3. s \in Growing
  BY DEF Growing, EvOK
<1>4. F \in [1..N -> [Growing -> Growing]]
  <2>1. \A n \in 1..N : \A acc \in Growing : AppendOne(acc, items[n]) \in Growing
    BY <1>2, AppendOneKeeps
  <2> HIDE DEF N
  <2> QED
    BY <2>1
<1> HIDE DEF N, s
<1>5. PICK f \in [0..N -> Growing] : Accumulates(f, s, F, N)
  <2> HIDE DEF F
  <2> QED
    BY <1>2, <1>3, <1>4, AccumulationExists
<1>6. \A n \in 0..N : f[n] = IF n = 0 THEN s ELSE AppendOne(f[n - 1], items[n])
  <2> TAKE n \in 0..N
  <2>1. f[n] = IF n = 0 THEN s ELSE F[n][f[n - 1]]
    BY <1>5 DEF Accumulates
  <2>2. n # 0 => n \in 1..N /\ f[n - 1] \in Growing
    BY <1>2
  <2> QED
    BY <2>1, <2>2
<1>7. Is(f)
  <2>1. f = [n \in 0..N |-> f[n]]
    OBVIOUS
  <2> QED
    BY <1>6, <2>1
<1>8. Is(g)
  <2> HIDE DEF Is
  <2> QED
    BY <1>7, Zenon
<1> HIDE DEF g
<1>9. 0 \in 0..N /\ N \in 0..N /\ \A n \in 1..N : n \in 0..N /\ n # 0
  BY <1>2
<1>10. g[0] = s /\ \A n \in 1..N : g[n] = AppendOne(g[n - 1], items[n])
  <2>1. \A n \in 0..N : g[n] = IF n = 0 THEN s ELSE AppendOne(g[n - 1], items[n])
    BY <1>8
  <2> QED
    BY <1>9, <2>1
<1> DEFINE T == {n \in 0..N : g[n] \in Growing}
<1>11. 0 \in T
  BY <1>3, <1>9, <1>10
<1>12. \A n \in 1..N : n - 1 \in T => n \in T
  <2> HIDE DEF F, Is
  <2> QED
    BY <1>2, <1>9, <1>10, AppendOneKeeps
<1> HIDE DEF T
<1>13. 0..N \subseteq T
  BY <1>2, <1>11, <1>12, TurnByTurn, Zenon
<1> QED
  BY <1>1, <1>9, <1>13 DEF T

\* A patch keeps a refreshed case as it has to be, whether it may be applied or not.
LEMMA PatchKeeps ==
    ASSUME NEW c, NEW m, CaseOK(c), ManOK(m), NEW items \in Seq(Offered), NEW ask,
           ask.add \in Seq(ReqIds), NEW artifact
    PROVE  CaseOK(Patched(Refresh(c, m).case, items, ask, artifact).case)
<1> DEFINE d == Refresh(c, m).case
           up == [d EXCEPT !.req = WithPremises(Updated(d, ask))]
           after == Patched(d, items, ask, artifact).case
<1>1. CaseOK(d) /\ Refreshed(Refresh(c, m), c, m)
  BY RefreshKeeps, RefreshIs
<1>2. d = [ev |-> d.ev, req |-> d.req, artifact |-> d.artifact,
           compiled |-> d.compiled, status |-> d.status]
  BY <1>1 DEF Refreshed
<1> HIDE DEF d
<1>3. Updated(d, ask) \in Askings
  BY <1>1, UpdatedKeeps DEF CaseOK
<1>4. up.req = WithPremises(Updated(d, ask)) /\ ReqOK(up.req)
  <2>1. up.req = WithPremises(Updated(d, ask))
    BY <1>2
  <2> QED
    BY <1>3, <2>1, PremisesClose
<1>5. ReqOK(ReqsFor(up, items).req)
  <2> HIDE DEF up
  <2> QED
    BY <1>4, ReqsForKeeps
<1>6. EvOK(Appended(d.ev, items).ev)
  <2>1. Appended(d.ev, items) \in Growing
    BY <1>1, AppendedKeeps DEF CaseOK
  <2> QED
    BY <2>1 DEF Growing
<1>7. /\ after.req = ReqsFor(up, items).req
      /\ after.ev = Appended(d.ev, items).ev
  BY <1>2 DEF Patched
<1> HIDE DEF after
<1>8. CaseOK(after)
  BY <1>5, <1>6, <1>7 DEF CaseOK
<1> QED
  BY <1>8 DEF after, d

-----------------------------------------------------------------------------
(* The case as its operations leave it.                                    *)

\* What was quarantined stays quarantined.
Stays(m, n) == \A r \in DOMAIN m :
  m[r].status = "quarantined" => r \in DOMAIN n /\ n[r].status = "quarantined"

LEMMA RefreshStays ==
    ASSUME NEW c, NEW m, CaseOK(c), ManOK(m) PROVE Stays(m, Refresh(c, m).man)
<1>1. Len(c.ev) \in Nat /\ Refreshed(Refresh(c, m), c, m)
  BY RefreshIs DEF CaseOK, EvOK
<1>2. /\ DOMAIN Link(m, failed, c.ev) = DOMAIN m
      /\ \A r \in DOMAIN m : Level(Link(m, failed, c.ev)[r].status) >= Level(m[r].status)
  BY <1>1, LinkKeeps
<1> DEFINE L == Link(m, failed, c.ev)
<1> HIDE DEF L
<1>3. Stays(m, L)
  <2> SUFFICES ASSUME NEW r \in DOMAIN m, m[r].status = "quarantined"
               PROVE  r \in DOMAIN L /\ L[r].status = "quarantined"
    BY DEF Stays
  <2> QED
    BY <1>2 DEF Level, L
<1> QED
  BY <1>1, <1>3 DEF Refreshed, LinkedTo, L

LEMMA UpsertKeeps ==
    ASSUME NEW m, ManOK(m), NEW r \in Refs, NEW v \in 1..MaxVersion, NEW d \in 0..MaxVersion,
           NEW st \in Statuses
    PROVE  ManOK(Upsert(m, r, v, d, st)) /\ Stays(m, Upsert(m, r, v, d, st))
<1> DEFINE entry == [version |-> v,
                     status  |-> IF r \in DOMAIN m THEN Merge(m[r].status, st) ELSE st,
                     dossier |-> IF r \in DOMAIN m /\ d = 0 THEN m[r].dossier ELSE d]
           U == [s \in DOMAIN m \cup {r} |-> IF s = r THEN entry ELSE m[s]]
           E == [version : 1..MaxVersion, status : Statuses, dossier : 0..MaxVersion]
<1>1. Upsert(m, r, v, d, st) = U
  BY DEF Upsert
<1>2. m \in [DOMAIN m -> E] /\ DOMAIN m \subseteq Refs
  BY DEF ManOK
<1>3. r \in DOMAIN m => /\ m[r].status \in Statuses /\ m[r].dossier \in 0..MaxVersion
                       /\ Merge(m[r].status, st) \in Statuses
  BY <1>2, MergeTakesWorse
<1>4. entry \in E
  BY <1>3
<1>5. entry.status = IF r \in DOMAIN m THEN Merge(m[r].status, st) ELSE st
  OBVIOUS
<1>6. Merge("quarantined", st) = "quarantined"
  BY DEF Merge, Statuses, Rank
<1> HIDE DEF entry, E
<1>7. U \in [DOMAIN U -> E] /\ DOMAIN U \subseteq Refs
  BY <1>2, <1>4
<1>8. Stays(m, U)
  BY <1>5, <1>6 DEF Stays
<1> QED
  BY <1>1, <1>7, <1>8 DEF ManOK, E

LEMMA WeakenKeeps ==
    ASSUME NEW m, ManOK(m), NEW r \in DOMAIN m
    PROVE  ManOK(Weaken(m, r)) /\ Stays(m, Weaken(m, r))
<1> DEFINE st == IF m[r].status = "active" THEN "weak" ELSE m[r].status
           E == [version : 1..MaxVersion, status : Statuses, dossier : 0..MaxVersion]
<1>1. m \in [DOMAIN m -> E] /\ DOMAIN m \subseteq Refs
  BY DEF ManOK
<1>2. [m[r] EXCEPT !.status = st] \in E /\ [m[r] EXCEPT !.status = st].status = st
  BY <1>1 DEF Statuses
<1>3. Weaken(m, r) = [m EXCEPT ![r] = [m[r] EXCEPT !.status = st]]
  BY <1>1 DEF Weaken
<1> HIDE DEF E
<1>4. Weaken(m, r) \in [DOMAIN m -> E]
  BY <1>1, <1>2, <1>3
<1>5. Stays(m, Weaken(m, r))
  BY <1>1, <1>2, <1>3 DEF Stays
<1> QED
  BY <1>1, <1>4, <1>5 DEF ManOK, E

CaseTyped(c) ==
  /\ CaseOK(c) /\ Len(c.ev) <= MaxItems
  /\ c.compiled \in BOOLEAN /\ c.status \in {"new", "collecting", "ready"}

\* What an operation may leave in the two files
MayLeave(m, c) == ManOK(m) /\ CaseTyped(c) /\ Stays(man, m)

LEMMA LoadLeaves ==
    ASSUME CaseTypeOK
    PROVE  MayLeave(Refresh(case, man).man, Refresh(case, man).case) /\ MayLeave(man, case)
<1>1. CaseOK(case) /\ ManOK(man) /\ Len(case.ev) <= MaxItems /\ CaseTyped(case)
  BY DEF CaseTypeOK, CaseTyped
<1>2. Stays(man, Refresh(case, man).man) /\ Stays(man, man)
  BY <1>1, RefreshStays DEF Stays
<1> QED
  BY <1>1, <1>2, RefreshKeeps DEF MayLeave, CaseTyped

\* A patch of a loaded case, with what its last refresh makes of the two files
LEMMA PatchLeaves ==
    ASSUME CaseTypeOK, NEW items \in Seq(Offered), NEW ask, ask.add \in Seq(ReqIds), NEW artifact,
           NEW l, l = Refresh(case, man), NEW p, p = Patched(l.case, items, ask, artifact),
           Len(p.case.ev) <= MaxItems
    PROVE  MayLeave(Refresh(p.case, l.man).man, Refresh(p.case, l.man).case)
<1>1. CaseOK(case) /\ ManOK(man) /\ MayLeave(l.man, l.case)
  BY LoadLeaves DEF CaseTypeOK
<1>2. CaseOK(p.case) /\ ManOK(l.man) /\ Stays(man, l.man)
  BY <1>1, PatchKeeps DEF MayLeave
<1> DEFINE f == Refresh(p.case, l.man)
<1>3. /\ CaseOK(f.case) /\ ManOK(f.man) /\ Len(f.case.ev) = Len(p.case.ev)
      /\ f.case.compiled \in BOOLEAN /\ f.case.status \in {"new", "collecting", "ready"}
      /\ Stays(l.man, f.man)
  BY <1>2, RefreshKeeps, RefreshStays
<1> HIDE DEF f
<1>4. Stays(man, f.man)
  BY <1>2, <1>3 DEF Stays
<1> QED
  BY <1>3, <1>4 DEF MayLeave, CaseTyped, f

FilesOK ==
  /\ file \in [Refs -> 0..MaxVersion] /\ \A r \in Refs : file[r] \in Versions(r) \cup {0}
  /\ dossier \in [Refs -> [version : 0..MaxVersion, text : 0..MaxVersion]]
  /\ failed \subseteq {NameOf[r] : r \in Refs}
ReadingOK ==
  /\ reading \in [ref : Refs \cup {"none"}, phase : {"idle", "read", "entered", "dossier"},
                  version : 0..MaxVersion, text : 0..MaxVersion]
  /\ reading.phase # "idle" =>
       /\ reading.ref \in Refs /\ reading.text \in Versions(reading.ref)
       /\ file[reading.ref] # 0
WorkOK == review.items \in Seq(Offered) /\ left \in 0..MaxOps

LEMMA CaseTypeParts ==
    CaseTypeOK <=> FilesOK /\ ReadingOK /\ WorkOK /\ ManOK(man) /\ CaseTyped(case)
BY DEF CaseTypeOK, FilesOK, ReadingOK, WorkOK, CaseTyped

LEMMA VersionsAre ==
    ASSUME NEW r \in Refs, NEW v \in Versions(r)
    PROVE  v \in 1..MaxVersion /\ Screening[r][v] \in Statuses
<1>1. v \in DOMAIN Screening[r]
  BY OfferAssumption
<1>2. Screening[r][v] \in Statuses
  BY <1>1, ManifestAssumption DEF Statuses
<1>3. v \in 1..MaxVersion
  BY OfferAssumption DEF Versions
<1> QED
  BY <1>2, <1>3

LEMMA CaseStarts == ASSUME CaseInit PROVE CaseTypeOK
<1>1. FilesOK
  BY OfferAssumption DEF CaseInit, FilesOK, NoDossier
<1>2. ReadingOK
  BY OfferAssumption DEF CaseInit, ReadingOK, Idle
<1>3. WorkOK
  <2>1. review.items = <<>> /\ left = MaxOps
    BY DEF CaseInit, NoReview
  <2> QED
    BY <2>1, OfferAssumption DEF WorkOK
<1>4. ManOK(man)
  BY DEF CaseInit, ManOK
<1>5. CaseTyped(case)
  <2>1. case.ev = <<>> /\ case.req = <<>> /\ case.compiled = FALSE /\ case.status = "new"
    BY DEF CaseInit, NewCase
  <2>2. EvOK(<<>>) /\ ReqOK(<<>>)
    BY DEF EvOK, ReqOK
  <2>3. CaseOK(case)
    BY <2>1, <2>2, Zenon DEF CaseOK
  <2>4. Len(case.ev) <= MaxItems
    BY <2>1, OfferAssumption
  <2> QED
    BY <2>1, <2>3, <2>4 DEF CaseTyped
<1> QED
  BY <1>1, <1>2, <1>3, <1>4, <1>5, CaseTypeParts

\* The steps that read an attachment or change the manifest
LEMMA ReadingSteps ==
    ASSUME CaseTypeOK,
           \/ \E r \in Refs : ReadUpload(r) \/ ReadStored(r) \/ ReadFails(r)
                               \/ Overwrite(r) \/ Summarise(r)
           \/ Register \/ WriteDossier \/ RegisterDossier \/ Crash
    PROVE  CaseTypeOK' /\ Stays(man, man')
<1>0. /\ FilesOK /\ ReadingOK /\ WorkOK /\ ManOK(man) /\ CaseTyped(case) /\ Stays(man, man)
      /\ MaxVersion \in Nat \ {0} /\ MaxOps \in Nat
  BY CaseTypeParts, OfferAssumption DEF Stays
<1>L. Asked => left' \in 0..MaxOps
  BY <1>0 DEF Asked, WorkOK
<1> SUFFICES FilesOK' /\ ReadingOK' /\ WorkOK' /\ ManOK(man)' /\ CaseTyped(case)' /\ Stays(man, man')
  BY CaseTypeParts, PTL
<1>C. case' = case => CaseTyped(case)'
  BY <1>0 DEF CaseTyped, CaseOK, EvOK, ReqOK
<1>M. man' = man => ManOK(man)' /\ Stays(man, man')
  BY <1>0 DEF ManOK
<1>W. review' = review /\ left' \in 0..MaxOps => WorkOK'
  BY <1>0 DEF WorkOK
<1>F. file' = file /\ dossier' = dossier /\ failed' = failed => FilesOK'
  BY <1>0 DEF FilesOK, Versions
<1>R. reading' = reading /\ file' = file => ReadingOK'
  BY <1>0 DEF ReadingOK, Versions
<1>V. \A r \in Refs : Versions(r) \subseteq 1..MaxVersion /\ 1 \in Versions(r)
  BY <1>0 DEF Versions
<1>1. ASSUME NEW r \in Refs, ReadUpload(r) PROVE FilesOK' /\ ReadingOK'
  <2>1. FilesOK'
    BY <1>0, <1>1, <1>V DEF ReadUpload, FilesOK, Versions
  <2>2. ReadingOK'
    BY <1>0, <1>1, <1>V DEF ReadUpload, FilesOK, ReadingOK, Versions
  <2> QED
    BY <2>1, <2>2
<1>2. ASSUME NEW r \in Refs, ReadStored(r) PROVE ReadingOK'
  BY <1>0, <1>2, <1>V DEF ReadStored, FilesOK, ReadingOK, Versions
<1>3. ASSUME NEW r \in Refs, ReadFails(r) PROVE FilesOK'
  BY <1>0, <1>3 DEF ReadFails, FilesOK, Versions
<1>4. ASSUME NEW r \in Refs, Overwrite(r) PROVE FilesOK' /\ ReadingOK'
  <2>1. file[r] \in 0..MaxVersion /\ file[r] + 1 \in Versions(r)
    BY <1>0, <1>4 DEF Overwrite, FilesOK, Versions
  <2>2. FilesOK'
    BY <1>0, <1>4, <1>V, <2>1 DEF Overwrite, FilesOK, Versions
  <2>3. ReadingOK'
    BY <1>0, <1>4, <2>1 DEF Overwrite, FilesOK, ReadingOK, Versions
  <2> QED
    BY <2>2, <2>3
<1>5. ASSUME NEW r \in Refs, Summarise(r) PROVE ManOK(man)' /\ Stays(man, man')
  <2>1. man' = Weaken(man, r) /\ r \in DOMAIN man
    BY <1>5 DEF Summarise
  <2>2. ManOK(man') /\ Stays(man, man')
    BY <1>0, <2>1, WeakenKeeps
  <2> QED
    BY <2>2 DEF ManOK
<1>6. reading.phase # "idle" =>
        /\ reading.ref \in Refs /\ reading.text \in 1..MaxVersion
        /\ file[reading.ref] \in 1..MaxVersion
        /\ Screening[reading.ref][reading.text] \in Statuses
  BY <1>0, <1>V, VersionsAre DEF ReadingOK, FilesOK
<1>7. ASSUME Register PROVE ManOK(man)' /\ Stays(man, man') /\ ReadingOK'
  <2>1. /\ reading.phase = "read"
        /\ man' = Upsert(man, reading.ref, file[reading.ref], 0, Screening[reading.ref][reading.text])
    BY <1>7 DEF Register
  <2>2. ManOK(man') /\ Stays(man, man')
    BY <1>0, <1>6, <2>1, UpsertKeeps
  <2>3. ReadingOK'
    <3>1. /\ reading' = [reading EXCEPT !.phase = "entered", !.version = file[reading.ref]]
          /\ file' = file
      BY <1>7 DEF Register
    <3>2. file[reading.ref] \in 0..MaxVersion /\ file[reading.ref] # 0 /\ reading.ref \in Refs
      BY <1>6, <2>1
    <3>3. /\ reading' \in [ref : Refs \cup {"none"}, phase : {"idle", "read", "entered", "dossier"},
                           version : 0..MaxVersion, text : 0..MaxVersion]
          /\ reading'.ref = reading.ref /\ reading'.text = reading.text
      BY <1>0, <3>1, <3>2 DEF ReadingOK
    <3> QED
      BY <1>0, <2>1, <3>1, <3>2, <3>3 DEF ReadingOK, Versions
  <2> QED
    BY <2>2, <2>3 DEF ManOK
<1>8. ASSUME WriteDossier PROVE FilesOK' /\ ReadingOK'
  BY <1>0, <1>8 DEF WriteDossier, FilesOK, ReadingOK, Versions
<1>9. ASSUME RegisterDossier PROVE ManOK(man)' /\ Stays(man, man') /\ ReadingOK'
  <2>1. /\ reading.phase = "dossier" /\ reading' = Idle
        /\ man' = Upsert(man, reading.ref, file[reading.ref], reading.text,
                         Screening[reading.ref][reading.text])
    BY <1>9 DEF RegisterDossier
  <2>2. ManOK(man') /\ Stays(man, man')
    BY <1>0, <1>6, <2>1, UpsertKeeps
  <2>3. ReadingOK'
    BY <1>0, <2>1 DEF Idle, ReadingOK
  <2> QED
    BY <2>2, <2>3 DEF ManOK
<1>10. ASSUME Crash PROVE ReadingOK' /\ WorkOK'
  BY <1>0, <1>10 DEF Crash, ReadingOK, WorkOK, Idle, NoReview
<1>11. ASSUME NEW r \in Refs, ReadUpload(r) \/ ReadStored(r) \/ ReadFails(r)
                             \/ Overwrite(r) \/ Summarise(r)
       PROVE  Asked /\ review' = review /\ case' = case
  BY <1>11 DEF ReadUpload, ReadStored, ReadFails, Overwrite, Summarise
<1>12. ASSUME Register \/ WriteDossier \/ RegisterDossier
       PROVE  left' = left /\ review' = review /\ case' = case
  BY <1>12 DEF Register, WriteDossier, RegisterDossier
<1>13. left \in 0..MaxOps
  BY <1>0 DEF WorkOK
<1>14. CASE \E r \in Refs : ReadUpload(r)
  BY <1>14, <1>1, <1>11, <1>C, <1>M, <1>W, <1>L DEF ReadUpload
<1>15. CASE \E r \in Refs : ReadStored(r)
  BY <1>15, <1>2, <1>11, <1>C, <1>M, <1>W, <1>L, <1>F DEF ReadStored
<1>16. CASE \E r \in Refs : ReadFails(r)
  BY <1>16, <1>3, <1>11, <1>C, <1>M, <1>W, <1>L, <1>R DEF ReadFails
<1>17. CASE \E r \in Refs : Overwrite(r)
  BY <1>17, <1>4, <1>11, <1>C, <1>M, <1>W, <1>L DEF Overwrite
<1>18. CASE \E r \in Refs : Summarise(r)
  BY <1>18, <1>5, <1>11, <1>C, <1>W, <1>L, <1>F, <1>R DEF Summarise
<1>19. CASE Register
  BY <1>19, <1>7, <1>12, <1>13, <1>C, <1>W, <1>F DEF Register
<1>20. CASE WriteDossier
  BY <1>20, <1>8, <1>12, <1>13, <1>C, <1>M, <1>W DEF WriteDossier
<1>21. CASE RegisterDossier
  BY <1>21, <1>9, <1>12, <1>13, <1>C, <1>W, <1>F DEF RegisterDossier
<1>22. CASE Crash
  BY <1>22, <1>10, <1>C, <1>M, <1>F DEF Crash
<1> QED
  BY <1>14, <1>15, <1>16, <1>17, <1>18, <1>19, <1>20, <1>21, <1>22

\* What a patch asked for without evidence, or brought along, is of known shape.
LEMMA AsksTyped ==
    /\ NoRequest.add \in Seq(ReqIds) /\ \A ask \in Requests : ask.add \in Seq(ReqIds)
    /\ \A p \in Offered : <<p>> \in Seq(Offered)
    /\ <<>> \in Seq(Offered)
BY OfferAssumption DEF NoRequest

\* The steps that load the case
LEMMA CaseSteps ==
    ASSUME CaseTypeOK,
           \/ Load \/ ApplyReview
           \/ \E p \in Packets : ApplyPatch(<<p>>, NoRequest)
           \/ \E ask \in Requests : ApplyPatch(<<>>, ask)
           \/ \E p \in Reviewed, complete \in BOOLEAN : StartReview(<<p>>, complete)
    PROVE  CaseTypeOK' /\ Stays(man, man')
<1> DEFINE l == Refresh(case, man)
<1>0. /\ FilesOK /\ ReadingOK /\ WorkOK /\ MayLeave(man, case) /\ MayLeave(l.man, l.case)
  BY CaseTypeParts, LoadLeaves
<1>1. SUFFICES FilesOK' /\ ReadingOK' /\ WorkOK' /\ MayLeave(man', case')
  <2>1. MayLeave(man', case') => ManOK(man)' /\ CaseTyped(case)' /\ Stays(man, man')
    BY DEF MayLeave, ManOK, CaseTyped, CaseOK, EvOK, ReqOK
  <2> QED
    BY <2>1, CaseTypeParts, PTL
<1>F. file' = file /\ dossier' = dossier /\ failed' = failed => FilesOK'
  BY <1>0 DEF FilesOK, Versions
<1>R. reading' = reading /\ file' = file => ReadingOK'
  BY <1>0 DEF ReadingOK, Versions
<1>W. review'.items \in Seq(Offered) /\ left' \in 0..MaxOps => WorkOK'
  BY DEF WorkOK
<1>I. review.items \in Seq(Offered) /\ left \in 0..MaxOps /\ (Asked => left' \in 0..MaxOps)
  BY <1>0, OfferAssumption DEF WorkOK, Asked
<1> HIDE DEF l
<1>2. ASSUME NEW items \in Seq(Offered), NEW ask, ask.add \in Seq(ReqIds), ApplyPatch(items, ask)
      PROVE  MayLeave(man', case')
  <2> DEFINE p == Patched(l.case, items, ask, NoArtifact)
             f == Refresh(p.case, l.man)
  <2>1. Len(p.case.ev) <= MaxItems /\ (IF p.ok THEN WriteBoth(l, f) ELSE Refused(l))
    BY <1>2 DEF ApplyPatch, l
  <2>2. MayLeave(f.man, f.case)
    BY <1>2, <2>1, PatchLeaves DEF l
  <2> HIDE DEF p, f
  <2>3. CASE Refused(l)
    BY <1>0, <2>3 DEF Refused
  <2>4. CASE WriteBoth(l, f)
    BY <1>0, <2>2, <2>4 DEF WriteBoth, MayLeave
  <2> QED
    BY <2>1, <2>3, <2>4
<1>3. ASSUME ApplyReview PROVE MayLeave(man', case')
  <2> DEFINE p == Patched(l.case, review.items, NoRequest, review.artifact)
             f == Refresh(p.case, l.man)
  <2>1. /\ Len(p.case.ev) <= MaxItems
        /\ IF ~p.ok THEN Refused(l)
           ELSE IF f.case.compiled THEN WriteBoth(l, f)
           ELSE man' = f.man /\ case' = l.case
    BY <1>3 DEF ApplyReview, l
  <2>2. MayLeave(f.man, f.case)
    BY <1>I, <2>1, AsksTyped, PatchLeaves DEF l
  <2> HIDE DEF p, f
  <2>3. CASE Refused(l)
    BY <1>0, <2>3 DEF Refused
  <2>4. CASE WriteBoth(l, f)
    BY <1>0, <2>2, <2>4 DEF WriteBoth, MayLeave
  <2>5. CASE man' = f.man /\ case' = l.case
    BY <1>0, <2>2, <2>5 DEF MayLeave
  <2> QED
    BY <2>1, <2>3, <2>4, <2>5
<1>4. CASE Load
  <2>1. man' = l.man /\ case' = l.case
    BY <1>4 DEF Load, l
  <2> QED
    BY <1>4, <1>0, <1>F, <1>R, <1>W, <1>I, <2>1 DEF Load
<1>5. CASE ApplyReview
  <2>1. review'.items \in Seq(Offered)
    BY <1>5 DEF ApplyReview, NoReview
  <2> QED
    BY <1>5, <1>3, <1>F, <1>R, <1>W, <1>I, <2>1 DEF ApplyReview
<1>6. CASE \E p \in Packets : ApplyPatch(<<p>>, NoRequest)
  <2>1. PICK p \in Packets : ApplyPatch(<<p>>, NoRequest)
    BY <1>6
  <2>2. MayLeave(man', case')
    BY <1>2, <2>1, AsksTyped DEF Offered
  <2> QED
    BY <2>1, <2>2, <1>F, <1>R, <1>W, <1>I DEF ApplyPatch
<1>7. CASE \E ask \in Requests : ApplyPatch(<<>>, ask)
  <2>1. PICK ask \in Requests : ApplyPatch(<<>>, ask)
    BY <1>7
  <2>2. MayLeave(man', case')
    BY <1>2, <2>1, AsksTyped
  <2> QED
    BY <2>1, <2>2, <1>F, <1>R, <1>W, <1>I DEF ApplyPatch
<1>8. CASE \E p \in Reviewed, complete \in BOOLEAN : StartReview(<<p>>, complete)
  <2>1. PICK p \in Reviewed, complete \in BOOLEAN : StartReview(<<p>>, complete)
    BY <1>8
  <2>2. man' = l.man /\ case' = l.case
    BY <2>1 DEF StartReview, l
  <2>3. \E artifact : review' = [items |-> <<p>>, artifact |-> artifact]
    BY <2>1, Zenon DEF StartReview
  <2>4. review'.items \in Seq(Offered)
    BY <2>3, AsksTyped DEF Offered
  <2> QED
    BY <1>0, <2>1, <2>2, <2>4, <1>F, <1>R, <1>W, <1>I DEF StartReview
<1> QED
  BY <1>4, <1>5, <1>6, <1>7, <1>8

LEMMA CaseStep ==
    ASSUME CaseTypeOK, [CaseNext]_caseVars PROVE CaseTypeOK' /\ Stays(man, man')
<1>1. CASE UNCHANGED caseVars
  BY <1>1 DEF caseVars, CaseTypeOK, CaseOK, EvOK, ReqOK, ManOK, Versions, Stays
<1>2. CASE CaseNext
  BY <1>2, ReadingSteps, CaseSteps DEF CaseNext
<1> QED
  BY <1>1, <1>2

-----------------------------------------------------------------------------
(* The theorems of the case file.                                          *)

\* The two files stay as they have to be: entries of known shape with existing bytes,
\* evidence with distinct ids, conclusions required and with their premises
\* (CaseStore._load, _apply_patch, _refresh_requirements).
THEOREM CaseTypeCorrect == CaseSpec => []CaseTypeOK
<1>1. CaseInit => CaseTypeOK
  BY CaseStarts
<1>2. CaseTypeOK /\ [CaseNext]_caseVars => CaseTypeOK'
  BY CaseStep
<1> QED
  BY <1>1, <1>2, PTL DEF CaseSpec

\* An original once quarantined stays so, whatever is read, summarised, patched or
\* reviewed afterwards, and whichever write a crash keeps from happening (_merge_status).
THEOREM QuarantineLasts == CaseSpec => QuarantineHolds
<1>1. CaseInit => CaseTypeOK
  BY CaseStarts
<1>2. CaseTypeOK /\ [CaseNext]_caseVars => CaseTypeOK'
  BY CaseStep
<1>3. CaseTypeOK /\ [CaseNext]_caseVars =>
        [\A r \in DOMAIN man :
           man[r].status = "quarantined" => r \in DOMAIN man' /\ man'[r].status = "quarantined"]_caseVars
  BY CaseStep DEF Stays
<1> QED
  BY <1>1, <1>2, <1>3, PTL DEF CaseSpec, QuarantineHolds

\* Loading a case twice in a row is loading it once, as long as no document has two
\* corrections or no correction is corrected (_load, link_manifest_evidence,
\* _apply_supersession_metadata).
THEOREM RefreshIsStable ==
    ASSUME SimpleCorrections PROVE CaseSpec => []RefreshStable
<1>1. CaseTypeOK => RefreshStable
  BY RefreshSettles DEF CaseTypeOK, RefreshStable, Fresh
<1> QED
  BY <1>1, CaseTypeCorrect, PTL

\* What a refreshed case counts is in it, trusted, and not superseded.
LEMMA CountedIs ==
    ASSUME NEW c, NEW m, CaseOK(c), ManOK(m), NEW n, n = Refresh(c, m)
    PROVE  /\ EvOK(n.case.ev) /\ ManOK(n.man) /\ n.man = Link(m, failed, c.ev)
           /\ n.active = Active(n.case.ev, TrustedNow(c, m))
           /\ \A i \in DOMAIN n.case.ev :
                n.case.ev[i].id \in TrustedNow(c, m)
                  => Trusts(n.man, failed, file, dossier, n.case.ev[i])
           /\ \A x \in n.active : /\ x \in ToSet(n.case.ev) /\ x \in Item
                                  /\ x.id \in TrustedNow(c, m)
                                  /\ Trusts(n.man, failed, file, dossier, x)
<1> DEFINE T == TrustedNow(c, m)
<1>1. Refreshed(n, c, m) /\ EvOK(c.ev) /\ EvOK(n.case.ev) /\ ManOK(n.man)
  BY RefreshIs, RefreshKeeps DEF CaseOK
<1>2. n.man = Link(m, failed, c.ev) /\ n.case.ev = Marked(c.ev, T) /\ n.active = Active(n.case.ev, T)
  BY <1>1 DEF Refreshed, LinkedTo
<1>3. T = Trusted(n.man, failed, file, dossier, n.case.ev)
  <2>1. T = Trusted(n.man, failed, file, dossier, c.ev)
    BY <1>2 DEF TrustedNow, LinkedTo
  <2> HIDE DEF T
  <2> QED
    BY <1>1, <1>2, <2>1, MarkedTrusted
<1> HIDE DEF T
<1>4. \A i \in DOMAIN n.case.ev :
        n.case.ev[i].id \in T => Trusts(n.man, failed, file, dossier, n.case.ev[i])
  BY <1>1, <1>3, TrustedById
<1>5. \A i \in DOMAIN n.case.ev : n.case.ev[i] \in Item
  BY <1>1, MarkedIs
<1>6. ASSUME NEW x \in n.active
      PROVE  /\ x \in ToSet(n.case.ev) /\ x \in Item /\ x.id \in T
             /\ Trusts(n.man, failed, file, dossier, x)
  <2>1. x \in ToSet(n.case.ev) /\ x.id \in T
    BY <1>2, <1>6 DEF Active
  <2>2. PICK i \in DOMAIN n.case.ev : x = n.case.ev[i]
    BY <2>1 DEF ToSet
  <2> QED
    BY <1>4, <1>5, <2>1, <2>2
<1> QED
  BY <1>1, <1>2, <1>4, <1>6 DEF T

\* A document and its correction are counted together only when the document has another
\* correction the case trusts (_supersession_map, _active_evidence_items).
THEOREM CorrectionsReplace == CaseSpec => []CorrectionReplaces
<1>1. ASSUME CaseTypeOK PROVE CorrectionReplaces
  <2> DEFINE n == Fresh
             T == TrustedNow(case, man)
             ev == n.case.ev
  <2> SUFFICES ASSUME NEW x \in n.active, NEW y \in n.active, Corrects(y, x)
               PROVE  \E z \in ToSet(ev) \ {y} :
                        Corrects(z, x) /\ Trusts(n.man, failed, file, dossier, z)
    BY DEF CorrectionReplaces
  <2>1. CaseOK(case) /\ ManOK(man) /\ n = Refresh(case, man)
    BY <1>1 DEF CaseTypeOK, Fresh
  <2> HIDE DEF n
  <2>2. /\ EvOK(ev) /\ n.active = Active(ev, T)
        /\ \A i \in DOMAIN ev : ev[i].id \in T => Trusts(n.man, failed, file, dossier, ev[i])
        /\ x \in ToSet(ev) /\ y \in ToSet(ev) /\ y.id \in T
    BY <2>1, CountedIs
  <2> HIDE DEF T
  <2>3. PICK j \in DOMAIN ev : y = ev[j]
    BY <2>2 DEF ToSet
  <2>4. j \in Replacements(ev, T, x)
    BY <2>2, <2>3 DEF Replacements, CanReplace, Corrects
  <2>5. x \notin Superseded(ev, T)
    BY <2>2 DEF Active
  <2>6. Replacements(ev, T, x) # {j}
    BY <2>2, <2>5, SupersededBy
  <2>7. PICK k \in Replacements(ev, T, x) : k # j
    BY <2>4, <2>6
  <2>8. k \in DOMAIN ev /\ ev[k] # y /\ Corrects(ev[k], x) /\ ev[k].id \in T
    BY <2>2, <2>3, <2>7 DEF Replacements, CanReplace, Corrects, EvOK
  <2>9. ev[k] \in ToSet(ev) \ {y} /\ Trusts(n.man, failed, file, dossier, ev[k])
    BY <2>2, <2>8 DEF ToSet
  <2> QED
    BY <2>8, <2>9
<1> QED
  BY <1>1, CaseTypeCorrect, PTL

\* The entry an item is bound to is the only one it finds.
LEMMA FindsOne ==
    ASSUME NEW m, ManOK(m), NEW b, NEW x, NEW r \in Precise(m, b, x), NEW s \in Precise(m, b, x)
    PROVE  r = s
<1>1. Precise(m, b, x) = Matches(m, x) /\ Cardinality(Matches(m, x)) = 1
  BY DEF Precise
<1>2. IsFiniteSet(Matches(m, x))
  <2>1. Precise(m, b, x) \in SUBSET Refs
    BY FindsKnown DEF ManOK
  <2> QED
    BY <1>1, <2>1, ManifestAssumption, FS_Subset
<1>3. PICK z : Matches(m, x) = {z}
  BY <1>1, <1>2, FS_Singleton
<1> QED
  BY <1>1, <1>3

\* A case that loads as ready rests on what is there now: an artifact that decides every
\* required requirement and speaks of exactly the evidence the case counts, none of it
\* from an original that was rewritten, excluded or quarantined since
\* (_refresh_requirements, trusted_sources_for_evidence).
THEOREM ReadyStaysCurrent == CaseSpec => []ReadyIsCurrent
<1>1. ASSUME CaseTypeOK PROVE ReadyIsCurrent
  <2> DEFINE n == Fresh
  <2> SUFFICES ASSUME n.case.status = "ready"
               PROVE  /\ \A q \in DOMAIN n.case.req : n.case.req[q] => q \in case.artifact.decided
                      /\ case.artifact.complete
                      /\ {p[1] : p \in case.artifact.prints} = {x.id : x \in n.active}
                      /\ \A x \in n.active :
                           /\ <<x.id, x.source, x.text>> \in case.artifact.prints
                           /\ \A r \in Precise(man, failed, x) :
                                man[r].status \notin {"excluded", "quarantined"}
                           /\ x.by = "id" => file[x.ref] = x.version
    BY DEF ReadyIsCurrent
  <2>1. CaseOK(case) /\ ManOK(man) /\ n = Refresh(case, man) /\ Refreshed(n, case, man)
    BY <1>1, RefreshIs DEF CaseTypeOK, Fresh
  <2> HIDE DEF n
  <2>2. n.case.compiled /\ DecisionReady(case.artifact, n.case.req)
    BY <2>1 DEF Refreshed
  <2>3. case.artifact.prints = {<<x.id, x.source, x.text>> : x \in n.active}
    BY <2>1, <2>2 DEF Refreshed, Fits, Prints
  <2>4. {p[1] : p \in case.artifact.prints} = {x.id : x \in n.active}
    <3>1. \A p \in case.artifact.prints : \E x \in n.active : p[1] = x.id
      BY <2>3
    <3>2. \A x \in n.active : \E p \in case.artifact.prints : p[1] = x.id
      <4> TAKE x \in n.active
      <4>1. <<x.id, x.source, x.text>> \in case.artifact.prints
        BY <2>3
      <4>2. <<x.id, x.source, x.text>>[1] = x.id
        OBVIOUS
      <4> QED
        BY <4>1, <4>2
    <3> QED
      BY <3>1, <3>2
  <2>5. ASSUME NEW x \in n.active
        PROVE  /\ \A r \in Precise(man, failed, x) :
                    man[r].status \notin {"excluded", "quarantined"}
               /\ x.by = "id" => file[x.ref] = x.version
    <3>1. ManOK(n.man) /\ n.man = Link(man, failed, case.ev)
          /\ Trusts(n.man, failed, file, dossier, x)
      BY <2>1, CountedIs
    <3>2. /\ DOMAIN n.man = DOMAIN man
          /\ \A r \in DOMAIN man : /\ n.man[r].version = man[r].version
                                   /\ Level(n.man[r].status) >= Level(man[r].status)
      BY <2>1, <3>1, LinkKeeps DEF CaseOK, EvOK
    <3>3. Precise(n.man, failed, x) = Precise(man, failed, x)
      BY <3>2, FindsAlike
    <3>4. PICK r \in Precise(n.man, failed, x) :
            n.man[r].status \in Believed /\ file[r] = n.man[r].version
      BY <3>1 DEF Trusts
    <3>5. ASSUME NEW s \in Precise(man, failed, x)
          PROVE  man[s].status \notin {"excluded", "quarantined"}
      <4>1. s = r /\ s \in DOMAIN man
        BY <3>1, <3>2, <3>3, <3>4, FindsOne, FindsKnown
      <4>2. Level(n.man[s].status) >= Level(man[s].status) /\ n.man[s].status \in Believed
        BY <3>2, <3>4, <4>1
      <4> QED
        BY <4>2 DEF Level, Believed
    <3>6. ASSUME x.by = "id" PROVE file[x.ref] = x.version
      <4>1. r \in Matches(n.man, x)
        BY <3>4 DEF Precise
      <4>2. r = x.ref /\ n.man[r].version = x.version
        BY <3>6, <4>1 DEF Matches
      <4> QED
        BY <3>4, <4>2
    <3> QED
      BY <3>5, <3>6
  <2> QED
    BY <2>2, <2>3, <2>4, <2>5 DEF DecisionReady
<1> QED
  BY <1>1, CaseTypeCorrect, PTL

\* Once a piece of evidence finds its original out of place, nothing from that original
\* counts, in whatever order the pieces came (link_manifest_evidence, _merge_status).
THEOREM ExcludedNeverCounts == CaseSpec => []ExcludedTogether
<1>1. ASSUME CaseTypeOK PROVE ExcludedTogether
  <2> DEFINE n == Fresh
  <2> SUFFICES ASSUME NEW y \in ToSet(n.case.ev), NEW x \in n.active, StatusFrom(y) = "excluded",
                      NEW r \in Linked(man, failed, y), r \in Precise(man, failed, x)
               PROVE  FALSE
    BY DEF ExcludedTogether
  <2>1. CaseOK(case) /\ ManOK(man) /\ n = Refresh(case, man) /\ Refreshed(n, case, man)
    BY <1>1, RefreshIs DEF CaseTypeOK, Fresh
  <2> HIDE DEF n
  <2>2. EvOK(case.ev) /\ Len(case.ev) \in Nat /\ DOMAIN case.ev = 1..Len(case.ev)
    BY <2>1 DEF CaseOK, EvOK
  <2>3. ManOK(n.man) /\ n.man = Link(man, failed, case.ev)
        /\ Trusts(n.man, failed, file, dossier, x)
    BY <2>1, CountedIs
  <2>4. DOMAIN n.man = DOMAIN man /\ \A s \in DOMAIN man : n.man[s].version = man[s].version
    BY <2>1, <2>2, <2>3, LinkKeeps
  <2>5. r \in DOMAIN man /\ n.man[r].status \in Believed
    <3>1. Precise(n.man, failed, x) = Precise(man, failed, x)
      BY <2>4, FindsAlike
    <3>2. PICK s \in Precise(n.man, failed, x) : n.man[s].status \in Believed
      BY <2>3 DEF Trusts
    <3>3. r = s
      BY <2>3, <3>1, <3>2, FindsOne
    <3> QED
      BY <3>2, <3>3, FindsKnown
  <2>6. PICK i \in 1..Len(case.ev) : StatusFrom(case.ev[i]) = "excluded" /\ r \in Linked(man, failed, case.ev[i])
    <3>1. PICK i \in DOMAIN n.case.ev : y = n.case.ev[i]
      BY DEF ToSet
    <3>2. n.case.ev = Marked(case.ev, TrustedNow(case, man))
      BY <2>1 DEF Refreshed
    <3>3. i \in 1..Len(case.ev) /\ case.ev[i] \in Item /\ y \in {case.ev[i], Past(case.ev[i])}
      BY <2>2, <3>1, <3>2, MarkedIs
    <3> QED
      BY <3>3, PastFindsTheSame
  <2>7. Level(n.man[r].status) >= Level("excluded")
    BY <2>1, <2>2, <2>3, <2>5, <2>6, LinkHears
  <2> QED
    BY <2>5, <2>7 DEF Level, Believed
<1> QED
  BY <1>1, CaseTypeCorrect, PTL

(***************************************************************************)
(* The CHECK transaction.                                                  *)
(***************************************************************************)

\* The candidate is about to be judged, or was.
Judged == pc \in {"verify", "kernel", "committed"} \/ (pc = "start" /\ owner = "verifier")

-----------------------------------------------------------------------------
(* The inductive invariant                                                 *)

\* Who refers to which sandbox: the conversation never holds the committed
\* one, and a candidate came out of the conversation.
Sharing ==
    /\ conv \in {"none", "copy"}
    /\ cand # "none" => conv # "none"

\* Submissions are only ever added to the copy, and those the candidate does
\* not show have been thrown away.
Submissions ==
    /\ heap["copy"].subs >= heap["base"].subs
    /\ cand # "copy" => heap["copy"].subs = heap["base"].subs

\* What the Verifier is asked about is private, new and not refused before.
JudgedIsNew ==
    Judged => /\ cand = "copy"
              /\ heap["copy"].subs > heap["base"].subs
              /\ heap["copy"].version \notin rejected

\* The first attempt, and every call of execute_plan, is the Executor's.
Turns ==
    /\ attempt = 0 => owner = "executor" /\ pc \notin {"execute", "verify", "kernel"}
    /\ pc = "execute" => owner = "executor"

\* Nothing is written between the assessment and the commit.
AssessedIsCurrent == pc \in {"kernel", "committed"} => heap[cand].version = assessed

\* A version is given out once.
GivenOnce ==
    /\ \A o \in Object : heap[o].version <= clock
    /\ \A v \in rejected : v <= clock

\* An attempt costs at most one call of each phase.
CallsLeft ==
    /\ pc \in {"start", "kernel"} => remaining + 2 * attempt >= Budget
    /\ pc = "verify" => remaining + 2 * attempt >= Budget + 1
    /\ pc = "execute" => remaining + 2 * attempt >= Budget + 2

IInv ==
    /\ TypeOK /\ Sharing /\ Submissions /\ JudgedIsNew
    /\ Turns /\ AssessedIsCurrent /\ GivenOnce /\ CallsLeft

LEMMA IInvInit == Init => IInv
<1> SUFFICES ASSUME Init PROVE IInv
  OBVIOUS
<1>1. TypeOK
  BY FrontierAssumption DEF Init, TypeOK, PC, Final, Object, Sandbox
<1>2. Sharing /\ Submissions /\ JudgedIsNew /\ Turns /\ AssessedIsCurrent
  BY DEF Init, Sharing, Submissions, JudgedIsNew, Judged, Turns, AssessedIsCurrent, Object
<1>3. GivenOnce
  BY DEF Init, GivenOnce
<1>4. CallsLeft
  BY FrontierAssumption DEF Init, CallsLeft
<1> QED
  BY <1>1, <1>2, <1>3, <1>4 DEF IInv

-----------------------------------------------------------------------------
(* Steps that several actions share                                        *)

\* A write of the Executor's tools goes to the copy and to nothing else.
LEMMA WriteCopies ==
    ASSUME IInv, NEW n \in Nat, NEW wrote \in BOOLEAN, Write(n, wrote)
    PROVE  /\ conv' = "copy" /\ heap' \in [Object -> Sandbox] /\ clock' \in Nat
           /\ heap'["base"] = heap["base"]
           /\ heap'["copy"].subs = heap["copy"].subs + n
           /\ clock' >= clock /\ heap'["copy"].version <= clock'
           /\ wrote => heap'["copy"].version > clock
           /\ n > 0 => wrote
           /\ Written(n, wrote) = heap'["copy"]
<1>1. OpenConversation = "copy" /\ "copy" \in Object /\ "base" \in Object
  BY DEF IInv, Sharing, OpenConversation, Object
<1>2. /\ heap["copy"] \in Sandbox /\ heap["base"] \in Sandbox /\ clock \in Nat
      /\ heap["copy"].version \in Nat /\ heap["copy"].subs \in Nat
  BY <1>1 DEF IInv, TypeOK, Sandbox
<1>3. /\ Written(n, wrote) \in Sandbox
      /\ Written(n, wrote).subs = heap["copy"].subs + n
      /\ Written(n, wrote).version = IF wrote THEN clock + 1 ELSE heap["copy"].version
  BY <1>1, <1>2 DEF Written, Sandbox
<1>4. heap' = [heap EXCEPT !["copy"] = Written(n, wrote)] /\ conv' = "copy"
  BY <1>1 DEF Write
<1>5. heap'["copy"] = Written(n, wrote) /\ heap'["base"] = heap["base"]
  BY <1>1, <1>4 DEF IInv, TypeOK
<1>6. heap["copy"].version <= clock
  BY <1>1 DEF IInv, GivenOnce
<1> QED
  BY <1>1, <1>2, <1>3, <1>4, <1>5, <1>6 DEF Write, IInv, TypeOK

\* The gate only sends a candidate back to the Verifier or to the Executor.
LEMMA RepairOwnerType == \A failures : RepairOwner(failures) \in {"executor", "verifier"}
  BY DEF RepairOwner

\* A step that charges nothing back and ends the transaction, or leads to its
\* end, keeps the invariant whatever was written.
LEMMA Ending ==
    ASSUME IInv, pc' \in {"rollback", "rolled_back", "paused"},
           UNCHANGED <<attempt, owner, feedback, remaining, heap, conv, cand,
                       assessed, rejected, clock>>
    PROVE  IInv'
<1>1. TypeOK'
  BY DEF IInv, TypeOK, PC, Final
<1>2. Sharing' /\ Submissions' /\ JudgedIsNew' /\ Turns' /\ AssessedIsCurrent'
  BY DEF IInv, Sharing, Submissions, JudgedIsNew, Judged, Turns, AssessedIsCurrent
<1>3. GivenOnce' /\ CallsLeft'
  BY DEF IInv, GivenOnce, CallsLeft
<1> QED
  BY <1>1, <1>2, <1>3 DEF IInv

-----------------------------------------------------------------------------
(* One lemma for every phase                                               *)

LEMMA StartKeeps == IInv /\ StartAttempt => IInv'
<1> SUFFICES ASSUME IInv, StartAttempt PROVE IInv'
  OBVIOUS
<1>1. /\ attempt \in Nat /\ Cap \in Nat /\ attempt < Cap /\ attempt' = attempt + 1
      /\ remaining \in Nat /\ Budget \in Nat
  BY FrontierAssumption DEF IInv, TypeOK, StartAttempt
<1>2. pc' \in {"execute", "verify", "start"}
  BY DEF StartAttempt
<1>3. TypeOK'
  BY <1>1, <1>2 DEF IInv, TypeOK, StartAttempt, PC
<1>4. owner = "verifier" => cand = "copy"
  BY DEF IInv, JudgedIsNew, Judged, StartAttempt
<1>5. pc' = "execute" <=> owner = "executor"
  BY <1>4 DEF IInv, TypeOK, Turns, StartAttempt
<1>6. Sharing' /\ Submissions' /\ JudgedIsNew' /\ AssessedIsCurrent' /\ GivenOnce'
  BY <1>2, <1>5
  DEF IInv, TypeOK, Sharing, Submissions, JudgedIsNew, Judged, AssessedIsCurrent,
      GivenOnce, StartAttempt
<1>7. Turns'
  BY <1>1, <1>5 DEF Turns, StartAttempt
<1>8. CallsLeft'
  BY <1>1, <1>2 DEF IInv, CallsLeft, StartAttempt
<1> QED
  BY <1>3, <1>6, <1>7, <1>8 DEF IInv

LEMMA ReturnsKeeps == IInv /\ ExecutorReturns => IInv'
<1> SUFFICES ASSUME IInv, ExecutorReturns PROVE IInv'
  OBVIOUS
<1>1. PICK n \in 0 .. MaxSubmit, wrote \in BOOLEAN :
        /\ Write(n, wrote)
        /\ IF Submitted(n, wrote) THEN pc' = "verify" /\ UNCHANGED <<owner, feedback>>
           ELSE Retry("executor")
  BY DEF ExecutorReturns
<1>2. n \in Nat /\ pc = "execute" /\ owner = "executor"
  BY FrontierAssumption DEF ExecutorReturns, MayExecute, IInv, Turns
<1>3. /\ conv' = "copy" /\ heap' \in [Object -> Sandbox] /\ clock' \in Nat
      /\ heap'["base"] = heap["base"]
      /\ heap'["copy"].subs = heap["copy"].subs + n
      /\ clock' >= clock /\ heap'["copy"].version <= clock'
      /\ wrote => heap'["copy"].version > clock
      /\ n > 0 => wrote
      /\ Written(n, wrote) = heap'["copy"]
  BY <1>1, <1>2, WriteCopies
<1>4. cand' = "copy" /\ attempt' = attempt /\ assessed' = assessed /\ rejected' = rejected
  BY DEF ExecutorReturns, OpenConversation, IInv, Sharing
<1>5. /\ remaining' = remaining - 1 /\ remaining > 0 /\ remaining \in Nat /\ remaining' \in Nat
      /\ Budget \in Nat /\ attempt \in Nat
      /\ remaining' + 2 * attempt >= Budget + 1
  BY FrontierAssumption, <1>2 DEF ExecutorReturns, CallModel, IInv, TypeOK, CallsLeft
<1>6. "copy" \in Object /\ "base" \in Object
  BY DEF Object
<1>7. /\ heap["copy"].subs \in Nat /\ heap["base"].subs \in Nat
      /\ heap["copy"].version \in Nat /\ heap["base"].version \in Nat
      /\ clock \in Nat /\ rejected \subseteq Nat
  BY <1>6 DEF IInv, TypeOK, Sandbox
<1>8. ExecutorBase \in {"base", "copy"} /\ heap[ExecutorBase].subs \in Nat
      /\ heap[ExecutorBase].subs >= heap["base"].subs
      /\ (ExecutorBase = "base" => heap["copy"].subs = heap["base"].subs)
  BY <1>7 DEF ExecutorBase, IInv, TypeOK, Object, Submissions
<1>9. Submitted(n, wrote) => n > 0
  BY <1>2, <1>3, <1>7, <1>8 DEF Submitted
<1>10. \/ pc' = "verify" /\ owner' = owner /\ feedback' = feedback /\ n > 0
       \/ pc' = "start" /\ owner' = "executor" /\ feedback' = TRUE
  BY <1>1, <1>9 DEF Retry
<1>11. TypeOK'
  <2>1. owner \in {"executor", "verifier"} /\ feedback \in BOOLEAN
        /\ remaining \in 0 .. Budget /\ attempt' \in 0 .. Cap /\ assessed' \in Nat
        /\ rejected' \subseteq Nat
    BY <1>4 DEF IInv, TypeOK
  <2>2. pc' \in PC /\ owner' \in {"executor", "verifier"} /\ feedback' \in BOOLEAN
    BY <1>10, <2>1 DEF PC
  <2>3. remaining' \in 0 .. Budget
    BY <1>5, <2>1
  <2> QED
    BY <1>3, <1>4, <1>6, <2>1, <2>2, <2>3 DEF TypeOK
<1>12. Sharing' /\ Submissions'
  BY <1>2, <1>3, <1>4, <1>7 DEF IInv, Sharing, Submissions
<1>13. JudgedIsNew'
  <2> SUFFICES ASSUME Judged' PROVE /\ cand' = "copy" /\ heap'["copy"].subs > heap'["base"].subs
                                    /\ heap'["copy"].version \notin rejected'
    BY DEF JudgedIsNew
  <2>1. n > 0
    BY <1>10 DEF Judged
  <2>2. heap["copy"].subs >= heap["base"].subs /\ \A v \in rejected : v <= clock
    BY DEF IInv, Submissions, GivenOnce
  <2>3. heap'["copy"].subs > heap'["base"].subs
    BY <2>1, <2>2, <1>2, <1>3, <1>7
  <2>4. heap'["copy"].version > clock /\ heap'["copy"].version \in Nat
    BY <2>1, <1>3, <1>6 DEF Sandbox
  <2> QED
    BY <2>2, <2>3, <2>4, <1>4, <1>7
<1>14. Turns' /\ AssessedIsCurrent'
  BY <1>2, <1>4, <1>10 DEF IInv, Turns, AssessedIsCurrent
<1>15. GivenOnce'
  BY <1>3, <1>4, <1>7 DEF IInv, GivenOnce, Object
<1>16. CallsLeft'
  BY <1>4, <1>5, <1>10 DEF CallsLeft
<1> QED
  BY <1>11, <1>12, <1>13, <1>14, <1>15, <1>16 DEF IInv

LEMMA FailsKeeps == IInv /\ ExecutorFails => IInv'
<1> SUFFICES ASSUME IInv, ExecutorFails PROVE IInv'
  OBVIOUS
<1>1. PICK wrote \in BOOLEAN : Write(0, wrote)
  BY DEF ExecutorFails
<1>2. pc' = "start" /\ owner' = "executor" /\ feedback' = TRUE /\ pc = "execute"
  BY DEF ExecutorFails, Retry, MayExecute
<1>3. /\ conv' = "copy" /\ heap' \in [Object -> Sandbox] /\ clock' \in Nat
      /\ heap'["base"] = heap["base"]
      /\ heap'["copy"].subs = heap["copy"].subs + 0
      /\ clock' >= clock /\ heap'["copy"].version <= clock'
  BY <1>1, WriteCopies
<1>4. cand' = cand /\ attempt' = attempt /\ assessed' = assessed /\ rejected' = rejected
  BY DEF ExecutorFails
<1>5. /\ remaining' = remaining - 1 /\ remaining > 0 /\ remaining \in Nat
      /\ Budget \in Nat /\ attempt \in Nat
      /\ remaining' + 2 * attempt >= Budget + 1
  BY FrontierAssumption, <1>2 DEF ExecutorFails, CallModel, IInv, TypeOK, CallsLeft
<1>6. /\ heap["copy"].subs \in Nat /\ heap["base"].subs \in Nat
      /\ heap["base"].version \in Nat /\ clock \in Nat /\ rejected \subseteq Nat
  BY DEF IInv, TypeOK, Sandbox, Object
<1>7. TypeOK'
  BY <1>2, <1>3, <1>4, <1>5 DEF IInv, TypeOK, PC, Object
<1>8. Sharing' /\ Submissions'
  BY <1>3, <1>4, <1>6 DEF IInv, Sharing, Submissions
<1>9. JudgedIsNew' /\ Turns' /\ AssessedIsCurrent'
  BY <1>2 DEF JudgedIsNew, Judged, Turns, AssessedIsCurrent
<1>10. GivenOnce'
  BY <1>3, <1>4, <1>6 DEF IInv, GivenOnce, Object
<1>11. CallsLeft'
  BY <1>2, <1>4, <1>5 DEF CallsLeft
<1> QED
  BY <1>7, <1>8, <1>9, <1>10, <1>11 DEF IInv

LEMMA LeavesScopeKeeps == IInv /\ ExecutorLeavesScope => IInv'
<1> SUFFICES ASSUME IInv, ExecutorLeavesScope PROVE IInv'
  OBVIOUS
<1>1. pc' = "start" /\ owner' = "executor" /\ feedback' = TRUE /\ pc = "execute"
  BY DEF ExecutorLeavesScope, Retry, MayExecute
<1>2. /\ heap' \in [Object -> Sandbox]
      /\ heap'["copy"] = heap["base"] /\ heap'["base"] = heap["base"]
      /\ conv' = "copy" /\ cand' = "base" /\ clock' = clock + 1
      /\ attempt' = attempt /\ assessed' = assessed /\ rejected' = rejected
  BY DEF ExecutorLeavesScope, IInv, TypeOK, Object
<1>3. /\ remaining' = remaining - 1 /\ remaining > 0 /\ remaining \in Nat
      /\ Budget \in Nat /\ attempt \in Nat
      /\ remaining' + 2 * attempt >= Budget + 1
  BY FrontierAssumption, <1>1 DEF ExecutorLeavesScope, CallModel, IInv, TypeOK, CallsLeft
<1>4. /\ heap["base"].subs \in Nat /\ heap["base"].version \in Nat
      /\ clock \in Nat /\ rejected \subseteq Nat /\ heap["base"].version <= clock
  BY DEF IInv, TypeOK, Sandbox, Object, GivenOnce
<1>5. TypeOK'
  BY <1>1, <1>2, <1>3 DEF IInv, TypeOK, PC, Object
<1>6. Sharing' /\ Submissions'
  BY <1>2, <1>4 DEF Sharing, Submissions
<1>7. JudgedIsNew' /\ Turns' /\ AssessedIsCurrent'
  BY <1>1 DEF JudgedIsNew, Judged, Turns, AssessedIsCurrent
<1>8. GivenOnce'
  BY <1>2, <1>4 DEF IInv, GivenOnce, Object
<1>9. CallsLeft'
  BY <1>1, <1>2, <1>3 DEF CallsLeft
<1> QED
  BY <1>5, <1>6, <1>7, <1>8, <1>9 DEF IInv

LEMMA VerifierKeeps == IInv /\ Verifier => IInv'
<1> SUFFICES ASSUME IInv, Verifier PROVE IInv'
  OBVIOUS
<1>1. /\ pc = "verify" /\ cand = "copy" /\ heap["copy"].subs > heap["base"].subs
      /\ heap["copy"].version \notin rejected
  BY DEF Verifier, VerifierAssesses, VerifierRejects, VerifierFails, IInv, JudgedIsNew, Judged
<1>2. heap["copy"].version \in Nat /\ heap["copy"].version <= clock
  BY DEF IInv, TypeOK, Sandbox, Object, GivenOnce
<1>3. /\ remaining' = remaining - 1 /\ remaining > 0 /\ remaining \in Nat
      /\ Budget \in Nat /\ attempt \in Nat /\ attempt' = attempt
      /\ remaining' + 2 * attempt >= Budget
  BY FrontierAssumption, <1>1
  DEF Verifier, VerifierAssesses, VerifierRejects, VerifierFails, CallModel,
      IInv, TypeOK, CallsLeft
<1>r. remaining' \in 0 .. Budget
  BY <1>3 DEF IInv, TypeOK
<1>4. UNCHANGED <<heap, conv, cand, clock>>
  BY DEF Verifier, VerifierAssesses, VerifierRejects, VerifierFails
<1>5. Sharing' /\ Submissions'
  BY <1>4 DEF IInv, Sharing, Submissions
<1>6. CASE VerifierAssesses
  <2>1. TypeOK'
    BY <1>1, <1>2, <1>3, <1>r, <1>4, <1>6 DEF VerifierAssesses, IInv, TypeOK, PC
  <2>2. JudgedIsNew' /\ AssessedIsCurrent' /\ Turns' /\ GivenOnce'
    BY <1>1, <1>6
    DEF VerifierAssesses, IInv, JudgedIsNew, AssessedIsCurrent, Turns, GivenOnce
  <2>3. CallsLeft'
    BY <1>3, <1>6 DEF VerifierAssesses, CallsLeft
  <2> QED
    BY <2>1, <2>2, <2>3, <1>5 DEF IInv
<1>7. CASE VerifierRejects
  <2>1. TypeOK'
    <3>1. pc' \in PC /\ owner' \in {"executor", "verifier"} /\ feedback' \in BOOLEAN
      BY <1>7 DEF VerifierRejects, Retry, PC
    <3>2. rejected' \subseteq Nat /\ assessed' = assessed
      BY <1>1, <1>2, <1>7 DEF VerifierRejects, IInv, TypeOK
    <3> QED
      BY <1>3, <1>r, <1>4, <3>1, <3>2 DEF IInv, TypeOK
  <2>2. JudgedIsNew' /\ AssessedIsCurrent' /\ Turns'
    BY <1>7 DEF VerifierRejects, Retry, JudgedIsNew, Judged, AssessedIsCurrent, Turns
  <2>3. GivenOnce'
    BY <1>1, <1>2, <1>7 DEF VerifierRejects, IInv, GivenOnce
  <2>4. CallsLeft'
    BY <1>3, <1>7 DEF VerifierRejects, Retry, CallsLeft
  <2> QED
    BY <2>1, <2>2, <2>3, <2>4, <1>5 DEF IInv
<1>8. CASE VerifierFails
  <2>1. TypeOK'
    BY <1>3, <1>8 DEF VerifierFails, Retry, IInv, TypeOK, PC
  <2>2. JudgedIsNew' /\ AssessedIsCurrent' /\ Turns' /\ GivenOnce'
    BY <1>1, <1>8
    DEF VerifierFails, Retry, IInv, JudgedIsNew, AssessedIsCurrent, Turns, GivenOnce
  <2>3. CallsLeft'
    BY <1>3, <1>8 DEF VerifierFails, Retry, CallsLeft
  <2> QED
    BY <2>1, <2>2, <2>3, <1>5 DEF IInv
<1> QED
  BY <1>6, <1>7, <1>8 DEF Verifier

LEMMA ReplayKeeps == IInv /\ Replay => IInv'
<1> SUFFICES ASSUME IInv, Replay PROVE IInv'
  OBVIOUS
<1>1. /\ pc = "kernel" /\ cand = "copy" /\ heap["copy"].subs > heap["base"].subs
      /\ heap["copy"].version \notin rejected /\ heap["copy"].version = assessed
  BY DEF Replay, IInv, JudgedIsNew, Judged, AssessedIsCurrent
<1>2. heap["copy"].version \in Nat /\ heap["copy"].version <= clock
  BY DEF IInv, TypeOK, Sandbox, Object, GivenOnce
<1>3. UNCHANGED <<attempt, remaining, heap, conv, cand, assessed, clock>>
  BY DEF Replay
<1>4. \/ pc' \in {"committed", "fatal"} /\ UNCHANGED <<owner, feedback, rejected>>
      \/ /\ pc' = "start" /\ feedback' = TRUE
         /\ \/ owner' = "verifier" /\ rejected' = rejected
            \/ owner' = "executor" /\ rejected' = rejected \cup {assessed}
  <2>1. PICK failures : CASE failures = {} ->
                    pc' = "committed" /\ UNCHANGED <<owner, feedback, rejected>>
               [] \E d \in failures : d.node = "artifact" ->
                    pc' = "fatal" /\ UNCHANGED <<owner, feedback, rejected>>
               [] OTHER ->
                    /\ Retry(RepairOwner(failures))
                    /\ rejected' = IF RepairOwner(failures) = "executor"
                                   THEN rejected \cup {assessed} ELSE rejected
    BY DEF Replay
  <2>2. RepairOwner(failures) \in {"executor", "verifier"}
    BY RepairOwnerType
  <2>3. CASE failures = {}
    BY <2>1, <2>3
  <2>4. CASE failures # {} /\ \E d \in failures : d.node = "artifact"
    BY <2>1, <2>4
  <2>5. CASE failures # {} /\ ~ \E d \in failures : d.node = "artifact"
    BY <2>1, <2>2, <2>5 DEF Retry
  <2> QED
    BY <2>3, <2>4, <2>5
<1>5. TypeOK'
  <2>1. pc' \in PC /\ owner' \in {"executor", "verifier"} /\ feedback' \in BOOLEAN
    BY <1>4 DEF IInv, TypeOK, PC, Final
  <2>2. rejected' \subseteq Nat
    BY <1>4 DEF IInv, TypeOK
  <2> QED
    BY <1>3, <2>1, <2>2 DEF IInv, TypeOK
<1>6. remaining + 2 * attempt >= Budget
  BY <1>1 DEF IInv, CallsLeft
<1>7. Sharing' /\ Submissions'
  BY <1>3 DEF IInv, Sharing, Submissions
<1>8. JudgedIsNew' /\ Turns' /\ AssessedIsCurrent'
  BY <1>1, <1>3, <1>4
  DEF IInv, JudgedIsNew, Judged, Turns, AssessedIsCurrent
<1>9. GivenOnce'
  BY <1>1, <1>2, <1>3, <1>4 DEF IInv, GivenOnce
<1>10. CallsLeft'
  BY <1>3, <1>4, <1>6 DEF CallsLeft
<1> QED
  BY <1>5, <1>7, <1>8, <1>9, <1>10 DEF IInv

LEMMA FailKeeps == IInv /\ Fail => IInv'
<1> SUFFICES ASSUME IInv, Fail PROVE IInv'
  OBVIOUS
<1>1. /\ pc' = "fatal"
      /\ UNCHANGED <<attempt, owner, feedback, remaining, cand, assessed, rejected>>
  BY DEF Fail
<1>2. /\ heap' \in [Object -> Sandbox] /\ conv' \in {"none", "copy"} /\ clock' \in Nat
      /\ conv' = "none" => conv = "none"
      /\ heap'["base"] = heap["base"] /\ heap'["copy"].subs = heap["copy"].subs
      /\ clock' >= clock /\ \A o \in Object : heap'[o].version <= clock'
  <2>1. CASE MayExecute
    <3>1. PICK wrote \in BOOLEAN : Write(0, wrote)
      BY <2>1 DEF Fail
    <3>2. /\ conv' = "copy" /\ heap' \in [Object -> Sandbox] /\ clock' \in Nat
          /\ heap'["base"] = heap["base"]
          /\ heap'["copy"].subs = heap["copy"].subs + 0
          /\ clock' >= clock /\ heap'["copy"].version <= clock'
      BY <3>1, WriteCopies
    <3>3. /\ heap["copy"].subs \in Nat /\ clock \in Nat
          /\ heap["base"].version \in Nat /\ heap["base"].version <= clock
      BY DEF IInv, TypeOK, Sandbox, Object, GivenOnce
    <3> QED
      BY <3>2, <3>3 DEF Object
  <2>2. CASE ~MayExecute
    BY <2>2 DEF Fail, IInv, TypeOK, Sharing, GivenOnce
  <2> QED
    BY <2>1, <2>2
<1>3. TypeOK'
  BY <1>1, <1>2 DEF IInv, TypeOK, PC, Final, Object
<1>4. Sharing' /\ Submissions'
  BY <1>1, <1>2 DEF IInv, Sharing, Submissions
<1>5. JudgedIsNew' /\ Turns' /\ AssessedIsCurrent' /\ CallsLeft'
  BY <1>1 DEF IInv, JudgedIsNew, Judged, Turns, AssessedIsCurrent, CallsLeft
<1>6. GivenOnce'
  <2>1. clock \in Nat /\ rejected \subseteq Nat /\ clock' \in Nat /\ clock' >= clock
    BY <1>2 DEF IInv, TypeOK
  <2>2. rejected' = rejected /\ \A v \in rejected : v <= clock
    BY <1>1 DEF IInv, GivenOnce
  <2>3. \A v \in rejected' : v <= clock'
    BY <2>1, <2>2
  <2> QED
    BY <1>2, <2>3 DEF GivenOnce
<1> QED
  BY <1>3, <1>4, <1>5, <1>6 DEF IInv

LEMMA IInvNext == IInv /\ [Next]_vars => IInv'
<1> SUFFICES ASSUME IInv, [Next]_vars PROVE IInv'
  OBVIOUS
<1>1. CASE StartAttempt
  BY <1>1, StartKeeps
<1>2. CASE Executor
  BY <1>2, ReturnsKeeps, FailsKeeps, LeavesScopeKeeps DEF Executor
<1>3. CASE Verifier
  BY <1>3, VerifierKeeps
<1>4. CASE Replay
  BY <1>4, ReplayKeeps
<1>5. CASE BudgetExhausted
  BY <1>5, Ending DEF BudgetExhausted
<1>6. CASE AttemptsUsed
  BY <1>6, Ending DEF AttemptsUsed
<1>7. CASE RollBack
  BY <1>7, Ending DEF RollBack
<1>8. CASE Fail
  BY <1>8, FailKeeps
<1>9. CASE Pause
  BY <1>9, Ending DEF Pause
<1>10. CASE UNCHANGED vars
  BY <1>10
  DEF vars, IInv, TypeOK, Sharing, Submissions, JudgedIsNew, Judged, Turns,
      AssessedIsCurrent, GivenOnce, CallsLeft
<1> QED
  BY <1>1, <1>2, <1>3, <1>4, <1>5, <1>6, <1>7, <1>8, <1>9, <1>10 DEF Next, Step

LEMMA SpecIInv == Spec => []IInv
  BY IInvInit, IInvNext, PTL DEF Spec

-----------------------------------------------------------------------------
(* The theorems                                                            *)

(* Every variable of a CHECK's transaction keeps its type: the attempts stay
   within their cap and the calls within the budget of runtime.py, whatever
   these are. *)
THEOREM TypeCorrect == Spec => []TypeOK
  BY SpecIInv, PTL DEF IInv

(* The Verifier is only asked about a private candidate with a submission of
   this transaction: the committed sandbox, which a candidate out of scope
   leaves as candidate_sandbox, never reaches verify. *)
THEOREM VerifierJudgesNewWork == Spec => []VerifierSeesSubmission
<1>1. IInv => VerifierSeesSubmission
  BY DEF IInv, JudgedIsNew, Judged, VerifierSeesSubmission
<1> QED
  BY <1>1, SpecIInv, PTL

(* Although the Executor writes into the candidate in place, what
   _run_check_frontier returns as committed is the sandbox the last assessment
   was about. *)
THEOREM CommitsWhatWasVerified == Spec => []CommitIsVerified
<1>1. IInv => CommitIsVerified
  BY DEF IInv, AssessedIsCurrent, CommitIsVerified
<1> QED
  BY <1>1, SpecIInv, PTL

(* A candidate the Verifier or the Kernel refused comes back to the gate only
   after the Executor changed it; repeating the Verifier does not commit it. *)
THEOREM RefusedIsNotCommitted == Spec => []RejectedStaysOut
<1>1. IInv => RejectedStaysOut
  BY DEF IInv, JudgedIsNew, Judged, RejectedStaysOut
<1> QED
  BY <1>1, SpecIInv, PTL

(* A phase that calls a model finds fewer than two calls spent per attempt, so
   that with two calls for every attempt, as in runtime.py, the budget is never
   empty and _CheckBudgetExhausted is not raised. *)
THEOREM TwoCallsSuffice ==
    Spec => [](BudgetSuffices
               /\ (2 * Cap <= Budget /\ pc \in {"execute", "verify"} => remaining > 0))
<1>1. IInv => BudgetSuffices
  BY FrontierAssumption DEF IInv, TypeOK, CallsLeft, BudgetSuffices
<1>2. TypeOK /\ BudgetSuffices
        => (2 * Cap <= Budget /\ pc \in {"execute", "verify"} => remaining > 0)
  BY FrontierAssumption DEF TypeOK, BudgetSuffices
<1>3. IInv => TypeOK
  BY DEF IInv
<1> QED
  BY <1>1, <1>2, <1>3, SpecIInv, PTL

(* No step of the transaction writes into the committed sandbox: the deep copy
   of the first attempt is the one that every later attempt works on. *)
THEOREM CommittedIsNotWritten == Spec => CommittedSandboxUntouched
<1>1. IInv /\ [Next]_vars => [heap'["base"] = heap["base"]]_vars
  <2> SUFFICES ASSUME IInv, Next PROVE heap'["base"] = heap["base"]
    BY DEF vars
  <2>1. CASE ExecutorReturns
    <3>1. PICK n \in 0 .. MaxSubmit, wrote \in BOOLEAN : Write(n, wrote)
      BY <2>1 DEF ExecutorReturns
    <3> QED
      BY <3>1, WriteCopies, FrontierAssumption
  <2>2. CASE ExecutorFails
    <3>1. PICK wrote \in BOOLEAN : Write(0, wrote)
      BY <2>2 DEF ExecutorFails
    <3> QED
      BY <3>1, WriteCopies
  <2>3. CASE ExecutorLeavesScope
    BY <2>3 DEF ExecutorLeavesScope, IInv, TypeOK, Object
  <2>4. CASE Fail /\ MayExecute
    <3>1. PICK wrote \in BOOLEAN : Write(0, wrote)
      BY <2>4 DEF Fail
    <3> QED
      BY <3>1, WriteCopies
  <2>5. CASE (Fail /\ ~MayExecute) \/ Verifier \/ Replay \/ StartAttempt
             \/ BudgetExhausted \/ AttemptsUsed \/ RollBack \/ Pause
    BY <2>5
    DEF Fail, Verifier, VerifierAssesses, VerifierRejects, VerifierFails, Replay,
        StartAttempt, BudgetExhausted, AttemptsUsed, RollBack, Pause
  <2> QED
    BY <2>1, <2>2, <2>3, <2>4, <2>5 DEF Next, Step, Executor
<1> QED
  BY <1>1, SpecIInv, PTL DEF Spec, CommittedSandboxUntouched
============================================================================
