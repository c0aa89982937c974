------------------------- MODULE CandidatePoolProofs -------------------------
(***************************************************************************)
(* The candidate pool for every capacity, every set of speeds and every    *)
(* batch of results a cycle may hand to it.                                *)
(***************************************************************************)
EXTENDS CandidatePool, FiniteSetTheorems, SequenceTheorems, WellFoundedInduction, TLAPS

----------------------------------------------------------------------------
(* The inductive invariant.                                                *)

\* No later entry belongs before an earlier one.
Sorted(s) == \A j, k \in DOMAIN s : j < k => ~Before(s[k], s[j])

\* e is a success and at least as fast as the success r.
AtLeast(e, r) == e.ok /\ e.speed >= r.speed

\* A success that the pool has forgotten was forced out by a full list of
\* successes that are no slower.
Kept(r) ==
  \/ r \in Entries(list)
  \/ Len(list) = MaxLen /\ \A k \in DOMAIN list : AtLeast(list[k], r)

PoolInv == TypeOK /\ Sorted(list) /\ \A r \in seen : r.ok = TRUE /\ Kept(r)

----------------------------------------------------------------------------
(* Sorting and trimming.                                                   *)

LEMMA ResultFields ==
  ASSUME NEW r \in Results
  PROVE  r.config \in Configs /\ r.ok \in BOOLEAN /\ r.speed \in Nat
<1>1. Speeds \subseteq Nat
  BY BatchesAssumption
<1>2. CASE r \in [config: Configs, ok: {TRUE}, speed: Speeds]
  <2>1. r.config \in Configs /\ r.ok \in {TRUE} /\ r.speed \in Speeds
    BY <1>2
  <2> QED
    BY <1>1, <2>1, Zenon
<1>3. CASE r \in [config: Configs, ok: {FALSE}, speed: {0}]
  <2>1. r.config \in Configs /\ r.ok \in {FALSE} /\ r.speed \in {0}
    BY <1>3
  <2>2. r.speed \in Nat
    BY <2>1
  <2> QED
    BY <2>1, <2>2, Zenon
<1> QED
  BY <1>2, <1>3, Zenon DEF Results

\* A sorting has the same entries, each at a place of its own, and no inversion.
LEMMA SortingsOK ==
  ASSUME NEW s \in Seq(Results), NEW t \in Sortings(s)
  PROVE  /\ t \in Seq(Results) /\ Len(t) = Len(s)
         /\ Sorted(t)
         /\ \E g \in [DOMAIN s -> DOMAIN s] :
              /\ \A v, w \in DOMAIN s : g[v] = g[w] => v = w
              /\ \A w \in DOMAIN s : t[g[w]] = s[w]
         /\ \A k \in DOMAIN t : t[k] \in Entries(s)
<1>1. PICK f \in Bijection(DOMAIN s, DOMAIN s) : t = [k \in DOMAIN s |-> s[f[k]]]
  BY DEF Sortings
<1>2. /\ f \in [DOMAIN s -> DOMAIN s]
      /\ \A w \in DOMAIN s : \E v \in DOMAIN s : f[v] = w
  BY DEF Bijection, Surjection
<1>3. DOMAIN s = 1 .. Len(s) /\ Len(s) \in Nat /\ \A k \in 1 .. Len(s) : s[k] \in Results
  BY LenProperties, ElementOfSeq
<1>4. t \in Seq(Results) /\ Len(t) = Len(s) /\ DOMAIN t = DOMAIN s
  BY <1>1, <1>2, <1>3
<1>5. Sorted(t)
  BY DEF Sortings, Sorted
<1> DEFINE g == [w \in DOMAIN s |-> CHOOSE v \in DOMAIN s : f[v] = w]
<1>6. \A w \in DOMAIN s : g[w] \in DOMAIN s /\ f[g[w]] = w
  BY <1>2
<1>7. g \in [DOMAIN s -> DOMAIN s]
  BY <1>6
<1>8. \A v, w \in DOMAIN s : g[v] = g[w] => v = w
  BY <1>6, Zenon
<1>9. \A w \in DOMAIN s : t[g[w]] = s[w]
  BY <1>1, <1>6
<1>10. \A k \in DOMAIN t : t[k] \in Entries(s)
  BY <1>1, <1>2, <1>4 DEF Entries
<1> HIDE DEF g
<1> QED
  BY <1>4, <1>5, <1>7, <1>8, <1>9, <1>10

\* What a success does not belong before is a success that is no slower.
LEMMA NotBefore ==
  ASSUME NEW e \in Results, NEW r \in Results, r.ok = TRUE, ~Before(r, e)
  PROVE  AtLeast(e, r)
<1>1. e.ok \in BOOLEAN /\ e.speed \in Nat /\ r.speed \in Nat
  BY ResultFields
<1>2. e.ok = TRUE
  BY <1>1, Zenon DEF Before
<1>3. ~(r.speed > e.speed)
  BY <1>2, Zenon DEF Before
<1>4. e.speed >= r.speed
  BY <1>1, <1>3
<1> QED
  BY <1>2, <1>4, Zenon DEF AtLeast

\* Conversely, nothing that is at least as good as a success comes after an entry
\* that is not.
LEMMA AtLeastTransfers ==
  ASSUME NEW e \in Results, NEW x \in Results, NEW r \in Results,
         AtLeast(x, r), ~Before(x, e)
  PROVE  AtLeast(e, r)
<1>1. x.ok \in BOOLEAN /\ x.ok
  BY ResultFields, Zenon DEF AtLeast
<1>2. x.ok = TRUE
  BY <1>1, Zenon
<1>3. AtLeast(e, x)
  BY <1>2, NotBefore
<1>4. e.speed >= x.speed /\ x.speed >= r.speed /\ e.ok
  BY <1>3, Zenon DEF AtLeast
<1>5. e.speed \in Nat /\ x.speed \in Nat /\ r.speed \in Nat
  BY ResultFields
<1>6. e.speed >= r.speed
  BY <1>4, <1>5
<1> QED
  BY <1>4, <1>6, Zenon DEF AtLeast

\* Distinct places cannot be found in a smaller set.
LEMMA NoInjection ==
  ASSUME NEW S, NEW T, IsFiniteSet(S), IsFiniteSet(T), Cardinality(T) < Cardinality(S),
         NEW f \in [S -> T], \A v, w \in S : f[v] = f[w] => v = w
  PROVE  FALSE
<1>1. \E v, w \in S : v # w /\ f[v] = f[w]
  BY FS_PigeonHole
<1> QED
  BY <1>1

\* A sorted list with m entries at least as good as r has them in front: an entry
\* that is worse, at a place k <= m, would leave only k - 1 places for m entries.
LEMMA BestInFront ==
  ASSUME NEW t \in Seq(Results), Sorted(t), NEW r \in Results, NEW m \in Nat,
         NEW g \in [1 .. m -> 1 .. Len(t)],
         \A v, w \in 1 .. m : g[v] = g[w] => v = w,
         \A w \in 1 .. m : AtLeast(t[g[w]], r),
         NEW k \in 1 .. m, k <= Len(t)
  PROVE  AtLeast(t[k], r)
<1>1. DOMAIN t = 1 .. Len(t) /\ Len(t) \in Nat /\ \A j \in 1 .. Len(t) : t[j] \in Results
  BY LenProperties, ElementOfSeq
<1> SUFFICES ASSUME ~AtLeast(t[k], r) PROVE FALSE
  OBVIOUS
<1>2. ASSUME NEW w \in 1 .. m PROVE g[w] \in 1 .. k - 1
  <2>1. g[w] \in 1 .. Len(t) /\ AtLeast(t[g[w]], r) /\ k \in 1 .. Len(t)
    BY <1>1
  <2>2. g[w] # k
    BY <2>1
  <2>3. ASSUME k < g[w] PROVE FALSE
    <3>1. ~Before(t[g[w]], t[k])
      BY <1>1, <2>1, <2>3 DEF Sorted
    <3> QED
      BY <1>1, <2>1, <3>1, AtLeastTransfers
  <2> QED
    BY <2>1, <2>2, <2>3, <1>1
<1>3. g \in [1 .. m -> 1 .. k - 1]
  BY <1>2
<1> DEFINE S == 1 .. m
           T == 1 .. k - 1
<1>4. IsFiniteSet(S) /\ Cardinality(S) = IF 1 > m THEN 0 ELSE m - 1 + 1
  BY FS_Interval
<1>5. IsFiniteSet(T) /\ Cardinality(T) = IF 1 > k - 1 THEN 0 ELSE k - 1 - 1 + 1
  <2>1. 1 \in Int /\ k - 1 \in Int
    OBVIOUS
  <2> QED
    BY <2>1, FS_Interval
<1>6. Cardinality(T) < Cardinality(S)
  BY <1>4, <1>5
<1>7. g \in [S -> T] /\ \A v, w \in S : g[v] = g[w] => v = w
  BY <1>3
<1> HIDE DEF S, T
<1>8. IsFiniteSet(S) /\ IsFiniteSet(T)
  BY <1>4, <1>5
<1> QED
  BY <1>6, <1>7, <1>8, NoInjection

\* The list after a sort and a trim.
LEMMA TrimOK ==
  ASSUME NEW s \in Seq(Results)
  PROVE  /\ Trim(s) \in Seq(Results)
         /\ Len(Trim(s)) = IF Len(s) > MaxLen THEN MaxLen ELSE Len(s)
         /\ \A k \in 1 .. Len(Trim(s)) : k \in 1 .. Len(s) /\ Trim(s)[k] = s[k]
<1>1. MaxLen \in Nat /\ MaxLen >= 1 /\ Len(s) \in Nat
  BY MaxLenAssumption
<1>2. CASE Len(s) > MaxLen
  BY <1>1, <1>2 DEF Trim
<1>3. CASE ~(Len(s) > MaxLen)
  BY <1>1, <1>3 DEF Trim
<1> QED
  BY <1>2, <1>3

----------------------------------------------------------------------------
(* The steps of the pool.                                                  *)

LEMMA InitPool == Init => PoolInv
<1>1. ASSUME Init PROVE TypeOK /\ Sorted(list)
  BY <1>1, MaxLenAssumption DEF Init, TypeOK, Sorted
<1> QED
  BY <1>1 DEF Init, PoolInv

\* The results of a cycle are put behind the list.
LEMMA MergedOK ==
  ASSUME TypeOK, NEW results \in Batches
  PROVE  /\ list \o results \in Seq(Results)
         /\ Len(list \o results) = Len(list) + Len(results)
         /\ \A k \in 1 .. Len(list) : (list \o results)[k] = list[k]
         /\ Entries(list \o results) = Entries(list) \cup Entries(results)
         /\ Entries(results) \subseteq Results
<1>1. list \in Seq(Results) /\ results \in Seq(Results)
  BY BatchesAssumption DEF TypeOK
<1>2. list \o results \in Seq(Results)
  BY <1>1
<1>3. /\ Len(list \o results) = Len(list) + Len(results)
      /\ \A k \in 1 .. Len(list) : (list \o results)[k] = list[k]
      /\ \A k \in 1 .. Len(results) : (list \o results)[Len(list) + k] = results[k]
  BY <1>1
<1>4. Entries(list \o results) = Entries(list) \cup Entries(results)
  <2>1. /\ DOMAIN list = 1 .. Len(list) /\ DOMAIN results = 1 .. Len(results)
        /\ DOMAIN (list \o results) = 1 .. Len(list) + Len(results)
        /\ Len(list) \in Nat /\ Len(results) \in Nat
    BY <1>1, <1>2, <1>3
  <2>2. ASSUME NEW x \in Entries(list \o results) PROVE x \in Entries(list) \cup Entries(results)
    <3>1. PICK k \in 1 .. Len(list) + Len(results) : x = (list \o results)[k]
      BY <2>1 DEF Entries
    <3>2. CASE k <= Len(list)
      BY <1>3, <2>1, <3>1, <3>2 DEF Entries
    <3>3. CASE k > Len(list)
      <4>1. k - Len(list) \in 1 .. Len(results) /\ k = Len(list) + (k - Len(list))
        BY <2>1, <3>3
      <4>2. x = results[k - Len(list)]
        BY <1>3, <3>1, <4>1
      <4> QED
        BY <2>1, <4>1, <4>2 DEF Entries
    <3> QED
      BY <2>1, <3>2, <3>3
  <2>3. Entries(list) \subseteq Entries(list \o results)
    BY <1>3, <2>1 DEF Entries
  <2>4. Entries(results) \subseteq Entries(list \o results)
    <3>1. \A k \in 1 .. Len(results) : Len(list) + k \in 1 .. Len(list) + Len(results)
      BY <2>1
    <3> QED
      BY <1>3, <2>1, <3>1 DEF Entries
  <2> QED
    BY <2>2, <2>3, <2>4
<1>5. Entries(results) \subseteq Results
  BY <1>1, ElementOfSeq DEF Entries
<1> QED
  BY <1>2, <1>3, <1>4, <1>5

\* The front of the sorted list decides: everything that was ever a success is
\* still in the list, or the list is full of successes that are no slower.
LEMMA UpdateOK ==
  ASSUME PoolInv, NEW results \in Batches, Update(results)
  PROVE  PoolInv'
<1> DEFINE u == list \o results
<1>1. PICK s \in Sortings(u) : list' = Trim(s)
  BY DEF Update
<1>2. TypeOK /\ MaxLen \in Nat /\ MaxLen >= 1 /\ list \in Seq(Results) /\ Len(list) \in Nat
  BY MaxLenAssumption DEF PoolInv, TypeOK
<1>3. /\ u \in Seq(Results) /\ Len(u) = Len(list) + Len(results) /\ Len(results) \in Nat
      /\ \A k \in 1 .. Len(list) : u[k] = list[k]
      /\ Entries(u) = Entries(list) \cup Entries(results) /\ Entries(results) \subseteq Results
  BY <1>2, MergedOK, BatchesAssumption
<1> HIDE DEF u
<1>4. /\ s \in Seq(Results) /\ Len(s) = Len(u) /\ Sorted(s)
      /\ \E g \in [DOMAIN u -> DOMAIN u] :
           /\ \A v, w \in DOMAIN u : g[v] = g[w] => v = w
           /\ \A w \in DOMAIN u : s[g[w]] = u[w]
  BY <1>3, SortingsOK
<1>5. PICK g \in [DOMAIN u -> DOMAIN u] :
           /\ \A v, w \in DOMAIN u : g[v] = g[w] => v = w
           /\ \A w \in DOMAIN u : s[g[w]] = u[w]
  BY <1>4
<1>6. /\ DOMAIN u = 1 .. Len(u) /\ DOMAIN s = 1 .. Len(u) /\ Len(u) \in Nat
      /\ \A k \in 1 .. Len(u) : s[k] \in Results
  BY <1>3, <1>4, ElementOfSeq
<1>7. /\ list' \in Seq(Results)
      /\ Len(list') = IF Len(u) > MaxLen THEN MaxLen ELSE Len(u)
      /\ \A k \in 1 .. Len(list') : k \in 1 .. Len(u) /\ list'[k] = s[k]
  BY <1>1, <1>4, TrimOK
<1>8. DOMAIN list' = 1 .. Len(list') /\ Len(list') \in Nat /\ Len(list') <= MaxLen
  BY <1>2, <1>6, <1>7
<1>9. seen' = seen \cup {r \in Entries(results) : r.ok} /\ UNCHANGED excluded
  BY DEF Update
<1>10. TypeOK'
  BY <1>3, <1>7, <1>8, <1>9 DEF TypeOK, PoolInv
<1>11. Sorted(list')
  BY <1>4, <1>6, <1>7, <1>8 DEF Sorted
<1>12. ASSUME NEW r \in seen' PROVE r.ok = TRUE /\ r \in Results
  <2>1. CASE r \in seen
    BY <1>10, <2>1 DEF PoolInv, TypeOK
  <2>2. CASE r \in Entries(results) /\ r.ok
    <3>1. r \in Results
      BY <1>3, <2>2
    <3>2. r.ok \in BOOLEAN
      BY <3>1, ResultFields
    <3> QED
      BY <2>2, <3>1, <3>2, Zenon
  <2> QED
    BY <1>9, <2>1, <2>2, Zenon
<1>13. ASSUME NEW r \in seen' PROVE Kept(r)'
  <2>0. r.ok = TRUE /\ r \in Results
    BY <1>12
  <2>1. CASE r \in Entries(u)
    <3>1. PICK w \in DOMAIN u : r = u[w]
      BY <2>1 DEF Entries
    <3> DEFINE m == g[w]
    <3>2. m \in 1 .. Len(u) /\ r = s[m]
      BY <1>5, <1>6, <3>1
    <3> HIDE DEF m
    <3>3. CASE m <= Len(list')
      <4>1. m \in DOMAIN list' /\ list'[m] = r
        BY <1>7, <1>8, <3>2, <3>3
      <4>2. r \in Entries(list')
        BY <4>1 DEF Entries
      <4> QED
        BY <4>2, Zenon DEF Kept, Entries
    <3>4. CASE m > Len(list')
      <4>1. Len(list') = IF Len(u) > MaxLen THEN MaxLen ELSE Len(u)
        BY <1>7
      <4>2. m \in 1 .. Len(u) /\ Len(u) \in Nat
        BY <1>6, <3>2
      <4>3. Len(list') = MaxLen
        BY <3>4, <4>1, <4>2
      <4>4. ASSUME NEW k \in DOMAIN list' PROVE AtLeast(list'[k], r)
        <5>1. k \in 1 .. Len(u) /\ k < m /\ list'[k] = s[k]
          BY <1>7, <1>8, <3>2, <3>4
        <5>2. ~Before(s[m], s[k]) /\ s[k] \in Results
          BY <1>4, <1>6, <3>2, <5>1 DEF Sorted
        <5> QED
          BY <2>0, <3>2, <5>1, <5>2, NotBefore
      <4> QED
        BY <4>3, <4>4 DEF Kept
    <3> QED
      BY <1>8, <3>2, <3>3, <3>4
  <2>2. CASE r \notin Entries(u)
    <3>1. r \in seen /\ r \notin Entries(list)
      BY <1>3, <1>9, <2>2
    <3>2. Len(list) = MaxLen /\ \A k \in DOMAIN list : AtLeast(list[k], r)
      BY <3>1 DEF PoolInv, Kept
    <3>3. MaxLen <= Len(u) /\ Len(list') = MaxLen
      BY <1>2, <1>3, <1>7, <3>2
    <3> DEFINE f == [w \in 1 .. MaxLen |-> g[w]]
    <3>4. f \in [1 .. MaxLen -> 1 .. Len(s)]
      <4>1. \A w \in 1 .. MaxLen : w \in 1 .. Len(u)
        BY <1>2, <1>6, <3>3
      <4>2. \A w \in 1 .. Len(u) : g[w] \in 1 .. Len(s)
        BY <1>4, <1>5, <1>6
      <4> QED
        BY <4>1, <4>2
    <3>5. \A v, w \in 1 .. MaxLen : f[v] = f[w] => v = w
      BY <1>2, <1>5, <1>6, <3>3
    <3>6. ASSUME NEW w \in 1 .. MaxLen PROVE AtLeast(s[f[w]], r)
      <4>1. w \in DOMAIN u /\ w \in DOMAIN list /\ w \in 1 .. Len(list)
        BY <1>2, <1>6, <3>2, <3>3
      <4>2. s[f[w]] = list[w]
        BY <1>3, <1>5, <4>1
      <4> QED
        BY <3>2, <4>1, <4>2
    <3> HIDE DEF f
    <3>7. ASSUME NEW k \in 1 .. MaxLen PROVE AtLeast(s[k], r)
      <4>1. k <= Len(s)
        BY <1>2, <1>4, <1>6, <3>3
      <4> QED
        BY <1>2, <1>4, <2>0, <3>4, <3>5, <3>6, <4>1, BestInFront
    <3>8. \A k \in DOMAIN list' : AtLeast(list'[k], r)
      BY <1>7, <1>8, <3>3, <3>7
    <3> QED
      BY <3>3, <3>8 DEF Kept
  <2> QED
    BY <2>1, <2>2
<1> QED
  BY <1>10, <1>11, <1>12, <1>13 DEF PoolInv

LEMMA NextPool == PoolInv /\ [Next]_vars => PoolInv'
<1>1. ASSUME PoolInv, UNCHANGED <<list, seen>>, excluded' \subseteq Configs PROVE PoolInv'
  BY <1>1 DEF PoolInv, TypeOK, Kept
<1>2. ASSUME PoolInv, NEW c \in Configs, Exclude(c) PROVE PoolInv'
  BY <1>1, <1>2 DEF Exclude, PoolInv, TypeOK
<1>3. ASSUME PoolInv, UNCHANGED vars PROVE PoolInv'
  BY <1>1, <1>3 DEF vars, PoolInv, TypeOK
<1> QED
  BY <1>2, <1>3, UpdateOK DEF Next

LEMMA PoolAlways == Spec => []PoolInv
BY InitPool, NextPool, PTL DEF Spec

\* The pool never holds more than its capacity, whatever the size of a cycle, and
\* holds nothing but results of tests.
THEOREM PoolTypeCorrect == Spec => []TypeOK
<1>1. PoolInv => TypeOK
  BY DEF PoolInv
<1> QED
  BY <1>1, PoolAlways, PTL

----------------------------------------------------------------------------
(* Best.                                                                   *)

\* Best is the first eligible entry of the list.
LEMMA BestIsFirst ==
  ASSUME TypeOK, Best # NoEntry
  PROVE  \E b \in DOMAIN list : /\ Best = list[b] /\ Eligible(list[b])
                                /\ \A j \in 1 .. b - 1 : ~Eligible(list[j])
<1> DEFINE E == {k \in DOMAIN list : Eligible(list[k])}
<1>1. E # {} /\ E \subseteq Nat /\ DOMAIN list = 1 .. Len(list) /\ Len(list) \in Nat
  BY DEF Best, TypeOK
<1>2. PICK b \in E : \A y \in E : ~(<<y, b>> \in OpToRel(<, Nat))
  <2> HIDE DEF E
  <2> QED
    BY <1>1, NatLessThanWellFounded, WFMin
<1>3. \A y \in E : ~(y < b)
  BY <1>1, <1>2 DEF OpToRel
<1>4. \A j \in 1 .. b - 1 : ~Eligible(list[j])
  BY <1>1, <1>3
<1>5. \E k \in DOMAIN list : Eligible(list[k]) /\ \A j \in 1 .. k - 1 : ~Eligible(list[j])
  BY <1>2, <1>4
<1> QED
  BY <1>5, Zenon DEF Best

\* Whatever was merged, trimmed and excluded, Best offers a drop the fastest result
\* ever measured for a config that is not excluded.
THEOREM BestNeverLost == Spec => []BestIsFastestEver
<1>1. PoolInv => BestIsFastestEver
  <2> SUFFICES ASSUME PoolInv, Best # NoEntry, NEW r \in seen, Eligible(r)
               PROVE  r.speed <= Best.speed
    BY DEF BestIsFastestEver
  <2>1. PICK b \in DOMAIN list : /\ Best = list[b] /\ Eligible(list[b])
                                 /\ \A j \in 1 .. b - 1 : ~Eligible(list[j])
    BY BestIsFirst DEF PoolInv
  <2>2. /\ DOMAIN list = 1 .. Len(list) /\ Len(list) \in Nat
        /\ \A k \in DOMAIN list : list[k] \in Results
        /\ r \in Results /\ r.ok = TRUE
    BY ElementOfSeq DEF PoolInv, TypeOK
  <2>3. AtLeast(list[b], r)
    <3>1. CASE r \in Entries(list)
      <4>1. PICK m \in DOMAIN list : r = list[m]
        BY <3>1 DEF Entries
      <4>2. ~(m < b)
        BY <2>1, <2>2, <4>1
      <4>3. CASE m = b
        BY <2>2, <4>1, <4>3, ResultFields DEF AtLeast
      <4>4. CASE b < m
        <5>1. ~Before(list[m], list[b])
          BY <4>4 DEF PoolInv, Sorted
        <5> QED
          BY <2>2, <4>1, <5>1, NotBefore
      <4> QED
        BY <2>2, <4>2, <4>3, <4>4
    <3>2. CASE r \notin Entries(list)
      BY <3>2 DEF PoolInv, Kept
    <3> QED
      BY <3>1, <3>2
  <2>4. Best.speed >= r.speed
    BY <2>1, <2>3 DEF AtLeast
  <2>5. Best.speed \in Nat /\ r.speed \in Nat
    BY <2>1, <2>2, ResultFields
  <2> QED
    BY <2>4, <2>5
<1> QED
  BY <1>1, PoolAlways, PTL

----------------------------------------------------------------------------
(* The refinement of CandidateSet.                                         *)

\* The configs of the successes in a sequence of results.
Offered(s) == {r.config : r \in {x \in Entries(s) : x.ok}}

\* Sorting and trimming may drop candidates, but never all of them.
LEMMA UpdateRefines ==
  ASSUME PoolInv, NEW results \in Batches, Update(results)
  PROVE  Abstract!Update(Offered(results)) /\ Offered(results) \subseteq Configs
<1> DEFINE u == list \o results
<1>1. PICK s \in Sortings(u) : list' = Trim(s)
  BY DEF Update
<1>2. TypeOK /\ MaxLen \in Nat /\ MaxLen >= 1
  BY MaxLenAssumption DEF PoolInv
<1>3. /\ u \in Seq(Results)
      /\ Entries(u) = Entries(list) \cup Entries(results) /\ Entries(results) \subseteq Results
  BY <1>2, MergedOK
<1>4. Offered(u) = Offered(list) \cup Offered(results)
  BY <1>3 DEF Offered
<1> HIDE DEF u
<1>5. /\ s \in Seq(Results) /\ Len(s) = Len(u) /\ Sorted(s)
      /\ \E g \in [DOMAIN u -> DOMAIN u] :
           /\ \A v, w \in DOMAIN u : g[v] = g[w] => v = w
           /\ \A w \in DOMAIN u : s[g[w]] = u[w]
      /\ \A k \in DOMAIN s : s[k] \in Entries(u)
  BY <1>3, SortingsOK
<1>6. /\ DOMAIN u = 1 .. Len(u) /\ DOMAIN s = 1 .. Len(u) /\ Len(u) \in Nat
      /\ \A k \in 1 .. Len(u) : s[k] \in Results
  BY <1>3, <1>5, ElementOfSeq
<1>7. /\ list' \in Seq(Results)
      /\ Len(list') = IF Len(u) > MaxLen THEN MaxLen ELSE Len(u)
      /\ \A k \in 1 .. Len(list') : k \in 1 .. Len(u) /\ list'[k] = s[k]
      /\ DOMAIN list' = 1 .. Len(list')
  BY <1>1, <1>5, TrimOK
<1>8. Entries(list') \subseteq Entries(u)
  BY <1>5, <1>6, <1>7 DEF Entries
<1>9. Offered(list') \subseteq Offered(list) \cup Offered(results)
  <2>1. Offered(list') \subseteq Offered(u)
    BY <1>8, Zenon DEF Offered
  <2> QED
    BY <1>4, <2>1
<1>10. ASSUME Offered(u) # {} PROVE Offered(list') # {}
  <2>1. PICK e \in Entries(u) : e.ok
    BY <1>10, Zenon DEF Offered
  <2>2. PICK m \in 1 .. Len(u) : s[m] = e
    <3>1. PICK g \in [DOMAIN u -> DOMAIN u] : \A w \in DOMAIN u : s[g[w]] = u[w]
      BY <1>5
    <3>2. PICK w \in DOMAIN u : e = u[w]
      BY DEF Entries
    <3> QED
      BY <1>6, <3>1, <3>2
  <2>3. e \in Results /\ e.ok = TRUE
    <3>1. e \in Results /\ e.ok \in BOOLEAN
      BY <1>6, <2>2, ResultFields
    <3> QED
      BY <2>1, <3>1, Zenon
  <2>4. 1 \in 1 .. Len(u) /\ 1 \in 1 .. Len(list') /\ list'[1] = s[1]
    BY <1>2, <1>6, <1>7, <2>2
  <2>5. s[1].ok
    <3>1. CASE m = 1
      BY <2>1, <2>2, <3>1
    <3>2. CASE m # 1
      <4>1. ~Before(s[m], s[1])
        BY <1>5, <1>6, <2>2, <2>4, <3>2 DEF Sorted
      <4> QED
        BY <1>6, <2>2, <2>3, <2>4, <4>1, NotBefore DEF AtLeast
    <3> QED
      BY <3>1, <3>2
  <2>6. s[1] \in Entries(list')
    BY <1>7, <2>4 DEF Entries
  <2> QED
    BY <2>5, <2>6 DEF Offered
<1>11. UNCHANGED excluded
  BY DEF Update
<1>12. Abstract!Update(Offered(results))
  BY <1>4, <1>9, <1>10, <1>11 DEF Abstract!Update, Offered
<1>13. Offered(results) \subseteq Configs
  BY <1>3, ResultFields DEF Offered
<1> QED
  BY <1>12, <1>13

LEMMA NextRefines == PoolInv /\ [Next]_vars => [Abstract!Next]_Abstract!vars
<1>1. ASSUME PoolInv, NEW results \in Batches, Update(results) PROVE Abstract!Next
  BY <1>1, UpdateRefines DEF Abstract!Next
<1>2. ASSUME NEW c \in Configs, Exclude(c) PROVE Abstract!Next
  <2>1. Abstract!Exclude(c)
    BY <1>2 DEF Exclude, Abstract!Exclude, Entries
  <2> QED
    BY <2>1 DEF Abstract!Next
<1>3. ASSUME UNCHANGED vars PROVE UNCHANGED Abstract!vars
  BY <1>3 DEF vars, Abstract!vars, Entries
<1> QED
  BY <1>1, <1>2, <1>3 DEF Next

\* The sorted and capped list of candidate.go implements the candidate set Rotation
\* is built on: failed results are never offered, exclusions only grow, and the cap
\* never leaves a pool that was offered a success without one.
THEOREM CandidateSetImplemented == Spec => CandidateSetRefined
<1>1. Init => Abstract!Init
  BY DEF Init, Abstract!Init, Entries
<1> QED
  BY <1>1, NextRefines, PoolAlways, PTL DEF Spec, CandidateSetRefined, Abstract!Spec

=============================================================================
