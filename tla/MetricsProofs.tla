---------------------------- MODULE MetricsProofs ----------------------------
(***************************************************************************)
(* The metrics registry under any number of observers and scrapers, for    *)
(* every number of buckets, of slots and of observations.                  *)
(***************************************************************************)
EXTENDS Metrics, FiniteSetTheorems, TLAPS

----------------------------------------------------------------------------
(* The inductive invariant of the histogram.                               *)

\* The stores still to become visible are those of the observer that holds the mutex.
OneWriter == \A o \in Observers : todo[o] # {} => mu = o

\* What an observer is about to store is one more than the cell still holds: nobody else
\* has stored since it read the cell.
LoadOK ==
  \A o \in Observers : loaded[o] # NoLoad =>
     loaded[o].cell \in todo[o] /\ loaded[o].value = cell[loaded[o].cell]

\* A cell lacks at most the observation under way.
Pending(k) == IF \E o \in Observers : k \in todo[o] THEN 1 ELSE 0

CellsOK == \A k \in Cells : due[k] = cell[k] + Pending(k)

\* What belongs to a bucket belongs to every later one.
Cumulative == \A j, k \in Cells : j <= k => due[j] <= due[k]

\* A printed line was read off its cell, which has only grown since.
LinesOK(s) ==
  /\ spc[s] # "write" => line[s] = 1
  /\ \A m \in Printed(s) : out[s][m] <= cell[CellOf(m)]
  /\ \A m, n \in Printed(s) : m < n => out[s][m] <= out[s][n] + 1

HistInv == OneWriter /\ LoadOK /\ CellsOK /\ Cumulative /\ \A s \in Scrapers : LinesOK(s)

----------------------------------------------------------------------------
(* The inductive invariant of the gauge.                                   *)

Refreshing == {s \in Scrapers : spc[s] \in {"count", "gauges"}}

\* The slots a count has looked at.
Seen(s) == 0 .. next[s] - 1

\* A count that has not begun is zero; one under way is right for the slots it has seen.
CountOK(s) ==
  /\ spc[s] # "count" => next[s] = 0 /\ count[s] = 0
  /\ count[s] <= next[s]
  /\ spc[s] = "count" => /\ Cardinality(always[s] \cap Seen(s)) <= count[s]
                         /\ count[s] <= Cardinality(ever[s] \cap Seen(s))

\* What was in service all the time still is, and what is has been at some time.
WindowOK(s) == s \in Refreshing => always[s] \subseteq active /\ active \subseteq ever[s]

\* The window of an unfinished count lies within that of every refresh it overlaps with.
OverlapOK ==
  \A r \in Refreshing, s \in Unfinished : always[r] \subseteq always[s] /\ ever[s] \subseteq ever[r]

GaugeInv == OverlapOK /\ ActiveCurrent /\ \A s \in Scrapers : CountOK(s) /\ WindowOK(s)

MetricsInv == TypeOK /\ HistInv /\ GaugeInv

----------------------------------------------------------------------------
(* Observations.                                                           *)

\* Every line shows a cell.
LEMMA LineHasCell == \A n \in Lines : CellOf(n) \in Cells
BY BucketsAssumption DEF Lines, CellOf, Cells, Inf

\* A later line shows a later cell, or the same.
LEMMA LaterLineLaterCell == \A m, n \in Lines : m < n => CellOf(m) <= CellOf(n)
BY BucketsAssumption DEF Lines, CellOf, Cells, Inf

\* No more than one observation is half visible, so a cell exceeds a later one by at
\* most one.
LEMMA CellSkew ==
  ASSUME TypeOK, CellsOK, Cumulative, NEW j \in Cells, NEW k \in Cells, j <= k
  PROVE  cell[j] <= cell[k] + 1
<1>1. Pending(j) \in {0, 1} /\ Pending(k) \in {0, 1}
  BY DEF Pending
<1>2. due[j] = cell[j] + Pending(j) /\ due[k] = cell[k] + Pending(k) /\ due[j] <= due[k]
  BY DEF CellsOK, Cumulative
<1>3. cell[j] \in Nat /\ cell[k] \in Nat
  BY DEF TypeOK
<1> QED
  BY <1>1, <1>2, <1>3

\* An observation begins: it is due in its first bucket and in all later ones, and
\* nobody else's stores are pending.
LEMMA ObserveKeeps ==
  ASSUME TypeOK, HistInv, NEW o \in Observers, Observe(o) PROVE HistInv'
<1>1. PICK v \in Cells :
        /\ todo' = [todo EXCEPT ![o] = {Inf} \cup {k \in 1 .. Buckets : v <= k}]
        /\ due' = [k \in Cells |-> IF v <= k THEN due[k] + 1 ELSE due[k]]
  BY DEF Observe, Observed, Due
<1> DEFINE new == {Inf} \cup {k \in 1 .. Buckets : v <= k}
<1>2. mu = NoObserver /\ mu' = o /\ UNCHANGED <<cell, loaded, spc, line, out>>
  BY DEF Observe, poolVars, scrapeVars
<1>3. \A u \in Observers : todo[u] = {}
  BY <1>2, ObserversAssumption DEF HistInv, OneWriter
<1>4. \A k \in Cells : k \in new <=> v <= k
  BY BucketsAssumption DEF Cells, Inf
<1> HIDE DEF new
<1>5. OneWriter' /\ LoadOK'
  <2>1. todo' = [todo EXCEPT ![o] = new]
    BY <1>1 DEF new
  <2>2. \A u \in Observers : loaded'[u] = NoLoad
    BY <1>2, <1>3 DEF HistInv, LoadOK
  <2> QED
    BY <1>2, <1>3, <2>1, <2>2 DEF TypeOK, OneWriter, LoadOK
<1>6. ASSUME NEW k \in Cells PROVE due'[k] = cell'[k] + Pending(k)'
  <2>1. Pending(k) = 0 /\ due[k] = cell[k] /\ cell[k] \in Nat
    BY <1>3 DEF TypeOK, HistInv, CellsOK, Pending
  <2>2. Pending(k)' = IF v <= k THEN 1 ELSE 0
    <3>1. todo' = [todo EXCEPT ![o] = new]
      BY <1>1 DEF new
    <3> QED
      BY <1>3, <1>4, <3>1 DEF TypeOK, Pending
  <2> QED
    BY <1>1, <1>2, <2>1, <2>2
<1>7. ASSUME NEW j \in Cells, NEW k \in Cells, j <= k PROVE due'[j] <= due'[k]
  <2>1. due[j] <= due[k] /\ due[j] \in Nat /\ due[k] \in Nat /\ j \in Int /\ k \in Int /\ v \in Int
    BY <1>7, BucketsAssumption DEF TypeOK, HistInv, Cumulative, Cells, Inf
  <2> QED
    BY <1>1, <1>7, <2>1
<1>8. ASSUME NEW s \in Scrapers PROVE LinesOK(s)'
  BY <1>2 DEF HistInv, LinesOK, Printed
<1> QED
  BY <1>5, <1>6, <1>7, <1>8 DEF HistInv, CellsOK, Cumulative

\* Reading a cell changes nothing that others see.
LEMMA LoadKeeps ==
  ASSUME TypeOK, HistInv, NEW o \in Observers, Load(o) PROVE HistInv'
<1>1. PICK k \in todo[o] : loaded' = [loaded EXCEPT ![o] = [cell |-> k, value |-> cell[k]]]
  BY DEF Load
<1>2. UNCHANGED <<cell, mu, todo, due, spc, line, out>>
  BY DEF Load, poolVars, scrapeVars
<1>3. LoadOK'
  BY <1>1, <1>2 DEF TypeOK, HistInv, LoadOK
<1> QED
  BY <1>2, <1>3 DEF HistInv, OneWriter, CellsOK, Pending, Cumulative, LinesOK, Printed

\* A store becomes visible: what was read is still in the cell, so it grows by one and the
\* increment is no longer pending; the lines printed before show no more than it now holds.
LEMMA StoreKeeps ==
  ASSUME TypeOK, HistInv, NEW o \in Observers, Store(o) PROVE HistInv'
<1> DEFINE j == loaded[o].cell
<1>1. /\ j \in todo[o] /\ todo' = [todo EXCEPT ![o] = @ \ {j}]
      /\ cell' = [cell EXCEPT ![j] = cell[j] + 1]
      /\ loaded' = [loaded EXCEPT ![o] = NoLoad]
  BY DEF Store, HistInv, LoadOK
<1> HIDE DEF j
<1>2. j \in Cells /\ cell \in [Cells -> Nat]
  BY <1>1 DEF TypeOK
<1>3. UNCHANGED <<mu, due, spc, line, out>>
  BY DEF Store, poolVars, scrapeVars
<1>4. \A u \in Observers : u # o => todo[u] = {}
  BY <1>1 DEF HistInv, OneWriter
<1>5. OneWriter' /\ LoadOK'
  <2>1. \A u \in Observers : loaded'[u] = NoLoad
    BY <1>1, <1>4 DEF TypeOK, HistInv, LoadOK
  <2> QED
    BY <1>1, <1>3, <1>4, <2>1 DEF TypeOK, HistInv, OneWriter, LoadOK
<1>6. ASSUME NEW k \in Cells PROVE due'[k] = cell'[k] + Pending(k)'
  <2>1. due[k] = cell[k] + Pending(k) /\ cell[k] \in Nat
    BY <1>2 DEF HistInv, CellsOK
  <2>2. CASE k = j
    <3>1. Pending(k) = 1
      BY <1>1, <2>2 DEF Pending
    <3>2. Pending(k)' = 0
      BY <1>1, <1>4, <2>2 DEF TypeOK, Pending
    <3> QED
      BY <1>1, <1>2, <1>3, <2>1, <2>2, <3>1, <3>2
  <2>3. CASE k # j
    <3>1. Pending(k)' = Pending(k)
      BY <1>1, <2>3 DEF TypeOK, Pending
    <3> QED
      BY <1>1, <1>2, <1>3, <2>1, <2>3, <3>1
  <2> QED
    BY <2>2, <2>3
<1>7. Cumulative'
  BY <1>3 DEF HistInv, Cumulative
<1>8. ASSUME NEW s \in Scrapers PROVE LinesOK(s)'
  <2>1. \A k \in Cells : cell[k] \in Nat /\ cell'[k] \in Nat /\ cell[k] <= cell'[k]
    BY <1>1, <1>2
  <2>2. \A m \in Printed(s) : CellOf(m) \in Cells /\ out[s][m] \in Nat
    BY LineHasCell DEF Printed, TypeOK
  <2>3. Printed(s)' = Printed(s)
    BY <1>3 DEF Printed
  <2> QED
    BY <1>3, <2>1, <2>2, <2>3 DEF HistInv, LinesOK
<1> QED
  BY <1>5, <1>6, <1>7, <1>8 DEF HistInv, CellsOK

\* The mutex is given back when nothing is pending.
LEMMA UnlockKeeps ==
  ASSUME TypeOK, HistInv, NEW o \in Observers, Unlock(o) PROVE HistInv'
<1>1. /\ mu = o /\ todo[o] = {} /\ mu' = NoObserver
      /\ UNCHANGED <<cell, todo, loaded, due, spc, line, out>>
  BY DEF Unlock, poolVars, scrapeVars
<1>2. \A u \in Observers : todo[u] = {}
  BY <1>1 DEF HistInv, OneWriter
<1> QED
  BY <1>1, <1>2 DEF HistInv, OneWriter, LoadOK, CellsOK, Pending, Cumulative, LinesOK, Printed

----------------------------------------------------------------------------
(* The lines of a scrape.                                                  *)

\* A step that neither observes nor prints a line.
LEMMA HistUntouched ==
  ASSUME HistInv, UNCHANGED <<histVars, line, out>>,
         \A s \in Scrapers : spc'[s] = "write" => spc[s] = "write" \/ line[s] = 1,
         \A s \in Scrapers : spc[s] = "write" => spc'[s] = "write"
  PROVE  HistInv'
<1>1. OneWriter' /\ LoadOK' /\ CellsOK' /\ Cumulative'
  BY DEF HistInv, histVars, OneWriter, LoadOK, CellsOK, Cumulative, Pending
<1>2. ASSUME NEW s \in Scrapers PROVE LinesOK(s)'
  <2>1. LinesOK(s)
    BY DEF HistInv
  <2>2. CASE line[s] = 1
    <3>1. Printed(s)' = {}
      BY <2>2, BucketsAssumption DEF Printed, Lines, Inf
    <3> QED
      BY <2>2, <3>1 DEF LinesOK
  <2>3. CASE line[s] # 1
    <3>1. spc[s] = "write" /\ spc'[s] = "write"
      BY <2>1, <2>3 DEF LinesOK
    <3> QED
      BY <2>1, <3>1 DEF LinesOK, Printed, histVars
  <2> QED
    BY <2>2, <2>3
<1> QED
  BY <1>1, <1>2 DEF HistInv

\* The line printed next is at most one below any printed before.
LEMMA PrintLineKeeps ==
  ASSUME TypeOK, HistInv, NEW s \in Scrapers, PrintLine(s) PROVE HistInv'
<1>1. /\ spc[s] = "write" /\ line[s] \in Lines
      /\ out' = [out EXCEPT ![s][line[s]] = cell[CellOf(line[s])]]
      /\ line' = [line EXCEPT ![s] = @ + 1]
      /\ UNCHANGED <<cell, mu, todo, loaded, due, spc>>
  BY DEF PrintLine, histVars
<1>2. OneWriter' /\ LoadOK' /\ CellsOK' /\ Cumulative'
  BY <1>1 DEF HistInv, OneWriter, LoadOK, CellsOK, Cumulative, Pending
<1>3. ASSUME NEW r \in Scrapers PROVE LinesOK(r)'
  <2>0. LinesOK(r)
    BY DEF HistInv
  <2>1. CASE r # s
    <3>1. line'[r] = line[r] /\ out'[r] = out[r]
      BY <1>1, <2>1 DEF TypeOK
    <3> QED
      BY <1>1, <2>0, <3>1 DEF LinesOK, Printed
  <2>2. CASE r = s
    <3> DEFINE n == line[s]
    <3>1. n \in Lines /\ n \in Int /\ line'[s] = n + 1 /\ CellOf(n) \in Cells
      BY <1>1, LineHasCell DEF TypeOK, Lines
    <3>2. \A m \in Lines : m \in Int /\ (m < n + 1 <=> m < n \/ m = n)
      BY <3>1 DEF Lines
    <3>3. Printed(s)' = Printed(s) \cup {n} /\ Printed(s) \subseteq Lines /\ n \notin Printed(s)
      BY <1>1, <3>1, <3>2 DEF Printed
    <3>4. out'[s][n] = cell[CellOf(n)] /\ \A m \in Printed(s) : out'[s][m] = out[s][m]
      BY <1>1, <3>1, <3>3 DEF TypeOK
    <3>5. \A m \in Printed(s) : m < n /\ out[s][m] \in Nat /\ out[s][m] <= cell[CellOf(m)]
      BY <2>0, <2>2, <3>3 DEF Printed, LinesOK, TypeOK
    <3>6. \A m \in Printed(s) : out[s][m] <= cell[CellOf(n)] + 1
      <4> SUFFICES ASSUME NEW m \in Printed(s) PROVE out[s][m] <= cell[CellOf(n)] + 1
        OBVIOUS
      <4>1. CellOf(m) \in Cells /\ CellOf(m) <= CellOf(n)
        BY <3>1, <3>3, <3>5, LineHasCell, LaterLineLaterCell
      <4>2. cell[CellOf(m)] <= cell[CellOf(n)] + 1
        BY <3>1, <4>1, CellSkew DEF HistInv
      <4>3. cell[CellOf(m)] \in Nat /\ cell[CellOf(n)] \in Nat
        BY <3>1, <4>1 DEF TypeOK
      <4> QED
        BY <3>5, <4>2, <4>3
    <3>7. cell[CellOf(n)] \in Nat
      BY <3>1 DEF TypeOK
    <3>8. \A m \in Printed(s)' : out'[s][m] <= cell[CellOf(m)]
      BY <3>3, <3>4, <3>5, <3>7
    <3>9. ASSUME NEW m \in Printed(s)', NEW k \in Printed(s)', m < k
          PROVE  out'[s][m] <= out'[s][k] + 1
      <4>1. CASE k = n
        BY <3>1, <3>2, <3>3, <3>4, <3>6, <3>9, <4>1
      <4>2. CASE k # n
        <5>1. k \in Printed(s) /\ m \in Printed(s)
          BY <3>1, <3>2, <3>3, <3>5, <3>9, <4>2
        <5> QED
          BY <2>0, <2>2, <3>4, <3>9, <5>1 DEF LinesOK
      <4> QED
        BY <4>1, <4>2
    <3> QED
      BY <1>1, <2>2, <3>8, <3>9 DEF LinesOK
  <2> QED
    BY <2>1, <2>2
<1> QED
  BY <1>2, <1>3 DEF HistInv

\* A scrape that has printed everything starts over.
LEMMA ScrapeEndsKeeps ==
  ASSUME TypeOK, HistInv, NEW s \in Scrapers, ScrapeEnds(s) PROVE HistInv'
<1>1. /\ spc' = [spc EXCEPT ![s] = "idle"] /\ line' = [line EXCEPT ![s] = 1]
      /\ out' = [out EXCEPT ![s] = Unprinted] /\ UNCHANGED <<cell, mu, todo, loaded, due>>
  BY DEF ScrapeEnds, Advance, histVars
<1>2. OneWriter' /\ LoadOK' /\ CellsOK' /\ Cumulative'
  BY <1>1 DEF HistInv, OneWriter, LoadOK, CellsOK, Cumulative, Pending
<1>3. ASSUME NEW r \in Scrapers PROVE LinesOK(r)'
  BY <1>1 DEF TypeOK, HistInv, LinesOK, Printed
<1> QED
  BY <1>2, <1>3 DEF HistInv

----------------------------------------------------------------------------
(* The gauge.                                                              *)

\* A set of slots is finite and a part of it has no more members.
LEMMA SlotSets ==
  ASSUME NEW S \in SUBSET Slots, NEW T \in SUBSET S
  PROVE  /\ IsFiniteSet(S) /\ IsFiniteSet(T)
         /\ Cardinality(S) \in Nat /\ Cardinality(T) \in Nat
         /\ Cardinality(T) <= Cardinality(S)
<1>1. IsFiniteSet(Slots)
  <2>1. 0 \in Int /\ WanCount - 1 \in Int
    BY WanCountAssumption
  <2> QED
    BY <2>1, FS_Interval DEF Slots
<1>2. IsFiniteSet(S)
  BY <1>1, FS_Subset
<1>3. IsFiniteSet(T) /\ Cardinality(T) <= Cardinality(S)
  BY <1>2, FS_Subset
<1> QED
  BY <1>2, <1>3, FS_CardinalityType

\* Looking at one more slot adds it to those seen of a set, if it is in the set.
LEMMA OneMoreSlot ==
  ASSUME NEW S \in SUBSET Slots, NEW n \in Nat
  PROVE  /\ Cardinality(S \cap (0 .. n - 1)) \in Nat
         /\ Cardinality(S \cap (0 .. n)) = IF n \in S THEN Cardinality(S \cap (0 .. n - 1)) + 1
                                          ELSE Cardinality(S \cap (0 .. n - 1))
<1> DEFINE T == S \cap (0 .. n - 1)
<1>1. IsFiniteSet(T) /\ Cardinality(T) \in Nat
  <2>1. T \in SUBSET S
    OBVIOUS
  <2> QED
    BY <2>1, SlotSets
<1>2. n \notin T /\ S \cap (0 .. n) = IF n \in S THEN T \cup {n} ELSE T
  OBVIOUS
<1> HIDE DEF T
<1>3. Cardinality(T \cup {n}) = Cardinality(T) + 1
  BY <1>1, <1>2, FS_AddElement
<1>4. Cardinality(S \cap (0 .. n)) = IF n \in S THEN Cardinality(T) + 1 ELSE Cardinality(T)
  BY <1>2, <1>3
<1> QED
  BY <1>1, <1>4 DEF T

\* A step of an observer leaves the gauge and the counts alone.
LEMMA GaugeUntouched ==
  ASSUME GaugeInv, UNCHANGED <<poolVars, spc, countVars>> PROVE GaugeInv'
BY DEF GaugeInv, OverlapOK, ActiveCurrent, CountOK, WindowOK, Refreshing, Unfinished, Seen,
       poolVars, countVars

\* A slot comes into service: it was there at some time for every refresh under way.
LEMMA ActivatedKeeps ==
  ASSUME TypeOK, GaugeInv, NEW i \in Slots, SlotActivated(i) PROVE GaugeInv'
<1>1. /\ active' = active \cup {i} /\ UNCHANGED <<wansActive, spc, next, count, always>>
      /\ ever' = [s \in Scrapers |->
                    IF spc[s] \in {"count", "gauges"} THEN ever[s] \cup {i} ELSE {}]
  BY DEF SlotActivated
<1>2. \A s \in Refreshing : ever'[s] = ever[s] \cup {i}
  BY <1>1 DEF Refreshing
<1>3. Refreshing' = Refreshing /\ Unfinished' = Unfinished /\ Unfinished \subseteq Refreshing
  BY <1>1 DEF Refreshing, Unfinished
<1>4. OverlapOK'
  BY <1>1, <1>2, <1>3 DEF GaugeInv, OverlapOK
<1>5. ASSUME NEW s \in Scrapers PROVE WindowOK(s)'
  BY <1>1, <1>2, <1>3 DEF GaugeInv, WindowOK
<1>6. ASSUME NEW s \in Scrapers PROVE CountOK(s)'
  <2>1. CASE spc[s] # "count"
    BY <1>1, <2>1 DEF GaugeInv, CountOK
  <2>2. CASE spc[s] = "count"
    <3>1. ever'[s] = ever[s] \cup {i} /\ ever'[s] \subseteq Slots /\ Seen(s)' = Seen(s)
      BY <1>1, <1>2, <2>2 DEF Refreshing, TypeOK, Seen
    <3>2. /\ Cardinality(ever[s] \cap Seen(s)) <= Cardinality(ever'[s] \cap Seen(s))
          /\ Cardinality(ever[s] \cap Seen(s)) \in Nat
          /\ Cardinality(ever'[s] \cap Seen(s)) \in Nat
      BY <3>1, SlotSets
    <3>3. count[s] \in Nat
      BY DEF TypeOK
    <3> QED
      BY <1>1, <2>2, <3>1, <3>2, <3>3 DEF GaugeInv, CountOK
  <2> QED
    BY <2>1, <2>2
<1>7. ASSUME NEW s \in Scrapers, spc[s] = "gauges"
      PROVE  Cardinality(always[s]) <= wansActive /\ wansActive <= Cardinality(ever'[s])
  <2>1. ever'[s] = ever[s] \cup {i} /\ ever'[s] \subseteq Slots /\ wansActive \in Nat
    BY <1>2, <1>7 DEF Refreshing, TypeOK
  <2>2. /\ Cardinality(ever[s]) <= Cardinality(ever'[s])
        /\ Cardinality(ever[s]) \in Nat /\ Cardinality(ever'[s]) \in Nat
    BY <2>1, SlotSets
  <2> QED
    BY <1>7, <2>1, <2>2 DEF GaugeInv, ActiveCurrent
<1> QED
  BY <1>1, <1>4, <1>5, <1>6, <1>7 DEF GaugeInv, ActiveCurrent

\* A slot leaves service: it is not there all the time for any refresh.
LEMMA ResetKeeps ==
  ASSUME TypeOK, GaugeInv, NEW i \in Slots, SlotReset(i) PROVE GaugeInv'
<1>1. /\ active' = active \ {i} /\ UNCHANGED <<wansActive, spc, next, count, ever>>
      /\ always' = [s \in Scrapers |-> always[s] \ {i}]
  BY DEF SlotReset
<1>2. Refreshing' = Refreshing /\ Unfinished' = Unfinished /\ Unfinished \subseteq Refreshing
      /\ Refreshing \subseteq Scrapers
  BY <1>1 DEF Refreshing, Unfinished
<1>3. OverlapOK'
  BY <1>1, <1>2 DEF GaugeInv, OverlapOK
<1>4. ASSUME NEW s \in Scrapers PROVE WindowOK(s)'
  BY <1>1, <1>2 DEF GaugeInv, WindowOK
<1>5. ASSUME NEW s \in Scrapers PROVE CountOK(s)'
  <2>1. CASE spc[s] # "count"
    BY <1>1, <2>1 DEF GaugeInv, CountOK
  <2>2. CASE spc[s] = "count"
    <3>1. always'[s] = always[s] \ {i} /\ always[s] \subseteq Slots /\ Seen(s)' = Seen(s)
      BY <1>1, <2>2 DEF TypeOK, Seen
    <3>2. /\ Cardinality(always'[s] \cap Seen(s)) <= Cardinality(always[s] \cap Seen(s))
          /\ Cardinality(always'[s] \cap Seen(s)) \in Nat
          /\ Cardinality(always[s] \cap Seen(s)) \in Nat
      BY <3>1, SlotSets
    <3>3. /\ count[s] \in Nat /\ count[s] <= next[s]
          /\ Cardinality(always[s] \cap Seen(s)) <= count[s]
          /\ count[s] <= Cardinality(ever[s] \cap Seen(s))
      <4>1. CountOK(s)
        BY DEF GaugeInv
      <4>2. count[s] \in Nat
        BY DEF TypeOK
      <4> QED
        BY <2>2, <4>1, <4>2 DEF CountOK
    <3>4. Cardinality(always'[s] \cap Seen(s)) <= count[s]
      BY <3>2, <3>3
    <3> QED
      BY <1>1, <2>2, <3>1, <3>3, <3>4 DEF CountOK
  <2> QED
    BY <2>1, <2>2
<1>6. ASSUME NEW s \in Scrapers, spc[s] = "gauges"
      PROVE  Cardinality(always'[s]) <= wansActive /\ wansActive <= Cardinality(ever[s])
  <2>1. always'[s] = always[s] \ {i} /\ always[s] \subseteq Slots /\ wansActive \in Nat
    BY <1>1 DEF TypeOK
  <2>2. /\ Cardinality(always'[s]) <= Cardinality(always[s])
        /\ Cardinality(always'[s]) \in Nat /\ Cardinality(always[s]) \in Nat
    BY <2>1, SlotSets
  <2> QED
    BY <1>6, <2>1, <2>2 DEF GaugeInv, ActiveCurrent
<1> QED
  BY <1>1, <1>3, <1>4, <1>5, <1>6 DEF GaugeInv, ActiveCurrent

\* A refresh begins: its window is that of the unfinished counts, cut to what is active.
LEMMA ScrapeBeginsKeeps ==
  ASSUME TypeOK, GaugeInv, NEW s \in Scrapers, ScrapeBegins(s) PROVE GaugeInv'
<1>1. /\ spc[s] = "idle" /\ spc' = [spc EXCEPT ![s] = "count"]
      /\ UNCHANGED <<active, wansActive, next, count>>
      /\ always' = [always EXCEPT ![s] = {i \in active : \A r \in Unfinished : i \in always[r]}]
      /\ ever' = [ever EXCEPT ![s] = active \cup UNION {ever[r] : r \in Unfinished}]
  BY DEF ScrapeBegins, Advance, poolVars
<1>2. /\ Refreshing' = Refreshing \cup {s} /\ Unfinished' = Unfinished \cup {s}
      /\ s \notin Refreshing /\ Unfinished \subseteq Refreshing /\ Refreshing \subseteq Scrapers
  BY <1>1 DEF TypeOK, Refreshing, Unfinished
<1>3. \A r \in Refreshing : always'[r] = always[r] /\ ever'[r] = ever[r]
  BY <1>1, <1>2 DEF TypeOK
<1>4. /\ always'[s] = {i \in active : \A r \in Unfinished : i \in always[r]}
      /\ ever'[s] = active \cup UNION {ever[r] : r \in Unfinished}
  BY <1>1 DEF TypeOK
<1>5. \A r \in Refreshing : /\ always[r] \subseteq active /\ active \subseteq ever[r]
                            /\ \A u \in Unfinished : /\ always[r] \subseteq always[u]
                                                      /\ ever[u] \subseteq ever[r]
  BY <1>2 DEF GaugeInv, WindowOK, OverlapOK
<1>6. \A r \in Refreshing : always[r] \subseteq always'[s] /\ ever'[s] \subseteq ever[r]
  BY <1>4, <1>5
<1>7. \A u \in Unfinished : always'[s] \subseteq always[u] /\ ever[u] \subseteq ever'[s]
  BY <1>4
<1>8. OverlapOK'
  BY <1>2, <1>3, <1>5, <1>6, <1>7 DEF OverlapOK
<1>9. ASSUME NEW r \in Scrapers PROVE WindowOK(r)'
  BY <1>1, <1>2, <1>3, <1>4, <1>5 DEF WindowOK
<1>10. ASSUME NEW r \in Scrapers PROVE CountOK(r)'
  <2>1. CASE r # s
    <3>1. spc'[r] = spc[r] /\ always'[r] = always[r] /\ ever'[r] = ever[r]
      BY <1>1, <2>1 DEF TypeOK
    <3> QED
      BY <1>1, <3>1 DEF GaugeInv, CountOK, Seen
  <2>2. CASE r = s
    <3>1. next[s] = 0 /\ count[s] = 0
      BY <1>1 DEF GaugeInv, CountOK
    <3>2. Seen(s)' = {} 
      BY <1>1, <3>1 DEF Seen
    <3>3. Cardinality(always'[s] \cap {}) = 0 /\ Cardinality(ever'[s] \cap {}) = 0
      <4>1. always'[s] \cap {} = {} /\ ever'[s] \cap {} = {}
        OBVIOUS
      <4> QED
        BY <4>1, FS_EmptySet
    <3> QED
      BY <1>1, <2>2, <3>1, <3>2, <3>3 DEF CountOK
  <2> QED
    BY <2>1, <2>2
<1>11. ActiveCurrent'
  <2>1. \A r \in Scrapers : spc'[r] = "gauges" => /\ spc[r] = "gauges"
                                                  /\ always'[r] = always[r] /\ ever'[r] = ever[r]
    BY <1>1 DEF TypeOK
  <2> QED
    BY <1>1, <2>1 DEF GaugeInv, ActiveCurrent
<1> QED
  BY <1>8, <1>9, <1>10, <1>11 DEF GaugeInv

\* One more slot is looked at: counted, it has been in service at some time; not counted,
\* it has not been all the time.
LEMMA CountSlotKeeps ==
  ASSUME TypeOK, GaugeInv, NEW s \in Scrapers, CountSlot(s) PROVE GaugeInv'
<1> DEFINE i == next[s]
<1>1. /\ spc[s] = "count" /\ i < WanCount
      /\ count' = [count EXCEPT ![s] = IF i \in active THEN @ + 1 ELSE @]
      /\ next' = [next EXCEPT ![s] = @ + 1]
      /\ UNCHANGED <<active, wansActive, spc, always, ever>>
  BY DEF CountSlot, poolVars
<1>2. OverlapOK' /\ ActiveCurrent' /\ \A r \in Scrapers : WindowOK(r)'
  BY <1>1 DEF GaugeInv, OverlapOK, ActiveCurrent, WindowOK, Refreshing, Unfinished
<1>3. ASSUME NEW r \in Scrapers PROVE CountOK(r)'
  <2>1. CASE r # s
    <3>1. next'[r] = next[r] /\ count'[r] = count[r]
      BY <1>1, <2>1 DEF TypeOK
    <3> QED
      BY <1>1, <3>1 DEF GaugeInv, CountOK, Seen
  <2>2. CASE r = s
    <3> DEFINE a == Cardinality(always[s] \cap Seen(s))
               e == Cardinality(ever[s] \cap Seen(s))
    <3>1. /\ i \in Nat /\ next'[s] = i + 1 /\ count[s] \in Nat
          /\ count'[s] = IF i \in active THEN count[s] + 1 ELSE count[s]
      BY <1>1 DEF TypeOK
    <3>2. Seen(s)' = 0 .. i /\ Seen(s) = 0 .. i - 1
      BY <3>1 DEF Seen
    <3>3. (i \in always[s] => i \in active) /\ (i \in active => i \in ever[s])
      BY <1>1 DEF GaugeInv, WindowOK, Refreshing
    <3>4. always[s] \in SUBSET Slots /\ ever[s] \in SUBSET Slots
      BY DEF TypeOK
    <3>5. /\ a \in Nat /\ e \in Nat
          /\ Cardinality(always[s] \cap (0 .. i)) = IF i \in always[s] THEN a + 1 ELSE a
          /\ Cardinality(ever[s] \cap (0 .. i)) = IF i \in ever[s] THEN e + 1 ELSE e
      <4>1. ASSUME NEW S \in SUBSET Slots
            PROVE  /\ Cardinality(S \cap Seen(s)) \in Nat
                   /\ Cardinality(S \cap (0 .. i)) = IF i \in S THEN Cardinality(S \cap Seen(s)) + 1
                                                    ELSE Cardinality(S \cap Seen(s))
        <5> HIDE DEF i
        <5>1. /\ Cardinality(S \cap (0 .. i - 1)) \in Nat
              /\ Cardinality(S \cap (0 .. i)) = IF i \in S THEN Cardinality(S \cap (0 .. i - 1)) + 1
                                               ELSE Cardinality(S \cap (0 .. i - 1))
          BY <3>1, OneMoreSlot
        <5> QED
          BY <3>2, <5>1
      <4> QED
        BY <3>4, <4>1
    <3>6. a <= count[s] /\ count[s] <= e /\ count[s] <= i
      BY <1>1 DEF GaugeInv, CountOK
    <3> HIDE DEF a, e, i
    <3>7. Cardinality(always[s] \cap (0 .. i)) <= count'[s]
      BY <3>1, <3>3, <3>5, <3>6
    <3>8. count'[s] <= Cardinality(ever[s] \cap (0 .. i)) /\ count'[s] <= i + 1
      BY <3>1, <3>3, <3>5, <3>6
    <3> QED
      BY <1>1, <2>2, <3>1, <3>2, <3>7, <3>8 DEF CountOK
  <2> QED
    BY <2>1, <2>2
<1> QED
  BY <1>2, <1>3 DEF GaugeInv

\* The count is stored: it is right for the refresh that made it and for every other
\* that is about to print the gauge.
LEMMA RefreshGaugesKeeps ==
  ASSUME TypeOK, GaugeInv, NEW s \in Scrapers, RefreshGauges(s) PROVE GaugeInv'
<1>1. /\ spc[s] = "count" /\ next[s] = WanCount /\ wansActive' = count[s]
      /\ next' = [next EXCEPT ![s] = 0] /\ count' = [count EXCEPT ![s] = 0]
      /\ spc' = [spc EXCEPT ![s] = "gauges"] /\ UNCHANGED <<active, always, ever>>
  BY DEF RefreshGauges, Counted, Advance
<1>2. /\ Refreshing' = Refreshing /\ Unfinished' \subseteq Unfinished
      /\ s \in Unfinished /\ s \in Refreshing /\ Refreshing \subseteq Scrapers
  BY <1>1 DEF TypeOK, Refreshing, Unfinished
<1>3. OverlapOK' /\ \A r \in Scrapers : WindowOK(r)'
  BY <1>1, <1>2 DEF GaugeInv, OverlapOK, WindowOK
<1>4. ASSUME NEW r \in Scrapers PROVE CountOK(r)'
  <2>1. CASE r # s
    <3>1. next'[r] = next[r] /\ count'[r] = count[r] /\ spc'[r] = spc[r]
      BY <1>1, <2>1 DEF TypeOK
    <3> QED
      BY <1>1, <3>1 DEF GaugeInv, CountOK, Seen
  <2>2. CASE r = s
    BY <1>1, <2>2 DEF TypeOK, CountOK
  <2> QED
    BY <2>1, <2>2
<1>5. Cardinality(always[s]) <= count[s] /\ count[s] <= Cardinality(ever[s]) /\ count[s] \in Nat
  <2>1. Seen(s) = Slots
    BY <1>1 DEF Seen, Slots
  <2>2. always[s] \cap Seen(s) = always[s] /\ ever[s] \cap Seen(s) = ever[s]
    BY <2>1 DEF TypeOK
  <2> QED
    <3>1. /\ Cardinality(always[s] \cap Seen(s)) <= count[s]
          /\ count[s] <= Cardinality(ever[s] \cap Seen(s))
      BY <1>1 DEF GaugeInv, CountOK
    <3>2. count[s] \in Nat
      BY DEF TypeOK
    <3> QED
      BY <2>2, <3>1, <3>2
<1>6. ASSUME NEW r \in Scrapers, spc'[r] = "gauges"
      PROVE  Cardinality(always[r]) <= count[s] /\ count[s] <= Cardinality(ever[r])
  <2>1. r \in Refreshing
    BY <1>2, <1>6 DEF Refreshing
  <2>2. always[r] \subseteq always[s] /\ ever[s] \subseteq ever[r]
    BY <1>2, <2>1 DEF GaugeInv, OverlapOK
  <2>3. always[s] \in SUBSET Slots /\ ever[r] \in SUBSET Slots
    BY DEF TypeOK
  <2>4. /\ Cardinality(always[r]) <= Cardinality(always[s])
        /\ Cardinality(always[r]) \in Nat /\ Cardinality(always[s]) \in Nat
    BY <2>2, <2>3, SlotSets
  <2>5. /\ Cardinality(ever[s]) <= Cardinality(ever[r])
        /\ Cardinality(ever[s]) \in Nat /\ Cardinality(ever[r]) \in Nat
    BY <2>2, <2>3, SlotSets
  <2> QED
    BY <1>5, <2>4, <2>5
<1> QED
  BY <1>1, <1>3, <1>4, <1>6 DEF GaugeInv, ActiveCurrent

\* The gauge is printed: the refresh is over.
LEMMA PrintGaugesKeeps ==
  ASSUME TypeOK, GaugeInv, NEW s \in Scrapers, PrintGauges(s) PROVE GaugeInv'
<1>1. /\ spc[s] = "gauges" /\ spc' = [spc EXCEPT ![s] = "write"]
      /\ always' = [always EXCEPT ![s] = {}] /\ ever' = [ever EXCEPT ![s] = {}]
      /\ UNCHANGED <<active, wansActive, next, count>>
  BY DEF PrintGauges, Advance, poolVars
<1>2. spc'[s] = "write" /\ \A r \in Scrapers \ {s} :
        spc'[r] = spc[r] /\ always'[r] = always[r] /\ ever'[r] = ever[r]
  BY <1>1 DEF TypeOK
<1>3. Refreshing' = Refreshing \ {s} /\ Unfinished' = Unfinished /\ s \notin Unfinished
  BY <1>1, <1>2 DEF Refreshing, Unfinished
<1>4. OverlapOK' /\ ActiveCurrent'
  BY <1>1, <1>2, <1>3 DEF GaugeInv, OverlapOK, ActiveCurrent, Refreshing, Unfinished
<1>5. ASSUME NEW r \in Scrapers PROVE CountOK(r)' /\ WindowOK(r)'
  BY <1>1, <1>2, <1>3 DEF GaugeInv, CountOK, WindowOK, Refreshing, Seen
<1> QED
  BY <1>4, <1>5 DEF GaugeInv

\* The lines that follow, and the end of the scrape, have no part in it.
LEMMA WriteKeeps ==
  ASSUME TypeOK, GaugeInv, NEW s \in Scrapers, PrintLine(s) \/ ScrapeEnds(s) PROVE GaugeInv'
<1>1. UNCHANGED <<active, wansActive, next, count, always, ever>>
  BY DEF PrintLine, ScrapeEnds, poolVars, countVars
<1>2. \A r \in Scrapers : spc'[r] = spc[r] \/ (spc[r] = "write" /\ spc'[r] = "idle")
  BY DEF PrintLine, ScrapeEnds, Advance, TypeOK
<1>3. Refreshing' = Refreshing /\ Unfinished' = Unfinished
  BY <1>2 DEF Refreshing, Unfinished
<1> QED
  BY <1>1, <1>2, <1>3
  DEF GaugeInv, OverlapOK, ActiveCurrent, CountOK, WindowOK, Refreshing, Unfinished, Seen

----------------------------------------------------------------------------
(* The theorems.                                                           *)

\* Every step keeps the types: the mutex and the count in particular stay in range.
LEMMA TypeKeeps == TypeOK /\ GaugeInv /\ [Next]_vars => TypeOK'
<1> SUFFICES ASSUME TypeOK, GaugeInv, [Next]_vars PROVE TypeOK'
  OBVIOUS
<1> USE DEF TypeOK, histVars, poolVars, countVars, scrapeVars
<1>1. ASSUME NEW o \in Observers, Observe(o) PROVE TypeOK'
  <2>1. PICK v \in Cells :
          /\ todo' = [todo EXCEPT ![o] = {Inf} \cup {k \in 1 .. Buckets : v <= k}]
          /\ due' = [k \in Cells |-> IF v <= k THEN due[k] + 1 ELSE due[k]]
    BY <1>1 DEF Observe, Observed, Due
  <2>2. {Inf} \cup {k \in 1 .. Buckets : v <= k} \subseteq Cells
    BY BucketsAssumption DEF Cells, Inf
  <2>3. todo' \in [Observers -> SUBSET Cells] /\ due' \in [Cells -> Nat]
    BY <2>1, <2>2
  <2> QED
    BY <1>1, <2>3 DEF Observe
<1>2. ASSUME NEW o \in Observers, Load(o) \/ Store(o) PROVE TypeOK'
  <2>1. CASE Load(o)
    BY <2>1 DEF Load
  <2>2. CASE Store(o)
    <3>1. NoLoad \in [cell: Cells \cup {0}, value: Nat]
      BY DEF NoLoad
    <3>2. loaded' \in [Observers -> [cell: Cells \cup {0}, value: Nat]]
      BY <2>2, <3>1 DEF Store
    <3>3. loaded[o].value + 1 \in Nat
      OBVIOUS
    <3>4. cell' \in [Cells -> Nat] /\ todo' \in [Observers -> SUBSET Cells]
      BY <2>2, <3>3 DEF Store
    <3> QED
      BY <2>2, <3>2, <3>4 DEF Store
  <2> QED
    BY <1>2, <2>1, <2>2
<1>3. ASSUME NEW o \in Observers, Unlock(o) PROVE TypeOK'
  BY <1>3 DEF Unlock
<1>4. ASSUME NEW i \in Slots, SlotActivated(i) \/ SlotReset(i) PROVE TypeOK'
  BY <1>4 DEF SlotActivated, SlotReset
<1>5. ASSUME NEW s \in Scrapers, ScrapeBegins(s) PROVE TypeOK'
  BY <1>5 DEF ScrapeBegins, Advance, Unfinished
<1>6. ASSUME NEW s \in Scrapers, CountSlot(s) PROVE TypeOK'
  <2>1. count[s] \in 0 .. WanCount /\ next[s] \in 0 .. WanCount - 1 /\ count[s] <= next[s]
    <3>1. CountOK(s)
      BY DEF GaugeInv
    <3> QED
      BY <1>6, <3>1, WanCountAssumption DEF CountSlot, CountOK
  <2>2. count[s] + 1 \in 0 .. WanCount /\ next[s] + 1 \in 0 .. WanCount
    BY <2>1, WanCountAssumption
  <2>3. count' \in [Scrapers -> 0 .. WanCount] /\ next' \in [Scrapers -> 0 .. WanCount]
    BY <1>6, <2>1, <2>2 DEF CountSlot
  <2> QED
    BY <1>6, <2>3 DEF CountSlot
<1>7. ASSUME NEW s \in Scrapers, RefreshGauges(s) PROVE TypeOK'
  BY <1>7, WanCountAssumption DEF RefreshGauges, Counted, Advance
<1>8. ASSUME NEW s \in Scrapers, PrintGauges(s) PROVE TypeOK'
  BY <1>8 DEF PrintGauges, Advance
<1>9. ASSUME NEW s \in Scrapers, PrintLine(s) PROVE TypeOK'
  <2>1. line[s] \in Lines /\ cell[CellOf(line[s])] \in Nat
    BY <1>9, LineHasCell DEF PrintLine
  <2>2. line[s] + 1 \in 1 .. Inf + 2
    BY <2>1, BucketsAssumption DEF Lines, Inf
  <2>3. out' \in [Scrapers -> [Lines -> Nat]] /\ line' \in [Scrapers -> 1 .. Inf + 2]
    BY <1>9, <2>1, <2>2 DEF PrintLine
  <2> QED
    BY <1>9, <2>3 DEF PrintLine
<1>10. ASSUME NEW s \in Scrapers, ScrapeEnds(s) PROVE TypeOK'
  BY <1>10, BucketsAssumption DEF ScrapeEnds, Advance, Unprinted, Inf
<1>11. CASE UNCHANGED vars
  BY <1>11 DEF vars
<1> QED
  BY <1>1, <1>2, <1>3, <1>4, <1>5, <1>6, <1>7, <1>8, <1>9, <1>10, <1>11 DEF Next

\* The invariant holds in every state of the registry.
LEMMA MetricsInvariant == Spec => []MetricsInv
<1>1. Init => MetricsInv
  <2> SUFFICES ASSUME Init PROVE MetricsInv
    OBVIOUS
  <2>1. TypeOK
    BY BucketsAssumption, WanCountAssumption DEF Init, TypeOK, NoLoad, Unprinted, Inf
  <2>2. HistInv
    BY BucketsAssumption
    DEF Init, HistInv, OneWriter, LoadOK, CellsOK, Pending, Cumulative, LinesOK, Printed
  <2>3. GaugeInv
    BY DEF Init, GaugeInv, OverlapOK, ActiveCurrent, CountOK, WindowOK, Refreshing, Unfinished
  <2> QED
    BY <2>1, <2>2, <2>3 DEF MetricsInv
<1>2. MetricsInv /\ [Next]_vars => MetricsInv'
  <2> SUFFICES ASSUME TypeOK, HistInv, GaugeInv, [Next]_vars PROVE MetricsInv'
    BY DEF MetricsInv
  <2>0. TypeOK'
    BY TypeKeeps
  <2>1. ASSUME NEW o \in Observers, Observe(o) \/ Load(o) \/ Store(o) \/ Unlock(o)
        PROVE  HistInv' /\ GaugeInv'
    <3>1. UNCHANGED <<poolVars, spc, countVars>>
      BY <2>1 DEF Observe, Load, Store, Unlock, scrapeVars
    <3> QED
      BY <2>1, <3>1, ObserveKeeps, LoadKeeps, StoreKeeps, UnlockKeeps, GaugeUntouched
  <2>2. ASSUME NEW i \in Slots, SlotActivated(i) \/ SlotReset(i)
        PROVE  HistInv' /\ GaugeInv'
    <3>1. UNCHANGED <<histVars, line, out>> /\ spc' = spc
      BY <2>2 DEF SlotActivated, SlotReset
    <3> QED
      BY <2>2, <3>1, HistUntouched, ActivatedKeeps, ResetKeeps
  <2>3. ASSUME NEW s \in Scrapers,
               ScrapeBegins(s) \/ CountSlot(s) \/ RefreshGauges(s) \/ PrintGauges(s)
        PROVE  HistInv' /\ GaugeInv'
    <3>1. UNCHANGED <<histVars, line, out>>
      BY <2>3 DEF ScrapeBegins, CountSlot, RefreshGauges, Counted, PrintGauges
    <3>2. \A r \in Scrapers : /\ spc'[r] = "write" => spc[r] = "write" \/ spc[r] = "gauges"
                              /\ spc[r] = "write" => spc'[r] = "write"
      BY <2>3 DEF ScrapeBegins, CountSlot, RefreshGauges, Counted, PrintGauges, Advance, TypeOK
    <3>3. \A r \in Scrapers : spc[r] = "gauges" => line[r] = 1
      BY DEF HistInv, LinesOK
    <3>4. HistInv'
      <4>1. \A r \in Scrapers : spc'[r] = "write" => spc[r] = "write" \/ line[r] = 1
        BY <3>2, <3>3
      <4>2. \A r \in Scrapers : spc[r] = "write" => spc'[r] = "write"
        BY <3>2
      <4> QED
        BY <3>1, <4>1, <4>2, HistUntouched
    <3> QED
      BY <2>3, <3>4, ScrapeBeginsKeeps, CountSlotKeeps, RefreshGaugesKeeps, PrintGaugesKeeps
  <2>4. ASSUME NEW s \in Scrapers, PrintLine(s) \/ ScrapeEnds(s)
        PROVE  HistInv' /\ GaugeInv'
    BY <2>4, PrintLineKeeps, ScrapeEndsKeeps, WriteKeeps
  <2>5. CASE UNCHANGED vars
    <3>1. UNCHANGED <<histVars, line, out>> /\ spc' = spc /\ UNCHANGED <<poolVars, spc, countVars>>
      BY <2>5 DEF vars, scrapeVars
    <3> QED
      BY <3>1, <2>0, HistUntouched, GaugeUntouched DEF MetricsInv
  <2> QED
    BY <2>0, <2>1, <2>2, <2>3, <2>4, <2>5 DEF Next, MetricsInv
<1> QED
  BY <1>1, <1>2, PTL DEF Spec

\* A scrape that races with observations prints a histogram whose lines are out of step
\* by at most one, for any number of buckets and observers (writeTo reads without the
\* mutex that Observe holds).
THEOREM ScrapeSkewBounded == Spec => []SkewAtMostOne
<1>1. MetricsInv => SkewAtMostOne
  BY DEF MetricsInv, HistInv, LinesOK, SkewAtMostOne
<1> QED
  BY <1>1, MetricsInvariant, PTL

\* With no observation under way every bucket holds what belongs to it: the number a
\* goroutine has read is still there when it stores one more, because only the holder of
\* the mutex has an increment under way (Observe).
THEOREM ObservationsCounted == Spec => []NothingLost
<1>1. MetricsInv => NothingLost
  <2> SUFFICES ASSUME MetricsInv, \A o \in Observers : todo[o] = {} PROVE cell = due
    BY DEF NothingLost
  <2>1. cell \in [Cells -> Nat] /\ due \in [Cells -> Nat]
    BY DEF MetricsInv, TypeOK
  <2>2. \A k \in Cells : Pending(k) = 0 /\ due[k] = cell[k] + Pending(k)
    BY DEF MetricsInv, HistInv, CellsOK, Pending
  <2>3. \A k \in Cells : due[k] = cell[k]
    BY <2>1, <2>2
  <2> QED
    BY <2>1, <2>3
<1> QED
  BY <1>1, MetricsInvariant, PTL

\* The number of active slots a scrape prints lies between the slots in service all the
\* time and those in service at some time since the scrape, or a count it overlaps with,
\* began, however many scrapes store torn counts over each other (refreshPoolMetrics).
THEOREM GaugeNeverOlder == Spec => []ActiveCurrent
<1>1. MetricsInv => ActiveCurrent
  BY DEF MetricsInv, GaugeInv
<1> QED
  BY <1>1, MetricsInvariant, PTL
==============================================================================
