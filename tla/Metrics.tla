------------------------------- MODULE Metrics -------------------------------
(***************************************************************************)
(* The metrics registry (metrics.go) and the scrape that reads it          *)
(* (health.go).  Observe and Set change a metric under its mutex; writeTo  *)
(* takes the mutex only to collect the series and then reads every number  *)
(* without it, one line of output after the other.                         *)
(*                                                                         *)
(* One histogram stands for all.  The value of an observation is reduced   *)
(* to the first bucket it belongs to, and the counter s.count is the last  *)
(* bucket, le="+Inf".  An increment is a load and a later store.  Because  *)
(* writeTo races with Observe, the stores of one observation may become    *)
(* visible to it in any order; writeTo itself reads in program order (a    *)
(* call to Fprintf lies between two reads).                                *)
(***************************************************************************)
EXTENDS Integers, FiniteSets

CONSTANTS Buckets,    \* number of finite buckets (len(histogramBuckets))
          Observers,  \* goroutines that end a tunnel or a speed test
          Scrapers,   \* concurrent requests for /metrics
          NoObserver,
          MaxObs,     \* bound on the number of observations
          WanCount    \* number of WAN slots

ASSUME BucketsAssumption == Buckets \in Nat \ {0}
ASSUME ObserversAssumption == NoObserver \notin Observers
ASSUME MaxObsAssumption == MaxObs \in Nat
ASSUME WanCountAssumption == WanCount \in Nat

Slots == 0 .. WanCount - 1

Inf == Buckets + 1    \* the counter s.count
Cells == 1 .. Inf

\* The lines of a histogram in the order writeTo prints them: the buckets,
\* le="+Inf" and, after the sum, the count once more.
Lines == 1 .. Inf + 1
CellOf(n) == IF n > Inf THEN Inf ELSE n

VARIABLES
  cell,             \* the numbers of the series
  mu,               \* holder of Metric.mu
  todo,             \* per observer: cells its observation has still to increment
  loaded,           \* per observer: the cell it is incrementing, and the value it has read
  due,              \* per cell: the observations made that belong to it
  active, wansActive,   \* the slots in service, and the gauge that counts them
  spc, line, out,       \* per scraper: program point, next line to print, lines printed
  next, count,          \* per scraper: progress of ActiveCount, slots counted so far
  always, ever          \* per scraper: slots in service at all times, and at some time,
                        \* since it or an unfinished count it overlaps with began

histVars   == <<cell, mu, todo, loaded, due>>
poolVars   == <<active, wansActive>>
countVars  == <<next, count, always, ever>>
scrapeVars == <<spc, line, out, countVars>>
vars == <<histVars, poolVars, scrapeVars>>

NoLoad == [cell |-> 0, value |-> 0]

Unprinted == [n \in Lines |-> 0]

TypeOK ==
  /\ cell \in [Cells -> Nat] /\ mu \in Observers \cup {NoObserver}
  /\ todo \in [Observers -> SUBSET Cells] /\ due \in [Cells -> Nat]
  /\ loaded \in [Observers -> [cell: Cells \cup {0}, value: Nat]]
  /\ active \subseteq Slots /\ wansActive \in 0 .. WanCount
  /\ spc \in [Scrapers -> {"idle", "count", "gauges", "write"}]
  /\ line \in [Scrapers -> 1 .. Inf + 2] /\ out \in [Scrapers -> [Lines -> Nat]]
  /\ next \in [Scrapers -> 0 .. WanCount] /\ count \in [Scrapers -> 0 .. WanCount]
  /\ always \in [Scrapers -> SUBSET Slots] /\ ever \in [Scrapers -> SUBSET Slots]

Init ==
  /\ cell = [k \in Cells |-> 0] /\ mu = NoObserver
  /\ todo = [o \in Observers |-> {}] /\ due = [k \in Cells |-> 0]
  /\ loaded = [o \in Observers |-> NoLoad]
  /\ active = {} /\ wansActive = 0
  /\ spc = [s \in Scrapers |-> "idle"] /\ line = [s \in Scrapers |-> 1]
  /\ out = [s \in Scrapers |-> Unprinted]
  /\ next = [s \in Scrapers |-> 0] /\ count = [s \in Scrapers |-> 0]
  /\ always = [s \in Scrapers |-> {}] /\ ever = [s \in Scrapers |-> {}]

----------------------------------------------------------------------------
(* Observe.                                                                *)

\* A value whose first bucket is v belongs to v and to every bucket above.
Due(v) == due' = [k \in Cells |-> IF v <= k THEN due[k] + 1 ELSE due[k]]

\* The count, and every bucket whose bound the value does not exceed.
Observed(o) ==
  \E v \in Cells :
    todo' = [todo EXCEPT ![o] = {Inf} \cup {k \in 1 .. Buckets : v <= k}] /\ Due(v)

\* An Observe that does not wait for the mutex.
ObserveUnlocked(o) ==
  /\ todo[o] = {} /\ due[Inf] < MaxObs
  /\ mu' = o /\ Observed(o)
  /\ UNCHANGED <<cell, loaded, poolVars, scrapeVars>>

\* The mutex is taken.
Observe(o) ==
  /\ mu = NoObserver /\ due[Inf] < MaxObs
  /\ mu' = o /\ Observed(o)
  /\ UNCHANGED <<cell, loaded, poolVars, scrapeVars>>

\* A number is read, and stored one higher: the two halves of x++.
Load(o) ==
  /\ loaded[o] = NoLoad
  /\ \E k \in todo[o] : loaded' = [loaded EXCEPT ![o] = [cell |-> k, value |-> cell[k]]]
  /\ UNCHANGED <<cell, mu, todo, due, poolVars, scrapeVars>>

Store(o) ==
  /\ loaded[o] # NoLoad
  /\ cell' = [cell EXCEPT ![loaded[o].cell] = loaded[o].value + 1]
  /\ todo' = [todo EXCEPT ![o] = @ \ {loaded[o].cell}]
  /\ loaded' = [loaded EXCEPT ![o] = NoLoad]
  /\ UNCHANGED <<mu, due, poolVars, scrapeVars>>

Unlock(o) ==
  /\ mu = o /\ todo[o] = {}
  /\ mu' = NoObserver
  /\ UNCHANGED <<cell, todo, loaded, due, poolVars, scrapeVars>>

----------------------------------------------------------------------------
(* The pool the gauge describes: slots come into service and leave it.     *)

Unfinished == {s \in Scrapers : spc[s] = "count"}

SlotActivated(i) ==
  /\ i \notin active
  /\ active' = active \cup {i}
  /\ ever' = [s \in Scrapers |-> IF spc[s] \in {"count", "gauges"} THEN ever[s] \cup {i} ELSE {}]
  /\ UNCHANGED <<histVars, wansActive, spc, line, out, next, count, always>>

SlotReset(i) ==
  /\ i \in active
  /\ active' = active \ {i}
  /\ always' = [s \in Scrapers |-> always[s] \ {i}]
  /\ UNCHANGED <<histVars, wansActive, spc, line, out, next, count, ever>>

----------------------------------------------------------------------------
(* GET /metrics: refreshPoolMetrics, then Registry.Write.  The speed       *)
(* gauges, which the refresh stores the same way, are left out.            *)

Advance(s, p) == spc' = [spc EXCEPT ![s] = p]

ScrapeBegins(s) ==
  /\ spc[s] = "idle"
  /\ always' = [always EXCEPT ![s] = {i \in active : \A r \in Unfinished : i \in always[r]}]
  /\ ever' = [ever EXCEPT ![s] = active \cup UNION {ever[r] : r \in Unfinished}]
  /\ Advance(s, "count")
  /\ UNCHANGED <<histVars, poolVars, line, out, next, count>>

\* ActiveCount looks at the slots one after the other, each under its own lock.
CountSlot(s) ==
  /\ spc[s] = "count" /\ next[s] < WanCount
  /\ count' = [count EXCEPT ![s] = IF next[s] \in active THEN @ + 1 ELSE @]
  /\ next' = [next EXCEPT ![s] = @ + 1]
  /\ UNCHANGED <<histVars, poolVars, spc, line, out, always, ever>>

Counted(s) ==
  /\ spc[s] = "count" /\ next[s] = WanCount
  /\ next' = [next EXCEPT ![s] = 0] /\ count' = [count EXCEPT ![s] = 0]
  /\ Advance(s, "gauges")
  /\ UNCHANGED <<histVars, active, line, out, always, ever>>

\* A refresh that forgets the number of active slots.
RefreshGaugesForgotten(s) == Counted(s) /\ UNCHANGED wansActive

\* The count is stored in the gauge.
RefreshGauges(s) == Counted(s) /\ wansActive' = count[s]

\* The gauges are registered, and hence printed, before the histograms.
PrintGauges(s) ==
  /\ spc[s] = "gauges"
  /\ always' = [always EXCEPT ![s] = {}] /\ ever' = [ever EXCEPT ![s] = {}]
  /\ Advance(s, "write")
  /\ UNCHANGED <<histVars, poolVars, line, out, next, count>>

PrintLine(s) ==
  /\ spc[s] = "write" /\ line[s] \in Lines
  /\ out' = [out EXCEPT ![s][line[s]] = cell[CellOf(line[s])]]
  /\ line' = [line EXCEPT ![s] = @ + 1]
  /\ UNCHANGED <<histVars, poolVars, spc, countVars>>

ScrapeEnds(s) ==
  /\ spc[s] = "write" /\ line[s] \notin Lines
  /\ line' = [line EXCEPT ![s] = 1] /\ out' = [out EXCEPT ![s] = Unprinted]
  /\ Advance(s, "idle")
  /\ UNCHANGED <<histVars, poolVars, countVars>>

Next ==
  \/ \E o \in Observers : Observe(o) \/ Load(o) \/ Store(o) \/ Unlock(o)
  \/ \E i \in Slots : SlotActivated(i) \/ SlotReset(i)
  \/ \E s \in Scrapers : \/ ScrapeBegins(s) \/ CountSlot(s) \/ RefreshGauges(s)
                         \/ PrintGauges(s) \/ PrintLine(s) \/ ScrapeEnds(s)

Spec == Init /\ [][Next]_vars

----------------------------------------------------------------------------
(* Properties.                                                             *)

\* The lines scraper s has printed in this scrape.
Printed(s) == {n \in Lines : spc[s] = "write" /\ n < line[s]}

\* However a scrape interleaves with observations, a line exceeds a later one by
\* at most one: Observe holds the mutex over its stores, so no more than one
\* observation is half visible (writeTo, Observe).
SkewAtMostOne ==
  \A s \in Scrapers : \A m, n \in Printed(s) : m < n => out[s][m] <= out[s][n] + 1

\* With no observation under way every bucket holds exactly the observations that
\* belong to it: no increment of one goroutine is overwritten by another's, because
\* Observe holds Metric.mu from its first load to its last store.
NothingLost == (\A o \in Observers : todo[o] = {}) => cell = due

\* The number of active slots a scrape is about to print lies between the slots that
\* were in service all the time and those that were at some time, since it began or
\* since a count began that it overlaps with: a slow scrape may store its older, torn
\* count after a faster one stored its own, but nothing older is ever shown
\* (refreshPoolMetrics before Write, ActiveCount slot by slot).
ActiveCurrent ==
  \A s \in Scrapers : spc[s] = "gauges" =>
     Cardinality(always[s]) <= wansActive /\ wansActive <= Cardinality(ever[s])
=============================================================================
