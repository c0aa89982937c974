---------------------------- MODULE CandidatePool ----------------------------
(***************************************************************************)
(* The candidate pool of candidate.go: test results in order of speed, at  *)
(* most maxLen of them, and the raw URIs that drops have excluded.  Every  *)
(* method holds the pool's mutex from its first line to its last, so a     *)
(* method is one step.                                                     *)
(***************************************************************************)
EXTENDS Integers, Sequences, Functions

CONSTANTS Configs, NoConfig, Speeds, MaxLen,
          Batches   \* the slices of results one cycle may hand to Update

ASSUME MaxLenAssumption == MaxLen \in Nat \ {0}

\* A failed test has no speed.
Results == [config: Configs, ok: {TRUE}, speed: Speeds]
             \cup [config: Configs, ok: {FALSE}, speed: {0}]

ASSUME BatchesAssumption == Speeds \subseteq Nat /\ Batches \subseteq Seq(Results)

VARIABLES list,      \* CandidatePool.candidates
          excluded,  \* CandidatePool.excluded
          seen       \* history: every result that was ever merged

vars == <<list, excluded, seen>>

Init == list = <<>> /\ excluded = {} /\ seen = {}

Entries(s) == {s[k] : k \in DOMAIN s}

\* A comparison that forgets the speed.
BeforeByOutcome(x, y) == x.ok /\ ~y.ok

\* A comparison that sorts by speed alone.
BeforeBySpeed(x, y) == x.speed > y.speed

\* The comparison function handed to sort.Slice.
Before(x, y) == (x.ok /\ ~y.ok) \/ (x.ok = y.ok /\ x.speed > y.speed)

\* sort.Slice is not stable: any permutation without an inversion.
Sortings(s) ==
  {t \in {[k \in DOMAIN s |-> s[f[k]]] : f \in Bijection(DOMAIN s, DOMAIN s)} :
     \A j, k \in DOMAIN t : j < k => ~Before(t[k], t[j])}

\* A trim that is late by one.
TrimLate(s) == IF Len(s) > MaxLen + 1 THEN SubSeq(s, 1, MaxLen) ELSE s

Trim(s) == IF Len(s) > MaxLen THEN SubSeq(s, 1, MaxLen) ELSE s

\* Merge, sort, trim.
Update(results) ==
  /\ \E s \in Sortings(list \o results) : list' = Trim(s)
  /\ seen' = seen \cup {r \in Entries(results) : r.ok}
  /\ UNCHANGED excluded

Exclude(c) ==
  /\ excluded' = excluded \cup {c}
  /\ UNCHANGED <<list, seen>>

Eligible(r) == r.ok /\ r.config \notin excluded

\* The first entry of the list that is neither failed nor excluded, or nil.
NoEntry == [config |-> NoConfig, ok |-> FALSE, speed |-> 0]

Best ==
  IF \E k \in DOMAIN list : Eligible(list[k])
  THEN list[CHOOSE k \in DOMAIN list :
              Eligible(list[k]) /\ \A j \in 1 .. k - 1 : ~Eligible(list[j])]
  ELSE NoEntry

Next ==
  \/ \E results \in Batches : Update(results)
  \/ \E c \in Configs : Exclude(c)

Spec == Init /\ [][Next]_vars

----------------------------------------------------------------------------

TypeOK ==
  /\ list \in Seq(Results) /\ Len(list) <= MaxLen
  /\ excluded \subseteq Configs
  /\ seen \subseteq Results

\* What Best offers to a drop is the fastest of all results any cycle ever
\* measured for a config that is not excluded, although the pool holds only
\* MaxLen entries, excluded and failed ones included: trimming never costs a
\* faster eligible candidate while a slower one is kept.
BestIsFastestEver ==
  Best # NoEntry => \A r \in seen : Eligible(r) => r.speed <= Best.speed

\* The sorted, capped list with its excluded URIs is a candidate set.
Abstract == INSTANCE CandidateSet WITH
  candidates <- {r.config : r \in {x \in Entries(list) : x.ok}}

CandidateSetRefined == Abstract!Spec
=============================================================================
