---------------------------- MODULE CandidateSet ----------------------------
(***************************************************************************)
(* What the users of the candidate pool rely on: a set of configs that     *)
(* passed a test (failed results are never offered), a set of excluded     *)
(* configs that only grows, and updates that may forget candidates but     *)
(* never all of them.                                                      *)
(***************************************************************************)
CONSTANT Configs

VARIABLES candidates, excluded

vars == <<candidates, excluded>>

Init == candidates = {} /\ excluded = {}

\* Merge the configs of successful test results; the capacity of the pool
\* may force some entries out.
Update(new) ==
  /\ \E C \in SUBSET (candidates \cup new) :
       /\ C = {} => candidates \cup new = {}
       /\ candidates' = C
  /\ UNCHANGED excluded

Exclude(c) ==
  /\ excluded' = excluded \cup {c}
  /\ UNCHANGED candidates

\* The configs Best may return.
Eligible == candidates \ excluded

Next ==
  \/ \E new \in SUBSET Configs : Update(new)
  \/ \E c \in Configs : Exclude(c)

Spec == Init /\ [][Next]_vars
=============================================================================
