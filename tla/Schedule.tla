------------------------------- MODULE Schedule -------------------------------
(***************************************************************************)
(* When cycles run: the ticker and the trigger of runLoop, the times that  *)
(* runCycle publishes and the API shows, and the grace period of draining  *)
(* slots (main.go, api.go).                                                *)
(*                                                                         *)
(* Time is counted in units and relative to now, so that the states repeat *)
(* for ever.  The ticker is that of Go 1.21: its channel holds one tick,   *)
(* further ones are dropped, and Reset leaves a tick in the channel.  The  *)
(* loop reacts at once, that is before a unit of time has passed.          *)
(***************************************************************************)
EXTENDS Integers

CONSTANTS Interval,   \* FETCH_INTERVAL
          MinGrace,   \* 60 seconds
          MaxCycle,   \* assumed bound on the duration of a cycle
          Unknown     \* the zero time

ASSUME IntervalAssumption == Interval \in Nat \ {0}
ASSUME MinGraceAssumption == MinGrace \in Nat
ASSUME MaxCycleAssumption == MaxCycle \in Nat
ASSUME UnknownAssumption == Unknown \notin Int

VARIABLES
  pc,        \* the loop: waiting in select, in a cycle, before ticker.Reset
  tick,      \* the ticker's channel holds a tick
  trigger,   \* the trigger's channel holds a request
  dueIn,     \* time until the ticker fires
  nextIn,    \* time until nextCycle, as the API shows it
  spent,     \* time since the cycle began
  age        \* time since a slot was marked draining, Unknown if it is not

vars == <<pc, tick, trigger, dueIn, nextIn, spent, age>>

gracePeriod == IF 2 * Interval < MinGrace THEN MinGrace ELSE 2 * Interval

Smaller(a, b) == IF a < b THEN a ELSE b
Larger(a, b) == IF a < b THEN b ELSE a

\* The longest time from the start of a cycle to that of the next.  A cycle shorter
\* than the interval is followed by a full one; a longer cycle finds a tick waiting.
MaxGap == Larger(MaxCycle, Interval + Smaller(MaxCycle, Interval - 1))

TypeOK ==
  /\ pc \in {"select", "cycle", "reset"} /\ tick \in BOOLEAN /\ trigger \in BOOLEAN
  /\ dueIn \in 1 .. Interval /\ nextIn \in (0 .. Interval) \cup {Unknown}
  /\ spent \in 0 .. MaxCycle /\ age \in Nat \cup {Unknown}

\* runLoop makes its ticker and publishes the first time.
Init ==
  /\ pc = "select" /\ tick = FALSE /\ trigger = FALSE
  /\ dueIn = Interval /\ nextIn = Interval /\ spent = 0 /\ age = Unknown

----------------------------------------------------------------------------
(* The loop.                                                               *)

\* A slot whose grace period is just over is kept.
ExpiredLate == age # Unknown /\ age > gracePeriod

\* The slot is due for removal.
Expired == age # Unknown /\ age >= gracePeriod

\* markCycleStarted; then the expired slots are reset.
StartCycle ==
  /\ pc' = "cycle" /\ nextIn' = Unknown /\ spent' = 0
  /\ age' = IF Expired THEN Unknown ELSE age
  /\ UNCHANGED dueIn

SelectTick == pc = "select" /\ tick /\ tick' = FALSE /\ StartCycle /\ UNCHANGED trigger

SelectTrigger == pc = "select" /\ trigger /\ trigger' = FALSE /\ StartCycle /\ UNCHANGED tick

\* The deferred markCycleComplete, however the cycle went.
CycleEnds ==
  /\ pc = "cycle" /\ pc' = "reset"
  /\ nextIn' = Interval /\ spent' = 0
  /\ UNCHANGED <<tick, trigger, dueIn, age>>

\* A loop that lets the ticker run on.
TickerNotReset ==
  /\ pc = "reset" /\ pc' = "select"
  /\ UNCHANGED <<tick, trigger, dueIn, nextIn, spent, age>>

\* ticker.Reset: a full interval from now; the channel is left as it is.
TickerReset ==
  /\ pc = "reset" /\ pc' = "select"
  /\ dueIn' = Interval
  /\ UNCHANGED <<tick, trigger, nextIn, spent, age>>

----------------------------------------------------------------------------
(* Around it.                                                              *)

\* handleTriggerCycle: a request finds the channel empty or is dropped.
TriggerCycle ==
  /\ ~trigger /\ trigger' = TRUE
  /\ UNCHANGED <<pc, tick, dueIn, nextIn, spent, age>>

\* Keepalive, a drop or the cycle itself marks the slot draining.
MarkDraining ==
  /\ age = Unknown /\ age' = 0
  /\ UNCHANGED <<pc, tick, trigger, dueIn, nextIn, spent>>

\* The loop has nothing to do but to wait.
Waiting == (pc = "select" /\ ~tick /\ ~trigger) \/ (pc = "cycle" /\ spent < MaxCycle)

Later(t, d) == IF t = Unknown THEN Unknown ELSE t + d

\* A timer instead of a ticker: it fires once.
TimePassesOnce ==
  /\ Waiting
  /\ dueIn' = dueIn - 1 /\ tick' = (tick \/ dueIn = 1)
  /\ nextIn' = Later(nextIn, -1) /\ age' = Later(age, 1)
  /\ spent' = IF pc = "cycle" THEN spent + 1 ELSE 0
  /\ UNCHANGED <<pc, trigger>>

TimePasses ==
  /\ Waiting
  /\ dueIn' = (IF dueIn = 1 THEN Interval ELSE dueIn - 1) /\ tick' = (tick \/ dueIn = 1)
  /\ nextIn' = Later(nextIn, -1) /\ age' = Later(age, 1)
  /\ spent' = IF pc = "cycle" THEN spent + 1 ELSE 0
  /\ UNCHANGED <<pc, trigger>>

Next ==
  \/ SelectTick \/ SelectTrigger \/ CycleEnds \/ TickerReset
  \/ TriggerCycle \/ MarkDraining \/ TimePasses

Spec == Init /\ [][Next]_vars

----------------------------------------------------------------------------
(* Properties.                                                             *)

\* While the loop waits, the time the API shows for the next cycle is that at which
\* the ticker will fire, after manual cycles and after cycles that took longer than
\* the interval too (runLoop: "matches the ticker's actual schedule").
NextIsTicker == pc = "select" /\ ~tick => nextIn = dueIn

\* A draining slot outlives its grace period by less than the longest time between two
\* cycles: only the start of a cycle removes it (DrainExpired, runCycle).
DrainBounded == age # Unknown => age < gracePeriod + MaxGap
=============================================================================
