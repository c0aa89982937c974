---------------------------- MODULE ScheduleProofs ----------------------------
(***************************************************************************)
(* Proofs about Schedule, for every interval, minimal grace period and     *)
(* bound on the duration of a cycle.                                       *)
(***************************************************************************)
EXTENDS Schedule, TLAPS

\* What the API shows at each point of the loop.
Shown ==
  /\ pc = "cycle" => nextIn = Unknown
  /\ pc = "reset" => nextIn = Interval
  /\ pc = "select" => nextIn # Unknown
  /\ pc = "select" /\ ~tick => nextIn = dueIn

\* The longest cycle that leaves no tick behind.
Short == Smaller(MaxCycle, Interval - 1)

\* A cycle during which the ticker has not fired began less than an interval ago.
NoTickYet == pc = "cycle" /\ ~tick => spent + dueIn <= Interval

\* How far a draining slot can be past its grace period, given where the loop is and
\* how long the ticker still has to wait.
Overdue ==
  age # Unknown =>
    /\ pc = "cycle" => age < gracePeriod + spent
    /\ pc = "reset" => age < gracePeriod + MaxCycle
    /\ pc = "reset" /\ ~tick => age < gracePeriod + Short
    /\ pc = "select" => age < gracePeriod + MaxGap
    /\ pc = "select" /\ ~tick => age + dueIn < gracePeriod + Short + Interval

Inv == TypeOK /\ Shown /\ NoTickYet /\ Overdue

----------------------------------------------------------------------------

\* Bounds on the derived quantities.
LEMMA Quantities ==
  /\ gracePeriod \in Nat \ {0}
  /\ Short \in 0 .. Interval - 1 /\ Short <= MaxCycle
  /\ MaxGap \in Nat /\ MaxCycle <= MaxGap /\ Interval + Short <= MaxGap
  /\ \A s \in Int : s < Interval /\ s <= MaxCycle => s <= Short
BY IntervalAssumption, MinGraceAssumption, MaxCycleAssumption
   DEF gracePeriod, Short, MaxGap, Smaller, Larger

\* A cycle starts in the same way for a tick and for a request.
LEMMA Starts ==
  ASSUME TypeOK, SelectTick \/ SelectTrigger
  PROVE  StartCycle /\ pc = "select" /\ tick' \in BOOLEAN /\ trigger' \in BOOLEAN
BY Zenon DEF TypeOK, SelectTick, SelectTrigger

\* A unit of time that leaves the ticker's channel empty.
LEMMA Passes ==
  ASSUME TimePasses
  PROVE  /\ ~tick' => ~tick /\ dueIn # 1
         /\ Waiting /\ pc' = pc
         /\ dueIn' = (IF dueIn = 1 THEN Interval ELSE dueIn - 1)
         /\ nextIn' = Later(nextIn, -1) /\ age' = Later(age, 1)
         /\ spent' = IF pc = "cycle" THEN spent + 1 ELSE 0
<1>1. ~tick' => ~tick /\ dueIn # 1 BY Zenon DEF TimePasses
<1> QED BY <1>1 DEF TimePasses

LEMMA InitInv == Init => Inv
<1> SUFFICES ASSUME Init PROVE Inv
  OBVIOUS
<1>1. tick \in BOOLEAN /\ trigger \in BOOLEAN
  BY Zenon DEF Init
<1>2. /\ pc = "select" /\ dueIn = Interval /\ nextIn = Interval
      /\ spent = 0 /\ age = Unknown
  BY DEF Init
<1>3. TypeOK
  BY <1>1, <1>2, IntervalAssumption, MaxCycleAssumption DEF TypeOK
<1> QED
  BY <1>2, <1>3, IntervalAssumption, UnknownAssumption
     DEF Inv, Shown, NoTickYet, Overdue

LEMMA TypeStep == ASSUME Inv, [Next]_vars PROVE TypeOK'
<1> USE IntervalAssumption, MaxCycleAssumption, UnknownAssumption
    DEF Inv, TypeOK, Shown
<1>1. CASE SelectTick \/ SelectTrigger BY <1>1, Starts DEF StartCycle
<1>2. CASE CycleEnds BY <1>2 DEF CycleEnds
<1>3. CASE TickerReset BY <1>3 DEF TickerReset
<1>4. CASE TriggerCycle BY <1>4 DEF TriggerCycle
<1>5. CASE MarkDraining BY <1>5 DEF MarkDraining
<1>6. CASE TimePasses BY <1>6 DEF TimePasses, Waiting, Later
<1>7. CASE UNCHANGED vars BY <1>7 DEF vars
<1> QED BY <1>1, <1>2, <1>3, <1>4, <1>5, <1>6, <1>7 DEF Next

LEMMA ShownStep == ASSUME Inv, [Next]_vars PROVE Shown'
<1> USE IntervalAssumption, MaxCycleAssumption, UnknownAssumption
    DEF Inv, TypeOK, Shown
<1>1. CASE SelectTick \/ SelectTrigger BY <1>1, Starts DEF StartCycle
<1>2. CASE CycleEnds BY <1>2 DEF CycleEnds
<1>3. CASE TickerReset BY <1>3 DEF TickerReset
<1>4. CASE TriggerCycle BY <1>4 DEF TriggerCycle
<1>5. CASE MarkDraining BY <1>5 DEF MarkDraining
<1>6. CASE TimePasses BY <1>6, Passes DEF Waiting, Later
<1>7. CASE UNCHANGED vars BY <1>7 DEF vars
<1> QED BY <1>1, <1>2, <1>3, <1>4, <1>5, <1>6, <1>7 DEF Next

LEMMA NoTickYetStep == ASSUME Inv, [Next]_vars PROVE NoTickYet'
<1> USE IntervalAssumption, MaxCycleAssumption DEF Inv, TypeOK, NoTickYet
<1>1. CASE SelectTick \/ SelectTrigger BY <1>1, Starts DEF StartCycle
<1>2. CASE CycleEnds BY <1>2 DEF CycleEnds
<1>3. CASE TickerReset BY <1>3 DEF TickerReset
<1>4. CASE TriggerCycle BY <1>4 DEF TriggerCycle
<1>5. CASE MarkDraining BY <1>5 DEF MarkDraining
<1>6. CASE TimePasses BY <1>6, Passes DEF Waiting
<1>7. CASE UNCHANGED vars BY <1>7 DEF vars
<1> QED BY <1>1, <1>2, <1>3, <1>4, <1>5, <1>6, <1>7 DEF Next

LEMMA OverdueStep == ASSUME Inv, [Next]_vars PROVE Overdue'
<1>0. /\ TypeOK /\ NoTickYet /\ Overdue
      /\ Interval \in Nat \ {0} /\ MaxCycle \in Nat /\ Unknown \notin Int
      BY IntervalAssumption, MaxCycleAssumption, UnknownAssumption DEF Inv
\* The start of a cycle removes the slot, or it is still within its grace period.
<1>1. CASE SelectTick \/ SelectTrigger
  BY <1>0, <1>1, Starts, Quantities DEF StartCycle, Expired, TypeOK, Overdue
\* A cycle without a tick was short.
<1>2. CASE CycleEnds
  <2>1. ~tick => spent <= Short
    BY <1>0, <1>2, Quantities DEF CycleEnds, TypeOK, NoTickYet
  <2> QED BY <1>0, <1>2, <2>1, Quantities DEF CycleEnds, TypeOK, Overdue
<1>3. CASE TickerReset
  BY <1>0, <1>3, Quantities DEF TickerReset, TypeOK, Overdue
<1>4. CASE TriggerCycle
  BY <1>0, <1>4 DEF TriggerCycle, TypeOK, Overdue
<1>5. CASE MarkDraining
  BY <1>0, <1>5, Quantities DEF MarkDraining, TypeOK, Overdue
\* In select the ticker has less to wait by what the slot grows older.
<1>6. CASE TimePasses
  BY <1>0, <1>6, Passes, Quantities DEF Waiting, Later, TypeOK, Overdue
<1>7. CASE UNCHANGED vars
  BY <1>0, <1>7 DEF vars, Overdue
<1> QED BY <1>1, <1>2, <1>3, <1>4, <1>5, <1>6, <1>7 DEF Next

LEMMA Invariance == Spec => []Inv
<1>1. Inv /\ [Next]_vars => Inv'
  BY TypeStep, ShownStep, NoTickYetStep, OverdueStep DEF Inv
<1> QED BY InitInv, <1>1, PTL DEF Spec

----------------------------------------------------------------------------

\* For every interval and every length of cycles the times of the loop keep their
\* ranges: the ticker is never overdue by more than a tick in its channel, and the API
\* never shows a time that has passed (runLoop, markCycleStarted, markCycleComplete).
THEOREM ScheduleTypeCorrect == Spec => []TypeOK
<1>1. Inv => TypeOK BY DEF Inv
<1> QED BY Invariance, <1>1, PTL

\* While runLoop waits with an empty ticker channel, the time shown for the next cycle
\* is the ticker's, whatever started the cycles before and however long they took.
THEOREM ShownTimeIsTickers == Spec => []NextIsTicker
<1>1. Inv => NextIsTicker BY DEF Inv, Shown, NextIsTicker
<1> QED BY Invariance, <1>1, PTL

\* For every FETCH_INTERVAL and every bound on the duration of cycles, a draining slot
\* is removed less than MaxGap after the end of its grace period (DrainExpired).
THEOREM DrainingEndsInTime == Spec => []DrainBounded
<1>1. Inv => DrainBounded
  BY Quantities, UnknownAssumption, MaxCycleAssumption DEF Inv, TypeOK, Overdue, DrainBounded
<1> QED BY Invariance, <1>1, PTL
=============================================================================
