--------------------------- MODULE RotationProofs ---------------------------
(***************************************************************************)
(* The rotation for every number of slots, every set of configs and every  *)
(* number of concurrent drop handlers: types and the shape of the slots;   *)
(* then the leak guard and the exclusion list, which survive any number of *)
(* drops; then what holds of every execution in which no slot is managed by*)
(* two goroutines at once (ApartSpec), in particular of the rotation loop  *)
(* alone: no process is lost, no port has two processes, a shutdown is     *)
(* clean, and each slot goes through the life cycle of SlotLifecycle.      *)
(***************************************************************************)
EXTENDS Rotation, WANPoolProofs, SequenceTheorems, FiniteSetTheorems

----------------------------------------------------------------------------
(* The inductive invariant.                                                *)

\* Program points at which a thread works on one config, and those at which
\* that config has passed its test.
Working   == {"test", "hung", "claim", "spawn", "activate", "measure"}
Promoting == {"claim", "spawn", "activate", "measure"}

\* Where a reset may return to: never into the middle of a promotion.
ReturnPoints == {"pick", "wait", "scan", "fetch", "exited", "best", "unlock"}

\* What a thread's local variables hold at each program point.
ThreadOK(t) ==
  /\ pc[t] \in {"stop", "clear"} => todo[t] # {} /\ ret[t] \in ReturnPoints
  /\ pc[t] \in Working => cur[t].config \in Configs
  /\ pc[t] \in Promoting => cur[t].speed # Failed
  /\ pc[t] = "activate" => held[t] \in Configs

\* Types, the shape of the slots and the threads' local variables together:
\* none of the three is inductive without the others.
Basic == TypeOK /\ SlotShape /\ \A t \in Threads : ThreadOK(t)

----------------------------------------------------------------------------
(* Lemmas about the values the actions pass around.                        *)

LEMMA BasicPool == Basic => PoolOK
BY DEF Basic, TypeOK, PoolOK

LEMMA PoolUnchanged ==
  ASSUME PoolOK, UNCHANGED slot PROVE PoolOK'
BY DEF PoolOK, SlotShape, InService

\* The slot a reset works on.
LEMMA TodoFirst ==
  ASSUME Basic, NEW t \in Threads, pc[t] \in {"stop", "clear"}
  PROVE  First(todo[t]) \in todo[t] /\ First(todo[t]) \in Slots
<1>1. todo[t] \subseteq Slots /\ todo[t] # {}
  BY DEF Basic, TypeOK, ThreadOK
<1>2. todo[t] \subseteq Nat
  BY <1>1, WanCountAssumption DEF Slots
<1> QED
  BY <1>1, <1>2, FirstIsLeast

\* The slot a test result is promoted to.
LEMMA FirstEmpty ==
  ASSUME SlotsByState({"empty"}) # {}
  PROVE  First(SlotsByState({"empty"})) \in Slots
<1>1. SlotsByState({"empty"}) \subseteq Slots
  BY DEF SlotsByState
<1>2. SlotsByState({"empty"}) \subseteq Nat
  BY <1>1, WanCountAssumption DEF Slots
<1> QED
  BY <1>1, <1>2, FirstIsLeast

\* A test of a config reports a result for that config.
LEMMA TestResultsTyped ==
  ASSUME NEW x \in Configs, NEW r, r \in TestResults(x)
  PROVE  r \in ResultType /\ r.config = x
<1>1. CASE r = [config |-> x, speed |-> Failed, stability |-> 0]
  BY <1>1 DEF ResultType
<1>2. CASE r \in [config: {x}, speed: Speeds, stability: Scores]
  BY <1>2 DEF ResultType
<1> QED
  BY <1>1, <1>2, Zenon DEF TestResults

\* The speed and stability a promotion records are naturals.
LEMMA PromotedSpeed ==
  ASSUME Basic, NEW t \in Threads, pc[t] \in Promoting
  PROVE  cur[t].speed \in Nat /\ cur[t].stability \in Nat
<1>1. cur[t] \in ResultType \cup {NoResult} /\ cur[t].speed # Failed
  BY DEF Basic, TypeOK, ThreadOK
<1>2. cur[t] # NoResult
  BY <1>1 DEF NoResult
<1>3. cur[t] \in ResultType
  BY <1>1, <1>2
<1>4. cur[t].speed \in Speeds \cup {Failed} /\ cur[t].stability \in Scores \cup {0}
  BY <1>3 DEF ResultType
<1>5. Speeds \subseteq Nat /\ Scores \subseteq Nat
  BY TestAssumption
<1>6. cur[t].speed \in Nat
  BY <1>1, <1>4, <1>5, Zenon
<1>7. Scores \cup {0} \subseteq Nat
  BY <1>5
<1>8. cur[t].stability \in Nat
  BY <1>4, <1>7, Zenon
<1> QED
  BY <1>6, <1>8

\* The result a thread holds before its test has run.
LEMMA UntestedTyped ==
  ASSUME NEW x \in Configs
  PROVE  /\ [NoResult EXCEPT !.config = x] \in ResultType
         /\ [NoResult EXCEPT !.config = x].config = x
BY DEF NoResult, ResultType

----------------------------------------------------------------------------
(* Basic is preserved by the steps of a reset.                             *)

\* Starting a reset, or going on at once when there is nothing to reset.
LEMMA ResetThenBasic ==
  ASSUME Basic, NEW t \in Threads, NEW S \in SUBSET Slots, NEW p \in ReturnPoints,
         ResetThen(t, S, p)
  PROVE  /\ pc' \in [Threads -> MainPoints \cup DropPoints]
         /\ todo' \in [Threads -> SUBSET Slots]
         /\ ret' \in [Threads -> MainPoints \cup DropPoints \cup {NoReturn}]
         /\ \A u \in Threads \ {t} : pc'[u] = pc[u] /\ todo'[u] = todo[u] /\ ret'[u] = ret[u]
         /\ \/ pc'[t] = p /\ S = {}
            \/ pc'[t] = "stop" /\ todo'[t] # {} /\ ret'[t] \in ReturnPoints
BY DEF Basic, TypeOK, ResetThen, Goto, ReturnPoints, MainPoints, DropPoints

\* The local variables of every thread agree with its program point afterwards.
LEMMA ResetThenThreads ==
  ASSUME Basic, NEW t \in Threads, NEW S \in SUBSET Slots, NEW p \in ReturnPoints,
         ResetThen(t, S, p),
         \A u \in Threads \ {t} : cur'[u] = cur[u] /\ held'[u] = held[u]
  PROVE  \A u \in Threads : ThreadOK(u)'
<1> SUFFICES ASSUME NEW u \in Threads PROVE ThreadOK(u)'
  OBVIOUS
<1>1. CASE u # t
  <2>1. pc'[u] = pc[u] /\ todo'[u] = todo[u] /\ ret'[u] = ret[u]
    BY <1>1, ResetThenBasic
  <2>2. ThreadOK(u) /\ cur'[u] = cur[u] /\ held'[u] = held[u]
    BY <1>1 DEF Basic
  <2> QED
    BY <2>1, <2>2 DEF ThreadOK
<1>2. CASE u = t
  <2>1. pc'[t] = p \/ (pc'[t] = "stop" /\ todo'[t] # {} /\ ret'[t] \in ReturnPoints)
    BY ResetThenBasic
  <2> QED
    BY <1>2, <2>1 DEF ThreadOK, ReturnPoints, Working, Promoting
<1> QED
  BY <1>1, <1>2

LEMMA ResetStopBasic ==
  ASSUME Basic, NEW t \in Threads, ResetStop(t)
  PROVE  Basic'
<1> DEFINE i == First(todo[t])
<1>1. i \in Slots
  BY TodoFirst DEF ResetStop
<1>2. PoolOK'
  BY <1>1, BasicPool, StopCmdOK DEF ResetStop
<1>3. TypeOK'
  BY <1>2 DEF PoolOK, Basic, TypeOK, ResetStop, Goto, MainPoints, mainVars, poolVars, envVars
<1>4. \A u \in Threads : ThreadOK(u)'
  BY DEF Basic, TypeOK, ThreadOK, ResetStop, Goto, Working, Promoting
<1> QED
  BY <1>2, <1>3, <1>4 DEF PoolOK, Basic

LEMMA ResetClearBasic ==
  ASSUME Basic, NEW t \in Threads, ResetClear(t)
  PROVE  Basic'
<1> DEFINE i == First(todo[t])
<1>1. i \in Slots /\ i \in todo[t]
  BY TodoFirst DEF ResetClear
<1>2. PoolOK'
  BY <1>1, BasicPool, ClearOK DEF ResetClear
<1>3. orphans' \subseteq ProcessType
  BY <1>1, BasicPool, ForgottenType DEF ResetClear, Basic, TypeOK
<1>4. ret[t] \in ReturnPoints
  BY DEF ResetClear, Basic, ThreadOK
<1>5. TypeOK'
  <2>1. pc' \in [Threads -> MainPoints \cup DropPoints]
    BY <1>4 DEF Basic, TypeOK, ResetClear, Goto, MainPoints, DropPoints, ReturnPoints
  <2>2. /\ todo' \in [Threads -> SUBSET Slots]
        /\ ret' \in [Threads -> MainPoints \cup DropPoints \cup {NoReturn}]
    BY DEF Basic, TypeOK, ResetClear
  <2> QED
    BY <1>2, <1>3, <2>1, <2>2 DEF PoolOK, Basic, TypeOK, ResetClear, mainVars, poolVars, envVars
<1>6. ASSUME NEW u \in Threads PROVE ThreadOK(u)'
  <2>1. CASE u # t
    BY <2>1 DEF Basic, TypeOK, ThreadOK, ResetClear, Goto
  <2>2. CASE u = t /\ todo[t] = {i}
    BY <2>2, <1>4 DEF Basic, TypeOK, ThreadOK, ResetClear, Goto, ReturnPoints, Working, Promoting
  <2>3. CASE u = t /\ todo[t] # {i}
    BY <2>3, <1>1, <1>4 DEF Basic, TypeOK, ThreadOK, ResetClear, Goto, Working, Promoting
  <2> QED
    BY <2>1, <2>2, <2>3
<1> QED
  BY <1>2, <1>5, <1>6 DEF PoolOK, Basic

----------------------------------------------------------------------------
(* Basic is preserved by every other step.                                 *)

LEMMA InitBasic == Init => Basic
<1> SUFFICES ASSUME Init PROVE Basic
  OBVIOUS
<1>1. PoolOK
  BY NewWANPoolOK DEF Init
<1>2. 0 \in Slots /\ 0 \in 0 .. WanCount
  BY WanCountAssumption DEF Slots
<1>3. TypeOK
  BY <1>1, <1>2 DEF Init, TypeOK, PoolOK, MainPoints, DropPoints
<1>4. \A u \in Threads : ThreadOK(u)
  BY DEF Init, ThreadOK, Working, Promoting
<1> QED
  BY <1>1, <1>3, <1>4 DEF PoolOK, Basic

\* A speed test of the main goroutine.
LEMMA MainTestBasic ==
  ASSUME Basic, MainTest PROVE Basic'
<1> Main \in Threads
  BY DEF Threads
<1>1. PoolOK'
  BY BasicPool, PoolUnchanged DEF MainTest
<1>2. cur[Main].config \in Configs
  BY DEF MainTest, TestEnds, Basic, ThreadOK, Working
<1>3. PICK r \in TestResults(cur[Main].config) :
        /\ tested' = tested + 1
        /\ results' = IF phase = "cycle" THEN results \cup {r} ELSE results
        /\ \/ /\ cur' = [cur EXCEPT ![Main] = NoResult]
              /\ Goto(Main, "pick") \/ Goto(Main, AfterFill)
              /\ UNCHANGED tgt
           \/ /\ Passed(r) /\ SlotsByState({"empty"}) # {}
              /\ cur' = [cur EXCEPT ![Main] = r]
              /\ tgt' = [tgt EXCEPT ![Main] = First(SlotsByState({"empty"}))]
              /\ Goto(Main, "claim")
  BY DEF MainTest
<1>4. r \in ResultType /\ r.config = cur[Main].config
  BY <1>2, TestResultsTyped
<1>5. TypeOK'
  <2>1. results' \subseteq ResultType /\ tested' \in Nat
    BY <1>3, <1>4 DEF Basic, TypeOK
  <2>2. tgt' \in [Threads -> Slots]
    BY <1>3, FirstEmpty DEF Basic, TypeOK
  <2>3. cur' \in [Threads -> ResultType \cup {NoResult}]
    BY <1>3, <1>4 DEF Basic, TypeOK
  <2>4. pc' \in [Threads -> MainPoints \cup DropPoints]
    BY <1>3 DEF Basic, TypeOK, Goto, AfterFill, MainPoints, DropPoints
  <2> QED
    BY <1>1, <2>1, <2>2, <2>3, <2>4 DEF MainTest, PoolOK, Basic, TypeOK, poolVars, envVars
<1>6. \A u \in Threads : ThreadOK(u)'
  BY <1>2, <1>3, <1>4 DEF MainTest, Basic, TypeOK, ThreadOK, Goto, AfterFill, Passed,
     Working, Promoting
<1> QED
  BY <1>1, <1>5, <1>6 DEF PoolOK, Basic

\* A test that blocks.
LEMMA TestHangsBasic ==
  ASSUME Basic, NEW t \in Threads, TestHangs(t) PROVE Basic'
<1>1. PoolOK'
  BY BasicPool, PoolUnchanged DEF TestHangs
<1>2. TypeOK'
  BY <1>1 DEF TestHangs, PoolOK, Basic, TypeOK, Goto, MainPoints, mainVars, poolVars, envVars
<1>3. \A u \in Threads : ThreadOK(u)'
  BY DEF TestHangs, Basic, TypeOK, ThreadOK, Goto, Working, Promoting
<1> QED
  BY <1>1, <1>2, <1>3 DEF PoolOK, Basic

\* The main goroutine moves a tested config into its slot.
LEMMA MainPromoteBasic ==
  ASSUME Basic, MainClaim \/ MainSpawn \/ MainActivate \/ MainMeasure PROVE Basic'
<1> Main \in Threads
  BY DEF Threads
<1>0. tgt[Main] \in Slots
  BY DEF Basic, TypeOK
<1>1. CASE MainClaim
  <2>1. PoolOK'
    BY <1>0, <1>1, BasicPool, StartTestingOK DEF MainClaim, Basic, ThreadOK, Working
  <2>2. TypeOK'
    BY <1>1, <2>1 DEF MainClaim, PoolOK, Basic, TypeOK, Goto, MainPoints, mainVars,
       poolVars, envVars
  <2>3. \A u \in Threads : ThreadOK(u)'
    BY <1>1 DEF MainClaim, Basic, TypeOK, ThreadOK, Goto, Working, Promoting
  <2> QED
    BY <2>1, <2>2, <2>3 DEF PoolOK, Basic
<1>2. CASE MainSpawn
  <2>1. PoolOK'
    BY <1>2, BasicPool, PoolUnchanged DEF MainSpawn
  <2>2. cur[Main].config \in Configs
    BY <1>2 DEF MainSpawn, Basic, ThreadOK, Working
  <2>3. CASE Goto(Main, "activate") /\ held' = [held EXCEPT ![Main] = cur[Main].config]
             /\ UNCHANGED <<cur, todo, ret>>
    <3>1. TypeOK'
      BY <1>2, <2>1, <2>2, <2>3 DEF MainSpawn, PoolOK, Basic, TypeOK, Goto, MainPoints,
         mainVars, poolVars, envVars
    <3>2. \A u \in Threads : ThreadOK(u)'
      BY <1>2, <2>2, <2>3 DEF MainSpawn, Basic, TypeOK, ThreadOK, Goto, Working, Promoting
    <3> QED
      BY <2>1, <3>1, <3>2 DEF PoolOK, Basic
  <2>4. CASE ResetThen(Main, {tgt[Main]}, "pick") /\ UNCHANGED held
             /\ cur' = [cur EXCEPT ![Main] = NoResult]
    <3>1. {tgt[Main]} \in SUBSET Slots /\ "pick" \in ReturnPoints
      BY <1>0 DEF ReturnPoints
    <3>2. TypeOK'
      BY <1>2, <2>1, <2>4, <3>1, ResetThenBasic DEF MainSpawn, PoolOK, Basic, TypeOK,
         mainVars, poolVars, envVars
    <3>3. \A u \in Threads : ThreadOK(u)'
      BY <2>4, <3>1, ResetThenThreads DEF Basic, TypeOK
    <3> QED
      BY <2>1, <3>2, <3>3 DEF PoolOK, Basic
  <2> QED
    BY <1>2, <2>3, <2>4 DEF MainSpawn
<1>3. CASE MainActivate
  <2>1. held[Main] \in Configs
    BY <1>3 DEF MainActivate, Basic, ThreadOK
  <2>2. PoolOK'
    BY <1>0, <1>3, <2>1, BasicPool, SetActiveOK DEF MainActivate
  <2>3. orphans' \subseteq ProcessType
    BY <1>0, <1>3, <2>1 DEF MainActivate, Basic, TypeOK, ProcessType
  <2>4. TypeOK'
    BY <1>3, <2>2, <2>3 DEF MainActivate, PoolOK, Basic, TypeOK, Goto, MainPoints,
       mainVars, poolVars, envVars
  <2>5. \A u \in Threads : ThreadOK(u)'
    BY <1>3 DEF MainActivate, Basic, TypeOK, ThreadOK, Goto, Working, Promoting
  <2> QED
    BY <2>2, <2>4, <2>5 DEF PoolOK, Basic
<1>4. CASE MainMeasure
  <2>1. cur[Main].speed \in Nat /\ cur[Main].stability \in Nat
    BY <1>4, PromotedSpeed DEF MainMeasure, Promoting
  <2>2. PoolOK'
    BY <1>0, <1>4, <2>1, BasicPool, SetMeasuredOK DEF MainMeasure
  <2>3. serving' \in BOOLEAN
    BY <1>4 DEF MainMeasure, Basic, TypeOK
  <2>4. TypeOK'
    BY <1>4, <2>2, <2>3 DEF MainMeasure, PoolOK, Basic, TypeOK, Goto, MainPoints,
       mainVars, poolVars
  <2>5. \A u \in Threads : ThreadOK(u)'
    BY <1>4 DEF MainMeasure, Basic, TypeOK, ThreadOK, Goto, Working, Promoting
  <2> QED
    BY <2>2, <2>4, <2>5 DEF PoolOK, Basic
<1> QED
  BY <1>1, <1>2, <1>3, <1>4

\* The head of the fill loop.
LEMMA PickBasic ==
  ASSUME Basic, Pick PROVE Basic'
<1> Main \in Threads
  BY DEF Threads
<1>1. PoolOK'
  BY BasicPool, PoolUnchanged DEF Pick
<1>2. rest # <<>> => Head(rest) \in Configs /\ Tail(rest) \in Seq(Configs)
  BY HeadTailProperties DEF Basic, TypeOK
<1>3. CASE Goto(Main, AfterFill) /\ UNCHANGED <<cur, rest>>
  <2>1. TypeOK'
    BY <1>1, <1>3 DEF Pick, PoolOK, Basic, TypeOK, Goto, AfterFill, MainPoints, poolVars, envVars
  <2>2. \A u \in Threads : ThreadOK(u)'
    BY <1>3 DEF Pick, Basic, TypeOK, ThreadOK, Goto, AfterFill, Working, Promoting
  <2> QED
    BY <1>1, <2>1, <2>2 DEF PoolOK, Basic
<1>4. CASE UNCHANGED <<pc, cur>> /\ ~FillDone /\ rest' = Tail(rest)
  <2>1. TypeOK'
    BY <1>1, <1>2, <1>4 DEF Pick, FillDone, PoolOK, Basic, TypeOK, poolVars, envVars
  <2>2. \A u \in Threads : ThreadOK(u)'
    BY <1>4 DEF Pick, Basic, TypeOK, ThreadOK
  <2> QED
    BY <1>1, <2>1, <2>2 DEF PoolOK, Basic
<1>5. CASE /\ ~FillDone /\ rest' = Tail(rest) /\ Goto(Main, "test")
           /\ cur' = [cur EXCEPT ![Main] = [NoResult EXCEPT !.config = Head(rest)]]
  <2>1. Head(rest) \in Configs /\ rest' \in Seq(Configs)
    BY <1>2, <1>5 DEF FillDone
  <2>2. PICK r \in ResultType : cur' = [cur EXCEPT ![Main] = r] /\ r.config \in Configs
    BY <1>5, <2>1, UntestedTyped
  <2>3. TypeOK'
    <3>1. pc' \in [Threads -> MainPoints \cup DropPoints]
      BY <1>5 DEF Goto, Basic, TypeOK, MainPoints
    <3>2. cur' \in [Threads -> ResultType \cup {NoResult}]
      BY <2>2 DEF Basic, TypeOK
    <3> QED
      BY <1>1, <2>1, <3>1, <3>2 DEF Pick, PoolOK, Basic, TypeOK, poolVars, envVars
  <2>4. \A u \in Threads : ThreadOK(u)'
    BY <1>5, <2>2 DEF Pick, Basic, TypeOK, ThreadOK, Goto, Working, Promoting
  <2> QED
    BY <1>1, <2>3, <2>4 DEF PoolOK, Basic
<1> QED
  BY <1>3, <1>4, <1>5 DEF Pick

\* Entering runLoop, or resetting what startup left in testing.
LEMMA BootFilledBasic ==
  ASSUME Basic, BootFilled PROVE Basic'
<1> Main \in Threads
  BY DEF Threads
<1>1. PoolOK'
  BY BasicPool, PoolUnchanged DEF BootFilled
<1>2. CASE phase' = "cycle" /\ serving' = TRUE /\ EndCycle /\ UNCHANGED <<todo, ret>>
  <2>1. TypeOK'
    BY <1>1, <1>2 DEF BootFilled, EndCycle, PoolOK, Basic, TypeOK, Goto, MainPoints, poolVars
  <2>2. \A u \in Threads : ThreadOK(u)'
    BY <1>2 DEF BootFilled, EndCycle, Basic, TypeOK, ThreadOK, Goto, Working, Promoting
  <2> QED
    BY <1>1, <2>1, <2>2 DEF PoolOK, Basic
<1>3. CASE /\ ResetThen(Main, SlotsByState({"testing"}), "wait")
           /\ UNCHANGED <<rest, tested, results, phase, serving>>
  <2>1. SlotsByState({"testing"}) \in SUBSET Slots /\ "wait" \in ReturnPoints
    BY DEF SlotsByState, ReturnPoints
  <2>2. TypeOK'
    BY <1>1, <1>3, <2>1, ResetThenBasic DEF BootFilled, PoolOK, Basic, TypeOK, poolVars
  <2>3. \A u \in Threads : ThreadOK(u)'
    BY <1>3, <2>1, ResetThenThreads DEF BootFilled
  <2> QED
    BY <1>1, <2>2, <2>3 DEF PoolOK, Basic
<1> QED
  BY <1>2, <1>3 DEF BootFilled

\* The drain and the health check of a cycle.
LEMMA DrainHealthBasic ==
  ASSUME Basic, Drain \/ HealthScan PROVE Basic'
<1> Main \in Threads
  BY DEF Threads
<1>1. PoolOK'
  BY BasicPool, PoolUnchanged DEF Drain, HealthScan
<1>2. CASE Drain
  <2>1. DrainExpired \in SUBSET Slots /\ "scan" \in ReturnPoints
    BY DEF DrainExpired, ReturnPoints
  <2>2. TypeOK'
    BY <1>1, <1>2, <2>1, ResetThenBasic DEF Drain, PoolOK, Basic, TypeOK, mainVars, poolVars, envVars
  <2>3. \A u \in Threads : ThreadOK(u)'
    BY <1>2, <2>1, ResetThenThreads DEF Drain
  <2> QED
    BY <1>1, <2>2, <2>3 DEF PoolOK, Basic
<1>3. CASE HealthScan
  <2>1. PICK S \in SUBSET Slots, p \in ReturnPoints : ResetThen(Main, S, p)
    <3>1. CASE ResetThen(Main, dead, "fetch")
      BY <3>1 DEF Basic, TypeOK, ReturnPoints
    <3>2. CASE scan < WanCount
               /\ \E S \in {{}, {scan}} : ResetThen(Main, S, "scan")
      <4>1. scan \in Slots
        BY <3>2, WanCountAssumption DEF Basic, TypeOK, Slots
      <4> QED
        BY <3>2, <4>1 DEF ReturnPoints
    <3> QED
      BY <1>3, <3>1, <3>2 DEF HealthScan
  <2>2. scan' \in 0 .. WanCount /\ dead' \subseteq Slots
    <3>1. scan \in 0 .. WanCount /\ dead \subseteq Slots
      BY DEF Basic, TypeOK
    <3>2. CASE scan' = 0 /\ dead' = {}
      BY <3>2, WanCountAssumption
    <3>3. CASE scan < WanCount /\ scan' = scan + 1 /\ dead' \in {dead, dead \cup {scan}}
      <4>1. scan \in Slots
        BY <3>1, <3>3, WanCountAssumption DEF Slots
      <4>2. scan' \in 0 .. WanCount
        BY <3>1, <3>3, WanCountAssumption
      <4> QED
        BY <3>1, <3>3, <4>1, <4>2
    <3> QED
      BY <1>3, <3>2, <3>3 DEF HealthScan
  <2>3. TypeOK'
    BY <1>1, <1>3, <2>1, <2>2, ResetThenBasic DEF HealthScan, PoolOK, Basic, TypeOK, poolVars, envVars
  <2>4. \A u \in Threads : ThreadOK(u)'
    BY <1>3, <2>1, ResetThenThreads DEF HealthScan
  <2> QED
    BY <1>1, <2>3, <2>4 DEF PoolOK, Basic
<1> QED
  BY <1>2, <1>3

\* The end of a cycle: candidates, replacement.
LEMMA ReplaceBasic ==
  ASSUME Basic, UpdateCandidates \/ ChooseReplacement \/ MarkReplaced PROVE Basic'
<1> Main \in Threads
  BY DEF Threads
<1>1. CASE UpdateCandidates
  <2>1. PoolOK'
    BY <1>1, BasicPool, PoolUnchanged DEF UpdateCandidates
  <2>2. {r.config : r \in {x \in results : x.speed # Failed}} \subseteq Configs
    BY DEF Basic, TypeOK, ResultType
  <2>3. candidates' \subseteq Configs /\ excluded' = excluded
    BY <1>1, <2>2 DEF UpdateCandidates, Pool!Update, Basic, TypeOK
  <2>4. TypeOK'
    BY <1>1, <2>1, <2>3 DEF UpdateCandidates, PoolOK, Basic, TypeOK, Goto, MainPoints,
       mainVars, envVars
  <2>5. \A u \in Threads : ThreadOK(u)'
    BY <1>1 DEF UpdateCandidates, Basic, TypeOK, ThreadOK, Goto, Working, Promoting
  <2> QED
    BY <2>1, <2>4, <2>5 DEF PoolOK, Basic
<1>2. CASE ChooseReplacement
  <2>1. PoolOK'
    BY <1>2, BasicPool, PoolUnchanged DEF ChooseReplacement
  <2>2. PickReplacementSlot(Slots) \in Slots
    BY PickReplacementSlotInSlots DEF Basic, TypeOK
  <2>3. TypeOK'
    <3>1. tgt' \in [Threads -> Slots]
      BY <1>2, <2>2 DEF ChooseReplacement, Basic, TypeOK
    <3>2. rest' \in Seq(Configs) /\ tested' \in Nat /\ results' \subseteq ResultType
      <4>1. CASE UNCHANGED <<rest, tested, results>>
        BY <4>1 DEF Basic, TypeOK
      <4>2. CASE EndCycle
        BY <4>2 DEF EndCycle
      <4> QED
        BY <1>2, <4>1, <4>2 DEF ChooseReplacement
    <3>3. pc' \in [Threads -> MainPoints \cup DropPoints]
      BY <1>2 DEF ChooseReplacement, EndCycle, Basic, TypeOK, Goto, MainPoints
    <3> QED
      BY <1>2, <2>1, <3>1, <3>2, <3>3 DEF ChooseReplacement, PoolOK, Basic, TypeOK,
         poolVars, envVars
  <2>4. \A u \in Threads : ThreadOK(u)'
    BY <1>2 DEF ChooseReplacement, EndCycle, Basic, TypeOK, ThreadOK, Goto, Working, Promoting
  <2> QED
    BY <2>1, <2>3, <2>4 DEF PoolOK, Basic
<1>3. CASE MarkReplaced
  <2>1. PoolOK'
    BY <1>3, BasicPool, MarkDrainingOK DEF MarkReplaced, Basic, TypeOK
  <2>2. TypeOK'
    BY <1>3, <2>1 DEF MarkReplaced, EndCycle, PoolOK, Basic, TypeOK, Goto, MainPoints,
       poolVars, envVars
  <2>3. \A u \in Threads : ThreadOK(u)'
    BY <1>3 DEF MarkReplaced, EndCycle, Basic, TypeOK, ThreadOK, Goto, Working, Promoting
  <2> QED
    BY <2>1, <2>2, <2>3 DEF PoolOK, Basic
<1> QED
  BY <1>1, <1>2, <1>3

\* ShutdownAll starts with every active slot draining.
LEMMA ShutdownBasic ==
  ASSUME Basic, Shutdown PROVE Basic'
<1> Main \in Threads
  BY DEF Threads
<1>1. PoolOK'
  <2>1. PoolOK
    BY BasicPool
  <2>2. slot' \in [Slots -> SlotType]
    BY <2>1 DEF Shutdown, PoolOK, SlotType, States, Drains
  <2>3. ASSUME NEW i \in Slots
        PROVE  /\ slot'[i].config = slot[i].config /\ slot'[i].cmd = slot[i].cmd
               /\ slot'[i].proc = slot[i].proc
               /\ \/ slot'[i].state = slot[i].state /\ slot'[i].drain = slot[i].drain
                  \/ /\ slot[i].state = "active" /\ slot'[i].state = "draining"
                     /\ slot'[i].drain = "fresh"
    <3>1. slot[i] \in SlotType
      BY <2>1 DEF PoolOK
    <3> QED
      BY <3>1 DEF Shutdown, SlotType
  <2> QED
    BY <2>1, <2>2, <2>3 DEF PoolOK, SlotShape, InService
<1>2. Slots \in SUBSET Slots /\ "exited" \in ReturnPoints
  BY DEF ReturnPoints
<1>3. TypeOK'
  BY <1>1, <1>2, ResetThenBasic DEF Shutdown, PoolOK, Basic, TypeOK, mainVars, poolVars, envVars
<1>4. \A u \in Threads : ThreadOK(u)'
  BY <1>2, ResetThenThreads DEF Shutdown
<1> QED
  BY <1>1, <1>3, <1>4 DEF PoolOK, Basic

\* Every step of the main goroutine keeps Basic.
LEMMA MainBasic ==
  ASSUME Basic, MainNext PROVE Basic'
<1> Main \in Threads
  BY DEF Threads
<1>1. CASE Fetch
  <2>1. PoolOK'
    BY <1>1, BasicPool, PoolUnchanged DEF Fetch
  <2>2. TypeOK'
    BY <1>1, <2>1, SubscriptionsAssumption DEF Fetch, PoolOK, Basic, TypeOK, Goto,
       MainPoints, poolVars, envVars
  <2>3. \A u \in Threads : ThreadOK(u)'
    BY <1>1 DEF Fetch, Basic, TypeOK, ThreadOK, Goto, Working, Promoting
  <2> QED
    BY <2>1, <2>2, <2>3 DEF PoolOK, Basic
<1>2. CASE BootWait \/ SelectTick \/ SelectTrigger \/ SelectDone
  <2>1. PoolOK'
    BY <1>2, BasicPool, PoolUnchanged DEF BootWait, SelectTick, SelectTrigger, SelectDone
  <2>2. PICK q \in {"exited", "fetch", "drain", "shutdown"} : Goto(Main, q)
    BY <1>2 DEF BootWait, SelectTick, SelectTrigger, SelectDone
  <2>3. /\ UNCHANGED <<tgt, cur, held, todo, ret, mainVars, replaceMu, poolVars, serving,
                      ctxDone, orphans>>
        /\ trigger' \in {trigger, FALSE}
    BY <1>2 DEF BootWait, SelectTick, SelectTrigger, SelectDone, envVars
  <2>4. TypeOK'
    BY <2>1, <2>2, <2>3 DEF PoolOK, Basic, TypeOK, Goto, MainPoints, mainVars, poolVars
  <2>5. \A u \in Threads : ThreadOK(u)'
    BY <2>2, <2>3 DEF Basic, TypeOK, ThreadOK, Goto, Working, Promoting
  <2> QED
    BY <2>1, <2>4, <2>5 DEF PoolOK, Basic
<1> QED
  BY <1>1, <1>2, PickBasic, TestHangsBasic, MainTestBasic, MainPromoteBasic, BootFilledBasic,
     DrainHealthBasic, ReplaceBasic, ShutdownBasic, ResetStopBasic, ResetClearBasic
     DEF MainNext

\* Every step of a drop handler keeps Basic.
LEMMA DropBasic ==
  ASSUME Basic, NEW d \in Droppers, DropRequest(d) \/ DropNext(d) PROVE Basic'
<1> d \in Threads
  BY DEF Threads
<1>0. tgt[d] \in Slots /\ {tgt[d]} \in SUBSET Slots
  BY DEF Basic, TypeOK
<1>1. CASE DropRequest(d)
  <2>1. PoolOK'
    BY <1>1, BasicPool, PoolUnchanged DEF DropRequest
  <2>2. TypeOK'
    BY <1>1, <2>1 DEF DropRequest, PoolOK, Basic, TypeOK, Goto, DropPoints, mainVars,
       poolVars, envVars
  <2>3. \A u \in Threads : ThreadOK(u)'
    BY <1>1 DEF DropRequest, Basic, TypeOK, ThreadOK, Goto, Working, Promoting
  <2> QED
    BY <2>1, <2>2, <2>3 DEF PoolOK, Basic
<1>2. CASE DropLock(d)
  <2>1. PoolOK'
    BY <1>2, BasicPool, PoolUnchanged DEF DropLock
  <2>2. slot[tgt[d]].config \in Configs \cup {NoConfig}
    BY <1>0 DEF Basic, TypeOK, SlotType
  <2>3. candidates' = candidates /\ excluded' \subseteq Configs
    BY <1>2, <2>2 DEF DropLock, Pool!Exclude, poolVars, Basic, TypeOK
  <2>4. "best" \in ReturnPoints
    BY DEF ReturnPoints
  <2>5. TypeOK'
    BY <1>0, <1>2, <2>1, <2>3, <2>4, ResetThenBasic DEF DropLock, PoolOK, Basic, TypeOK,
       mainVars, envVars
  <2>6. \A u \in Threads : ThreadOK(u)'
    BY <1>0, <1>2, <2>4, ResetThenThreads DEF DropLock
  <2> QED
    BY <2>1, <2>5, <2>6 DEF PoolOK, Basic
<1>3. CASE DropBest(d)
  <2>1. PoolOK'
    BY <1>3, BasicPool, PoolUnchanged DEF DropBest
  <2>2. CASE replaceMu' = NoThread /\ Goto(d, "queue") /\ UNCHANGED cur
    <3>1. TypeOK'
      BY <1>3, <2>1, <2>2 DEF DropBest, PoolOK, Basic, TypeOK, Goto, DropPoints, mainVars,
         poolVars, envVars
    <3>2. \A u \in Threads : ThreadOK(u)'
      BY <1>3, <2>2 DEF DropBest, Basic, TypeOK, ThreadOK, Goto, Working, Promoting
    <3> QED
      BY <2>1, <3>1, <3>2 DEF PoolOK, Basic
  <2>3. CASE /\ \E x \in Pool!Eligible :
                  cur' = [cur EXCEPT ![d] = [NoResult EXCEPT !.config = x]]
             /\ Goto(d, "test") /\ UNCHANGED replaceMu
    <3>1. PICK r \in ResultType : cur' = [cur EXCEPT ![d] = r] /\ r.config \in Configs
      BY <2>3, UntestedTyped DEF Pool!Eligible, Basic, TypeOK
    <3>2. TypeOK'
      BY <1>3, <2>1, <2>3, <3>1 DEF DropBest, PoolOK, Basic, TypeOK, Goto, DropPoints,
         mainVars, poolVars, envVars
    <3>3. \A u \in Threads : ThreadOK(u)'
      BY <1>3, <2>3, <3>1 DEF DropBest, Basic, TypeOK, ThreadOK, Goto, Working, Promoting
    <3> QED
      BY <2>1, <3>2, <3>3 DEF PoolOK, Basic
  <2> QED
    BY <1>3, <2>2, <2>3 DEF DropBest
<1>4. CASE DropTest(d)
  <2>1. PoolOK'
    BY <1>4, BasicPool, PoolUnchanged DEF DropTest
  <2>2. cur[d].config \in Configs
    BY <1>4 DEF DropTest, TestEnds, Basic, ThreadOK, Working
  <2>3. PICK r \in TestResults(cur[d].config) :
          /\ cur' = [cur EXCEPT ![d] = r]
          /\ Goto(d, IF r.speed = Failed THEN "unlock" ELSE "claim")
    BY <1>4 DEF DropTest
  <2>4. r \in ResultType /\ r.config \in Configs
    BY <2>2, TestResultsTyped
  <2>5. TypeOK'
    BY <1>4, <2>1, <2>3, <2>4 DEF DropTest, PoolOK, Basic, TypeOK, Goto, DropPoints,
       mainVars, poolVars, envVars
  <2>6. \A u \in Threads : ThreadOK(u)'
    BY <1>4, <2>3, <2>4 DEF DropTest, Basic, TypeOK, ThreadOK, Goto, Working, Promoting
  <2> QED
    BY <2>1, <2>5, <2>6 DEF PoolOK, Basic
<1>5. CASE DropClaim(d)
  <2>1. PoolOK'
    BY <1>0, <1>5, BasicPool, StartTestingOK DEF DropClaim, Basic, ThreadOK, Working
  <2>2. TypeOK'
    BY <1>5, <2>1 DEF DropClaim, PoolOK, Basic, TypeOK, Goto, DropPoints, mainVars,
       poolVars, envVars
  <2>3. \A u \in Threads : ThreadOK(u)'
    BY <1>5 DEF DropClaim, Basic, TypeOK, ThreadOK, Goto, Working, Promoting
  <2> QED
    BY <2>1, <2>2, <2>3 DEF PoolOK, Basic
<1>6. CASE DropSpawn(d)
  <2>1. PoolOK'
    BY <1>6, BasicPool, PoolUnchanged DEF DropSpawn
  <2>2. cur[d].config \in Configs
    BY <1>6 DEF DropSpawn, Basic, ThreadOK, Working
  <2>3. CASE /\ held' = [held EXCEPT ![d] = cur[d].config]
             /\ Goto(d, "activate") /\ UNCHANGED <<todo, ret>>
    <3>1. TypeOK'
      BY <1>6, <2>1, <2>2, <2>3 DEF DropSpawn, PoolOK, Basic, TypeOK, Goto, DropPoints,
         mainVars, poolVars, envVars
    <3>2. \A u \in Threads : ThreadOK(u)'
      BY <1>6, <2>2, <2>3 DEF DropSpawn, Basic, TypeOK, ThreadOK, Goto, Working, Promoting
    <3> QED
      BY <2>1, <3>1, <3>2 DEF PoolOK, Basic
  <2>4. CASE ResetThen(d, {tgt[d]}, "unlock") /\ UNCHANGED held
    <3>1. "unlock" \in ReturnPoints
      BY DEF ReturnPoints
    <3>2. TypeOK'
      BY <1>0, <1>6, <2>1, <2>4, <3>1, ResetThenBasic DEF DropSpawn, PoolOK, Basic, TypeOK,
         mainVars, poolVars, envVars
    <3>3. \A u \in Threads : ThreadOK(u)'
      BY <1>0, <1>6, <2>4, <3>1, ResetThenThreads DEF DropSpawn
    <3> QED
      BY <2>1, <3>2, <3>3 DEF PoolOK, Basic
  <2> QED
    BY <1>6, <2>3, <2>4 DEF DropSpawn
<1>7. CASE DropActivate(d)
  <2>1. held[d] \in Configs
    BY <1>7 DEF DropActivate, Basic, ThreadOK
  <2>2. PoolOK'
    BY <1>0, <1>7, <2>1, BasicPool, SetActiveOK DEF DropActivate
  <2>3. CASE Goto(d, "measure") /\ UNCHANGED <<todo, ret>>
    <3>1. TypeOK'
      BY <1>7, <2>2, <2>3 DEF DropActivate, PoolOK, Basic, TypeOK, Goto, DropPoints,
         mainVars, poolVars, envVars
    <3>2. \A u \in Threads : ThreadOK(u)'
      BY <1>7, <2>3 DEF DropActivate, Basic, TypeOK, ThreadOK, Goto, Working, Promoting
    <3> QED
      BY <2>2, <3>1, <3>2 DEF PoolOK, Basic
  <2>4. CASE ResetThen(d, {tgt[d]}, "unlock")
    <3>1. "unlock" \in ReturnPoints
      BY DEF ReturnPoints
    <3>2. TypeOK'
      BY <1>0, <1>7, <2>2, <2>4, <3>1, ResetThenBasic DEF DropActivate, PoolOK, Basic,
         TypeOK, mainVars, poolVars, envVars
    <3>3. \A u \in Threads \ {d} : cur'[u] = cur[u] /\ held'[u] = held[u]
      BY <1>7 DEF DropActivate, Basic, TypeOK
    <3>4. \A u \in Threads : ThreadOK(u)'
      BY <1>0, <2>4, <3>1, <3>3, ResetThenThreads
    <3> QED
      BY <2>2, <3>2, <3>4 DEF PoolOK, Basic
  <2> QED
    BY <1>7, <2>3, <2>4 DEF DropActivate
<1>8. CASE DropMeasure(d)
  <2>1. cur[d].speed \in Nat /\ cur[d].stability \in Nat
    BY <1>8, PromotedSpeed DEF DropMeasure, Promoting
  <2>2. PoolOK'
    BY <1>0, <1>8, <2>1, BasicPool, SetMeasuredOK DEF DropMeasure
  <2>3. TypeOK'
    BY <1>8, <2>2 DEF DropMeasure, PoolOK, Basic, TypeOK, Goto, DropPoints, mainVars,
       poolVars, envVars
  <2>4. \A u \in Threads : ThreadOK(u)'
    BY <1>8 DEF DropMeasure, Basic, TypeOK, ThreadOK, Goto, Working, Promoting
  <2> QED
    BY <2>2, <2>3, <2>4 DEF PoolOK, Basic
<1>9. CASE DropUnlock(d) \/ DropQueue(d)
  <2>1. PoolOK'
    BY <1>9, BasicPool, PoolUnchanged DEF DropUnlock, DropQueue
  <2>2. TypeOK'
    BY <1>9, <2>1 DEF DropUnlock, DropQueue, PoolOK, Basic, TypeOK, Goto, DropPoints,
       mainVars, poolVars, envVars
  <2>3. \A u \in Threads : ThreadOK(u)'
    BY <1>9 DEF DropUnlock, DropQueue, Basic, TypeOK, ThreadOK, Goto, Working, Promoting
  <2> QED
    BY <2>1, <2>2, <2>3 DEF PoolOK, Basic
<1> QED
  BY <1>1, <1>2, <1>3, <1>4, <1>5, <1>6, <1>7, <1>8, <1>9, ResetStopBasic,
     ResetClearBasic, TestHangsBasic DEF DropNext

\* Every step of the environment keeps Basic.
LEMMA EnvBasic ==
  ASSUME Basic, EnvNext PROVE Basic'
<1>1. PoolOK'
  <2>1. CASE \E i \in Slots : KeepaliveDrain(i)
    BY <2>1, BasicPool, MarkDrainingOK DEF KeepaliveDrain
  <2>2. CASE \E i \in Slots : GraceElapses(i)
    BY <2>2, BasicPool DEF GraceElapses, PoolOK, SlotShape, SlotType, InService, Drains
  <2>3. CASE \E i \in Slots : XrayExits(i)
    BY <2>3, BasicPool DEF XrayExits, PoolOK, SlotShape, SlotType, InService, Procs
  <2>4. CASE UNCHANGED slot
    BY <2>4, BasicPool, PoolUnchanged
  <2> QED
    BY <2>1, <2>2, <2>3, <2>4 DEF EnvNext, OrphanExits, ApiTrigger, Cancel
<1>2. ControlUnchanged
  BY DEF EnvNext, KeepaliveDrain, GraceElapses, XrayExits, OrphanExits, ApiTrigger, Cancel
<1>3. /\ trigger' \in {trigger, TRUE} /\ serving' = serving /\ ctxDone' \in {ctxDone, TRUE}
      /\ orphans' \subseteq orphans
  BY DEF EnvNext, KeepaliveDrain, GraceElapses, XrayExits, OrphanExits, ApiTrigger, Cancel,
     envVars
<1>4. TypeOK'
  BY <1>1, <1>2, <1>3 DEF ControlUnchanged, PoolOK, Basic, TypeOK, mainVars, poolVars
<1>5. \A u \in Threads : ThreadOK(u)'
  BY <1>2 DEF ControlUnchanged, Basic, ThreadOK
<1> QED
  BY <1>1, <1>4, <1>5 DEF PoolOK, Basic

LEMMA NextBasic == Basic /\ [Next]_vars => Basic'
<1>1. ASSUME Basic, UNCHANGED vars PROVE Basic'
  <2>1. PoolOK'
    BY <1>1, BasicPool, PoolUnchanged DEF vars
  <2>2. TypeOK'
    BY <1>1, <2>1 DEF vars, PoolOK, Basic, TypeOK, mainVars, poolVars, envVars
  <2>3. \A u \in Threads : ThreadOK(u)'
    BY <1>1 DEF vars, Basic, ThreadOK
  <2> QED
    BY <2>1, <2>2, <2>3 DEF PoolOK, Basic
<1>2. ASSUME Basic, Next PROVE Basic'
  BY <1>1, <1>2, MainBasic, DropBasic, EnvBasic DEF Next, Terminated
<1> QED
  BY <1>1, <1>2

\* Basic holds in every reachable state.
LEMMA BasicAlways == Spec => []Basic
BY InitBasic, NextBasic, PTL DEF Spec

\* Type correctness of the rotation: in particular no failed test's speed is
\* ever recorded in a slot, and every index a goroutine uses is a slot.
THEOREM TypeCorrect == Spec => []TypeOK
<1>1. Basic => TypeOK
  BY DEF Basic
<1> QED
  BY <1>1, BasicAlways, PTL

\* The fields of a slot agree with its state in every interleaving of the main
\* goroutine, the drop handlers, the keepalive loop and exiting processes.
THEOREM SlotsConsistent == Spec => []SlotShape
<1>1. Basic => SlotShape
  BY DEF Basic
<1> QED
  BY <1>1, BasicAlways, PTL

----------------------------------------------------------------------------
(* The leak guard and the exclusion list: the inductive invariants.        *)

\* A config that got past the leak guard, or none.
Admitted(x) == x = NoConfig \/ IsXraySupported(x)

\* The leak guard is passed once, at Pick; everything a config reaches from
\* there keeps it.
LeakInv ==
  /\ \A t \in Threads : Admitted(cur[t].config) /\ Admitted(held[t])
  /\ \A i \in Slots : Admitted(slot[i].cmd)
  /\ \A r \in results : Admitted(r.config)
  /\ \A x \in candidates : Admitted(x)
  /\ \A x \in orphans : Admitted(x.config)

\* The points between DropLock and the release of replaceMu.
Locked == {"stop", "clear", "best", "unlock"} \cup Working

LockInv == \A d \in Droppers : pc[d] \in Locked => replaceMu = d

----------------------------------------------------------------------------
(* The leak guard.                                                         *)

LEMMA InitLeak == Init => LeakInv
BY DEF Init, NewWANPool, EmptySlot, LeakInv, Admitted, NoResult

\* The steps that neither test, promote nor start anything hand no config on.
LEMMA LeakFrame ==
  ASSUME LeakInv, UNCHANGED <<cur, held, candidates>>, results' \subseteq results,
         orphans' \subseteq orphans, \A i \in Slots : slot'[i].cmd \in {slot[i].cmd, NoConfig}
  PROVE  LeakInv'
BY DEF LeakInv, Admitted, IsXraySupported

\* Only SetActive gives a slot a command.
LEMMA StartTestingCmd ==
  ASSUME slot \in [Slots -> SlotType], NEW i \in Slots, NEW x, StartTesting(i, x)
  PROVE  \A j \in Slots : slot'[j].cmd = slot[j].cmd
BY DEF StartTesting, SlotType

LEMMA SetMeasuredCmd ==
  ASSUME slot \in [Slots -> SlotType], NEW i \in Slots, NEW x, NEW y, SetMeasured(i, x, y)
  PROVE  \A j \in Slots : slot'[j].cmd = slot[j].cmd
BY DEF SetMeasured, SlotType

LEMMA MarkDrainingCmd ==
  ASSUME slot \in [Slots -> SlotType], NEW i \in Slots, MarkDraining(i)
  PROVE  \A j \in Slots : slot'[j].cmd = slot[j].cmd
BY DEF MarkDraining, SlotType

LEMMA SetActiveAdmitted ==
  ASSUME slot \in [Slots -> SlotType], NEW i \in Slots, NEW x, SetActive(i, x),
         Admitted(x), \A j \in Slots : Admitted(slot[j].cmd)
  PROVE  \A j \in Slots : Admitted(slot'[j].cmd)
BY DEF SetActive, SlotType

\* A reset stops and forgets processes; what it forgets was admitted.
LEMMA ResetLeak ==
  ASSUME Basic, LeakInv, NEW t \in Threads, ResetStop(t) \/ ResetClear(t)
  PROVE  LeakInv'
<1> DEFINE i == First(todo[t])
<1>1. i \in Slots /\ slot \in [Slots -> SlotType]
  BY TodoFirst DEF ResetStop, ResetClear, Basic, TypeOK
<1>2. CASE ResetStop(t)
  <2>1. \A j \in Slots : slot'[j].cmd = slot[j].cmd
    BY <1>1, <1>2 DEF ResetStop, StopCmd, SlotType
  <2> QED
    BY <1>2, <2>1, LeakFrame DEF ResetStop, mainVars, poolVars
<1>3. CASE ResetClear(t)
  <2>1. \A j \in Slots : slot'[j].cmd \in {slot[j].cmd, NoConfig}
    BY <1>1, <1>3 DEF ResetClear, Clear, EmptySlot, SlotType
  <2>2. \A x \in orphans' : Admitted(x.config)
    BY <1>1, <1>3 DEF ResetClear, Forgotten, LeakInv
  <2> QED
    BY <1>3, <2>1, <2>2 DEF ResetClear, LeakInv, Admitted, IsXraySupported, mainVars, poolVars
<1> QED
  BY <1>2, <1>3

LEMMA HangLeak ==
  ASSUME LeakInv, NEW t \in Threads, TestHangs(t) PROVE LeakInv'
BY LeakFrame DEF TestHangs, mainVars, poolVars

LEMMA MainLeak ==
  ASSUME Basic, LeakInv, MainNext PROVE LeakInv'
<1> Main \in Threads
  BY DEF Threads
<1>t. tgt[Main] \in Slots /\ slot \in [Slots -> SlotType]
  BY DEF Basic, TypeOK
<1>1. CASE Fetch \/ BootWait \/ SelectTick \/ SelectTrigger \/ SelectDone \/ Drain
           \/ HealthScan \/ ChooseReplacement \/ BootFilled
  <2>1. UNCHANGED <<slot, cur, held, candidates, orphans>>
    BY <1>1 DEF Fetch, BootWait, SelectTick, SelectTrigger, SelectDone, Drain, HealthScan,
       ChooseReplacement, BootFilled, poolVars
  <2>2. results' \in {results, {}}
    BY <1>1 DEF Fetch, BootWait, SelectTick, SelectTrigger, SelectDone, Drain, HealthScan,
       ChooseReplacement, BootFilled, EndCycle, mainVars
  <2> QED
    BY <2>1, <2>2, LeakFrame
<1>2. CASE Pick
  <2>1. UNCHANGED <<slot, held, results, candidates, orphans>>
    BY <1>2 DEF Pick, poolVars
  <2>2. \/ UNCHANGED cur
        \/ /\ IsXraySupported(Head(rest))
           /\ cur' = [cur EXCEPT ![Main] = [NoResult EXCEPT !.config = Head(rest)]]
    BY <1>2 DEF Pick, Skipped
  <2>3. \A t \in Threads : Admitted(cur'[t].config)
    BY <2>2 DEF LeakInv, Admitted, Basic, TypeOK, NoResult
  <2> QED
    BY <2>1, <2>3 DEF LeakInv, Admitted, IsXraySupported
<1>3. CASE MainTest
  <2>1. UNCHANGED <<slot, held, candidates, orphans>>
    BY <1>3 DEF MainTest, poolVars
  <2>2. cur[Main].config \in Configs
    BY <1>3 DEF MainTest, TestEnds, Basic, ThreadOK, Working
  <2>3. PICK r \in TestResults(cur[Main].config) :
          /\ results' \subseteq results \cup {r}
          /\ cur' \in {[cur EXCEPT ![Main] = NoResult], [cur EXCEPT ![Main] = r]}
    BY <1>3 DEF MainTest
  <2>4. Admitted(r.config) /\ Admitted(NoResult.config)
    BY <2>2, TestResultsTyped DEF LeakInv, Admitted, NoResult
  <2>5. \A t \in Threads : Admitted(cur'[t].config)
    BY <2>3, <2>4 DEF LeakInv, Basic, TypeOK
  <2>6. \A x \in results' : Admitted(x.config)
    BY <2>3, <2>4 DEF LeakInv
  <2> QED
    BY <2>1, <2>5, <2>6 DEF LeakInv, Admitted, IsXraySupported
<1>4. CASE MainClaim \/ MainMeasure
  <2>1. /\ UNCHANGED <<held, results, candidates, orphans>>
        /\ cur' \in {cur, [cur EXCEPT ![Main] = NoResult]}
    BY <1>4 DEF MainClaim, MainMeasure, mainVars, poolVars
  <2>2. \A i \in Slots : slot'[i].cmd = slot[i].cmd
    BY <1>4, <1>t, StartTestingCmd, SetMeasuredCmd DEF MainClaim, MainMeasure
  <2>3. \A t \in Threads : Admitted(cur'[t].config)
    BY <2>1 DEF LeakInv, Admitted, Basic, TypeOK, NoResult
  <2> QED
    BY <2>1, <2>2, <2>3 DEF LeakInv, Admitted, IsXraySupported
<1>5. CASE MainSpawn
  <2>1. /\ UNCHANGED <<slot, results, candidates, orphans>>
        /\ cur' \in {cur, [cur EXCEPT ![Main] = NoResult]}
        /\ held' \in {held, [held EXCEPT ![Main] = cur[Main].config]}
    BY <1>5 DEF MainSpawn, mainVars, poolVars
  <2>2. \A t \in Threads : Admitted(cur'[t].config)
    BY <2>1 DEF LeakInv, Admitted, Basic, TypeOK, NoResult
  <2>3. \A t \in Threads : Admitted(held'[t])
    BY <2>1 DEF LeakInv, Basic, TypeOK
  <2> QED
    BY <2>1, <2>2, <2>3 DEF LeakInv, Admitted, IsXraySupported
<1>6. CASE MainActivate
  <2>1. UNCHANGED <<cur, results, candidates>> /\ Admitted(held[Main])
    BY <1>6 DEF MainActivate, mainVars, poolVars, LeakInv
  <2>2. \A t \in Threads : Admitted(held'[t])
    BY <1>6 DEF MainActivate, LeakInv, Admitted, Basic, TypeOK
  <2>3. \A i \in Slots : Admitted(slot'[i].cmd)
    BY <1>6, <1>t, <2>1, SetActiveAdmitted DEF MainActivate, LeakInv
  <2>4. \A x \in orphans' : Admitted(x.config)
    BY <1>6, <2>1 DEF MainActivate, LeakInv
  <2> QED
    BY <2>1, <2>2, <2>3, <2>4 DEF LeakInv, Admitted, IsXraySupported
<1>7. CASE UpdateCandidates
  <2>1. UNCHANGED <<slot, cur, held, results, orphans>>
    BY <1>7 DEF UpdateCandidates, mainVars
  <2>2. candidates' \subseteq candidates \cup {r.config : r \in results}
    BY <1>7 DEF UpdateCandidates, Pool!Update
  <2>3. \A x \in candidates' : Admitted(x)
    BY <2>2 DEF LeakInv
  <2> QED
    BY <2>1, <2>3 DEF LeakInv, Admitted, IsXraySupported
<1>8. CASE MarkReplaced
  <2>1. \A i \in Slots : slot'[i].cmd = slot[i].cmd
    BY <1>8, <1>t, MarkDrainingCmd DEF MarkReplaced
  <2> QED
    BY <1>8, <2>1, LeakFrame DEF MarkReplaced, EndCycle, poolVars
<1>9. CASE Shutdown
  <2>1. \A i \in Slots : slot'[i].cmd = slot[i].cmd
    BY <1>9, <1>t DEF Shutdown, SlotType
  <2> QED
    BY <1>9, <2>1, LeakFrame DEF Shutdown, mainVars, poolVars
<1> QED
  BY <1>1, <1>2, <1>3, <1>4, <1>5, <1>6, <1>7, <1>8, <1>9, ResetLeak, HangLeak DEF MainNext

LEMMA DropLeak ==
  ASSUME Basic, LeakInv, NEW d \in Droppers, DropRequest(d) \/ DropNext(d)
  PROVE  LeakInv'
<1> d \in Threads
  BY DEF Threads
<1>t. tgt[d] \in Slots /\ slot \in [Slots -> SlotType]
  BY DEF Basic, TypeOK
<1>1. CASE DropRequest(d) \/ DropLock(d) \/ DropQueue(d)
  <2>1. UNCHANGED <<slot, cur, held, results, candidates, orphans>>
    BY <1>1 DEF DropRequest, DropLock, DropQueue, Pool!Exclude, mainVars, poolVars
  <2> QED
    BY <2>1, LeakFrame
<1>2. CASE DropBest(d)
  <2>1. UNCHANGED <<slot, held, results, candidates, orphans>>
    BY <1>2 DEF DropBest, mainVars, poolVars
  <2>2. \/ UNCHANGED cur
        \/ \E x \in candidates : cur' = [cur EXCEPT ![d] = [NoResult EXCEPT !.config = x]]
    BY <1>2 DEF DropBest, Pool!Eligible
  <2>3. \A t \in Threads : Admitted(cur'[t].config)
    BY <2>2 DEF LeakInv, Basic, TypeOK, NoResult
  <2> QED
    BY <2>1, <2>3 DEF LeakInv, Admitted, IsXraySupported
<1>3. CASE DropTest(d)
  <2>1. UNCHANGED <<slot, held, results, candidates, orphans>>
    BY <1>3 DEF DropTest, mainVars, poolVars
  <2>2. cur[d].config \in Configs
    BY <1>3 DEF DropTest, TestEnds, Basic, ThreadOK, Working
  <2>3. PICK r \in TestResults(cur[d].config) : cur' = [cur EXCEPT ![d] = r]
    BY <1>3 DEF DropTest
  <2>4. Admitted(r.config)
    BY <2>2, TestResultsTyped DEF LeakInv
  <2>5. \A t \in Threads : Admitted(cur'[t].config)
    BY <2>3, <2>4 DEF LeakInv, Basic, TypeOK
  <2> QED
    BY <2>1, <2>5 DEF LeakInv, Admitted, IsXraySupported
<1>4. CASE DropClaim(d) \/ DropMeasure(d)
  <2>1. UNCHANGED <<cur, held, results, candidates, orphans>>
    BY <1>4 DEF DropClaim, DropMeasure, mainVars, poolVars
  <2>2. \A i \in Slots : slot'[i].cmd = slot[i].cmd
    BY <1>4, <1>t, StartTestingCmd, SetMeasuredCmd DEF DropClaim, DropMeasure
  <2> QED
    BY <2>1, <2>2, LeakFrame
<1>5. CASE DropSpawn(d)
  <2>1. /\ UNCHANGED <<slot, cur, results, candidates, orphans>>
        /\ held' \in {held, [held EXCEPT ![d] = cur[d].config]}
    BY <1>5 DEF DropSpawn, mainVars, poolVars
  <2>2. \A t \in Threads : Admitted(held'[t])
    BY <2>1 DEF LeakInv, Basic, TypeOK
  <2> QED
    BY <2>1, <2>2 DEF LeakInv, Admitted, IsXraySupported
<1>6. CASE DropActivate(d)
  <2>1. UNCHANGED <<cur, results, candidates, orphans>> /\ Admitted(held[d])
    BY <1>6 DEF DropActivate, mainVars, poolVars, LeakInv
  <2>2. \A t \in Threads : Admitted(held'[t])
    BY <1>6 DEF DropActivate, LeakInv, Admitted, Basic, TypeOK
  <2>3. \A i \in Slots : Admitted(slot'[i].cmd)
    BY <1>6, <1>t, <2>1, SetActiveAdmitted DEF DropActivate, LeakInv
  <2> QED
    BY <2>1, <2>2, <2>3 DEF LeakInv, Admitted, IsXraySupported
<1>7. CASE DropUnlock(d)
  <2>1. /\ UNCHANGED <<slot, held, results, candidates, orphans>>
        /\ cur' = [cur EXCEPT ![d] = NoResult]
    BY <1>7 DEF DropUnlock, mainVars, poolVars
  <2>2. \A t \in Threads : Admitted(cur'[t].config)
    BY <2>1 DEF LeakInv, Admitted, Basic, TypeOK, NoResult
  <2> QED
    BY <2>1, <2>2 DEF LeakInv, Admitted, IsXraySupported
<1> QED
  BY <1>1, <1>2, <1>3, <1>4, <1>5, <1>6, <1>7, ResetLeak, HangLeak DEF DropNext

LEMMA EnvLeak ==
  ASSUME Basic, LeakInv, EnvNext PROVE LeakInv'
<1>1. UNCHANGED <<cur, held, results, candidates>> /\ orphans' \subseteq orphans
  BY DEF EnvNext, KeepaliveDrain, GraceElapses, XrayExits, OrphanExits, ApiTrigger, Cancel,
     ControlUnchanged, mainVars, poolVars
<1>2. \A i \in Slots : slot'[i].cmd = slot[i].cmd
  <2>1. slot \in [Slots -> SlotType]
    BY DEF Basic, TypeOK
  <2>2. CASE \E i \in Slots : KeepaliveDrain(i)
    BY <2>1, <2>2, MarkDrainingCmd DEF KeepaliveDrain
  <2>3. CASE \E i \in Slots : GraceElapses(i)
    BY <2>1, <2>3 DEF GraceElapses, SlotType
  <2>4. CASE \E i \in Slots : XrayExits(i)
    BY <2>1, <2>4 DEF XrayExits, SlotType
  <2>5. CASE UNCHANGED slot
    BY <2>5
  <2> QED
    BY <2>2, <2>3, <2>4, <2>5 DEF EnvNext, OrphanExits, ApiTrigger, Cancel
<1> QED
  BY <1>1, <1>2, LeakFrame

LEMMA NextLeak == Basic /\ LeakInv /\ [Next]_vars => LeakInv'
<1>1. ASSUME LeakInv, UNCHANGED vars PROVE LeakInv'
  BY <1>1, LeakFrame DEF vars, mainVars, poolVars
<1>2. ASSUME Basic, LeakInv, Next PROVE LeakInv'
  BY <1>1, <1>2, MainLeak, DropLeak, EnvLeak DEF Next, Terminated
<1> QED
  BY <1>1, <1>2

\* Every config an xray process on a service port runs was admitted, and an
\* admitted config has a real outbound.
LEMMA LeakInvGuards == Basic /\ LeakInv => LeakGuard
<1> SUFFICES ASSUME Basic, LeakInv, NEW x \in RunningConfigs
             PROVE  Outbound(Protocol(SchemeOf[x])) # "freedom"
  BY DEF LeakGuard
<1>1. Admitted(x) /\ x # NoConfig
  BY DEF RunningConfigs, LeakInv
<1>2. x \in Configs
  BY DEF RunningConfigs, Basic, TypeOK, SlotType, ProcessType
<1>3. IsXraySupported(x)
  BY <1>1 DEF Admitted
<1> QED
  BY <1>2, <1>3, SupportedIsNotFreedom

\* The leak guard of parser.go holds for every process a cycle, a boot or a drop
\* starts on a service port, although only the fill loop of main.go applies it.
THEOREM NoLeak == Spec => []LeakGuard
BY InitLeak, NextLeak, BasicAlways, LeakInvGuards, PTL DEF Spec

----------------------------------------------------------------------------
(* The exclusion list.                                                     *)

\* Steps that keep the drop handlers, the lock and the exclusions.
LEMMA LockFrame ==
  ASSUME LockInv, DropHonoursExclusion, UNCHANGED <<replaceMu, excluded>>,
         \A d \in Droppers : pc'[d] = pc[d] /\ cur'[d] = cur[d]
  PROVE  LockInv' /\ DropHonoursExclusion'
BY DEF LockInv, DropHonoursExclusion

\* The main goroutine touches neither replaceMu nor the exclusions.
LEMMA MainLock ==
  ASSUME Basic, LockInv, DropHonoursExclusion, MainNext
  PROVE  LockInv' /\ DropHonoursExclusion'
<1>1. \A d \in Droppers : d \in Threads /\ d # Main
  BY DroppersAssumption DEF Threads
<1>2. UNCHANGED <<replaceMu, excluded>>
  BY DEF MainNext, Fetch, Pick, TestHangs, MainTest, MainClaim, MainSpawn, MainActivate, MainMeasure,
     BootFilled, BootWait, SelectTick, SelectTrigger, SelectDone, Drain, HealthScan,
     UpdateCandidates, Pool!Update, ChooseReplacement, MarkReplaced, Shutdown, ResetStop,
     ResetClear, poolVars
<1>3. \A d \in Droppers : pc'[d] = pc[d]
  <2>1. UNCHANGED pc \/ \E q : pc' = [pc EXCEPT ![Main] = q]
    BY DEF MainNext, Fetch, Pick, TestHangs, MainTest, MainClaim, MainSpawn, MainActivate, MainMeasure,
       BootFilled, BootWait, SelectTick, SelectTrigger, SelectDone, Drain, HealthScan,
       UpdateCandidates, ChooseReplacement, MarkReplaced, Shutdown, ResetStop, ResetClear,
       EndCycle, ResetThen, Goto
  <2> QED
    BY <1>1, <2>1 DEF Basic, TypeOK
<1>4. \A d \in Droppers : cur'[d] = cur[d]
  <2>1. UNCHANGED cur \/ \E q : cur' = [cur EXCEPT ![Main] = q]
    BY DEF MainNext, Fetch, Pick, TestHangs, MainTest, MainClaim, MainSpawn, MainActivate, MainMeasure,
       BootFilled, BootWait, SelectTick, SelectTrigger, SelectDone, Drain, HealthScan,
       UpdateCandidates, ChooseReplacement, MarkReplaced, Shutdown, ResetStop, ResetClear
  <2> QED
    BY <1>1, <2>1 DEF Basic, TypeOK
<1> QED
  BY <1>2, <1>3, <1>4, LockFrame

\* A handler takes a free lock, and works under it until it gives it back.
LEMMA DropLocks ==
  ASSUME Basic, LockInv, DropHonoursExclusion, NEW d \in Droppers,
         DropRequest(d) \/ DropNext(d)
  PROVE  LockInv' /\ DropHonoursExclusion'
<1> d \in Threads /\ Droppers \subseteq Threads /\ d # NoThread /\ NoThread \notin Droppers
  BY DroppersAssumption DEF Threads
<1> USE DEF Locked, Working
<1>1. CASE DropRequest(d)
  BY <1>1 DEF DropRequest, Goto, LockInv, DropHonoursExclusion, Basic, TypeOK, poolVars
<1>2. CASE DropLock(d)
  <2>1. \A e \in Droppers : pc[e] \notin Locked
    BY <1>2 DEF DropLock, LockInv
  <2>2. \A e \in Droppers \ {d} : pc'[e] = pc[e]
    BY <1>2 DEF DropLock, ResetThen, Goto, Basic, TypeOK
  <2>3. pc'[d] = "stop" /\ replaceMu' = d
    BY <1>2 DEF DropLock, ResetThen, Goto, Basic, TypeOK
  <2> QED
    BY <2>1, <2>2, <2>3 DEF LockInv, DropHonoursExclusion
<1>3. CASE DropBest(d)
  <2>1. pc[d] = "best" /\ replaceMu = d /\ excluded' = excluded
    BY <1>3 DEF DropBest, LockInv, poolVars
  <2>2. \A e \in Droppers \ {d} : pc[e] \notin Locked /\ pc'[e] = pc[e]
    BY <1>3, <2>1 DEF DropBest, LockInv, Goto, Basic, TypeOK
  <2>3. \/ replaceMu' = NoThread /\ pc'[d] = "queue"
        \/ replaceMu' = d /\ pc'[d] = "test" /\ cur'[d].config \notin excluded
    BY <1>3, <2>1 DEF DropBest, Goto, Pool!Eligible, Basic, TypeOK, NoResult
  <2> QED
    BY <2>1, <2>2, <2>3 DEF LockInv, DropHonoursExclusion
<1>4. CASE DropTest(d)
  <2>1. cur[d].config \in Configs /\ pc[d] \in {"test", "hung"}
    BY <1>4 DEF DropTest, TestEnds, Basic, ThreadOK
  <2>2. PICK r \in TestResults(cur[d].config) : cur' = [cur EXCEPT ![d] = r]
    BY <1>4 DEF DropTest
  <2>3. r.config = cur[d].config
    BY <2>1, TestResultsTyped
  <2>4. \A e \in Droppers : cur'[e].config = cur[e].config
    BY <2>2, <2>3 DEF Basic, TypeOK
  <2>5. \A e \in Droppers \ {d} : pc'[e] = pc[e]
    BY <1>4 DEF DropTest, Goto, Basic, TypeOK
  <2> QED
    BY <1>4, <2>1, <2>4, <2>5 DEF DropTest, LockInv, DropHonoursExclusion, poolVars
<1>5. CASE DropClaim(d) \/ DropSpawn(d) \/ DropActivate(d) \/ DropMeasure(d) \/ ResetStop(d)
  <2>1. /\ UNCHANGED <<cur, replaceMu, excluded>>
        /\ pc[d] \in {"claim", "spawn", "activate", "measure", "stop"}
    BY <1>5 DEF DropClaim, DropSpawn, DropActivate, DropMeasure, ResetStop, poolVars
  <2>2. /\ \A e \in Droppers \ {d} : pc'[e] = pc[e]
        /\ pc'[d] \in Locked \ {"test", "hung", "claim"}
        /\ pc'[d] \in {"spawn", "activate"} => pc[d] \in {"claim", "spawn"}
    BY <1>5 DEF DropClaim, DropSpawn, DropActivate, DropMeasure, ResetStop, ResetThen, Goto,
       Basic, TypeOK
  <2> QED
    BY <2>1, <2>2 DEF LockInv, DropHonoursExclusion
<1>6. CASE ResetClear(d)
  <2>1. UNCHANGED <<cur, replaceMu, excluded>> /\ pc[d] = "clear" /\ ret[d] \in ReturnPoints
    BY <1>6 DEF ResetClear, poolVars, Basic, ThreadOK
  <2>2. /\ \A e \in Droppers \ {d} : pc'[e] = pc[e]
        /\ pc'[d] \in {"stop", ret[d]}
    BY <1>6 DEF ResetClear, Goto, Basic, TypeOK
  <2> QED
    BY <2>1, <2>2 DEF LockInv, DropHonoursExclusion, ReturnPoints
<1>7. CASE DropUnlock(d)
  <2>1. pc[d] = "unlock" /\ replaceMu = d /\ excluded' = excluded
    BY <1>7 DEF DropUnlock, LockInv, poolVars
  <2>2. \A e \in Droppers \ {d} : pc[e] \notin Locked /\ pc'[e] = pc[e]
    BY <1>7, <2>1 DEF DropUnlock, LockInv, Goto, Basic, TypeOK
  <2>3. pc'[d] = "idle"
    BY <1>7 DEF DropUnlock, Goto, Basic, TypeOK
  <2> QED
    BY <2>2, <2>3 DEF LockInv, DropHonoursExclusion
<1>8. CASE DropQueue(d)
  BY <1>8 DEF DropQueue, Goto, LockInv, DropHonoursExclusion, Basic, TypeOK, poolVars
<1>9. CASE TestHangs(d)
  BY <1>9 DEF TestHangs, Goto, LockInv, DropHonoursExclusion, Basic, TypeOK, poolVars
<1> QED
  BY <1>1, <1>2, <1>3, <1>4, <1>5, <1>6, <1>7, <1>8, <1>9 DEF DropNext

LEMMA NextLock ==
  Basic /\ LockInv /\ DropHonoursExclusion /\ [Next]_vars => LockInv' /\ DropHonoursExclusion'
<1>1. ASSUME LockInv, DropHonoursExclusion, UNCHANGED <<pc, cur, replaceMu, poolVars>>
      PROVE  LockInv' /\ DropHonoursExclusion'
  BY <1>1, LockFrame DEF poolVars
<1>2. EnvNext => UNCHANGED <<pc, cur, replaceMu, poolVars>>
  BY DEF EnvNext, KeepaliveDrain, GraceElapses, XrayExits, OrphanExits, ApiTrigger, Cancel,
     ControlUnchanged
<1>3. UNCHANGED vars => UNCHANGED <<pc, cur, replaceMu, poolVars>>
  BY DEF vars
<1> QED
  BY <1>1, <1>2, <1>3, MainLock, DropLocks DEF Next, Terminated

LEMMA InitLock == Init => LockInv /\ DropHonoursExclusion
<1>1. \A d \in Droppers : d \in Threads /\ d # Main
  BY DroppersAssumption DEF Threads
<1> QED
  BY <1>1 DEF Init, LockInv, DropHonoursExclusion, Locked, Working

\* replaceMu is held by the handler that is between DropLock and its release, so
\* at most one drop of DropAndReplace is under way.
THEOREM DropsExclusive == Spec => []LockInv
BY InitLock, NextLock, BasicAlways, PTL DEF Spec

\* No drop tests or promotes a config that any drop has excluded, however many
\* handlers run and whatever the rotation does meanwhile.
THEOREM ExclusionHonoured == Spec => []DropHonoursExclusion
BY InitLock, NextLock, BasicAlways, PTL DEF Spec

----------------------------------------------------------------------------
(* One goroutine per slot: the invariant.                                  *)

\* Thread t promotes or resets slot i.
Manages(t, i) == IF t = Main THEN MainManages(i) ELSE DropManages(t, i)

\* A slot nobody manages: no promotion was left half done and no handle is stale.
Settled(i) == slot[i].state # "testing" /\ slot[i].proc # "reaped"

\* Thread t is between StopXray and the clearing of slot i.
Clearing(t, i) == pc[t] = "clear" /\ i = First(todo[t])

\* A slot is reset because its config could not be started, because its drain
\* has expired, at shutdown, or by a drop.
ResetFor(s, reason) ==
  /\ reason \in {"pick", "unlock"} => s.state = "testing"
  /\ reason = "scan" => s.state = "draining" /\ s.drain = "expired"
  /\ reason = "exited" => s.state \in {"empty", "draining"}
  /\ reason = "best" => s.state # "testing"

\* What the slots thread t manages hold at each of its program points.
ManagedOK(t, i) ==
  /\ pc[t] \in {"best", "test", "hung", "claim"} => slot[i].state = "empty"
  /\ pc[t] \in {"spawn", "activate"} =>
        slot[i].state = "testing" /\ slot[i].config = cur[t].config
  /\ pc[t] \in {"measure", "unlock"} => Settled(i)
  /\ pc[t] \in {"stop", "clear"} /\ i \in todo[t] =>
        /\ ResetFor(slot[i], ret[t])
        /\ slot[i].proc = "reaped" => Clearing(t, i)
        /\ Clearing(t, i) => slot[i].proc \in {"none", "reaped"}
  /\ pc[t] \in {"stop", "clear"} /\ i \notin todo[t] => slot[i] = EmptySlot
  /\ pc[t] = "exited" => slot[i] = EmptySlot

\* Where a thread's reset goes, and what it holds.
LocalOK(t) ==
  /\ held[t] # NoConfig => pc[t] = "activate"
  /\ pc[t] = "activate" => held[t] = cur[t].config
  /\ t # Main /\ pc[t] \in {"stop", "clear"} =>
        ret[t] \in {"best", "unlock"} /\ todo[t] = {tgt[t]}
  /\ t = Main /\ pc[t] \in {"stop", "clear"} =>
        \/ ret[t] = "pick" /\ todo[t] = {tgt[t]}
        \/ ret[t] \in {"scan", "exited"} /\ phase = "cycle"
  /\ t = Main /\ pc[t] \notin {"stop", "clear"} => ret[t] = NoReturn
  /\ t = Main /\ pc[t] \in {"select", "drain", "scan", "update", "replace", "mark", "shutdown"} =>
        phase = "cycle"
  /\ t = Main /\ pc[t] \in {"filled", "wait"} => phase = "boot"

ApartInv ==
  /\ orphans = {} /\ dead = {}
  /\ \A t \in Threads : LocalOK(t)
  /\ \A t \in Threads, i \in Slots : Manages(t, i) => ManagedOK(t, i)
  /\ \A i \in Slots : (\A t \in Threads : ~Manages(t, i)) => Settled(i)

----------------------------------------------------------------------------
(* One goroutine per slot: what a step of one thread leaves to the others. *)

\* What the keepalive loop, a cycle that replaces a slot, the clock and an exiting
\* process may do to a slot.
Ages(i) ==
  \/ slot'[i] = slot[i]
  \/ /\ InService(i) /\ InService(i)' /\ slot'[i].config = slot[i].config
     /\ slot'[i].proc = slot[i].proc \/ (slot[i].proc = "up" /\ slot'[i].proc = "zombie")
     /\ slot[i].state = "draining" => slot'[i].state = "draining"
     /\ slot[i].drain = "expired" => slot'[i].drain = "expired"

\* The local variables of thread t.
SameLocals(t) ==
  /\ pc'[t] = pc[t] /\ tgt'[t] = tgt[t] /\ cur'[t] = cur[t]
  /\ held'[t] = held[t] /\ todo'[t] = todo[t] /\ ret'[t] = ret[t]
  /\ t = Main => phase' = phase

LEMMA SameManages ==
  ASSUME NEW t \in Threads, SameLocals(t), NEW i
  PROVE  /\ Manages(t, i)' = Manages(t, i)
         /\ LocalOK(t)' = LocalOK(t)
BY DEF SameLocals, Manages, MainManages, DropManages, Closing, LocalOK

\* At most one thread manages a slot.
LEMMA OneManager ==
  ASSUME LockInv, SlotsApart, NEW t \in Threads, NEW u \in Threads, t # u, NEW i \in Slots,
         Manages(t, i)
  PROVE  ~Manages(u, i)
BY DroppersAssumption DEF LockInv, SlotsApart, Manages, DropManages, DropPoints, Locked,
   Working, Threads

LEMMA AgesKeeps ==
  ASSUME NEW i \in Slots, Ages(i)
  PROVE  /\ Settled(i) => Settled(i)'
         /\ \A t \in Threads : SameLocals(t) /\ ManagedOK(t, i) => ManagedOK(t, i)'
<1>1. Settled(i) => Settled(i)'
  BY DEF Ages, Settled, InService
<1>2. ASSUME NEW t \in Threads, SameLocals(t), ManagedOK(t, i) PROVE ManagedOK(t, i)'
  <2>1. CASE slot'[i] = slot[i]
    BY <1>2, <2>1 DEF SameLocals, ManagedOK, Settled, Clearing, ResetFor
  <2>2. CASE slot'[i] # slot[i]
    <3>1. /\ InService(i) /\ InService(i)'
          /\ slot'[i].proc = slot[i].proc \/ (slot[i].proc = "up" /\ slot'[i].proc = "zombie")
          /\ slot[i].state = "draining" => slot'[i].state = "draining"
          /\ slot[i].drain = "expired" => slot'[i].drain = "expired"
      BY <2>2 DEF Ages
    <3>2. slot[i] # EmptySlot
      BY <3>1 DEF InService, EmptySlot
    <3> QED
      BY <1>1, <1>2, <3>1, <3>2 DEF SameLocals, ManagedOK, Clearing, ResetFor, InService
  <2> QED
    BY <2>1, <2>2
<1> QED
  BY <1>1, <1>2

\* A step of thread t keeps the invariant if t leaves the slots it manages in order;
\* the slots of the others it can only let age.
LEMMA ThreadStep ==
  ASSUME ApartInv, LockInv, SlotsApart, NEW t \in Threads,
         \A u \in Threads \ {t} : SameLocals(u),
         \A i \in Slots : Manages(t, i) \/ Ages(i),
         \A i \in Slots : Manages(t, i)' => ManagedOK(t, i)',
         \A i \in Slots : Manages(t, i) /\ ~Manages(t, i)' => Settled(i)',
         orphans' = {}, dead' = {}, LocalOK(t)'
  PROVE  ApartInv'
<1>1. \A u \in Threads : LocalOK(u)'
  <2>1. ASSUME NEW u \in Threads \ {t} PROVE LocalOK(u)'
    BY SameManages DEF ApartInv
  <2> QED
    BY <2>1
<1>2. ASSUME NEW u \in Threads \ {t}, NEW i \in Slots, Manages(u, i)' PROVE ManagedOK(u, i)'
  <2>1. Manages(u, i)
    BY <1>2, SameManages
  <2>2. Ages(i) /\ ManagedOK(u, i)
    BY <2>1, OneManager DEF ApartInv
  <2> QED
    BY <2>2, AgesKeeps
<1>3. ASSUME NEW i \in Slots, \A u \in Threads : ~Manages(u, i)' PROVE Settled(i)'
  <2>1. CASE Manages(t, i)
    BY <1>3, <2>1
  <2>2. CASE ~Manages(t, i)
    <3>1. \A u \in Threads : ~Manages(u, i)
      BY <1>3, <2>2, SameManages
    <3>2. Settled(i) /\ Ages(i)
      BY <2>2, <3>1 DEF ApartInv
    <3> QED
      BY <3>2, AgesKeeps
  <2> QED
    BY <2>1, <2>2
<1> QED
  BY <1>1, <1>2, <1>3 DEF ApartInv

\* A slot a thread comes to manage was managed by nobody.
LEMMA WasSettled ==
  ASSUME ApartInv, LockInv', SlotsApart', NEW t \in Threads,
         \A u \in Threads \ {t} : SameLocals(u),
         NEW i \in Slots, Manages(t, i)', ~Manages(t, i)
  PROVE  Settled(i)
<1>1. ASSUME NEW u \in Threads \ {t} PROVE ~Manages(u, i)
  <2>1. ~Manages(u, i)'
    BY DroppersAssumption DEF LockInv, SlotsApart, Manages, DropManages, DropPoints, Locked,
       Working, Threads
  <2> QED
    BY <2>1, SameManages
<1> QED
  BY <1>1 DEF ApartInv

\* A step that manages nothing before and after, and lets the slots age.
LEMMA QuietStep ==
  ASSUME ApartInv, LockInv, SlotsApart, NEW t \in Threads,
         \A u \in Threads \ {t} : SameLocals(u),
         \A i \in Slots : Ages(i),
         \A i \in Slots : ~Manages(t, i) /\ ~Manages(t, i)',
         orphans' = {}, dead' = {}, LocalOK(t)'
  PROVE  ApartInv'
BY ThreadStep

\* A step of no thread: the environment lets the slots age.
LEMMA AgeStep ==
  ASSUME ApartInv, \A u \in Threads : SameLocals(u), \A i \in Slots : Ages(i),
         orphans' = {}, dead' = {}
  PROVE  ApartInv'
<1>1. \A u \in Threads : LocalOK(u)'
  BY SameManages DEF ApartInv
<1>2. ASSUME NEW u \in Threads, NEW i \in Slots, Manages(u, i)' PROVE ManagedOK(u, i)'
  <2>1. Manages(u, i)
    BY <1>2, SameManages
  <2> QED
    BY <2>1, AgesKeeps DEF ApartInv
<1>3. ASSUME NEW i \in Slots, \A u \in Threads : ~Manages(u, i)' PROVE Settled(i)'
  <2>1. \A u \in Threads : ~Manages(u, i)
    BY <1>3, SameManages
  <2> QED
    BY <2>1, AgesKeeps DEF ApartInv
<1> QED
  BY <1>1, <1>2, <1>3 DEF ApartInv

LEMMA UnchangedAges ==
  ASSUME UNCHANGED slot PROVE \A i \in Slots : Ages(i)
BY DEF Ages

\* A step of the main goroutine leaves the drop handlers where they are ...
LEMMA MainLocals ==
  ASSUME Basic, MainNext PROVE \A u \in Threads \ {Main} : SameLocals(u)
<1> DEFINE Kept(f) == f' = f \/ \E x : f' = [f EXCEPT ![Main] = x]
<1>1. Kept(pc) /\ Kept(tgt) /\ Kept(cur) /\ Kept(held) /\ Kept(todo) /\ Kept(ret)
  <2>1. CASE Fetch \/ Pick \/ BootWait \/ SelectTick \/ SelectTrigger \/ SelectDone
    BY <2>1 DEF Fetch, Pick, BootWait, SelectTick, SelectTrigger, SelectDone, Goto
  <2>2. CASE TestHangs(Main) \/ MainTest \/ MainClaim \/ MainActivate \/ MainMeasure
    BY <2>2 DEF TestHangs, MainTest, MainClaim, MainActivate, MainMeasure, Goto
  <2>3. CASE MainSpawn \/ BootFilled \/ Drain
    BY <2>3 DEF MainSpawn, BootFilled, Drain, ResetThen, EndCycle, Goto
  <2>4. CASE HealthScan \/ Shutdown
    <3>1. \E S, p : ResetThen(Main, S, p)
      BY <2>4, Zenon DEF HealthScan, Shutdown
    <3>2. UNCHANGED <<tgt, cur, held>>
      BY <2>4, Zenon DEF HealthScan, Shutdown
    <3> QED
      BY <3>1, <3>2 DEF ResetThen, Goto
  <2>5. CASE UpdateCandidates \/ ChooseReplacement \/ MarkReplaced
    BY <2>5 DEF UpdateCandidates, ChooseReplacement, MarkReplaced, EndCycle, Goto
  <2>6. CASE ResetStop(Main) \/ ResetClear(Main)
    BY <2>6 DEF ResetStop, ResetClear, Goto
  <2> QED
    BY <2>1, <2>2, <2>3, <2>4, <2>5, <2>6 DEF MainNext
<1> QED
  BY <1>1 DEF SameLocals, Basic, TypeOK

\* ... and a step of a drop handler all the others.
LEMMA DropLocals ==
  ASSUME Basic, NEW d \in Droppers, DropRequest(d) \/ DropNext(d)
  PROVE  (\A u \in Threads \ {d} : SameLocals(u)) /\ dead' = dead
<1> USE DEF Goto, Basic, TypeOK, mainVars
<1>0. dead' = dead
  BY DEF DropNext, DropRequest, DropLock, DropBest, DropTest, DropClaim, DropSpawn,
     DropActivate, DropMeasure, DropUnlock, DropQueue, ResetStop, ResetClear, TestHangs
<1> SUFFICES ASSUME NEW u \in Threads \ {d} PROVE SameLocals(u)
  BY <1>0
<1> USE DEF SameLocals
<1>1. CASE DropRequest(d) \/ DropBest(d) \/ DropTest(d) \/ DropUnlock(d) \/ DropQueue(d)
  BY <1>1 DEF DropRequest, DropBest, DropTest, DropUnlock, DropQueue
<1>2. CASE DropLock(d) \/ DropSpawn(d) \/ DropActivate(d)
  BY <1>2 DEF DropLock, DropSpawn, DropActivate, ResetThen
<1>3. CASE DropClaim(d) \/ DropMeasure(d) \/ ResetStop(d) \/ ResetClear(d) \/ TestHangs(d)
  BY <1>3 DEF DropClaim, DropMeasure, ResetStop, ResetClear, TestHangs
<1> QED
  BY <1>1, <1>2, <1>3 DEF DropNext

----------------------------------------------------------------------------
(* One goroutine per slot: the steps of the main goroutine.                *)

\* Points at which the main goroutine manages no slot.
Quiet == {"fetch", "pick", "test", "hung", "filled", "wait", "select", "drain", "scan",
          "update", "replace", "mark", "shutdown"}

LEMMA QuietManages ==
  ASSUME ApartInv, pc[Main] \in Quiet
  PROVE  ret[Main] = NoReturn /\ \A i \in Slots : ~Manages(Main, i)
<1> Main \in Threads
  BY DEF Threads
<1> QED
  BY DEF ApartInv, LocalOK, Quiet, Manages, MainManages, Closing, NoReturn

LEMMA MainQuiet ==
  ASSUME ApartInv, LockInv, SlotsApart, \A u \in Threads \ {Main} : SameLocals(u),
         \A i \in Slots : Ages(i), UNCHANGED <<orphans, dead, held, ret>>,
         pc[Main] \in Quiet, pc'[Main] \in Quiet \cup {"exited"},
         pc'[Main] \in {"filled", "wait", "exited"} => phase' = "boot",
         pc'[Main] \in {"select", "drain", "scan", "update", "replace", "mark", "shutdown"} =>
           phase' = "cycle"
  PROVE  ApartInv'
<1> Main \in Threads
  BY DEF Threads
<1>1. LocalOK(Main) /\ orphans = {} /\ dead = {}
  BY DEF ApartInv
<1>2. ret'[Main] = NoReturn /\ \A i \in Slots : ~Manages(Main, i)
  BY QuietManages
<1>3. \A i \in Slots : ~Manages(Main, i)'
  BY <1>2 DEF Quiet, Manages, MainManages, Closing, NoReturn
<1>4. LocalOK(Main)'
  BY <1>1, <1>2 DEF LocalOK, Quiet
<1> QED
  BY <1>1, <1>2, <1>3, <1>4, QuietStep

\* Fetching, choosing the next config or leaving the fill loop.
LEMMA PickApart ==
  ASSUME Basic, ApartInv, LockInv, SlotsApart, Fetch \/ Pick PROVE ApartInv'
<1>0. Main \in Threads /\ phase \in {"boot", "cycle"}
  BY DEF Threads, Basic, TypeOK
<1>1. \A u \in Threads \ {Main} : SameLocals(u)
  BY MainLocals DEF MainNext
<1>2. \A i \in Slots : Ages(i)
  BY UnchangedAges DEF Fetch, Pick
<1>3. UNCHANGED <<orphans, dead, held, ret, phase>> /\ pc[Main] \in {"fetch", "pick"}
  BY DEF Fetch, Pick
<1>4. CASE Fetch
  <2>1. \/ pc'[Main] = "pick"
        \/ pc'[Main] = "wait" /\ phase = "boot"
        \/ pc'[Main] = "select" /\ phase # "boot"
    BY <1>0, <1>4 DEF Fetch, Goto, Basic, TypeOK
  <2> QED
    BY <1>0, <1>1, <1>2, <1>3, <2>1, MainQuiet DEF Quiet
<1>5. CASE Pick
  <2>1. pc'[Main] \in {"pick", "test", AfterFill}
    BY <1>0, <1>5 DEF Pick, Goto, Basic, TypeOK
  <2> QED
    BY <1>0, <1>1, <1>2, <1>3, <2>1, MainQuiet DEF Quiet, AfterFill
<1> QED
  BY <1>4, <1>5

\* A test that blocks concerns no slot.
LEMMA MainHangsApart ==
  ASSUME Basic, ApartInv, LockInv, SlotsApart, TestHangs(Main) PROVE ApartInv'
<1>0. Main \in Threads
  BY DEF Threads
<1>1. \A u \in Threads \ {Main} : SameLocals(u)
  BY MainLocals DEF MainNext
<1>2. \A i \in Slots : Ages(i)
  BY UnchangedAges DEF TestHangs
<1>3. /\ UNCHANGED <<orphans, dead, held, ret>>
      /\ pc[Main] = "test" /\ pc'[Main] = "hung"
  BY <1>0 DEF TestHangs, Goto, mainVars, Basic, TypeOK
<1> QED
  BY <1>1, <1>2, <1>3, MainQuiet DEF Quiet

\* A test that ends in a promotion finds an empty slot, which nobody manages.
LEMMA MainTestApart ==
  ASSUME Basic, ApartInv, LockInv, SlotsApart, MainTest PROVE ApartInv'
<1>0. Main \in Threads /\ phase \in {"boot", "cycle"}
  BY DEF Threads, Basic, TypeOK
<1>1. \A u \in Threads \ {Main} : SameLocals(u)
  BY MainLocals DEF MainNext
<1>2. \A i \in Slots : Ages(i)
  BY UnchangedAges DEF MainTest
<1>3. /\ UNCHANGED <<slot, held, todo, orphans, dead, ret, phase>>
      /\ pc[Main] \in {"test", "hung"}
  BY DEF MainTest, TestEnds
<1>4. \/ pc' = [pc EXCEPT ![Main] = "pick"] \/ pc' = [pc EXCEPT ![Main] = AfterFill]
      \/ /\ SlotsByState({"empty"}) # {}
         /\ tgt' = [tgt EXCEPT ![Main] = First(SlotsByState({"empty"}))]
         /\ pc' = [pc EXCEPT ![Main] = "claim"]
  BY DEF MainTest, Goto
<1>5. CASE pc'[Main] \in {"pick", AfterFill}
  BY <1>0, <1>1, <1>2, <1>3, <1>5, MainQuiet DEF Quiet, AfterFill
<1>6. CASE /\ SlotsByState({"empty"}) # {}
           /\ tgt' = [tgt EXCEPT ![Main] = First(SlotsByState({"empty"}))]
           /\ pc' = [pc EXCEPT ![Main] = "claim"]
  <2>1. pc'[Main] = "claim" /\ tgt'[Main] = First(SlotsByState({"empty"}))
    BY <1>0, <1>6 DEF Basic, TypeOK
  <2>2. slot[tgt'[Main]].state = "empty"
    <3>1. SlotsByState({"empty"}) \subseteq Nat
      BY WanCountAssumption DEF SlotsByState, Slots
    <3>2. tgt'[Main] \in SlotsByState({"empty"})
      BY <1>6, <2>1, <3>1, FirstIsLeast
    <3> QED
      BY <3>2 DEF SlotsByState
  <2>3. ret[Main] = NoReturn /\ \A i \in Slots : ~Manages(Main, i)
    BY <1>3, QuietManages DEF Quiet
  <2>4. ASSUME NEW i \in Slots, Manages(Main, i)' PROVE ManagedOK(Main, i)'
    <3>1. i = tgt'[Main]
      BY <1>3, <2>1, <2>3, <2>4 DEF Manages, MainManages, Closing, NoReturn
    <3> QED
      BY <1>3, <2>1, <2>2, <3>1 DEF ManagedOK, Clearing
  <2>5. orphans' = {} /\ dead' = {} /\ LocalOK(Main)'
    BY <1>0, <1>3, <2>1 DEF ApartInv, LocalOK
  <2> QED
    BY <1>0, <1>1, <1>2, <2>3, <2>4, <2>5, ThreadStep
<1> QED
  BY <1>0, <1>4, <1>5, <1>6 DEF Basic, TypeOK

\* Waiting, choosing a case of the select, marking a slot draining, storing candidates.
LEMMA LoopApart ==
  ASSUME Basic, ApartInv, LockInv, SlotsApart,
         \/ BootWait \/ SelectTick \/ SelectTrigger \/ SelectDone
         \/ UpdateCandidates \/ ChooseReplacement \/ MarkReplaced
  PROVE  ApartInv'
<1>0. Main \in Threads
  BY DEF Threads
<1>1. \A u \in Threads \ {Main} : SameLocals(u)
  BY MainLocals DEF MainNext
<1>t. tgt[Main] \in Slots /\ slot \in [Slots -> SlotType]
  BY <1>0 DEF Basic, TypeOK
<1>2. \A i \in Slots : Ages(i)
  <2>1. CASE MarkReplaced
    BY <1>t, <2>1 DEF MarkReplaced, MarkDraining, Ages, InService, SlotType
  <2>2. CASE ~MarkReplaced
    BY <2>2, UnchangedAges DEF BootWait, SelectTick, SelectTrigger, SelectDone,
       UpdateCandidates, ChooseReplacement
  <2> QED
    BY <2>1, <2>2
<1>3. UNCHANGED <<orphans, dead, held, ret, phase>>
  BY DEF BootWait, SelectTick, SelectTrigger, SelectDone, UpdateCandidates,
     ChooseReplacement, MarkReplaced, EndCycle, mainVars
<1>4. \/ pc[Main] = "wait" /\ pc'[Main] \in {"exited", "fetch"}
      \/ pc[Main] \in {"select", "update", "replace", "mark"}
         /\ pc'[Main] \in {"select", "drain", "replace", "mark", "shutdown"}
  BY <1>0 DEF BootWait, SelectTick, SelectTrigger, SelectDone, UpdateCandidates,
     ChooseReplacement, MarkReplaced, EndCycle, Goto, Basic, TypeOK
<1>5. LocalOK(Main)
  BY <1>0 DEF ApartInv
<1>6. \/ pc[Main] = "wait" /\ phase' = "boot"
      \/ pc[Main] # "wait" /\ phase' = "cycle"
  BY <1>3, <1>4, <1>5 DEF LocalOK
<1> QED
  BY <1>1, <1>2, <1>3, <1>4, <1>6, MainQuiet DEF Quiet

\* Starting to reset a set of slots that fit the reason and that nobody manages.
LEMMA MainResets ==
  ASSUME Basic, ApartInv, LockInv, SlotsApart, \A u \in Threads \ {Main} : SameLocals(u),
         \A i \in Slots : Ages(i), UNCHANGED <<orphans, held, phase>>, dead' = {},
         pc[Main] \in Quiet, pc'[Main] = "stop",
         ret'[Main] \in {"scan", "exited"}, phase = "cycle",
         \A i \in Slots : i \in todo'[Main] =>
            ResetFor(slot'[i], ret'[Main]) /\ slot'[i].proc # "reaped",
         ret'[Main] = "exited" => todo'[Main] = Slots
  PROVE  ApartInv'
<1> Main \in Threads
  BY DEF Threads
<1>1. \A i \in Slots : ~Manages(Main, i)
  BY QuietManages
<1>2. ASSUME NEW i \in Slots, Manages(Main, i)' PROVE ManagedOK(Main, i)'
  <2>1. i \in todo'[Main]
    BY <1>2 DEF Manages, MainManages, Closing
  <2>2. ResetFor(slot'[i], ret'[Main]) /\ slot'[i].proc # "reaped"
    BY <2>1
  <2> QED
    BY <2>1, <2>2 DEF ManagedOK, Clearing
<1>3. orphans' = {} /\ LocalOK(Main)'
  BY DEF ApartInv, LocalOK, Quiet
<1> QED
  BY <1>1, <1>2, <1>3, ThreadStep

\* A cycle kills the slots whose drain has expired.
LEMMA DrainApart ==
  ASSUME Basic, ApartInv, LockInv, LockInv', SlotsApart, SlotsApart', Drain PROVE ApartInv'
<1>0. Main \in Threads
  BY DEF Threads
<1>1. \A u \in Threads \ {Main} : SameLocals(u)
  BY MainLocals DEF MainNext
<1>2. \A i \in Slots : Ages(i)
  BY UnchangedAges DEF Drain
<1>3. UNCHANGED <<slot, orphans, held, phase, dead>> /\ pc[Main] = "drain"
  BY DEF Drain, mainVars
<1>4. LocalOK(Main) /\ phase = "cycle" /\ dead' = {}
  BY <1>0, <1>3 DEF ApartInv, LocalOK
<1>5. CASE DrainExpired = {}
  <2>1. pc'[Main] = "scan" /\ UNCHANGED ret
    BY <1>0, <1>5 DEF Drain, ResetThen, Goto, Basic, TypeOK
  <2> QED
    BY <1>1, <1>2, <1>3, <1>4, <2>1, MainQuiet DEF Quiet
<1>6. CASE DrainExpired # {}
  <2>1. pc'[Main] = "stop" /\ todo'[Main] = DrainExpired /\ ret'[Main] = "scan"
    BY <1>0, <1>6 DEF Drain, ResetThen, Goto, Basic, TypeOK
  <2>2. \A i \in Slots : ~Manages(Main, i)
    BY <1>3, QuietManages DEF Quiet
  <2>3. ASSUME NEW i \in Slots, i \in todo'[Main]
        PROVE  ResetFor(slot'[i], ret'[Main]) /\ slot'[i].proc # "reaped"
    <3>1. Manages(Main, i)'
      BY <2>1, <2>3 DEF Manages, MainManages
    <3>2. Settled(i)
      BY <1>0, <1>1, <2>2, <3>1, WasSettled
    <3> QED
      BY <1>3, <2>1, <2>3, <3>2 DEF Settled, DrainExpired, ResetFor
  <2> QED
    BY <1>1, <1>2, <1>3, <1>4, <2>1, <2>3, MainResets DEF Quiet
<1> QED
  BY <1>5, <1>6

\* ShutdownAll resets every slot: nobody managed any of them.
LEMMA ShutdownApart ==
  ASSUME Basic, ApartInv, LockInv, LockInv', SlotsApart, SlotsApart', Shutdown
  PROVE  ApartInv'
<1>0. Main \in Threads /\ Slots # {}
  BY WanCountAssumption DEF Threads, Slots
<1>1. \A u \in Threads \ {Main} : SameLocals(u)
  BY MainLocals DEF MainNext
<1>t. slot \in [Slots -> SlotType]
  BY DEF Basic, TypeOK
<1>2. ASSUME NEW i \in Slots
      PROVE  /\ Ages(i) /\ slot'[i].proc = slot[i].proc
             /\ slot'[i].state = IF slot[i].state = "active" THEN "draining" ELSE slot[i].state
  <2>1. slot[i] \in SlotType
    BY <1>t
  <2>2. /\ slot'[i].config = slot[i].config /\ slot'[i].proc = slot[i].proc
        /\ \/ slot[i].state = "active" /\ slot'[i].state = "draining"
           \/ slot[i].state # "active" /\ slot'[i] = slot[i]
    <3>1. CASE slot[i].state = "active"
      <4>1. slot'[i] = [slot[i] EXCEPT !.state = "draining", !.drain = "fresh"]
        BY <3>1 DEF Shutdown
      <4> QED
        BY <2>1, <3>1, <4>1 DEF SlotType
    <3>2. CASE slot[i].state # "active"
      BY <3>2 DEF Shutdown
    <3> QED
      BY <3>1, <3>2
  <2>3. slot[i].state # "active" \/ (slot[i].state # "draining" /\ slot[i].drain = "no")
    BY <2>1 DEF Basic, SlotShape, SlotType
  <2> QED
    BY <2>2, <2>3 DEF Ages, InService
<1>3. UNCHANGED <<orphans, held, phase, dead>> /\ pc[Main] = "shutdown"
  BY Zenon DEF Shutdown, mainVars
<1>4. LocalOK(Main) /\ phase = "cycle" /\ dead' = {}
  BY <1>0, <1>3 DEF ApartInv, LocalOK
<1>5. ResetThen(Main, Slots, "exited")
  BY Zenon DEF Shutdown
<1>6. pc'[Main] = "stop" /\ todo'[Main] = Slots /\ ret'[Main] = "exited"
  BY <1>0, <1>5 DEF ResetThen, Goto, Basic, TypeOK
<1>7. \A i \in Slots : ~Manages(Main, i)
  BY <1>3, QuietManages DEF Quiet
<1>8. ASSUME NEW i \in Slots
      PROVE  ResetFor(slot'[i], ret'[Main]) /\ slot'[i].proc # "reaped"
  <2>1. Manages(Main, i)'
    BY <1>6 DEF Manages, MainManages
  <2>2. Settled(i)
    BY <1>0, <1>1, <1>7, <2>1, WasSettled
  <2>3. slot[i].state \in {"empty", "active", "draining"}
    BY <1>t, <2>2 DEF Settled, SlotType, States
  <2> QED
    BY <1>2, <1>6, <2>2, <2>3 DEF Settled, ResetFor
<1> QED
  BY <1>1, <1>2, <1>3, <1>4, <1>6, <1>8, MainResets DEF Quiet

\* When startup leaves its fill loop no slot is in testing, so there is none to reset.
LEMMA BootFilledApart ==
  ASSUME Basic, ApartInv, LockInv, LockInv', SlotsApart, SlotsApart', BootFilled
  PROVE  ApartInv'
<1>0. Main \in Threads
  BY DEF Threads
<1>1. \A u \in Threads \ {Main} : SameLocals(u)
  BY MainLocals DEF MainNext
<1>2. \A i \in Slots : Ages(i)
  BY UnchangedAges DEF BootFilled
<1>3. UNCHANGED <<orphans, dead, held>> /\ pc[Main] = "filled" /\ phase = "boot"
  BY <1>0 DEF BootFilled, ApartInv, LocalOK
<1>4. CASE phase' = "cycle" /\ EndCycle /\ UNCHANGED <<todo, ret>>
  <2>1. pc'[Main] = "select"
    BY <1>0, <1>4 DEF EndCycle, Goto, Basic, TypeOK
  <2> QED
    BY <1>1, <1>2, <1>3, <1>4, <2>1, MainQuiet DEF Quiet
<1>5. CASE ResetThen(Main, SlotsByState({"testing"}), "wait") /\ phase' = phase
  <2>1. ASSUME NEW i \in SlotsByState({"testing"}) PROVE FALSE
    <3>1. pc'[Main] = "stop" /\ todo'[Main] = SlotsByState({"testing"})
      BY <1>0, <1>5, <2>1 DEF ResetThen, Goto, Basic, TypeOK
    <3>2. i \in Slots /\ slot[i].state = "testing"
      BY <2>1 DEF SlotsByState
    <3>3. Manages(Main, i)'
      BY <2>1, <3>1 DEF Manages, MainManages
    <3>4. ~Manages(Main, i)
      BY <1>3, <3>2, QuietManages DEF Quiet
    <3>5. Settled(i)
      BY <1>0, <1>1, <3>2, <3>3, <3>4, WasSettled
    <3> QED
      BY <3>2, <3>5 DEF Settled
  <2>2. pc'[Main] = "wait" /\ ret' = ret
    BY <1>0, <1>5, <2>1 DEF ResetThen, Goto, Basic, TypeOK
  <2> QED
    BY <1>1, <1>2, <1>3, <1>5, <2>2, MainQuiet DEF Quiet
<1> QED
  BY <1>4, <1>5 DEF BootFilled

----------------------------------------------------------------------------
(* One goroutine per slot: a promotion and a reset, by either kind of      *)
(* thread.                                                                 *)

\* Where a thread claims, starts and activates it manages just its target.
LEMMA WorkManages ==
  ASSUME ApartInv, NEW t \in Threads, pc[t] \in {"claim", "spawn", "activate", "measure"}
  PROVE  \A i \in Slots : Manages(t, i) <=> i = tgt[t]
BY DEF ApartInv, LocalOK, Manages, MainManages, DropManages, DropPoints, Closing, NoReturn

\* Only slot k changes, and it stays in the hands of thread t or is left settled.
LEMMA OneSlotStep ==
  ASSUME ApartInv, LockInv, SlotsApart, NEW t \in Threads, NEW k \in Slots,
         \A u \in Threads \ {t} : SameLocals(u),
         \A i \in Slots : Manages(t, i) <=> i = k,
         \A i \in Slots \ {k} : slot'[i] = slot[i] /\ ~Manages(t, i)',
         \/ Manages(t, k)' /\ ManagedOK(t, k)'
         \/ ~Manages(t, k)' /\ Settled(k)',
         orphans' = {}, dead' = {}, LocalOK(t)'
  PROVE  ApartInv'
<1>1. \A i \in Slots : Manages(t, i) \/ Ages(i)
  BY DEF Ages
<1>2. \A i \in Slots : Manages(t, i)' => ManagedOK(t, i)'
  BY Zenon
<1>3. \A i \in Slots : Manages(t, i) /\ ~Manages(t, i)' => Settled(i)'
  BY Zenon
<1> QED
  BY <1>1, <1>2, <1>3, ThreadStep

\* A thread finds the slot it is to claim still empty.
LEMMA ClaimApart ==
  ASSUME Basic, ApartInv, LockInv, SlotsApart, NEW t \in Threads,
         \A u \in Threads \ {t} : SameLocals(u),
         pc[t] = "claim", StartTesting(tgt[t], cur[t].config),
         CanStartTesting(tgt[t]) => pc'[t] = "spawn",
         UNCHANGED <<tgt, cur, held, todo, ret, phase, dead, orphans>>
  PROVE  ApartInv' /\ CanStartTesting(tgt[t])
<1> DEFINE k == tgt[t]
<1>t. k \in Slots /\ slot \in [Slots -> SlotType]
  BY DEF Basic, TypeOK
<1>1. \A i \in Slots : Manages(t, i) <=> i = k
  BY WorkManages
<1>2. CanStartTesting(k) /\ pc'[t] = "spawn"
  BY <1>t, <1>1 DEF ApartInv, ManagedOK, CanStartTesting
<1>3. /\ slot'[k].state = "testing" /\ slot'[k].config = cur[t].config
      /\ \A i \in Slots \ {k} : slot'[i] = slot[i]
  BY <1>t, <1>2 DEF StartTesting, SlotType
<1>4. /\ Manages(t, k)' /\ ManagedOK(t, k)'
      /\ \A i \in Slots \ {k} : ~Manages(t, i)'
  BY <1>1, <1>2, <1>3 DEF ManagedOK, Clearing, Manages, MainManages, DropManages, DropPoints, Closing
<1>5. orphans' = {} /\ dead' = {} /\ LocalOK(t)'
  BY <1>2 DEF ApartInv, LocalOK
<1> QED
  BY <1>t, <1>1, <1>2, <1>3, <1>4, <1>5, OneSlotStep

\* The process starts and is handed on, or the claim is undone.
LEMMA SpawnApart ==
  ASSUME Basic, ApartInv, LockInv, SlotsApart, NEW t \in Threads,
         \A u \in Threads \ {t} : SameLocals(u), pc[t] = "spawn",
         \/ /\ pc'[t] = "activate" /\ held'[t] = cur[t].config
            /\ UNCHANGED <<cur, ret, todo>>
         \/ /\ pc'[t] = "stop" /\ todo'[t] = {tgt[t]} /\ UNCHANGED held
            /\ ret'[t] = IF t = Main THEN "pick" ELSE "unlock",
         UNCHANGED <<slot, tgt, phase, dead, orphans>>
  PROVE  ApartInv'
<1> DEFINE k == tgt[t]
<1>t. k \in Slots
  BY DEF Basic, TypeOK
<1>1. \A i \in Slots : Manages(t, i) <=> i = k
  BY WorkManages
<1>2. slot[k].state = "testing" /\ slot[k].config = cur[t].config /\ slot[k].proc = "none"
  BY <1>t, <1>1 DEF ApartInv, ManagedOK, Basic, SlotShape, InService
<1>3. LocalOK(t)
  BY DEF ApartInv
<1>4. CASE pc'[t] = "activate"
  <2>1. held'[t] = cur[t].config /\ UNCHANGED <<cur, ret, todo>>
    BY <1>4
  <2>2. /\ Manages(t, k)' /\ ManagedOK(t, k)'
        /\ \A i \in Slots \ {k} : ~Manages(t, i)'
    BY <1>1, <1>2, <1>4, <2>1 DEF ManagedOK, Clearing, Manages, MainManages, DropManages,
       DropPoints, Closing
  <2>3. orphans' = {} /\ dead' = {} /\ LocalOK(t)'
    BY <1>3, <1>4, <2>1 DEF ApartInv, LocalOK
  <2> QED
    BY <1>t, <1>1, <2>2, <2>3, OneSlotStep
<1>5. CASE pc'[t] = "stop"
  <2>1. /\ todo'[t] = {k} /\ UNCHANGED held
        /\ ret'[t] = IF t = Main THEN "pick" ELSE "unlock"
    BY <1>5
  <2>2. \A i \in Slots \ {k} : ~Manages(t, i)'
    BY <1>1, <1>5, <2>1 DEF Manages, MainManages, DropManages, DropPoints, Closing
  <2>3. Manages(t, k)'
    BY <1>1, <1>5, <2>1 DEF Manages, MainManages, DropManages, DropPoints
  <2>4. ManagedOK(t, k)'
    BY <1>2, <1>5, <2>1 DEF ManagedOK, Clearing, ResetFor
  <2>5. orphans' = {} /\ dead' = {} /\ LocalOK(t)'
    BY <1>3, <1>5, <2>1 DEF ApartInv, LocalOK
  <2> QED
    BY <1>t, <1>1, <2>2, <2>3, <2>4, <2>5, OneSlotStep
<1> QED
  BY <1>4, <1>5

\* The slot is still in testing when its process is handed over, so none is lost.
LEMMA ActivateApart ==
  ASSUME Basic, ApartInv, LockInv, SlotsApart, NEW t \in Threads,
         \A u \in Threads \ {t} : SameLocals(u),
         pc[t] = "activate", SetActive(tgt[t], held[t]), held'[t] = NoConfig,
         CanSetActive(tgt[t]) =>
            pc'[t] = "measure" /\ UNCHANGED <<todo, ret, orphans>>,
         UNCHANGED <<tgt, cur, phase, dead>>
  PROVE  ApartInv' /\ CanSetActive(tgt[t])
<1> DEFINE k == tgt[t]
<1>t. k \in Slots /\ slot \in [Slots -> SlotType]
  BY DEF Basic, TypeOK
<1>1. \A i \in Slots : Manages(t, i) <=> i = k
  BY WorkManages
<1>2. CanSetActive(k) /\ pc'[t] = "measure" /\ UNCHANGED <<todo, ret, orphans>>
  BY <1>t, <1>1 DEF ApartInv, ManagedOK, CanSetActive
<1>3. /\ slot'[k].state = "active" /\ slot'[k].proc = "up"
      /\ \A i \in Slots \ {k} : slot'[i] = slot[i]
  BY <1>t, <1>2 DEF SetActive, SlotType
<1>4. /\ Manages(t, k)' /\ ManagedOK(t, k)'
      /\ \A i \in Slots \ {k} : ~Manages(t, i)'
  BY <1>1, <1>2, <1>3 DEF ManagedOK, Settled, Clearing, Manages, MainManages, DropManages,
     DropPoints, Closing
<1>5. orphans' = {} /\ dead' = {} /\ LocalOK(t)'
  BY <1>2 DEF ApartInv, LocalOK
<1> QED
  BY <1>t, <1>1, <1>2, <1>3, <1>4, <1>5, OneSlotStep

\* Recording the speed ends a promotion and leaves the slot settled.
LEMMA MeasureApart ==
  ASSUME Basic, ApartInv, LockInv, SlotsApart, NEW t \in Threads, NEW speed, NEW stability,
         \A u \in Threads \ {t} : SameLocals(u),
         pc[t] = "measure", SetMeasured(tgt[t], speed, stability),
         pc'[t] = IF t = Main THEN "pick" ELSE "unlock",
         UNCHANGED <<tgt, held, todo, ret, phase, dead, orphans>>
  PROVE  ApartInv'
<1> DEFINE k == tgt[t]
<1>t. k \in Slots /\ slot \in [Slots -> SlotType]
  BY DEF Basic, TypeOK
<1>1. \A i \in Slots : Manages(t, i) <=> i = k
  BY WorkManages
<1>2. Settled(k) /\ LocalOK(t)
  BY <1>t, <1>1 DEF ApartInv, ManagedOK
<1>3. /\ Settled(k)'
      /\ \A i \in Slots \ {k} : slot'[i] = slot[i]
  BY <1>t, <1>2 DEF SetMeasured, Settled, SlotType
<1>4. /\ Manages(t, k)' => ManagedOK(t, k)'
      /\ \A i \in Slots \ {k} : ~Manages(t, i)'
  BY <1>1, <1>3 DEF ManagedOK, Clearing, Manages, MainManages, DropManages, DropPoints, Closing
<1>5. orphans' = {} /\ dead' = {} /\ LocalOK(t)'
  BY <1>2 DEF ApartInv, LocalOK
<1> QED
  BY <1>t, <1>1, <1>3, <1>4, <1>5, OneSlotStep

\* A slot in the set a thread resets is one the thread manages.
LEMMA ResetManages ==
  ASSUME ApartInv, NEW t \in Threads, pc[t] \in {"stop", "clear"}
  PROVE  \A i \in Slots : i \in todo[t] => Manages(t, i)
BY DEF ApartInv, LocalOK, Manages, MainManages, DropManages, DropPoints

\* StopXray leaves the handle of the slot stale, to be cleared next by the same thread.
LEMMA StopApart ==
  ASSUME Basic, ApartInv, LockInv, SlotsApart, NEW t \in Threads, ResetStop(t),
         \A u \in Threads \ {t} : SameLocals(u)
  PROVE  ApartInv'
<1> DEFINE k == First(todo[t])
<1>t. k \in todo[t] /\ k \in Slots /\ slot \in [Slots -> SlotType]
  BY TodoFirst DEF ResetStop, Basic, TypeOK
<1>1. /\ pc[t] = "stop" /\ pc'[t] = "clear"
      /\ UNCHANGED <<tgt, cur, held, todo, ret, phase, dead, orphans>>
  BY DEF ResetStop, Goto, mainVars, Basic, TypeOK
<1>2. /\ slot'[k].state = slot[k].state /\ slot'[k].drain = slot[k].drain
      /\ slot'[k].proc \in {"none", "reaped"}
      /\ \A i \in Slots \ {k} : slot'[i] = slot[i]
  BY <1>t DEF ResetStop, StopCmd, SlotType
<1>3. Manages(t, k) /\ LocalOK(t)
  BY <1>t, <1>1, ResetManages DEF ApartInv
<1>4. \A i \in Slots : Manages(t, i)' = Manages(t, i)
  BY <1>1 DEF Manages, MainManages, DropManages, DropPoints, Closing
<1>5. ASSUME NEW i \in Slots, Manages(t, i)' PROVE ManagedOK(t, i)'
  <2>1. ManagedOK(t, i)
    BY <1>4, <1>5 DEF ApartInv
  <2>2. CASE i = k
    BY <1>t, <1>1, <1>2, <2>1, <2>2 DEF ManagedOK, Clearing, ResetFor
  <2>3. CASE i # k
    BY <1>1, <1>2, <2>1, <2>3 DEF ManagedOK, Clearing, ResetFor
  <2> QED
    BY <2>2, <2>3
<1>6. \A i \in Slots : Manages(t, i) \/ Ages(i)
  BY <1>2, <1>3 DEF Ages
<1>7. orphans' = {} /\ dead' = {} /\ LocalOK(t)'
  BY <1>1, <1>3 DEF ApartInv, LocalOK
<1> QED
  BY <1>4, <1>5, <1>6, <1>7, ThreadStep

\* A slot is only cleared once its process is gone, and nobody else meant to keep it.
LEMMA ClearApart ==
  ASSUME Basic, ApartInv, LockInv, SlotsApart, NEW t \in Threads, ResetClear(t),
         \A u \in Threads \ {t} : SameLocals(u)
  PROVE  ApartInv'
<1> DEFINE k == First(todo[t])
<1>t. k \in todo[t] /\ k \in Slots /\ slot \in [Slots -> SlotType] /\ todo[t] \subseteq Slots
  BY TodoFirst DEF ResetClear, Basic, TypeOK
<1>1. /\ pc[t] = "clear" /\ todo'[t] = todo[t] \ {k}
      /\ UNCHANGED <<tgt, cur, held, phase, dead>>
      /\ \/ todo[t] = {k} /\ pc'[t] = ret[t] /\ ret'[t] = NoReturn
         \/ todo[t] # {k} /\ pc'[t] = "stop" /\ ret'[t] = ret[t]
  BY DEF ResetClear, Goto, mainVars, Basic, TypeOK
<1>2. /\ slot'[k] = EmptySlot
      /\ \A i \in Slots \ {k} : slot'[i] = slot[i]
  BY <1>t DEF ResetClear, Clear
<1>3. Manages(t, k) /\ LocalOK(t)
  BY <1>t, <1>1, ResetManages DEF ApartInv
<1>4. ManagedOK(t, k) /\ Clearing(t, k)
  BY <1>t, <1>1, <1>3 DEF ApartInv, Clearing
<1>5. slot[k].proc # "up"
  BY <1>t, <1>1, <1>4 DEF ManagedOK
<1>6. orphans' = {} /\ dead' = {}
  BY <1>1, <1>5 DEF ResetClear, Forgotten, ApartInv
<1>7. \A i \in Slots : Manages(t, i) \/ Ages(i)
  BY <1>2, <1>3 DEF Ages
<1>8. EmptySlot.state = "empty" /\ EmptySlot.proc = "none"
  BY DEF EmptySlot
<1>9. CASE t = Main /\ ret[t] # "exited"
  <2>1. \A i \in Slots : Manages(t, i) <=> i \in todo[t]
    BY <1>1, <1>9 DEF Manages, MainManages, Closing
  <2>2. ret[t] \in {"pick", "scan"} /\ (ret[t] = "pick" => todo[t] = {k})
    BY <1>t, <1>1, <1>3, <1>9 DEF LocalOK
  <2>3. \A i \in Slots : Manages(t, i)' <=> i \in todo[t] \ {k}
    BY <1>1, <1>9, <2>2 DEF Manages, MainManages, Closing, NoReturn
  <2>4. ASSUME NEW i \in Slots, Manages(t, i)' PROVE ManagedOK(t, i)'
    <3>1. i # k /\ i \in todo[t] /\ pc'[t] = "stop" /\ ret'[t] = ret[t]
      BY <1>t, <1>1, <2>3, <2>4
    <3>2. ManagedOK(t, i) /\ ~Clearing(t, i)
      BY <2>1, <3>1 DEF ApartInv, Clearing
    <3> QED
      BY <1>1, <1>2, <3>1, <3>2 DEF ManagedOK, Clearing, ResetFor
  <2>5. ASSUME NEW i \in Slots, Manages(t, i), ~Manages(t, i)' PROVE Settled(i)'
    BY <1>2, <1>8, <2>1, <2>3, <2>5 DEF Settled
  <2>6. LocalOK(t)'
    BY <1>1, <1>3, <1>9, <2>2 DEF LocalOK, NoReturn
  <2> QED
    BY <1>6, <1>7, <2>4, <2>5, <2>6, ThreadStep
<1>10. CASE t = Main /\ ret[t] = "exited"
  <2>1. phase = "cycle" /\ (\A i \in Slots : Manages(t, i) /\ Manages(t, i)')
    BY <1>1, <1>3, <1>10 DEF LocalOK, Manages, MainManages, Closing
  <2>2. ASSUME NEW i \in Slots PROVE ManagedOK(t, i)'
    <3>1. CASE i = k
      BY <1>1, <1>2, <1>8, <1>10, <3>1 DEF ManagedOK, Clearing
    <3>2. CASE i # k /\ i \in todo[t]
      <4>1. ManagedOK(t, i) /\ ~Clearing(t, i)
        BY <2>1, <3>2 DEF ApartInv, Clearing
      <4>2. pc'[t] = "stop" /\ ret'[t] = ret[t]
        BY <1>1, <3>2
      <4> QED
        BY <1>1, <1>2, <3>2, <4>1, <4>2 DEF ManagedOK, Clearing, ResetFor
    <3>3. CASE i # k /\ i \notin todo[t]
      <4>1. slot[i] = EmptySlot
        BY <1>1, <2>1, <3>3 DEF ApartInv, ManagedOK
      <4> QED
        BY <1>1, <1>2, <1>10, <3>3, <4>1 DEF ManagedOK, Clearing
    <3> QED
      BY <3>1, <3>2, <3>3
  <2>3. LocalOK(t)'
    BY <1>1, <1>3, <1>10, <2>1 DEF LocalOK, NoReturn
  <2> QED
    BY <1>6, <1>7, <2>1, <2>2, <2>3, ThreadStep
<1>11. CASE t # Main
  <2>1. ret[t] \in {"best", "unlock"} /\ todo[t] = {tgt[t]} /\ k = tgt[t]
    BY <1>t, <1>1, <1>3, <1>11 DEF LocalOK
  <2>2. pc'[t] = ret[t] /\ ret'[t] = NoReturn
    BY <1>1, <2>1
  <2>3. PICK j \in Slots : j = tgt[t]
    BY <1>t, <2>1
  <2>4. \A i \in Slots : Manages(t, i) <=> i = j
    BY <1>1, <1>11, <2>3 DEF Manages, DropManages, DropPoints
  <2>5. Manages(t, j)' /\ \A i \in Slots \ {j} : ~Manages(t, i)'
    BY <1>1, <1>11, <2>1, <2>2, <2>3 DEF Manages, DropManages, DropPoints
  <2>6. slot'[j] = EmptySlot /\ \A i \in Slots \ {j} : slot'[i] = slot[i]
    BY <1>2, <2>1, <2>3
  <2>7. ManagedOK(t, j)'
    BY <1>8, <2>1, <2>2, <2>6 DEF ManagedOK, Settled, Clearing
  <2>8. LocalOK(t)'
    BY <1>1, <1>3, <1>11, <2>1, <2>2 DEF LocalOK
  <2> QED
    BY <1>6, <2>4, <2>5, <2>6, <2>7, <2>8, OneSlotStep
<1> QED
  BY <1>9, <1>10, <1>11

\* A promotion by the main goroutine.
LEMMA PromoteApart ==
  ASSUME Basic, ApartInv, LockInv, SlotsApart,
         MainClaim \/ MainSpawn \/ MainActivate \/ MainMeasure
  PROVE  ApartInv'
<1>0. Main \in Threads
  BY DEF Threads
<1>1. \A u \in Threads \ {Main} : SameLocals(u)
  BY MainLocals DEF MainNext
<1>2. CASE MainClaim
  <2>1. /\ pc[Main] = "claim" /\ pc'[Main] = "spawn"
        /\ StartTesting(tgt[Main], cur[Main].config)
        /\ UNCHANGED <<tgt, cur, held, todo, ret, phase, dead, orphans>>
    BY <1>0, <1>2 DEF MainClaim, Goto, mainVars, Basic, TypeOK
  <2> QED
    BY <1>0, <1>1, <2>1, ClaimApart
<1>3. CASE MainSpawn
  <2>1. /\ pc[Main] = "spawn" /\ UNCHANGED <<slot, tgt, phase, dead, orphans>>
        /\ \/ /\ pc'[Main] = "activate" /\ held'[Main] = cur[Main].config
              /\ UNCHANGED <<cur, todo, ret>>
           \/ /\ pc'[Main] = "stop" /\ todo'[Main] = {tgt[Main]} /\ ret'[Main] = "pick"
              /\ UNCHANGED held
    BY <1>0, <1>3 DEF MainSpawn, ResetThen, Goto, mainVars, Basic, TypeOK
  <2> QED
    BY <1>0, <1>1, <2>1, SpawnApart
<1>4. CASE MainActivate
  <2>1. /\ pc[Main] = "activate" /\ pc'[Main] = "measure" /\ held'[Main] = NoConfig
        /\ SetActive(tgt[Main], held[Main])
        /\ CanSetActive(tgt[Main]) => UNCHANGED orphans
        /\ UNCHANGED <<tgt, cur, todo, ret, phase, dead>>
    BY <1>0, <1>4 DEF MainActivate, Goto, mainVars, Basic, TypeOK
  <2> QED
    BY <1>0, <1>1, <2>1, ActivateApart
<1>5. CASE MainMeasure
  <2>1. /\ pc[Main] = "measure" /\ pc'[Main] = "pick"
        /\ SetMeasured(tgt[Main], cur[Main].speed, cur[Main].stability)
        /\ UNCHANGED <<tgt, held, todo, ret, phase, dead, orphans>>
    BY <1>0, <1>5 DEF MainMeasure, Goto, mainVars, Basic, TypeOK
  <2> QED
    BY <1>0, <1>1, <2>1, MeasureApart
<1> QED
  BY <1>2, <1>3, <1>4, <1>5

\* The health check finds no process waited for in a slot nobody resets.
LEMMA HealthApart ==
  ASSUME Basic, ApartInv, LockInv, LockInv', SlotsApart, SlotsApart', HealthScan
  PROVE  ApartInv'
<1>0. Main \in Threads
  BY DEF Threads
<1>1. \A u \in Threads \ {Main} : SameLocals(u)
  BY MainLocals DEF MainNext
<1>2. \A i \in Slots : Ages(i)
  BY UnchangedAges DEF HealthScan
<1>3. UNCHANGED <<orphans, held, phase>> /\ pc[Main] = "scan"
  BY DEF HealthScan
<1>4. phase = "cycle" /\ dead = {}
  BY <1>0, <1>3 DEF ApartInv, LocalOK
<1>5. CASE scan = WanCount
  <2>1. pc'[Main] = "fetch" /\ dead' = {} /\ ret' = ret
    BY <1>0, <1>4, <1>5, WanCountAssumption DEF HealthScan, ResetThen, Goto, Basic, TypeOK
  <2> QED
    BY <1>1, <1>2, <1>3, <1>4, <2>1, MainQuiet DEF Quiet
<1>6. CASE scan # WanCount
  <2> DEFINE sick == InService(scan) /\ ~HealthCheckXray(scan)
  <2>1. /\ dead' = IF sick THEN dead \cup {scan} ELSE dead
        /\ ResetThen(Main, IF sick THEN {scan} ELSE {}, "scan")
    BY <1>6 DEF HealthScan
  <2>2. PICK j \in Slots : j = scan
    BY <1>6, WanCountAssumption DEF Basic, TypeOK, Slots
  <2>3. ASSUME sick PROVE FALSE
    <3>1. pc'[Main] = "stop" /\ todo'[Main] = {j}
      BY <1>0, <2>1, <2>2, <2>3 DEF ResetThen, Goto, Basic, TypeOK
    <3>2. Manages(Main, j)'
      BY <3>1 DEF Manages, MainManages
    <3>3. ~Manages(Main, j)
      BY <1>3, QuietManages DEF Quiet
    <3>4. slot[j].proc # "reaped"
      BY <1>0, <1>1, <3>2, <3>3, WasSettled DEF Settled
    <3>5. slot[j].proc \in {"up", "zombie"}
      BY <2>2, <2>3, <3>4 DEF Basic, TypeOK, SlotType, SlotShape, Procs
    <3> QED
      BY <2>2, <2>3, <3>5 DEF HealthCheckXray
  <2>4. pc'[Main] = "scan" /\ ret' = ret /\ dead' = dead
    BY <1>0, <2>1, <2>3 DEF ResetThen, Goto, Basic, TypeOK
  <2> QED
    BY <1>1, <1>2, <1>3, <1>4, <2>4, MainQuiet DEF Quiet
<1> QED
  BY <1>5, <1>6

LEMMA MainApart ==
  ASSUME Basic, ApartInv, LockInv, LockInv', SlotsApart, SlotsApart', MainNext
  PROVE  ApartInv'
<1> Main \in Threads
  BY DEF Threads
<1>1. CASE ResetStop(Main) \/ ResetClear(Main)
  BY <1>1, MainLocals, StopApart, ClearApart
<1> QED
  BY <1>1, PickApart, MainHangsApart, MainTestApart, PromoteApart, LoopApart, DrainApart, ShutdownApart,
     BootFilledApart, HealthApart DEF MainNext

----------------------------------------------------------------------------
(* One goroutine per slot: the steps of a drop handler and of the          *)
(* environment.                                                            *)

\* Taking a request and queueing a cycle concern no slot.
LEMMA DropIdleApart ==
  ASSUME Basic, ApartInv, LockInv, SlotsApart, NEW d \in Droppers,
         DropRequest(d) \/ DropQueue(d)
  PROVE  ApartInv'
<1>0. d \in Threads /\ d # Main
  BY DroppersAssumption DEF Threads
<1>1. (\A u \in Threads \ {d} : SameLocals(u)) /\ dead' = dead
  BY DropLocals DEF DropNext
<1>2. \A i \in Slots : Ages(i)
  BY UnchangedAges DEF DropRequest, DropQueue
<1>3. /\ pc[d] \in {"idle", "queue"} /\ pc'[d] \in {"lock", "idle"}
      /\ UNCHANGED <<held, orphans>>
  BY <1>0 DEF DropRequest, DropQueue, Goto, Basic, TypeOK
<1>4. \A i \in Slots : ~Manages(d, i) /\ ~Manages(d, i)'
  BY <1>0, <1>3 DEF Manages, DropManages
<1>5. orphans' = {} /\ dead' = {} /\ LocalOK(d)'
  BY <1>0, <1>1, <1>3 DEF ApartInv, LocalOK
<1> QED
  BY <1>0, <1>1, <1>2, <1>4, <1>5, QuietStep

\* A drop that begins finds its slot settled.
LEMMA DropLockApart ==
  ASSUME Basic, ApartInv, LockInv, LockInv', SlotsApart, SlotsApart', NEW d \in Droppers,
         DropLock(d)
  PROVE  ApartInv'
<1>0. d \in Threads /\ d # Main
  BY DroppersAssumption DEF Threads
<1>1. (\A u \in Threads \ {d} : SameLocals(u)) /\ dead' = dead
  BY DropLocals DEF DropNext
<1>2. \A i \in Slots : Ages(i)
  BY UnchangedAges DEF DropLock
<1>3. PICK j \in Slots : j = tgt[d]
  BY <1>0 DEF Basic, TypeOK
<1>4. /\ pc[d] = "lock" /\ pc'[d] = "stop" /\ todo'[d] = {j} /\ ret'[d] = "best"
      /\ UNCHANGED <<slot, tgt, held, orphans>>
  BY <1>0, <1>3 DEF DropLock, ResetThen, Goto, Basic, TypeOK
<1>5. \A i \in Slots : ~Manages(d, i) /\ (Manages(d, i)' <=> i = j)
  BY <1>0, <1>3, <1>4 DEF Manages, DropManages, DropPoints
<1>6. Settled(j)
  BY <1>0, <1>1, <1>5, WasSettled
<1>7. ASSUME NEW i \in Slots, Manages(d, i)' PROVE ManagedOK(d, i)'
  <2>1. i = j
    BY <1>5, <1>7
  <2> QED
    BY <1>4, <1>6, <2>1 DEF ManagedOK, Settled, Clearing, ResetFor
<1>8. orphans' = {} /\ dead' = {} /\ LocalOK(d)'
  BY <1>0, <1>1, <1>3, <1>4 DEF ApartInv, LocalOK
<1> QED
  BY <1>0, <1>1, <1>2, <1>5, <1>7, <1>8, ThreadStep

\* The drop keeps its slot empty while it chooses and tests a candidate, and leaves
\* it settled when it gives up or is done.
LEMMA DropChooseApart ==
  ASSUME Basic, ApartInv, LockInv, SlotsApart, NEW d \in Droppers,
         DropBest(d) \/ (Running /\ TestHangs(d)) \/ DropTest(d) \/ DropUnlock(d)
  PROVE  ApartInv'
<1>0. d \in Threads /\ d # Main
  BY DroppersAssumption DEF Threads
<1>1. (\A u \in Threads \ {d} : SameLocals(u)) /\ dead' = dead
  BY DropLocals DEF DropNext
<1>3. PICK j \in Slots : j = tgt[d]
  BY <1>0 DEF Basic, TypeOK
<1>4. /\ UNCHANGED <<slot, tgt, held, orphans>>
      /\ \/ pc[d] = "best" /\ pc'[d] \in {"queue", "test"}
         \/ pc[d] \in {"test", "hung"} /\ pc'[d] \in {"hung", "unlock", "claim"}
         \/ pc[d] = "unlock" /\ pc'[d] = "idle"
  <2>1. CASE DropBest(d)
    BY <1>0, <2>1 DEF DropBest, Goto, Basic, TypeOK
  <2>2. CASE DropTest(d)
    <3>1. Goto(d, "unlock") \/ Goto(d, "claim")
      BY <2>2 DEF DropTest
    <3>2. UNCHANGED <<slot, tgt, held, orphans>> /\ pc[d] \in {"test", "hung"}
      BY <2>2 DEF DropTest, TestEnds
    <3> QED
      BY <1>0, <3>1, <3>2 DEF Goto, Basic, TypeOK
  <2>3. CASE DropUnlock(d)
    BY <1>0, <2>3 DEF DropUnlock, Goto, Basic, TypeOK
  <2>4. CASE TestHangs(d)
    BY <1>0, <2>4 DEF TestHangs, Goto, Basic, TypeOK
  <2> QED
    BY <2>1, <2>2, <2>3, <2>4
<1>5. \A i \in Slots : Manages(d, i) <=> i = j
  BY <1>0, <1>3, <1>4 DEF Manages, DropManages, DropPoints
<1>6. ManagedOK(d, j) /\ LocalOK(d)
  BY <1>0, <1>5 DEF ApartInv
<1>7. Settled(j) /\ (pc[d] # "unlock" => slot[j].state = "empty")
  <2>1. slot[j].state = "empty" => slot[j].proc = "none"
    BY DEF Basic, SlotShape, InService
  <2> QED
    BY <1>4, <1>6, <2>1 DEF ManagedOK, Settled
<1>8. \A i \in Slots \ {j} : slot'[i] = slot[i] /\ ~Manages(d, i)'
  BY <1>0, <1>3, <1>4 DEF Manages, DropManages
<1>9. \/ Manages(d, j)' /\ ManagedOK(d, j)'
      \/ ~Manages(d, j)' /\ Settled(j)'
  <2>1. CASE pc'[d] \in {"queue", "idle"}
    BY <1>0, <1>4, <1>7, <2>1 DEF Manages, DropManages, Settled
  <2>2. CASE pc'[d] \notin {"queue", "idle"}
    <3>1. Manages(d, j)'
      BY <1>0, <1>3, <1>4, <2>2 DEF Manages, DropManages, DropPoints
    <3>2. ManagedOK(d, j)'
      BY <1>4, <1>7, <2>2 DEF ManagedOK, Settled, Clearing
    <3> QED
      BY <3>1, <3>2
  <2> QED
    BY <2>1, <2>2
<1>10. orphans' = {} /\ dead' = {} /\ LocalOK(d)'
  BY <1>0, <1>1, <1>4, <1>6 DEF ApartInv, LocalOK
<1> QED
  BY <1>0, <1>1, <1>5, <1>8, <1>9, <1>10, OneSlotStep

\* A promotion by a drop.
LEMMA DropPromoteApart ==
  ASSUME Basic, ApartInv, LockInv, SlotsApart, NEW d \in Droppers,
         DropClaim(d) \/ DropSpawn(d) \/ DropActivate(d) \/ DropMeasure(d)
  PROVE  ApartInv'
<1>0. d \in Threads /\ d # Main
  BY DroppersAssumption DEF Threads
<1>1. (\A u \in Threads \ {d} : SameLocals(u)) /\ dead' = dead
  BY DropLocals DEF DropNext
<1>2. CASE DropClaim(d)
  <2>1. /\ pc[d] = "claim" /\ StartTesting(tgt[d], cur[d].config)
        /\ CanStartTesting(tgt[d]) => pc'[d] = "spawn"
        /\ UNCHANGED <<tgt, cur, held, todo, ret, phase, dead, orphans>>
    BY <1>0, <1>2 DEF DropClaim, Goto, mainVars, Basic, TypeOK
  <2> QED
    BY <1>0, <1>1, <2>1, ClaimApart
<1>3. CASE DropSpawn(d)
  <2>1. /\ pc[d] = "spawn" /\ UNCHANGED <<slot, tgt, cur, phase, dead, orphans>>
        /\ \/ /\ pc'[d] = "activate" /\ held'[d] = cur[d].config
              /\ UNCHANGED <<todo, ret>>
           \/ /\ pc'[d] = "stop" /\ todo'[d] = {tgt[d]} /\ ret'[d] = "unlock"
              /\ UNCHANGED held
    BY <1>0, <1>3 DEF DropSpawn, ResetThen, Goto, mainVars, Basic, TypeOK
  <2> QED
    BY <1>0, <1>1, <2>1, SpawnApart
<1>4. CASE DropActivate(d)
  <2>1. /\ pc[d] = "activate" /\ held'[d] = NoConfig
        /\ SetActive(tgt[d], held[d])
        /\ CanSetActive(tgt[d]) => pc'[d] = "measure" /\ UNCHANGED <<todo, ret, orphans>>
        /\ UNCHANGED <<tgt, cur, phase, dead>>
    BY <1>0, <1>4 DEF DropActivate, Goto, mainVars, Basic, TypeOK
  <2> QED
    BY <1>0, <1>1, <2>1, ActivateApart
<1>5. CASE DropMeasure(d)
  <2>1. /\ pc[d] = "measure" /\ pc'[d] = "unlock"
        /\ SetMeasured(tgt[d], cur[d].speed, cur[d].stability)
        /\ UNCHANGED <<tgt, held, todo, ret, phase, dead, orphans>>
    BY <1>0, <1>5 DEF DropMeasure, Goto, mainVars, Basic, TypeOK
  <2> QED
    BY <1>0, <1>1, <2>1, MeasureApart
<1> QED
  BY <1>2, <1>3, <1>4, <1>5

LEMMA DropApart ==
  ASSUME Basic, ApartInv, LockInv, LockInv', SlotsApart, SlotsApart', NEW d \in Droppers,
         DropRequest(d) \/ DropNext(d)
  PROVE  ApartInv'
<1> d \in Threads
  BY DEF Threads
<1>1. CASE ResetStop(d) \/ ResetClear(d)
  <2>1. \A u \in Threads \ {d} : SameLocals(u)
    BY DropLocals
  <2> QED
    BY <1>1, <2>1, StopApart, ClearApart
<1> QED
  BY <1>1, DropIdleApart, DropLockApart, DropChooseApart, DropPromoteApart DEF DropNext

\* The environment only lets slots age: it drains them, ends their grace period
\* or kills their processes.
LEMMA EnvApart ==
  ASSUME Basic, ApartInv, EnvNext \/ UNCHANGED vars PROVE ApartInv'
<1>t. slot \in [Slots -> SlotType] /\ SlotShape
  BY DEF Basic, TypeOK
<1>1. \A u \in Threads : SameLocals(u)
  BY DEF EnvNext, KeepaliveDrain, GraceElapses, XrayExits, OrphanExits, ApiTrigger, Cancel,
     ControlUnchanged, SameLocals, mainVars, vars
<1>2. orphans' = {} /\ dead' = {}
  BY DEF ApartInv, EnvNext, KeepaliveDrain, GraceElapses, XrayExits, OrphanExits, ApiTrigger,
     Cancel, ControlUnchanged, mainVars, vars
<1>3. ASSUME NEW i \in Slots PROVE Ages(i)
  <2>1. slot[i].state # "draining" => slot[i].drain = "no"
    BY <1>t DEF SlotShape
  <2>2. slot[i].proc = "up" => InService(i)
    BY <1>t DEF SlotShape
  <2>3. CASE UNCHANGED slot
    BY <2>3, UnchangedAges
  <2>4. CASE \E j \in Slots : KeepaliveDrain(j)
    BY <1>t, <2>1, <2>4 DEF KeepaliveDrain, MarkDraining, SlotType, Ages, InService
  <2>5. CASE \E j \in Slots : GraceElapses(j)
    BY <1>t, <2>1, <2>5 DEF GraceElapses, SlotType, Ages, InService
  <2>6. CASE \E j \in Slots : XrayExits(j)
    BY <1>t, <2>2, <2>6 DEF XrayExits, SlotType, Ages, InService
  <2> QED
    BY <2>3, <2>4, <2>5, <2>6 DEF EnvNext, OrphanExits, ApiTrigger, Cancel, vars
<1> QED
  BY <1>1, <1>2, <1>3, AgeStep

LEMMA NextApart ==
  Basic /\ ApartInv /\ LockInv /\ LockInv' /\ SlotsApart /\ SlotsApart' /\ [Next]_vars
    => ApartInv'
BY MainApart, DropApart, EnvApart DEF Next, Terminated

LEMMA InitApart == Init => ApartInv /\ SlotsApart
<1> SUFFICES ASSUME Init PROVE ApartInv /\ SlotsApart
  OBVIOUS
<1>0. Main \in Threads
  BY DEF Threads
<1>1. /\ pc[Main] = "fetch" /\ \A d \in Droppers : d \in Threads /\ d # Main /\ pc[d] = "idle"
  BY <1>0, DroppersAssumption DEF Init, Threads
<1>2. \A t \in Threads : held[t] = NoConfig /\ ret[t] = NoReturn /\ pc[t] \in {"fetch", "idle"}
  BY DEF Init
<1>3. \A t \in Threads : LocalOK(t)
  BY <1>1, <1>2 DEF LocalOK, Threads
<1>4. \A i \in Slots : slot[i] = EmptySlot
  BY DEF Init, NewWANPool
<1>5. \A i \in Slots : Settled(i)
  BY <1>4 DEF Settled, EmptySlot
<1>6. ASSUME NEW t \in Threads, NEW i \in Slots PROVE ~Manages(t, i)
  BY <1>0, <1>1, <1>2 DEF Manages, MainManages, DropManages, Closing, NoReturn, Threads
<1>7. ApartInv
  BY <1>3, <1>5, <1>6 DEF ApartInv, Init
<1>8. SlotsApart
  BY <1>1 DEF SlotsApart, DropManages
<1> QED
  BY <1>7, <1>8

\* ApartSpec is Spec restricted to the executions in which no slot has two managers.
LEMMA ApartExecutions == ApartSpec => Spec /\ []SlotsApart
<1>1. Init => SlotsApart
  BY InitApart
<1>2. [Next /\ SlotsApart']_vars => [Next]_vars
  OBVIOUS
<1>3. SlotsApart /\ [Next /\ SlotsApart']_vars => SlotsApart'
  <2>1. SlotsApart /\ UNCHANGED vars => SlotsApart'
    BY DEF SlotsApart, DropManages, MainManages, Closing, vars, mainVars
  <2> QED
    BY <2>1
<1> QED
  BY <1>1, <1>2, <1>3, PTL DEF ApartSpec, Spec

LEMMA ApartAlways == ApartSpec => [](Basic /\ LockInv /\ SlotsApart /\ ApartInv)
<1>1. Basic /\ ApartInv /\ LockInv /\ LockInv' /\ SlotsApart /\ SlotsApart' /\ [Next]_vars
        => ApartInv'
  BY NextApart
<1>2. Init => ApartInv
  BY InitApart
<1> QED
  BY <1>1, <1>2, ApartExecutions, BasicAlways, DropsExclusive, PTL DEF Spec

----------------------------------------------------------------------------
(* One goroutine per slot: what follows from the invariant.                *)

\* Without drop requests no two goroutines ever manage one slot: what holds for
\* ApartSpec holds for startup and the rotation loop alone, whatever the keepalive
\* loop and the processes do.
LEMMA LoopAloneApart ==
  ASSUME Droppers = {}
  PROVE  Spec => ApartSpec
<1>1. [Next]_vars => [Next /\ SlotsApart']_vars
  BY DEF SlotsApart
<1> QED
  BY <1>1, PTL DEF Spec, ApartSpec

\* As long as no slot is managed by two goroutines at once, every xray process
\* viberoxy starts on a service port keeps its handle until it is stopped:
\* SetActive always finds the slot in testing, and ResetEmpty never clears a slot
\* whose process runs, with any number of drops beside the rotation.
THEOREM NoProcessLost == ApartSpec => []NoOrphans
<1>1. ApartInv => NoOrphans
  BY DEF ApartInv, NoOrphans
<1> QED
  BY <1>1, ApartAlways, PTL

\* As long as no slot is managed by two goroutines at once, ShutdownAll leaves
\* every slot empty and no process running, whatever the keepalive loop, drops that
\* had their slots before it began and the processes do.
THEOREM ShutdownClean == ApartSpec => []CleanShutdown
<1>1. ASSUME ApartInv PROVE CleanShutdown
  <2>1. SUFFICES ASSUME pc[Main] = "exited", phase = "cycle", NEW i \in Slots
                 PROVE  orphans = {} /\ slot[i] = EmptySlot
    BY <1>1 DEF CleanShutdown, ApartInv
  <2>2. Main \in Threads /\ Manages(Main, i)
    BY <2>1 DEF Threads, Manages, MainManages, Closing
  <2>3. ManagedOK(Main, i)
    BY <1>1, <2>2 DEF ApartInv
  <2> QED
    BY <1>1, <2>1, <2>3 DEF ApartInv, ManagedOK
<1> QED
  BY <1>1, ApartAlways, PTL

\* Any set that has at most one element.
LEMMA AtMostOne ==
  ASSUME NEW S, NEW x, S \subseteq {x}
  PROVE  Cardinality(S) \in {0, 1} /\ (x \notin S => Cardinality(S) = 0)
<1>1. S = {} \/ S = {x}
  OBVIOUS
<1>2. Cardinality({}) = 0 /\ Cardinality({x}) = 1
  BY FS_EmptySet, FS_Singleton
<1> QED
  BY <1>1, <1>2

\* What replaceMu is for: as long as no slot is managed by two goroutines at once,
\* never are two xray processes started for one service port, by a cycle, by a drop
\* or by one of each.
THEOREM OnePerPort == ApartSpec => []OneXrayPerPort
<1>1. ASSUME Basic, LockInv, SlotsApart, ApartInv, NEW i \in Slots
      PROVE  Cardinality({x \in {i} : slot[i].proc = "up"})
               + Cardinality({t \in Threads : tgt[t] = i /\ held[t] # NoConfig})
               + Cardinality({x \in orphans : x.port = i}) <= 1
  <2> DEFINE UpProcs == {x \in {i} : slot[i].proc = "up"}
             Starters == {t \in Threads : tgt[t] = i /\ held[t] # NoConfig}
             LostProcs == {x \in orphans : x.port = i}
  <2>1. LostProcs = {}
    BY <1>1 DEF ApartInv
  <2>2. Cardinality(LostProcs) = 0
    BY <2>1, FS_EmptySet
  <2>3. Cardinality(UpProcs) \in {0, 1} /\ (i \notin UpProcs => Cardinality(UpProcs) = 0)
    BY AtMostOne
  <2>4. ASSUME NEW t \in Starters
        PROVE  t \in Threads /\ Manages(t, i) /\ slot[i].proc = "none"
    <3>1. t \in Threads /\ tgt[t] = i /\ held[t] # NoConfig /\ LocalOK(t)
      BY <1>1, <2>4 DEF ApartInv
    <3>2. pc[t] = "activate" /\ Manages(t, i)
      BY <1>1, <3>1, WorkManages DEF LocalOK
    <3>3. slot[i].state = "testing"
      BY <1>1, <3>1, <3>2 DEF ApartInv, ManagedOK
    <3> QED
      BY <1>1, <3>1, <3>2, <3>3 DEF Basic, SlotShape, InService
  <2>5. CASE Starters = {}
    <3>1. Cardinality(Starters) = 0
      BY <2>5, FS_EmptySet
    <3> HIDE DEF UpProcs, Starters, LostProcs
    <3>2. Cardinality(UpProcs) + Cardinality(Starters) + Cardinality(LostProcs) <= 1
      BY <2>2, <2>3, <3>1
    <3> QED
      BY <3>2 DEF UpProcs, Starters, LostProcs
  <2>6. CASE Starters # {}
    <3>1. PICK t \in Starters : TRUE
      BY <2>6
    <3>2. Starters \subseteq {t}
      <4>1. ASSUME NEW u \in Starters, u # t PROVE FALSE
        BY <1>1, <2>4, <3>1, <4>1, OneManager
      <4> QED
        BY <4>1
    <3>3. Cardinality(Starters) \in {0, 1}
      BY <3>2, AtMostOne
    <3>4. i \notin UpProcs
      BY <2>4, <3>1
    <3> HIDE DEF UpProcs, Starters, LostProcs
    <3>5. Cardinality(UpProcs) + Cardinality(Starters) + Cardinality(LostProcs) <= 1
      BY <2>2, <2>3, <3>3, <3>4
    <3> QED
      BY <3>5 DEF UpProcs, Starters, LostProcs
  <2> QED
    BY <2>5, <2>6
<1>2. Basic /\ LockInv /\ SlotsApart /\ ApartInv => OneXrayPerPort
  BY <1>1 DEF OneXrayPerPort
<1> QED
  BY <1>2, ApartAlways, PTL

----------------------------------------------------------------------------
(* The main goroutine alone: one slot per upstream.                        *)

\* The endpoint the main goroutine tests or promotes is served by no slot yet.
FreshEndpoint ==
  pc[Main] \in {"test", "hung", "claim", "spawn", "activate"} =>
     \A i \in Slots : InService(i) =>
        EndpointOf[slot[i].config] # EndpointOf[cur[Main].config]

\* No slot enters service or changes its config.
NoneEnters ==
  \A i \in Slots : InService(i)' => InService(i) /\ slot'[i].config = slot[i].config

LEMMA DistinctKept ==
  ASSUME DistinctEndpoints, NoneEnters PROVE DistinctEndpoints'
BY DEF DistinctEndpoints, NoneEnters

LEMMA FreshKept ==
  ASSUME FreshEndpoint, NoneEnters,
         pc'[Main] \in {"test", "hung", "claim", "spawn", "activate"} =>
           /\ pc[Main] \in {"test", "hung", "claim", "spawn", "activate"}
           /\ cur'[Main].config = cur[Main].config
  PROVE  FreshEndpoint'
BY DEF FreshEndpoint, NoneEnters

\* The step that puts a slot into service.
LEMMA ActivateDistinct ==
  ASSUME Basic, ApartInv, FreshEndpoint, DistinctEndpoints, MainActivate
  PROVE  FreshEndpoint' /\ DistinctEndpoints'
<1> Main \in Threads
  BY DEF Threads
<1> DEFINE k == tgt[Main]
<1>t. k \in Slots /\ slot \in [Slots -> SlotType]
  BY DEF Basic, TypeOK
<1>1. pc[Main] = "activate" /\ pc'[Main] = "measure"
  BY DEF MainActivate, Goto, Basic, TypeOK
<1>2. slot[k].state = "testing" /\ slot[k].config = cur[Main].config
  BY <1>t, <1>1, WorkManages DEF ApartInv, ManagedOK
<1>3. /\ slot'[k].state = "active" /\ slot'[k].config = slot[k].config
      /\ \A i \in Slots \ {k} : slot'[i] = slot[i]
  BY <1>t, <1>2 DEF MainActivate, SetActive, CanSetActive, SlotType
<1>4. \A i \in Slots : InService(i) => EndpointOf[slot[i].config] # EndpointOf[slot[k].config]
  BY <1>1, <1>2 DEF FreshEndpoint
<1>5. \A i \in Slots \ {k} : InService(i)' = InService(i) /\ slot'[i].config = slot[i].config
  BY <1>3 DEF InService
<1> QED
  BY <1>1, <1>3, <1>4, <1>5 DEF FreshEndpoint, DistinctEndpoints

\* The step that chooses a config for test, after the dedupe check.
LEMMA PickFresh ==
  ASSUME Basic, FreshEndpoint, Pick PROVE FreshEndpoint'
<1> Main \in Threads
  BY DEF Threads
<1>1. CASE pc'[Main] = "test"
  <2>1. ~HasServerPort(Head(rest)) /\ cur'[Main].config = Head(rest) /\ UNCHANGED slot
    BY <1>1 DEF Pick, Skipped, AfterFill, Goto, Basic, TypeOK, NoResult
  <2>2. \A i \in Slots : InService(i) => slot[i].config # NoConfig
    BY DEF Basic, SlotShape, InService
  <2> QED
    BY <2>1, <2>2 DEF HasServerPort, FreshEndpoint, InService
<1>2. CASE pc'[Main] # "test"
  BY <1>2 DEF Pick, AfterFill, Goto, Basic, TypeOK, FreshEndpoint
<1> QED
  BY <1>1, <1>2

\* The other steps put no slot into service.
LEMMA NoneEntersMain ==
  ASSUME Basic, MainNext, ~MainActivate PROVE NoneEnters
<1> Main \in Threads
  BY DEF Threads
<1>t. tgt[Main] \in Slots /\ slot \in [Slots -> SlotType]
  BY DEF Basic, TypeOK
<1>1. CASE UNCHANGED slot
  BY <1>1 DEF NoneEnters, InService
<1>2. CASE MainClaim
  BY <1>t, <1>2 DEF MainClaim, StartTesting, CanStartTesting, SlotType, NoneEnters, InService
<1>3. CASE MainMeasure
  BY <1>t, <1>3 DEF MainMeasure, SetMeasured, SlotType, NoneEnters, InService
<1>4. CASE MarkReplaced
  BY <1>t, <1>4 DEF MarkReplaced, MarkDraining, SlotType, NoneEnters, InService
<1>5. CASE Shutdown
  <2>1. ASSUME NEW i \in Slots
        PROVE  slot'[i].config = slot[i].config /\ (InService(i)' => InService(i))
    <3>1. slot[i] \in SlotType
      BY <1>t
    <3> QED
      BY <1>5, <3>1 DEF Shutdown, SlotType, InService
  <2> QED
    BY <2>1 DEF NoneEnters
<1>6. CASE ResetStop(Main) \/ ResetClear(Main)
  <2>1. First(todo[Main]) \in Slots
    BY <1>6, TodoFirst DEF ResetStop, ResetClear
  <2> QED
    BY <1>t, <1>6, <2>1 DEF ResetStop, StopCmd, ResetClear, Clear, EmptySlot, SlotType,
       NoneEnters, InService
<1> QED
  BY <1>1, <1>2, <1>3, <1>4, <1>5, <1>6 DEF MainNext, Fetch, Pick, TestHangs, MainTest, MainSpawn,
     BootFilled, BootWait, SelectTick, SelectTrigger, SelectDone, Drain, HealthScan,
     UpdateCandidates, ChooseReplacement

\* The main goroutine keeps the config it chose until it is done with it.
LEMMA SameChoice ==
  ASSUME Basic, MainNext, ~Pick,
         pc'[Main] \in {"test", "hung", "claim", "spawn", "activate"}
  PROVE  /\ pc[Main] \in {"test", "hung", "claim", "spawn", "activate"}
         /\ cur'[Main].config = cur[Main].config
<1> Main \in Threads
  BY DEF Threads
<1>0. CASE TestHangs(Main)
  BY <1>0 DEF TestHangs
<1>1. CASE MainTest
  <2>1. cur[Main].config \in Configs /\ pc[Main] \in {"test", "hung"}
    BY <1>1 DEF MainTest, TestEnds, Basic, ThreadOK, Working
  <2>2. PICK r \in TestResults(cur[Main].config) :
          \/ Goto(Main, "pick") \/ Goto(Main, AfterFill)
          \/ cur' = [cur EXCEPT ![Main] = r]
    BY <1>1 DEF MainTest
  <2>3. cur'[Main] = r
    BY <2>2 DEF Goto, AfterFill, Basic, TypeOK
  <2> QED
    BY <2>1, <2>2, <2>3, TestResultsTyped
<1>2. CASE MainClaim \/ MainSpawn \/ MainActivate \/ MainMeasure
  BY <1>2 DEF MainClaim, MainSpawn, MainActivate, MainMeasure, ResetThen, Goto, Basic, TypeOK
<1>3. CASE ResetStop(Main) \/ ResetClear(Main)
  <2>1. ret[Main] \in ReturnPoints
    BY <1>3 DEF ResetStop, ResetClear, Basic, ThreadOK
  <2> QED
    BY <1>3, <2>1 DEF ResetStop, ResetClear, Goto, Basic, TypeOK, ReturnPoints
<1>4. CASE Fetch \/ BootWait \/ SelectTick \/ SelectTrigger \/ SelectDone
           \/ UpdateCandidates \/ ChooseReplacement \/ MarkReplaced
  BY <1>4 DEF Fetch, BootWait, SelectTick, SelectTrigger, SelectDone, UpdateCandidates,
     ChooseReplacement, MarkReplaced, EndCycle, Goto, Basic, TypeOK
<1>5. CASE BootFilled \/ Drain \/ HealthScan \/ Shutdown
  <2>1. EndCycle \/ \E S : \E p \in {"wait", "scan", "fetch", "exited"} : ResetThen(Main, S, p)
    BY <1>5, Zenon DEF BootFilled, Drain, HealthScan, Shutdown
  <2> QED
    BY <2>1 DEF EndCycle, ResetThen, Goto, Basic, TypeOK
<1> QED
  BY <1>0, <1>1, <1>2, <1>3, <1>4, <1>5 DEF MainNext

LEMMA EnvDistinct ==
  ASSUME Basic, FreshEndpoint, DistinctEndpoints, EnvNext \/ UNCHANGED vars
  PROVE  FreshEndpoint' /\ DistinctEndpoints'
<1>t. slot \in [Slots -> SlotType] /\ SlotShape
  BY DEF Basic, TypeOK
<1>1. UNCHANGED <<pc, cur>>
  BY DEF EnvNext, KeepaliveDrain, GraceElapses, XrayExits, OrphanExits, ApiTrigger, Cancel,
     ControlUnchanged, vars
<1>2. NoneEnters
  <2>1. CASE UNCHANGED slot
    BY <2>1 DEF NoneEnters, InService
  <2>2. CASE \E j \in Slots : KeepaliveDrain(j) \/ GraceElapses(j) \/ XrayExits(j)
    BY <1>t, <2>2 DEF KeepaliveDrain, MarkDraining, GraceElapses, XrayExits, SlotType,
       NoneEnters, InService
  <2> QED
    BY <2>1, <2>2 DEF EnvNext, OrphanExits, ApiTrigger, Cancel, vars
<1> QED
  BY <1>1, <1>2, DistinctKept, FreshKept

\* As long as nobody drops a slot, two slots never serve the same upstream, for
\* any subscription: no slot enters service between the dedupe check of the fill
\* loop and the promotion.  (A drop makes no such check.)
THEOREM EndpointsDistinct ==
  ASSUME Droppers = {}
  PROVE  Spec => []DistinctEndpoints
<1>1. Init => FreshEndpoint /\ DistinctEndpoints
  BY DEF Init, NewWANPool, EmptySlot, FreshEndpoint, DistinctEndpoints, InService, Threads
<1>2. ASSUME Basic, ApartInv, FreshEndpoint, DistinctEndpoints, [Next]_vars
      PROVE  FreshEndpoint' /\ DistinctEndpoints'
  <2>1. CASE MainNext
    <3>1. CASE MainActivate
      BY <1>2, <3>1, ActivateDistinct
    <3>2. CASE ~MainActivate
      <4>1. NoneEnters
        BY <1>2, <2>1, <3>2, NoneEntersMain
      <4>2. FreshEndpoint'
        BY <1>2, <2>1, <4>1, PickFresh, SameChoice, FreshKept
      <4> QED
        BY <1>2, <4>1, <4>2, DistinctKept
    <3> QED
      BY <3>1, <3>2
  <2>2. CASE EnvNext \/ UNCHANGED vars
    BY <1>2, <2>2, EnvDistinct
  <2> QED
    BY <1>2, <2>1, <2>2 DEF Next, Terminated
<1>3. Basic /\ ApartInv /\ FreshEndpoint /\ DistinctEndpoints /\ [Next]_vars
        => FreshEndpoint' /\ DistinctEndpoints'
  BY <1>2
<1> QED
  BY <1>1, <1>3, LoopAloneApart, ApartAlways, PTL DEF Spec

----------------------------------------------------------------------------
(* One goroutine per slot: the rotation with its drops implements the life *)
(* cycle of a slot.                                                        *)

\* What SlotLifecycle sees of a slot.
LifeOf(s) == [state |-> s.state, config |-> s.config, cmd |-> s.cmd, proc |-> s.proc,
              drain |-> s.drain]

\* A drop is resetting slot i.
Dropped(i) == \E d \in Droppers : DropManages(d, i) /\ ret[d] = "best"

\* A step of every slot is a step of the life cycle.
LEMMA LifeStep ==
  ASSUME Closing => Closing', \A i \in Slots : Lifecycle!SlotStep(i)
  PROVE  Lifecycle!Next
BY DEF Lifecycle!Next

\* A slot whose visible fields stay the same.
LEMMA LifeStutter ==
  ASSUME NEW i \in Slots, LifeOf(slot[i])' = LifeOf(slot[i])
  PROVE  Lifecycle!SlotStep(i)
BY DEF Lifecycle!SlotStep, LifeOf

LEMMA InitLife == Init => Lifecycle!Init
<1> SUFFICES ASSUME Init PROVE Lifecycle!Init
  OBVIOUS
<1>1. \A i \in Slots : LifeOf(slot[i]) = Lifecycle!Empty
  BY DEF Init, NewWANPool, EmptySlot, LifeOf, Lifecycle!Empty
<1>2. pc[Main] = "fetch" /\ ret[Main] = NoReturn
  BY DEF Init, Threads
<1>3. Closing = FALSE
  BY <1>2, Zenon DEF Closing, NoReturn
<1>4. \A d \in Droppers : ret[d] = NoReturn
  BY DEF Init, Threads
<1>5. {i \in Slots : \E d \in Droppers : DropManages(d, i) /\ ret[d] = "best"} = {}
  BY <1>4 DEF NoReturn
<1> QED
  BY <1>1, <1>3, <1>5 DEF Lifecycle!Init, LifeOf

\* A closing viberoxy stays closing: only the resets of ShutdownAll are left.
LEMMA ClosingStays ==
  ASSUME Basic, ApartInv, Closing, [Next]_vars
  PROVE  Closing'
<1> Main \in Threads
  BY DEF Threads
<1>1. CASE EnvNext \/ UNCHANGED vars
  <2>1. UNCHANGED <<pc, ret, phase>>
    BY <1>1 DEF EnvNext, KeepaliveDrain, GraceElapses, XrayExits, OrphanExits, ApiTrigger,
       Cancel, ControlUnchanged, mainVars, vars
  <2> QED
    BY <2>1 DEF Closing
<1>2. CASE \E d \in Droppers : DropRequest(d) \/ DropNext(d)
  <2>1. SameLocals(Main)
    BY <1>2, DropLocals, DroppersAssumption
  <2> QED
    BY <2>1 DEF SameLocals, Closing
<1>3. CASE MainNext
  <2>1. pc[Main] # "exited"
    BY <1>3 DEF MainNext, Fetch, Pick, TestHangs, MainTest, TestEnds, MainClaim, MainSpawn,
       MainActivate, MainMeasure, BootFilled, BootWait, SelectTick, SelectTrigger, SelectDone, Drain, HealthScan,
       UpdateCandidates, ChooseReplacement, MarkReplaced, Shutdown, ResetStop, ResetClear
  <2>2. ret[Main] = "exited" /\ pc[Main] \in {"stop", "clear"} /\ phase = "cycle"
    BY <2>1 DEF Closing, ApartInv, LocalOK, NoReturn
  <2>3. ResetStop(Main) \/ ResetClear(Main)
    BY <1>3, <2>2 DEF MainNext, Fetch, Pick, TestHangs, MainTest, TestEnds, MainClaim, MainSpawn, MainActivate,
       MainMeasure, BootFilled, BootWait, SelectTick, SelectTrigger, SelectDone, Drain,
       HealthScan, UpdateCandidates, ChooseReplacement, MarkReplaced, Shutdown
  <2>4. phase' = "cycle" /\ (ret'[Main] = "exited" \/ pc'[Main] = "exited")
    BY <2>2, <2>3 DEF ResetStop, ResetClear, Goto, mainVars, Basic, TypeOK
  <2> QED
    BY <2>4 DEF Closing
<1> QED
  BY <1>1, <1>2, <1>3 DEF Next, Terminated

\* The slot fields that say where a slot is in its life.
LEMMA EmptyLife ==
  ASSUME Basic, NEW i \in Slots, slot[i].state = "empty"
  PROVE  LifeOf(slot[i]) = Lifecycle!Empty
BY DEF Basic, TypeOK, SlotType, SlotShape, InService, LifeOf, Lifecycle!Empty

LEMMA ClaimLife ==
  ASSUME Basic, NEW i \in Slots, NEW x \in Configs, slot[i].state = "empty",
         LifeOf(slot[i])' = [state |-> "testing", config |-> x, cmd |-> NoConfig,
                             proc |-> "none", drain |-> "no"]
  PROVE  Lifecycle!SlotStep(i)
BY EmptyLife DEF LifeOf, Lifecycle!SlotStep, Lifecycle!Claim

LEMMA PromoteLife ==
  ASSUME NEW i \in Slots, slot[i].state = "testing",
         LifeOf(slot[i])' = [state |-> "active", config |-> slot[i].config,
                             cmd |-> slot[i].config, proc |-> "up", drain |-> "no"]
  PROVE  Lifecycle!SlotStep(i)
BY DEF LifeOf, Lifecycle!SlotStep, Lifecycle!Promote

LEMMA DrainLife ==
  ASSUME NEW i \in Slots, slot[i].state = "active",
         LifeOf(slot[i])' = [state |-> "draining", config |-> slot[i].config,
                             cmd |-> slot[i].cmd, proc |-> slot[i].proc, drain |-> "fresh"]
  PROVE  Lifecycle!SlotStep(i)
BY DEF LifeOf, Lifecycle!SlotStep, Lifecycle!Drain

LEMMA ExpireLife ==
  ASSUME Basic, NEW i \in Slots, slot[i].drain = "fresh",
         LifeOf(slot[i])' = [LifeOf(slot[i]) EXCEPT !.drain = "expired"]
  PROVE  Lifecycle!SlotStep(i)
<1>1. slot[i].state = "draining"
  BY DEF Basic, SlotShape
<1> QED
  BY <1>1 DEF LifeOf, Lifecycle!SlotStep, Lifecycle!Expire

LEMMA ExitLife ==
  ASSUME NEW i \in Slots, slot[i].proc = "up",
         LifeOf(slot[i])' = [LifeOf(slot[i]) EXCEPT !.proc = "zombie"]
  PROVE  Lifecycle!SlotStep(i)
BY DEF LifeOf, Lifecycle!SlotStep, Lifecycle!Exit

LEMMA StopLife ==
  ASSUME NEW i \in Slots,
         \/ slot[i].state = "draining" /\ (slot[i].drain = "expired" \/ Closing)
         \/ Dropped(i),
         slot[i].proc \in {"up", "zombie"},
         LifeOf(slot[i])' = [LifeOf(slot[i]) EXCEPT !.proc = "reaped"]
  PROVE  Lifecycle!SlotStep(i)
BY DEF LifeOf, Dropped, Lifecycle!SlotStep, Lifecycle!Stop

\* A slot is cleared when its config could not be started or its process is gone.
LEMMA ClearLife ==
  ASSUME NEW i \in Slots,
         \/ slot[i].state = "testing"
         \/ slot[i].state \in {"active", "draining"} /\ slot[i].proc = "reaped",
         LifeOf(slot[i])' = Lifecycle!Empty
  PROVE  Lifecycle!SlotStep(i)
BY DEF LifeOf, Lifecycle!SlotStep, Lifecycle!Abandon, Lifecycle!Free, Lifecycle!Empty

\* A promotion claims an empty slot ...
LEMMA StartTestingLife ==
  ASSUME Basic, ApartInv, NEW t \in Threads, pc[t] = "claim",
         StartTesting(tgt[t], cur[t].config), NEW i \in Slots
  PROVE  Lifecycle!SlotStep(i)
<1> DEFINE k == tgt[t]
<1>t. k \in Slots /\ slot \in [Slots -> SlotType]
  BY DEF Basic, TypeOK
<1>1. CASE i # k
  <2>1. slot'[i] = slot[i]
    BY <1>1, <1>t DEF StartTesting
  <2> QED
    BY <2>1, LifeStutter DEF LifeOf
<1>2. CASE i = k
  <2>1. slot[k].state = "empty" /\ cur[t].config \in Configs
    BY <1>t, WorkManages DEF ApartInv, ManagedOK, Basic, ThreadOK, Working
  <2>2. /\ slot'[k].state = "testing" /\ slot'[k].config = cur[t].config
        /\ slot'[k].cmd = NoConfig /\ slot'[k].proc = "none" /\ slot'[k].drain = "no"
    BY <1>t, <2>1 DEF StartTesting, CanStartTesting, SlotType, Basic, SlotShape, InService
  <2>3. LifeOf(slot[i])' = [state |-> "testing", config |-> cur[t].config,
                            cmd |-> NoConfig, proc |-> "none", drain |-> "no"]
    BY <1>2, <2>2 DEF LifeOf
  <2> QED
    BY <1>2, <2>1, <2>3, ClaimLife
<1> QED
  BY <1>1, <1>2

\* ... and activates the config it claimed it for.
LEMMA SetActiveLife ==
  ASSUME Basic, ApartInv, NEW t \in Threads, pc[t] = "activate",
         SetActive(tgt[t], held[t]), NEW i \in Slots
  PROVE  Lifecycle!SlotStep(i)
<1> DEFINE k == tgt[t]
<1>t. k \in Slots /\ slot \in [Slots -> SlotType]
  BY DEF Basic, TypeOK
<1>1. CASE i # k
  <2>1. slot'[i] = slot[i]
    BY <1>1, <1>t DEF SetActive
  <2> QED
    BY <2>1, LifeStutter DEF LifeOf
<1>2. CASE i = k
  <2>1. slot[k].state = "testing" /\ held[t] = slot[k].config
    BY <1>t, WorkManages DEF ApartInv, ManagedOK, LocalOK
  <2>2. /\ slot'[k].state = "active" /\ slot'[k].config = slot[k].config
        /\ slot'[k].cmd = slot[k].config /\ slot'[k].proc = "up"
        /\ slot'[k].drain = "no"
    BY <1>t, <2>1 DEF SetActive, CanSetActive, SlotType, Basic, SlotShape
  <2>3. LifeOf(slot[i])' = [state |-> "active", config |-> slot[i].config,
                            cmd |-> slot[i].config, proc |-> "up", drain |-> "no"]
    BY <1>2, <2>2 DEF LifeOf
  <2> QED
    BY <1>2, <2>1, <2>3, PromoteLife
<1> QED
  BY <1>1, <1>2

\* Slot i is marked draining if it is active, or left alone.
MarkedOrNot(i) ==
  \/ slot'[i] = slot[i]
  \/ /\ slot[i].state = "active" /\ slot'[i].state = "draining" /\ slot'[i].drain = "fresh"
     /\ slot'[i].config = slot[i].config /\ slot'[i].cmd = slot[i].cmd
     /\ slot'[i].proc = slot[i].proc

LEMMA MarkedLife ==
  ASSUME NEW i \in Slots, MarkedOrNot(i)
  PROVE  Lifecycle!SlotStep(i)
<1>1. \/ LifeOf(slot[i])' = LifeOf(slot[i])
      \/ /\ slot[i].state = "active"
         /\ LifeOf(slot[i])' = [state |-> "draining", config |-> slot[i].config,
                                cmd |-> slot[i].cmd, proc |-> slot[i].proc,
                                drain |-> "fresh"]
  BY DEF MarkedOrNot, LifeOf
<1> QED
  BY <1>1, LifeStutter, DrainLife

\* Marking a slot draining, in a cycle or at shutdown.
LEMMA MarkLife ==
  ASSUME Basic, MarkReplaced \/ Shutdown, NEW i \in Slots
  PROVE  Lifecycle!SlotStep(i)
<1>t. tgt[Main] \in Slots /\ slot \in [Slots -> SlotType]
  BY DEF Basic, TypeOK, Threads
<1>1. CASE MarkReplaced
  BY <1>1, <1>t, MarkedLife DEF MarkReplaced, MarkDraining, SlotType, MarkedOrNot
<1>2. CASE Shutdown
  BY <1>2, <1>t, MarkedLife DEF Shutdown, SlotType, MarkedOrNot
<1> QED
  BY <1>1, <1>2

\* Recording the speed of a slot is no step of its life.
LEMMA SetMeasuredLife ==
  ASSUME Basic, NEW k \in Slots, NEW speed, NEW stability, SetMeasured(k, speed, stability),
         NEW i \in Slots
  PROVE  Lifecycle!SlotStep(i)
<1>1. LifeOf(slot[i])' = LifeOf(slot[i])
  BY DEF Basic, TypeOK, SetMeasured, SlotType, LifeOf
<1> QED
  BY <1>1, LifeStutter

\* A reset stops a process whose drain has expired, or one that is dropped, or any at
\* shutdown, and clears a slot whose process is gone.
LEMMA ResetLife ==
  ASSUME Basic, ApartInv, NEW t \in Threads, ResetStop(t) \/ ResetClear(t), NEW i \in Slots
  PROVE  Lifecycle!SlotStep(i)
<1> DEFINE k == First(todo[t])
<1>t. k \in todo[t] /\ k \in Slots /\ slot \in [Slots -> SlotType]
  BY TodoFirst DEF ResetStop, ResetClear, Basic, TypeOK
<1>a. pc[t] \in {"stop", "clear"} /\ LocalOK(t)
  BY DEF ApartInv, ResetStop, ResetClear
<1>1. CASE i # k
  <2>1. slot'[i] = slot[i]
    BY <1>1, <1>t DEF ResetStop, StopCmd, ResetClear, Clear
  <2> QED
    BY <2>1, LifeStutter DEF LifeOf
<1>2. CASE i = k
  <2>1. Manages(t, i) /\ ManagedOK(t, i)
    BY <1>2, <1>a, <1>t, ResetManages DEF ApartInv
  <2>2. ResetFor(slot[i], ret[t])
    BY <1>2, <1>a, <1>t, <2>1 DEF ManagedOK
  <2>3. /\ slot[i].state \in {"active", "draining"} =>
              \/ slot[i].state = "draining" /\ (slot[i].drain = "expired" \/ Closing)
              \/ Dropped(i)
    <3>1. CASE t = Main
      BY <1>a, <2>2, <3>1 DEF LocalOK, ResetFor, Closing
    <3>2. CASE t # Main
      BY <1>a, <2>1, <2>2, <3>2 DEF LocalOK, ResetFor, Manages, Dropped, Threads
    <3> QED
      BY <3>1, <3>2
  <2>4. /\ slot[i].proc \in Procs /\ slot[i].state \in States
        /\ slot[i].proc = "none" <=> slot[i].state \notin {"active", "draining"}
    BY <1>t DEF Basic, SlotShape, InService, SlotType
  <2>5. CASE ResetStop(t) /\ slot[i].proc = "none"
    <3>1. LifeOf(slot[i])' = LifeOf(slot[i])
      BY <1>2, <1>t, <2>5 DEF ResetStop, StopCmd, SlotType, LifeOf
    <3> QED
      BY <3>1, LifeStutter
  <2>6. CASE ResetStop(t) /\ slot[i].proc # "none"
    <3>1. slot[i].proc \in {"up", "zombie"}
      BY <1>2, <1>t, <2>1, <2>4, <2>6 DEF ManagedOK, Clearing, ResetStop, Procs
    <3>2. LifeOf(slot[i])' = [LifeOf(slot[i]) EXCEPT !.proc = "reaped"]
      BY <1>2, <1>t, <2>6 DEF ResetStop, StopCmd, SlotType, LifeOf
    <3> QED
      BY <2>3, <2>4, <3>1, <3>2, StopLife
  <2>7. CASE ResetClear(t)
    <3>1. LifeOf(slot[i])' = Lifecycle!Empty
      BY <1>2, <1>t, <2>7 DEF ResetClear, Clear, EmptySlot, LifeOf, Lifecycle!Empty
    <3>2. slot[i].proc \in {"none", "reaped"}
      BY <1>2, <1>t, <2>1, <2>7 DEF ManagedOK, Clearing, ResetClear
    <3> QED
      BY <2>4, <3>1, <3>2, EmptyLife, LifeStutter, ClearLife DEF States
  <2> QED
    BY <2>5, <2>6, <2>7
<1> QED
  BY <1>1, <1>2

\* The steps of the main goroutine.
LEMMA MainLife ==
  ASSUME Basic, ApartInv, MainNext, NEW i \in Slots
  PROVE  Lifecycle!SlotStep(i)
<1> Main \in Threads /\ tgt[Main] \in Slots
  BY DEF Threads, Basic, TypeOK
<1>1. CASE UNCHANGED slot
  BY <1>1, LifeStutter DEF LifeOf
<1>2. CASE MainClaim \/ MainActivate \/ MainMeasure
  BY <1>2, StartTestingLife, SetActiveLife, SetMeasuredLife
     DEF MainClaim, MainActivate, MainMeasure
<1>3. CASE MarkReplaced \/ Shutdown \/ ResetStop(Main) \/ ResetClear(Main)
  BY <1>3, MarkLife, ResetLife
<1> QED
  BY <1>1, <1>2, <1>3 DEF MainNext, Fetch, Pick, TestHangs, MainTest, MainSpawn, BootFilled, BootWait,
     SelectTick, SelectTrigger, SelectDone, Drain, HealthScan, UpdateCandidates,
     ChooseReplacement

\* The steps of a drop handler.
LEMMA DropLife ==
  ASSUME Basic, ApartInv, NEW d \in Droppers, DropRequest(d) \/ DropNext(d), NEW i \in Slots
  PROVE  Lifecycle!SlotStep(i)
<1> d \in Threads /\ tgt[d] \in Slots
  BY DEF Threads, Basic, TypeOK
<1>1. CASE UNCHANGED slot
  BY <1>1, LifeStutter DEF LifeOf
<1>2. CASE DropClaim(d) \/ DropActivate(d) \/ DropMeasure(d)
  BY <1>2, StartTestingLife, SetActiveLife, SetMeasuredLife
     DEF DropClaim, DropActivate, DropMeasure
<1>3. CASE ResetStop(d) \/ ResetClear(d)
  BY <1>3, ResetLife
<1> QED
  BY <1>1, <1>2, <1>3 DEF DropNext, DropRequest, DropLock, DropBest, DropTest, DropSpawn,
     DropUnlock, DropQueue, TestHangs

\* The keepalive loop drains, the clock expires a drain, a process exits.
LEMMA EnvLife ==
  ASSUME Basic, EnvNext, NEW i \in Slots
  PROVE  Lifecycle!SlotStep(i)
<1>t. slot \in [Slots -> SlotType]
  BY DEF Basic, TypeOK
<1>1. CASE UNCHANGED slot
  BY <1>1, LifeStutter DEF LifeOf
<1>2. CASE \E j \in Slots : KeepaliveDrain(j)
  BY <1>2, <1>t, MarkedLife DEF KeepaliveDrain, MarkDraining, SlotType, MarkedOrNot
<1>3. CASE \E j \in Slots : GraceElapses(j)
  <2>1. \/ LifeOf(slot[i])' = LifeOf(slot[i])
        \/ /\ slot[i].drain = "fresh"
           /\ LifeOf(slot[i])' = [LifeOf(slot[i]) EXCEPT !.drain = "expired"]
    BY <1>3, <1>t DEF GraceElapses, SlotType, LifeOf
  <2> QED
    BY <2>1, LifeStutter, ExpireLife
<1>4. CASE \E j \in Slots : XrayExits(j)
  <2>1. \/ LifeOf(slot[i])' = LifeOf(slot[i])
        \/ /\ slot[i].proc = "up"
           /\ LifeOf(slot[i])' = [LifeOf(slot[i]) EXCEPT !.proc = "zombie"]
    BY <1>4, <1>t DEF XrayExits, SlotType, LifeOf
  <2> QED
    BY <2>1, LifeStutter, ExitLife
<1> QED
  BY <1>1, <1>2, <1>3, <1>4 DEF EnvNext, OrphanExits, ApiTrigger, Cancel

\* Every step of the rotation is a step of the life cycle or leaves it alone.
LEMMA NextLife ==
  Basic /\ ApartInv /\ [Next]_vars => Lifecycle!Next
<1> SUFFICES ASSUME Basic, ApartInv, [Next]_vars PROVE Lifecycle!Next
  OBVIOUS
<1>1. Closing => Closing'
  BY ClosingStays
<1>2. ASSUME NEW i \in Slots PROVE Lifecycle!SlotStep(i)
  <2>1. CASE UNCHANGED slot
    BY <2>1, LifeStutter DEF LifeOf
  <2> QED
    BY <2>1, MainLife, DropLife, EnvLife DEF Next, Terminated, vars
<1> QED
  BY <1>1, <1>2, LifeStep

\* As long as no slot is managed by two goroutines at once, the boot and rotation
\* loop of main.go and DropAndReplace, with the keepalive loop and the processes
\* beside them, implement SlotLifecycle: each slot goes through the documented
\* states in order, runs the config it was claimed for, and loses its process only
\* after its drain, by a drop of that slot or at shutdown.
THEOREM LifecycleImplemented == ApartSpec => LifecycleRefined
<1>1. Basic /\ ApartInv /\ [Next]_vars => [Lifecycle!Next]_Lifecycle!vars
  BY NextLife
<1> QED
  BY <1>1, InitLife, ApartAlways, ApartExecutions, PTL
     DEF Spec, LifecycleRefined, Lifecycle!Spec

\* Startup and the rotation loop of main.go, without drop requests but with the
\* keepalive loop, the clock and the processes beside them, need no restriction:
\* nothing in main.go but the one goroutine claims, promotes or resets a slot, so no
\* process is lost or doubled, a shutdown is clean and each slot keeps to its life.
THEOREM LoopAloneCorrect ==
  ASSUME Droppers = {}
  PROVE  Spec => /\ [](NoOrphans /\ OneXrayPerPort /\ CleanShutdown)
                 /\ LifecycleRefined
BY LoopAloneApart, NoProcessLost, OnePerPort, ShutdownClean, LifecycleImplemented, PTL

=============================================================================
