------------------------------ MODULE Rotation ------------------------------
(***************************************************************************)
(* Who changes the WAN slots, and in which interleavings: the main         *)
(* goroutine (startup, then runLoop and runCycle, then ShutdownAll) and    *)
(* the handlers of POST /wans/{i}/drop (DropAndReplace).  Drops exclude    *)
(* one another with replaceMu; the main goroutine never takes it.  The     *)
(* environment is the keepalive loop, the clock of the drain grace period, *)
(* the manual cycle trigger, a termination signal and xray processes that  *)
(* exit by themselves.                                                     *)
(*                                                                         *)
(* A step between two program points is one critical section of the code,  *)
(* or one blocking call (a speed test, a process start, a process stop).   *)
(* Scans over the slots (GetSlotsByState and its kin) are one step.  A     *)
(* test that measures stability may block in the handshake of socks5Dial,  *)
(* which has no deadline: its caller is then at "hung".                    *)
(***************************************************************************)
EXTENDS WANPool, Sequences

CONSTANTS Droppers,          \* concurrent drop handlers
          Subscriptions,     \* what a fetch may return: sequences of configs
          Speeds,            \* speeds a successful test may measure
          Scores,            \* stability scores a test may measure
          MinimumSpeed,
          MaxTestPerCycle,
          AllowDegradedBoot,
          FlakySlots,        \* slots the keepalive loop may find unhealthy
          StabilityProbes    \* exit-IP probes of a test; none by default

Main == "main"
Threads == {Main} \cup Droppers
NoThread == "none"
NoReturn == "none"

ASSUME DroppersAssumption == Main \notin Droppers /\ NoThread \notin Droppers
ASSUME SubscriptionsAssumption == Subscriptions \subseteq Seq(Configs)
ASSUME TestAssumption ==
  /\ Speeds \subseteq Nat /\ Scores \subseteq Nat
  /\ MinimumSpeed \in Nat /\ MaxTestPerCycle \in Nat \ {0}
  /\ AllowDegradedBoot \in BOOLEAN /\ FlakySlots \subseteq Slots
ASSUME ProbesAssumption == StabilityProbes \in Nat

VARIABLES
  pc, tgt, cur, held, todo, ret,  \* per thread: program point, slot index, test
                                  \* result, cmd started and not yet handed over,
                                  \* slots left to reset, where the reset returns
  rest, tested, results,          \* main: configs left, tests run, test results
  scan, dead,                     \* main: HealthCheckAll's index and result
  phase,                          \* main: "boot" (startup) or "cycle" (runLoop)
  replaceMu,                      \* holder of WANPool.replaceMu
  candidates, excluded,           \* CandidatePool: usable entries, excluded URIs
  trigger,                        \* the one-element channel triggerCycle is full
  serving,                        \* startServices has run
  ctxDone,                        \* SIGINT or SIGTERM received
  orphans                         \* processes running without a handle

\* The candidate pool, as CandidatePool is shown to implement it.
Pool == INSTANCE CandidateSet

mainVars == <<rest, tested, results, scan, dead, phase>>
poolVars == <<candidates, excluded>>
envVars  == <<trigger, serving, ctxDone>>
vars == <<slot, pc, tgt, cur, held, todo, ret, mainVars, replaceMu, poolVars,
          envVars, orphans>>

----------------------------------------------------------------------------
(* Types and the initial state.                                            *)

Failed == -1     \* the speed of a TestResult whose Error is set

ResultType == [config: Configs, speed: Speeds \cup {Failed}, stability: Scores \cup {0}]
NoResult == [config |-> NoConfig, speed |-> Failed, stability |-> 0]

MainPoints == {"fetch", "pick", "test", "hung", "claim", "spawn", "activate", "measure",
               "filled", "wait", "select", "drain", "scan", "update", "replace",
               "mark", "shutdown", "exited", "stop", "clear"}
DropPoints == {"idle", "lock", "stop", "clear", "best", "test", "hung", "claim",
               "spawn", "activate", "measure", "unlock", "queue"}

TypeOK ==
  /\ slot \in [Slots -> SlotType]
  /\ pc \in [Threads -> MainPoints \cup DropPoints]
  /\ tgt \in [Threads -> Slots]
  /\ cur \in [Threads -> ResultType \cup {NoResult}]
  /\ held \in [Threads -> Configs \cup {NoConfig}]
  /\ todo \in [Threads -> SUBSET Slots]
  /\ ret \in [Threads -> MainPoints \cup DropPoints \cup {NoReturn}]
  /\ rest \in Seq(Configs) /\ tested \in Nat /\ results \subseteq ResultType
  /\ scan \in 0 .. WanCount /\ dead \subseteq Slots
  /\ phase \in {"boot", "cycle"}
  /\ replaceMu \in Droppers \cup {NoThread}
  /\ candidates \subseteq Configs /\ excluded \subseteq Configs
  /\ trigger \in BOOLEAN /\ serving \in BOOLEAN /\ ctxDone \in BOOLEAN
  /\ orphans \subseteq ProcessType

Init ==
  /\ NewWANPool
  /\ pc = [t \in Threads |-> IF t = Main THEN "fetch" ELSE "idle"]
  /\ tgt = [t \in Threads |-> 0]
  /\ cur = [t \in Threads |-> NoResult]
  /\ held = [t \in Threads |-> NoConfig]
  /\ todo = [t \in Threads |-> {}]
  /\ ret = [t \in Threads |-> NoReturn]
  /\ rest = <<>> /\ tested = 0 /\ results = {}
  /\ scan = 0 /\ dead = {}
  /\ phase = "boot"
  /\ replaceMu = NoThread
  /\ candidates = {} /\ excluded = {}
  /\ trigger = FALSE /\ serving = FALSE /\ ctxDone = FALSE
  /\ orphans = {}

----------------------------------------------------------------------------
(* Steps shared by the main goroutine and the drop handlers.               *)

Goto(t, p) == pc' = [pc EXCEPT ![t] = p]

\* Call ResetEmpty on each slot of S, then continue at p.
ResetThen(t, S, p) ==
  IF S = {}
  THEN Goto(t, p) /\ UNCHANGED <<todo, ret>>
  ELSE /\ Goto(t, "stop")
       /\ todo' = [todo EXCEPT ![t] = S]
       /\ ret' = [ret EXCEPT ![t] = p]

\* ResetEmpty stops the process the slot's handle refers to ...
ResetStop(t) ==
  /\ pc[t] = "stop"
  /\ StopCmd(First(todo[t]))
  /\ Goto(t, "clear")
  /\ UNCHANGED <<tgt, cur, held, todo, ret, mainVars, replaceMu, poolVars, envVars, orphans>>

\* ... and then clears the slot, with whatever handle it holds by then.
ResetClear(t) ==
  LET i == First(todo[t]) IN
  /\ pc[t] = "clear"
  /\ Clear(i)
  /\ orphans' = orphans \cup Forgotten(i)
  /\ todo' = [todo EXCEPT ![t] = @ \ {i}]
  /\ IF todo[t] = {i}
     THEN Goto(t, ret[t]) /\ ret' = [ret EXCEPT ![t] = NoReturn]
     ELSE Goto(t, "stop") /\ UNCHANGED ret
  /\ UNCHANGED <<tgt, cur, held, mainVars, replaceMu, poolVars, envVars>>

\* A stability probe of a test waits for an answer of its xray process.
TestHangs(t) ==
  /\ pc[t] = "test" /\ StabilityProbes > 0
  /\ Goto(t, "hung")
  /\ UNCHANGED <<slot, tgt, cur, held, todo, ret, mainVars, replaceMu, poolVars, envVars, orphans>>

\* The test of t ends with result r: the probes come after a good download.
TestEnds(t, r) ==
  /\ pc[t] \in {"test", "hung"}
  /\ pc[t] = "hung" => r.speed # Failed

----------------------------------------------------------------------------
(* The main goroutine: startup and the fill loop it shares with runCycle.  *)

EndCycle ==
  /\ Goto(Main, "select")
  /\ rest' = <<>> /\ tested' = 0 /\ results' = {}

Fetch ==
  /\ pc[Main] = "fetch"
  /\ \E s \in Subscriptions :
       /\ rest' = s
       /\ Goto(Main, IF s # <<>> THEN "pick" ELSE IF phase = "boot" THEN "wait" ELSE "select")
  /\ tested' = 0
  /\ results' = {}
  /\ UNCHANGED <<slot, tgt, cur, held, todo, ret, scan, dead, phase, replaceMu,
                 poolVars, envVars, orphans>>

\* startup stops at a full pool; runCycle also tests at most MaxTestPerCycle
\* configs and goes on while some slot is empty.
FillDone ==
  \/ rest = <<>>
  \/ phase = "boot" /\ ActiveCount >= WanCount
  \/ phase = "cycle" /\ ActiveCount >= WanCount /\ SlotsByState({"empty"}) = {}
  \/ phase = "cycle" /\ tested >= MaxTestPerCycle

AfterFill == IF phase = "boot" THEN "filled" ELSE "update"

Skipped(c) == ~IsXraySupported(c) \/ HasServerPort(c)

\* The head of the loop over the fetched configs: leave, skip or test one.
Pick ==
  /\ pc[Main] = "pick"
  /\ \/ /\ FillDone
        /\ Goto(Main, AfterFill)
        /\ UNCHANGED <<cur, rest>>
     \/ /\ ~FillDone /\ Skipped(Head(rest))
        /\ rest' = Tail(rest)
        /\ UNCHANGED <<pc, cur>>
     \/ /\ ~FillDone /\ ~Skipped(Head(rest))
        /\ cur' = [cur EXCEPT ![Main] = [NoResult EXCEPT !.config = Head(rest)]]
        /\ rest' = Tail(rest)
        /\ Goto(Main, "test")
  /\ UNCHANGED <<slot, tgt, held, todo, ret, tested, results, scan, dead, phase,
                 replaceMu, poolVars, envVars, orphans>>

\* A promotion that looks at neither the test's error nor its speed.
PassedUnchecked(r) == r.config \in Configs

Passed(r) == r.speed # Failed /\ r.speed >= MinimumSpeed

\* What TestSpeedWithStability may report for config c.
TestResults(c) ==
  {[config |-> c, speed |-> Failed, stability |-> 0]}
    \cup [config: {c}, speed: Speeds, stability: Scores]

\* A speed test ends; a config that passed goes to the first empty slot.
MainTest ==
  /\ \E r \in TestResults(cur[Main].config) :
       /\ TestEnds(Main, r)
       /\ tested' = tested + 1
       /\ results' = IF phase = "cycle" THEN results \cup {r} ELSE results
       /\ \/ /\ ~Passed(r)
             /\ cur' = [cur EXCEPT ![Main] = NoResult]
             /\ Goto(Main, "pick")
             /\ UNCHANGED tgt
          \/ /\ Passed(r) /\ SlotsByState({"empty"}) = {}
             /\ cur' = [cur EXCEPT ![Main] = NoResult]
             /\ Goto(Main, AfterFill)
             /\ UNCHANGED tgt
          \/ /\ Passed(r) /\ SlotsByState({"empty"}) # {}
             /\ cur' = [cur EXCEPT ![Main] = r]
             /\ tgt' = [tgt EXCEPT ![Main] = First(SlotsByState({"empty"}))]
             /\ Goto(Main, "claim")
  /\ UNCHANGED <<slot, held, todo, ret, rest, scan, dead, phase, replaceMu, poolVars,
                 envVars, orphans>>

\* The error StartTesting may return is not looked at.
MainClaim ==
  /\ pc[Main] = "claim"
  /\ StartTesting(tgt[Main], cur[Main].config)
  /\ Goto(Main, "spawn")
  /\ UNCHANGED <<tgt, cur, held, todo, ret, mainVars, replaceMu, poolVars, envVars, orphans>>

MainSpawn ==
  /\ pc[Main] = "spawn"
  /\ \/ /\ held' = [held EXCEPT ![Main] = cur[Main].config]
        /\ Goto(Main, "activate")
        /\ UNCHANGED <<cur, todo, ret>>
     \/ /\ ResetThen(Main, {tgt[Main]}, "pick")
        /\ cur' = [cur EXCEPT ![Main] = NoResult]
        /\ UNCHANGED held
  /\ UNCHANGED <<slot, tgt, mainVars, replaceMu, poolVars, envVars, orphans>>

\* The error SetActive may return is not looked at: its cmd is then lost.
MainActivate ==
  /\ pc[Main] = "activate"
  /\ SetActive(tgt[Main], held[Main])
  /\ orphans' = IF CanSetActive(tgt[Main]) THEN orphans
                ELSE orphans \cup {[port |-> tgt[Main], config |-> held[Main]]}
  /\ held' = [held EXCEPT ![Main] = NoConfig]
  /\ Goto(Main, "measure")
  /\ UNCHANGED <<tgt, cur, todo, ret, mainVars, replaceMu, poolVars, envVars>>

\* Speed and stability are recorded, one store right after the other; a degraded
\* boot starts the services.
MainMeasure ==
  /\ pc[Main] = "measure"
  /\ SetMeasured(tgt[Main], cur[Main].speed, cur[Main].stability)
  /\ serving' = (serving \/ (phase = "boot" /\ AllowDegradedBoot /\ ActiveCount >= 1))
  /\ cur' = [cur EXCEPT ![Main] = NoResult]
  /\ Goto(Main, "pick")
  /\ UNCHANGED <<tgt, held, todo, ret, mainVars, replaceMu, poolVars, trigger, ctxDone, orphans>>

\* startup enters runLoop with a full pool, or resets what is still in
\* testing and waits ten seconds.
BootFilled ==
  /\ pc[Main] = "filled"
  /\ \/ /\ ActiveCount >= WanCount
        /\ phase' = "cycle" /\ serving' = TRUE
        /\ EndCycle
        /\ UNCHANGED <<todo, ret>>
     \/ /\ ActiveCount < WanCount
        /\ ResetThen(Main, SlotsByState({"testing"}), "wait")
        /\ UNCHANGED <<rest, tested, results, phase, serving>>
  /\ UNCHANGED <<slot, tgt, cur, held, scan, dead, replaceMu, poolVars, trigger, ctxDone, orphans>>

\* A wait that ignores the signal.
BootWaitDeaf ==
  /\ pc[Main] = "wait"
  /\ Goto(Main, "fetch")
  /\ UNCHANGED <<slot, tgt, cur, held, todo, ret, mainVars, replaceMu, poolVars, envVars, orphans>>

\* The wait of startup: it returns at once when the context is done, and the
\* process ends without ShutdownAll.
BootWait ==
  /\ pc[Main] = "wait"
  /\ Goto(Main, IF ctxDone THEN "exited" ELSE "fetch")
  /\ UNCHANGED <<slot, tgt, cur, held, todo, ret, mainVars, replaceMu, poolVars, envVars, orphans>>

----------------------------------------------------------------------------
(* The main goroutine: runLoop and the rest of runCycle.                   *)

\* runLoop's select takes any ready case; the ticker may always be ready.
SelectTick ==
  /\ pc[Main] = "select"
  /\ Goto(Main, "drain")
  /\ UNCHANGED <<slot, tgt, cur, held, todo, ret, mainVars, replaceMu, poolVars, envVars, orphans>>

\* A loop that serves the trigger only when there is a slot to fill.
SelectTriggerIfEmpty ==
  /\ pc[Main] = "select" /\ trigger /\ SlotsByState({"empty"}) # {}
  /\ trigger' = FALSE
  /\ Goto(Main, "drain")
  /\ UNCHANGED <<slot, tgt, cur, held, todo, ret, mainVars, replaceMu, poolVars,
                 serving, ctxDone, orphans>>

SelectTrigger ==
  /\ pc[Main] = "select" /\ trigger
  /\ trigger' = FALSE
  /\ Goto(Main, "drain")
  /\ UNCHANGED <<slot, tgt, cur, held, todo, ret, mainVars, replaceMu, poolVars,
                 serving, ctxDone, orphans>>

SelectDone ==
  /\ pc[Main] = "select" /\ ctxDone
  /\ Goto(Main, "shutdown")
  /\ UNCHANGED <<slot, tgt, cur, held, todo, ret, mainVars, replaceMu, poolVars, envVars, orphans>>

\* A cycle that leaves draining slots alone.
DrainSkipped ==
  /\ pc[Main] = "drain"
  /\ Goto(Main, "scan")
  /\ UNCHANGED <<slot, tgt, cur, held, todo, ret, mainVars, replaceMu, poolVars, envVars, orphans>>

\* A cycle first kills the slots whose drain has expired.
Drain ==
  /\ pc[Main] = "drain"
  /\ ResetThen(Main, DrainExpired, "scan")
  /\ UNCHANGED <<slot, tgt, cur, held, mainVars, replaceMu, poolVars, envVars, orphans>>

\* HealthCheckAll looks at one slot after the other and resets the dead ones;
\* runCycle then resets every slot it returned a second time.
HealthScan ==
  /\ pc[Main] = "scan"
  /\ \/ /\ scan = WanCount
        /\ ResetThen(Main, dead, "fetch")
        /\ scan' = 0 /\ dead' = {}
     \/ /\ scan < WanCount
        /\ scan' = scan + 1
        /\ LET sick == InService(scan) /\ ~HealthCheckXray(scan) IN
           /\ dead' = IF sick THEN dead \cup {scan} ELSE dead
           /\ ResetThen(Main, IF sick THEN {scan} ELSE {}, "scan")
  /\ UNCHANGED <<slot, tgt, cur, held, rest, tested, results, phase, replaceMu,
                 poolVars, envVars, orphans>>

\* The results of the cycle go to the candidate pool (and to sorted.txt, a
\* report nothing reads back).
UpdateCandidates ==
  /\ pc[Main] = "update"
  /\ Pool!Update({r.config : r \in {x \in results : x.speed # Failed}})
  /\ Goto(Main, "replace")
  /\ UNCHANGED <<slot, tgt, cur, held, todo, ret, mainVars, replaceMu, envVars, orphans>>

\* Some config passed this cycle and no active slot serves its endpoint.
BetterConfigFound ==
  \E r \in results :
     Passed(r) /\ \A i \in SlotsByState({"active"}) :
                     EndpointOf[slot[i].config] # EndpointOf[r.config]

\* With every slot active, a cycle chooses one to replace ...
ChooseReplacement ==
  /\ pc[Main] = "replace"
  /\ \/ /\ SlotsByState({"active"}) = Slots /\ BetterConfigFound
        /\ tgt' = [tgt EXCEPT ![Main] = PickReplacementSlot(Slots)]
        /\ Goto(Main, "mark")
        /\ UNCHANGED <<rest, tested, results>>
     \/ /\ ~(SlotsByState({"active"}) = Slots /\ BetterConfigFound)
        /\ EndCycle
        /\ UNCHANGED tgt
  /\ UNCHANGED <<slot, cur, held, todo, ret, scan, dead, phase, replaceMu, poolVars,
                 envVars, orphans>>

\* ... and marks it draining, unless it has changed state meanwhile.
MarkReplaced ==
  /\ pc[Main] = "mark"
  /\ MarkDraining(tgt[Main])
  /\ EndCycle
  /\ UNCHANGED <<tgt, cur, held, todo, ret, scan, dead, phase, replaceMu, poolVars,
                 envVars, orphans>>

\* A shutdown that forgets the slots already draining.
ShutdownActive ==
  /\ pc[Main] = "shutdown"
  /\ slot' = [i \in Slots |-> IF slot[i].state = "active"
                              THEN [slot[i] EXCEPT !.state = "draining", !.drain = "fresh"]
                              ELSE slot[i]]
  /\ ResetThen(Main, SlotsByState({"active"}), "exited")
  /\ UNCHANGED <<tgt, cur, held, mainVars, replaceMu, poolVars, envVars, orphans>>

\* ShutdownAll marks every active slot draining, then resets every slot.
Shutdown ==
  /\ pc[Main] = "shutdown"
  /\ slot' = [i \in Slots |-> IF slot[i].state = "active"
                              THEN [slot[i] EXCEPT !.state = "draining", !.drain = "fresh"]
                              ELSE slot[i]]
  /\ ResetThen(Main, Slots, "exited")
  /\ UNCHANGED <<tgt, cur, held, mainVars, replaceMu, poolVars, envVars, orphans>>

MainNext ==
  \/ Fetch \/ Pick \/ TestHangs(Main) \/ MainTest \/ MainClaim \/ MainSpawn \/ MainActivate \/ MainMeasure
  \/ BootFilled \/ BootWait \/ SelectTick \/ SelectTrigger \/ SelectDone
  \/ Drain \/ HealthScan \/ UpdateCandidates \/ ChooseReplacement \/ MarkReplaced
  \/ Shutdown \/ ResetStop(Main) \/ ResetClear(Main)

----------------------------------------------------------------------------
(* A drop handler.  Handlers run until the process exits: the API server   *)
(* is not shut down.                                                       *)

Running == pc[Main] # "exited"

DropRequest(d) ==
  /\ Running /\ serving /\ pc[d] = "idle"
  /\ \E i \in Slots : tgt' = [tgt EXCEPT ![d] = i]
  /\ Goto(d, "lock")
  /\ UNCHANGED <<slot, cur, held, todo, ret, mainVars, replaceMu, poolVars, envVars, orphans>>

\* A drop that does not wait for replaceMu.
DropLockFree(d) ==
  /\ Running /\ pc[d] = "lock"
  /\ replaceMu' = d
  /\ IF slot[tgt[d]].config # NoConfig
     THEN Pool!Exclude(slot[tgt[d]].config)
     ELSE UNCHANGED poolVars
  /\ ResetThen(d, {tgt[d]}, "best")
  /\ UNCHANGED <<slot, tgt, cur, held, mainVars, envVars, orphans>>

\* Take replaceMu, read the slot's config, exclude it and reset the slot.
DropLock(d) ==
  /\ Running /\ pc[d] = "lock" /\ replaceMu = NoThread
  /\ replaceMu' = d
  /\ IF slot[tgt[d]].config # NoConfig
     THEN Pool!Exclude(slot[tgt[d]].config)
     ELSE UNCHANGED poolVars
  /\ ResetThen(d, {tgt[d]}, "best")
  /\ UNCHANGED <<slot, tgt, cur, held, mainVars, envVars, orphans>>

\* A drop that returns with replaceMu held when there is no candidate.
DropBestKeepsLock(d) ==
  /\ Running /\ pc[d] = "best"
  /\ \/ Pool!Eligible = {} /\ Goto(d, "queue") /\ UNCHANGED cur
     \/ /\ \E c \in Pool!Eligible :
             cur' = [cur EXCEPT ![d] = [NoResult EXCEPT !.config = c]]
        /\ Goto(d, "test")
  /\ UNCHANGED <<slot, tgt, held, todo, ret, mainVars, replaceMu, poolVars, envVars, orphans>>

\* CandidatePool.Best: some candidate that is not excluded.
DropBest(d) ==
  /\ Running /\ pc[d] = "best"
  /\ \/ /\ Pool!Eligible = {}
        /\ replaceMu' = NoThread
        /\ Goto(d, "queue")
        /\ UNCHANGED cur
     \/ /\ \E c \in Pool!Eligible :
             cur' = [cur EXCEPT ![d] = [NoResult EXCEPT !.config = c]]
        /\ Goto(d, "test")
        /\ UNCHANGED replaceMu
  /\ UNCHANGED <<slot, tgt, held, todo, ret, mainVars, poolVars, envVars, orphans>>

\* The re-test has no minimum speed.
DropTest(d) ==
  /\ Running
  /\ \E r \in TestResults(cur[d].config) :
       /\ TestEnds(d, r)
       /\ cur' = [cur EXCEPT ![d] = r]
       /\ Goto(d, IF r.speed = Failed THEN "unlock" ELSE "claim")
  /\ UNCHANGED <<slot, tgt, held, todo, ret, mainVars, replaceMu, poolVars, envVars, orphans>>

DropClaim(d) ==
  /\ Running /\ pc[d] = "claim"
  /\ StartTesting(tgt[d], cur[d].config)
  /\ Goto(d, IF CanStartTesting(tgt[d]) THEN "spawn" ELSE "unlock")
  /\ UNCHANGED <<tgt, cur, held, todo, ret, mainVars, replaceMu, poolVars, envVars, orphans>>

DropSpawn(d) ==
  /\ Running /\ pc[d] = "spawn"
  /\ \/ /\ held' = [held EXCEPT ![d] = cur[d].config]
        /\ Goto(d, "activate")
        /\ UNCHANGED <<todo, ret>>
     \/ /\ ResetThen(d, {tgt[d]}, "unlock")
        /\ UNCHANGED held
  /\ UNCHANGED <<slot, tgt, cur, mainVars, replaceMu, poolVars, envVars, orphans>>

\* When SetActive fails the new process is stopped and the slot is reset,
\* whoever it belongs to by now.
DropActivate(d) ==
  /\ Running /\ pc[d] = "activate"
  /\ SetActive(tgt[d], held[d])
  /\ held' = [held EXCEPT ![d] = NoConfig]
  /\ \/ /\ CanSetActive(tgt[d])
        /\ Goto(d, "measure")
        /\ UNCHANGED <<todo, ret>>
     \/ /\ ~CanSetActive(tgt[d])
        /\ ResetThen(d, {tgt[d]}, "unlock")
  /\ UNCHANGED <<tgt, cur, mainVars, replaceMu, poolVars, envVars, orphans>>

DropMeasure(d) ==
  /\ Running /\ pc[d] = "measure"
  /\ SetMeasured(tgt[d], cur[d].speed, cur[d].stability)
  /\ Goto(d, "unlock")
  /\ UNCHANGED <<tgt, cur, held, todo, ret, mainVars, replaceMu, poolVars, envVars, orphans>>

DropUnlock(d) ==
  /\ Running /\ pc[d] = "unlock"
  /\ replaceMu' = NoThread
  /\ cur' = [cur EXCEPT ![d] = NoResult]
  /\ Goto(d, "idle")
  /\ UNCHANGED <<slot, tgt, held, todo, ret, mainVars, poolVars, envVars, orphans>>

\* With no candidate the handler queues a cycle instead.
DropQueue(d) ==
  /\ Running /\ pc[d] = "queue"
  /\ trigger' = TRUE
  /\ Goto(d, "idle")
  /\ UNCHANGED <<slot, tgt, cur, held, todo, ret, mainVars, replaceMu, poolVars,
                 serving, ctxDone, orphans>>

DropNext(d) ==
  \/ DropLock(d) \/ DropBest(d) \/ DropTest(d) \/ DropClaim(d) \/ DropSpawn(d)
  \/ DropActivate(d) \/ DropMeasure(d) \/ DropUnlock(d) \/ DropQueue(d)
  \/ Running /\ (ResetStop(d) \/ ResetClear(d) \/ TestHangs(d))

----------------------------------------------------------------------------
(* The environment.                                                        *)

ControlUnchanged ==
  UNCHANGED <<pc, tgt, cur, held, todo, ret, mainVars, replaceMu, poolVars>>

\* The keepalive loop has counted enough failures of slot i.
KeepaliveDrain(i) ==
  /\ Running /\ serving /\ i \in FlakySlots
  /\ slot[i].state = "active"
  /\ MarkDraining(i)
  /\ ControlUnchanged /\ UNCHANGED <<envVars, orphans>>

\* The grace period of a draining slot ends.
GraceElapses(i) ==
  /\ Running /\ slot[i].drain = "fresh"
  /\ slot' = [slot EXCEPT ![i].drain = "expired"]
  /\ ControlUnchanged /\ UNCHANGED <<envVars, orphans>>

\* The xray process of slot i exits; nobody waits for it.
XrayExits(i) ==
  /\ slot[i].proc = "up"
  /\ slot' = [slot EXCEPT ![i].proc = "zombie"]
  /\ ControlUnchanged /\ UNCHANGED <<envVars, orphans>>

\* A process without a handle exits.
OrphanExits ==
  /\ \E p \in orphans : orphans' = orphans \ {p}
  /\ ControlUnchanged /\ UNCHANGED <<slot, envVars>>

\* POST /cycle/trigger: a full channel absorbs the request.
ApiTrigger ==
  /\ Running /\ serving
  /\ trigger' = TRUE
  /\ ControlUnchanged /\ UNCHANGED <<slot, serving, ctxDone, orphans>>

Cancel ==
  /\ Running /\ ~ctxDone
  /\ ctxDone' = TRUE
  /\ ControlUnchanged /\ UNCHANGED <<slot, trigger, serving, orphans>>

\* The program has exited; what xray processes are left stay.
Terminated == pc[Main] = "exited" /\ UNCHANGED vars

EnvNext ==
  \/ \E i \in Slots : KeepaliveDrain(i) \/ GraceElapses(i) \/ XrayExits(i)
  \/ OrphanExits \/ ApiTrigger \/ Cancel

Next ==
  \/ MainNext
  \/ \E d \in Droppers : DropRequest(d) \/ DropNext(d)
  \/ EnvNext
  \/ Terminated

Spec == Init /\ [][Next]_vars

\* t waits in socks5Dial for an answer, without a deadline.
Hung(t) == pc[t] = "hung"

\* Every goroutine keeps running and the clock advances.  Fetches, downloads and
\* process stops have timeouts and return; nothing says that a hung test does.  A
\* select picks a case that stays ready sooner or later, and Go's mutex does not
\* starve a waiter.
Fairness ==
  /\ WF_vars(~Hung(Main) /\ MainNext)
  /\ SF_vars(SelectTrigger) /\ SF_vars(SelectDone)
  /\ \A i \in Slots : WF_vars(GraceElapses(i))
  /\ \A d \in Droppers : WF_vars(~Hung(d) /\ DropNext(d)) /\ SF_vars(DropLock(d))

LiveSpec == Spec /\ Fairness

----------------------------------------------------------------------------
(* Safety as long as no slot is managed by two goroutines at once.         *)

\* ShutdownAll has started.
Closing == ret[Main] = "exited" \/ (pc[Main] = "exited" /\ phase = "cycle")

\* The slots the main goroutine promotes or resets, and the one a drop does.
MainManages(i) ==
  \/ pc[Main] \in {"claim", "spawn", "activate", "measure"} /\ i = tgt[Main]
  \/ pc[Main] \in {"stop", "clear"} /\ i \in todo[Main]
  \/ Closing

DropManages(d, i) == pc[d] \in DropPoints \ {"idle", "lock", "queue"} /\ i = tgt[d]

\* What replaceMu would ensure if cycles took it too, slot by slot: nobody manages
\* a slot the main goroutine manages.
SlotsApart == \A d \in Droppers, i \in Slots : DropManages(d, i) => ~MainManages(i)

\* The executions of Spec that keep to it.  Without drop requests all do.
ApartSpec == Init /\ [][Next /\ SlotsApart']_vars

\* No xray process runs without a handle: every process that is started is stopped
\* before its slot forgets it (ResetEmpty, SetActive).
NoOrphans == orphans = {}

\* Two processes are never started for one service port: the purpose wan.go
\* gives for replaceMu.
OneXrayPerPort ==
  \A i \in Slots :
     Cardinality({x \in {i} : slot[i].proc = "up"})
       + Cardinality({t \in Threads : tgt[t] = i /\ held[t] # NoConfig})
       + Cardinality({x \in orphans : x.port = i}) <= 1

\* A shutdown from runLoop leaves no xray process behind and every slot empty.
CleanShutdown ==
  pc[Main] = "exited" /\ phase = "cycle" =>
     orphans = {} /\ \A i \in Slots : slot[i] = EmptySlot

\* Each slot goes through the documented life cycle: its process runs the config
\* it was claimed for, and is stopped only after its drain expired, by a drop of
\* the slot or at shutdown.
Lifecycle == INSTANCE SlotLifecycle WITH
  life <- [i \in Slots |-> [state |-> slot[i].state, config |-> slot[i].config,
                            cmd |-> slot[i].cmd, proc |-> slot[i].proc,
                            drain |-> slot[i].drain]],
  dropped <- {i \in Slots : \E d \in Droppers : DropManages(d, i) /\ ret[d] = "best"},
  closing <- Closing

LifecycleRefined == Lifecycle!Spec

----------------------------------------------------------------------------
(* Safety of the main goroutine alone (no drop requests).                  *)

\* No two slots serve the same upstream server:port (the WAN dedupe of startup
\* and runCycle), although the check and the promotion are separate steps.
DistinctEndpoints ==
  \A i, j \in Slots :
     InService(i) /\ InService(j) /\ i # j =>
        EndpointOf[slot[i].config] # EndpointOf[slot[j].config]

----------------------------------------------------------------------------
(* Safety that holds whatever the drop handlers do at the same time.       *)

\* Every config some thread or slot runs, or a process without a handle runs.
RunningConfigs ==
  ({slot[i].cmd : i \in Slots} \cup {held[t] : t \in Threads}
     \cup {p.config : p \in orphans}) \ {NoConfig}

\* The leak guard: no xray process on a service port has a direct ("freedom")
\* outbound, whether a cycle or a drop (through the candidate pool) started it.
LeakGuard == \A x \in RunningConfigs : Outbound(Protocol(SchemeOf[x])) # "freedom"

\* A drop never tests or promotes a config that it or another drop excluded:
\* between Best and the promotion no other drop can exclude the choice.
DropHonoursExclusion ==
  \A t \in Droppers :
     pc[t] \in {"test", "hung", "claim", "spawn", "activate"} => cur[t].config \notin excluded

----------------------------------------------------------------------------
(* Liveness.                                                               *)

\* In runLoop a draining slot is killed once its grace period is over, unless a
\* test of the main goroutine hangs for good.
DrainedSlotFreed ==
  \A i \in Slots : phase = "cycle" /\ slot[i].state = "draining"
                    ~> slot[i].state # "draining" \/ []Hung(Main)

\* In runLoop a queued manual cycle is run, unless viberoxy shuts down or a test
\* of the main goroutine hangs for good.
TriggerServed ==
  phase = "cycle" /\ trigger ~> ~trigger \/ pc[Main] = "exited" \/ []Hung(Main)

\* Every drop request is answered, also when several wait for replaceMu, unless
\* the test of the one that holds it hangs for good.
DropAnswered ==
  \A t \in Droppers :
     pc[t] = "lock" ~> \/ pc[t] = "idle" \/ pc[Main] = "exited"
                       \/ \E d \in Droppers : [](replaceMu = d /\ Hung(d))

\* A termination signal ends the program from every point of startup and runLoop,
\* unless a test of the main goroutine hangs for good.
SignalStops == ctxDone ~> pc[Main] = "exited" \/ []Hung(Main)

----------------------------------------------------------------------------
(* What the documentation says and the code does not keep.                 *)

\* A slot whose xray process has died is reset by the next cycle's health check.
DeadSlotReset ==
  \A i \in Slots : phase = "cycle" /\ InService(i) /\ slot[i].proc = "zombie"
                    ~> slot[i].proc # "zombie" \/ pc[Main] = "exited"
=============================================================================
