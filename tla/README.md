# A TLA+ model of viberoxy

viberoxy is a multi-WAN proxy: it fetches a subscription of upstream proxy
configs, speed-tests them, keeps `WAN_COUNT` xray child processes running on fixed
local SOCKS5 ports (the *slots*), spreads client connections over them, probes them,
and replaces them. This directory holds TLA+ modules that model the parts of it in
which several goroutines share state, TLC configurations that check them on small
instances, and TLAPS proofs of the properties that hold for every instance.

Paths such as `src/wan.go:229` refer to the repository.

## 1. The system

| Component | State | Operations | Interacts with |
|---|---|---|---|
| WAN slot pool (`wan.go`) | per slot: state, config, process handle, drain time, connection and failure counters, speed, stability; one RWMutex per slot, `replaceMu` for drops | StartTesting, SetActive, MarkDraining, ResetEmpty, counters, GetLeastLoaded, HasServerPort, PickReplacementSlot, DrainExpired, HealthCheckAll, ShutdownAll | used by everything below |
| Boot and rotation loop (`main.go`) | cycle in progress, list of test results, ticker, trigger channel | startup, runLoop, runCycle: drain, health check, fetch, test, fill, replace | pool, candidates, tester, xray |
| Drop and replace (`api.go`, `wan.go`) | `replaceMu` | `POST /wans/{i}/drop`: exclude, reset, test the best candidate, promote, or queue a cycle | pool, candidates, races with the rotation loop |
| Candidate pool (`candidate.go`) | sorted list of at most 50 results, excluded URIs | Update, Exclude, Best, List | written by cycles, read by drops |
| Connections (`proxy.go`, `socks.go`, `relay.go`) | per connection: its slot, two sockets, a handshake deadline, two copying goroutines | handshake, route, pick, count, dial, reply, relay, release | router, counters of the pool |
| Keepalive loop (`main.go`, `tester.go`) | the current round | probe, count failures, drain | counters and states of the pool |
| Manual trigger (`api.go`) | a channel of capacity one | send without blocking | rotation loop |
| Tests (`tester.go`) | a temporary xray on a test port, the exit IPs seen | start, wait for the port, download, probe, stop | rotation loop, drops |
| xray processes (`xray.go`) | child processes | render a config, start, stop, signal-0 health check | pool, tests |
| Subscription parser (`parser.go`) | none | parse URIs, normalise protocols, leak guard | rotation loop |
| Router (`router.go`) | mode and suffix lists, set once | Decide: the route for a host name | connections |
| Metrics (`metrics.go`, `health.go`) | counters, gauges, histograms, one mutex per metric | Observe, Add, Set; `/metrics` refreshes the gauges and renders everything | connections, tests, pool |
| Readiness (`health.go`) | none | `/readyz` | pool |
| Cycle timing (`main.go`, `api.go`) | ticker, `nextCycle`, drain times | tick, reset, mark; shown by `/cycle` | rotation loop |
| Configuration, read-only API | set once, or copies for display | | |

What is hard about it:

* the main goroutine and the drop handlers change the same slots, and only the drop
  handlers take `replaceMu`; ResetEmpty, the promotion (claim, start, activate) and
  the keepalive mark each span several critical sections with seconds between them;
* connections outlive the slot they were given: it may be drained, reset and
  refilled before they release it;
* xray processes die by themselves, fail to start, stall, and leave zombies;
* scans over the slots (GetLeastLoaded, ActiveCount) hold one lock at a time, and the
  scrape of a histogram holds none;
* a connection has two copying goroutines, a deadline that must act before the relay
  and not in it, and two peers that may stall, stop reading or leave at any point; what
  it holds is given back by calls it defers one at a time;
* the SOCKS5 handshake with an xray process has no deadline, and a connection, the main
  goroutine, the holder of `replaceMu` and the keepalive loop all wait in it;
* tests of a cycle and of a drop choose their ports without each other;
* several things must happen eventually: a drained slot is freed, a queued cycle
  runs, a drop is answered, a dead WAN leaves service, a test and a session end, a
  signal ends the program.

The full list, line by line, is under `hazards` in `PROJECT.json`, with the property
that watches each one.

## 2. The modules

| Module | Models | Extends / instantiates |
|---|---|---|
| `WANPool` | the slots and their methods, the leak guard, the choice of a slot | |
| `Rotation` | main goroutine, drop handlers, their environment | extends `WANPool`, instantiates `CandidateSet`, `SlotLifecycle` |
| `SlotLifecycle` | abstract: the documented life of a slot, and a user who may drop it | |
| `CandidatePool` | the sorted and capped list of `candidate.go` | instantiates `CandidateSet` |
| `CandidateSet` | abstract: which configs a drop may be offered | |
| `Traffic` | how connections share the slots, and the keepalive loop, over slots that change under them | extends `WANPool` |
| `Session` | one client connection from accept to close | extends `Router` |
| `Router` | the routing decision and the reading of its lists, as operators | |
| `SpeedTest` | tests that run at the same time, and their processes | |
| `Metrics` | a histogram and the gauge of active slots, observed and scraped | |
| `Schedule` | the clock: ticker, trigger, shown times, grace period | |
| `WANPoolProofs`, `RotationProofs`, `CandidatePoolProofs`, `TrafficProofs`, `SessionProofs`, `SpeedTestProofs`, `MetricsProofs`, `ScheduleProofs` | lemmas and theorems | each extends the module it is named after; `RotationProofs` and `TrafficProofs` also extend `WANPoolProofs` |
| `MCRotation`, `MCCandidatePool`, `MCTraffic`, `MCSession`, `MCSpeedTest`, `MCMetrics` | instances for TLC | |

**WANPool.** `slot[i]` is a record with the fields of `WANSlot`. A config is a model
value that stands for its raw URI; `SchemeOf` and `EndpointOf` give what the code
derives from it. The process handle is the pair `cmd` (config it was started with)
and `proc` (none, up, zombie, reaped). Methods that check the slot's state and return
an error leave the slot unchanged, so that callers which ignore the error (as the
rotation loop does) are modelled as they are. ResetEmpty is two operators, `StopCmd`
and `Clear`, because the code releases the slot's lock between them. `DrainAt` is
abstracted to no / fresh / expired. `ExitIP` and `LastProbe`, written for display
only, are left out.

**Rotation.** One program counter per thread. A step is one critical section or one
blocking call. The main goroutine's points follow startup and runCycle: `fetch`,
`pick` (next config: leak guard, dedupe), `test`, `claim` (StartTesting), `spawn`
(StartXray), `activate` (SetActive), `measure`, `filled`/`wait` (end of a boot
round), `select` (runLoop), `drain`, `scan` (HealthCheckAll), `update` (candidates),
`replace` and `mark`, `shutdown`, `exited`. `stop` and `clear` are the two halves of
ResetEmpty, for the set of slots in `todo`. A drop handler goes through `lock`, a
reset, `best`, `test`, `claim`, `spawn`, `activate`, `measure`, `unlock`, or `queue`
when it falls back to a cycle. A test that measures stability (`StabilityProbes`, the
`STABILITY_PROBES` of the program, 0 by default) may leave its thread at `hung`: it waits
in socks5Dial (`src/tester.go:362`), which reads without a deadline, and may return after
a good download or never. A process that no slot and no thread refers to any
more is kept in `orphans`. Environment: keepalive drains, the grace period, exiting
processes, `/cycle/trigger`, a signal.

`ApartSpec` is `Spec` restricted to the executions in which no slot is managed by two
goroutines at once (`SlotsApart`): no drop works on the slot that the main goroutine
promotes or resets, nor on any slot during ShutdownAll. It is what `replaceMu` would
give, slot by slot, if cycles and ShutdownAll took it too; of drops among themselves it
assumes nothing. A drop and a cycle may still be under way together, on different slots.

**SlotLifecycle.** Per slot the state, the config, the process and the drain. An active
slot is emptied only after its drain, when viberoxy closes, or while it is in `dropped`,
which the user sets freely. `Rotation` maps it to the slots whose drop is between
DropLock and the choice of a replacement.

**CandidatePool / CandidateSet.** Each method holds the mutex throughout and is one
step. `sort.Slice` is not stable, so `Update` may end in any order without an
inversion. `Rotation` uses only `CandidateSet`; the run `candidate_pool` shows that
the list implements it.

**Traffic.** Per connection: GetLeastLoaded, `beginWAN`, dial, relay, `endWAN`.
GetLeastLoaded is a walk with a step per slot (`Pick`, `ScanSlot`), because the code
holds one slot's lock at a time; `FallBack` starts the second pass. `steady` and
`quiet` record what happened to the slots during the second pass and during the whole
walk, for the properties only. The
keepalive round probes the slots that were in service when it began; counting the
failure, reading the count and marking the slot are three steps, as in the code. A probe,
and the request for the exit IP after a good one (`resolve`), may wait in socks5Dial for
ever; the end of the process it waits for cuts the wait short (`CutProbe`).
Filling, replacing and resetting slots is a free environment here: it contains every
order `Rotation` can produce.

**Session.** `pc` follows handleSocksConn (`greeting`, `request`, `address`) or
handleConnect (`head`), then for both `route`, `connect`, `upshake` (the SOCKS5
handshake with the slot's xray), `reply`, `relay`, `done`. `defers` holds the deferred
calls registered so far: the close of the client's socket from the start (SOCKS5) or from
Hijack on, `endWAN` from `beginWAN` on, the close of the upstream from the end of the dial
on. `ReturnAfter` runs those and no other, so a way out that is reached before a call is
registered leaves its socket or its reservation behind; a dial that fails in the handshake
with xray has closed its connection itself. The pumps are the two io.Copy goroutines, a read and a write
being two steps; a write blocks while its peer does not read. The payload is numbered
chunks one way and one answer the other. The client may send before it is told of
success, stall, stop reading, half-close or leave at any point; the upstream may stall,
stop reading or leave.

**Router.** A host name is a sequence of tokens, so that prefix, suffix and the search
for the last colon are those of the strings. NormalizeEntry, parseSuffixList,
loadSuffixFile, StripPort, normalizeHost, Matches, Decide and NewRouter follow the
functions of the code; `Session!ExpectedRoute` is the reference they are compared with,
over lists of labels and without any text. `Session!Joined` and `Dotted` write labels as
text; they stand for the names that users and clients write, not for code.

**SpeedTest.** A tester is the rotation loop or a drop handler. A test and a probe talk
to whichever process holds the port; a process that finds its port taken exits, one
that stalls keeps it and answers nothing. `via` records whose process answered.

**Metrics.** `cell` holds the numbers of one histogram, the last one being its count. An
increment is a `Load` and a later `Store`, so that without the mutex one goroutine would
overwrite what another has added.
Because writeTo reads them without the mutex, the stores of one observation become
visible in any order. ActiveCount is a walk with a step per slot. A counter is the case
of a histogram without buckets.

**Schedule.** Discrete time, all times relative to now. The ticker is that of Go 1.21
(the version of `go.mod`): its channel keeps a tick over a Reset. One slot drains, at
any time.

Simplifications, all of them towards fewer steps without a shared-state effect in
between: a scan over the slots is one step in `Rotation` (`Traffic` and `Metrics` walk);
SetMeasured merges the two stores after a promotion; DropLock merges taking the lock,
reading the config and excluding it (observed only under `replaceMu`); StopCmd merges
reading the handle and stopping the process; a test that does not hang is one step with
any outcome in `Rotation` (`SpeedTest` has its inside); the ticker may fire whenever `Rotation`'s
runLoop waits (`Schedule` has its times). The failure counter, which GetLeastLoaded
reads just after the unlock, is read with the rest of the slot.

## 3. Runs

| Run | Instance | Checks | States |
|---|---|---|---|
| `rotation_cycle` | 2 slots, 4 configs of 3 servers, speeds below and at the minimum, slot 1 flaky, failing fetches, 1 probe per test, no drops | `NoOrphans`, `DistinctEndpoints`, `CleanShutdown`, `LifecycleRefined` | 433 thousand |
| `rotation_drops` | 1 slot, 3 configs (one of an alias with a direct outbound), 2 drop handlers, 1 probe per test, symmetric | `TypeOK`, `SlotShape`, `LeakGuard`, `DropHonoursExclusion` | 409 thousand |
| `rotation_live` | 1 slot, 2 configs, 1 drop handler, failing fetches, 1 probe per test, no degraded boot | `DrainedSlotFreed`, `TriggerServed`, `SignalStops` | 59 thousand |
| `drops_live` | 1 slot, 1 config, 2 drop handlers, 1 probe per test | `DropAnswered` | 30 thousand |
| `candidate_pool` | list of 2 entries, 2 configs, speeds 0 to 2, batches of up to 2 results | `TypeOK`, `BestIsFastestEver`, `CandidateSetRefined` | 796 |
| `traffic` | 2 slots, 1 connection, WAN_FAIL_THRESHOLD 1 | `TypeOK`, `NeverOvercounted`, `NobodyMissed`, `UndisturbedScan`, `DeadWanDrained`, `DeadPoolNotReady` | 619 thousand |
| `session` | both front ends, 2 chunks, 12 routing settings, names of up to 3 labels with and without a trailing dot and a port | `RouteAsListed`, `Released`, `CutForCause`, `NoGap`, `Told`, `OneEndEndsAll`, `StalledClientDropped`, `ClientGoneEnds` | 170 thousand |
| `speed_test` | 2 testers, 2 ports of which one is shared, 2 configs, 2 probes | `TypeOK`, `OwnMeasured`, `NoStrayXray`, `SteadyScoresZero`, `TestEndsOrHangs` | 230 thousand |
| `metrics` | 2 observers, 2 scrapers, 2 buckets, 2 slots, at most 2 observations, symmetric | `SkewAtMostOne`, `NothingLost`, `ActiveCurrent` | 1,260 thousand |
| `schedule` | interval 3, minimal grace 6, cycles of up to 4, in units of ten seconds | `TypeOK`, `NextIsTicker`, `DrainBounded` | 538 |

Why the bounds are enough. Two slots are needed for duplicates, for a least-loaded
choice and for a cycle that fills one slot while another drains; four configs with two
of one server let the dedupe reject one and a replacement still be found. One slot and
two drop handlers give every race of drop against drop and drop against cycle on that
slot, which is where they meet. A list of two entries overflows with the second cycle.
Startup has two modes; `rotation_live` waits for a full pool, the other runs serve
clients as soon as one slot is up. A threshold of one differs from the default of two
that `/readyz` uses, so the two disagree. A test either has probes or has none, and only
the first of them matters for `Rotation`: from it on the test may hang.
`StabilityProbes` is 1 wherever tests may hang, and 0 in `cycle_dead_slot`, whose
counterexample must not be owed to a hang. `MaxFails` caps a failure counter at the
larger of the two thresholds, and the keepalive loop takes a count above the threshold
for the threshold: counts are only compared with them. In `traffic` the two slots and
the free environment give every order of resets and refills behind and ahead of a walk;
the walk compares counters of 0 and below, which a reset under the one connection
produces. The theorems cover any number of connections.

In `session` two chunks tell a gap from a delay; the entries have one label and two,
with and without a dot, in both cases, in the environment and in the file, one is an
IPv6 literal and one is a comment, and two labels end alike. In `speed_test` the loop
uses the port of a drop and one of its own. In `metrics` two observations make the
difference of two that SkewAtMostOne excludes, two scrapers overwrite each other's
count. In `schedule` a cycle may be shorter than the interval, as long, and longer, and
the grace period is the larger of two that can be equal; every time is capped by the
system itself, so no bound cuts a behaviour off. `MaxCycle` is an assumption: the
duration of a cycle has no bound in the code other than the sum of its timeouts, and none
at all with `STABILITY_PROBES` above 0, since a probe may hang: `DrainBounded` speaks of
programs whose tests return.

What the properties say, beyond their names: a client is turned away only if no slot
stayed in service during the second pass of its walk (`NobodyMissed`); when every
process is gone `/readyz` comes to answer 503 (`DeadPoolNotReady`), although a threshold
of one drains a slot before its counter reaches the two of `/readyz`: the loop goes on
to probe it while it drains; a line of a scrape exceeds a later one by at most one
observation (`SkewAtMostOne`); the gauge of active slots lies between the slots that
were always and those that were ever in service since the counts under way began
(`ActiveCurrent`); a relay is cut only because an end of it stopped (`CutForCause`), and
when one does, everything ends, unless a pump is blocked for good in a write to a peer
that does not read (`OneEndEndsAll`); a test ends unless it hangs in the SOCKS5
handshake of a probe (`TestEndsOrHangs`); a draining slot outlives its grace period by
less than the longest distance of two cycles (`DrainBounded`). No increment of a number
is overwritten by another's, because Metric.mu is held from load to store
(`NothingLost`), and what a handler has deferred when it returns covers what it holds
(`Released`).

`/readyz` promises a client less than it seems. A 200 says that one snapshot of the pool has
a routable slot, but GetLeastLoaded is a walk: with two slots that are reset and refilled in
turn, each empty when the walk comes by, a client is turned away while `/readyz` would
answer 200 throughout. `Traffic` has that behaviour; `NobodyMissed` is what the walk does
guarantee.

The remaining runs are expected to end in a violation: each states what a document or
comment of the repository says and the code does not do. They are the `findings` of
`PROJECT.json`:

| Run | Property | What happens |
|---|---|---|
| `drop_two_xrays` | `OneXrayPerPort` | a drop and a cycle, which does not take `replaceMu`, start two processes for one port; one loses its handle |
| `cycle_dead_slot` | `DeadSlotReset` | a process that exited by itself still answers signal 0 (nobody waits for it), so no health check resets its slot. The keepalive loop does not act in this run: in the program its failed probes drain the slot later (`DeadWanDrained`) |

Further disagreements met while modelling, which the model reproduces and no run
states:

* the fill loop of a cycle does not look at the exclusions, so a dropped config comes
  back with the next cycle (`src/main.go:730`, against `src/wan.go:115-116`);
* a drop promotes the server that another slot already runs: only cycles call
  HasServerPort (`src/main.go:743`, `src/wan.go:143`), so `DistinctEndpoints` fails
  with a drop handler;
* PickReplacementSlot looks at stability only, so a WAN above `MINIMUM_SPEED` can be
  replaced (`src/main.go:801`, against `src/README.md:140`);
* with a full pool a cycle tests nothing, so a replacement needs a slot that was lost
  and a config that passed its test and then failed to start;
* new connections are routed to draining slots (`src/wan.go:497`, against
  `src/README.md:135`, "no new connections routed to it");
* a reset zeroes the counter of connections that decrement it later, so the refilled
  slot's counter becomes negative (`src/wan.go:248`, `src/relay.go:35`);
* startup counts draining slots as active and nothing frees them before runLoop, so
  in a degraded boot with too few configs a draining slot stays (`src/main.go:577`);
* a drop tests on the same temporary port as the first test of a cycle
  (`src/api.go:107`, `src/main.go:748`, against `src/README.md:133`), and then one of
  them measures the other's config;
* a cycle longer than the interval leaves a tick in the channel, which
  `ticker.Reset` does not remove, so the next cycle follows at once and not at the time
  shown (`src/main.go:627-629`);
* the keepalive loop can drain a slot whose counter was reset since it was read
  (`src/main.go:670`);
* `/readyz` looks at handles, not processes, and counts draining slots
  (`src/health.go:27`, against `src/README.md:59`, "active ... with a live xray process");
* the lines of one histogram may disagree within a scrape (`src/metrics.go:190`);
* the speed gauge of an emptied slot keeps its last value (`src/health.go:47`, against
  the comment at `src/health.go:39-40`);
* a pump that is through closes both directions of its destination, so the relay does
  not last "until both directions close" for a client that half-closes
  (`src/relay.go:144-145`);
* the byte counter has no `route` label (`src/metrics.go:265`, against
  `src/README.md:191`);
* `[::1]` without a port is cut at its last colon (`src/router.go:111`, against the
  comment above it); no target that can be dialled lacks a port, so `RouteAsListed` is
  stated for those with one;
* `MINIMUM_SPEED=NaN` passes the test for at least 0.1 (`src/main.go:223`);
* a signal during startup, or a drop under way during ShutdownAll, leaves processes
  running.

### Fairness

`Rotation!LiveSpec`: weak fairness of the main goroutine and of each drop handler as long
as it is not `Hung` (goroutines keep being scheduled; fetches, downloads and process stops
have timeouts and return); strong fairness of taking the trigger and of seeing the cancelled context (Go's
select chooses at random among ready cases, so a case that is ready again and again
is taken); strong fairness of acquiring `replaceMu` (Go's mutex hands over to a
starving waiter); weak fairness of the clock that ends a grace period. Nothing is
assumed of requests, signals, process deaths or the outcome of tests and fetches, and
nothing says that a test which waits in socks5Dial returns. The liveness properties name
that wait as their one exception: `DrainedSlotFreed`, `TriggerServed` and `SignalStops`
hold unless the main goroutine hangs from some point on, `DropAnswered` unless the holder
of `replaceMu` does. With `STABILITY_PROBES=0` no test ever hangs, and they hold without it.
`Traffic!LiveSpec`: weak fairness of the keepalive loop only, and only while it does not
wait for an answer of a live process (`KeepaliveHung`); connections may last for ever
and slots need not be managed at all. `DeadWanDrained` has the endless wait as its
exception. `DeadPoolNotReady` needs none: when every process is gone there is no one to
wait for. `SpeedTest!LiveSpec`: every test goroutine runs and its timeouts expire; a
wait without a timeout (`Greeted`, `GreetFails`) is enabled only when the process
answers or is gone. `Session!LiveSpec`: the handler and each pump run and the handshake
deadline passes; an answer of a client, a target or xray is never assumed.

## 4. Proofs

TLAPS proves, for every number of slots, configs, drop handlers, connections, testers,
observers and scrapers, every capacity of the candidate list, every number of buckets,
chunks and probes, every interval and bound on the duration of a cycle, and names and
routing lists of any length:

| Theorem | States |
|---|---|
| `RotationProofs!TypeCorrect` | `Spec => []TypeOK` |
| `RotationProofs!SlotsConsistent` | `Spec => []SlotShape` |
| `RotationProofs!NoLeak` | `Spec => []LeakGuard` |
| `RotationProofs!DropsExclusive` | `Spec => []LockInv` |
| `RotationProofs!ExclusionHonoured` | `Spec => []DropHonoursExclusion` |
| `RotationProofs!NoProcessLost` | `ApartSpec => []NoOrphans` |
| `RotationProofs!OnePerPort` | `ApartSpec => []OneXrayPerPort` |
| `RotationProofs!ShutdownClean` | `ApartSpec => []CleanShutdown` |
| `RotationProofs!LifecycleImplemented` | `ApartSpec => LifecycleRefined` |
| `RotationProofs!LoopAloneCorrect` | without drops: `Spec => [](NoOrphans /\ OneXrayPerPort /\ CleanShutdown) /\ LifecycleRefined` |
| `RotationProofs!EndpointsDistinct` | without drops: `Spec => []DistinctEndpoints` |
| `CandidatePoolProofs!PoolTypeCorrect` | `Spec => []TypeOK` |
| `CandidatePoolProofs!BestNeverLost` | `Spec => []BestIsFastestEver` |
| `CandidatePoolProofs!CandidateSetImplemented` | `Spec => CandidateSetRefined` |
| `TrafficProofs!TrafficTypeCorrect` | `Spec => []TypeOK` |
| `TrafficProofs!CountsNeverExceed` | `Spec => []NeverOvercounted` |
| `TrafficProofs!NoSlotMissed` | `Spec => []NobodyMissed` |
| `TrafficProofs!QuietScanExact` | `Spec => []UndisturbedScan` |
| `SessionProofs!SocketsReleased` | `Spec => []Released` |
| `SessionProofs!RelayCutForCause` | `Spec => []CutForCause` |
| `SessionProofs!DeliveredWithoutGap` | `Spec => []NoGap` |
| `SessionProofs!ToldOnce` | `Spec => []Told` |
| `SessionProofs!RoutedAsListed` | `Spec => []RouteAsListed` |
| `SpeedTestProofs!TestTypeCorrect` | `Spec => []TypeOK` |
| `SpeedTestProofs!MeasuredOwnConfig` | `Spec => []OwnMeasured` |
| `SpeedTestProofs!NothingLeftBehind` | `Spec => []NoStrayXray` |
| `SpeedTestProofs!SteadyConfigsScoreZero` | `Spec => []SteadyScoresZero` |
| `MetricsProofs!ScrapeSkewBounded` | `Spec => []SkewAtMostOne` |
| `MetricsProofs!ObservationsCounted` | `Spec => []NothingLost` |
| `MetricsProofs!GaugeNeverOlder` | `Spec => []ActiveCurrent` |
| `ScheduleProofs!ScheduleTypeCorrect` | `Spec => []TypeOK` |
| `ScheduleProofs!ShownTimeIsTickers` | `Spec => []NextIsTicker` |
| `ScheduleProofs!DrainingEndsInTime` | `Spec => []DrainBounded` |

`ApartSpec` (section 2) says that a drop and a cycle do not work on one slot at a time. It
is needed: a drop that meets a cycle loses a process (run `drop_two_xrays`), and a drop
under way during ShutdownAll starts one after it. "Without drops" is the hypothesis
`Droppers = {}`: nobody calls `POST /wans/{i}/drop`. Then every execution keeps the slots
apart (lemma `LoopAloneApart`), so the boot and rotation loop alone has all four
properties with no restriction on the executions (`LoopAloneCorrect`); the run
`rotation_cycle` is of that case. With drops that meet no cycle they rest on the
proofs, and `drop_two_xrays` shows what happens when a drop does meet one.
`EndpointsDistinct` needs the hypothesis itself: only cycles call HasServerPort, so a drop
puts one upstream into two slots also when it meets no cycle. The other theorems have
neither restriction.

Assumptions: `WanCount` and `MaxLen` are positive, `NoConfig` is not a config, every
config has one of the parser's schemes and finitely many exit IPs, speeds and scores are
naturals, batches are sequences of results, the thread names are distinct,
`WanFailThreshold` is positive, `Conns` is finite, the interval and the number of buckets
are positive, the numbers of probes, chunks and observations and the minimal grace period
are naturals. Of names: a label is not empty and holds neither a dot nor the mark of a
comment, a name has at least one label, and a port starts with a digit. Of the table of
lower case: what is in lower case stays so, and nothing but the dot and the mark becomes
one. TLC evaluates all of them on every run of their module.

* *Rotation.* `TypeOK` is not inductive: the code stores the result of a test in a
  slot, and only the program point tells that the test succeeded. `Basic` adds
  `SlotShape` and, per thread, `ThreadOK`: what `cur`, `held`, `todo` and `ret` hold
  at each program point, and that a reset never returns into the middle of a
  promotion.
* *Leak guard.* Only the fill loop applies IsXraySupported. `LeakInv` says that every
  place a config reaches from there (test results, candidates, handles in slots and
  threads, orphans) holds admitted configs only; `WANPoolProofs!SupportedIsNotFreedom`
  says that an admitted protocol has no direct outbound.
* *Exclusions.* `LockInv`: a handler between DropLock and the release of `replaceMu`
  is its holder. Hence no other handler excludes a config between Best and the
  promotion.
* *Slots apart.* `ApartInv` says what the program points of every thread mean for the
  slots it manages. A thread that promotes a slot finds it in testing and without a
  handle, so SetActive succeeds and no second process is started (`OneManager`: by
  `SlotsApart` and `LockInv` no other thread manages that slot). A handle whose process
  is reaped exists only between the two halves of a reset, and no handle with a running
  process is cleared (`NoOrphans`). A reset has one of four reasons: a failed start, an
  expired drain, a drop, a shutdown. During ShutdownAll the slots not in `todo` any more
  are empty, and the keepalive loop, which only drains active slots, cannot refill them
  (`CleanShutdown`). Because an orphan never arises, the processes of a port are those of
  its slot and of the one thread that may be starting one (`OneXrayPerPort`). The
  invariant is local to a thread and the slots it manages, so that a step of one thread
  keeps what is said of the others.
* *Distinct servers.* Without drops, `FreshEndpoint`: from the dedupe check to the
  promotion the endpoint of the config under test is served by no slot.
* *The life of a slot.* From `ApartInv` every action of `Rotation` is, for each slot, an
  action of `SlotLifecycle` or a stutter. `Stop` and `Free` are the two halves of
  ResetEmpty: a process stopped by the first had drained, or its slot is being dropped, or
  viberoxy closes, and the second finds it reaped. After a failed start the slot has no
  handle, so the first half stutters and the second is `Abandon`.
* *The candidate list.* The list is sorted, but what it has forgotten cannot be read off
  it. `Kept` says that a success ever measured is in the list, or the list is full of
  successes at least as fast. Trimming keeps it by counting: if an entry falls behind
  the last place kept, all places before it hold something no worse, and if one of them
  did not, sorting would have put two entries into one place (`NoInjection`, the
  pigeonhole principle; `BestInFront`).
* *Counters.* `TypeOK` and `NeverOvercounted` are inductive together.
* *The walk.* `ScanOK`: the slots in `steady` are in service now, and as long as the
  second pass has found nothing none of them lies behind it. The second conjunct is
  what makes `NobodyMissed` inductive: at the end of the pass every slot is behind it.
  For an undisturbed walk `PassOK` is the loop invariant: the best so far has the fewest
  connections, and the lowest index, of the eligible slots behind it, and a second pass
  means that no slot is routable.
* *A connection.* `SessionInv` gives, at each program point, the sockets, the slot and
  the deadline held (`HandlerOK`, `DeadlineOK`), the calls deferred by then, which
  release just that, but for the connection of an unfinished dial (`DefersOK`,
  `ReturnReleases`), what the client was told (`ReplyOK`), and for the pumps that the
  first to end had a reason and that a socket closed under one was closed by the other
  (`PumpsOK`). `DataOK`: what reached the upstream is what was read except the chunk in
  hand.
* *Routing.* `RouteInv`: at the point "route" the settings and the target are still those
  the route was decided by. The rest is about text, and has no state. A name is the
  recursive function `Joined`, a dot and a label at a time. Since no label holds a dot, two
  texts that end alike agree label by label from the end (`Peel`, and `JoinedSuffix` by
  induction over the labels), so a suffix of text that starts with a dot is a suffix of
  labels (`NameSuffix`, `TextMatches`). Lower case keeps the dots (`LoweredName`), the last
  colon of a target is the one of its port (`PortStripped`, `HostOf`), and an entry gets
  its dot exactly when it has several labels (`EntryNormalized`). A comment, which only a
  file may hold, starts in another list with a mark that no host has (`CommentNoMatch`).
  `ListMatches` and `RouteOf` put these together. Induction is over a set of naturals
  (`SetInduction`, from the well-foundedness of `<`), because the induction theorems that
  take an operator cannot be instantiated.
* *Tests.* `SharedOK`: of two tests on one port each knows. So in a test that shares its
  port with none every process on the port is its own, and everything seen through it
  belongs to its config (`OwnOK`). `XrayOK`: a process belongs to a test still under way.
* *Metrics.* `LoadOK`: what an observer has loaded is still in the cell, because whoever
  has increments to make holds the mutex (`OneWriter`), so a store adds one. `CellsOK`:
  a cell lacks at most the observation under way, and only one is; what is due is
  cumulative. That bounds the distance of two cells, and a line printed was read off a
  cell that has only grown since (`LinesOK`). For the gauge `CountOK` is the invariant
  of the walk over the slots, and `OverlapOK` says that the window of a count under way
  lies within that of every refresh it overlaps with, which is why a stale number
  written last is still a number of the window.
* *The clock.* `Overdue` bounds the age of a draining slot by the program point and by
  what the ticker still has to wait; `NoTickYet` says that a cycle during which the
  ticker has not fired began less than an interval ago, which makes the wait after it
  the only full interval between two cycles. `Shown` gives what the API shows at each
  point: between the end of a cycle and `ticker.Reset` it is already the new time.

Only model-checked: the liveness properties, because fairness and ENABLED are out of
the prover's reach, and the two runs that end in a violation.

## 5. Not modelled

* URI grammars and the JSON given to xray: string processing without state; only the
  protocol aliases, the leak guard and the kind of outbound are modelled.
* The speed gauges, label sets and text format of the metrics; the access log and the
  byte counters.
* `ExitIP` and `LastProbe` of a slot, which nothing but the API reads.
* The reading of the environment other than the routing lists; the read-only API (copies
  made under a lock).

## 6. Plan

1. *Proofs:* action properties, such as that a connection's slot and a drop's exclusion
   are never taken back.
2. *Composition* of `Rotation` and `Traffic`, so that connections meet exactly the
   resets the code makes; `Traffic` covers them with a free environment.
3. *Shutdown* with the API still serving, and during startup.
