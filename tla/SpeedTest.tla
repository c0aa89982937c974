------------------------------ MODULE SpeedTest ------------------------------
(***************************************************************************)
(* Speed and stability tests (tester.go).  A test starts a temporary xray  *)
(* on a test port, waits until somebody listens there, downloads through   *)
(* it, probes its exit IP a few times, and stops the process.  The         *)
(* rotation loop and a drop handler test at the same time and choose their *)
(* ports independently: TestBasePort + tested, and TestBasePort.           *)
(*                                                                         *)
(* A test and a probe talk to whichever process holds the port.  A process *)
(* that finds its port taken exits.  One that stalls keeps its port and    *)
(* accepts connections, but answers nothing.                               *)
(***************************************************************************)
EXTENDS Integers, FiniteSets

CONSTANTS Testers,   \* goroutines that run tests
          PortsOf,   \* per tester: the ports its tests may use
          Configs,
          ExitsOf,   \* per config: the exit IPs its upstream may use
          NoConfig,
          Probes     \* STABILITY_PROBES

ASSUME ProbesAssumption == Probes \in Nat
ASSUME ConfigsAssumption == NoConfig \notin Configs
ASSUME ExitsAssumption == \A c \in Configs : IsFiniteSet(ExitsOf[c])

Ports == UNION {PortsOf[t] : t \in Testers}
ExitIPs == UNION {ExitsOf[c] : c \in Configs}

VARIABLES
  pc, cfg, port,   \* per tester: program point, config under test, test port
  xrays,           \* the temporary processes
  peer,            \* per tester: the process its probe is connected to
  via, ips, left,  \* per tester: configs whose process answered, exit IPs seen,
                   \* probes left
  shared           \* per tester: another test used its port meanwhile

vars == <<pc, cfg, port, xrays, peer, via, ips, left, shared>>

Points == {"idle", "start", "ready", "download", "connect", "greet", "request", "stop"}
XrayType == [owner: Testers, config: Configs, port: Ports,
             st: {"starting", "listening", "stalled", "exited"}]
NoPeer == [owner |-> NoConfig, config |-> NoConfig]

TypeOK ==
  /\ pc \in [Testers -> Points] /\ cfg \in [Testers -> Configs \cup {NoConfig}]
  /\ port \in [Testers -> Ports] /\ xrays \subseteq XrayType
  /\ peer \in [Testers -> [owner: Testers, config: Configs] \cup {NoPeer}]
  /\ via \in [Testers -> SUBSET Configs] /\ ips \in [Testers -> SUBSET ExitIPs]
  /\ left \in [Testers -> 0 .. Probes] /\ shared \in [Testers -> BOOLEAN]

Init ==
  /\ pc = [t \in Testers |-> "idle"] /\ cfg = [t \in Testers |-> NoConfig]
  /\ port \in [Testers -> Ports] /\ \A t \in Testers : port[t] \in PortsOf[t]
  /\ xrays = {} /\ peer = [t \in Testers |-> NoPeer]
  /\ via = [t \in Testers |-> {}] /\ ips = [t \in Testers |-> {}]
  /\ left = [t \in Testers |-> 0] /\ shared = [t \in Testers |-> FALSE]

Goto(t, p) == pc' = [pc EXCEPT ![t] = p]

\* The process that holds a port; at most one can.
Holders(p) == {x \in xrays : x.port = p /\ x.st \in {"listening", "stalled"}}

\* The process a probe is connected to, as long as it lives.
PeerOf(t) == {x \in xrays : x.owner = peer[t].owner /\ x.config = peer[t].config
                              /\ x.st \in {"listening", "stalled"}}

----------------------------------------------------------------------------
(* TestSpeedWithStability.                                                 *)

\* The caller chooses config and port.
Begin(t) ==
  /\ pc[t] = "idle"
  /\ \E c \in Configs, p \in PortsOf[t] :
       LET others == {u \in Testers \ {t} : pc[u] # "idle" /\ port[u] = p} IN
       /\ cfg' = [cfg EXCEPT ![t] = c] /\ port' = [port EXCEPT ![t] = p]
       /\ shared' = [u \in Testers |-> IF u = t THEN others # {}
                                       ELSE shared[u] \/ u \in others]
  /\ left' = [left EXCEPT ![t] = Probes]
  /\ Goto(t, "start")
  /\ UNCHANGED <<xrays, peer, via, ips>>

\* The test is over; its result is the caller's.
Return(t) ==
  /\ Goto(t, "idle")
  /\ cfg' = [cfg EXCEPT ![t] = NoConfig] /\ peer' = [peer EXCEPT ![t] = NoPeer]
  /\ via' = [via EXCEPT ![t] = {}] /\ ips' = [ips EXCEPT ![t] = {}]
  /\ left' = [left EXCEPT ![t] = 0] /\ shared' = [shared EXCEPT ![t] = FALSE]
  /\ UNCHANGED port

StartXray(t) ==
  /\ pc[t] = "start"
  /\ xrays' = xrays \cup {[owner |-> t, config |-> cfg[t], port |-> port[t], st |-> "starting"]}
  /\ Goto(t, "ready")
  /\ UNCHANGED <<cfg, port, peer, via, ips, left, shared>>

\* The process cannot be started: nothing to stop.
StartFails(t) ==
  /\ pc[t] = "start"
  /\ Return(t)
  /\ UNCHANGED xrays

\* waitPortReady is content with any listener ...
PortReady(t) ==
  /\ pc[t] = "ready" /\ Holders(port[t]) # {}
  /\ Goto(t, "download")
  /\ UNCHANGED <<cfg, port, xrays, peer, via, ips, left, shared>>

\* A test that gives up on the port without stopping its process.
PortTimeoutLeaves(t) ==
  /\ pc[t] = "ready" /\ Holders(port[t]) = {}
  /\ Return(t)
  /\ UNCHANGED xrays

\* ... and gives up after five seconds without one.
PortTimeout(t) ==
  /\ pc[t] = "ready" /\ Holders(port[t]) = {}
  /\ Goto(t, "stop")
  /\ UNCHANGED <<cfg, port, xrays, peer, via, ips, left, shared>>

\* A download that does not use the port of its test.
DownloadOkAnyPort(t) ==
  /\ pc[t] = "download"
  /\ \E x \in UNION {Holders(p) : p \in Ports} :
       /\ x.st = "listening"
       /\ via' = [via EXCEPT ![t] = @ \cup {x.config}]
  /\ Goto(t, IF Probes > 0 THEN "connect" ELSE "stop")
  /\ UNCHANGED <<cfg, port, xrays, peer, ips, left, shared>>

\* DownloadMeasurer, through the process that holds the port by now.
DownloadOk(t) ==
  /\ pc[t] = "download"
  /\ \E x \in Holders(port[t]) :
       /\ x.st = "listening"
       /\ via' = [via EXCEPT ![t] = @ \cup {x.config}]
  /\ Goto(t, IF Probes > 0 THEN "connect" ELSE "stop")
  /\ UNCHANGED <<cfg, port, xrays, peer, ips, left, shared>>

\* The context bounds the whole request, the dial included.
DownloadFails(t) ==
  /\ pc[t] = "download"
  /\ Goto(t, "stop")
  /\ UNCHANGED <<cfg, port, xrays, peer, via, ips, left, shared>>

\* The deferred StopXray: the process is gone when it returns.
StopXray(t) ==
  /\ pc[t] = "stop"
  /\ xrays' = {x \in xrays : x.owner # t}
  /\ Return(t)

----------------------------------------------------------------------------
(* measureStability: Probes times probeExitIP, a failed probe is skipped.  *)

\* A round with one probe too many.
NextProbeOneMore(t) ==
  /\ left' = [left EXCEPT ![t] = @ - 1]
  /\ peer' = [peer EXCEPT ![t] = NoPeer]
  /\ Goto(t, IF left[t] >= 1 THEN "connect" ELSE "stop")

\* The round goes on with the next probe, or the test ends.
NextProbe(t) ==
  /\ left' = [left EXCEPT ![t] = @ - 1]
  /\ peer' = [peer EXCEPT ![t] = NoPeer]
  /\ Goto(t, IF left[t] > 1 THEN "connect" ELSE "stop")

\* socks5Dial connects, bounded by its context ...
ProbeConnect(t) ==
  /\ pc[t] = "connect"
  /\ \E x \in Holders(port[t]) :
       peer' = [peer EXCEPT ![t] = [owner |-> x.owner, config |-> x.config]]
  /\ Goto(t, "greet")
  /\ UNCHANGED <<cfg, port, xrays, via, ips, left, shared>>

ProbeConnectFails(t) ==
  /\ pc[t] = "connect"
  /\ NextProbe(t)
  /\ UNCHANGED <<cfg, port, xrays, via, ips, shared>>

\* ... and then waits for two replies without any deadline.
Greeted(t) ==
  /\ pc[t] = "greet"
  /\ \E x \in PeerOf(t) : x.st = "listening"
  /\ Goto(t, "request")
  /\ UNCHANGED <<cfg, port, xrays, peer, via, ips, left, shared>>

\* The process refuses, or is gone and the connection with it.
GreetFails(t) ==
  /\ pc[t] = "greet"
  /\ \A x \in PeerOf(t) : x.st = "listening"
  /\ NextProbe(t)
  /\ UNCHANGED <<cfg, port, xrays, via, ips, shared>>

\* From here on a deadline holds: TLS, request and response.
ProbeOk(t) ==
  /\ pc[t] = "request"
  /\ \E x \in PeerOf(t), ip \in ExitIPs :
       /\ x.st = "listening" /\ ip \in ExitsOf[x.config]
       /\ via' = [via EXCEPT ![t] = @ \cup {x.config}]
       /\ ips' = [ips EXCEPT ![t] = @ \cup {ip}]
  /\ NextProbe(t)
  /\ UNCHANGED <<cfg, port, xrays, shared>>

\* A probe without a deadline: only a process that is gone ends it.
ProbeFailsOnReset(t) ==
  /\ pc[t] = "request" /\ PeerOf(t) = {}
  /\ NextProbe(t)
  /\ UNCHANGED <<cfg, port, xrays, via, ips, shared>>

ProbeFails(t) ==
  /\ pc[t] = "request"
  /\ NextProbe(t)
  /\ UNCHANGED <<cfg, port, xrays, via, ips, shared>>

\* A score that does not take one off.
ScoreOfCount(S) == Cardinality(S)

\* stabilityScoreFromIPs: distinct exit IPs minus one, 0 without any.
Score(S) == IF S = {} THEN 0 ELSE Cardinality(S) - 1

TestStep(t) ==
  \/ StartXray(t) \/ StartFails(t) \/ PortReady(t) \/ PortTimeout(t)
  \/ DownloadOk(t) \/ DownloadFails(t) \/ StopXray(t)
  \/ ProbeConnect(t) \/ ProbeConnectFails(t) \/ Greeted(t) \/ GreetFails(t)
  \/ ProbeOk(t) \/ ProbeFails(t)

----------------------------------------------------------------------------
(* The temporary processes.                                                *)

Becomes(x, s) ==
  /\ xrays' = (xrays \ {x}) \cup {[x EXCEPT !.st = s]}
  /\ UNCHANGED <<pc, cfg, port, peer, via, ips, left, shared>>

\* xray binds its port some time after it was started, or exits.
XrayBinds(x) ==
  x.st = "starting" /\ Becomes(x, IF Holders(x.port) = {} THEN "listening" ELSE "exited")

XrayStalls(x) == x.st = "listening" /\ Becomes(x, "stalled")

XrayExits(x) == x.st # "exited" /\ Becomes(x, "exited")

XrayStep(x) == XrayBinds(x) \/ XrayStalls(x) \/ XrayExits(x)

Next ==
  \/ \E t \in Testers : Begin(t) \/ TestStep(t)
  \/ \E x \in xrays : XrayStep(x)

Spec == Init /\ [][Next]_vars

\* Every goroutine keeps running and its timeouts expire.  Nothing is assumed of
\* the processes, which may stall or never bind.
LiveSpec == Spec /\ \A t \in Testers : WF_vars(TestStep(t))

----------------------------------------------------------------------------
(* Properties.                                                             *)

\* A test that had its port to itself measured its own config and no other, from
\* the download to the last probe, although it looks for the port and not for the
\* process: what a former test left behind on the port would be measured instead.
OwnMeasured == \A t \in Testers : ~shared[t] => via[t] \subseteq {cfg[t]}

\* No temporary process outlives its test, on any path out of it.
NoStrayXray == \A x \in xrays : pc[x.owner] \notin {"idle", "start"}

\* A config whose upstream has one exit IP scores 0, whatever probes fail: its
\* score says nothing of the probes that got no answer.
SteadyScoresZero ==
  \A t \in Testers : pc[t] = "stop" /\ ~shared[t] /\ Cardinality(ExitsOf[cfg[t]]) = 1
                      => Score(ips[t]) = 0

\* A probe waits for an answer to its SOCKS5 handshake from a stalled process.
HungInHandshake(t) == pc[t] = "greet" /\ \E x \in PeerOf(t) : x.st = "stalled"

\* Every test ends, with processes that stall at any point, except in the one place
\* without a deadline: the SOCKS5 handshake of a stability probe.
TestEndsOrHangs ==
  \A t \in Testers : pc[t] # "idle" ~> pc[t] = "idle" \/ HungInHandshake(t)
=============================================================================
