--------------------------- MODULE SpeedTestProofs ---------------------------
(***************************************************************************)
(* Speed tests that run side by side, for any number of testers, ports,    *)
(* configs and probes.                                                     *)
(***************************************************************************)
EXTENDS SpeedTest, FiniteSetTheorems, TLAPS

----------------------------------------------------------------------------
(* The inductive invariant.                                                *)

\* Between two tests a tester remembers nothing; during one it has a config.
IdleOK(t) ==
  /\ pc[t] = "idle" => cfg[t] = NoConfig /\ peer[t] = NoPeer /\ via[t] = {} /\ ips[t] = {}
  /\ pc[t] # "idle" => cfg[t] \in Configs

\* A probe under way is one of those left.
LeftOK(t) ==
  /\ pc[t] \in {"start", "ready", "download"} => left[t] = Probes
  /\ pc[t] \in {"connect", "greet", "request"} => left[t] > 0

\* A process belongs to the test that started it, which is still under way.
XrayOK(x) ==
  /\ pc[x.owner] \notin {"idle", "start"}
  /\ x.port = port[x.owner] /\ x.config = cfg[x.owner]

\* Two tests under way on one port know of each other.
SharedOK(t) ==
  \A u \in Testers \ {t} : pc[t] # "idle" /\ pc[u] # "idle" /\ port[u] = port[t] => shared[t]

\* A test that shares its port with none talks to its own process only.
OwnOK(t) ==
  ~shared[t] => /\ peer[t] = NoPeer \/ peer[t].config = cfg[t]
                /\ via[t] \subseteq {cfg[t]}
                /\ \A ip \in ips[t] : ip \in ExitsOf[cfg[t]]

TesterOK(t) == IdleOK(t) /\ LeftOK(t) /\ SharedOK(t) /\ OwnOK(t)

TestInv ==
  /\ TypeOK
  /\ \A t \in Testers : TesterOK(t)
  /\ \A x \in xrays : XrayOK(x)

----------------------------------------------------------------------------
(* Whom a test talks to.                                                   *)

\* A probe that is not connected has no peer that could be taken for a process.
LEMMA NoPeerApart == NoPeer \notin [owner: Testers, config: Configs]
BY ConfigsAssumption DEF NoPeer

\* Whoever holds the port of a test that shares it with none is the test's process.
LEMMA HolderIsOwn ==
  ASSUME TestInv, NEW t \in Testers, pc[t] # "idle", ~shared[t], NEW x \in Holders(port[t])
  PROVE  x.owner = t /\ x.config = cfg[t]
<1>1. x \in xrays /\ x.port = port[t] /\ x.owner \in Testers
  BY DEF TestInv, TypeOK, Holders, XrayType
<1>2. XrayOK(x) /\ SharedOK(t)
  BY <1>1 DEF TestInv, TesterOK
<1>3. x.owner = t
  BY <1>1, <1>2 DEF XrayOK, SharedOK
<1> QED
  BY <1>2, <1>3 DEF XrayOK

\* The same for the process a probe is connected to.
LEMMA PeerIsOwn ==
  ASSUME TestInv, NEW t \in Testers, ~shared[t], NEW x \in PeerOf(t)
  PROVE  x.config = cfg[t]
<1>1. x.config \in Configs /\ x.config = peer[t].config
  BY DEF TestInv, TypeOK, PeerOf, XrayType
<1>2. peer[t] # NoPeer
  BY <1>1, ConfigsAssumption DEF NoPeer
<1> QED
  BY <1>1, <1>2 DEF TestInv, TesterOK, OwnOK

----------------------------------------------------------------------------
(* Steps of a test.                                                        *)

\* A test that moves on within itself: only its own entries change.
LEMMA MovesOn ==
  ASSUME TestInv, NEW t \in Testers, pc[t] \notin {"idle", "start"},
         NEW p \in Points \ {"idle", "start"},
         NEW q \in [owner: Testers, config: Configs] \cup {NoPeer},
         NEW V \in SUBSET Configs, NEW I \in SUBSET ExitIPs, NEW n \in 0 .. Probes,
         p \in {"ready", "download"} => n = Probes,
         p \in {"connect", "greet", "request"} => n > 0,
         ~shared[t] => /\ q = NoPeer \/ q.config = cfg[t]
                       /\ V \subseteq {cfg[t]}
                       /\ \A ip \in I : ip \in ExitsOf[cfg[t]],
         pc' = [pc EXCEPT ![t] = p], peer' = [peer EXCEPT ![t] = q],
         via' = [via EXCEPT ![t] = V], ips' = [ips EXCEPT ![t] = I],
         left' = [left EXCEPT ![t] = n], UNCHANGED <<cfg, port, xrays, shared>>
  PROVE  TestInv'
<1>1. TypeOK'
  BY DEF TestInv, TypeOK
<1>2. ASSUME NEW u \in Testers PROVE TesterOK(u)'
  <2>0. TesterOK(u)
    BY DEF TestInv
  <2>1. IdleOK(u)' /\ LeftOK(u)'
    BY <2>0 DEF TestInv, TypeOK, TesterOK, IdleOK, LeftOK
  <2>2. SharedOK(u)'
    BY <2>0 DEF TestInv, TypeOK, TesterOK, SharedOK
  <2>3. OwnOK(u)'
    BY <2>0 DEF TestInv, TypeOK, TesterOK, OwnOK
  <2> QED
    BY <2>1, <2>2, <2>3 DEF TesterOK
<1>3. ASSUME NEW x \in xrays PROVE XrayOK(x)'
  BY DEF TestInv, TypeOK, XrayOK
<1> QED
  BY <1>1, <1>2, <1>3 DEF TestInv

\* A step that changes nothing but the program point.
LEMMA GoesTo ==
  ASSUME TestInv, NEW t \in Testers, pc[t] \notin {"idle", "start"},
         NEW p \in Points \ {"idle", "start"}, Goto(t, p),
         p \in {"ready", "download"} => left[t] = Probes,
         p \in {"connect", "greet", "request"} => left[t] > 0,
         UNCHANGED <<cfg, port, xrays, peer, via, ips, left, shared>>
  PROVE  TestInv'
<1> DEFINE q == peer[t]  V == via[t]  I == ips[t]  n == left[t]
<1>1. /\ q \in [owner: Testers, config: Configs] \cup {NoPeer} /\ V \in SUBSET Configs
      /\ I \in SUBSET ExitIPs /\ n \in 0 .. Probes
  BY DEF TestInv, TypeOK
<1>2. /\ peer' = [peer EXCEPT ![t] = q] /\ via' = [via EXCEPT ![t] = V]
      /\ ips' = [ips EXCEPT ![t] = I] /\ left' = [left EXCEPT ![t] = n]
      /\ pc' = [pc EXCEPT ![t] = p] /\ UNCHANGED <<cfg, port, xrays, shared>>
  BY DEF TestInv, TypeOK, Goto
<1>3. ~shared[t] => /\ q = NoPeer \/ q.config = cfg[t]
                    /\ V \subseteq {cfg[t]}
                    /\ \A ip \in I : ip \in ExitsOf[cfg[t]]
  BY DEF TestInv, TesterOK, OwnOK
<1>4. /\ p \in {"ready", "download"} => n = Probes
      /\ p \in {"connect", "greet", "request"} => n > 0
  OBVIOUS
<1> HIDE DEF q, V, I, n
<1> QED
  BY <1>1, <1>2, <1>3, <1>4, MovesOn

\* A probe is over, with or without an answer that was counted.
LEMMA ProbeOver ==
  ASSUME TestInv, NEW t \in Testers, pc[t] \in {"connect", "greet", "request"}, NextProbe(t),
         NEW V \in SUBSET Configs, NEW I \in SUBSET ExitIPs,
         via' = [via EXCEPT ![t] = V], ips' = [ips EXCEPT ![t] = I],
         ~shared[t] => V \subseteq {cfg[t]} /\ \A ip \in I : ip \in ExitsOf[cfg[t]],
         UNCHANGED <<cfg, port, xrays, shared>>
  PROVE  TestInv'
<1> DEFINE p == IF left[t] > 1 THEN "connect" ELSE "stop"  n == left[t] - 1  q == NoPeer
<1>1. left[t] \in 0 .. Probes /\ left[t] > 0
  BY DEF TestInv, TypeOK, TesterOK, LeftOK
<1>2. /\ n \in 0 .. Probes /\ p \in Points \ {"idle", "start"}
      /\ p \in {"ready", "download"} => n = Probes
      /\ p \in {"connect", "greet", "request"} => n > 0
  BY <1>1, ProbesAssumption DEF Points
<1>3. /\ peer' = [peer EXCEPT ![t] = q] /\ left' = [left EXCEPT ![t] = n]
      /\ pc' = [pc EXCEPT ![t] = p]
  BY DEF NextProbe, Goto
<1>4. q \in [owner: Testers, config: Configs] \cup {NoPeer} /\ q = NoPeer
  OBVIOUS
<1> HIDE DEF p, n, q
<1>5. pc[t] \notin {"idle", "start"}
  OBVIOUS
<1> QED
  BY <1>2, <1>3, <1>4, <1>5, MovesOn

\* A probe is over and nothing was counted.
LEMMA ProbeFailed ==
  ASSUME TestInv, NEW t \in Testers, pc[t] \in {"connect", "greet", "request"}, NextProbe(t),
         UNCHANGED <<cfg, port, xrays, via, ips, shared>>
  PROVE  TestInv'
<1> DEFINE V == via[t]  I == ips[t]
<1>1. /\ V \in SUBSET Configs /\ I \in SUBSET ExitIPs
      /\ via' = [via EXCEPT ![t] = V] /\ ips' = [ips EXCEPT ![t] = I]
      /\ ~shared[t] => V \subseteq {cfg[t]} /\ \A ip \in I : ip \in ExitsOf[cfg[t]]
  BY DEF TestInv, TypeOK, TesterOK, OwnOK
<1> HIDE DEF V, I
<1> QED
  BY <1>1, ProbeOver

\* A download that succeeded came through the process of the test, if the port is its own.
LEMMA DownloadOkKeeps ==
  ASSUME TestInv, NEW t \in Testers, DownloadOk(t) PROVE TestInv'
<1>1. PICK x \in Holders(port[t]) : via' = [via EXCEPT ![t] = @ \cup {x.config}]
  BY DEF DownloadOk
<1> DEFINE p == IF Probes > 0 THEN "connect" ELSE "stop"
           q == peer[t]  V == via[t] \cup {x.config}  I == ips[t]  n == left[t]
<1>2. /\ pc[t] = "download" /\ pc[t] \notin {"idle", "start"} /\ TesterOK(t)
      /\ left[t] = Probes
  BY DEF DownloadOk, TestInv, TesterOK, LeftOK
<1>3. x.config \in Configs
  BY DEF Holders, TestInv, TypeOK, XrayType
<1>4. /\ q \in [owner: Testers, config: Configs] \cup {NoPeer} /\ V \in SUBSET Configs
      /\ I \in SUBSET ExitIPs /\ n \in 0 .. Probes /\ p \in Points \ {"idle", "start"}
      /\ p \in {"ready", "download"} => n = Probes
      /\ p \in {"connect", "greet", "request"} => n > 0
  BY <1>2, <1>3, ProbesAssumption DEF TestInv, TypeOK, Points
<1>5. /\ pc' = [pc EXCEPT ![t] = p] /\ peer' = [peer EXCEPT ![t] = q]
      /\ via' = [via EXCEPT ![t] = V] /\ ips' = [ips EXCEPT ![t] = I]
      /\ left' = [left EXCEPT ![t] = n] /\ UNCHANGED <<cfg, port, xrays, shared>>
  BY <1>1 DEF DownloadOk, Goto, TestInv, TypeOK
<1>6. ~shared[t] => /\ q = NoPeer \/ q.config = cfg[t]
                    /\ V \subseteq {cfg[t]}
                    /\ \A ip \in I : ip \in ExitsOf[cfg[t]]
  BY <1>2, HolderIsOwn DEF TesterOK, OwnOK
<1> HIDE DEF p, q, V, I, n
<1> QED
  BY <1>2, <1>4, <1>5, <1>6, MovesOn

\* A probe connects to the process of the test, if the port is its own.
LEMMA ProbeConnectKeeps ==
  ASSUME TestInv, NEW t \in Testers, ProbeConnect(t) PROVE TestInv'
<1>1. PICK x \in Holders(port[t]) :
        peer' = [peer EXCEPT ![t] = [owner |-> x.owner, config |-> x.config]]
  BY DEF ProbeConnect
<1> DEFINE q == [owner |-> x.owner, config |-> x.config]
           p == "greet"  V == via[t]  I == ips[t]  n == left[t]
<1>2. /\ pc[t] = "connect" /\ pc[t] \notin {"idle", "start"} /\ TesterOK(t)
      /\ left[t] > 0
  BY DEF ProbeConnect, TestInv, TesterOK, LeftOK
<1>3. x.config \in Configs /\ x.owner \in Testers
  BY DEF Holders, TestInv, TypeOK, XrayType
<1>4. /\ q \in [owner: Testers, config: Configs] \cup {NoPeer} /\ V \in SUBSET Configs
      /\ I \in SUBSET ExitIPs /\ n \in 0 .. Probes /\ p \in Points \ {"idle", "start"}
      /\ p \in {"ready", "download"} => n = Probes
      /\ p \in {"connect", "greet", "request"} => n > 0
  BY <1>2, <1>3 DEF TestInv, TypeOK, Points
<1>5. /\ pc' = [pc EXCEPT ![t] = p] /\ peer' = [peer EXCEPT ![t] = q]
      /\ via' = [via EXCEPT ![t] = V] /\ ips' = [ips EXCEPT ![t] = I]
      /\ left' = [left EXCEPT ![t] = n] /\ UNCHANGED <<cfg, port, xrays, shared>>
  BY <1>1 DEF ProbeConnect, Goto, TestInv, TypeOK
<1>6. ~shared[t] => /\ q = NoPeer \/ q.config = cfg[t]
                    /\ V \subseteq {cfg[t]}
                    /\ \A ip \in I : ip \in ExitsOf[cfg[t]]
  BY <1>2, HolderIsOwn DEF TesterOK, OwnOK
<1> HIDE DEF p, q, V, I, n
<1> QED
  BY <1>2, <1>4, <1>5, <1>6, MovesOn

\* A probe that got an answer got it from the process it is connected to.
LEMMA ProbeOkKeeps ==
  ASSUME TestInv, NEW t \in Testers, ProbeOk(t) PROVE TestInv'
<1>1. PICK x \in PeerOf(t), ip \in ExitIPs :
        /\ ip \in ExitsOf[x.config]
        /\ via' = [via EXCEPT ![t] = @ \cup {x.config}]
        /\ ips' = [ips EXCEPT ![t] = @ \cup {ip}]
  BY DEF ProbeOk
<1> DEFINE V == via[t] \cup {x.config}  I == ips[t] \cup {ip}
<1>2. x.config \in Configs
  BY DEF PeerOf, TestInv, TypeOK, XrayType
<1>3. V \in SUBSET Configs /\ I \in SUBSET ExitIPs
  BY <1>2 DEF TestInv, TypeOK
<1>4. via' = [via EXCEPT ![t] = V] /\ ips' = [ips EXCEPT ![t] = I]
  BY <1>1 DEF TestInv, TypeOK
<1>5. ~shared[t] => V \subseteq {cfg[t]} /\ \A i \in I : i \in ExitsOf[cfg[t]]
  BY <1>1, PeerIsOwn DEF TestInv, TesterOK, OwnOK
<1>6. /\ NextProbe(t) /\ UNCHANGED <<cfg, port, xrays, shared>>
      /\ pc[t] \in {"connect", "greet", "request"}
  BY DEF ProbeOk
<1> HIDE DEF V, I
<1> QED
  BY <1>3, <1>4, <1>5, <1>6, ProbeOver

\* The new process belongs to the test that starts it.
LEMMA StartXrayKeeps ==
  ASSUME TestInv, NEW t \in Testers, StartXray(t) PROVE TestInv'
<1> DEFINE new == [owner |-> t, config |-> cfg[t], port |-> port[t], st |-> "starting"]
<1>1. /\ pc[t] = "start" /\ pc' = [pc EXCEPT ![t] = "ready"] /\ xrays' = xrays \cup {new}
      /\ UNCHANGED <<cfg, port, peer, via, ips, left, shared>>
  BY DEF StartXray, Goto
<1>2. new \in XrayType
  BY <1>1 DEF TestInv, TypeOK, TesterOK, IdleOK, XrayType
<1>3. TypeOK'
  BY <1>1, <1>2 DEF TestInv, TypeOK, Points
<1>4. ASSUME NEW u \in Testers PROVE TesterOK(u)'
  BY <1>1 DEF TestInv, TypeOK, TesterOK, IdleOK, LeftOK, SharedOK, OwnOK
<1>5. ASSUME NEW x \in xrays' PROVE XrayOK(x)'
  BY <1>1 DEF TestInv, TypeOK, XrayType, XrayOK
<1> QED
  BY <1>3, <1>4, <1>5 DEF TestInv

\* A test that returns leaves no process behind.
LEMMA ReturnKeeps ==
  ASSUME TestInv, NEW t \in Testers, pc[t] # "idle", Return(t),
         xrays' = {x \in xrays : x.owner # t}
  PROVE  TestInv'
<1>1. /\ pc' = [pc EXCEPT ![t] = "idle"] /\ cfg' = [cfg EXCEPT ![t] = NoConfig]
      /\ peer' = [peer EXCEPT ![t] = NoPeer] /\ via' = [via EXCEPT ![t] = {}]
      /\ ips' = [ips EXCEPT ![t] = {}] /\ left' = [left EXCEPT ![t] = 0]
      /\ shared' = [shared EXCEPT ![t] = FALSE] /\ port' = port
  BY DEF Return, Goto
<1>2. TypeOK'
  BY <1>1, ProbesAssumption DEF TestInv, TypeOK, Points
<1>3. ASSUME NEW u \in Testers PROVE TesterOK(u)'
  <2>1. CASE u = t
    BY <1>1, <2>1 DEF TestInv, TypeOK, TesterOK, IdleOK, LeftOK, SharedOK, OwnOK
  <2>2. CASE u # t
    BY <1>1, <2>2 DEF TestInv, TypeOK, TesterOK, IdleOK, LeftOK, SharedOK, OwnOK
  <2> QED
    BY <2>1, <2>2
<1>4. ASSUME NEW x \in xrays' PROVE XrayOK(x)'
  BY <1>1 DEF TestInv, TypeOK, XrayType, XrayOK
<1> QED
  BY <1>2, <1>3, <1>4 DEF TestInv

\* A test that could not start its process has none to stop.
LEMMA StartFailsKeeps ==
  ASSUME TestInv, NEW t \in Testers, StartFails(t) PROVE TestInv'
<1>1. \A x \in xrays : x.owner # t
  BY DEF StartFails, TestInv, XrayOK
<1>2. xrays' = {x \in xrays : x.owner # t}
  BY <1>1 DEF StartFails
<1> QED
  BY <1>2, ReturnKeeps DEF StartFails

\* The caller begins a test: every test under way on its port is told, and it is told
\* of them.
LEMMA BeginKeeps ==
  ASSUME TestInv, NEW t \in Testers, Begin(t) PROVE TestInv'
<1>1. PICK c \in Configs, p \in PortsOf[t] :
        /\ cfg' = [cfg EXCEPT ![t] = c] /\ port' = [port EXCEPT ![t] = p]
        /\ shared' = [u \in Testers |->
             IF u = t THEN {v \in Testers \ {t} : pc[v] # "idle" /\ port[v] = p} # {}
             ELSE shared[u] \/ u \in {v \in Testers \ {t} : pc[v] # "idle" /\ port[v] = p}]
  BY DEF Begin
<1>2. /\ pc[t] = "idle" /\ pc' = [pc EXCEPT ![t] = "start"]
      /\ left' = [left EXCEPT ![t] = Probes] /\ UNCHANGED <<xrays, peer, via, ips>>
  BY DEF Begin, Goto
<1>3. shared' \in [Testers -> BOOLEAN]
  BY <1>1, Zenon
<1>4. \A u \in Testers \ {t} : pc[u] # "idle" /\ port[u] = p => shared'[u] /\ shared'[t]
  BY <1>1
<1>5. \A u \in Testers \ {t} : shared[u] => shared'[u]
  BY <1>1, Zenon
<1>6. p \in Ports
  BY DEF Ports
<1>7. TypeOK'
  BY <1>1, <1>2, <1>3, <1>6, ProbesAssumption DEF TestInv, TypeOK, Points
<1>8. ASSUME NEW u \in Testers PROVE TesterOK(u)'
  <2>0. IdleOK(u) /\ LeftOK(u) /\ SharedOK(u) /\ OwnOK(u)
    BY DEF TestInv, TesterOK
  <2>1. IdleOK(u)' /\ LeftOK(u)'
    BY <1>1, <1>2, <2>0, ProbesAssumption DEF TestInv, TypeOK, IdleOK, LeftOK
  <2>2. SharedOK(u)'
    BY <1>1, <1>2, <1>4, <1>5, <2>0 DEF TestInv, TypeOK, SharedOK
  <2>3. OwnOK(u)'
    <3>1. CASE u = t
      BY <1>2, <2>0, <3>1 DEF TestInv, TypeOK, IdleOK, OwnOK
    <3>2. CASE u # t
      BY <1>1, <1>2, <1>5, <2>0, <3>2 DEF TestInv, TypeOK, OwnOK
    <3> QED
      BY <3>1, <3>2
  <2> QED
    BY <2>1, <2>2, <2>3 DEF TesterOK
<1>9. ASSUME NEW x \in xrays' PROVE XrayOK(x)'
  BY <1>1, <1>2 DEF TestInv, TypeOK, XrayType, XrayOK
<1> QED
  BY <1>7, <1>8, <1>9 DEF TestInv

\* A step of a test.
LEMMA TestStepKeeps ==
  ASSUME TestInv, NEW t \in Testers, TestStep(t) PROVE TestInv'
<1>1. CASE PortReady(t)
  BY <1>1, GoesTo DEF PortReady, Points, TestInv, TesterOK, LeftOK
<1>2. CASE PortTimeout(t)
  BY <1>2, GoesTo DEF PortTimeout, Points
<1>3. CASE DownloadFails(t)
  BY <1>3, GoesTo DEF DownloadFails, Points
<1>4. CASE Greeted(t)
  BY <1>4, GoesTo DEF Greeted, Points, TestInv, TesterOK, LeftOK
<1>5. CASE ProbeConnectFails(t)
  BY <1>5, ProbeFailed DEF ProbeConnectFails
<1>6. CASE GreetFails(t)
  BY <1>6, ProbeFailed DEF GreetFails
<1>7. CASE ProbeFails(t)
  BY <1>7, ProbeFailed DEF ProbeFails
<1>8. CASE StopXray(t)
  BY <1>8, ReturnKeeps DEF StopXray
<1> QED
  BY <1>1, <1>2, <1>3, <1>4, <1>5, <1>6, <1>7, <1>8, StartXrayKeeps, StartFailsKeeps,
     DownloadOkKeeps, ProbeConnectKeeps, ProbeOkKeeps DEF TestStep

\* A process binds, stalls or exits: whose it is does not change.
LEMMA XrayStepKeeps ==
  ASSUME TestInv, NEW x \in xrays, XrayStep(x) PROVE TestInv'
<1>1. PICK s \in {"listening", "stalled", "exited"} :
        xrays' = (xrays \ {x}) \cup {[x EXCEPT !.st = s]}
  BY DEF XrayStep, XrayBinds, XrayStalls, XrayExits, Becomes
<1>2. UNCHANGED <<pc, cfg, port, peer, via, ips, left, shared>>
  BY DEF XrayStep, XrayBinds, XrayStalls, XrayExits, Becomes
<1> DEFINE y == [x EXCEPT !.st = s]
<1>3. y \in XrayType /\ y.owner = x.owner /\ y.port = x.port /\ y.config = x.config
  BY DEF TestInv, TypeOK, XrayType
<1>4. TypeOK'
  BY <1>1, <1>2, <1>3 DEF TestInv, TypeOK
<1>5. ASSUME NEW u \in Testers PROVE TesterOK(u)'
  BY <1>2 DEF TestInv, TesterOK, IdleOK, LeftOK, SharedOK, OwnOK
<1>6. ASSUME NEW z \in xrays' PROVE XrayOK(z)'
  BY <1>1, <1>2, <1>3 DEF TestInv, XrayOK
<1> QED
  BY <1>4, <1>5, <1>6 DEF TestInv

----------------------------------------------------------------------------
(* The theorems.                                                           *)

\* The invariant holds in every state the testers can reach.
LEMMA TestInvariant == Spec => []TestInv
<1>1. Init => TestInv
  <2> SUFFICES ASSUME Init PROVE TestInv
    OBVIOUS
  <2>1. shared \in [Testers -> BOOLEAN]
    BY Zenon DEF Init
  <2>2. TypeOK
    BY <2>1, ProbesAssumption DEF Init, TypeOK, Points
  <2>3. ASSUME NEW t \in Testers PROVE TesterOK(t)
    BY DEF Init, TesterOK, IdleOK, LeftOK, SharedOK, OwnOK
  <2> QED
    BY <2>2, <2>3 DEF Init, TestInv
<1>2. TestInv /\ [Next]_vars => TestInv'
  <2>1. TestInv /\ UNCHANGED vars => TestInv'
    BY DEF vars, TestInv, TypeOK, TesterOK, IdleOK, LeftOK, SharedOK, OwnOK, XrayOK
  <2> QED
    BY <2>1, BeginKeeps, TestStepKeeps, XrayStepKeeps DEF Next
<1> QED
  BY <1>1, <1>2, PTL DEF Spec

\* Type correctness: in particular no process is ever started for no config, and the
\* number of probes left never leaves 0 .. STABILITY_PROBES (measureStability).
THEOREM TestTypeCorrect == Spec => []TypeOK
<1>1. TestInv => TypeOK
  BY DEF TestInv
<1> QED
  BY <1>1, TestInvariant, PTL

\* However the tests interleave, a test whose port no other used meanwhile measured its
\* own config only, from the download to the last probe (TestSpeedWithStability).
THEOREM MeasuredOwnConfig == Spec => []OwnMeasured
<1>1. TestInv => OwnMeasured
  BY DEF TestInv, TesterOK, OwnOK, OwnMeasured
<1> QED
  BY <1>1, TestInvariant, PTL

\* No process outlives the test that started it, on any path out of a test (the deferred
\* StopXray): the next test on the port does not find it there.
THEOREM NothingLeftBehind == Spec => []NoStrayXray
<1>1. TestInv => NoStrayXray
  BY DEF TestInv, XrayOK, NoStrayXray
<1> QED
  BY <1>1, TestInvariant, PTL

\* A config with one exit IP scores 0 whatever probes failed (stabilityScoreFromIPs),
\* unless the port was shared.
THEOREM SteadyConfigsScoreZero == Spec => []SteadyScoresZero
<1>1. TestInv => SteadyScoresZero
  <2> SUFFICES ASSUME TestInv, NEW t \in Testers, pc[t] = "stop", ~shared[t],
                      Cardinality(ExitsOf[cfg[t]]) = 1
               PROVE  Score(ips[t]) = 0
    BY DEF SteadyScoresZero
  <2>1. cfg[t] \in Configs /\ \A ip \in ips[t] : ip \in ExitsOf[cfg[t]]
    BY DEF TestInv, TesterOK, IdleOK, OwnOK
  <2>2. PICK e : ExitsOf[cfg[t]] = {e}
    BY <2>1, ExitsAssumption, FS_Singleton
  <2>3. ips[t] = {} \/ ips[t] = {e}
    BY <2>1, <2>2
  <2>4. Cardinality({e}) = 1
    BY FS_Singleton
  <2> QED
    BY <2>3, <2>4 DEF Score
<1> QED
  BY <1>1, TestInvariant, PTL
=============================================================================
