------------------------------ MODULE WANPool ------------------------------
(***************************************************************************)
(* The WAN slot pool of wan.go: WAN_COUNT slots, each with a fixed SOCKS5  *)
(* service port, and the methods every other part of viberoxy uses to move *)
(* a slot through empty -> testing -> active -> draining -> empty.  The    *)
(* module holds the state and the methods; the modules that extend it say  *)
(* who calls them and when.                                                *)
(*                                                                         *)
(* An xray child process is represented by whoever holds its *exec.Cmd.    *)
(* The handle stored in a slot is the pair of fields                       *)
(*    cmd    the config the process was started with (NoConfig: nil Cmd)   *)
(*    proc   "none"    nil Cmd                                             *)
(*           "up"      running                                             *)
(*           "zombie"  exited by itself and not waited for                 *)
(*           "reaped"  stopped and waited for by StopXray                  *)
(* The process a slot refers to always listens on that slot's port.        *)
(***************************************************************************)
EXTENDS Integers, FiniteSets

CONSTANTS WanCount,   \* number of slots (WAN_COUNT)
          Configs,    \* subscription configs; a config stands for its raw URI
          NoConfig,   \* the nil *ProxyConfig
          SchemeOf,   \* URI scheme of a config
          EndpointOf  \* upstream server:port of a config

Schemes == {"ss", "vmess", "vless", "trojan", "socks5", "socks4", "socks",
            "hysteria2", "hy2", "tuic", "wireguard"}

ASSUME WanCountAssumption == WanCount \in Nat \ {0}
ASSUME ConfigAssumption == NoConfig \notin Configs /\ SchemeOf \in [Configs -> Schemes]

Slots == 0 .. WanCount - 1

VARIABLE slot   \* WANPool.Slots

----------------------------------------------------------------------------
(* Configs: what the parser and the xray config builder make of a scheme.  *)

\* A parser that forgets the alias hy2 of hysteria2.
ProtocolNoAlias(s) == IF s \in {"socks", "socks4"} THEN "socks5" ELSE s

\* The protocol ParseSingle records for a URI scheme.
Protocol(s) == CASE s = "hy2" -> "hysteria2"
                 [] s \in {"socks", "socks4"} -> "socks5"
                 [] OTHER -> s

\* The leak guard of parser.go.
IsXraySupported(c) == Protocol(SchemeOf[c]) \notin {"hysteria2", "tuic", "wireguard"}

\* The xray outbound buildOutbound renders; "freedom" is direct egress.
Outbound(p) == CASE p = "ss" -> "shadowsocks"
                 [] p = "socks5" -> "socks"
                 [] p \in {"vmess", "vless", "trojan"} -> p
                 [] OTHER -> "freedom"

----------------------------------------------------------------------------
(* Slots.                                                                  *)

States == {"empty", "testing", "active", "draining"}
Procs  == {"none", "up", "zombie", "reaped"}

\* DrainAt: "no" is the zero time, "expired" one at least a grace period old.
Drains == {"no", "fresh", "expired"}

SlotType == [state: States, config: Configs \cup {NoConfig},
             cmd: Configs \cup {NoConfig}, proc: Procs, drain: Drains,
             conns: Int, fails: Nat, speed: Nat, stability: Nat]

EmptySlot == [state |-> "empty", config |-> NoConfig, cmd |-> NoConfig,
              proc |-> "none", drain |-> "no",
              conns |-> 0, fails |-> 0, speed |-> 0, stability |-> 0]

NewWANPool == slot = [i \in Slots |-> EmptySlot]

\* A running process, told apart by its port and its config.
ProcessType == [port: Slots, config: Configs]

InService(i) == slot[i].state \in {"active", "draining"}

SlotsByState(S) == {i \in Slots : slot[i].state \in S}

ActiveCount == Cardinality(SlotsByState({"active", "draining"}))

\* A dedupe check that forgets draining slots.
HasServerPortActive(c) ==
  \E i \in Slots : /\ slot[i].state = "active"
                   /\ slot[i].config # NoConfig
                   /\ EndpointOf[slot[i].config] = EndpointOf[c]

HasServerPort(c) ==
  \E i \in Slots : /\ InService(i)
                   /\ slot[i].config # NoConfig
                   /\ EndpointOf[slot[i].config] = EndpointOf[c]

First(S) == CHOOSE i \in S : \A j \in S : i <= j

\* The least stable of a set of slots; the lowest index on a tie.
PickReplacementSlot(S) ==
  First({i \in S : \A j \in S : slot[i].stability >= slot[j].stability})

\* An expiry check that forgets the grace period.
DrainingNow == SlotsByState({"draining"})

DrainExpired == {i \in Slots : slot[i].state = "draining" /\ slot[i].drain = "expired"}

\* Signal 0 reaches a zombie: only a process that was waited for fails the check.
HealthCheckXray(i) == slot[i].proc \in {"up", "zombie"}

\* A slot new connections may be sent to.
Routable(i, threshold) ==
  InService(i) /\ slot[i].fails < threshold /\ slot[i].cmd # NoConfig

RoutableSlots(threshold) == {i \in Slots : Routable(i, threshold)}

RoutableCount(threshold) == Cardinality(RoutableSlots(threshold))

DefaultFailThreshold == 2

LeastLoaded(S) == First({i \in S : \A j \in S : slot[i].conns <= slot[j].conns})

\* The least loaded routable slot, else the least loaded slot in service.
GetLeastLoaded(threshold) ==
  CASE RoutableSlots(threshold) # {} -> LeastLoaded(RoutableSlots(threshold))
    [] RoutableSlots(threshold) = {} /\ ActiveCount > 0 ->
         LeastLoaded(SlotsByState({"active", "draining"}))
    [] OTHER -> -1

----------------------------------------------------------------------------
(* State changes.  A method whose guard fails returns an error and leaves  *)
(* the slot alone.                                                         *)

CanStartTesting(i) == slot[i].state = "empty"

StartTesting(i, c) ==
  slot' = IF CanStartTesting(i)
          THEN [slot EXCEPT ![i].state = "testing", ![i].config = c]
          ELSE slot

CanSetActive(i) == slot[i].state = "testing"

\* SetActive without its state check.
SetActiveUnchecked(i, c) ==
  slot' = [slot EXCEPT ![i].state = "active", ![i].cmd = c, ![i].proc = "up"]

SetActive(i, c) ==
  slot' = IF CanSetActive(i)
          THEN [slot EXCEPT ![i].state = "active", ![i].cmd = c, ![i].proc = "up"]
          ELSE slot

SetMeasured(i, speed, stability) ==
  slot' = [slot EXCEPT ![i].speed = speed, ![i].stability = stability]

MarkDraining(i) ==
  slot' = IF slot[i].state = "active"
          THEN [slot EXCEPT ![i].state = "draining", ![i].drain = "fresh"]
          ELSE slot

\* A reset that does not stop the process.
StopCmdSkipped(i) == slot' = slot

\* ResetEmpty, first half: read the handle under the lock, then StopXray.
\* StopXray takes up to five seconds without the lock; the process is gone
\* when it returns.
StopCmd(i) == slot' = [slot EXCEPT ![i].proc = IF @ = "none" THEN "none" ELSE "reaped"]

\* ResetEmpty, second half: clear the slot, whatever it holds by now.
Clear(i) == slot' = [slot EXCEPT ![i] = EmptySlot]

\* The process a Clear of slot i would leave running without a handle.
Forgotten(i) ==
  IF slot[i].proc = "up" THEN {[port |-> i, config |-> slot[i].cmd]} ELSE {}

IncConnCount(i) == slot' = [slot EXCEPT ![i].conns = @ + 1]

DecConnCount(i) == slot' = [slot EXCEPT ![i].conns = @ - 1]

RecordFailure(i) == slot' = [slot EXCEPT ![i].fails = @ + 1]

RecordSuccess(i) == slot' = [slot EXCEPT ![i].fails = 0]

----------------------------------------------------------------------------

\* The fields of a slot agree with its state at every step of every race
\* between ResetEmpty, StartTesting, SetActive and MarkDraining.
SlotShape ==
  \A i \in Slots : LET s == slot[i] IN
     /\ s.state = "empty" <=> s.config = NoConfig
     /\ InService(i) <=> s.cmd # NoConfig
     /\ s.cmd = NoConfig <=> s.proc = "none"
     /\ s.state = "draining" <=> s.drain # "no"
=============================================================================
