------------------------------- MODULE Traffic -------------------------------
(***************************************************************************)
(* The users of the WAN pool: proxied connections (the HTTPS CONNECT       *)
(* handler and the SOCKS5 handler share pick - count - dial - relay) and   *)
(* the keepalive loop, against slots that are filled, drained, reset and   *)
(* refilled under them.  How the slots are managed is the subject of       *)
(* Rotation; here a fill, a drain and the two halves of a reset may happen *)
(* to any slot whose state allows them.                                    *)
(***************************************************************************)
EXTENDS WANPool

CONSTANTS Conns,             \* concurrent client connections
          WanFailThreshold

ASSUME ConnsAssumption == IsFiniteSet(Conns)
ASSUME ThresholdAssumption == WanFailThreshold \in Nat \ {0}

\* A failure counter stops here: it is only ever compared with the thresholds.
MaxFails == IF WanFailThreshold > DefaultFailThreshold THEN WanFailThreshold
            ELSE DefaultFailThreshold

VARIABLES
  cpc, wan,             \* per connection: program point, slot it was given
  scan,                 \* per connection: the locals of GetLeastLoaded
  steady, quiet,        \* per connection: slots in service since its second pass began,
                        \* while it has found none; no slot has changed since the first
  kpc, left, fails,     \* keepalive: program point, slots left in this round,
                        \* failure count it has read
  resetting             \* slots whose process ResetEmpty has stopped

connVars == <<cpc, wan, scan>>
keepVars == <<kpc, left, fails>>
scanHist == <<steady, quiet>>
vars == <<slot, connVars, keepVars, resetting, scanHist>>

ConnPoints == {"idle", "scan", "dial", "relay", "end"}

\* The pass over the slots, the slot it looks at next, the best one so far and its
\* connections.
ScanType == [pass: {1, 2}, next: 0 .. WanCount, best: Slots \cup {-1}, count: Int]
FirstPass == [pass |-> 1, next |-> 0, best |-> -1, count |-> -1]

\* A probe, and the request for the exit IP after a good one, may wait in socks5Dial
\* without a deadline: at "hung" and "resolve" the process has accepted the connection.
\* At "failed" the process that kept a probe waiting is gone.
KeepPoints == {"tick", "probe", "hung", "failed", "read", "mark", "resolve"}

TypeOK ==
  /\ slot \in [Slots -> SlotType]
  /\ cpc \in [Conns -> ConnPoints] /\ wan \in [Conns -> Slots]
  /\ scan \in [Conns -> ScanType]
  /\ steady \in [Conns -> SUBSET Slots] /\ quiet \in [Conns -> BOOLEAN]
  /\ kpc \in KeepPoints /\ left \subseteq Slots /\ fails \in Nat
  /\ kpc # "tick" => left # {}
  /\ resetting \subseteq Slots

Init ==
  /\ NewWANPool
  /\ cpc = [c \in Conns |-> "idle"] /\ wan = [c \in Conns |-> 0]
  /\ scan = [c \in Conns |-> FirstPass]
  /\ steady = [c \in Conns |-> {}] /\ quiet = [c \in Conns |-> TRUE]
  /\ kpc = "tick" /\ left = {} /\ fails = 0
  /\ resetting = {}

----------------------------------------------------------------------------
(* A proxied connection on the WAN route.                                  *)

\* RecordFailure, up to the bound MaxFails.
CountFailure(i) ==
  IF slot[i].fails < MaxFails THEN RecordFailure(i) ELSE UNCHANGED slot

Step(c, p) == cpc' = [cpc EXCEPT ![c] = p]

\* Whether a pass over the slots takes slot i into account.
Eligible(pass, i) == IF pass = 1 THEN Routable(i, WanFailThreshold) ELSE InService(i)

\* A comparison that prefers the last of several slots.
BetterLast(r, i) == r.best = -1 \/ slot[i].conns <= r.count

Better(r, i) == r.best = -1 \/ slot[i].conns < r.count

\* A pass r looks at its next slot, under that slot's lock only.  (The failure counter
\* is read just after the unlock; the step takes them together.)
Look(r) ==
  IF Eligible(r.pass, r.next) /\ Better(r, r.next)
  THEN [r EXCEPT !.next = @ + 1, !.best = r.next, !.count = slot[r.next].conns]
  ELSE [r EXCEPT !.next = @ + 1]

\* handleConnect and handleSocksConn call GetLeastLoaded.
Pick(c) ==
  /\ cpc[c] = "idle"
  /\ scan' = [scan EXCEPT ![c] = Look(FirstPass)]
  /\ Step(c, "scan")
  /\ UNCHANGED <<slot, wan, keepVars, resetting>>

ScanSlot(c) ==
  /\ cpc[c] = "scan" /\ scan[c].next < WanCount
  /\ scan' = [scan EXCEPT ![c] = Look(@)]
  /\ UNCHANGED <<slot, cpc, wan, keepVars, resetting>>

\* A pass has looked at every slot and found none.
FoundNone(c, pass) ==
  /\ cpc[c] = "scan" /\ scan[c].pass = pass
  /\ scan[c].next = WanCount /\ scan[c].best = -1

\* A second pass that looks at no slot.
FallBackSkipped(c) ==
  /\ FoundNone(c, 1)
  /\ scan' = [scan EXCEPT ![c] = [FirstPass EXCEPT !.pass = 2, !.next = WanCount]]
  /\ UNCHANGED <<slot, cpc, wan, keepVars, resetting>>

\* No routable slot: a second pass takes any slot in service.
FallBack(c) ==
  /\ FoundNone(c, 1)
  /\ scan' = [scan EXCEPT ![c] = Look([FirstPass EXCEPT !.pass = 2])]
  /\ UNCHANGED <<slot, cpc, wan, keepVars, resetting>>

\* A handler that does not look for the missing slot.
BeginWANUnchecked(c) ==
  /\ cpc[c] = "scan" /\ scan[c].next = WanCount
  /\ wan' = [wan EXCEPT ![c] = scan[c].best]
  /\ scan' = [scan EXCEPT ![c] = FirstPass]
  /\ IF scan[c].best >= 0 THEN IncConnCount(scan[c].best) ELSE UNCHANGED slot
  /\ Step(c, "dial")
  /\ UNCHANGED <<keepVars, resetting>>

\* The slot is chosen, and counts the connection, whatever became of it meanwhile.
BeginWAN(c) ==
  /\ cpc[c] = "scan" /\ scan[c].next = WanCount /\ scan[c].best >= 0
  /\ wan' = [wan EXCEPT ![c] = scan[c].best]
  /\ scan' = [scan EXCEPT ![c] = FirstPass]
  /\ IncConnCount(scan[c].best)
  /\ Step(c, "dial")
  /\ UNCHANGED <<keepVars, resetting>>

\* No slot in service either: the client gets an error reply.
TurnedAway(c) ==
  /\ FoundNone(c, 2)
  /\ scan' = [scan EXCEPT ![c] = FirstPass]
  /\ Step(c, "idle")
  /\ UNCHANGED <<slot, wan, keepVars, resetting>>

\* The dial reaches whatever process listens on the slot's port by now.
DialOk(c) ==
  /\ cpc[c] = "dial" /\ slot[wan[c]].proc = "up"
  /\ Step(c, "relay")
  /\ UNCHANGED <<slot, wan, scan, keepVars, resetting>>

\* An error path that returns without endWAN.
DialFailsUncounted(c) ==
  /\ cpc[c] = "dial"
  /\ CountFailure(wan[c])
  /\ Step(c, "idle")
  /\ UNCHANGED <<wan, scan, keepVars, resetting>>

DialFails(c) ==
  /\ cpc[c] = "dial"
  /\ CountFailure(wan[c])
  /\ Step(c, "end")
  /\ UNCHANGED <<wan, scan, keepVars, resetting>>

\* Both directions are closed: the slot counts as healthy again.
RelayEnds(c) ==
  /\ cpc[c] = "relay"
  /\ RecordSuccess(wan[c])
  /\ Step(c, "end")
  /\ UNCHANGED <<wan, scan, keepVars, resetting>>

\* The client is gone before the reply is written: no relay takes place.
ReplyFails(c) ==
  /\ cpc[c] = "relay"
  /\ Step(c, "end")
  /\ UNCHANGED <<slot, wan, scan, keepVars, resetting>>

EndWAN(c) ==
  /\ cpc[c] = "end"
  /\ DecConnCount(wan[c])
  /\ wan' = [wan EXCEPT ![c] = 0]   \* the handler returns
  /\ Step(c, "idle")
  /\ UNCHANGED <<scan, keepVars, resetting>>

ConnNext(c) ==
  \/ Pick(c) \/ ScanSlot(c) \/ FallBack(c) \/ BeginWAN(c) \/ TurnedAway(c)
  \/ DialOk(c) \/ DialFails(c) \/ RelayEnds(c) \/ ReplyFails(c) \/ EndWAN(c)

----------------------------------------------------------------------------
(* The keepalive loop: one round probes the slots that were in service     *)
(* when it began, one after the other.                                     *)

Probed == First(left)

\* The round goes on with the next slot, or is over.
NextProbe ==
  /\ left' = left \ {Probed}
  /\ kpc' = IF left = {Probed} THEN "tick" ELSE "probe"

\* A round that leaves out the slots that are draining already.
KeepaliveTickActive ==
  /\ kpc = "tick" /\ SlotsByState({"active"}) # {}
  /\ left' = SlotsByState({"active"})
  /\ kpc' = "probe"
  /\ UNCHANGED <<slot, connVars, fails, resetting>>

KeepaliveTick ==
  /\ kpc = "tick" /\ SlotsByState({"active", "draining"}) # {}
  /\ left' = SlotsByState({"active", "draining"})
  /\ kpc' = "probe"
  /\ UNCHANGED <<slot, connVars, fails, resetting>>

\* The process accepts the connection and does not answer the handshake.
ProbeHangs ==
  /\ kpc = "probe" /\ slot[Probed].proc = "up"
  /\ kpc' = "hung"
  /\ UNCHANGED <<slot, connVars, left, fails, resetting>>

\* A probe that only asks whether the process exists.
ProbeOkBySignal ==
  /\ kpc \in {"probe", "hung"} /\ HealthCheckXray(Probed)
  /\ RecordSuccess(Probed)
  /\ kpc' = "resolve"
  /\ UNCHANGED <<connVars, left, fails, resetting>>

\* A request through the slot's port is answered.  A second one asks for the exit IP.
ProbeOk ==
  /\ kpc \in {"probe", "hung"} /\ slot[Probed].proc = "up"
  /\ RecordSuccess(Probed)
  /\ kpc' = "resolve"
  /\ UNCHANGED <<connVars, left, fails, resetting>>

\* It is not, be it for the process or for its upstream.  The failure is
\* counted, the count is read, and the slot is marked: three steps.
ProbeFails ==
  /\ kpc \in {"probe", "hung", "failed"}
  /\ CountFailure(Probed)
  /\ kpc' = "read"
  /\ UNCHANGED <<connVars, left, fails, resetting>>

\* (A count above the threshold it is compared with is taken for the threshold.)
ReadFails ==
  /\ kpc = "read"
  /\ fails' = IF slot[Probed].fails < WanFailThreshold THEN slot[Probed].fails
              ELSE WanFailThreshold
  /\ kpc' = "mark"
  /\ UNCHANGED <<slot, connVars, left, resetting>>

MarkUnhealthy ==
  /\ kpc = "mark"
  /\ IF fails >= WanFailThreshold THEN MarkDraining(Probed) ELSE UNCHANGED slot
  /\ fails' = 0
  /\ NextProbe
  /\ UNCHANGED <<connVars, resetting>>

\* The outcome of the second request is shown and otherwise ignored.
ResolveEnds ==
  /\ kpc = "resolve"
  /\ NextProbe
  /\ UNCHANGED <<slot, connVars, fails, resetting>>

KeepaliveNext ==
  \/ KeepaliveTick \/ ProbeHangs \/ ProbeOk \/ ProbeFails \/ ReadFails \/ MarkUnhealthy
  \/ ResolveEnds

\* The loop waits for a live process to answer, without a deadline.
KeepaliveHung == kpc \in {"hung", "resolve"}

\* The end of slot i's process cuts the connection the loop may wait on.
CutProbe(i) ==
  /\ CASE kpc = "hung"  /\ Probed = i -> kpc' = "failed" /\ UNCHANGED left
       [] kpc = "resolve" /\ Probed = i -> NextProbe
       [] OTHER -> UNCHANGED <<kpc, left>>
  /\ UNCHANGED fails

----------------------------------------------------------------------------
(* The management of the slots, reduced to what traffic can notice.        *)

Fill(i) ==
  /\ slot[i].state = "empty"
  /\ \E c \in Configs :
       slot' = [slot EXCEPT ![i].state = "active", ![i].config = c,
                            ![i].cmd = c, ![i].proc = "up"]
  /\ UNCHANGED <<connVars, keepVars, resetting>>

Replace(i) ==
  /\ slot[i].state = "active"
  /\ MarkDraining(i)
  /\ UNCHANGED <<connVars, keepVars, resetting>>

ResetStop(i) ==
  /\ InService(i) /\ i \notin resetting
  /\ StopCmd(i)
  /\ resetting' = resetting \cup {i}
  /\ CutProbe(i)
  /\ UNCHANGED connVars

ResetClear(i) ==
  /\ i \in resetting
  /\ Clear(i)
  /\ resetting' = resetting \ {i}
  /\ UNCHANGED <<connVars, keepVars>>

XrayExits(i) ==
  /\ slot[i].proc = "up"
  /\ slot' = [slot EXCEPT ![i].proc = "zombie"]
  /\ CutProbe(i)
  /\ UNCHANGED <<connVars, resetting>>

PoolNext(i) == Fill(i) \/ Replace(i) \/ ResetStop(i) \/ ResetClear(i) \/ XrayExits(i)

\* What happened to the slots during each scan that is under way.
ScanHistory ==
  /\ steady' = [c \in Conns |->
       IF cpc'[c] # "scan" \/ scan'[c].pass = 1 \/ scan'[c].best # -1 THEN {}
       ELSE {i \in IF scan[c].pass = 1 THEN Slots ELSE steady[c] : InService(i)'}]
  /\ quiet' = [c \in Conns |-> cpc'[c] # "scan" \/ (quiet[c] /\ slot' = slot)]

Next ==
  /\ \/ \E c \in Conns : ConnNext(c)
     \/ KeepaliveNext
     \/ \E i \in Slots : PoolNext(i)
  /\ ScanHistory

Spec == Init /\ [][Next]_vars

\* The keepalive ticker fires, and the loop goes on unless it waits for an answer that may
\* never come.  Nothing is assumed of the clients (a
\* relay may last for ever) nor of the management of the slots.
LiveSpec == Spec /\ WF_keepVars(~KeepaliveHung /\ KeepaliveNext)

----------------------------------------------------------------------------
(* Properties.                                                             *)

\* The connections counted on slot i: begun and not yet ended.
InFlight(i) == {c \in Conns : wan[c] = i /\ cpc[c] \in {"dial", "relay", "end"}}

\* A slot's counter never exceeds the connections it carries: every path out of
\* a handler ends what it began, so a slot is never avoided for load that is gone.
NeverOvercounted == \A i \in Slots : slot[i].conns <= Cardinality(InFlight(i))

\* handleReadyz: 200, with the default threshold whatever the configured one is.
Ready == RoutableCount(DefaultFailThreshold) >= 1

\* A client is turned away only when no slot was in service from the beginning to the
\* end of the second pass of its scan, the one that ignores failures, however the slots are
\* drained, reset and refilled while GetLeastLoaded walks over them.
NobodyMissed ==
  \A c \in Conns : FoundNone(c, 2) => steady[c] = {}

\* A scan that nothing interferes with computes GetLeastLoaded: the least loaded routable
\* slot, else the least loaded one in service, the lowest index on a tie and -1 for none.
UndisturbedScan ==
  \A c \in Conns :
    /\ cpc[c] = "scan" /\ quiet[c] /\ scan[c].next = WanCount
    /\ scan[c].best # -1 \/ scan[c].pass = 2
    => scan[c].best = GetLeastLoaded(WanFailThreshold)

\* A slot whose xray process died does not stay active: the keepalive loop counts
\* its failures and drains it, although relays that end after the death reset the
\* counter and although nobody waits for the process; unless a probe of another slot
\* hangs for good.
DeadWanDrained ==
  \A i \in Slots : slot[i].state = "active" /\ slot[i].proc = "zombie"
                    ~> \/ ~(slot[i].state = "active" /\ slot[i].proc = "zombie")
                       \/ []KeepaliveHung

\* /readyz looks at handles and counters, not at processes: when every process is gone
\* the failed probes make it answer 503, also when WAN_FAIL_THRESHOLD drains a slot
\* before its counter has reached the threshold /readyz works with.  Nothing hangs then.
DeadPoolNotReady ==
  (\A i \in Slots : slot[i].proc # "up")
    ~> (\E i \in Slots : slot[i].proc = "up") \/ ~Ready
=============================================================================
