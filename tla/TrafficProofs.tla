---------------------------- MODULE TrafficProofs ----------------------------
(***************************************************************************)
(* The connection counters and the walk of GetLeastLoaded in Traffic, for  *)
(* every number of slots, threshold and finite set of connections.         *)
(***************************************************************************)
EXTENDS Traffic, WANPoolProofs, FiniteSetTheorems

----------------------------------------------------------------------------
(* Type correctness.                                                       *)

LEMMA CountFailureType ==
  ASSUME slot \in [Slots -> SlotType], NEW i \in Slots, CountFailure(i)
  PROVE  /\ slot' \in [Slots -> SlotType]
         /\ \A j \in Slots : slot'[j].conns = slot[j].conns
BY DEF CountFailure, RecordFailure, SlotType

LEMMA RecordSuccessType ==
  ASSUME slot \in [Slots -> SlotType], NEW i \in Slots, RecordSuccess(i)
  PROVE  /\ slot' \in [Slots -> SlotType]
         /\ \A j \in Slots : slot'[j].conns = slot[j].conns
BY DEF RecordSuccess, SlotType

LEMMA MarkDrainingType ==
  ASSUME slot \in [Slots -> SlotType], NEW i \in Slots, MarkDraining(i)
  PROVE  /\ slot' \in [Slots -> SlotType]
         /\ \A j \in Slots : slot'[j].conns = slot[j].conns
<1>1. slot' \in [Slots -> SlotType]
  <2>1. CASE slot[i].state = "active"
    <3> DEFINE new == [slot[i] EXCEPT !.state = "draining", !.drain = "fresh"]
    <3>1. new \in SlotType
      BY DEF SlotType, States, Drains
    <3>2. slot' = [slot EXCEPT ![i] = new]
      BY <2>1 DEF MarkDraining
    <3> QED
      BY <3>1, <3>2
  <2>2. CASE slot[i].state # "active"
    BY <2>2 DEF MarkDraining
  <2> QED
    BY <2>1, <2>2
<1>2. \A j \in Slots : slot'[j].conns = slot[j].conns
  BY DEF MarkDraining, SlotType
<1> QED
  BY <1>1, <1>2

\* The slot a keepalive round has reached.
LEMMA ProbedInSlots ==
  ASSUME TypeOK, kpc # "tick" PROVE Probed \in Slots
<1>1. left \subseteq Slots /\ left # {} /\ left \subseteq Nat
  BY WanCountAssumption DEF TypeOK, Slots
<1> QED
  BY <1>1, FirstIsLeast DEF Probed

\* What the slots look like after a step of the pool's management: only a
\* Clear changes a counter, to zero.
LEMMA PoolSlots ==
  ASSUME TypeOK, NEW i \in Slots, PoolNext(i)
  PROVE  /\ slot' \in [Slots -> SlotType]
         /\ \A j \in Slots : slot'[j].conns \in {slot[j].conns, 0}
<1>0. slot \in [Slots -> SlotType]
  BY DEF TypeOK
<1>1. CASE Fill(i)
  <2>1. PICK x \in Configs : slot' = [slot EXCEPT ![i].state = "active", ![i].config = x,
                                                   ![i].cmd = x, ![i].proc = "up"]
    BY <1>1 DEF Fill
  <2>2. slot' \in [Slots -> SlotType]
    <3> DEFINE new == [slot[i] EXCEPT !.state = "active", !.config = x, !.cmd = x,
                                      !.proc = "up"]
    <3>1. new \in SlotType
      BY <1>0 DEF SlotType, States, Procs
    <3>2. slot' = [slot EXCEPT ![i] = new]
      BY <2>1
    <3> QED
      BY <1>0, <3>1, <3>2
  <2>3. \A j \in Slots : slot'[j].conns = slot[j].conns
    BY <1>0, <2>1 DEF SlotType
  <2> QED
    BY <2>2, <2>3
<1>2. CASE Replace(i)
  BY <1>0, <1>2, MarkDrainingType DEF Replace
<1>3. CASE ResetStop(i)
  BY <1>0, <1>3 DEF ResetStop, StopCmd, SlotType, Procs
<1>4. CASE ResetClear(i)
  BY <1>0, <1>4, ConfigAssumption DEF ResetClear, Clear, EmptySlot, SlotType, States, Procs, Drains
<1>5. CASE XrayExits(i)
  BY <1>0, <1>5 DEF XrayExits, SlotType, Procs
<1> QED
  BY <1>1, <1>2, <1>3, <1>4, <1>5 DEF PoolNext

\* A pass that looks at a slot goes on with the next one.
LEMMA LookAtSlot ==
  ASSUME slot \in [Slots -> SlotType], NEW r \in ScanType, r.next < WanCount
  PROVE  /\ Look(r) \in ScanType
         /\ Look(r).next = r.next + 1 /\ Look(r).pass = r.pass
         /\ Look(r).best = -1 => r.best = -1 /\ ~Eligible(r.pass, r.next)
<1>1. /\ r.pass \in {1, 2} /\ r.next \in Slots /\ r.next + 1 \in 0 .. WanCount
      /\ r.best \in Slots \cup {-1} /\ r.count \in Int
  BY WanCountAssumption DEF ScanType, Slots
<1>2. slot[r.next].conns \in Int /\ r.next # -1
  <2>1. slot[r.next] \in SlotType
    BY <1>1
  <2>2. r.next \in Nat
    BY <1>1 DEF Slots
  <2> QED
    BY <2>1, <2>2 DEF SlotType
<1>3. CASE Eligible(r.pass, r.next) /\ Better(r, r.next)
  <2>1. Look(r) = [r EXCEPT !.next = @ + 1, !.best = r.next, !.count = slot[r.next].conns]
    BY <1>3 DEF Look
  <2> QED
    BY <1>1, <1>2, <2>1 DEF ScanType
<1>4. CASE ~(Eligible(r.pass, r.next) /\ Better(r, r.next))
  <2>1. Look(r) = [r EXCEPT !.next = @ + 1]
    BY <1>4 DEF Look
  <2>2. r.best = -1 => ~Eligible(r.pass, r.next)
    BY <1>4 DEF Better
  <2> QED
    BY <1>1, <2>1, <2>2 DEF ScanType
<1> QED
  BY <1>3, <1>4

\* The two passes start at the first slot.
LEMMA PassesStart ==
  /\ FirstPass \in ScanType /\ FirstPass.next = 0 /\ FirstPass.next < WanCount
  /\ FirstPass.pass = 1 /\ FirstPass.best = -1
  /\ [FirstPass EXCEPT !.pass = 2] \in ScanType
  /\ [FirstPass EXCEPT !.pass = 2].next = 0
  /\ [FirstPass EXCEPT !.pass = 2].pass = 2
BY WanCountAssumption DEF FirstPass, ScanType, Slots

HistoryType == steady \in [Conns -> SUBSET Slots] /\ quiet \in [Conns -> BOOLEAN]

LEMMA ScanHistoryType == TypeOK /\ ScanHistory => HistoryType'
<1> SUFFICES ASSUME TypeOK, ScanHistory PROVE HistoryType'
  OBVIOUS
<1>1. \A c \in Conns : steady[c] \in SUBSET Slots
  BY DEF TypeOK
<1>2. steady' \in [Conns -> SUBSET Slots]
  BY <1>1 DEF ScanHistory
<1>3. quiet' \in [Conns -> BOOLEAN]
  BY DEF ScanHistory
<1> QED
  BY <1>2, <1>3 DEF HistoryType

LEMMA InitCounts == Init => TypeOK /\ NeverOvercounted
<1> SUFFICES ASSUME Init PROVE TypeOK /\ NeverOvercounted
  OBVIOUS
<1>1. slot \in [Slots -> SlotType]
  BY NewWANPoolOK DEF Init, PoolOK
<1>2. 0 \in Slots
  BY WanCountAssumption DEF Slots
<1>3. TypeOK
  BY <1>1, <1>2, PassesStart DEF Init, TypeOK, ConnPoints, KeepPoints
<1>4. \A i \in Slots : InFlight(i) = {} /\ slot[i].conns = 0
  BY DEF Init, InFlight, NewWANPool, EmptySlot
<1>5. NeverOvercounted
  BY <1>4, FS_EmptySet DEF NeverOvercounted
<1> QED
  BY <1>3, <1>5

\* The connections on a slot are finitely many.
LEMMA InFlightFinite ==
  ASSUME NEW i PROVE IsFiniteSet(InFlight(i)) /\ Cardinality(InFlight(i)) \in Nat
<1>1. InFlight(i) \subseteq Conns
  BY DEF InFlight
<1> QED
  BY <1>1, ConnsAssumption, FS_Subset, FS_CardinalityType

\* A step that begins and ends no connection keeps the property when it only
\* leaves a counter alone or sets it to zero.
LEMMA CountsFrame ==
  ASSUME TypeOK, NeverOvercounted,
         \A i \in Slots : InFlight(i)' = InFlight(i),
         \A i \in Slots : slot'[i].conns \in {slot[i].conns, 0}
  PROVE  NeverOvercounted'
<1> SUFFICES ASSUME NEW i \in Slots PROVE slot'[i].conns <= Cardinality(InFlight(i)')
  BY DEF NeverOvercounted
<1>1. slot[i].conns <= Cardinality(InFlight(i)) /\ InFlight(i)' = InFlight(i)
  BY DEF NeverOvercounted
<1>2. Cardinality(InFlight(i)) \in Nat
  BY InFlightFinite
<1>3. slot'[i].conns = slot[i].conns \/ slot'[i].conns = 0
  OBVIOUS
<1> QED
  BY <1>1, <1>2, <1>3

\* A connection keeps the counters right: it counts itself exactly once.
LEMMA ConnCounts ==
  ASSUME TypeOK, NeverOvercounted, NEW c \in Conns, ConnNext(c), HistoryType'
  PROVE  TypeOK' /\ NeverOvercounted'
<1>0. /\ slot \in [Slots -> SlotType] /\ cpc \in [Conns -> ConnPoints]
      /\ wan \in [Conns -> Slots] /\ wan[c] \in Slots
      /\ scan \in [Conns -> ScanType] /\ scan[c] \in ScanType
  BY DEF TypeOK
<1>1. CASE Pick(c) \/ ScanSlot(c) \/ FallBack(c) \/ TurnedAway(c)
  <2>1. scan' \in [Conns -> ScanType]
    <3>1. CASE Pick(c)
      BY <1>0, <3>1, LookAtSlot, PassesStart DEF Pick
    <3>2. CASE ScanSlot(c)
      BY <1>0, <3>2, LookAtSlot DEF ScanSlot
    <3>3. CASE FallBack(c)
      <4>1. Look([FirstPass EXCEPT !.pass = 2]) \in ScanType
        BY <1>0, LookAtSlot, PassesStart
      <4> QED
        BY <1>0, <3>3, <4>1 DEF FallBack
    <3>4. CASE TurnedAway(c)
      BY <1>0, <3>4, PassesStart DEF TurnedAway
    <3> QED
      BY <1>1, <3>1, <3>2, <3>3, <3>4
  <2>2. slot' = slot /\ wan' = wan /\ keepVars' = keepVars /\ resetting' = resetting
    BY <1>1 DEF Pick, ScanSlot, FallBack, TurnedAway
  <2>3. cpc' \in [Conns -> ConnPoints]
    BY <1>0, <1>1 DEF Pick, ScanSlot, FallBack, TurnedAway, Step, ConnPoints
  <2>4. TypeOK'
    BY <2>1, <2>2, <2>3 DEF TypeOK, HistoryType, keepVars
  <2>5. \A i \in Slots : InFlight(i)' = InFlight(i)
    BY <1>0, <1>1, <2>2 DEF Pick, ScanSlot, FallBack, FoundNone, TurnedAway, Step, InFlight
  <2> QED
    BY <2>2, <2>4, <2>5, CountsFrame
<1>2. CASE BeginWAN(c)
  <2> DEFINE w == scan[c].best
  <2>0. w \in Slots /\ wan' = [wan EXCEPT ![c] = w] /\ cpc[c] = "scan"
    <3>1. w \in Slots \cup {-1} /\ w >= 0
      BY <1>0, <1>2 DEF BeginWAN, ScanType
    <3> QED
      BY <1>2, <3>1 DEF BeginWAN
  <2>1. /\ slot' \in [Slots -> SlotType]
        /\ \A i \in Slots : slot'[i].conns = IF i = w THEN slot[i].conns + 1 ELSE slot[i].conns
    <3>1. slot' = [slot EXCEPT ![w].conns = @ + 1]
      BY <1>2 DEF BeginWAN, IncConnCount
    <3> HIDE DEF w
    <3> QED
      BY <1>0, <2>0, <3>1 DEF SlotType
  <2>2. TypeOK'
    <3>1. scan' \in [Conns -> ScanType] /\ wan' \in [Conns -> Slots]
      BY <1>0, <1>2, <2>0, PassesStart DEF BeginWAN
    <3> QED
      BY <1>2, <2>1, <3>1 DEF BeginWAN, Step, TypeOK, HistoryType, ConnPoints, keepVars
  <2>3. \A i \in Slots : InFlight(i)' = IF i = w THEN InFlight(i) \cup {c} ELSE InFlight(i)
    <3>1. cpc' = [cpc EXCEPT ![c] = "dial"]
      BY <1>2 DEF BeginWAN, Step
    <3> QED
      BY <1>0, <2>0, <3>1 DEF InFlight
  <2>4. c \notin InFlight(w)
    BY <2>0 DEF InFlight
  <2>5. Cardinality(InFlight(w) \cup {c}) = Cardinality(InFlight(w)) + 1
    BY <2>4, InFlightFinite, FS_AddElement
  <2>6. ASSUME NEW i \in Slots PROVE slot'[i].conns <= Cardinality(InFlight(i)')
    <3>1. slot[i].conns \in Int /\ slot[i].conns <= Cardinality(InFlight(i))
      BY <1>0 DEF NeverOvercounted, SlotType
    <3>2. Cardinality(InFlight(i)) \in Nat
      BY InFlightFinite
    <3>3. CASE i = w
      <4>1. slot'[i].conns = slot[i].conns + 1
        BY <2>1, <3>3
      <4>2. Cardinality(InFlight(i)') = Cardinality(InFlight(i)) + 1
        BY <2>3, <2>5, <3>3
      <4> QED
        BY <3>1, <3>2, <4>1, <4>2
    <3>4. CASE i # w
      <4>1. slot'[i].conns = slot[i].conns /\ InFlight(i)' = InFlight(i)
        BY <2>1, <2>3, <3>4
      <4> QED
        BY <3>1, <4>1
    <3> QED
      BY <3>3, <3>4
  <2> QED
    BY <2>2, <2>6 DEF NeverOvercounted
<1>3. CASE DialOk(c) \/ ReplyFails(c)
  <2>1. TypeOK'
    BY <1>3 DEF DialOk, ReplyFails, Step, TypeOK, HistoryType, ConnPoints, keepVars
  <2>2. \A i \in Slots : InFlight(i)' = InFlight(i)
    BY <1>0, <1>3 DEF DialOk, ReplyFails, Step, InFlight
  <2>3. slot' = slot
    BY <1>3 DEF DialOk, ReplyFails
  <2> QED
    BY <2>1, <2>2, <2>3, CountsFrame
<1>4. CASE DialFails(c) \/ RelayEnds(c)
  <2>1. /\ slot' \in [Slots -> SlotType]
        /\ \A i \in Slots : slot'[i].conns = slot[i].conns
    BY <1>0, <1>4, CountFailureType, RecordSuccessType DEF DialFails, RelayEnds
  <2>2. TypeOK'
    BY <1>4, <2>1 DEF DialFails, RelayEnds, Step, TypeOK, HistoryType, ConnPoints, keepVars
  <2>3. \A i \in Slots : InFlight(i)' = InFlight(i)
    BY <1>0, <1>4 DEF DialFails, RelayEnds, Step, InFlight
  <2> QED
    BY <2>1, <2>2, <2>3, CountsFrame
<1>5. CASE EndWAN(c)
  <2>1. /\ slot' \in [Slots -> SlotType]
        /\ \A i \in Slots : slot'[i].conns = IF i = wan[c] THEN slot[i].conns - 1
                                           ELSE slot[i].conns
    BY <1>0, <1>5 DEF EndWAN, DecConnCount, SlotType
  <2>2. TypeOK'
    BY <1>5, <2>1, WanCountAssumption DEF EndWAN, Step, TypeOK, HistoryType, ConnPoints, keepVars, Slots
  <2>3. \A i \in Slots : InFlight(i)' = IF i = wan[c] THEN InFlight(i) \ {c} ELSE InFlight(i)
    BY <1>0, <1>5 DEF EndWAN, Step, InFlight
  <2>4. c \in InFlight(wan[c])
    BY <1>5 DEF EndWAN, InFlight
  <2>5. Cardinality(InFlight(wan[c]) \ {c}) = Cardinality(InFlight(wan[c])) - 1
    BY <2>4, InFlightFinite, FS_RemoveElement
  <2>6. ASSUME NEW i \in Slots PROVE slot'[i].conns <= Cardinality(InFlight(i)')
    <3>1. slot[i].conns \in Int /\ slot[i].conns <= Cardinality(InFlight(i))
      BY <1>0 DEF NeverOvercounted, SlotType
    <3>2. Cardinality(InFlight(i)) \in Nat
      BY InFlightFinite
    <3>3. CASE i = wan[c]
      <4>1. slot'[i].conns = slot[i].conns - 1
        BY <2>1, <3>3
      <4>2. Cardinality(InFlight(i)') = Cardinality(InFlight(i)) - 1
        BY <2>3, <2>5, <3>3
      <4> QED
        BY <3>1, <3>2, <4>1, <4>2
    <3>4. CASE i # wan[c]
      <4>1. slot'[i].conns = slot[i].conns /\ InFlight(i)' = InFlight(i)
        BY <2>1, <2>3, <3>4
      <4> QED
        BY <3>1, <4>1
    <3> QED
      BY <3>3, <3>4
  <2> QED
    BY <2>2, <2>6 DEF NeverOvercounted
<1> QED
  BY <1>1, <1>2, <1>3, <1>4, <1>5 DEF ConnNext

\* The part of the type invariant about the keepalive loop.
KeepTypes ==
  kpc \in KeepPoints /\ left \subseteq Slots /\ fails \in Nat /\ (kpc # "tick" => left # {})

\* The loop goes on to a slot that is left, if there is one.
LEMMA NextProbeTypes ==
  ASSUME left \subseteq Slots, left # {}, NextProbe
  PROVE  kpc' \in KeepPoints /\ left' \subseteq Slots /\ (kpc' # "tick" => left' # {})
<1>1. left \ {Probed} = {} => left = {Probed}
  OBVIOUS
<1> QED
  BY <1>1 DEF NextProbe, KeepPoints

\* The end of a process leaves the loop at the failure or after the probe it cuts off.
LEMMA CutProbeTypes ==
  ASSUME TypeOK, NEW i \in Slots, CutProbe(i) PROVE KeepTypes'
<1>1. fails' = fails /\ KeepTypes
  BY DEF CutProbe, TypeOK, KeepTypes
<1>2. CASE kpc = "hung" /\ Probed = i
  BY <1>1, <1>2 DEF CutProbe, KeepTypes, KeepPoints
<1>3. CASE kpc = "resolve" /\ Probed = i
  <2>1. NextProbe
    BY <1>3 DEF CutProbe
  <2>2. left \subseteq Slots /\ left # {}
    BY <1>1, <1>3 DEF KeepTypes
  <2> QED
    BY <1>1, <2>1, <2>2, NextProbeTypes DEF KeepTypes
<1>4. CASE ~(kpc = "hung" /\ Probed = i) /\ ~(kpc = "resolve" /\ Probed = i)
  BY <1>1, <1>4 DEF CutProbe, KeepTypes
<1> QED
  BY <1>2, <1>3, <1>4

\* The keepalive loop and the management of the slots count no connections.
LEMMA OtherCounts ==
  ASSUME TypeOK, NeverOvercounted, HistoryType',
         KeepaliveNext \/ \E i \in Slots : PoolNext(i)
  PROVE  TypeOK' /\ NeverOvercounted'
<1>1. UNCHANGED connVars
  BY DEF KeepaliveNext, KeepaliveTick, ProbeHangs, ProbeOk, ProbeFails, ReadFails,
     MarkUnhealthy, ResolveEnds, PoolNext, Fill, Replace, ResetStop, ResetClear, XrayExits
<1>2. \A i \in Slots : InFlight(i)' = InFlight(i)
  BY <1>1 DEF connVars, InFlight
<1>3. CASE \E i \in Slots : PoolNext(i)
  <2>1. /\ slot' \in [Slots -> SlotType]
        /\ \A j \in Slots : slot'[j].conns \in {slot[j].conns, 0}
    BY <1>3, PoolSlots
  <2>2. KeepTypes'
    <3>1. UNCHANGED keepVars \/ \E i \in Slots : CutProbe(i)
      BY <1>3 DEF PoolNext, Fill, Replace, ResetStop, ResetClear, XrayExits
    <3>2. CASE UNCHANGED keepVars
      BY <3>2 DEF TypeOK, KeepTypes, keepVars
    <3> QED
      BY <3>1, <3>2, CutProbeTypes
  <2>3. resetting' \subseteq Slots
    BY <1>3 DEF PoolNext, Fill, Replace, ResetStop, ResetClear, XrayExits, TypeOK
  <2>4. TypeOK'
    BY <1>1, <2>1, <2>2, <2>3 DEF TypeOK, HistoryType, KeepTypes, connVars
  <2> QED
    BY <1>2, <2>1, <2>4, CountsFrame
<1>4. CASE KeepaliveNext
  <2>1. kpc # "tick" => Probed \in Slots
    BY ProbedInSlots
  <2>2. slot \in [Slots -> SlotType]
    BY DEF TypeOK
  <2>3. /\ slot' \in [Slots -> SlotType]
        /\ \A j \in Slots : slot'[j].conns = slot[j].conns
    <3>1. CASE KeepaliveTick \/ ProbeHangs \/ ReadFails \/ ResolveEnds
      BY <2>2, <3>1 DEF KeepaliveTick, ProbeHangs, ReadFails, ResolveEnds
    <3>2. CASE ProbeOk
      BY <2>1, <2>2, <3>2, RecordSuccessType DEF ProbeOk
    <3>3. CASE ProbeFails
      BY <2>1, <2>2, <3>3, CountFailureType DEF ProbeFails
    <3>4. CASE MarkUnhealthy
      BY <2>1, <2>2, <3>4, MarkDrainingType DEF MarkUnhealthy
    <3> QED
      BY <1>4, <3>1, <3>2, <3>3, <3>4 DEF KeepaliveNext
  <2>4. kpc' \in KeepPoints /\ left' \subseteq Slots /\ (kpc' # "tick" => left' # {})
    <3>1. CASE KeepaliveTick
      BY <3>1 DEF KeepaliveTick, SlotsByState, KeepPoints
    <3>2. CASE ProbeHangs \/ ProbeOk \/ ProbeFails \/ ReadFails
      BY <3>2 DEF ProbeHangs, ProbeOk, ProbeFails, ReadFails, TypeOK, KeepPoints
    <3>3. CASE MarkUnhealthy \/ ResolveEnds
      <4>1. left \subseteq Slots /\ left # {} /\ NextProbe
        BY <3>3 DEF MarkUnhealthy, ResolveEnds, TypeOK
      <4> QED
        BY <4>1, NextProbeTypes
    <3> QED
      BY <1>4, <3>1, <3>2, <3>3 DEF KeepaliveNext
  <2>5. fails' \in Nat
    <3>1. CASE ReadFails
      <4>1. fails' \in {slot[Probed].fails, WanFailThreshold}
        BY <3>1 DEF ReadFails
      <4> QED
        BY <2>1, <2>2, <4>1, <3>1, ThresholdAssumption DEF ReadFails, TypeOK, SlotType
    <3>2. CASE ~ReadFails
      BY <1>4, <3>2 DEF KeepaliveNext, KeepaliveTick, ProbeHangs, ProbeOk, ProbeFails,
         MarkUnhealthy, ResolveEnds, TypeOK
    <3> QED
      BY <3>1, <3>2
  <2>6. resetting' = resetting
    BY <1>4 DEF KeepaliveNext, KeepaliveTick, ProbeHangs, ProbeOk, ProbeFails, ReadFails,
       MarkUnhealthy, ResolveEnds
  <2>7. TypeOK'
    BY <1>1, <2>3, <2>4, <2>5, <2>6 DEF TypeOK, HistoryType, connVars
  <2> QED
    BY <1>2, <2>3, <2>7, CountsFrame
<1> QED
  BY <1>3, <1>4

LEMMA NextCounts == TypeOK /\ NeverOvercounted /\ [Next]_vars => TypeOK' /\ NeverOvercounted'
<1>1. ASSUME TypeOK, NeverOvercounted, UNCHANGED vars PROVE TypeOK' /\ NeverOvercounted'
  <2>1. TypeOK'
    BY <1>1 DEF vars, TypeOK, connVars, keepVars, scanHist
  <2>2. slot' = slot /\ \A i \in Slots : InFlight(i)' = InFlight(i)
    BY <1>1 DEF vars, connVars, InFlight
  <2> QED
    BY <1>1, <2>1, <2>2, CountsFrame
<1>2. ASSUME TypeOK, NeverOvercounted, Next PROVE TypeOK' /\ NeverOvercounted'
  BY <1>2, ScanHistoryType, ConnCounts, OtherCounts DEF Next
<1> QED
  BY <1>1, <1>2

\* No slot's counter exceeds the connections it carries, for every number of
\* connections and slots and in every interleaving with resets and refills.
THEOREM CountsNeverExceed == Spec => []NeverOvercounted
BY InitCounts, NextCounts, PTL DEF Spec

\* Type correctness of the traffic: a scan never hands a connection an index that is
\* not a slot, although counters may be negative and slots change under it.
THEOREM TrafficTypeCorrect == Spec => []TypeOK
BY InitCounts, NextCounts, PTL DEF Spec

----------------------------------------------------------------------------
(* The scan of GetLeastLoaded against slots that change under it.          *)

\* A slot that has been in service since the second pass began still is, and that pass
\* has no such slot behind it as long as it has found none.
ScanOK ==
  \A c \in Conns : cpc[c] = "scan" =>
     /\ \A i \in steady[c] : InService(i)
     /\ scan[c].pass = 2 /\ scan[c].best = -1 => \A i \in steady[c] : i >= scan[c].next

LEMMA ScanOKServes == TypeOK /\ ScanOK => NobodyMissed
<1> SUFFICES ASSUME TypeOK, ScanOK, NEW c \in Conns, FoundNone(c, 2) PROVE steady[c] = {}
  BY DEF NobodyMissed
<1>1. \A i \in steady[c] : i >= WanCount /\ i \in 0 .. WanCount - 1
  BY DEF ScanOK, FoundNone, TypeOK, Slots
<1> QED
  BY <1>1, WanCountAssumption

\* A connection that is not scanning, or whose scan does not move, keeps its part.
LEMMA ScanFrame ==
  ASSUME TypeOK, ScanOK, ScanHistory, NEW d \in Conns, cpc'[d] = "scan", cpc[d] = "scan",
         scan'[d] = scan[d]
  PROVE  /\ \A i \in steady'[d] : InService(i)'
         /\ scan'[d].pass = 2 /\ scan'[d].best = -1 => \A i \in steady'[d] : i >= scan'[d].next
<1>1. \A i \in steady'[d] : i \in steady[d] /\ InService(i)'
  BY DEF ScanHistory, TypeOK
<1> QED
  BY <1>1 DEF ScanOK

\* A step after which connection d scans has left its scan alone or is one of its own.
LEMMA ScanSteps ==
  ASSUME TypeOK, Next, NEW d \in Conns, cpc'[d] = "scan"
  PROVE  \/ cpc[d] = "scan" /\ scan'[d] = scan[d]
         \/ Pick(d) \/ ScanSlot(d) \/ FallBack(d)
<1>0. scan \in [Conns -> ScanType] /\ cpc \in [Conns -> ConnPoints]
  BY DEF TypeOK
<1>1. CASE UNCHANGED connVars
  BY <1>1 DEF connVars
<1>2. CASE \E c \in Conns : ConnNext(c)
  <2>1. PICK c \in Conns : ConnNext(c)
    BY <1>2
  <2>2. CASE c = d
    <3>1. BeginWAN(d) \/ TurnedAway(d) \/ DialOk(d) \/ DialFails(d) \/ RelayEnds(d)
            \/ ReplyFails(d) \/ EndWAN(d) => cpc'[d] # "scan"
      BY <1>0 DEF BeginWAN, TurnedAway, DialOk, DialFails, RelayEnds, ReplyFails,
         EndWAN, Step
    <3> QED
      BY <2>1, <2>2, <3>1 DEF ConnNext
  <2>3. CASE c # d
    <3>1. cpc'[d] = cpc[d] /\ scan'[d] = scan[d]
      BY <1>0, <2>1, <2>3 DEF ConnNext, Pick, ScanSlot, FallBack, BeginWAN, TurnedAway,
         DialOk, DialFails, RelayEnds, ReplyFails, EndWAN, Step
    <3> QED
      BY <3>1
  <2> QED
    BY <2>2, <2>3
<1>3. KeepaliveNext \/ (\E i \in Slots : PoolNext(i)) => UNCHANGED connVars
  BY DEF KeepaliveNext, KeepaliveTick, ProbeHangs, ProbeOk, ProbeFails, ReadFails,
     MarkUnhealthy, ResolveEnds, PoolNext, Fill, Replace, ResetStop, ResetClear, XrayExits
<1> QED
  BY <1>1, <1>2, <1>3 DEF Next

LEMMA NextScan == TypeOK /\ ScanOK /\ [Next]_vars => ScanOK'
<1>1. ASSUME TypeOK, ScanOK, UNCHANGED vars PROVE ScanOK'
  BY <1>1 DEF vars, connVars, scanHist, ScanOK, InService
<1>2. ASSUME TypeOK, ScanOK, Next PROVE ScanOK'
  <2> SUFFICES ASSUME NEW d \in Conns, cpc'[d] = "scan"
               PROVE  /\ \A i \in steady'[d] : InService(i)'
                      /\ scan'[d].pass = 2 /\ scan'[d].best = -1
                           => \A i \in steady'[d] : i >= scan'[d].next
    BY DEF ScanOK
  <2>0. /\ ScanHistory /\ slot \in [Slots -> SlotType] /\ scan \in [Conns -> ScanType]
        /\ cpc \in [Conns -> ConnPoints] /\ scan[d] \in ScanType
    BY <1>2 DEF Next, TypeOK
  <2>1. CASE cpc[d] = "scan" /\ scan'[d] = scan[d]
    BY <1>2, <2>0, <2>1, ScanFrame
  <2>2. CASE Pick(d)
    <3>1. \A i \in steady'[d] : InService(i)'
      BY <2>0, <2>2 DEF ScanHistory, Pick
    <3>2. scan'[d] = Look(FirstPass) /\ Look(FirstPass).pass = 1
      BY <2>0, <2>2, LookAtSlot, PassesStart DEF Pick
    <3> QED
      BY <3>1, <3>2
  <2>3. CASE ScanSlot(d) \/ FallBack(d)
    <3>1. PICK r \in ScanType :
            /\ scan'[d] = Look(r) /\ r.next < WanCount
            /\ r = scan[d] \/ r.next = 0
      <4>1. CASE ScanSlot(d)
        BY <2>0, <4>1 DEF ScanSlot
      <4>2. CASE FallBack(d)
        <5>1. scan'[d] = Look([FirstPass EXCEPT !.pass = 2])
          BY <2>0, <4>2 DEF FallBack
        <5>2. [FirstPass EXCEPT !.pass = 2].next < WanCount
          BY PassesStart, WanCountAssumption
        <5> QED
          BY <5>1, <5>2, PassesStart
      <4> QED
        BY <2>3, <4>1, <4>2
    <3>2. /\ Look(r).next = r.next + 1 /\ Look(r).pass = r.pass
          /\ Look(r).best = -1 => r.best = -1 /\ ~Eligible(r.pass, r.next)
      BY <2>0, <3>1, LookAtSlot
    <3>3. cpc[d] = "scan" /\ slot' = slot
      BY <2>3 DEF ScanSlot, FallBack, FoundNone
    <3>4. \A i \in steady'[d] :
             i \in Slots /\ InService(i)' /\ (scan[d].pass = 2 => i \in steady[d])
      BY <1>2, <2>0, <3>3 DEF ScanHistory, TypeOK
    <3>5. ASSUME scan'[d].pass = 2, scan'[d].best = -1, NEW i \in steady'[d]
          PROVE  i >= scan'[d].next
      <4>1. r.pass = 2 /\ r.best = -1 /\ ~InService(r.next)
        BY <3>1, <3>2, <3>5 DEF Eligible
      <4>2. InService(i) /\ i \in Slots /\ (r = scan[d] => i \in steady[d])
        BY <3>3, <3>4, <3>5, <4>1 DEF InService
      <4>3. i >= r.next /\ i # r.next
        BY <1>2, <3>1, <3>3, <4>1, <4>2 DEF ScanOK, Slots
      <4>4. i \in Int /\ r.next \in Int
        BY <4>2 DEF ScanType, Slots
      <4> QED
        BY <3>1, <3>2, <4>3, <4>4
    <3> QED
      BY <3>4, <3>5
  <2>4. (cpc[d] = "scan" /\ scan'[d] = scan[d]) \/ Pick(d) \/ ScanSlot(d) \/ FallBack(d)
    BY <1>2, ScanSteps
  <2> QED
    BY <2>1, <2>2, <2>3, <2>4
<1> QED
  BY <1>1, <1>2

\* No client is turned away while one slot stays in service during its second pass, for every
\* number of slots and connections: GetLeastLoaded needs no lock over all slots for that.
THEOREM NoSlotMissed == Spec => []NobodyMissed
<1>1. Init => ScanOK
  BY DEF Init, ScanOK
<1> QED
  BY <1>1, NextScan, ScanOKServes, TrafficTypeCorrect, PTL DEF Spec

----------------------------------------------------------------------------
(* A scan that nothing interferes with.                                    *)

\* The slots pass r has looked at and takes into account.
Behind(r) == {i \in Slots : i < r.next /\ Eligible(r.pass, i)}

\* Slot b has the fewest connections of S, and the lowest index of those that have.
IsLeastLoaded(b, S) ==
  /\ b \in S
  /\ \A j \in S : slot[b].conns <= slot[j].conns /\ (slot[j].conns = slot[b].conns => b <= j)

\* The pass has found the best of the slots behind it, and the second pass is only
\* taken when no slot is routable.
PassOK(r) ==
  /\ r.best = -1 => Behind(r) = {}
  /\ r.best # -1 => IsLeastLoaded(r.best, Behind(r)) /\ r.count = slot[r.best].conns
  /\ r.pass = 2 => RoutableSlots(WanFailThreshold) = {}

QuietOK == \A c \in Conns : cpc[c] = "scan" /\ quiet[c] => PassOK(scan[c])

\* A pass that looks at its next slot has found the best of one slot more.
LEMMA LookFindsBest ==
  ASSUME slot \in [Slots -> SlotType], NEW r \in ScanType, r.next < WanCount, PassOK(r)
  PROVE  PassOK(Look(r))
<1> DEFINE n == r.next  q == Look(r)
<1>1. /\ n \in Slots /\ n \in Nat /\ n # -1 /\ r.pass \in {1, 2}
      /\ r.best \in Slots \cup {-1} /\ r.count \in Int
  BY WanCountAssumption DEF ScanType, Slots
<1>2. \A i \in Slots : i \in Nat /\ slot[i].conns \in Int
  BY WanCountAssumption DEF Slots, SlotType
<1>3. q.next = n + 1 /\ q.pass = r.pass
  BY LookAtSlot
<1>4. Behind(q) = IF Eligible(r.pass, n) THEN Behind(r) \cup {n} ELSE Behind(r)
  <2>1. \A i \in Slots : i < n + 1 <=> i < n \/ i = n
    BY <1>1, <1>2
  <2> QED
    BY <1>1, <1>3, <2>1 DEF Behind
<1>5. \A i \in Behind(r) : i \in Slots /\ i < n
  BY DEF Behind
<1>6. CASE Eligible(r.pass, n) /\ Better(r, n)
  <2>1. q = [r EXCEPT !.next = @ + 1, !.best = n, !.count = slot[n].conns]
    BY <1>6 DEF Look
  <2>2. q.best = n /\ q.count = slot[n].conns
    BY <2>1 DEF ScanType
  <2>3. \A j \in Behind(r) : slot[n].conns < slot[j].conns
    <3>1. CASE r.best = -1
      BY <3>1 DEF PassOK
    <3>2. CASE r.best # -1
      <4>1. /\ slot[n].conns < r.count /\ r.count = slot[r.best].conns
            /\ \A j \in Behind(r) : slot[r.best].conns <= slot[j].conns
        BY <1>6, <3>2 DEF Better, PassOK, IsLeastLoaded
      <4> QED
        BY <1>1, <1>2, <1>5, <4>1
    <3> QED
      BY <3>1, <3>2
  <2>4. IsLeastLoaded(n, Behind(q))
    BY <1>1, <1>2, <1>4, <1>5, <1>6, <2>3 DEF IsLeastLoaded
  <2> QED
    BY <1>1, <1>3, <2>2, <2>4 DEF PassOK
<1>7. CASE ~(Eligible(r.pass, n) /\ Better(r, n))
  <2>1. q = [r EXCEPT !.next = @ + 1]
    BY <1>7 DEF Look
  <2>2. q.best = r.best /\ q.count = r.count
    BY <2>1 DEF ScanType
  <2>3. CASE ~Eligible(r.pass, n)
    BY <1>3, <1>4, <2>2, <2>3 DEF PassOK
  <2>4. CASE Eligible(r.pass, n)
    <3>1. r.best # -1 /\ ~(slot[n].conns < r.count)
      BY <1>7, <2>4 DEF Better
    <3>2. IsLeastLoaded(r.best, Behind(r)) /\ r.count = slot[r.best].conns
      BY <3>1 DEF PassOK
    <3>3. r.best \in Slots /\ r.best < n
      BY <1>5, <3>2 DEF IsLeastLoaded
    <3>4. IsLeastLoaded(r.best, Behind(r) \cup {n})
      BY <1>1, <1>2, <3>1, <3>2, <3>3 DEF IsLeastLoaded
    <3> QED
      BY <1>3, <1>4, <2>2, <2>4, <3>1, <3>2, <3>4 DEF PassOK
  <2> QED
    BY <2>3, <2>4
<1> QED
  BY <1>6, <1>7

\* A pass that has not begun has nothing behind it.
LEMMA PassBegins ==
  ASSUME NEW r, r.next = 0, r.best = -1,
         r.pass = 2 => RoutableSlots(WanFailThreshold) = {}
  PROVE  PassOK(r)
<1>1. Behind(r) = {}
  BY WanCountAssumption DEF Behind, Slots
<1> QED
  BY <1>1 DEF PassOK

\* A first pass over all slots has the routable ones behind it, a second one those in
\* service.
LEMMA PassComplete ==
  ASSUME NEW r \in ScanType, r.next = WanCount
  PROVE  /\ r.pass = 1 => Behind(r) = RoutableSlots(WanFailThreshold)
         /\ r.pass = 2 => Behind(r) = SlotsByState({"active", "draining"})
<1>1. \A i \in Slots : i < r.next
  BY WanCountAssumption DEF Slots
<1>2. r.pass = 1 => \A i \in Slots : Eligible(r.pass, i) <=> Routable(i, WanFailThreshold)
  BY DEF Eligible
<1>3. r.pass = 2 => \A i \in Slots : Eligible(r.pass, i) <=> InService(i)
  BY DEF Eligible
<1> QED
  BY <1>1, <1>2, <1>3 DEF Behind, RoutableSlots, SlotsByState, InService

LEMMA NextQuiet == TypeOK /\ QuietOK /\ [Next]_vars => QuietOK'
<1>1. ASSUME TypeOK, QuietOK, UNCHANGED vars PROVE QuietOK'
  BY <1>1 DEF vars, connVars, scanHist, QuietOK, PassOK, Behind, Eligible, IsLeastLoaded,
     Routable, RoutableSlots, InService
<1>2. ASSUME TypeOK, QuietOK, Next PROVE QuietOK'
  <2> SUFFICES ASSUME NEW d \in Conns, cpc'[d] = "scan", quiet'[d] PROVE PassOK(scan[d])'
    BY DEF QuietOK
  <2>1. slot' = slot /\ quiet[d]
    BY <1>2 DEF Next, ScanHistory
  <2>2. PassOK(scan'[d]) => PassOK(scan[d])'
    BY <2>1 DEF PassOK, Behind, Eligible, IsLeastLoaded, Routable, RoutableSlots, InService
  <2>3. slot \in [Slots -> SlotType] /\ scan \in [Conns -> ScanType] /\ scan[d] \in ScanType
    BY <1>2 DEF TypeOK
  <2>4. CASE cpc[d] = "scan" /\ scan'[d] = scan[d]
    BY <1>2, <2>1, <2>2, <2>4 DEF QuietOK
  <2>5. CASE Pick(d)
    <3>1. scan'[d] = Look(FirstPass)
      BY <2>3, <2>5 DEF Pick
    <3>2. PassOK(FirstPass)
      BY PassesStart, PassBegins
    <3>3. PassOK(Look(FirstPass))
      BY <2>3, <3>2, LookFindsBest, PassesStart
    <3> QED
      BY <2>2, <3>1, <3>3
  <2>6. CASE ScanSlot(d)
    <3>1. scan'[d] = Look(scan[d]) /\ scan[d].next < WanCount /\ cpc[d] = "scan"
      BY <2>3, <2>6 DEF ScanSlot
    <3>2. PassOK(scan[d])
      BY <1>2, <2>1, <3>1 DEF QuietOK
    <3> QED
      BY <2>2, <2>3, <3>1, <3>2, LookFindsBest
  <2>7. CASE FallBack(d)
    <3> DEFINE r == [FirstPass EXCEPT !.pass = 2]
    <3>1. /\ scan'[d] = Look(r) /\ cpc[d] = "scan"
          /\ scan[d].pass = 1 /\ scan[d].next = WanCount /\ scan[d].best = -1
      BY <2>3, <2>7 DEF FallBack, FoundNone
    <3>2. RoutableSlots(WanFailThreshold) = {}
      BY <1>2, <2>1, <2>3, <3>1, PassComplete DEF QuietOK, PassOK
    <3>3. r \in ScanType /\ r.next = 0 /\ r.next < WanCount /\ r.best = -1
      BY PassesStart DEF FirstPass
    <3> HIDE DEF r
    <3>4. PassOK(r)
      BY <3>2, <3>3, PassBegins
    <3> QED
      BY <2>2, <2>3, <3>1, <3>3, <3>4, LookFindsBest
  <2> QED
    BY <1>2, <2>4, <2>5, <2>6, <2>7, ScanSteps
<1> QED
  BY <1>1, <1>2

\* What a complete scan is compared with is what LeastLoaded chooses.
LEMMA LeastLoadedUnique ==
  ASSUME slot \in [Slots -> SlotType], NEW S \in SUBSET Slots, NEW b, IsLeastLoaded(b, S)
  PROVE  LeastLoaded(S) = b
<1> DEFINE Least == {i \in S : \A j \in S : slot[i].conns <= slot[j].conns}
<1>1. \A i \in S : i \in Nat /\ slot[i].conns \in Int
  BY WanCountAssumption DEF Slots, SlotType
<1>2. b \in Least /\ \A i \in Least : b <= i
  BY <1>1 DEF IsLeastLoaded
<1>3. \A i \in Least : (\A j \in Least : i <= j) => i = b
  BY <1>1, <1>2
<1>4. First(Least) = b
  BY <1>2, <1>3 DEF First
<1> QED
  BY <1>4 DEF LeastLoaded

\* ActiveCount is positive when some slot is in service.
LEMMA SomeActive ==
  ASSUME SlotsByState({"active", "draining"}) # {}
  PROVE  ActiveCount > 0
<1>1. IsFiniteSet(SlotsByState({"active", "draining"}))
  <2>1. IsFiniteSet(Slots)
    BY FS_Interval, WanCountAssumption DEF Slots
  <2>2. SlotsByState({"active", "draining"}) \in SUBSET Slots
    BY DEF SlotsByState
  <2> QED
    BY <2>1, <2>2, FS_Subset
<1>2. ActiveCount \in Nat /\ ActiveCount # 0
  BY <1>1, FS_CardinalityType, FS_EmptySet DEF ActiveCount
<1> QED
  BY <1>2

LEMMA QuietComputes == TypeOK /\ QuietOK => UndisturbedScan
<1> SUFFICES ASSUME TypeOK, QuietOK, NEW c \in Conns, cpc[c] = "scan", quiet[c],
                    scan[c].next = WanCount, scan[c].best # -1 \/ scan[c].pass = 2
             PROVE  scan[c].best = GetLeastLoaded(WanFailThreshold)
  BY DEF UndisturbedScan
<1> DEFINE r == scan[c]
           R == RoutableSlots(WanFailThreshold)  A == SlotsByState({"active", "draining"})
<1>1. PassOK(r) /\ r \in ScanType /\ r.pass \in {1, 2} /\ slot \in [Slots -> SlotType]
  BY DEF QuietOK, TypeOK, ScanType
<1>2. R \in SUBSET Slots /\ A \in SUBSET Slots
  BY DEF RoutableSlots, SlotsByState
<1>3. CASE r.pass = 1
  <2>1. IsLeastLoaded(r.best, R)
    BY <1>1, <1>3, PassComplete DEF PassOK
  <2>2. LeastLoaded(R) = r.best /\ R # {}
    BY <1>1, <1>2, <2>1, LeastLoadedUnique DEF IsLeastLoaded
  <2> QED
    BY <2>2 DEF GetLeastLoaded
<1>4. CASE r.pass = 2 /\ r.best # -1
  <2>1. IsLeastLoaded(r.best, A) /\ R = {}
    BY <1>1, <1>4, PassComplete DEF PassOK
  <2>2. LeastLoaded(A) = r.best /\ A # {}
    BY <1>1, <1>2, <2>1, LeastLoadedUnique DEF IsLeastLoaded
  <2>3. ActiveCount > 0
    BY <1>2, <2>2, SomeActive
  <2> QED
    BY <2>1, <2>2, <2>3 DEF GetLeastLoaded
<1>5. CASE r.pass = 2 /\ r.best = -1
  <2>1. A = {} /\ R = {}
    BY <1>1, <1>5, PassComplete DEF PassOK
  <2>2. ~(ActiveCount > 0)
    BY <2>1, FS_EmptySet DEF ActiveCount
  <2> QED
    BY <1>5, <2>1, <2>2 DEF GetLeastLoaded
<1> QED
  BY <1>1, <1>3, <1>4, <1>5

\* A scan that no change of a slot interferes with returns exactly what GetLeastLoaded
\* specifies, for any number of slots: the least loaded routable slot, else the least
\* loaded one in service, the lowest index on a tie.
THEOREM QuietScanExact == Spec => []UndisturbedScan
<1>1. Init => QuietOK
  BY DEF Init, QuietOK
<1> QED
  BY <1>1, NextQuiet, QuietComputes, TrafficTypeCorrect, PTL DEF Spec
=============================================================================
