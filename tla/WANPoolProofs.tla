---------------------------- MODULE WANPoolProofs ----------------------------
(***************************************************************************)
(* Facts about the WAN pool for every number of slots and every set of     *)
(* configs: the slot choices are well defined, and no method of the pool   *)
(* leaves a slot whose fields disagree with its state.                     *)
(***************************************************************************)
EXTENDS WANPool, TLAPS, WellFoundedInduction

\* A non-empty set of naturals has a least element.
LEMMA LeastNatural ==
  ASSUME NEW S, S \subseteq Nat, S # {}
  PROVE  \E x \in S : \A y \in S : x <= y
<1>1. \E x \in S : \A y \in S : ~(<<y, x>> \in OpToRel(<, Nat))
  BY NatLessThanWellFounded, WFMin
<1>2. PICK x \in S : \A y \in S : ~(<<y, x>> \in OpToRel(<, Nat))
  BY <1>1
<1>3. \A y \in S : ~(y < x)
  BY <1>2 DEF OpToRel
<1> QED
  BY <1>3

\* First picks the lowest index of a set of slots.
LEMMA FirstIsLeast ==
  ASSUME NEW S, S \subseteq Nat, S # {}
  PROVE  First(S) \in S /\ \A y \in S : First(S) <= y
BY LeastNatural DEF First

\* Finitely many naturals are bounded.  The argument is by a least length n
\* for which there is no bound.
LEMMA BoundExists ==
  ASSUME NEW N \in Nat, NEW f \in [0 .. N - 1 -> Nat]
  PROVE  \E k \in Nat : \A i \in 0 .. N - 1 : f[i] <= k
<1> DEFINE Bounded(n) == \E k \in Nat : \A i \in 0 .. n - 1 : f[i] <= k
           Bad == {n \in 0 .. N : ~Bounded(n)}
<1>1. Bounded(0)
  OBVIOUS
<1>2. ASSUME NEW n \in 1 .. N, Bounded(n - 1)
      PROVE  Bounded(n)
  <2>1. PICK k \in Nat : \A i \in 0 .. (n - 1) - 1 : f[i] <= k
    BY <1>2
  <2>2. f[n - 1] \in Nat
    OBVIOUS
  <2>3. \A i \in 0 .. n - 1 : f[i] \in Nat /\ (i = n - 1 \/ i \in 0 .. (n - 1) - 1)
    OBVIOUS
  <2>4. \A i \in 0 .. n - 1 : f[i] <= k + f[n - 1]
    BY <2>1, <2>2, <2>3
  <2>5. k + f[n - 1] \in Nat
    BY <2>2
  <2> QED
    BY <2>4, <2>5
<1>2a. \A n \in 1 .. N : Bounded(n - 1) => Bounded(n)
  BY <1>2
<1> HIDE DEF Bounded
<1>3. ASSUME Bad # {} PROVE FALSE
  <2>0. Bad \subseteq Nat
    OBVIOUS
  <2> HIDE DEF Bad
  <2>1. PICK n \in Bad : \A m \in Bad : n <= m
    BY <1>3, <2>0, LeastNatural
  <2> USE DEF Bad
  <2>2. n \in 1 .. N
    BY <1>1, <2>1
  <2>3. n - 1 \notin Bad
    BY <2>1, <2>2
  <2>4. Bounded(n - 1)
    BY <2>2, <2>3
  <2>5. Bounded(n)
    BY <1>2a, <2>2, <2>4
  <2> QED
    BY <2>1, <2>5
<1>4. Bounded(N)
  BY <1>3
<1> QED
  BY <1>4 DEF Bounded

\* Among finitely many slots one has the largest score.
LEMMA LargestExists ==
  ASSUME NEW N \in Nat \ {0}, NEW f \in [0 .. N - 1 -> Nat]
  PROVE  \E i \in 0 .. N - 1 : \A j \in 0 .. N - 1 : f[i] >= f[j]
<1> DEFINE Bounds == {k \in Nat : \A i \in 0 .. N - 1 : f[i] <= k}
<1>1. PICK k \in Bounds : \A l \in Bounds : k <= l
  BY BoundExists, LeastNatural
<1>2. SUFFICES ASSUME \A i \in 0 .. N - 1 : f[i] < k PROVE FALSE
  BY <1>1
<1>3. f[0] \in Nat /\ f[0] < k
  BY <1>2
<1>4. k - 1 \in Bounds
  BY <1>1, <1>2, <1>3
<1> QED
  BY <1>1, <1>4

\* PickReplacementSlot returns a slot of the full pool.
LEMMA PickReplacementSlotInSlots ==
  ASSUME slot \in [Slots -> SlotType]
  PROVE  PickReplacementSlot(Slots) \in Slots
<1> DEFINE f == [i \in 0 .. WanCount - 1 |-> slot[i].stability]
           Worst == {i \in Slots : \A j \in Slots : slot[i].stability >= slot[j].stability}
<1>1. f \in [0 .. WanCount - 1 -> Nat]
  BY DEF Slots, SlotType
<1>2. \E i \in 0 .. WanCount - 1 : \A j \in 0 .. WanCount - 1 : f[i] >= f[j]
  BY <1>1, LargestExists, WanCountAssumption
<1>3. Worst # {} /\ Worst \subseteq Nat
  BY <1>2 DEF Slots
<1>4. First(Worst) \in Worst
  BY <1>3, FirstIsLeast
<1> QED
  BY <1>4 DEF PickReplacementSlot

----------------------------------------------------------------------------
(* Every method keeps the type and the shape of the slots.                 *)

\* What the lemmas below preserve.
PoolOK == slot \in [Slots -> SlotType] /\ SlotShape

LEMMA NewWANPoolOK ==
  ASSUME NewWANPool PROVE PoolOK
BY ConfigAssumption DEF NewWANPool, PoolOK, SlotShape, SlotType, EmptySlot, InService,
   States, Procs, Drains

LEMMA StartTestingOK ==
  ASSUME PoolOK, NEW i \in Slots, NEW c \in Configs, StartTesting(i, c)
  PROVE  PoolOK'
BY ConfigAssumption DEF StartTesting, CanStartTesting, PoolOK, SlotShape, SlotType, InService,
   States

LEMMA SetActiveOK ==
  ASSUME PoolOK, NEW i \in Slots, NEW c \in Configs, SetActive(i, c)
  PROVE  PoolOK'
BY ConfigAssumption DEF SetActive, CanSetActive, PoolOK, SlotShape, SlotType, InService,
   States, Procs

LEMMA SetMeasuredOK ==
  ASSUME PoolOK, NEW i \in Slots, NEW speed \in Nat, NEW stability \in Nat,
         SetMeasured(i, speed, stability)
  PROVE  PoolOK'
<1>1. slot' \in [Slots -> SlotType]
  BY DEF SetMeasured, PoolOK, SlotType
<1>2. \A j \in Slots : /\ slot'[j].state = slot[j].state /\ slot'[j].config = slot[j].config
                       /\ slot'[j].cmd = slot[j].cmd /\ slot'[j].proc = slot[j].proc
                       /\ slot'[j].drain = slot[j].drain
  BY DEF SetMeasured, PoolOK, SlotType
<1> QED
  BY <1>1, <1>2 DEF PoolOK, SlotShape, InService

LEMMA MarkDrainingOK ==
  ASSUME PoolOK, NEW i \in Slots, MarkDraining(i)
  PROVE  PoolOK'
BY DEF MarkDraining, PoolOK, SlotShape, SlotType, InService, States, Drains

LEMMA StopCmdOK ==
  ASSUME PoolOK, NEW i \in Slots, StopCmd(i)
  PROVE  PoolOK'
BY DEF StopCmd, PoolOK, SlotShape, SlotType, InService, Procs

LEMMA ClearOK ==
  ASSUME PoolOK, NEW i \in Slots, Clear(i)
  PROVE  PoolOK'
BY ConfigAssumption DEF Clear, PoolOK, SlotShape, SlotType, EmptySlot, InService,
   States, Procs, Drains

\* A process that Clear forgets is a process on that slot's port.
LEMMA ForgottenType ==
  ASSUME PoolOK, NEW i \in Slots
  PROVE  Forgotten(i) \subseteq ProcessType
BY DEF Forgotten, PoolOK, SlotShape, SlotType, ProcessType

\* The leak guard admits only configs with a real outbound.
LEMMA SupportedIsNotFreedom ==
  ASSUME NEW c \in Configs, IsXraySupported(c)
  PROVE  Outbound(Protocol(SchemeOf[c])) # "freedom"
<1>1. SchemeOf[c] \in Schemes
  BY ConfigAssumption
<1> QED
  BY <1>1 DEF IsXraySupported, Protocol, Outbound, Schemes

=============================================================================
