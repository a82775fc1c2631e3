------------------------- MODULE PublicationProofs -------------------------
(***************************************************************************)
(* Ordered publication, for every value of its constants: the inductive    *)
(* invariant PublicationInv and what follows from it, the refinement of    *)
(* OrderedLog, and the exactness of the two capacity counters.             *)
(***************************************************************************)
EXTENDS Publication, SumTheorems, FiniteSetTheorems, TLAPS

(* The invariant without its counting part.                                *)
Placement ==
  /\ InitialVersion <= settledHighWater
  /\ settledHighWater <= startedHighWater
  /\ startedHighWater <= committedHighWater
  /\ \A v \in DOMAIN slots : SlotPlaced(v)
  /\ \A v \in (startedHighWater + 1)..committedHighWater : v \in DOMAIN slots
  /\ \A v \in unsettledVersions : settledHighWater < v /\ v <= startedHighWater
  /\ settledHighWater < startedHighWater => settledHighWater + 1 \in unsettledVersions
  /\ queued # NoVersion => /\ queued = startedHighWater + 1
                          /\ queued <= committedHighWater
                          /\ starting
                          /\ awaited = NoVersion
  /\ awaited # NoVersion => starting /\ awaited \in unsettledVersions
  /\ starting => queued # NoVersion \/ awaited # NoVersion
  /\ ~starting => startedHighWater = committedHighWater
  /\ openReservation # NoVersion =>
       openReservation = committedHighWater + 1 /\ openReservation \in DOMAIN slots

Counting == IsFiniteSet(DOMAIN slots) /\ items = Cardinality(DOMAIN slots)

(* The inductive invariant is its types, its counter and its placement.    *)
LEMMA InvSplits == PublicationInv <=> PublicationTypeOK /\ Counting /\ Placement
  BY Zenon DEF PublicationInv, Placement, Counting

(* Linking one more slot adds one to the counter of a finite list.         *)
LEMMA LinkCounts ==
  ASSUME NEW S, IsFiniteSet(S), NEW v, v \notin S
  PROVE  /\ IsFiniteSet(S \cup {v})
         /\ Cardinality(S \cup {v}) = Cardinality(S) + 1
  BY Zenon, FS_AddElement

(* Unlinking a slot of a finite list takes one from its counter.           *)
LEMMA UnlinkCounts ==
  ASSUME NEW S, IsFiniteSet(S), NEW v, v \in S
  PROVE  /\ IsFiniteSet(S \ {v})
         /\ Cardinality(S) \in Nat \ {0}
         /\ Cardinality(S \ {v}) = Cardinality(S) - 1
  BY Zenon, FS_RemoveElement, FS_CardinalityType, FS_EmptySet

(* The constructor establishes the inductive invariant.                    *)
LEMMA InitEstablishesInv == PublicationInit => PublicationInv
<1> SUFFICES ASSUME PublicationInit PROVE PublicationInv
  BY Zenon
<1>1. DOMAIN slots = {} /\ slots \in [DOMAIN slots -> Slot]
  BY Zenon DEF PublicationInit
<1>2. Counting
  BY Zenon, <1>1, FS_EmptySet DEF PublicationInit, Counting
<1>3. PublicationTypeOK
  <2>1. /\ openReservation \in Nat /\ items \in Nat /\ bytes \in Int
        /\ committedHighWater \in Nat /\ startedHighWater \in Nat
        /\ settledHighWater \in Nat /\ unsettledVersions = {}
        /\ queued \in Nat /\ awaited \in Nat /\ processed \in Nat
        /\ failedVersions = {} /\ lastFailureVersion \in Nat
    BY PublicationAssumption DEF PublicationInit, NoVersion
  <2>2. starting \in BOOLEAN /\ closed \in BOOLEAN
        /\ closePromise \in {"none", "pending", "resolved"}
    BY Zenon DEF PublicationInit
  <2> QED
    BY Zenon, <1>1, <2>1, <2>2 DEF PublicationTypeOK
<1>4. Placement
  BY <1>1, PublicationAssumption DEF PublicationInit, Placement, NoVersion
<1> QED
  BY Zenon, <1>2, <1>3, <1>4, InvSplits

(* reserve() preserves the invariant.                                      *)
LEMMA ReservePreserves ==
  ASSUME PublicationInv, NEW b \in Nat, Reserve(b)
  PROVE  PublicationInv'
<1> USE PublicationAssumption
<1>1. Counting'
  <2>1. committedHighWater + 1 \notin DOMAIN slots
    BY DEF PublicationInv, PublicationTypeOK, SlotPlaced, Reserve, NoVersion, Version
  <2>2. DOMAIN slots' = DOMAIN slots \cup {committedHighWater + 1}
    BY Zenon DEF Reserve, Link
  <2> QED
    BY <2>1, <2>2, LinkCounts DEF PublicationInv, Counting, Reserve
<1>2. PublicationTypeOK'
  BY DEF PublicationInv, PublicationTypeOK, NoVersion, Version, Reserve,
         Link, highWaters, pumping, outcomes, Slot, SlotState
<1>3. Placement'
  BY Zenon DEF PublicationInv, PublicationTypeOK, Placement, SlotPlaced, NoVersion, Version,
         Reserve, Link, highWaters, pumping, outcomes, Slot, SlotState
<1> QED
  BY Zenon, <1>1, <1>2, <1>3 DEF PublicationInv, Placement, Counting

(* resizeSlot() preserves the invariant.                                   *)
LEMMA ResizePreserves ==
  ASSUME PublicationInv, NEW b \in Sizes, Resize(b)
  PROVE  PublicationInv'
  BY PublicationAssumption
  DEF PublicationInv, PublicationTypeOK, SlotPlaced, NoVersion, Version, Resize,
      highWaters, pumping, outcomes, Slot, SlotState

(* cancelSlot() preserves the invariant.                                   *)
LEMMA CancelPreserves ==
  ASSUME PublicationInv, CancelSlot
  PROVE  PublicationInv'
<1> USE PublicationAssumption
<1>1. openReservation \in DOMAIN slots
  BY Zenon DEF PublicationInv, CancelSlot
<1>2. DOMAIN slots' = DOMAIN slots \ {openReservation}
  BY Zenon DEF CancelSlot, Detach
<1>3. Counting' /\ items' \in Nat
  BY <1>1, <1>2, UnlinkCounts DEF PublicationInv, Counting, CancelSlot
<1>4. PublicationTypeOK'
  BY <1>1, <1>2, <1>3
  DEF PublicationInv, PublicationTypeOK, SlotPlaced, NoVersion, Version, CancelSlot,
      Detach, ResolveCloseIfDrained, highWaters, pumping, outcomes, Slot, SlotState
<1>5. Placement'
  BY <1>1, <1>2
  DEF PublicationInv, PublicationTypeOK, Placement, SlotPlaced, NoVersion, Version,
      CancelSlot, Detach, highWaters, pumping, outcomes, Slot, SlotState
<1> QED
  BY Zenon, <1>3, <1>4, <1>5 DEF PublicationInv, Placement, Counting

(* commitSlot() preserves the invariant.                                   *)
LEMMA CommitPreserves ==
  ASSUME PublicationInv, CommitSlot
  PROVE  PublicationInv'
<1> USE PublicationAssumption
<1> DEFINE v == openReservation
           s == [slots EXCEPT ![v].state = "committed"]
<1>1. v \in DOMAIN slots /\ v = committedHighWater + 1 /\ slots[v].state = "reserved"
  BY DEF PublicationInv, PublicationTypeOK, SlotPlaced, CommitSlot
<1>2. DOMAIN s = DOMAIN slots /\ s \in [DOMAIN slots -> Slot]
  BY Zenon, <1>1 DEF PublicationInv, PublicationTypeOK, Slot, SlotState
<1>3. Pump(s, starting, queued)
  BY Zenon DEF CommitSlot
<1>4. CASE starting
  <2>1. slots' = s /\ starting' = starting /\ queued' = queued
    BY Zenon, <1>3, <1>4 DEF Pump
  <2> QED
    BY <1>1, <1>2, <1>4, <2>1
    DEF PublicationInv, PublicationTypeOK, SlotPlaced, NoVersion, Version,
        CommitSlot, outcomes, Slot, SlotState
<1>5. CASE ~starting
  <2>1. v \in Committed(s)
    BY <1>1, <1>2 DEF Committed
  <2>2. PICK w \in Committed(s) :
          /\ IsFirst(w, Committed(s))
          /\ slots' = [s EXCEPT ![w].state = "processing"]
          /\ starting' = TRUE
          /\ queued' = w
    BY Zenon, <1>3, <1>5, <2>1 DEF Pump
  <2>3. w = v
    BY <1>1, <1>2, <1>5, <2>2
    DEF Committed, PublicationInv, PublicationTypeOK, SlotPlaced, NoVersion, Version
  <2> QED
    BY <1>1, <1>2, <1>5, <2>2, <2>3
    DEF PublicationInv, PublicationTypeOK, SlotPlaced, NoVersion, Version,
        CommitSlot, outcomes, Slot, SlotState
<1> QED
  BY Zenon, <1>4, <1>5

(* pump(), when the slots that wait are q + 1 to c: it starts q + 1, if    *)
(* any waits.                                                              *)
LEMMA PumpStartsNext ==
  ASSUME NEW s, NEW q \in Nat, NEW c \in Nat, q <= c,
         DOMAIN s \subseteq Version,
         \A v \in DOMAIN s : s[v].state = "committed" <=> q < v /\ v <= c,
         \A v \in (q + 1)..c : v \in DOMAIN s,
         Pump(s, FALSE, NoVersion)
  PROVE  \/ /\ q = c
            /\ slots' = s /\ starting' = FALSE /\ queued' = NoVersion
         \/ /\ q < c
            /\ slots' = [s EXCEPT ![q + 1].state = "processing"]
            /\ starting' = TRUE /\ queued' = q + 1
<1>1. Committed(s) = (q + 1)..c
  BY DEF Committed, Version
<1>2. CASE q = c
  <2>1. Committed(s) = {}
    BY <1>1, <1>2
  <2> QED
    BY Zenon, <1>2, <2>1 DEF Pump
<1>3. CASE q < c
  <2>1. q + 1 \in Committed(s)
    BY <1>1, <1>3
  <2>2. PICK w \in Committed(s) :
          /\ IsFirst(w, Committed(s))
          /\ slots' = [s EXCEPT ![w].state = "processing"]
          /\ starting' = TRUE
          /\ queued' = w
    BY Zenon, <2>1 DEF Pump
  <2>3. w = q + 1
    BY <1>1, <2>1, <2>2 DEF IsFirst
  <2> QED
    BY Zenon, <1>3, <2>2, <2>3
<1>4. q = c \/ q < c
  OBVIOUS
<1> QED
  BY Zenon, <1>2, <1>3, <1>4

(* The microtask that hands a slot off preserves the invariant.            *)
LEMMA HandOffPreserves ==
  ASSUME PublicationInv, StartHandsOff
  PROVE  PublicationInv'
<1> USE PublicationAssumption
<1>1. /\ queued = startedHighWater + 1 /\ queued <= committedHighWater
      /\ queued \in DOMAIN slots /\ awaited = NoVersion
  BY DEF PublicationInv, PublicationTypeOK, StartHandsOff
<1>2. \/ /\ queued = committedHighWater
         /\ slots' = slots /\ starting' = FALSE /\ queued' = NoVersion
      \/ /\ queued < committedHighWater
         /\ slots' = [slots EXCEPT ![queued + 1].state = "processing"]
         /\ starting' = TRUE /\ queued' = queued + 1
  <2>1. \A v \in DOMAIN slots :
          slots[v].state = "committed" <=> queued < v /\ v <= committedHighWater
    BY <1>1 DEF PublicationInv, PublicationTypeOK, SlotPlaced, Version
  <2>2. \A v \in (queued + 1)..committedHighWater : v \in DOMAIN slots
    BY <1>1 DEF PublicationInv, PublicationTypeOK
  <2> QED
    BY Zenon, <1>1, <2>1, <2>2, PumpStartsNext DEF PublicationInv, PublicationTypeOK, StartHandsOff
<1>3. DOMAIN slots' = DOMAIN slots
  BY Zenon, <1>2
<1>4. Counting'
  BY Zenon, <1>3 DEF PublicationInv, Counting, StartHandsOff
<1>5. CASE queued = committedHighWater
  <2>1. slots' = slots /\ starting' = FALSE /\ queued' = NoVersion
    BY <1>1, <1>2, <1>5 DEF PublicationInv, PublicationTypeOK
  <2>2. PublicationTypeOK'
    BY Zenon, <1>1, <2>1
    DEF PublicationInv, PublicationTypeOK, NoVersion, Version, StartHandsOff, outcomes
  <2>3. Placement'
    BY <1>1, <1>5, <2>1
    DEF PublicationInv, PublicationTypeOK, Placement, SlotPlaced, NoVersion, Version,
        StartHandsOff
  <2> QED
    BY Zenon, <1>4, <2>2, <2>3 DEF PublicationInv, Placement, Counting
<1>6. CASE queued < committedHighWater
  <2>1. /\ slots' = [slots EXCEPT ![queued + 1].state = "processing"]
        /\ starting' = TRUE /\ queued' = queued + 1
    BY <1>1, <1>2, <1>6 DEF PublicationInv, PublicationTypeOK
  <2>a. slots' \in [DOMAIN slots -> Slot] /\ DOMAIN slots' = DOMAIN slots
    BY Zenon, <2>1 DEF PublicationInv, PublicationTypeOK, Slot, SlotState
  <2>2. PublicationTypeOK'
    BY <1>1, <2>1, <2>a
    DEF PublicationInv, PublicationTypeOK, NoVersion, Version, StartHandsOff, outcomes
  <2>3. Placement'
    BY <1>1, <1>6, <2>1
    DEF PublicationInv, PublicationTypeOK, Placement, SlotPlaced, NoVersion, Version,
        StartHandsOff, Slot, SlotState
  <2> QED
    BY Zenon, <1>4, <2>2, <2>3 DEF PublicationInv, Placement, Counting
<1> QED
  BY <1>1, <1>5, <1>6 DEF PublicationInv, PublicationTypeOK

(* The microtask that awaits a promise preserves the invariant.            *)
LEMMA AwaitPreserves ==
  ASSUME PublicationInv, StartAwaits
  PROVE  PublicationInv'
  BY PublicationAssumption
  DEF PublicationInv, PublicationTypeOK, SlotPlaced, NoVersion, Version,
      StartAwaits, outcomes, Slot, SlotState

(* What settle() does to the list, when slot v ends and the versions up to *)
(* `started` have started: the common part of the three actions that       *)
(* settle.                                                                 *)
LEMMA SettlePreserves ==
  ASSUME PublicationInv,
         NEW v \in DOMAIN slots, NEW ok \in BOOLEAN, NEW started \in Nat,
         NEW isStarting \in BOOLEAN, NEW pending \in Nat,
         SettleSlot(v, ok, started, isStarting, pending)
  PROVE  /\ Counting'
         /\ items' \in Nat /\ bytes' \in Int /\ processed' \in Nat
         /\ failedVersions' \subseteq Version /\ lastFailureVersion' \in Nat
         /\ closePromise' \in {"none", "pending", "resolved"}
         /\ settledHighWater' \in settledHighWater..started
         /\ settledHighWater' < started => settledHighWater' + 1 \in unsettledVersions \ {v}
         /\ \A w \in (settledHighWater + 1)..settledHighWater' : w \notin unsettledVersions \ {v}
<1> USE PublicationAssumption
<1>1. DOMAIN slots' = DOMAIN slots \ {v}
  BY Zenon DEF SettleSlot, Pump, Detach
<1>2. Counting' /\ items' \in Nat
  <2>1. IsFiniteSet(DOMAIN slots) /\ items = Cardinality(DOMAIN slots) /\ items' = items - 1
    BY Zenon DEF PublicationInv, SettleSlot
  <2>2. /\ IsFiniteSet(DOMAIN slots \ {v}) /\ Cardinality(DOMAIN slots) \in Nat \ {0}
        /\ Cardinality(DOMAIN slots \ {v}) = Cardinality(DOMAIN slots) - 1
    BY Zenon, <2>1, UnlinkCounts
  <2>3. items' \in Nat
    BY <2>1, <2>2
  <2> QED BY Zenon, <1>1, <2>1, <2>2, <2>3 DEF Counting
<1>3. bytes' \in Int
  BY DEF PublicationInv, PublicationTypeOK, SettleSlot, Slot
<1>4. processed' \in Nat /\ failedVersions' \subseteq Version /\ lastFailureVersion' \in Nat
  BY DEF PublicationInv, PublicationTypeOK, SettleSlot, RecordOutcome, Version
<1>5. closePromise' \in {"none", "pending", "resolved"}
  BY Zenon DEF PublicationInv, PublicationTypeOK, SettleSlot, ResolveCloseIfDrained
<1> QED
  BY Zenon, <1>2, <1>3, <1>4, <1>5 DEF SettleSlot, AdvanceSettled

(* The microtask of a processor that throws preserves the invariant.       *)
LEMMA ThrowPreserves ==
  ASSUME PublicationInv, StartThrows
  PROVE  PublicationInv'
<1> USE PublicationAssumption
<1> DEFINE s == Detach(queued)
<1>1. /\ queued = startedHighWater + 1 /\ queued <= committedHighWater
      /\ queued \in DOMAIN slots /\ queued \notin unsettledVersions
      /\ awaited = NoVersion /\ queued \in Nat
  BY DEF PublicationInv, PublicationTypeOK, StartThrows
<1>2. /\ DOMAIN s = DOMAIN slots \ {queued}
      /\ \A v \in DOMAIN s : s[v] = slots[v]
  BY Zenon DEF Detach
<1>3. \/ /\ queued = committedHighWater
         /\ slots' = s /\ starting' = FALSE /\ queued' = NoVersion
      \/ /\ queued < committedHighWater
         /\ slots' = [s EXCEPT ![queued + 1].state = "processing"]
         /\ starting' = TRUE /\ queued' = queued + 1
  <2>1. \A v \in DOMAIN s :
          s[v].state = "committed" <=> queued < v /\ v <= committedHighWater
    BY <1>1, <1>2 DEF PublicationInv, PublicationTypeOK, SlotPlaced, Version
  <2>2. \A v \in (queued + 1)..committedHighWater : v \in DOMAIN s
    BY <1>1, <1>2 DEF PublicationInv, PublicationTypeOK
  <2>3. Pump(s, FALSE, NoVersion)
    BY Zenon DEF StartThrows, SettleSlot
  <2>4. DOMAIN s \subseteq Version /\ committedHighWater \in Nat
    BY Zenon, <1>2 DEF PublicationInv, PublicationTypeOK
  <2> HIDE DEF s
  <2> QED
    BY Zenon, <1>1, <2>1, <2>2, <2>3, <2>4, PumpStartsNext
<1>4. /\ Counting'
      /\ items' \in Nat /\ bytes' \in Int /\ processed' \in Nat
      /\ failedVersions' \subseteq Version /\ lastFailureVersion' \in Nat
      /\ closePromise' \in {"none", "pending", "resolved"}
      /\ settledHighWater' \in settledHighWater..queued
      /\ settledHighWater' < queued => settledHighWater' + 1 \in unsettledVersions \ {queued}
      /\ \A w \in (settledHighWater + 1)..settledHighWater' : w \notin unsettledVersions \ {queued}
  <2>1. SettleSlot(queued, FALSE, queued, FALSE, NoVersion) /\ NoVersion \in Nat
    BY Zenon DEF StartThrows, NoVersion
  <2> QED
    BY Zenon, <1>1, <2>1, SettlePreserves
<1>5. unsettledVersions' = unsettledVersions
  BY Zenon, <1>1 DEF StartThrows, SettleSlot
<1>6. slots' \in [DOMAIN slots \ {queued} -> Slot] /\ DOMAIN slots' = DOMAIN slots \ {queued}
  <2>1. s \in [DOMAIN slots \ {queued} -> Slot]
    BY Zenon, <1>2 DEF PublicationInv, PublicationTypeOK, Detach
  <2> HIDE DEF s
  <2> QED
    BY <1>2, <1>3, <2>1 DEF Slot, SlotState
<1>7. PublicationTypeOK'
  <2> HIDE DEF s
  <2>1. queued' \in Nat
    BY <1>1, <1>3 DEF NoVersion
  <2>3. starting' \in BOOLEAN
    BY <1>3, Zenon
  <2>2. settledHighWater' \in Nat
    BY <1>1, <1>4 DEF PublicationInv, PublicationTypeOK
  <2> QED
    BY Zenon, <1>1, <1>4, <1>5, <1>6, <2>1, <2>2, <2>3
    DEF PublicationInv, PublicationTypeOK, StartThrows
<1>8. Placement'
  <2> HIDE DEF s
  <2>1. CASE queued = committedHighWater
    <3>1. slots' = s /\ starting' = FALSE /\ queued' = NoVersion
      BY <1>1, <1>3, <2>1 DEF PublicationInv, PublicationTypeOK
    <3> QED
      BY <1>1, <1>2, <1>4, <1>5, <2>1, <3>1
      DEF PublicationInv, PublicationTypeOK, Placement, SlotPlaced, NoVersion, Version,
          StartThrows
  <2>2. CASE queued < committedHighWater
    <3>1. /\ slots' = [s EXCEPT ![queued + 1].state = "processing"]
          /\ starting' = TRUE /\ queued' = queued + 1
      BY <1>1, <1>3, <2>2 DEF PublicationInv, PublicationTypeOK
    <3>2. queued + 1 \in DOMAIN s
      BY <1>1, <1>2, <2>2 DEF PublicationInv, PublicationTypeOK
    <3>3. (\A v \in DOMAIN slots : SlotPlaced(v))'
      BY <1>1, <1>2, <1>5, <2>2, <3>1, <3>2
      DEF PublicationInv, PublicationTypeOK, SlotPlaced, Version, StartThrows
    <3>4. DOMAIN slots' = DOMAIN slots \ {queued}
      BY Zenon, <1>2, <3>1
    <3>5. startedHighWater' = queued /\ committedHighWater' = committedHighWater
          /\ openReservation' = openReservation /\ awaited' = NoVersion
      BY Zenon, <1>1 DEF StartThrows
    <3>6. \A v \in unsettledVersions : settledHighWater' < v /\ v <= queued
      BY <1>1, <1>4 DEF PublicationInv, PublicationTypeOK, Version
    <3>7. openReservation # NoVersion =>
            openReservation = committedHighWater + 1 /\ openReservation \in DOMAIN slots'
      BY <1>1, <3>4 DEF PublicationInv, PublicationTypeOK
    <3>8. \A v \in (queued + 1)..committedHighWater : v \in DOMAIN slots'
      BY <1>1, <3>4 DEF PublicationInv, PublicationTypeOK
    <3>9. InitialVersion <= settledHighWater' /\ settledHighWater' <= queued
      BY <1>1, <1>4 DEF PublicationInv, PublicationTypeOK
    <3> QED
      BY <1>1, <1>4, <1>5, <2>2, <3>1, <3>3, <3>5, <3>6, <3>7, <3>8, <3>9
      DEF PublicationInv, PublicationTypeOK, Placement, NoVersion
  <2> QED
    BY <1>1, <2>1, <2>2 DEF PublicationInv, PublicationTypeOK
<1> QED
  BY Zenon, <1>4, <1>7, <1>8 DEF PublicationInv, Placement, Counting

(* The slot that kept the next one waiting completes: the invariant is     *)
(* preserved.                                                              *)
LEMMA SettleAwaitedPreserves ==
  ASSUME PublicationInv, NEW ok \in BOOLEAN, SettleAwaited(ok)
  PROVE  PublicationInv'
<1> USE PublicationAssumption
<1> DEFINE s == Detach(awaited)
           q == startedHighWater
<1>1. /\ awaited \in DOMAIN slots /\ awaited \in unsettledVersions
      /\ queued = NoVersion /\ awaited <= q /\ awaited \in Nat
  BY Zenon DEF PublicationInv, PublicationTypeOK, SettleAwaited, Version
<1>2. /\ DOMAIN s = DOMAIN slots \ {awaited}
      /\ \A v \in DOMAIN s : s[v] = slots[v]
  BY Zenon DEF Detach
<1>3. \/ /\ q = committedHighWater
         /\ slots' = s /\ starting' = FALSE /\ queued' = NoVersion
      \/ /\ q < committedHighWater
         /\ slots' = [s EXCEPT ![q + 1].state = "processing"]
         /\ starting' = TRUE /\ queued' = q + 1
  <2>1. \A v \in DOMAIN s :
          s[v].state = "committed" <=> q < v /\ v <= committedHighWater
    BY <1>1, <1>2 DEF PublicationInv, PublicationTypeOK, SlotPlaced, Version, NoVersion
  <2>2. \A v \in (q + 1)..committedHighWater : v \in DOMAIN s
    BY <1>1, <1>2 DEF PublicationInv, PublicationTypeOK
  <2>3. Pump(s, FALSE, NoVersion)
    BY Zenon DEF SettleAwaited, SettleSlot
  <2>4. /\ DOMAIN s \subseteq Version /\ committedHighWater \in Nat /\ q \in Nat
        /\ q <= committedHighWater
    BY Zenon, <1>2 DEF PublicationInv, PublicationTypeOK
  <2> HIDE DEF s, q
  <2> QED
    BY Zenon, <2>1, <2>2, <2>3, <2>4, PumpStartsNext
<1>4. /\ Counting'
      /\ items' \in Nat /\ bytes' \in Int /\ processed' \in Nat
      /\ failedVersions' \subseteq Version /\ lastFailureVersion' \in Nat
      /\ closePromise' \in {"none", "pending", "resolved"}
      /\ settledHighWater' \in settledHighWater..q
      /\ settledHighWater' < q => settledHighWater' + 1 \in unsettledVersions \ {awaited}
      /\ \A w \in (settledHighWater + 1)..settledHighWater' : w \notin unsettledVersions \ {awaited}
  <2>1. SettleSlot(awaited, ok, q, FALSE, NoVersion) /\ NoVersion \in Nat /\ q \in Nat
    BY Zenon DEF SettleAwaited, NoVersion, PublicationInv, PublicationTypeOK
  <2> HIDE DEF q
  <2> QED
    BY Zenon, <1>1, <2>1, SettlePreserves
<1>5. /\ unsettledVersions' = unsettledVersions \ {awaited}
      /\ startedHighWater' = q /\ committedHighWater' = committedHighWater
      /\ openReservation' = openReservation /\ awaited' = NoVersion
  BY Zenon DEF SettleAwaited, SettleSlot
<1>6. slots' \in [DOMAIN slots \ {awaited} -> Slot] /\ DOMAIN slots' = DOMAIN slots \ {awaited}
  <2>1. s \in [DOMAIN slots \ {awaited} -> Slot]
    BY Zenon, <1>2 DEF PublicationInv, PublicationTypeOK, Detach
  <2> HIDE DEF s, q
  <2> QED
    BY <1>2, <1>3, <2>1 DEF Slot, SlotState
<1>7. PublicationTypeOK'
  <2> HIDE DEF s
  <2>1. queued' \in Nat
    BY <1>3 DEF NoVersion, PublicationInv, PublicationTypeOK
  <2>2. settledHighWater' \in Nat
    BY <1>4 DEF PublicationInv, PublicationTypeOK
  <2>3. starting' \in BOOLEAN
    BY <1>3, Zenon
  <2> QED
    BY Zenon, <1>1, <1>4, <1>5, <1>6, <2>1, <2>2, <2>3
    DEF PublicationInv, PublicationTypeOK, SettleAwaited, NoVersion
<1>8. Placement'
  <2> HIDE DEF s
  <2>1. \A v \in unsettledVersions' : settledHighWater' < v /\ v <= q
    BY <1>4, <1>5 DEF PublicationInv, PublicationTypeOK, Version
  <2>2. openReservation # NoVersion =>
          openReservation = committedHighWater + 1 /\ openReservation \in DOMAIN slots'
    BY <1>1, <1>6 DEF PublicationInv, PublicationTypeOK
  <2>3. \A v \in (q + 1)..committedHighWater : v \in DOMAIN slots'
    BY <1>1, <1>6 DEF PublicationInv, PublicationTypeOK
  <2>4. InitialVersion <= settledHighWater' /\ settledHighWater' <= q
        /\ q <= committedHighWater /\ q \in Nat /\ committedHighWater \in Nat
    BY <1>4 DEF PublicationInv, PublicationTypeOK
  <2>5. CASE q = committedHighWater
    <3>1. slots' = s /\ starting' = FALSE /\ queued' = NoVersion
      BY <1>3, <2>5, <2>4
    <3>2. (\A v \in DOMAIN slots : SlotPlaced(v))'
      BY Zenon, <1>1, <1>2, <1>5, <2>5, <3>1
      DEF PublicationInv, PublicationTypeOK, SlotPlaced, Version, NoVersion
    <3> QED
      BY Zenon, <1>4, <1>5, <2>1, <2>2, <2>3, <2>4, <2>5, <3>1, <3>2 DEF Placement
  <2>6. CASE q < committedHighWater
    <3>1. /\ slots' = [s EXCEPT ![q + 1].state = "processing"]
          /\ starting' = TRUE /\ queued' = q + 1
      BY <1>3, <2>6, <2>4
    <3>2. q + 1 \in DOMAIN s
      BY <1>1, <1>2, <2>6, <2>4 DEF PublicationInv, PublicationTypeOK
    <3>3. (\A v \in DOMAIN slots : SlotPlaced(v))'
      BY <1>1, <1>2, <1>5, <2>6, <3>1, <3>2
      DEF PublicationInv, PublicationTypeOK, SlotPlaced, Version, NoVersion
    <3> QED
      BY <1>4, <1>5, <2>1, <2>2, <2>3, <2>4, <2>6, <3>1, <3>3 DEF Placement, NoVersion
  <2> QED
    BY <2>4, <2>5, <2>6
<1> QED
  BY Zenon, <1>4, <1>7, <1>8 DEF PublicationInv, Placement, Counting

(* A handed-off slot completes: the invariant is preserved, whether or not *)
(* another slot is starting.                                               *)
LEMMA SettleHandedOffPreserves ==
  ASSUME PublicationInv, NEW v \in unsettledVersions, NEW ok \in BOOLEAN,
         SettleHandedOff(v, ok)
  PROVE  PublicationInv'
<1> USE PublicationAssumption
<1> DEFINE s == Detach(v)
           q == startedHighWater
<1>1. /\ v \in DOMAIN slots /\ v # awaited /\ v <= q /\ v \in Nat
      /\ v # queued /\ v # openReservation
  BY DEF PublicationInv, PublicationTypeOK, SettleHandedOff, Version, NoVersion
<1>2. /\ DOMAIN s = DOMAIN slots \ {v}
      /\ \A w \in DOMAIN s : s[w] = slots[w]
  BY Zenon DEF Detach
<1>3. slots' = s /\ starting' = starting /\ queued' = queued
  <2>1. Pump(s, starting, queued)
    BY Zenon DEF SettleHandedOff, SettleSlot
  <2>2. CASE starting
    BY Zenon, <2>1, <2>2 DEF Pump
  <2>3. CASE ~starting
    <3>1. Committed(s) = {}
      BY <1>1, <1>2, <2>3
      DEF Committed, PublicationInv, PublicationTypeOK, SlotPlaced, Version
    <3> QED
      BY Zenon, <2>1, <2>3, <3>1 DEF Pump
  <2> QED
    BY Zenon, <2>2, <2>3
<1>4. /\ Counting'
      /\ items' \in Nat /\ bytes' \in Int /\ processed' \in Nat
      /\ failedVersions' \subseteq Version /\ lastFailureVersion' \in Nat
      /\ closePromise' \in {"none", "pending", "resolved"}
      /\ settledHighWater' \in settledHighWater..q
      /\ settledHighWater' < q => settledHighWater' + 1 \in unsettledVersions \ {v}
      /\ \A w \in (settledHighWater + 1)..settledHighWater' : w \notin unsettledVersions \ {v}
  <2>1. /\ SettleSlot(v, ok, q, starting, queued) /\ queued \in Nat /\ q \in Nat
        /\ starting \in BOOLEAN
    BY Zenon DEF SettleHandedOff, PublicationInv, PublicationTypeOK
  <2> HIDE DEF q
  <2> QED
    BY <1>1, <2>1, SettlePreserves
<1>5. /\ unsettledVersions' = unsettledVersions \ {v}
      /\ startedHighWater' = q /\ committedHighWater' = committedHighWater
      /\ openReservation' = openReservation /\ awaited' = awaited
      /\ closed' = closed
  BY Zenon DEF SettleHandedOff, SettleSlot
<1>6. slots' \in [DOMAIN slots' -> Slot] /\ DOMAIN slots' = DOMAIN slots \ {v}
  BY Zenon, <1>2, <1>3 DEF PublicationInv, PublicationTypeOK, Detach
<1>7. PublicationTypeOK'
  <2>1. settledHighWater' \in Nat
    BY <1>4 DEF PublicationInv, PublicationTypeOK
  <2> QED
    BY Zenon, <1>1, <1>3, <1>4, <1>5, <1>6, <2>1 DEF PublicationInv, PublicationTypeOK
<1>8. Placement'
  <2> HIDE DEF s
  <2>1. \A w \in unsettledVersions' : settledHighWater' < w /\ w <= q
    BY <1>4, <1>5 DEF PublicationInv, PublicationTypeOK, Version
  <2>2. (\A w \in DOMAIN slots : SlotPlaced(w))'
    BY Zenon, <1>1, <1>2, <1>3, <1>5 DEF PublicationInv, PublicationTypeOK, SlotPlaced, Version
  <2>3. \A w \in (q + 1)..committedHighWater : w \in DOMAIN slots'
    BY <1>1, <1>6 DEF PublicationInv, PublicationTypeOK
  <2>4. InitialVersion <= settledHighWater' /\ settledHighWater' <= q
    BY <1>4 DEF PublicationInv, PublicationTypeOK
  <2> QED
    BY Zenon, <1>1, <1>3, <1>4, <1>5, <1>6, <2>1, <2>2, <2>3, <2>4
    DEF Placement, PublicationInv, PublicationTypeOK
<1> QED
  BY Zenon, <1>4, <1>7, <1>8 DEF PublicationInv, Placement, Counting

(* close() preserves the invariant.                                        *)
LEMMA ClosePreserves ==
  ASSUME PublicationInv, Close
  PROVE  PublicationInv'
  BY Zenon DEF PublicationInv, PublicationTypeOK, SlotPlaced, Close, ResolveCloseIfDrained,
         highWaters, pumping, outcomes

(* A step that changes nothing preserves the inductive invariant.          *)
LEMMA StutterPreserves ==
  ASSUME PublicationInv, UNCHANGED pubVars
  PROVE  PublicationInv'
  BY Zenon DEF PublicationInv, PublicationTypeOK, SlotPlaced, pubVars

(* Every step of publication preserves the invariant.                      *)
LEMMA NextPreservesInv ==
  ASSUME PublicationInv, [PublicationNext]_pubVars
  PROVE  PublicationInv'
<1>1. CASE \E b \in Sizes : Reserve(b)
  BY Zenon, <1>1, ReservePreserves, PublicationAssumption
<1>2. CASE \E b \in Sizes : Resize(b)
  BY Zenon, <1>2, ResizePreserves
<1>3. CASE CommitSlot
  BY Zenon, <1>3, CommitPreserves
<1>4. CASE CancelSlot
  BY Zenon, <1>4, CancelPreserves
<1>5. CASE StartThrows
  BY Zenon, <1>5, ThrowPreserves
<1>6. CASE StartHandsOff
  BY Zenon, <1>6, HandOffPreserves
<1>7. CASE StartAwaits
  BY Zenon, <1>7, AwaitPreserves
<1>8. CASE \E v \in unsettledVersions, ok \in BOOLEAN : SettleHandedOff(v, ok)
  BY Zenon, <1>8, SettleHandedOffPreserves
<1>9. CASE \E ok \in BOOLEAN : SettleAwaited(ok)
  BY Zenon, <1>9, SettleAwaitedPreserves
<1>10. CASE Close
  BY Zenon, <1>10, ClosePreserves
<1>11. CASE UNCHANGED pubVars
  BY Zenon, <1>11, StutterPreserves
<1> QED
  BY Zenon, <1>1, <1>2, <1>3, <1>4, <1>5, <1>6, <1>7, <1>8, <1>9, <1>10, <1>11
  DEF PublicationNext

(* The inductive invariant holds in every state of every instance, and     *)
(* with it the type invariant.                                             *)
THEOREM PublicationInvariant == PublicationSpec => []PublicationInv
<1>1. PublicationInit => PublicationInv
  BY Zenon, InitEstablishesInv
<1>2. PublicationInv /\ [PublicationNext]_pubVars => PublicationInv'
  BY Zenon, NextPreservesInv
<1> QED
  BY <1>1, <1>2, PTL DEF PublicationSpec

(* processedHighWater is exact for every backlog and every order of        *)
(* settlement.                                                             *)
THEOREM SettledPrefixHolds == PublicationSpec => []SettledPrefix
<1>1. PublicationInv => SettledPrefix
  BY DEF PublicationInv, PublicationTypeOK, SlotPlaced, SettledPrefix, Version
<1> QED
  BY <1>1, PublicationInvariant, PTL

(* The list stays in version order and no committed version is handed out  *)
(* again.                                                                  *)
THEOREM AppendedLastHolds == PublicationSpec => []AppendedLast
<1>1. PublicationInv => AppendedLast
  BY DEF PublicationInv, PublicationTypeOK, SlotPlaced, AppendedLast, Version
<1> QED
  BY <1>1, PublicationInvariant, PTL

(* pump() never leaves a committed slot with nobody to start it.           *)
THEOREM NoLostWakeupHolds == PublicationSpec => []NoLostWakeup
<1>1. PublicationInv => NoLostWakeup
  <2> SUFFICES ASSUME PublicationInv PROVE NoLostWakeup
    BY Zenon
  <2>1. ASSUME NEW v \in Committed(slots) PROVE starting
    BY <2>1
    DEF Committed, PublicationInv, PublicationTypeOK, SlotPlaced, Version
  <2>2. queued # NoVersion =>
          queued \in DOMAIN slots /\ slots[queued].state = "processing"
    BY DEF PublicationInv, PublicationTypeOK, SlotPlaced, Version
  <2> QED
    BY Zenon, <2>1, <2>2 DEF NoLostWakeup, PublicationInv
<1> QED
  BY <1>1, PublicationInvariant, PTL

(* Work on committed versions starts one version at a time, in order.      *)
THEOREM StartsInOrderHolds == PublicationSpec => StartsInOrder
<1>1. PublicationInv /\ [PublicationNext]_pubVars =>
        [startedHighWater' # startedHighWater =>
           startedHighWater' = startedHighWater + 1]_pubVars
  BY Zenon DEF PublicationInv, PublicationNext, pubVars, Reserve, Resize, CommitSlot,
         CancelSlot, StartThrows, StartHandsOff, StartAwaits, SettleHandedOff,
         SettleAwaited, Close, highWaters
<1> QED
  BY <1>1, PublicationInvariant, PTL DEF PublicationSpec, StartsInOrder

-----------------------------------------------------------------------------
(* Refinement of the ordered log.                                          *)

(* The settled versions, as the ordered log sees them.                     *)
SettledVersions == ((InitialVersion + 1)..startedHighWater) \ unsettledVersions

(* In every state the reported high water ends the settled prefix.         *)
LEMMA PrefixEnds ==
  ASSUME PublicationInv
  PROVE  OrderedLog!EndsPrefix(settledHighWater, SettledVersions)
  BY PublicationAssumption
  DEF PublicationInv, PublicationTypeOK, SettledVersions, OrderedLog!EndsPrefix, Version

(* commitSlot() is a step of the log.                                      *)
LEMMA CommitRefines ==
  ASSUME PublicationInv, CommitSlot
  PROVE  OrderedLog!Commit
  BY Zenon DEF PublicationInv, PublicationTypeOK, CommitSlot, OrderedLog!Commit

(* A microtask that hands off or awaits starts the next version.           *)
LEMMA StartRefines ==
  ASSUME PublicationInv, StartHandsOff \/ StartAwaits
  PROVE  OrderedLog!Start
<1>1. /\ queued = startedHighWater + 1 /\ queued <= committedHighWater
      /\ startedHighWater' = queued
      /\ unsettledVersions' = unsettledVersions \cup {queued}
      /\ committedHighWater' = committedHighWater /\ settledHighWater' = settledHighWater
  BY Zenon DEF PublicationInv, StartHandsOff, StartAwaits
<1> QED
  BY <1>1, PublicationAssumption
  DEF PublicationInv, PublicationTypeOK, OrderedLog!Start, Version

(* A microtask whose processor throws starts and settles it.               *)
LEMMA ThrowRefines ==
  ASSUME PublicationInv, PublicationInv', StartThrows
  PROVE  OrderedLog!StartAndSettle
<1>1. /\ queued = startedHighWater + 1 /\ queued <= committedHighWater
      /\ startedHighWater' = queued
      /\ unsettledVersions' = unsettledVersions \ {queued}
      /\ committedHighWater' = committedHighWater
  BY Zenon DEF PublicationInv, StartThrows, SettleSlot
<1>2. SettledVersions' = SettledVersions \cup {startedHighWater + 1}
  BY <1>1, PublicationAssumption
  DEF PublicationInv, PublicationTypeOK, SettledVersions, Version
<1>3. OrderedLog!EndsPrefix(settledHighWater, SettledVersions)'
  BY PrefixEnds, PublicationAssumption
  DEF PublicationInv, PublicationTypeOK, SettledVersions, OrderedLog!EndsPrefix, Version
<1> QED
  BY <1>1, <1>2, <1>3
  DEF PublicationInv, PublicationTypeOK, OrderedLog!StartAndSettle, SettledVersions,
      OrderedLog!EndsPrefix

(* Settling a slot settles its version in the log.                         *)
LEMMA SettleRefines ==
  ASSUME PublicationInv, PublicationInv', NEW v \in unsettledVersions,
         unsettledVersions' = unsettledVersions \ {v},
         startedHighWater' = startedHighWater, committedHighWater' = committedHighWater
  PROVE  v \in (InitialVersion + 1)..startedHighWater /\ OrderedLog!Settle(v)
<1>1. v \in ((InitialVersion + 1)..startedHighWater) \ SettledVersions
  BY PublicationAssumption
  DEF PublicationInv, PublicationTypeOK, SettledVersions, Version
<1>2. SettledVersions' = SettledVersions \cup {v}
  BY Zenon, <1>1 DEF SettledVersions
<1>3. OrderedLog!EndsPrefix(settledHighWater, SettledVersions)'
  BY PublicationAssumption
  DEF PublicationInv, PublicationTypeOK, SettledVersions, OrderedLog!EndsPrefix, Version
<1> QED
  BY Zenon, <1>1, <1>2, <1>3
  DEF OrderedLog!Settle, SettledVersions, OrderedLog!EndsPrefix

(* OrderedPublication implements the ordered log.                          *)
THEOREM PublicationRefinesLog == PublicationSpec => ImplementsOrderedLog
<1>1. PublicationInit => OrderedLog!Init
  BY PublicationAssumption DEF PublicationInit, OrderedLog!Init
<1>2. PublicationInv /\ PublicationInv' /\ [PublicationNext]_pubVars =>
        [OrderedLog!Next]_(OrderedLog!logVars)
  <2> SUFFICES ASSUME PublicationInv, PublicationInv', [PublicationNext]_pubVars
               PROVE  [OrderedLog!Next]_(OrderedLog!logVars)
    BY Zenon
  <2>1. CASE CommitSlot
    BY Zenon, <2>1, CommitRefines DEF OrderedLog!Next
  <2>2. CASE StartHandsOff \/ StartAwaits
    BY Zenon, <2>2, StartRefines DEF OrderedLog!Next
  <2>3. CASE StartThrows
    BY Zenon, <2>3, ThrowRefines DEF OrderedLog!Next
  <2>4. CASE \E v \in unsettledVersions, ok \in BOOLEAN : SettleHandedOff(v, ok)
    BY Zenon, <2>4, SettleRefines DEF SettleHandedOff, SettleSlot, OrderedLog!Next
  <2>5. CASE \E ok \in BOOLEAN : SettleAwaited(ok)
    <3>1. awaited \in unsettledVersions
      BY Zenon, <2>5 DEF PublicationInv, SettleAwaited
    <3> QED
      BY Zenon, <2>5, <3>1, SettleRefines DEF SettleAwaited, SettleSlot, OrderedLog!Next
  <2>6. CASE \/ \E b \in Sizes : Reserve(b) \/ Resize(b)
             \/ CancelSlot \/ Close \/ UNCHANGED pubVars
    BY Zenon, <2>6
    DEF OrderedLog!logVars, Reserve, Resize, CancelSlot, Close, pubVars, highWaters,
        pumping
  <2> QED
    BY Zenon, <2>1, <2>2, <2>3, <2>4, <2>5, <2>6 DEF PublicationNext
<1> QED
  BY <1>1, <1>2, PublicationInvariant, PTL
  DEF PublicationSpec, ImplementsOrderedLog, OrderedLog!Spec

-----------------------------------------------------------------------------
(* The end of close().                                                     *)

(* The close promise is resolved only when the list is empty.              *)
DrainInv == closePromise = "resolved" => closed /\ items = 0

(* Nothing is enabled once the close promise is resolved.                  *)
LEMMA DrainedIsFinal ==
  ASSUME PublicationInv, DrainInv, closePromise = "resolved",
         [PublicationNext]_pubVars
  PROVE  UNCHANGED pubVars
<1>1. closed /\ DOMAIN slots = {}
  BY Zenon, FS_EmptySet DEF PublicationInv, DrainInv
<1>2. openReservation = NoVersion /\ queued = NoVersion /\ awaited = NoVersion
      /\ unsettledVersions = {}
  BY <1>1 DEF PublicationInv, PublicationTypeOK
<1> QED
  BY Zenon, <1>1, <1>2
  DEF PublicationNext, Reserve, Resize, CommitSlot, CancelSlot, StartThrows,
      StartHandsOff, StartAwaits, SettleHandedOff, SettleAwaited, Close

(* close() resolves when every slot has settled, and for good.             *)
THEOREM DrainedForGoodHolds == PublicationSpec => DrainedForGood
<1>1. PublicationInit => DrainInv
  BY Zenon DEF PublicationInit, DrainInv
<1>2. PublicationInv /\ DrainInv /\ [PublicationNext]_pubVars => DrainInv'
  <2> SUFFICES ASSUME PublicationInv, DrainInv, [PublicationNext]_pubVars
               PROVE  DrainInv'
    BY Zenon
  <2>1. CASE closePromise = "resolved"
    BY Zenon, <2>1, DrainedIsFinal DEF DrainInv, pubVars
  <2>2. CASE closePromise # "resolved"
    <3>1. CASE UNCHANGED closePromise
      BY Zenon, <2>2, <3>1 DEF DrainInv
    <3>2. CASE CancelSlot \/ StartThrows
      <4>1. /\ closed' = closed /\ items' = items - 1
            /\ closePromise' = IF closed /\ items - 1 = 0 THEN "resolved" ELSE closePromise
        BY <3>2, Zenon DEF CancelSlot, StartThrows, SettleSlot, ResolveCloseIfDrained
      <4> QED
        BY <2>2, <4>1, Zenon DEF DrainInv
    <3>3. CASE \E v \in unsettledVersions, ok \in BOOLEAN : SettleHandedOff(v, ok)
      BY <2>2, <3>3 DEF DrainInv, SettleHandedOff, SettleSlot, ResolveCloseIfDrained
    <3>4. CASE \E ok \in BOOLEAN : SettleAwaited(ok)
      BY <2>2, <3>4 DEF DrainInv, SettleAwaited, SettleSlot, ResolveCloseIfDrained
    <3>5. CASE Close
      BY Zenon, <3>5 DEF DrainInv, Close, ResolveCloseIfDrained
    <3> QED
      BY Zenon, <3>1, <3>2, <3>3, <3>4, <3>5
      DEF PublicationNext, Reserve, Resize, CommitSlot, StartHandsOff, StartAwaits, pubVars
  <2> QED
    BY Zenon, <2>1, <2>2
<1>3. PublicationInv /\ DrainInv /\ [PublicationNext]_pubVars =>
        [closePromise = "resolved" => UNCHANGED pubVars]_pubVars
  BY Zenon, DrainedIsFinal
<1> QED
  BY <1>1, <1>2, <1>3, PublicationInvariant, PTL DEF PublicationSpec, DrainedForGood

-----------------------------------------------------------------------------

(* The sizes of the linked slots.                                          *)
SlotBytes(s) == [v \in DOMAIN s |-> s[v].bytes]

(* What the two counters say of the list.                                  *)
CapacityInv ==
  /\ bytes = SumFunctionOnSet(SlotBytes(slots), DOMAIN slots)
  /\ bytes <= MaxBytes
  /\ items <= MaxItems

(* The sizes of the linked slots are integers.                             *)
LEMMA SlotBytesType ==
  ASSUME PublicationInv
  PROVE  /\ IsFiniteSet(DOMAIN slots)
         /\ \A v \in DOMAIN slots : slots[v] \in Slot /\ slots[v].bytes \in Nat
         /\ \A v \in DOMAIN slots : SlotBytes(slots)[v] = slots[v].bytes
         /\ \A v \in DOMAIN slots : SlotBytes(slots)[v] \in Int
         /\ SumFunctionOnSet(SlotBytes(slots), DOMAIN slots) \in Int
<1>1. IsFiniteSet(DOMAIN slots) /\ \A v \in DOMAIN slots : slots[v] \in Slot
  BY Zenon DEF PublicationInv, PublicationTypeOK
<1>2. \A v \in DOMAIN slots : slots[v].bytes \in Nat
  BY Zenon, <1>1 DEF Slot
<1>3. \A v \in DOMAIN slots : SlotBytes(slots)[v] = slots[v].bytes
  BY Zenon DEF SlotBytes
<1>4. \A v \in DOMAIN slots : SlotBytes(slots)[v] \in Int
  BY <1>2, <1>3
<1>5. SumFunctionOnSet(SlotBytes(slots), DOMAIN slots) \in Int
  BY Zenon, <1>1, <1>4, SumType
<1> QED BY Zenon, <1>1, <1>2, <1>3, <1>4, <1>5

(* pump() changes the state of a slot at most.                             *)
LEMMA PumpKeepsBytes ==
  ASSUME NEW s, \A v \in DOMAIN s : s[v] \in Slot, NEW isStarting, NEW pending,
         Pump(s, isStarting, pending)
  PROVE  DOMAIN slots' = DOMAIN s /\ \A v \in DOMAIN s : slots'[v].bytes = s[v].bytes
<1>1. CASE slots' = s
  BY Zenon, <1>1
<1>2. ASSUME NEW v \in Committed(s), slots' = [s EXCEPT ![v].state = "processing"]
      PROVE  DOMAIN slots' = DOMAIN s /\ \A w \in DOMAIN s : slots'[w].bytes = s[w].bytes
  BY Zenon, <1>2 DEF Committed, Slot
<1> QED BY Zenon, <1>1, <1>2 DEF Pump

(* Sizes that stay leave their sum.                                        *)
LEMMA BytesKept ==
  ASSUME PublicationInv, CapacityInv, UNCHANGED <<bytes, items>>,
         DOMAIN slots' = DOMAIN slots, \A v \in DOMAIN slots : slots'[v].bytes = slots[v].bytes
  PROVE  CapacityInv'
<1>1. \A v \in DOMAIN slots : SlotBytes(slots')[v] = SlotBytes(slots)[v]
  BY Zenon DEF SlotBytes
<1>2. SumFunctionOnSet(SlotBytes(slots'), DOMAIN slots) =
        SumFunctionOnSet(SlotBytes(slots), DOMAIN slots)
  BY Zenon, <1>1, SlotBytesType, SumLocal
<1> QED BY Zenon, <1>2 DEF CapacityInv

(* detach() returns the size of the slot it unlinks.                       *)
LEMMA BytesReturned ==
  ASSUME PublicationInv, CapacityInv, NEW v \in DOMAIN slots,
         bytes' = bytes - slots[v].bytes, items' = items - 1,
         DOMAIN slots' = DOMAIN slots \ {v},
         \A w \in DOMAIN slots \ {v} : slots'[w].bytes = slots[w].bytes
  PROVE  CapacityInv'
<1>1. \A w \in DOMAIN slots \ {v} : SlotBytes(slots')[w] = SlotBytes(slots)[w]
  BY Zenon DEF SlotBytes
<1>2. SumFunctionOnSet(SlotBytes(slots'), DOMAIN slots \ {v}) =
        SumFunctionOnSet(SlotBytes(slots), DOMAIN slots) - SlotBytes(slots)[v]
  <2>1. /\ IsFiniteSet(DOMAIN slots)
        /\ \A w \in DOMAIN slots : SlotBytes(slots)[w] \in Int
    BY Zenon, SlotBytesType
  <2> QED BY <1>1, <2>1, SumShrinks
<1>3. bytes' = SumFunctionOnSet(SlotBytes(slots'), DOMAIN slots')
  BY Zenon, <1>2, SlotBytesType DEF CapacityInv
<1>4. bytes' <= MaxBytes /\ items' <= MaxItems
  <2>1. slots[v].bytes \in Nat /\ bytes \in Int /\ items \in Nat
    BY Zenon, SlotBytesType DEF PublicationInv, PublicationTypeOK
  <2> QED BY <2>1, PublicationAssumption DEF CapacityInv
<1> QED BY Zenon, <1>3, <1>4 DEF CapacityInv

(* A slot that settles returns its capacity.                               *)
LEMMA SettleReturns ==
  ASSUME PublicationInv, CapacityInv, NEW v \in DOMAIN slots, NEW ok, NEW started,
         NEW isStarting, NEW pending, SettleSlot(v, ok, started, isStarting, pending)
  PROVE  CapacityInv'
<1>1. /\ Pump(Detach(v), isStarting, pending)
      /\ bytes' = bytes - slots[v].bytes /\ items' = items - 1
  BY Zenon DEF SettleSlot
<1>2. DOMAIN Detach(v) = DOMAIN slots \ {v} /\ \A w \in DOMAIN Detach(v) : Detach(v)[w] = slots[w]
  BY Zenon DEF Detach
<1>3. \A w \in DOMAIN Detach(v) : Detach(v)[w] \in Slot
  BY Zenon, <1>2, SlotBytesType
<1>4. /\ DOMAIN slots' = DOMAIN Detach(v)
      /\ \A w \in DOMAIN Detach(v) : slots'[w].bytes = Detach(v)[w].bytes
  BY Zenon, <1>1, <1>3, PumpKeepsBytes
<1> QED BY Zenon, <1>1, <1>2, <1>4, BytesReturned

(* reserve() and resizeSlot() check the limit before they add.             *)
LEMMA CapacityChecked ==
  ASSUME PublicationInv, CapacityInv, NEW b \in Nat, Reserve(b) \/ Resize(b)
  PROVE  CapacityInv'
<1>1. CASE Reserve(b)
  <2>0. PICK v : v = committedHighWater + 1
    BY Zenon
  <2>1. v \notin DOMAIN slots
    BY <1>1, <2>0, PublicationAssumption
    DEF PublicationInv, PublicationTypeOK, SlotPlaced, Reserve, NoVersion, Version
  <2>2. /\ slots' = Link(v, b) /\ bytes' = bytes + b /\ items' = items + 1
        /\ bytes + b <= MaxBytes /\ items < MaxItems
    BY Zenon, <1>1, <2>0 DEF Reserve
  <2>3. DOMAIN slots' = DOMAIN slots \cup {v} /\ \A w \in DOMAIN slots : slots'[w] = slots[w]
    BY Zenon, <2>1, <2>2 DEF Link
  <2>4. slots'[v].bytes = b
    BY Zenon, <2>2 DEF Link
  <2>5. /\ \A w \in DOMAIN slots : SlotBytes(slots')[w] = SlotBytes(slots)[w]
        /\ SlotBytes(slots')[v] = b
    BY Zenon, <2>3, <2>4 DEF SlotBytes
  <2>6. SumFunctionOnSet(SlotBytes(slots'), DOMAIN slots \cup {v}) =
          SumFunctionOnSet(SlotBytes(slots), DOMAIN slots) + SlotBytes(slots')[v]
    <3>1. /\ IsFiniteSet(DOMAIN slots) /\ SlotBytes(slots')[v] \in Int
          /\ \A w \in DOMAIN slots :
               SlotBytes(slots)[w] \in Int /\ SlotBytes(slots')[w] = SlotBytes(slots)[w]
      <4>1. b \in Int
        OBVIOUS
      <4> QED BY Zenon, <2>5, <4>1, SlotBytesType
    <3> QED BY <2>1, <3>1, SumExtends
  <2>7. items' <= MaxItems
    BY <2>2, PublicationAssumption DEF PublicationInv, PublicationTypeOK
  <2> QED BY Zenon, <2>2, <2>3, <2>5, <2>6, <2>7 DEF CapacityInv
<1>2. CASE Resize(b)
  <2>0. PICK v : v = openReservation
    BY Zenon
  <2>1. /\ v \in DOMAIN slots /\ slots' = [slots EXCEPT ![v].bytes = b]
        /\ bytes + b <= MaxBytes + slots[v].bytes /\ bytes' = bytes + b - slots[v].bytes
        /\ UNCHANGED items
    BY Zenon, <1>2, <2>0 DEF Resize, PublicationInv
  <2>2. slots[v] \in Slot /\ slots[v].bytes \in Nat
    BY Zenon, <2>1, SlotBytesType
  <2>3. DOMAIN slots' = DOMAIN slots /\ \A w \in DOMAIN slots \ {v} : slots'[w] = slots[w]
    BY Zenon, <2>1
  <2>4. slots'[v].bytes = b
    BY Zenon, <2>1, <2>2 DEF Slot
  <2>5. /\ \A w \in DOMAIN slots \ {v} : SlotBytes(slots')[w] = SlotBytes(slots)[w]
        /\ SlotBytes(slots')[v] = b /\ SlotBytes(slots)[v] = slots[v].bytes
    BY Zenon, <2>1, <2>3, <2>4 DEF SlotBytes
  <2>6. SumFunctionOnSet(SlotBytes(slots'), DOMAIN slots) =
          SumFunctionOnSet(SlotBytes(slots), DOMAIN slots) - SlotBytes(slots)[v]
            + SlotBytes(slots')[v]
    <3>1. /\ IsFiniteSet(DOMAIN slots) /\ v \in DOMAIN slots /\ SlotBytes(slots')[v] \in Int
          /\ \A w \in DOMAIN slots : SlotBytes(slots)[w] \in Int
          /\ \A w \in DOMAIN slots \ {v} : SlotBytes(slots')[w] = SlotBytes(slots)[w]
      <4>1. b \in Int
        OBVIOUS
      <4> QED BY Zenon, <2>1, <2>5, <4>1, SlotBytesType
    <3> QED BY <3>1, SumChanges
  <2>7. bytes \in Int
    BY Zenon DEF PublicationInv, PublicationTypeOK
  <2>8. bytes' <= MaxBytes
    BY <2>1, <2>2, <2>7, PublicationAssumption
  <2>9. bytes' = bytes - slots[v].bytes + b
    BY <2>1, <2>2, <2>7
  <2> QED BY Zenon, <2>1, <2>3, <2>5, <2>6, <2>8, <2>9 DEF CapacityInv
<1> QED BY Zenon, <1>1, <1>2

(* Every step preserves it.                                                *)
LEMMA CapacityStep ==
  ASSUME PublicationInv, CapacityInv, [PublicationNext]_pubVars
  PROVE  CapacityInv'
<1>1. ASSUME NEW b \in Sizes, Reserve(b) \/ Resize(b) PROVE CapacityInv'
  BY Zenon, <1>1, CapacityChecked, PublicationAssumption
<1>2. CASE CommitSlot
  <2>0. PICK v : v = openReservation
    BY Zenon
  <2>1. /\ v \in DOMAIN slots /\ UNCHANGED <<bytes, items>>
        /\ Pump([slots EXCEPT ![v].state = "committed"], starting, queued)
    BY Zenon, <1>2, <2>0 DEF CommitSlot, PublicationInv
  <2>2. PICK s : s = [slots EXCEPT ![v].state = "committed"]
    BY Zenon
  <2>3. /\ DOMAIN s = DOMAIN slots /\ \A w \in DOMAIN s : s[w] \in Slot
        /\ \A w \in DOMAIN s : s[w].bytes = slots[w].bytes
    <3>1. \A w \in DOMAIN slots : slots[w] \in Slot
      BY Zenon, SlotBytesType
    <3> QED BY Zenon, <2>1, <2>2, <3>1 DEF Slot, SlotState
  <2>4. DOMAIN slots' = DOMAIN s /\ \A w \in DOMAIN s : slots'[w].bytes = s[w].bytes
    BY Zenon, <2>1, <2>2, <2>3, PumpKeepsBytes
  <2> QED BY Zenon, <2>1, <2>3, <2>4, BytesKept
<1>3. CASE CancelSlot
  <2>0. PICK v : v = openReservation
    BY Zenon
  <2>1. /\ v \in DOMAIN slots /\ bytes' = bytes - slots[v].bytes /\ items' = items - 1
        /\ DOMAIN slots' = DOMAIN slots \ {v}
        /\ \A w \in DOMAIN slots \ {v} : slots'[w].bytes = slots[w].bytes
    BY Zenon, <1>3, <2>0 DEF CancelSlot, Detach, PublicationInv
  <2> QED BY Zenon, <2>1, BytesReturned
<1>4. CASE StartThrows
  <2>1. queued \in DOMAIN slots
    BY <1>4 DEF StartThrows, PublicationInv, PublicationTypeOK
  <2> QED BY Zenon, <1>4, <2>1, SettleReturns DEF StartThrows
<1>5. CASE StartHandsOff
  <2>1. Pump(slots, FALSE, NoVersion) /\ UNCHANGED <<bytes, items>>
    BY Zenon, <1>5 DEF StartHandsOff
  <2> QED BY Zenon, <2>1, SlotBytesType, PumpKeepsBytes, BytesKept
<1>6. CASE StartAwaits \/ Close \/ UNCHANGED pubVars
  BY Zenon, <1>6, BytesKept DEF StartAwaits, Close, pubVars
<1>7. ASSUME NEW v \in unsettledVersions, NEW ok, SettleHandedOff(v, ok) PROVE CapacityInv'
  BY Zenon, <1>7, SettleReturns DEF SettleHandedOff, PublicationInv, PublicationTypeOK
<1>8. ASSUME NEW ok, SettleAwaited(ok) PROVE CapacityInv'
  BY Zenon, <1>8, SettleReturns DEF SettleAwaited, PublicationInv, PublicationTypeOK
<1> QED BY Zenon, <1>1, <1>2, <1>3, <1>4, <1>5, <1>6, <1>7, <1>8 DEF PublicationNext

(* The counters reserve() checks are exact: they are the number and the    *)
(* sizes of the linked slots, and never exceed the limits, whatever is     *)
(* resized, cancelled or settled out of order.                             *)
THEOREM CapacityExactHolds == PublicationSpec => []CapacityExact
<1>1. PublicationInit => CapacityInv
  <2> SUFFICES ASSUME PublicationInit PROVE CapacityInv
    BY Zenon
  <2>1. DOMAIN slots = {} /\ bytes = 0 /\ items = 0
    BY Zenon DEF PublicationInit
  <2>2. SumFunctionOnSet(SlotBytes(slots), DOMAIN slots) = 0
    BY Zenon, <2>1, SumEmpty
  <2> QED BY <2>1, <2>2, PublicationAssumption DEF CapacityInv
<1>2. PublicationInv /\ CapacityInv /\ [PublicationNext]_pubVars => CapacityInv'
  BY Zenon, CapacityStep
<1>3. PublicationInv /\ CapacityInv => CapacityExact
  BY Zenon DEF PublicationInv, CapacityInv, CapacityExact, SlotBytes
<1> QED BY <1>1, <1>2, <1>3, PublicationInvariant, PTL DEF PublicationSpec

====
