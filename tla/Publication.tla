---------------------------- MODULE Publication ----------------------------
(***************************************************************************)
(* OrderedPublication: the capacity boundary between a writer transaction  *)
(* and the ordered work that follows its commit.                           *)
(*                                                                         *)
(* A writer reserves the next version, then either commits or cancels the  *)
(* slot.  Committed slots are started one at a time, in version order, in  *)
(* a microtask.  The processor either throws, returns a promise (the next  *)
(* slot waits for it), or hands the slot off (the next slot may start).    *)
(* Handed-off slots settle in any order; settledHighWater follows the      *)
(* contiguous prefix.                                                      *)
(*                                                                         *)
(* The linked list of slots is kept here as a function on the versions it  *)
(* links: reserve appends committedHighWater + 1, which AppendedLast shows *)
(* to be larger than every version already linked, so list order is        *)
(* version order.                                                          *)
(***************************************************************************)
EXTENDS Integers, FiniteSets, FiniteSetsExt, Functions

CONSTANTS
  InitialVersion,  (* the engine's commit version when the process starts   *)
  MaxItems,        (* limits.maxItems                                       *)
  MaxBytes,        (* limits.maxBytes                                       *)
  Sizes,           (* the byte sizes a reservation may ask for              *)
  VersionBound     (* bound of the model: no version above it is reserved   *)

ASSUME PublicationAssumption ==
  /\ InitialVersion \in Nat
  /\ MaxItems \in Nat \ {0}
  /\ MaxBytes \in Nat
  /\ Sizes \subseteq Nat
  /\ VersionBound \in Nat

VARIABLES
  slots,              (* the linked slots: version -> [state, bytes]         *)
  openReservation,    (* the version of the open slot, NoVersion if none     *)
  items, bytes,       (* the counters the limits are checked against         *)
  committedHighWater,
  startedHighWater,
  settledHighWater,
  unsettledVersions,  (* started and not settled                             *)
  starting,           (* a slot is between pump and the end of its turn      *)
  queued,             (* the slot of the pending microtask                   *)
  awaited,            (* the slot whose plain promise keeps `starting` set   *)
  processed,
  failedVersions,     (* the slots whose completion was rejected             *)
  lastFailureVersion,
  closed,
  closePromise        (* "none", "pending" or "resolved"                     *)

highWaters == <<committedHighWater, startedHighWater, settledHighWater>>
outcomes   == <<processed, failedVersions, lastFailureVersion>>
pumping    == <<unsettledVersions, starting, queued, awaited>>

pubVars == <<slots, openReservation, items, bytes, committedHighWater,
             startedHighWater, settledHighWater, unsettledVersions, starting,
             queued, awaited, processed, failedVersions, lastFailureVersion,
             closed, closePromise>>

(* No slot: versions of slots are at least 1.                              *)
NoVersion == 0

SlotState == {"reserved", "committed", "processing"}

Slot == [state : SlotState, bytes : Nat]

PublicationInit ==
  /\ slots = [v \in {} |-> [state |-> "reserved", bytes |-> 0]]
  /\ openReservation = NoVersion
  /\ items = 0
  /\ bytes = 0
  /\ committedHighWater = InitialVersion
  /\ startedHighWater = InitialVersion
  /\ settledHighWater = InitialVersion
  /\ unsettledVersions = {}
  /\ starting = FALSE
  /\ queued = NoVersion
  /\ awaited = NoVersion
  /\ processed = 0
  /\ failedVersions = {}
  /\ lastFailureVersion = NoVersion
  /\ closed = FALSE
  /\ closePromise = "none"

-----------------------------------------------------------------------------
(* Helpers of the operations.                                              *)

Link(v, b) ==
  [w \in DOMAIN slots \cup {v} |->
     IF w = v THEN [state |-> "reserved", bytes |-> b] ELSE slots[w]]

(* detach: unlink the slot and return its capacity.                        *)
Detach(v) == [w \in DOMAIN slots \ {v} |-> slots[w]]

(* resolveCloseIfDrained, on the state the operation leaves.               *)
ResolveCloseIfDrained(isClosed, left, promise) ==
  IF isClosed /\ left = 0 THEN "resolved" ELSE promise

Committed(s) == {v \in DOMAIN s : s[v].state = "committed"}

IsFirst(v, S) == v \in S /\ \A w \in S : v <= w

(* pump: unless a slot is already starting, mark the first committed slot  *)
(* of the list s and queue the microtask that starts it.  `pending` is the *)
(* slot of the microtask that is still queued, if any.                     *)
Pump(s, isStarting, pending) ==
  IF isStarting \/ Committed(s) = {}
  THEN /\ slots' = s
       /\ starting' = isStarting
       /\ queued' = pending
  ELSE \E v \in Committed(s) :
         /\ IsFirst(v, Committed(s))
         /\ slots' = [s EXCEPT ![v].state = "processing"]
         /\ starting' = TRUE
         /\ queued' = v

\* Mutant: settlement assumed to follow the order of starting.
AdvanceSettled_AssumesOrder(started, unsettled) == settledHighWater' = started

(* The loop of settle: settledHighWater moves over every version that has  *)
(* settled, up to the last started one.                                    *)
AdvanceSettled(started, unsettled) ==
  \E h \in settledHighWater..started :
    /\ h < started => h + 1 \in unsettled
    /\ \A v \in (settledHighWater + 1)..h : v \notin unsettled
    /\ settledHighWater' = h

(* The failure branch of settle: versions may fail out of order.           *)
RecordOutcome(v, ok) ==
  /\ processed' = processed + 1
  /\ failedVersions' = IF ok THEN failedVersions ELSE failedVersions \cup {v}
  /\ lastFailureVersion' =
       IF ~ok /\ v > lastFailureVersion THEN v ELSE lastFailureVersion

\* Mutant: settle does not pump.
SettleSlot_NoPump(v, ok, started, isStarting, pending) ==
  /\ unsettledVersions' = unsettledVersions \ {v}
  /\ AdvanceSettled(started, unsettledVersions \ {v})
  /\ items' = items - 1
  /\ bytes' = bytes - slots[v].bytes
  /\ RecordOutcome(v, ok)
  /\ slots' = Detach(v)
  /\ starting' = isStarting
  /\ queued' = pending
  /\ closePromise' = ResolveCloseIfDrained(closed, items - 1, closePromise)

(* settle: slot v ends, with or without an error; `started` is the last    *)
(* started version, and `isStarting` and `pending` are what the caller     *)
(* leaves of `starting` and of the microtask.                              *)
SettleSlot(v, ok, started, isStarting, pending) ==
  /\ unsettledVersions' = unsettledVersions \ {v}
  /\ AdvanceSettled(started, unsettledVersions \ {v})
  /\ items' = items - 1
  /\ bytes' = bytes - slots[v].bytes
  /\ RecordOutcome(v, ok)
  /\ Pump(Detach(v), isStarting, pending)
  /\ closePromise' = ResolveCloseIfDrained(closed, items - 1, closePromise)

-----------------------------------------------------------------------------
(* The operations.                                                         *)

(* reserve: refused when closed, at capacity, or while another reservation *)
(* is open.                                                                *)
Reserve(b) ==
  LET v == committedHighWater + 1 IN
  /\ ~closed
  /\ items < MaxItems
  /\ bytes + b <= MaxBytes
  /\ openReservation = NoVersion
  /\ v <= VersionBound
  /\ slots' = Link(v, b)
  /\ openReservation' = v
  /\ items' = items + 1
  /\ bytes' = bytes + b
  /\ UNCHANGED <<highWaters, pumping, outcomes, closed, closePromise>>

(* resizeSlot: the open slot is given its final size.                      *)
Resize(b) ==
  LET v == openReservation IN
  /\ v # NoVersion
  /\ bytes + b <= MaxBytes + slots[v].bytes
  /\ bytes' = bytes + b - slots[v].bytes
  /\ slots' = [slots EXCEPT ![v].bytes = b]
  /\ UNCHANGED <<openReservation, items, highWaters, pumping, outcomes, closed,
                 closePromise>>

\* Mutant: a commit does not pump.
CommitSlot_NoPump ==
  LET v == openReservation IN
  /\ v # NoVersion
  /\ openReservation' = NoVersion
  /\ committedHighWater' = v
  /\ slots' = [slots EXCEPT ![v].state = "committed"]
  /\ UNCHANGED <<items, bytes, startedHighWater, settledHighWater, pumping,
                 outcomes, closed, closePromise>>

(* commitSlot: the open slot takes its place in the ordered work.          *)
CommitSlot ==
  LET v == openReservation IN
  /\ v # NoVersion
  /\ openReservation' = NoVersion
  /\ committedHighWater' = v
  /\ Pump([slots EXCEPT ![v].state = "committed"], starting, queued)
  /\ UNCHANGED <<items, bytes, startedHighWater, settledHighWater,
                 unsettledVersions, awaited, outcomes, closed, closePromise>>

(* cancelSlot: the open slot is unlinked; its version will be reserved     *)
(* again.                                                                  *)
CancelSlot ==
  LET v == openReservation IN
  /\ v # NoVersion
  /\ openReservation' = NoVersion
  /\ slots' = Detach(v)
  /\ items' = items - 1
  /\ bytes' = bytes - slots[v].bytes
  /\ closePromise' = ResolveCloseIfDrained(closed, items - 1, closePromise)
  /\ UNCHANGED <<highWaters, pumping, outcomes, closed>>

(* The microtask, when the processor throws: the slot settles at once.     *)
StartThrows ==
  /\ queued # NoVersion
  /\ startedHighWater' = queued
  /\ SettleSlot(queued, FALSE, queued, FALSE, NoVersion)
  /\ UNCHANGED <<openReservation, committedHighWater, awaited, closed>>

(* The microtask, when the processor hands the slot off: the next          *)
(* committed slot may start before this one settles.                       *)
StartHandsOff ==
  /\ queued # NoVersion
  /\ startedHighWater' = queued
  /\ unsettledVersions' = unsettledVersions \cup {queued}
  /\ Pump(slots, FALSE, NoVersion)
  /\ UNCHANGED <<openReservation, items, bytes, committedHighWater,
                 settledHighWater, awaited, outcomes, closed, closePromise>>

(* The microtask, when the processor returns a promise or nothing.         *)
StartAwaits ==
  /\ queued # NoVersion
  /\ startedHighWater' = queued
  /\ unsettledVersions' = unsettledVersions \cup {queued}
  /\ awaited' = queued
  /\ queued' = NoVersion
  /\ UNCHANGED <<slots, openReservation, items, bytes, committedHighWater,
                 settledHighWater, starting, outcomes, closed, closePromise>>

(* A handed-off slot completes, perhaps while another one is starting.     *)
SettleHandedOff(v, ok) ==
  /\ v \in unsettledVersions
  /\ v # awaited
  /\ SettleSlot(v, ok, startedHighWater, starting, queued)
  /\ UNCHANGED <<openReservation, committedHighWater, startedHighWater, awaited,
                 closed>>

(* The slot that kept the next one waiting completes.                      *)
SettleAwaited(ok) ==
  /\ awaited # NoVersion
  /\ awaited' = NoVersion
  /\ SettleSlot(awaited, ok, startedHighWater, FALSE, NoVersion)
  /\ UNCHANGED <<openReservation, committedHighWater, startedHighWater, closed>>

(* close: no further reservation; the promise waits for the linked slots.  *)
Close ==
  /\ ~closed
  /\ closed' = TRUE
  /\ closePromise' = ResolveCloseIfDrained(TRUE, items, "pending")
  /\ UNCHANGED <<slots, openReservation, items, bytes, highWaters, pumping,
                 outcomes>>

PublicationNext ==
  \/ \E b \in Sizes : Reserve(b)
  \/ \E b \in Sizes : Resize(b)
  \/ CommitSlot
  \/ CancelSlot
  \/ StartThrows
  \/ StartHandsOff
  \/ StartAwaits
  \/ \E v \in unsettledVersions, ok \in BOOLEAN : SettleHandedOff(v, ok)
  \/ \E ok \in BOOLEAN : SettleAwaited(ok)
  \/ Close

PublicationSpec == PublicationInit /\ [][PublicationNext]_pubVars

(* The event loop runs every queued microtask, the processor's promises    *)
(* settle, and the coordinator closes every reservation it opens.          *)
PublicationFairness ==
  /\ WF_pubVars(StartThrows \/ StartHandsOff \/ StartAwaits)
  /\ WF_pubVars(\E ok \in BOOLEAN : SettleAwaited(ok))
  /\ \A v \in 1..VersionBound :
       WF_pubVars(\E ok \in BOOLEAN : SettleHandedOff(v, ok))
  /\ WF_pubVars(CommitSlot \/ CancelSlot)

FairPublicationSpec == PublicationSpec /\ PublicationFairness

-----------------------------------------------------------------------------
(* Properties.                                                             *)

Version == Nat \ {0}

(* The type of every variable; a started slot that has not settled is      *)
(* still linked.                                                           *)
PublicationTypeOK ==
  /\ DOMAIN slots \subseteq Version
  /\ slots \in [DOMAIN slots -> Slot]
  /\ openReservation \in Nat
  /\ items \in Nat
  /\ bytes \in Int
  /\ committedHighWater \in Nat
  /\ startedHighWater \in Nat
  /\ settledHighWater \in Nat
  /\ unsettledVersions \subseteq DOMAIN slots
  /\ starting \in BOOLEAN
  /\ queued \in Nat
  /\ awaited \in Nat
  /\ processed \in Nat
  /\ failedVersions \subseteq Version
  /\ lastFailureVersion \in Nat
  /\ closed \in BOOLEAN
  /\ closePromise \in {"none", "pending", "resolved"}

(* processedHighWater, as snapshot() reports it: everything up to it has   *)
(* settled and is unlinked, and the version after it, when there is one,   *)
(* has not, in whatever order the handed-off slots of settle() completed.  *)
SettledPrefix ==
  /\ settledHighWater <= startedHighWater
  /\ startedHighWater <= committedHighWater
  /\ \A v \in DOMAIN slots : v > settledHighWater
  /\ settledHighWater < committedHighWater => settledHighWater + 1 \in DOMAIN slots

(* The list of reserve(): an open reservation is the version right after   *)
(* the committed high water and the largest of the list, and without one   *)
(* nothing above the high water is linked.  So appending keeps the list in *)
(* version order and a committed version is never handed out again.        *)
AppendedLast ==
  \A v \in DOMAIN slots :
    IF slots[v].state = "reserved"
    THEN v = openReservation /\ v = committedHighWater + 1
    ELSE v <= committedHighWater

(* pump() loses no wakeup: while a committed slot waits, some slot is      *)
(* between pump and the end of its turn, and will pump again.              *)
NoLostWakeup ==
  /\ Committed(slots) # {} => starting
  /\ starting => \/ queued \in DOMAIN slots /\ slots[queued].state = "processing"
                 \/ awaited \in unsettledVersions

(* The counters that reserve(), resize() and detach() keep agree with the  *)
(* list and respect the limits, at every point of a slot's life.           *)
CapacityExact ==
  /\ items = Cardinality(DOMAIN slots)
  /\ items <= MaxItems
  /\ bytes = SumFunctionOnSet([v \in DOMAIN slots |-> slots[v].bytes], DOMAIN slots)
  /\ bytes <= MaxBytes

(* settle() may run out of order; the snapshot still reports the highest   *)
(* failed version, and counts every settled slot once.                     *)
FailureReport ==
  /\ lastFailureVersion = Max(failedVersions \cup {NoVersion})
  /\ processed =
       startedHighWater - InitialVersion - Cardinality(unsettledVersions)

(* Where a slot of version v is in its life.                               *)
SlotPlaced(v) ==
  \/ /\ v <= startedHighWater
     /\ v \in unsettledVersions
     /\ slots[v].state = "processing"
  \/ /\ startedHighWater < v /\ v <= committedHighWater
     /\ slots[v].state = IF v = queued THEN "processing" ELSE "committed"
  \/ /\ v = committedHighWater + 1
     /\ v = openReservation
     /\ slots[v].state = "reserved"

(* The inductive invariant of ordered publication: the high waters are     *)
(* ordered, the list holds exactly the unsettled, the not yet started and  *)
(* the open versions, and the microtask or the awaited promise is what     *)
(* keeps `starting` set.                                                   *)
PublicationInv ==
  /\ PublicationTypeOK
  /\ IsFiniteSet(DOMAIN slots)
  /\ items = Cardinality(DOMAIN slots)
  /\ InitialVersion <= settledHighWater
  /\ settledHighWater <= startedHighWater
  /\ startedHighWater <= committedHighWater
  /\ \A v \in DOMAIN slots : SlotPlaced(v)
  /\ \A v \in (startedHighWater + 1)..committedHighWater : v \in DOMAIN slots
  /\ \A v \in unsettledVersions : settledHighWater < v /\ v <= startedHighWater
  /\ settledHighWater < startedHighWater => settledHighWater + 1 \in unsettledVersions
  /\ queued # NoVersion => /\ queued = startedHighWater + 1
                          /\ queued <= committedHighWater
                          /\ starting
                          /\ awaited = NoVersion
  /\ awaited # NoVersion => starting /\ awaited \in unsettledVersions
  /\ starting => queued # NoVersion \/ awaited # NoVersion
  /\ ~starting => startedHighWater = committedHighWater
  /\ openReservation # NoVersion =>
       openReservation = committedHighWater + 1 /\ openReservation \in DOMAIN slots

(* Every committed version is started, one at a time and in order: no      *)
(* cancelled, resized or failed slot makes pump() skip or repeat one.      *)
StartsInOrder ==
  [][startedHighWater' # startedHighWater =>
       startedHighWater' = startedHighWater + 1]_pubVars

(* close() resolves only when nothing is left, and nothing happens after.  *)
DrainedForGood ==
  [][closePromise = "resolved" => UNCHANGED pubVars]_pubVars

(* What the coordinator promises its users: an ordered log.                *)
OrderedLog == INSTANCE OrderedLog WITH
  First <- InitialVersion,
  committed <- committedHighWater,
  started <- startedHighWater,
  settled <- ((InitialVersion + 1)..startedHighWater) \ unsettledVersions,
  contiguous <- settledHighWater

(* OrderedPublication implements the ordered log: versions are committed   *)
(* and started consecutively, settle once each in any order, and the       *)
(* reported high water is the end of the settled prefix.                   *)
ImplementsOrderedLog == OrderedLog!Spec

(* Every committed version is eventually below the settled high water.     *)
CommittedSettles ==
  \A v \in (InitialVersion + 1)..VersionBound :
    (v <= committedHighWater) ~> (v <= settledHighWater)

(* A closed coordinator eventually resolves its close promise.             *)
CloseResolves == closed ~> (closePromise = "resolved")

====
