-------------------------- MODULE CoordinatorProofs --------------------------
(***************************************************************************)
(* Five arguments about the coordinator, for every set of requests, every  *)
(* limit, and any number of crashes.                                       *)
(*                                                                         *)
(* VersionInv: the durable version and the committed high water move       *)
(* together, because a slot is open exactly during the turn that owns it.  *)
(*                                                                         *)
(* LedgerInv: rows, index and counters agree, and the rows are in the      *)
(* order the scan of the next process demands.                             *)
(*                                                                         *)
(* OnceInv: a request with a durable outcome is either in the ledger or    *)
(* too old to be admitted, because its row is written in the transaction,  *)
(* completes no earlier than its identifier was created, and is pruned no  *)
(* earlier than the age check begins to refuse it.  The last step needs    *)
(* clients whose clocks are not ahead of the server's (ClientAhead = 0).   *)
(*                                                                         *)
(* AnswerInv: every result a caller holds, or waits for, is the one the    *)
(* row of its request records.                                             *)
(*                                                                         *)
(* PublishedInv: every step of the coordinator is a step of ordered        *)
(* publication, a stutter, or its restart, so that the invariant of        *)
(* publication holds here too, and a settled version stays settled.        *)
(***************************************************************************)
EXTENDS Coordinator, PublicationProofs, SumTheorems, FiniteSetTheorems, TLAPS

(* The inductive invariant behind VersionsAgree and ReservationOwned.      *)
VersionInv ==
  /\ commitVersion \in Nat
  /\ committedHighWater \in Nat
  /\ phase \in Phases
  /\ VersionsAgree
  /\ ReservationOwned

(* What VersionInv depends on.                                             *)
versionVars == <<commitVersion, committedHighWater, phase, openReservation>>

(* A step that leaves the variables of VersionInv alone preserves it.      *)
LEMMA VersionStutters == VersionInv /\ UNCHANGED versionVars => VersionInv'
BY Zenon DEF VersionInv, versionVars, VersionsAgree, ReservationOwned

(* Pruning leaves the commit version alone.                                *)
LEMMA PruneKeepsVersion == PruneTurn => UNCHANGED commitVersion
BY Zenon DEF PruneTurn, PruneLedger, ledger, durable

(* The start of a turn leaves the commit version alone.                    *)
LEMMA AdmissionKeepsVersion ==
  ASSUME NEW r, NEW id, Admitted(r, id)
  PROVE  phase = "idle" /\ UNCHANGED commitVersion
BY Zenon, PruneKeepsVersion DEF Admitted, StartIdempotent, ledger, durable

(* The initial state satisfies VersionInv.                                 *)
LEMMA VersionInit == CoordinatorInit => VersionInv
BY Zenon, PublicationAssumption
DEF CoordinatorInit, PublicationInit, MutationReplayInit, VersionInv, VersionsAgree,
    ReservationOwned, Phases

(* The start of a turn preserves VersionInv.                               *)
LEMMA VersionStart == VersionInv /\ TurnStarts => VersionInv'
<1> SUFFICES ASSUME VersionInv, TurnStarts PROVE VersionInv'
  BY Zenon
<1>1. ASSUME NEW r, NEW id, TurnReplays(r, id) \/ TurnConflicts(r, id) PROVE VersionInv'
  BY Zenon, <1>1, VersionStutters, PruneKeepsVersion
  DEF TurnReplays, TurnConflicts, StartIdempotent, pubVars, turnVars, versionVars
<1>2. ASSUME NEW r, TurnRefused(r) \/ TurnPruneFails(r) PROVE VersionInv'
  BY Zenon, <1>2, VersionStutters, PruneKeepsVersion
  DEF TurnRefused, TurnPruneFails, StartIdempotent, ledger, durable, pubVars, turnVars,
      versionVars
<1>3. ASSUME NEW r, NEW id, TurnUnavailable(r, id) \/ TurnCannotBegin(r, id)
      PROVE VersionInv'
  BY Zenon, <1>3, VersionStutters, AdmissionKeepsVersion
  DEF TurnUnavailable, TurnCannotBegin, pubVars, turnVars, versionVars
<1>4. ASSUME NEW r, NEW id, TurnBegins(r, id) PROVE VersionInv'
  <2>1. phase = "idle" /\ commitVersion' = commitVersion /\ phase' = "work"
    BY Zenon, <1>4, AdmissionKeepsVersion DEF TurnBegins
  <2>2. committedHighWater' = committedHighWater /\ openReservation' = committedHighWater + 1
    BY Zenon, <1>4 DEF TurnBegins, Reserve, highWaters
  <2> QED BY Zenon, <2>1, <2>2 DEF VersionInv, VersionsAgree, ReservationOwned, Phases
<1> QED BY Zenon, <1>1, <1>2, <1>3, <1>4 DEF TurnStarts

(* A turn that is rolled back gives its slot back.                         *)
LEMMA VersionRollBack ==
  ASSUME VersionInv, phase = "work", CancelSlot, EndTurn, UNCHANGED commitVersion
  PROVE  VersionInv'
BY Zenon DEF VersionInv, VersionsAgree, ReservationOwned, CancelSlot, highWaters, EndTurn, Phases

(* The end of a turn preserves VersionInv.                                 *)
LEMMA VersionEnd == VersionInv /\ TurnEnds => VersionInv'
<1> SUFFICES ASSUME VersionInv, TurnEnds PROVE VersionInv'
  BY Zenon
<1>1. CASE TurnFails
  BY Zenon, <1>1, VersionRollBack DEF TurnFails, RollBackTurn, ledger, durable
<1>2. CASE TurnOverloads
  BY Zenon, <1>2, VersionRollBack DEF TurnOverloads, RollBackTurn, ledger, durable
<1>3. ASSUME NEW b, NEW oneTime, TurnReturnsError(b, oneTime) PROVE VersionInv'
  <2>1. UNCHANGED commitVersion
    BY Zenon, <1>3 DEF TurnReturnsError, StageRow, AllocatedVersion, ledger, durable
  <2> QED BY Zenon, <1>3, <2>1, VersionRollBack DEF TurnReturnsError
<1>4. ASSUME NEW cause, TurnLosesError(cause) PROVE VersionInv'
  BY Zenon, <1>4, VersionRollBack DEF TurnLosesError, ledger, durable
<1>5. ASSUME NEW p, NEW b, NEW oneTime, TurnCommits(p, b, oneTime) PROVE VersionInv'
  <2>1. commitVersion' = commitVersion + 1
    BY Zenon, <1>5 DEF TurnCommits, StageRow, AllocatedVersion
  <2>2. phase = "work" /\ phase' = "handoff"
    BY Zenon, <1>5 DEF TurnCommits
  <2>3. UNCHANGED <<committedHighWater, openReservation>>
    BY Zenon, <1>5 DEF TurnCommits, Resize, highWaters
  <2> QED BY <2>1, <2>2, <2>3 DEF VersionInv, VersionsAgree, ReservationOwned, Phases
<1> QED BY Zenon, <1>1, <1>2, <1>3, <1>4, <1>5 DEF TurnEnds

(* Every step preserves VersionInv.                                        *)
LEMMA VersionStep == VersionInv /\ [CoordinatorNext]_coordinatorVars => VersionInv'
<1> SUFFICES ASSUME VersionInv, [CoordinatorNext]_coordinatorVars PROVE VersionInv'
  BY Zenon
<1>1. CASE TurnStarts
  BY Zenon, <1>1, VersionStart
<1>2. CASE TurnEnds
  BY Zenon, <1>2, VersionEnd
<1>3. CASE TurnHandsOff
  <2>1. phase = "handoff" /\ phase' = "idle" /\ commitVersion' = commitVersion
    BY Zenon, <1>3 DEF TurnHandsOff, EndTurn, ledger, durable
  <2>2. openReservation' = NoVersion /\ committedHighWater' = openReservation
    BY Zenon, <1>3 DEF TurnHandsOff, CommitSlot
  <2> QED BY Zenon, <2>1, <2>2 DEF VersionInv, VersionsAgree, ReservationOwned, Phases
<1>4. ASSUME NEW v, NEW ok, CompletionAnswers(v, ok) PROVE VersionInv'
  BY Zenon, <1>4, VersionStutters
  DEF CompletionAnswers, SettleHandedOff, ledger, durable, turnVars, versionVars
<1>5. CASE FrameworkBegins
  BY Zenon, <1>5 DEF FrameworkBegins, pubVars, ledger, durable, VersionInv, VersionsAgree,
              ReservationOwned, Phases
<1>6. CASE FrameworkEnds
  BY Zenon, <1>6 DEF FrameworkEnds, EndTurn, pubVars, ledger, durable, VersionInv, VersionsAgree,
              ReservationOwned, Phases
<1>7. CASE PublicationStarts \/ PublicationCloses \/ Tick
  BY Zenon, <1>7, VersionStutters
  DEF PublicationStarts, PublicationCloses, Tick, StartHandsOff, Close, highWaters,
      pubVars, ledger, durable, turnVars, versionVars
<1>8. CASE Restart
  BY Zenon, <1>8 DEF Restart, PublicationRestarts, EndTurn, durable, VersionInv, VersionsAgree,
              ReservationOwned, Phases
<1>9. CASE UNCHANGED coordinatorVars
  BY Zenon, <1>9, VersionStutters DEF coordinatorVars, pubVars, durable, turnVars, versionVars
<1> QED BY Zenon, <1>1, <1>2, <1>3, <1>4, <1>5, <1>6, <1>7, <1>8, <1>9 DEF CoordinatorNext

(* VersionInv holds in every reachable state.                              *)
THEOREM VersionInvariant == CoordinatorSpec => []VersionInv
BY VersionInit, VersionStep, PTL DEF CoordinatorSpec

(* Storage and publication never diverge: the error of commit() that says  *)
(* so is unreachable, across crashes and every failed turn.                *)
THEOREM VersionsAgreeHolds == CoordinatorSpec => []VersionsAgree
<1>1. VersionInv => VersionsAgree
  BY Zenon DEF VersionInv
<1> QED BY <1>1, VersionInvariant, PTL

(* An idle writer never leaves a reservation open.                         *)
THEOREM ReservationOwnedHolds == CoordinatorSpec => []ReservationOwned
<1>1. VersionInv => ReservationOwned
  BY Zenon DEF VersionInv
<1> QED BY <1>1, VersionInvariant, PTL

-----------------------------------------------------------------------------

(* A row of the ledger: its sequence was allocated, its version was        *)
(* committed, and it completed no later than the last one.                 *)
RowFits(s) ==
  /\ s \in Nat \ {0} /\ s <= mutationSequence
  /\ rows[s].request \in Requests
  /\ rows[s].bytes \in Nat
  /\ rows[s].version \in Nat /\ rows[s].version <= commitVersion
  /\ rows[s].completedAt \in Nat /\ rows[s].completedAt <= lastCompletedAt

(* Later rows have later versions and completion times.                    *)
RowsOrdered ==
  \A s, t \in DOMAIN rows :
    s < t => /\ rows[s].version <= rows[t].version
             /\ rows[s].completedAt <= rows[t].completedAt

(* The counters in memory and in the state row are those of the rows.      *)
CountsFit ==
  /\ IsFiniteSet(DOMAIN rows)
  /\ recordCount = Cardinality(DOMAIN rows) /\ mutationRecords = recordCount
  /\ byteCount = RowBytes(rows) /\ mutationBytes = byteCount
  /\ recordCount <= MaxRecords /\ byteCount <= MaxReplayBytes

(* The ledger, durable and in memory.                                      *)
LedgerFits ==
  /\ mutationSequence \in Nat
  /\ commitVersion \in Nat
  /\ lastCompletedAt \in Nat
  /\ DOMAIN index \subseteq Requests
  /\ \A s \in DOMAIN rows : RowFits(s)
  /\ RowsOrdered
  /\ IndexExact
  /\ CountsFit

(* A turn that may store a row found room for it and none of its request.  *)
TurnFits ==
  /\ clock \in Nat
  /\ current \in Requests \cup {NoRequest}
  /\ phase = "work" /\ current # NoRequest =>
       current \notin DOMAIN index /\ recordCount < MaxRecords

(* The inductive invariant behind LedgerSound.                             *)
LedgerInv == LedgerFits /\ TurnFits

(* What the ledger's part depends on.                                      *)
ledgerVars == <<rows, commitVersion, mutationSequence, mutationRecords, mutationBytes,
                index, recordCount, byteCount, lastCompletedAt>>

(* A step that leaves the ledger alone preserves its part.                 *)
LEMMA LedgerStutters == LedgerFits /\ UNCHANGED ledgerVars => LedgerFits'
BY Zenon DEF LedgerFits, RowFits, RowsOrdered, CountsFit, RowBytes, BytesOf, IndexExact,
             ledgerVars

(* A commit without a row only raises the version.                         *)
LEMMA LedgerVersion ==
  ASSUME LedgerFits, commitVersion' = commitVersion + 1,
         UNCHANGED <<rows, mutationSequence, mutationRecords, mutationBytes, memory>>
  PROVE  LedgerFits'
<1>1. commitVersion' \in Nat /\ \A n \in Nat : n <= commitVersion => n <= commitVersion'
  BY DEF LedgerFits
<1>2. \A s \in DOMAIN rows : RowFits(s)'
  BY Zenon, <1>1 DEF LedgerFits, RowFits, memory
<1> QED BY Zenon, <1>1, <1>2 DEF LedgerFits, RowsOrdered, CountsFit, RowBytes, BytesOf, IndexExact,
             memory

(* The initial state satisfies LedgerInv.                                  *)
LEMMA LedgerInit == CoordinatorInit => LedgerInv
<1> SUFFICES ASSUME CoordinatorInit PROVE LedgerInv
  BY Zenon
<1>1. DOMAIN rows = {} /\ DOMAIN index = {}
  BY Zenon DEF CoordinatorInit, MutationReplayInit
<1>2. /\ mutationSequence = 0 /\ commitVersion = InitialVersion /\ lastCompletedAt = 0
      /\ recordCount = 0 /\ byteCount = 0 /\ mutationRecords = 0 /\ mutationBytes = 0
      /\ clock = 0 /\ current = NoRequest /\ phase = "idle"
  BY Zenon DEF CoordinatorInit, MutationReplayInit
<1>3. CountsFit
  BY <1>1, <1>2, FS_EmptySet, SumEmpty, CoordinatorAssumption DEF CountsFit, RowBytes
<1> QED BY Zenon, <1>1, <1>2, <1>3, PublicationAssumption
        DEF LedgerInv, LedgerFits, RowsOrdered, IndexExact, TurnFits

(* The bytes of a ledger's rows are naturals.                              *)
LEMMA BytesType ==
  ASSUME LedgerFits
  PROVE  \A s \in DOMAIN rows : BytesOf(rows)[s] \in Nat /\ BytesOf(rows)[s] \in Int
<1>1. \A s \in DOMAIN rows : rows[s].bytes \in Nat /\ BytesOf(rows)[s] = rows[s].bytes
  BY Zenon DEF LedgerFits, RowFits, BytesOf
<1> QED BY <1>1

(* Pruning keeps the ledger consistent, keeps the rows it leaves, and      *)
(* removes only rows that completed before the window.                     *)
LEMMA LedgerPrunes ==
  ASSUME LedgerFits, clock \in Nat, PruneTurn
  PROVE  /\ LedgerFits'
         /\ \A r \in DOMAIN index' : /\ r \in DOMAIN index /\ index'[r] = index[r]
                                     /\ rows'[index'[r]] = rows[index[r]]
         /\ \A r \in DOMAIN index :
              r \in DOMAIN index' \/ rows[index[r]].completedAt < clock - MaxAge
         /\ \A s \in DOMAIN rows' : s \in DOMAIN rows /\ rows'[s] = rows[s]
<1>1. CASE ~PruneDue
  <2>1. UNCHANGED ledgerVars
    BY Zenon, <1>1 DEF PruneTurn, ledger, durable, memory, ledgerVars
  <2>2. LedgerFits'
    BY Zenon, <2>1, LedgerStutters
  <2> QED BY Zenon, <2>1, <2>2 DEF ledgerVars
<1>2. CASE PruneDue
  <2> DEFINE gone == Expired(clock - MaxAge)
             kept == DOMAIN rows \ gone
             live == {q \in DOMAIN index : index[q] \in kept}
             lost == SumFunctionOnSet(BytesOf(rows), gone)
  <2>1. /\ rows' = [s \in kept |-> rows[s]]
        /\ index' = [r \in live |-> index[r]]
        /\ UNCHANGED <<commitVersion, mutationSequence, lastCompletedAt>>
        /\ recordCount' = recordCount - Cardinality(gone)
        /\ mutationRecords' = mutationRecords - Cardinality(gone)
        /\ byteCount' = byteCount - lost /\ mutationBytes' = mutationBytes - lost
    BY Zenon, <1>2 DEF PruneTurn, PruneLedger
  <2>2. gone \subseteq DOMAIN rows
    BY Zenon DEF Expired
  <2>3. \A s \in gone : rows[s].completedAt < clock - MaxAge
    BY DEF Expired, LedgerFits, RowFits
  <2>4. DOMAIN rows' = kept /\ \A s \in kept : rows'[s] = rows[s]
    BY Zenon, <2>1
  <2>5. DOMAIN index' = live /\ \A r \in live : index'[r] = index[r]
    BY Zenon, <2>1
  <2> HIDE DEF gone
  <2>6. CountsFit'
    <3>1. IsFiniteSet(DOMAIN rows) /\ IsFiniteSet(gone) /\ IsFiniteSet(kept)
          /\ Cardinality(gone) \in Nat /\ Cardinality(DOMAIN rows) \in Nat
      BY Zenon, <2>2, FS_Subset, FS_Difference, FS_CardinalityType DEF LedgerFits, CountsFit
    <3>2. Cardinality(kept) = Cardinality(DOMAIN rows) - Cardinality(gone)
      <4>1. DOMAIN rows \cap gone = gone
        BY Zenon, <2>2
      <4> QED BY Zenon, <3>1, <4>1, FS_Difference
    <3>3. RowBytes(rows) = lost + SumFunctionOnSet(BytesOf(rows), kept)
      BY <2>2, <3>1, BytesType, SumSplits DEF RowBytes
    <3>4. lost \in Nat /\ SumFunctionOnSet(BytesOf(rows), kept) \in Nat
      <4>1. /\ \A s \in gone : BytesOf(rows)[s] \in Nat
            /\ \A s \in kept : BytesOf(rows)[s] \in Nat
        BY Zenon, <2>2, BytesType
      <4> QED BY Zenon, <3>1, <4>1, SumType
    <3>5. RowBytes(rows') = SumFunctionOnSet(BytesOf(rows), kept)
      <4>1. \A s \in kept : BytesOf(rows')[s] = BytesOf(rows)[s]
        BY Zenon, <2>4 DEF BytesOf
      <4>2. SumFunctionOnSet(BytesOf(rows'), kept) = SumFunctionOnSet(BytesOf(rows), kept)
        BY Zenon, <3>1, <4>1, SumLocal
      <4> QED BY Zenon, <2>4, <4>2 DEF RowBytes
    <3> HIDE DEF lost, kept
    <3>6. /\ recordCount' = Cardinality(kept) /\ mutationRecords' = recordCount'
          /\ recordCount' <= MaxRecords
      BY <2>1, <3>1, <3>2, CoordinatorAssumption DEF LedgerFits, CountsFit
    <3>7. /\ byteCount' = RowBytes(rows') /\ mutationBytes' = byteCount'
          /\ byteCount' <= MaxReplayBytes
      BY <2>1, <3>3, <3>4, <3>5, CoordinatorAssumption DEF LedgerFits, CountsFit
    <3> QED BY Zenon, <2>4, <3>1, <3>6, <3>7 DEF CountsFit
  <2>7. \A s \in DOMAIN rows' : RowFits(s)'
    BY Zenon, <2>1, <2>4 DEF LedgerFits, RowFits
  <2>8. IndexExact'
    <3>1. ASSUME NEW s \in DOMAIN rows'
          PROVE  rows'[s].request \in DOMAIN index' /\ index'[rows'[s].request] = s
      BY <2>4, <2>5 DEF LedgerFits, IndexExact
    <3>2. ASSUME NEW r \in DOMAIN index'
          PROVE  index'[r] \in DOMAIN rows' /\ rows'[index'[r]].request = r
      BY <2>4, <2>5 DEF LedgerFits, IndexExact
    <3> QED BY Zenon, <3>1, <3>2 DEF IndexExact
  <2>9. RowsOrdered'
    BY Zenon, <2>4 DEF LedgerFits, RowsOrdered
  <2>10. LedgerFits'
    BY Zenon, <2>1, <2>5, <2>6, <2>7, <2>8, <2>9 DEF LedgerFits
  <2>11. ASSUME NEW r \in DOMAIN index, r \notin DOMAIN index'
         PROVE  rows[index[r]].completedAt < clock - MaxAge
    BY Zenon, <2>3, <2>5, <2>11 DEF LedgerFits, IndexExact
  <2>12. \A r \in DOMAIN index' : /\ r \in DOMAIN index /\ index'[r] = index[r]
                                  /\ rows'[index'[r]] = rows[index[r]]
    BY Zenon, <2>4, <2>5
  <2> QED BY Zenon, <2>4, <2>10, <2>11, <2>12
<1> QED BY Zenon, <1>1, <1>2

(* Storing the row of a request that had none, where there is room for it. *)
RowStages(r, b, allocation) ==
  \E id, disposition :
    /\ StageRow(r, id, disposition, b, clock, allocation)
    /\ CommittedRow(r, b, clock)

(* What it leaves of the ledger.                                           *)
LEMMA RowStored ==
  ASSUME LedgerFits, clock \in Nat, NEW r \in Requests, r \notin DOMAIN index,
         NEW b, NEW allocation, RowStages(r, b, allocation)
  PROVE  /\ DOMAIN index' = DOMAIN index \cup {r}
         /\ mutationSequence' = mutationSequence + 1
         /\ index'[r] = mutationSequence + 1
         /\ mutationSequence + 1 \notin DOMAIN rows
         /\ DOMAIN rows' = DOMAIN rows \cup {mutationSequence + 1}
         /\ rows'[mutationSequence + 1].request = r
         /\ rows'[mutationSequence + 1].bytes = b
         /\ rows'[mutationSequence + 1].version = AllocatedVersion(allocation)
         /\ rows'[mutationSequence + 1].completedAt = CompletionTime(clock)
         /\ \A t \in DOMAIN rows : rows'[t] = rows[t]
         /\ \A q \in DOMAIN index : index'[q] = index[q] /\ rows'[index[q]] = rows[index[q]]
<1>1. PICK id, disposition : /\ StageRow(r, id, disposition, b, clock, allocation)
                             /\ CommittedRow(r, b, clock)
  BY Zenon DEF RowStages
<1> DEFINE s == mutationSequence + 1
<1>2. /\ DOMAIN rows' = DOMAIN rows \cup {s}
      /\ rows'[s] = NewRow(r, id, disposition, b, clock, allocation)
      /\ \A t \in DOMAIN rows : t # s => rows'[t] = rows[t]
      /\ mutationSequence' = s
  BY Zenon, <1>1 DEF StageRow
<1>3. /\ rows'[s].request = r /\ rows'[s].bytes = b
      /\ rows'[s].version = AllocatedVersion(allocation)
      /\ rows'[s].completedAt = CompletionTime(clock)
  BY <1>2 DEF NewRow
<1>4. /\ DOMAIN index' = DOMAIN index \cup {r}
      /\ index'[r] = s
      /\ \A q \in DOMAIN index : q # r => index'[q] = index[q]
  BY Zenon, <1>1 DEF CommittedRow
<1>5. \A t \in DOMAIN rows : t # s
  BY DEF LedgerFits, RowFits
<1> HIDE DEF s
<1>6. \A t \in DOMAIN rows : rows'[t] = rows[t]
  BY Zenon, <1>2, <1>5
<1>7. \A q \in DOMAIN index : index'[q] = index[q] /\ rows'[index[q]] = rows[index[q]]
  BY Zenon, <1>4, <1>6 DEF LedgerFits, IndexExact
<1>8. s \notin DOMAIN rows
  BY Zenon, <1>5
<1> QED BY Zenon, <1>2, <1>3, <1>4, <1>6, <1>7, <1>8 DEF s

(* The completion time of a new row is no earlier than the clock and the   *)
(* last completion.                                                        *)
LEMMA CompletionInOrder ==
  ASSUME clock \in Nat, lastCompletedAt \in Nat
  PROVE  /\ CompletionTime(clock) \in Nat /\ clock <= CompletionTime(clock)
         /\ lastCompletedAt <= CompletionTime(clock)
BY DEF CompletionTime

(* Storing a row where there is room preserves the ledger's part.          *)
LEMMA LedgerStores ==
  ASSUME LedgerFits, clock \in Nat, NEW r \in Requests, r \notin DOMAIN index,
         recordCount < MaxRecords, NEW b \in Nat, b <= MaxReplayBytes - byteCount,
         NEW allocation, RowStages(r, b, allocation)
  PROVE  LedgerFits'
<1>0. PICK s : s = mutationSequence + 1
  BY Zenon
<1> DEFINE v == AllocatedVersion(allocation)
           c == CompletionTime(clock)
<1>1. /\ DOMAIN index' = DOMAIN index \cup {r} /\ mutationSequence' = s /\ index'[r] = s
      /\ s \notin DOMAIN rows
      /\ DOMAIN rows' = DOMAIN rows \cup {s}
      /\ rows'[s].request = r /\ rows'[s].bytes = b
      /\ rows'[s].version = v /\ rows'[s].completedAt = c
      /\ \A t \in DOMAIN rows : rows'[t] = rows[t]
      /\ \A q \in DOMAIN index : index'[q] = index[q] /\ rows'[index[q]] = rows[index[q]]
  BY Zenon, <1>0, RowStored
<1>2. /\ commitVersion' = v /\ lastCompletedAt' = c
      /\ recordCount' = recordCount + 1 /\ mutationRecords' = mutationRecords + 1
      /\ byteCount' = byteCount + b /\ mutationBytes' = mutationBytes + b
  BY Zenon DEF RowStages, StageRow, CommittedRow
<1>3. v \in Nat /\ commitVersion <= v
  BY DEF AllocatedVersion, LedgerFits
<1>4. c \in Nat /\ lastCompletedAt <= c
  BY Zenon, CompletionInOrder DEF LedgerFits
<1>5. s \in Nat \ {0} /\ mutationSequence <= s /\ s <= s
  BY <1>0 DEF LedgerFits
<1>6. \A t \in DOMAIN rows : t < s
  BY <1>0 DEF LedgerFits, RowFits
<1> HIDE DEF v, c
<1>7. \A t \in DOMAIN rows' : RowFits(t)'
  <2>1. ASSUME NEW t \in DOMAIN rows PROVE RowFits(t)'
    <3>1. /\ t \in Nat \ {0} /\ t <= mutationSequence
          /\ rows[t].version \in Nat /\ rows[t].version <= commitVersion
          /\ rows[t].completedAt \in Nat /\ rows[t].completedAt <= lastCompletedAt
          /\ rows[t].request \in Requests /\ rows[t].bytes \in Nat
      BY Zenon DEF LedgerFits, RowFits
    <3>2. t <= s /\ rows[t].version <= v /\ rows[t].completedAt <= c
      BY <1>3, <1>4, <1>5, <3>1 DEF LedgerFits
    <3> QED BY Zenon, <1>1, <1>2, <3>1, <3>2 DEF RowFits
  <2>2. RowFits(s)'
    <3>1. v <= v /\ c <= c
      BY <1>3, <1>4
    <3>2. /\ s \in Nat \ {0} /\ s <= mutationSequence'
          /\ rows'[s].request \in Requests /\ rows'[s].bytes \in Nat
          /\ rows'[s].version \in Nat /\ rows'[s].version <= commitVersion'
          /\ rows'[s].completedAt \in Nat /\ rows'[s].completedAt <= lastCompletedAt'
      BY Zenon, <1>1, <1>2, <1>3, <1>4, <1>5, <3>1
    <3> QED BY Zenon, <3>2 DEF RowFits
  <2> QED BY Zenon, <1>1, <2>1, <2>2
<1>8. RowsOrdered'
  <2> SUFFICES ASSUME NEW t \in DOMAIN rows', NEW u \in DOMAIN rows', t < u
               PROVE  /\ rows'[t].version <= rows'[u].version
                      /\ rows'[t].completedAt <= rows'[u].completedAt
    BY Zenon DEF RowsOrdered
  <2>1. CASE t \in DOMAIN rows /\ u \in DOMAIN rows
    BY Zenon, <1>1, <2>1 DEF LedgerFits, RowsOrdered
  <2>2. CASE t \in DOMAIN rows /\ u = s
    BY <1>1, <1>3, <1>4, <2>2 DEF LedgerFits, RowFits
  <2>3. CASE t = s
    <3>1. u \in Nat /\ (u < s \/ u = s)
      BY Zenon, <1>1, <1>5, <1>6 DEF LedgerFits, RowFits
    <3>2. FALSE
      BY <1>5, <2>3, <3>1
    <3> QED BY Zenon, <3>2
  <2> QED BY Zenon, <1>1, <2>1, <2>2, <2>3
<1>9. IndexExact'
  <2>1. ASSUME NEW t \in DOMAIN rows'
        PROVE  rows'[t].request \in DOMAIN index' /\ index'[rows'[t].request] = t
    BY Zenon, <1>1 DEF LedgerFits, IndexExact
  <2>2. ASSUME NEW q \in DOMAIN index'
        PROVE  index'[q] \in DOMAIN rows' /\ rows'[index'[q]].request = q
    BY Zenon, <1>1 DEF LedgerFits, IndexExact
  <2> QED BY Zenon, <2>1, <2>2 DEF IndexExact
<1>10. CountsFit'
  <2>1. IsFiniteSet(DOMAIN rows) /\ Cardinality(DOMAIN rows) \in Nat
    BY Zenon, FS_CardinalityType DEF LedgerFits, CountsFit
  <2>2. IsFiniteSet(DOMAIN rows') /\ Cardinality(DOMAIN rows') = Cardinality(DOMAIN rows) + 1
    BY <1>1, <2>1, FS_AddElement
  <2>3. RowBytes(rows') = RowBytes(rows) + b
    <3>1. \A t \in DOMAIN rows : BytesOf(rows)[t] \in Int /\ BytesOf(rows')[t] = BytesOf(rows)[t]
      <4>1. \A t \in DOMAIN rows : BytesOf(rows')[t] = BytesOf(rows)[t]
        BY Zenon, <1>1 DEF BytesOf
      <4> QED BY Zenon, <4>1, BytesType
    <3>2. BytesOf(rows')[s] = b
      BY Zenon, <1>1 DEF BytesOf
    <3>3. SumFunctionOnSet(BytesOf(rows'), DOMAIN rows \cup {s})
            = SumFunctionOnSet(BytesOf(rows), DOMAIN rows) + BytesOf(rows')[s]
      BY <1>1, <2>1, <3>1, <3>2, SumExtends
    <3> QED BY Zenon, <1>1, <3>2, <3>3 DEF RowBytes
  <2>4. RowBytes(rows) \in Int
    BY Zenon, <2>1, BytesType, SumType DEF RowBytes
  <2>5. recordCount' = Cardinality(DOMAIN rows') /\ mutationRecords' = recordCount'
        /\ recordCount' <= MaxRecords
    BY <1>2, <2>1, <2>2, CoordinatorAssumption DEF LedgerFits, CountsFit
  <2>6. byteCount' = RowBytes(rows') /\ mutationBytes' = byteCount' /\ byteCount' <= MaxReplayBytes
    BY <1>2, <2>3, <2>4, CoordinatorAssumption DEF LedgerFits, CountsFit
  <2> QED BY Zenon, <2>2, <2>5, <2>6 DEF CountsFit
<1>11. mutationSequence' \in Nat /\ commitVersion' \in Nat /\ lastCompletedAt' \in Nat
  BY Zenon, <1>1, <1>2, <1>3, <1>4, <1>5
<1> QED BY Zenon, <1>1, <1>7, <1>8, <1>9, <1>10, <1>11 DEF LedgerFits

(* The scan of the next process accepts the ledger, and rebuilds from it   *)
(* the index and the counters the last one had.                            *)
LEMMA LedgerRestarts ==
  ASSUME LedgerFits, Restart
  PROVE  /\ LedgerFits'
         /\ \A r \in DOMAIN index' : /\ r \in DOMAIN index /\ index'[r] = index[r]
                                     /\ rows'[index'[r]] = rows[index[r]]
         /\ DOMAIN index \subseteq DOMAIN index'
<1>1. /\ index' = IndexOf(rows)
      /\ UNCHANGED <<rows, commitVersion, mutationSequence, mutationRecords, mutationBytes>>
      /\ recordCount' = Cardinality(DOMAIN rows) /\ byteCount' = RowBytes(rows)
  BY Zenon DEF Restart, LoadLedger, durable
<1>2. /\ DOMAIN index' = {rows[s].request : s \in DOMAIN rows}
      /\ \A r \in DOMAIN index' :
           index'[r] = CHOOSE s \in DOMAIN rows : rows[s].request = r
  BY Zenon, <1>1 DEF IndexOf
<1>3. \A r \in DOMAIN index' : index'[r] \in DOMAIN rows /\ rows[index'[r]].request = r
  BY <1>2
<1>4. \A s, t \in DOMAIN rows : rows[s].request = rows[t].request => s = t
  BY Zenon DEF LedgerFits, IndexExact
<1>5. \A s \in DOMAIN rows : rows[s].request \in DOMAIN index' /\ index'[rows[s].request] = s
  BY <1>2, <1>3, <1>4
<1>6. IndexExact'
  BY Zenon, <1>1, <1>3, <1>5 DEF IndexExact
<1>7. \A r \in DOMAIN index' : r \in DOMAIN index /\ index'[r] = index[r]
  BY Zenon, <1>3 DEF LedgerFits, IndexExact
<1>8. lastCompletedAt' \in Nat /\ \A s \in DOMAIN rows : rows[s].completedAt <= lastCompletedAt'
  <2>1. PICK c \in {0} \cup {rows[s].completedAt : s \in DOMAIN rows} :
          /\ \A s \in DOMAIN rows :
               (\A t \in DOMAIN rows : t <= s) => c = rows[s].completedAt
          /\ lastCompletedAt' = c
    BY Zenon DEF Restart, LoadLedger
  <2>2. \A s \in DOMAIN rows : s \in Nat /\ s <= mutationSequence /\ rows[s].completedAt \in Nat
    BY Zenon DEF LedgerFits, RowFits
  <2>3. c \in Nat
    BY <2>1, <2>2
  <2>4. CASE DOMAIN rows = {}
    BY Zenon, <2>1, <2>3, <2>4
  <2>5. CASE DOMAIN rows # {}
    <3>1. DOMAIN rows \subseteq Nat /\ mutationSequence \in Nat
      BY Zenon, <2>2 DEF LedgerFits
    <3>2. PICK m \in DOMAIN rows : \A t \in DOMAIN rows : t <= m
      BY Zenon, <2>2, <2>5, <3>1, GreatestNatural
    <3>3. c = rows[m].completedAt
      BY Zenon, <2>1, <3>2
    <3>4. ASSUME NEW s \in DOMAIN rows PROVE rows[s].completedAt <= c
      <4>1. s < m \/ s = m
        BY <2>2, <3>2
      <4>2. CASE s < m
        BY Zenon, <3>2, <3>3, <4>2 DEF LedgerFits, RowsOrdered
      <4>3. CASE s = m
        BY <2>2, <3>3, <4>3
      <4> QED BY Zenon, <4>1, <4>2, <4>3
    <3> QED BY Zenon, <2>1, <2>3, <3>4
  <2> QED BY Zenon, <2>4, <2>5
<1>9. \A s \in DOMAIN rows : RowFits(s)'
  BY Zenon, <1>1, <1>8 DEF LedgerFits, RowFits
<1>10. CountsFit'
  BY Zenon, <1>1 DEF LedgerFits, CountsFit
<1>11. LedgerFits'
  BY Zenon, <1>1, <1>6, <1>7, <1>8, <1>9, <1>10 DEF LedgerFits, RowsOrdered
<1> QED BY Zenon, <1>1, <1>5, <1>7, <1>11 DEF LedgerFits, IndexExact

(* A turn that ends, or a step beside it, that leaves the ledger alone.    *)
LEMMA LedgerQuiet ==
  ASSUME LedgerInv, UNCHANGED <<ledger, clock>>,
         \/ phase' # "work" /\ current' \in {current, NoRequest}
         \/ UNCHANGED <<phase, current>>
  PROVE  LedgerInv'
<1>1. LedgerFits'
  BY Zenon, LedgerStutters DEF LedgerInv, ledger, durable, memory, ledgerVars
<1> QED BY Zenon, <1>1 DEF LedgerInv, TurnFits, ledger, memory

(* A turn that ends at its start.                                          *)
LEMMA LedgerPruneOnly ==
  ASSUME LedgerInv, PruneTurn, phase = "idle", UNCHANGED <<clock, current, phase>>
  PROVE  LedgerInv'
BY Zenon, LedgerPrunes DEF LedgerInv, TurnFits

(* The start of a turn preserves LedgerInv: an admitted request has no row *)
(* and there is room for one.                                              *)
LEMMA LedgerStart ==
  ASSUME LedgerInv, TurnStarts
  PROVE  LedgerInv'
<1>1. ASSUME NEW r \in Requests, NEW id, TurnReplays(r, id) \/ TurnConflicts(r, id)
      PROVE  LedgerInv'
  BY Zenon, <1>1, LedgerPruneOnly DEF TurnReplays, TurnConflicts, StartIdempotent, turnVars
<1>2. ASSUME NEW r \in Requests, TurnRefused(r) PROVE LedgerInv'
  BY Zenon, <1>2, LedgerPruneOnly DEF TurnRefused, StartIdempotent, turnVars
<1>3. ASSUME NEW r \in Requests, TurnPruneFails(r) PROVE LedgerInv'
  BY Zenon, <1>3, LedgerQuiet DEF TurnPruneFails, turnVars
<1>4. ASSUME NEW r, NEW id, TurnUnavailable(r, id) \/ TurnCannotBegin(r, id)
      PROVE  LedgerInv'
  <2>1. UNCHANGED <<clock, current, phase>> /\ Admitted(r, id)
    BY Zenon, <1>4 DEF TurnUnavailable, TurnCannotBegin, turnVars
  <2>2. CASE StartIdempotent(r)
    BY Zenon, <2>1, <2>2, LedgerPruneOnly DEF StartIdempotent
  <2>3. CASE UNCHANGED ledger
    BY Zenon, <2>1, <2>3, LedgerQuiet
  <2> QED BY Zenon, <2>1, <2>2, <2>3 DEF Admitted, ledger
<1>5. ASSUME NEW r, NEW id, TurnBegins(r, id) PROVE LedgerInv'
  <2>1. UNCHANGED clock /\ phase' = "work" /\ current' = r /\ Admitted(r, id)
    BY Zenon, <1>5 DEF TurnBegins
  <2>2. CASE r \in Requests /\ StartIdempotent(r) /\ NewRequest(r)
    <3>1. PruneTurn /\ r \notin DOMAIN index' /\ recordCount' < MaxRecords
      BY Zenon, <2>2 DEF StartIdempotent, NewRequest
    <3> QED BY Zenon, <2>1, <2>2, <3>1, LedgerPrunes DEF LedgerInv, TurnFits
  <2>3. CASE r = NoRequest /\ UNCHANGED ledger
    <3>1. LedgerFits'
      BY Zenon, <2>3, LedgerStutters DEF LedgerInv, ledger, durable, memory, ledgerVars
    <3> QED BY Zenon, <2>1, <2>3, <3>1 DEF LedgerInv, TurnFits
  <2> QED BY Zenon, <2>1, <2>2, <2>3 DEF Admitted, ledger
<1> QED BY Zenon, <1>1, <1>2, <1>3, <1>4, <1>5 DEF TurnStarts

(* The current request stores its row, which fits.                         *)
LEMMA LedgerRecord ==
  ASSUME LedgerInv, phase = "work", current # NoRequest, phase' # "work",
         current' \in {current, NoRequest}, UNCHANGED clock,
         NEW b \in ResultSizes, NEW oneTime, FitsLedger(b, oneTime),
         NEW allocation, RowStages(current, b, allocation)
  PROVE  LedgerInv'
<1>1. current \in Requests /\ current \notin DOMAIN index /\ recordCount < MaxRecords /\ clock \in Nat
  BY Zenon DEF LedgerInv, TurnFits
<1>2. b \in Nat /\ b <= MaxReplayBytes - byteCount
  BY Zenon, MutationReplayAssumption DEF FitsLedger
<1>3. LedgerFits'
  BY Zenon, <1>1, <1>2, LedgerStores DEF LedgerInv
<1> QED BY Zenon, <1>1, <1>3 DEF LedgerInv, TurnFits

(* The end of a turn preserves LedgerInv.                                  *)
LEMMA LedgerEnd ==
  ASSUME LedgerInv, TurnEnds
  PROVE  LedgerInv'
<1>1. CASE TurnFails \/ TurnOverloads
  BY Zenon, <1>1, LedgerQuiet DEF TurnFails, TurnOverloads, RollBackTurn, EndTurn
<1>2. ASSUME NEW b \in ResultSizes, NEW oneTime, TurnReturnsError(b, oneTime) PROVE LedgerInv'
  <2>1. phase = "work" /\ phase' # "work" /\ current' = NoRequest /\ UNCHANGED clock
    BY Zenon, <1>2 DEF TurnReturnsError, EndTurn
  <2>2. CASE current = NoRequest
    BY Zenon, <1>2, <2>1, <2>2, LedgerQuiet DEF TurnReturnsError
  <2>3. CASE current # NoRequest
    <3>1. FitsLedger(b, oneTime) /\ RowStages(current, b, "replay")
      BY Zenon, <1>2, <2>3 DEF TurnReturnsError, RowStages
    <3> QED BY Zenon, <2>1, <2>3, <3>1, LedgerRecord
  <2> QED BY Zenon, <2>2, <2>3
<1>3. ASSUME NEW cause, TurnLosesError(cause) PROVE LedgerInv'
  BY Zenon, <1>3, LedgerQuiet DEF TurnLosesError, EndTurn
<1>4. ASSUME NEW p, NEW b \in ResultSizes, NEW oneTime, TurnCommits(p, b, oneTime)
      PROVE  LedgerInv'
  <2>1. phase = "work" /\ phase' # "work" /\ UNCHANGED <<clock, current>>
    BY Zenon, <1>4 DEF TurnCommits
  <2>2. CASE current = NoRequest
    <3>1. /\ commitVersion' = commitVersion + 1
          /\ UNCHANGED <<rows, mutationSequence, mutationRecords, mutationBytes, memory>>
      BY Zenon, <1>4, <2>2 DEF TurnCommits, AllocatedVersion
    <3>2. LedgerFits'
      BY Zenon, <3>1, LedgerVersion DEF LedgerInv
    <3> QED BY Zenon, <2>1, <3>2 DEF LedgerInv, TurnFits
  <2>3. CASE current # NoRequest
    <3>1. FitsLedger(b, oneTime) /\ RowStages(current, b, "commit")
      BY Zenon, <1>4, <2>3 DEF TurnCommits, RowStages
    <3> QED BY Zenon, <2>1, <2>3, <3>1, LedgerRecord
  <2> QED BY Zenon, <2>2, <2>3
<1> QED BY Zenon, <1>1, <1>2, <1>3, <1>4 DEF TurnEnds

(* Every step preserves LedgerInv.                                         *)
LEMMA LedgerStep == LedgerInv /\ [CoordinatorNext]_coordinatorVars => LedgerInv'
<1> SUFFICES ASSUME LedgerInv, [CoordinatorNext]_coordinatorVars PROVE LedgerInv'
  BY Zenon
<1>1. CASE TurnStarts
  BY Zenon, <1>1, LedgerStart
<1>2. CASE TurnEnds
  BY Zenon, <1>2, LedgerEnd
<1>3. CASE TurnHandsOff \/ FrameworkBegins \/ FrameworkEnds
  BY Zenon, <1>3, LedgerQuiet DEF TurnHandsOff, FrameworkBegins, FrameworkEnds, EndTurn
<1>4. ASSUME NEW v, NEW ok, CompletionAnswers(v, ok) PROVE LedgerInv'
  BY Zenon, <1>4, LedgerQuiet DEF CompletionAnswers, turnVars
<1>5. CASE PublicationStarts \/ PublicationCloses
  BY Zenon, <1>5, LedgerQuiet DEF PublicationStarts, PublicationCloses, turnVars
<1>6. CASE Tick
  <2>1. LedgerFits'
    BY Zenon, <1>6, LedgerStutters DEF LedgerInv, Tick, ledger, durable, memory, ledgerVars
  <2>2. clock' \in Nat
    BY <1>6 DEF Tick, LedgerInv, TurnFits
  <2> QED BY Zenon, <1>6, <2>1, <2>2 DEF Tick, ledger, memory, turnVars, LedgerInv, TurnFits
<1>7. CASE Restart
  BY Zenon, <1>7, LedgerRestarts DEF Restart, EndTurn, LedgerInv, TurnFits
<1>8. CASE UNCHANGED coordinatorVars
  BY Zenon, <1>8, LedgerQuiet DEF coordinatorVars, ledger, turnVars
<1> QED BY Zenon, <1>1, <1>2, <1>3, <1>4, <1>5, <1>6, <1>7, <1>8 DEF CoordinatorNext

(* LedgerInv holds in every reachable state.                               *)
THEOREM LedgerInvariant == CoordinatorSpec => []LedgerInv
BY LedgerInit, LedgerStep, PTL DEF CoordinatorSpec

(* The ledger is sound in every reachable state, for any number of         *)
(* requests and any limits: the index in memory names exactly the rows,    *)
(* the record and byte counters are the number and the sum of the rows',   *)
(* the scan of the next process never refuses what this one wrote, and the *)
(* limits are kept.                                                        *)
THEOREM LedgerSoundHolds == CoordinatorSpec => []LedgerSound
<1>1. LedgerInv => LedgerSound
  <2> SUFFICES ASSUME LedgerInv PROVE LedgerSound
    BY Zenon
  <2>1. IndexExact /\ CountersExact /\ LedgerBounded
    BY Zenon DEF LedgerInv, LedgerFits, CountsFit, CountersExact, LedgerBounded
  <2>2. \A s \in DOMAIN rows : s > 0 /\ s <= mutationSequence /\ rows[s].version <= commitVersion
    BY DEF LedgerInv, LedgerFits, RowFits
  <2>3. ASSUME NEW s \in DOMAIN rows, NEW t \in DOMAIN rows, s < t
        PROVE  rows[s].request # rows[t].request
    <3>1. s \in Nat /\ t \in Nat
      BY Zenon DEF LedgerInv, LedgerFits, RowFits
    <3>2. s # t
      BY <2>3, <3>1
    <3> QED BY Zenon, <2>1, <3>2 DEF IndexExact
  <2>4. ScanAccepts
    BY Zenon, <2>2, <2>3 DEF LedgerInv, LedgerFits, RowsOrdered, CountsFit, ScanAccepts
  <2> QED BY Zenon, <2>1, <2>4 DEF LedgerSound
<1> QED BY <1>1, LedgerInvariant, PTL

-----------------------------------------------------------------------------

(* Request r cannot be executed again: its result is stored, or it is too  *)
(* old.                                                                    *)
Settled(r) == r \in DOMAIN index \/ CreatedAt[r] < clock - MaxAge

(* A row completed no earlier than its request was created.                *)
TimesFit == \A s \in DOMAIN rows : CreatedAt[rows[s].request] <= rows[s].completedAt

(* A request with an outcome is settled; the one being executed has none.  *)
CompletionsFit ==
  /\ completions \in [Requests -> Nat]
  /\ \A r \in Requests : completions[r] <= 1
  /\ \A r \in Requests : completions[r] = 1 => Settled(r)
  /\ phase = "work" /\ current # NoRequest =>
       completions[current] = 0 /\ CreatedAt[current] <= clock

(* The inductive invariant behind ExactlyOnce.                             *)
OnceInv == LedgerInv /\ TimesFit /\ CompletionsFit

(* A step beside the turn, or the end of one, without an outcome.          *)
LEMMA OnceQuiet ==
  ASSUME OnceInv, LedgerInv', UNCHANGED <<rows, index, clock, completions>>,
         phase' # "work" \/ UNCHANGED <<phase, current>>
  PROVE  OnceInv'
BY Zenon DEF OnceInv, TimesFit, CompletionsFit, Settled

(* The initial state satisfies OnceInv.                                    *)
LEMMA OnceInit == CoordinatorInit => OnceInv
<1>1. CoordinatorInit => TimesFit /\ CompletionsFit
  BY DEF CoordinatorInit, MutationReplayInit, TimesFit, CompletionsFit, Settled
<1> QED BY Zenon, <1>1, LedgerInit DEF OnceInv

(* Pruning removes only requests that the age check refuses.               *)
LEMMA OncePrunes ==
  ASSUME OnceInv, PruneTurn
  PROVE  /\ TimesFit'
         /\ \A r \in DOMAIN index : r \in DOMAIN index' \/ CreatedAt[r] < clock - MaxAge
<1>1. LedgerFits /\ clock \in Nat
  BY Zenon DEF OnceInv, LedgerInv, TurnFits
<1>2. TimesFit'
  BY Zenon, <1>1, LedgerPrunes DEF OnceInv, TimesFit
<1>3. ASSUME NEW r \in DOMAIN index, r \notin DOMAIN index'
      PROVE  CreatedAt[r] < clock - MaxAge
  <2>1. rows[index[r]].completedAt < clock - MaxAge
    BY Zenon, <1>1, <1>3, LedgerPrunes
  <2>2. /\ index[r] \in DOMAIN rows /\ rows[index[r]].request = r
        /\ r \in Requests /\ rows[index[r]].completedAt \in Nat
    BY Zenon, <1>1 DEF LedgerFits, RowFits, IndexExact
  <2>3. CreatedAt[r] <= rows[index[r]].completedAt
    BY Zenon, <2>2 DEF OnceInv, TimesFit
  <2> QED BY <1>1, <2>1, <2>2, <2>3, CoordinatorAssumption
<1> QED BY Zenon, <1>2, <1>3

(* A turn that ends at its start preserves OnceInv.                        *)
LEMMA OncePruneOnly ==
  ASSUME OnceInv, LedgerInv', PruneTurn, phase = "idle",
         UNCHANGED <<clock, completions, current, phase>>
  PROVE  OnceInv'
BY Zenon, OncePrunes DEF OnceInv, CompletionsFit, Settled

(* The start of a turn preserves OnceInv: an admitted request has no       *)
(* outcome yet.                                                            *)
LEMMA OnceStart ==
  ASSUME ClientAhead = 0, OnceInv, LedgerInv', TurnStarts
  PROVE  OnceInv'
<1>1. ASSUME NEW r \in Requests, NEW id, TurnReplays(r, id) \/ TurnConflicts(r, id)
      PROVE  OnceInv'
  BY Zenon, <1>1, OncePruneOnly DEF TurnReplays, TurnConflicts, StartIdempotent, turnVars, history
<1>2. ASSUME NEW r \in Requests, TurnRefused(r) PROVE OnceInv'
  BY Zenon, <1>2, OncePruneOnly DEF TurnRefused, StartIdempotent, turnVars, history
<1>3. ASSUME NEW r \in Requests, TurnPruneFails(r) PROVE OnceInv'
  BY Zenon, <1>3, OnceQuiet DEF TurnPruneFails, turnVars, history, ledger, durable, memory
<1>4. ASSUME NEW r, NEW id, TurnUnavailable(r, id) \/ TurnCannotBegin(r, id)
      PROVE  OnceInv'
  <2>1. UNCHANGED <<clock, completions, current, phase>> /\ Admitted(r, id)
    BY Zenon, <1>4 DEF TurnUnavailable, TurnCannotBegin, turnVars, history
  <2>2. CASE StartIdempotent(r)
    BY Zenon, <2>1, <2>2, OncePruneOnly DEF StartIdempotent
  <2>3. CASE UNCHANGED ledger
    BY Zenon, <2>1, <2>3, OnceQuiet DEF ledger, durable, memory
  <2> QED BY Zenon, <2>1, <2>2, <2>3 DEF Admitted, ledger
<1>5. ASSUME NEW r, NEW id, TurnBegins(r, id) PROVE OnceInv'
  <2>1. UNCHANGED <<clock, completions>> /\ phase' = "work" /\ current' = r /\ Admitted(r, id)
    BY Zenon, <1>5 DEF TurnBegins, history
  <2>2. CASE r \in Requests /\ StartIdempotent(r) /\ NewRequest(r)
    <3>1. PruneTurn /\ CreatedAt[r] <= clock
      BY <2>2, CoordinatorAssumption DEF StartIdempotent, Sendable, OnceInv, LedgerInv, TurnFits
    <3>2. r \notin DOMAIN index' /\ ~(CreatedAt[r] < clock - MaxAge)
      BY Zenon, <2>2 DEF NewRequest, TooOld
    <3>3. \A q \in Requests : completions[q] = 1 => Settled(q)'
      BY Zenon, <2>1, <3>1, OncePrunes DEF OnceInv, CompletionsFit, Settled
    <3>4. completions[r] # 1
      BY Zenon, <2>1, <2>2, <3>2, <3>3 DEF Settled
    <3>5. completions[r] = 0
      BY <2>2, <3>4 DEF OnceInv, CompletionsFit
    <3>6. CompletionsFit'
      BY Zenon, <2>1, <3>1, <3>3, <3>5 DEF OnceInv, CompletionsFit
    <3> QED BY Zenon, <3>1, <3>6, OncePrunes DEF OnceInv
  <2>3. CASE r = NoRequest /\ UNCHANGED ledger
    BY Zenon, <2>1, <2>3
    DEF ledger, durable, memory, OnceInv, TimesFit, CompletionsFit, Settled
  <2> QED BY Zenon, <2>1, <2>2, <2>3 DEF Admitted, ledger
<1> QED BY Zenon, <1>1, <1>2, <1>3, <1>4, <1>5 DEF TurnStarts

(* Storing the row of the current request and counting its outcome: what   *)
(* it leaves of the other requests.                                        *)
LEMMA CurrentStored ==
  ASSUME OnceInv, phase = "work", current # NoRequest, Complete(current),
         NEW b, NEW allocation, RowStages(current, b, allocation)
  PROVE  /\ current \in Requests /\ current \notin DOMAIN index /\ completions[current] = 0
         /\ DOMAIN index' = DOMAIN index \cup {current}
         /\ mutationSequence' = mutationSequence + 1
         /\ index'[current] = mutationSequence + 1
         /\ DOMAIN rows' = DOMAIN rows \cup {mutationSequence + 1}
         /\ rows'[mutationSequence + 1].request = current
         /\ rows'[mutationSequence + 1].completedAt = CompletionTime(clock)
         /\ rows'[mutationSequence + 1].version = AllocatedVersion(allocation)
         /\ \A t \in DOMAIN rows : rows'[t] = rows[t]
         /\ \A q \in DOMAIN index : index'[q] = index[q] /\ rows'[index[q]] = rows[index[q]]
         /\ completions' \in [Requests -> Nat] /\ completions'[current] = 1
         /\ \A q \in Requests : q # current => completions'[q] = completions[q]
<1>1. /\ current \in Requests /\ current \notin DOMAIN index /\ completions[current] = 0
      /\ LedgerFits /\ clock \in Nat
  BY Zenon DEF OnceInv, CompletionsFit, LedgerInv, TurnFits
<1>2. /\ completions' \in [Requests -> Nat] /\ completions'[current] = 1
      /\ \A q \in Requests : q # current => completions'[q] = completions[q]
  BY <1>1 DEF Complete, OnceInv, CompletionsFit
<1> QED BY Zenon, <1>1, <1>2, RowStored

(* Writing the row of the current request and its outcome together         *)
(* preserves OnceInv.                                                      *)
LEMMA OnceRecord ==
  ASSUME OnceInv, LedgerInv', phase = "work", current # NoRequest, phase' # "work",
         UNCHANGED clock, Complete(current),
         NEW b, NEW allocation, RowStages(current, b, allocation)
  PROVE  OnceInv'
<1>0. PICK s : s = mutationSequence + 1
  BY Zenon
<1>1. /\ current \in Requests /\ completions[current] = 0
      /\ DOMAIN index' = DOMAIN index \cup {current}
      /\ DOMAIN rows' = DOMAIN rows \cup {s}
      /\ rows'[s].request = current /\ rows'[s].completedAt = CompletionTime(clock)
      /\ \A t \in DOMAIN rows : rows'[t] = rows[t]
      /\ completions' \in [Requests -> Nat] /\ completions'[current] = 1
      /\ \A q \in Requests : q # current => completions'[q] = completions[q]
  BY Zenon, <1>0, CurrentStored
<1>2. CreatedAt[current] <= CompletionTime(clock)
  <2>1. clock \in Nat /\ lastCompletedAt \in Nat /\ CreatedAt[current] <= clock
    BY Zenon DEF OnceInv, LedgerInv, LedgerFits, TurnFits, CompletionsFit
  <2>2. CompletionTime(clock) \in Nat /\ clock <= CompletionTime(clock)
    BY Zenon, <2>1, CompletionInOrder
  <2> QED BY <1>1, <2>1, <2>2, CoordinatorAssumption
<1>3. TimesFit'
  BY Zenon, <1>1, <1>2 DEF OnceInv, TimesFit
<1>4. \A q \in Requests : completions'[q] <= 1 /\ (completions'[q] = 1 => Settled(q)')
  <2>1. \A q \in Requests : completions'[q] <= 1
    BY <1>1 DEF OnceInv, CompletionsFit
  <2> QED BY Zenon, <1>1, <2>1 DEF OnceInv, CompletionsFit, Settled
<1> QED BY Zenon, <1>1, <1>3, <1>4 DEF OnceInv, CompletionsFit

(* The end of a turn preserves OnceInv.                                    *)
LEMMA OnceEnd ==
  ASSUME OnceInv, LedgerInv', TurnEnds
  PROVE  OnceInv'
<1>1. CASE TurnFails \/ TurnOverloads
  BY Zenon, <1>1, OnceQuiet
  DEF TurnFails, TurnOverloads, RollBackTurn, EndTurn, ledger, durable, memory, history
<1>2. ASSUME NEW b, NEW oneTime, TurnReturnsError(b, oneTime) PROVE OnceInv'
  <2>1. phase = "work" /\ phase' # "work" /\ UNCHANGED clock /\ Complete(current)
    BY Zenon, <1>2 DEF TurnReturnsError, EndTurn
  <2>2. CASE current = NoRequest
    BY Zenon, <1>2, <2>1, <2>2, OnceQuiet DEF TurnReturnsError, Complete, ledger, durable, memory
  <2>3. CASE current # NoRequest
    <3>1. RowStages(current, b, "replay")
      BY Zenon, <1>2, <2>3 DEF TurnReturnsError, RowStages
    <3> QED BY Zenon, <2>1, <2>3, <3>1, OnceRecord
  <2> QED BY Zenon, <2>2, <2>3
<1>3. ASSUME NEW cause, TurnLosesError(cause) PROVE OnceInv'
  BY Zenon, <1>3, OnceQuiet DEF TurnLosesError, EndTurn, ledger, durable, memory, history
<1>4. ASSUME NEW p, NEW b, NEW oneTime, TurnCommits(p, b, oneTime) PROVE OnceInv'
  <2>1. phase = "work" /\ phase' # "work" /\ UNCHANGED clock /\ Complete(current)
    BY Zenon, <1>4 DEF TurnCommits
  <2>2. CASE current = NoRequest
    BY Zenon, <1>4, <2>1, <2>2, OnceQuiet DEF TurnCommits, Complete, memory
  <2>3. CASE current # NoRequest
    <3>1. RowStages(current, b, "commit")
      BY Zenon, <1>4, <2>3 DEF TurnCommits, RowStages
    <3> QED BY Zenon, <2>1, <2>3, <3>1, OnceRecord
  <2> QED BY Zenon, <2>2, <2>3
<1> QED BY Zenon, <1>1, <1>2, <1>3, <1>4 DEF TurnEnds

(* Every step preserves OnceInv.                                           *)
LEMMA OnceStep ==
  ASSUME ClientAhead = 0
  PROVE  OnceInv /\ [CoordinatorNext]_coordinatorVars => OnceInv'
<1> SUFFICES ASSUME OnceInv, [CoordinatorNext]_coordinatorVars PROVE OnceInv'
  BY Zenon
<1>0. LedgerInv'
  BY Zenon, LedgerStep DEF OnceInv
<1>1. CASE TurnStarts
  BY Zenon, <1>0, <1>1, OnceStart
<1>2. CASE TurnEnds
  BY Zenon, <1>0, <1>2, OnceEnd
<1>3. CASE TurnHandsOff \/ FrameworkEnds
  BY Zenon, <1>0, <1>3, OnceQuiet
  DEF TurnHandsOff, FrameworkEnds, EndTurn, ledger, durable, memory, history
<1>4. CASE FrameworkBegins
  BY Zenon, <1>0, <1>4, OnceQuiet DEF FrameworkBegins, ledger, durable, memory, history
<1>5. ASSUME NEW v, NEW ok, CompletionAnswers(v, ok) PROVE OnceInv'
  BY Zenon, <1>0, <1>5, OnceQuiet DEF CompletionAnswers, ledger, durable, memory, turnVars
<1>6. CASE PublicationStarts \/ PublicationCloses
  BY Zenon, <1>0, <1>6, OnceQuiet
  DEF PublicationStarts, PublicationCloses, ledger, durable, memory, turnVars, history
<1>7. CASE Tick
  <2>1. UNCHANGED <<rows, index, completions, phase, current>> /\ clock' = clock + 1
    BY Zenon, <1>7 DEF Tick, ledger, durable, memory, turnVars, history
  <2>2. \A r \in Requests : Settled(r) => Settled(r)'
    BY <2>1, CoordinatorAssumption DEF OnceInv, LedgerInv, TurnFits, Settled
  <2>3. phase = "work" /\ current # NoRequest => CreatedAt[current] <= clock'
    BY <2>1, CoordinatorAssumption DEF OnceInv, LedgerInv, TurnFits, CompletionsFit
  <2> QED BY Zenon, <1>0, <2>1, <2>2, <2>3 DEF OnceInv, TimesFit, CompletionsFit
<1>8. CASE Restart
  <2>1. UNCHANGED <<rows, clock, completions>> /\ phase' = "idle"
    BY Zenon, <1>8 DEF Restart, EndTurn, durable, history
  <2>2. DOMAIN index \subseteq DOMAIN index'
    BY Zenon, <1>8, LedgerRestarts DEF OnceInv, LedgerInv
  <2> QED BY Zenon, <1>0, <2>1, <2>2 DEF OnceInv, TimesFit, CompletionsFit, Settled
<1>9. CASE UNCHANGED coordinatorVars
  BY Zenon, <1>0, <1>9, OnceQuiet DEF coordinatorVars, durable, memory, turnVars, history
<1> QED BY Zenon, <1>1, <1>2, <1>3, <1>4, <1>5, <1>6, <1>7, <1>8, <1>9 DEF CoordinatorNext

(* Exactly once: with clients whose clocks are not ahead of the server's,  *)
(* a request has at most one durable outcome over any number of retries,   *)
(* failures, prunes and crashes.                                           *)
THEOREM ExactlyOnceHolds ==
  ASSUME ClientAhead = 0
  PROVE  CoordinatorSpec => []ExactlyOnce
<1>1. OnceInv => ExactlyOnce
  BY Zenon DEF OnceInv, CompletionsFit, ExactlyOnce
<1> QED BY <1>1, OnceInit, OnceStep, PTL DEF CoordinatorSpec

-----------------------------------------------------------------------------

(* Every result that execute() has given, or is about to give, to a        *)
(* request is the one its row records: the result of a waiting call, of    *)
(* the turn between COMMIT and hand-off, and of the replays in between.    *)
AnswersFit ==
  /\ DOMAIN answers = Requests
  /\ \A r \in DOMAIN index : completions[r] = 1
  /\ \A r \in Requests : answers[r] # {} => completions[r] = 1
  /\ \A r \in Requests : \A a, b \in answers[r] : a = b
  /\ \A r \in DOMAIN index : \A a \in answers[r] : a = <<index[r], rows[index[r]].version>>

(* A call that awaits its slot holds the result of its request's row.      *)
WaitersFit ==
  /\ \A v \in DOMAIN waiting : waiting[v].request # NoRequest =>
       LET r == waiting[v].request
       IN  /\ r \in Requests /\ completions[r] = 1
           /\ \A a \in answers[r] : a = <<waiting[v].sequence, v>>
           /\ r \in DOMAIN index => index[r] = waiting[v].sequence /\ rows[index[r]].version = v
  /\ \A v, w \in DOMAIN waiting :
       waiting[v].request = waiting[w].request /\ waiting[v].request # NoRequest => v = w

(* Between COMMIT and the hand-off the row is stored and nobody knows.     *)
HandoffFits ==
  phase = "handoff" /\ current # NoRequest =>
    /\ current \in Requests /\ completions[current] = 1 /\ answers[current] = {}
    /\ current \in DOMAIN index /\ index[current] = mutationSequence
    /\ rows[mutationSequence].version = openReservation
    /\ \A v \in DOMAIN waiting : waiting[v].request # current

(* The inductive invariant behind AnswersAgree.                            *)
AnswerInv == OnceInv /\ AnswersFit /\ WaitersFit /\ HandoffFits

(* What it depends on besides OnceInv.                                     *)
answerVars == <<rows, index, mutationSequence, completions, answers, waiting, phase,
                current, openReservation>>

(* A step that leaves those variables alone preserves it.                  *)
LEMMA AnswerStutters ==
  ASSUME AnswerInv, OnceInv', UNCHANGED answerVars
  PROVE  AnswerInv'
BY DEF AnswerInv, AnswersFit, WaitersFit, HandoffFits, answerVars

(* A turn that ends without an outcome preserves it.                       *)
LEMMA AnswerTurnEnds ==
  ASSUME AnswerInv, OnceInv', phase' # "handoff",
         UNCHANGED <<rows, index, completions, answers, waiting>>
  PROVE  AnswerInv'
BY DEF AnswerInv, AnswersFit, WaitersFit, HandoffFits

(* The initial state satisfies it.                                         *)
LEMMA AnswerInit == CoordinatorInit => AnswerInv
BY Zenon, OnceInit
DEF CoordinatorInit, MutationReplayInit, AnswerInv, AnswersFit, WaitersFit, HandoffFits

(* A step that removes rows at most, outside the hand-off, preserves it.   *)
LEMMA AnswerPruned ==
  ASSUME AnswerInv, OnceInv', phase' # "handoff",
         UNCHANGED <<completions, answers, waiting>>,
         \A r \in DOMAIN index' : /\ r \in DOMAIN index /\ index'[r] = index[r]
                                  /\ rows'[index'[r]] = rows[index[r]]
  PROVE  AnswerInv'
<1>1. AnswersFit'
  BY Zenon DEF AnswerInv, AnswersFit
<1>2. WaitersFit'
  BY DEF AnswerInv, WaitersFit
<1>3. HandoffFits'
  BY Zenon DEF HandoffFits
<1> QED BY Zenon, <1>1, <1>2, <1>3 DEF AnswerInv

(* A replay adds the answer the row records.                               *)
LEMMA AnswerReplays ==
  ASSUME AnswerInv, OnceInv', NEW r \in Requests, NEW id, TurnReplays(r, id)
  PROVE  AnswerInv'
<1> DEFINE new == <<index[r], rows[index[r]].version>>
<1>1. PruneTurn /\ phase = "idle" /\ r \in DOMAIN index'
  BY Zenon DEF TurnReplays, StartIdempotent
<1>2. \A q \in DOMAIN index' : /\ q \in DOMAIN index /\ index'[q] = index[q]
                               /\ rows'[index'[q]] = rows[index[q]]
  BY Zenon, <1>1, LedgerPrunes DEF AnswerInv, OnceInv, LedgerInv, TurnFits
<1>3. /\ answers' = [answers EXCEPT ![r] = @ \cup {new}]
      /\ UNCHANGED <<completions, waiting, phase>>
  BY Zenon, <1>1, <1>2 DEF TurnReplays, turnVars
<1>4. r \in DOMAIN index /\ completions[r] = 1 /\ \A a \in answers[r] : a = new
  BY Zenon, <1>1, <1>2 DEF AnswerInv, AnswersFit
<1> HIDE DEF new
<1>5. /\ DOMAIN answers' = Requests
      /\ \A q \in Requests : q # r => answers'[q] = answers[q]
      /\ \A a \in answers'[r] : a = new
  BY Zenon, <1>3, <1>4 DEF AnswerInv, AnswersFit
<1>6. AnswersFit'
  <2>1. \A q \in DOMAIN index' : \A a \in answers'[q] : a = <<index'[q], rows'[index'[q]].version>>
    BY <1>2, <1>5 DEF AnswerInv, AnswersFit, new, OnceInv, LedgerInv, LedgerFits
  <2> QED
    BY <1>2, <1>3, <1>4, <1>5, <2>1 DEF AnswerInv, AnswersFit
<1>7. WaitersFit'
  <2>1. ASSUME NEW v \in DOMAIN waiting, waiting[v].request = r
        PROVE  new = <<waiting[v].sequence, v>>
    BY Zenon, <1>4, <2>1, CoordinatorAssumption DEF AnswerInv, WaitersFit, new
  <2>2. ASSUME NEW v \in DOMAIN waiting, waiting[v].request # NoRequest
        PROVE  \A a \in answers'[waiting[v].request] : a = <<waiting[v].sequence, v>>
    BY Zenon, <1>5, <2>1, <2>2 DEF AnswerInv, WaitersFit
  <2> QED
    BY <1>2, <1>3, <2>2 DEF AnswerInv, WaitersFit
<1>8. HandoffFits'
  BY Zenon, <1>1, <1>3 DEF HandoffFits
<1> QED BY Zenon, <1>6, <1>7, <1>8 DEF AnswerInv

(* The start of a turn preserves it.                                       *)
LEMMA AnswerStart ==
  ASSUME AnswerInv, OnceInv', TurnStarts
  PROVE  AnswerInv'
<1>1. ASSUME NEW r \in Requests, NEW id, TurnReplays(r, id) PROVE AnswerInv'
  BY Zenon, <1>1, AnswerReplays
<1>2. ASSUME NEW r \in Requests, NEW id, TurnConflicts(r, id) \/ TurnRefused(r)
      PROVE  AnswerInv'
  <2>1. /\ PruneTurn /\ phase = "idle" /\ UNCHANGED <<completions, answers, waiting, phase>>
    BY Zenon, <1>2 DEF TurnConflicts, TurnRefused, StartIdempotent, turnVars, history
  <2> QED
    BY Zenon, <2>1, LedgerPrunes, AnswerPruned DEF AnswerInv, OnceInv, LedgerInv, TurnFits
<1>3. ASSUME NEW r \in Requests, TurnPruneFails(r) PROVE AnswerInv'
  BY Zenon, <1>3, AnswerStutters
  DEF TurnPruneFails, turnVars, history, ledger, durable, memory, answerVars, pubVars
<1>4. ASSUME NEW r, NEW id, TurnUnavailable(r, id) \/ TurnCannotBegin(r, id) \/ TurnBegins(r, id)
      PROVE  AnswerInv'
  <2>1. /\ Admitted(r, id) /\ UNCHANGED <<completions, answers, waiting>>
        /\ phase' \in {phase, "work"} /\ phase = "idle"
    BY Zenon, <1>4, AdmissionKeepsVersion DEF TurnUnavailable, TurnCannotBegin, TurnBegins, turnVars, history
  <2>2. CASE PruneTurn
    BY Zenon, <2>1, <2>2, LedgerPrunes, AnswerPruned DEF AnswerInv, OnceInv, LedgerInv, TurnFits
  <2>3. CASE UNCHANGED ledger
    BY Zenon, <2>1, <2>3, AnswerTurnEnds DEF ledger, durable, memory
  <2> QED BY Zenon, <2>1, <2>2, <2>3 DEF Admitted, StartIdempotent, ledger
<1> QED BY Zenon, <1>1, <1>2, <1>3, <1>4 DEF TurnStarts

(* An application error stores its result and answers with it at once.     *)
LEMMA AnswerError ==
  ASSUME AnswerInv, OnceInv', NEW b, NEW oneTime, TurnReturnsError(b, oneTime)
  PROVE  AnswerInv'
<1>0. phase = "work" /\ phase' = "idle" /\ UNCHANGED waiting
  BY Zenon DEF TurnReturnsError, EndTurn
<1>1. CASE current = NoRequest
  <2>1. UNCHANGED <<rows, index, completions, answers>>
    BY Zenon, <1>1 DEF TurnReturnsError, Complete, Deliver, ledger, durable, memory
  <2> QED BY Zenon, <1>0, <2>1, AnswerTurnEnds
<1>2. CASE current # NoRequest
  <2> DEFINE new == <<mutationSequence + 1, commitVersion>>
  <2>1. /\ current \in Requests /\ current \notin DOMAIN index /\ completions[current] = 0
        /\ DOMAIN index' = DOMAIN index \cup {current}
        /\ index'[current] = mutationSequence + 1
        /\ rows'[mutationSequence + 1].version = commitVersion
        /\ \A q \in DOMAIN index : index'[q] = index[q] /\ rows'[index[q]] = rows[index[q]]
        /\ completions'[current] = 1
        /\ \A q \in Requests : q # current => completions'[q] = completions[q]
    <3>1. Complete(current) /\ RowStages(current, b, "replay")
      BY Zenon, <1>2 DEF TurnReturnsError, RowStages
    <3>2. AllocatedVersion("replay") = commitVersion
      BY Zenon DEF AllocatedVersion
    <3>3. OnceInv
      BY Zenon DEF AnswerInv
    <3> QED BY Zenon, <1>0, <1>2, <3>1, <3>2, <3>3, CurrentStored
  <2>2. answers[current] = {} /\ \A v \in DOMAIN waiting : waiting[v].request # current
    BY <1>2, <2>1 DEF AnswerInv, AnswersFit, WaitersFit
  <2>3. answers' = [answers EXCEPT ![current] = @ \cup {new}]
    BY Zenon, <1>2 DEF TurnReturnsError, Deliver
  <2>4. /\ DOMAIN answers' = Requests /\ answers'[current] = {new}
        /\ \A q \in Requests : q # current => answers'[q] = answers[q]
    BY Zenon, <2>1, <2>2, <2>3 DEF AnswerInv, AnswersFit
  <2>5. new = <<index'[current], rows'[index'[current]].version>>
    BY Zenon, <2>1
  <2> HIDE DEF new
  <2>6. AnswersFit'
    <3>1. DOMAIN index \subseteq Requests
      BY Zenon DEF AnswerInv, OnceInv, LedgerInv, LedgerFits
    <3>2. \A r \in DOMAIN index' : \A a \in answers'[r] : a = <<index'[r], rows'[index'[r]].version>>
      BY <2>1, <2>4, <2>5, <3>1 DEF AnswerInv, AnswersFit
    <3> QED
      BY <2>1, <2>4, <3>1, <3>2 DEF AnswerInv, AnswersFit
  <2>7. WaitersFit'
    BY <1>0, <2>1, <2>2, <2>4 DEF AnswerInv, WaitersFit
  <2>8. HandoffFits'
    BY Zenon, <1>0 DEF HandoffFits
  <2> QED BY Zenon, <2>6, <2>7, <2>8 DEF AnswerInv
<1> QED BY Zenon, <1>1, <1>2

(* COMMIT stores the row under the version of the open slot.               *)
LEMMA AnswerCommits ==
  ASSUME AnswerInv, OnceInv', NEW p, NEW b, NEW oneTime, TurnCommits(p, b, oneTime)
  PROVE  AnswerInv'
<1>0. /\ phase = "work" /\ phase' = "handoff" /\ commitVersion + 1 = openReservation
      /\ UNCHANGED <<waiting, answers, current, openReservation>>
  BY Zenon DEF TurnCommits, Resize
<1>1. CASE current = NoRequest
  <2>1. UNCHANGED <<rows, index, completions>>
    BY Zenon, <1>1 DEF TurnCommits, Complete, memory
  <2> QED BY <1>0, <1>1, <2>1 DEF AnswerInv, AnswersFit, WaitersFit, HandoffFits
<1>2. CASE current # NoRequest
  <2>1. /\ current \in Requests /\ current \notin DOMAIN index /\ completions[current] = 0
        /\ DOMAIN index' = DOMAIN index \cup {current}
        /\ mutationSequence' = mutationSequence + 1
        /\ index'[current] = mutationSequence + 1
        /\ rows'[mutationSequence + 1].version = openReservation
        /\ \A q \in DOMAIN index : index'[q] = index[q] /\ rows'[index[q]] = rows[index[q]]
        /\ completions'[current] = 1
        /\ \A q \in Requests : q # current => completions'[q] = completions[q]
    <3>1. Complete(current) /\ RowStages(current, b, "commit")
      BY Zenon, <1>2 DEF TurnCommits, RowStages
    <3>2. AllocatedVersion("commit") = openReservation
      BY Zenon, <1>0 DEF AllocatedVersion
    <3>3. OnceInv
      BY Zenon DEF AnswerInv
    <3> QED BY Zenon, <1>0, <1>2, <3>1, <3>2, <3>3, CurrentStored
  <2>2. answers[current] = {} /\ \A v \in DOMAIN waiting : waiting[v].request # current
    BY <1>2, <2>1 DEF AnswerInv, AnswersFit, WaitersFit
  <2>3. AnswersFit'
    <3>1. DOMAIN index \subseteq Requests
      BY Zenon DEF AnswerInv, OnceInv, LedgerInv, LedgerFits
    <3> QED
      BY <1>0, <2>1, <2>2, <3>1 DEF AnswerInv, AnswersFit
  <2>4. WaitersFit'
    BY <1>0, <2>1, <2>2 DEF AnswerInv, WaitersFit
  <2>5. HandoffFits'
    BY Zenon, <1>0, <2>1, <2>2 DEF HandoffFits
  <2> QED BY Zenon, <2>3, <2>4, <2>5 DEF AnswerInv
<1> QED BY Zenon, <1>1, <1>2

(* The end of a turn preserves it.                                         *)
LEMMA AnswerEnd ==
  ASSUME AnswerInv, OnceInv', TurnEnds
  PROVE  AnswerInv'
<1>1. CASE TurnFails \/ TurnOverloads
  BY Zenon, <1>1, AnswerTurnEnds
  DEF TurnFails, TurnOverloads, RollBackTurn, EndTurn, ledger, durable, memory, history
<1>2. ASSUME NEW b, NEW oneTime, TurnReturnsError(b, oneTime) PROVE AnswerInv'
  BY Zenon, <1>2, AnswerError
<1>3. ASSUME NEW cause, TurnLosesError(cause) PROVE AnswerInv'
  BY Zenon, <1>3, AnswerTurnEnds DEF TurnLosesError, EndTurn, ledger, durable, memory, history
<1>4. ASSUME NEW p, NEW b, NEW oneTime, TurnCommits(p, b, oneTime) PROVE AnswerInv'
  BY Zenon, <1>4, AnswerCommits
<1> QED BY Zenon, <1>1, <1>2, <1>3, <1>4 DEF TurnEnds

(* The hand-off turns the stored result into one that is waited for.       *)
LEMMA AnswerHandsOff ==
  ASSUME AnswerInv, OnceInv', TurnHandsOff
  PROVE  AnswerInv'
<1> DEFINE v == openReservation
           sequence == IF current = NoRequest THEN 0 ELSE mutationSequence
<1>1. /\ phase = "handoff" /\ phase' = "idle"
      /\ DOMAIN waiting' = DOMAIN waiting \cup {v}
      /\ waiting'[v].request = current /\ waiting'[v].sequence = sequence
      /\ \A w \in DOMAIN waiting : w # v => waiting'[w] = waiting[w]
      /\ UNCHANGED <<rows, index, mutationSequence, completions, answers>>
  BY Zenon DEF TurnHandsOff, EndTurn, ledger, durable, memory, history
<1>2. AnswersFit'
  BY Zenon, <1>1 DEF AnswerInv, AnswersFit
<1>3. WaitersFit'
  <2> HIDE DEF v
  <2>1. ASSUME NEW w \in DOMAIN waiting', waiting'[w].request # NoRequest
        PROVE  LET r == waiting'[w].request
               IN  /\ r \in Requests /\ completions[r] = 1
                   /\ \A a \in answers[r] : a = <<waiting'[w].sequence, w>>
                   /\ r \in DOMAIN index =>
                        index[r] = waiting'[w].sequence /\ rows[index[r]].version = w
    <3>1. CASE w = v
      BY Zenon, <1>1, <2>1, <3>1 DEF AnswerInv, HandoffFits, v
    <3>2. CASE w # v
      BY Zenon, <1>1, <2>1, <3>2 DEF AnswerInv, WaitersFit
    <3> QED BY Zenon, <3>1, <3>2
  <2>2. ASSUME NEW w \in DOMAIN waiting', NEW x \in DOMAIN waiting',
               waiting'[w].request = waiting'[x].request, waiting'[w].request # NoRequest
        PROVE  w = x
    BY <1>1, <2>2 DEF AnswerInv, WaitersFit, HandoffFits
  <2> QED BY Zenon, <1>1, <2>1, <2>2 DEF WaitersFit
<1>4. HandoffFits'
  BY Zenon, <1>1 DEF HandoffFits
<1> QED BY Zenon, <1>2, <1>3, <1>4 DEF AnswerInv

(* A slot that settles answers with the result that waited for it.         *)
LEMMA AnswerCompletes ==
  ASSUME AnswerInv, OnceInv', NEW v, NEW ok, CompletionAnswers(v, ok)
  PROVE  AnswerInv'
<1> DEFINE r == waiting[v].request
           new == <<waiting[v].sequence, v>>
<1>1. /\ v \in DOMAIN waiting
      /\ DOMAIN waiting' = DOMAIN waiting \ {v}
      /\ \A w \in DOMAIN waiting' : waiting'[w] = waiting[w]
      /\ UNCHANGED <<rows, index, mutationSequence, completions, phase, current, openReservation>>
  BY Zenon DEF CompletionAnswers, SettleHandedOff, ledger, durable, memory, turnVars
<1>2. CASE ~ok \/ r = NoRequest
  <2>1. UNCHANGED answers
    BY Zenon, <1>2 DEF CompletionAnswers, Deliver
  <2> QED
    BY <1>1, <2>1 DEF AnswerInv, AnswersFit, WaitersFit, HandoffFits
<1>3. CASE ok /\ r # NoRequest
  <2>1. answers' = [answers EXCEPT ![r] = @ \cup {new}]
    BY Zenon, <1>3 DEF CompletionAnswers, Deliver
  <2>2. /\ r \in Requests /\ completions[r] = 1
        /\ \A a \in answers[r] : a = new
        /\ r \in DOMAIN index => new = <<index[r], rows[index[r]].version>>
    BY Zenon, <1>1, <1>3 DEF AnswerInv, WaitersFit
  <2>3. /\ DOMAIN answers' = Requests
        /\ \A a \in answers'[r] : a = new
        /\ \A q \in Requests : q # r => answers'[q] = answers[q]
    BY Zenon, <2>1, <2>2 DEF AnswerInv, AnswersFit
  <2>4. \A w \in DOMAIN waiting' : waiting'[w].request # r
    BY Zenon, <1>1, <1>3 DEF AnswerInv, WaitersFit
  <2>5. phase = "handoff" => current # r
    BY Zenon, <1>1, <1>3 DEF AnswerInv, HandoffFits
  <2> HIDE DEF r, new
  <2>6. AnswersFit'
    BY Zenon, <1>1, <2>2, <2>3 DEF AnswerInv, AnswersFit, OnceInv, LedgerInv, LedgerFits
  <2>7. WaitersFit'
    BY <1>1, <2>3, <2>4 DEF AnswerInv, WaitersFit
  <2>8. HandoffFits'
    BY Zenon, <1>1, <2>3, <2>5 DEF AnswerInv, HandoffFits
  <2> QED BY Zenon, <2>6, <2>7, <2>8 DEF AnswerInv
<1> QED BY Zenon, <1>2, <1>3

(* The scan finds every row under the sequence it had.                     *)
LEMMA AnswerRestart ==
  ASSUME AnswerInv, OnceInv', Restart
  PROVE  AnswerInv'
<1>1. /\ UNCHANGED <<rows, completions, answers>> /\ DOMAIN waiting' = {}
      /\ phase' = "idle"
  BY Zenon DEF Restart, EndTurn, durable, history
<1>2. \A r \in DOMAIN index' : /\ r \in DOMAIN index /\ index'[r] = index[r]
                               /\ rows'[index'[r]] = rows[index[r]]
  BY Zenon, LedgerRestarts DEF AnswerInv, OnceInv, LedgerInv
<1>3. AnswersFit'
  BY Zenon, <1>1, <1>2 DEF AnswerInv, AnswersFit
<1>4. WaitersFit' /\ HandoffFits'
  BY Zenon, <1>1 DEF WaitersFit, HandoffFits
<1> QED BY Zenon, <1>3, <1>4 DEF AnswerInv

(* Every step preserves it.                                                *)
LEMMA AnswerStep ==
  ASSUME ClientAhead = 0
  PROVE  AnswerInv /\ [CoordinatorNext]_coordinatorVars => AnswerInv'
<1> SUFFICES ASSUME AnswerInv, [CoordinatorNext]_coordinatorVars PROVE AnswerInv'
  BY Zenon
<1>0. OnceInv'
  BY Zenon, OnceStep DEF AnswerInv
<1>1. CASE TurnStarts
  BY Zenon, <1>0, <1>1, AnswerStart
<1>2. CASE TurnEnds
  BY Zenon, <1>0, <1>2, AnswerEnd
<1>3. CASE TurnHandsOff
  BY Zenon, <1>0, <1>3, AnswerHandsOff
<1>4. ASSUME NEW v, NEW ok, CompletionAnswers(v, ok) PROVE AnswerInv'
  BY Zenon, <1>0, <1>4, AnswerCompletes
<1>5. CASE FrameworkBegins \/ FrameworkEnds
  BY Zenon, <1>0, <1>5, AnswerTurnEnds
  DEF FrameworkBegins, FrameworkEnds, EndTurn, ledger, durable, memory, history
<1>6. CASE PublicationStarts \/ PublicationCloses \/ Tick
  BY Zenon, <1>0, <1>6, AnswerStutters
  DEF PublicationStarts, PublicationCloses, Tick, StartHandsOff, Close, pubVars, ledger,
      durable, memory, turnVars, history, answerVars
<1>7. CASE Restart
  BY Zenon, <1>0, <1>7, AnswerRestart
<1>8. CASE UNCHANGED coordinatorVars
  BY Zenon, <1>0, <1>8, AnswerStutters
  DEF coordinatorVars, pubVars, durable, memory, turnVars, history, answerVars
<1> QED BY Zenon, <1>1, <1>2, <1>3, <1>4, <1>5, <1>6, <1>7, <1>8 DEF CoordinatorNext

(* A request is answered with one result only, the stored one, however its *)
(* answers come about: the first execution, an application error, any      *)
(* number of replays before and after the publication, prunes, crashes.    *)
THEOREM AnswersAgreeHolds ==
  ASSUME ClientAhead = 0
  PROVE  CoordinatorSpec => []AnswersAgree
<1>1. AnswerInv => AnswersAgree
  <2> SUFFICES ASSUME AnswerInv, NEW r \in Requests PROVE Cardinality(answers[r]) <= 1
    BY Zenon DEF AnswersAgree
  <2>1. CASE answers[r] = {}
    BY <2>1, FS_EmptySet
  <2>2. CASE answers[r] # {}
    <3>1. PICK a \in answers[r] : TRUE
      BY Zenon, <2>2
    <3>2. answers[r] = {a}
      BY <3>1 DEF AnswerInv, AnswersFit
    <3>3. Cardinality(answers[r]) = 1
      BY Zenon, <3>2, FS_Singleton
    <3> QED BY <3>3
  <2> QED BY Zenon, <2>1, <2>2
<1> QED BY <1>1, AnswerInit, AnswerStep, PTL DEF CoordinatorSpec

-----------------------------------------------------------------------------

(* What a step of the coordinator does to ordered publication.             *)
PublicationSteps ==
  \/ Reserve(0)
  \/ \E p \in Sizes : Resize(p)
  \/ CommitSlot
  \/ CancelSlot
  \/ StartHandsOff
  \/ \E v \in unsettledVersions, ok \in BOOLEAN : SettleHandedOff(v, ok)
  \/ Close
  \/ UNCHANGED pubVars

(* Every step of the coordinator is a step of publication or a restart.    *)
LEMMA CoordinatorPublishes ==
  ASSUME [CoordinatorNext]_coordinatorVars
  PROVE  PublicationSteps \/ Restart
<1>1. CASE TurnStarts
  <2>1. ASSUME NEW r, NEW id,
               TurnReplays(r, id) \/ TurnConflicts(r, id) \/ TurnRefused(r) \/ TurnPruneFails(r)
        PROVE  UNCHANGED pubVars
    BY Zenon, <2>1 DEF TurnReplays, TurnConflicts, TurnRefused, TurnPruneFails
  <2>2. ASSUME NEW r, NEW id, TurnUnavailable(r, id) \/ TurnCannotBegin(r, id)
        PROVE  UNCHANGED pubVars
    BY Zenon, <2>2 DEF TurnUnavailable, TurnCannotBegin
  <2>3. ASSUME NEW r, NEW id, TurnBegins(r, id) PROVE Reserve(0)
    BY Zenon, <2>3 DEF TurnBegins
  <2> QED BY Zenon, <1>1, <2>1, <2>2, <2>3 DEF TurnStarts, PublicationSteps
<1>2. CASE TurnEnds
  <2>1. ASSUME NEW p \in Sizes, NEW b, NEW oneTime, TurnCommits(p, b, oneTime) PROVE Resize(p)
    BY Zenon, <2>1 DEF TurnCommits
  <2>2. ASSUME NEW b, NEW oneTime, TurnReturnsError(b, oneTime) PROVE CancelSlot
    BY Zenon, <2>2 DEF TurnReturnsError
  <2>3. ASSUME NEW cause, TurnLosesError(cause) PROVE CancelSlot
    BY Zenon, <2>3 DEF TurnLosesError
  <2>4. ASSUME TurnFails \/ TurnOverloads PROVE CancelSlot
    BY Zenon, <2>4 DEF TurnFails, TurnOverloads, RollBackTurn
  <2> QED BY Zenon, <1>2, <2>1, <2>2, <2>3, <2>4 DEF TurnEnds, PublicationSteps
<1>3. CASE TurnHandsOff
  BY Zenon, <1>3 DEF TurnHandsOff, PublicationSteps
<1>4. ASSUME NEW v \in unsettledVersions, NEW ok \in BOOLEAN, CompletionAnswers(v, ok)
      PROVE  PublicationSteps
  BY Zenon, <1>4 DEF CompletionAnswers, PublicationSteps
<1>5. CASE FrameworkBegins \/ FrameworkEnds \/ PublicationStarts \/ PublicationCloses \/ Tick
  BY Zenon, <1>5
  DEF FrameworkBegins, FrameworkEnds, PublicationStarts, PublicationCloses, Tick,
      PublicationSteps
<1>6. CASE UNCHANGED coordinatorVars
  BY Zenon, <1>6 DEF coordinatorVars, PublicationSteps
<1> QED BY Zenon, <1>1, <1>2, <1>3, <1>4, <1>5, <1>6 DEF CoordinatorNext

(* A version whose publication failed was started and has settled.         *)
FailuresStarted == \A v \in failedVersions : v <= startedHighWater /\ v \notin unsettledVersions

(* The inductive invariant behind AnsweredAfterPublication: publication is *)
(* as it is on its own, under the versions SQLite allocates.               *)
PublishedInv == VersionInv /\ PublicationInv /\ FailuresStarted

(* The next process starts publication at the durable commit version.      *)
LEMMA RestartPublishes ==
  ASSUME PublishedInv, Restart
  PROVE  PublicationInv' /\ FailuresStarted'
<1>1. commitVersion \in Nat /\ InitialVersion <= commitVersion
  BY PublicationAssumption
  DEF PublishedInv, VersionInv, VersionsAgree, PublicationInv, PublicationTypeOK
<1>2. /\ DOMAIN slots' = {} /\ slots' \in [DOMAIN slots' -> Slot]
      /\ openReservation' = NoVersion /\ items' = 0 /\ bytes' = 0
      /\ committedHighWater' = commitVersion /\ startedHighWater' = commitVersion
      /\ settledHighWater' = commitVersion
      /\ unsettledVersions' = {} /\ starting' = FALSE /\ queued' = NoVersion
      /\ awaited' = NoVersion /\ processed' = 0 /\ failedVersions' = {}
      /\ lastFailureVersion' = NoVersion /\ closed' = FALSE /\ closePromise' = "none"
  BY Zenon DEF Restart, PublicationRestarts
<1>3. IsFiniteSet(DOMAIN slots') /\ Cardinality(DOMAIN slots') = 0
  BY Zenon, <1>2, FS_EmptySet
<1>4. PublicationTypeOK'
  <2>1. 0 \in Nat /\ 0 \in Int /\ FALSE \in BOOLEAN
    OBVIOUS
  <2> QED BY Zenon, <1>1, <1>2, <2>1 DEF PublicationTypeOK, NoVersion
<1>5. \A v \in (startedHighWater' + 1)..committedHighWater' : v \in DOMAIN slots'
  BY <1>1, <1>2
<1>6. /\ InitialVersion <= settledHighWater' /\ settledHighWater' <= startedHighWater'
      /\ startedHighWater' <= committedHighWater'
      /\ (settledHighWater' < startedHighWater' => settledHighWater' + 1 \in unsettledVersions')
  BY <1>1, <1>2
<1>7. PublicationInv'
  BY Zenon, <1>2, <1>3, <1>4, <1>5, <1>6 DEF PublicationInv
<1> QED BY Zenon, <1>2, <1>7 DEF FailuresStarted

(* A slot that settles leaves the list and the unsettled versions.         *)
LEMMA SettledLeaves ==
  ASSUME PublicationInv, FailuresStarted,
         NEW v \in unsettledVersions, NEW ok \in BOOLEAN, SettleHandedOff(v, ok)
  PROVE  /\ v <= startedHighWater' /\ v \notin DOMAIN slots'
         /\ FailuresStarted'
         /\ ok => v \notin failedVersions'
<1>1. /\ startedHighWater' = startedHighWater
      /\ unsettledVersions' = unsettledVersions \ {v}
      /\ failedVersions' = IF ok THEN failedVersions ELSE failedVersions \cup {v}
      /\ Pump(Detach(v), starting, queued)
  BY Zenon DEF SettleHandedOff, SettleSlot, RecordOutcome
<1>2. v <= startedHighWater
  BY Zenon DEF PublicationInv
<1>3. v \notin DOMAIN Detach(v)
  BY Zenon DEF Detach
<1>4. DOMAIN slots' = DOMAIN Detach(v)
  BY Zenon, <1>1 DEF Pump
<1> QED BY Zenon, <1>1, <1>2, <1>3, <1>4 DEF FailuresStarted

(* Every step preserves PublishedInv.                                      *)
LEMMA PublishedStep ==
  PublishedInv /\ [CoordinatorNext]_coordinatorVars => PublishedInv'
<1> SUFFICES ASSUME PublishedInv, [CoordinatorNext]_coordinatorVars PROVE PublishedInv'
  BY Zenon
<1>0. VersionInv'
  BY Zenon, VersionStep DEF PublishedInv
<1>1. CASE Restart
  BY Zenon, <1>0, <1>1, RestartPublishes DEF PublishedInv
<1>2. CASE PublicationSteps
  <2>1. CASE Reserve(0) \/ CommitSlot \/ CancelSlot \/ Close \/ \E p \in Sizes : Resize(p)
    <3>1. PublicationInv'
      <4>1. 0 \in Nat
        BY Zenon
      <4> QED BY Zenon, <2>1, <4>1, ReservePreserves, CommitPreserves, CancelPreserves,
                 ClosePreserves, ResizePreserves DEF PublishedInv
    <3>2. UNCHANGED <<startedHighWater, failedVersions, unsettledVersions>>
      BY Zenon, <2>1
      DEF Reserve, CommitSlot, CancelSlot, Close, Resize, highWaters, outcomes, pumping
    <3> QED BY Zenon, <1>0, <3>1, <3>2 DEF PublishedInv, FailuresStarted
  <2>2. CASE StartHandsOff
    <3>1. /\ startedHighWater' = queued /\ unsettledVersions' = unsettledVersions \cup {queued}
          /\ UNCHANGED failedVersions
      BY Zenon, <2>2 DEF StartHandsOff, outcomes
    <3>2. queued = startedHighWater + 1 /\ startedHighWater \in Nat /\ failedVersions \subseteq Nat
      BY Zenon, <2>2 DEF StartHandsOff, PublishedInv, PublicationInv, PublicationTypeOK, Version
    <3>3. \A v \in Nat : v <= startedHighWater => v <= queued /\ v # queued
      BY <3>2
    <3>4. FailuresStarted'
      BY Zenon, <3>1, <3>2, <3>3 DEF PublishedInv, FailuresStarted
    <3>5. PublicationInv'
      BY Zenon, <2>2, HandOffPreserves DEF PublishedInv
    <3> QED BY Zenon, <1>0, <3>4, <3>5 DEF PublishedInv
  <2>3. ASSUME NEW v \in unsettledVersions, NEW ok \in BOOLEAN, SettleHandedOff(v, ok)
        PROVE  PublishedInv'
    BY Zenon, <1>0, <2>3, SettledLeaves, SettleHandedOffPreserves DEF PublishedInv
  <2>4. CASE UNCHANGED pubVars
    <3>1. FailuresStarted'
      BY Zenon, <2>4 DEF PublishedInv, FailuresStarted, pubVars
    <3> QED BY Zenon, <1>0, <2>4, <3>1, StutterPreserves DEF PublishedInv
  <2> QED BY Zenon, <1>2, <2>1, <2>2, <2>3, <2>4 DEF PublicationSteps
<1> QED BY Zenon, <1>1, <1>2, CoordinatorPublishes

(* Ordered publication keeps its invariant under the coordinator, which    *)
(* drives it through failed turns, application errors and crashes.         *)
THEOREM PublishedInvariant == CoordinatorSpec => []PublishedInv
<1>1. CoordinatorInit => PublishedInv
  BY Zenon, VersionInit, InitEstablishesInv
  DEF CoordinatorInit, PublicationInit, PublishedInv, FailuresStarted
<1> QED BY <1>1, PublishedStep, PTL DEF CoordinatorSpec

(* What the step answered is not the result of a commit.                   *)
NoCommitAnswered == reply.kind = "executed" => reply.cause = "application error"

(* Only the completion of a slot answers with the result of a commit.      *)
LEMMA OnlyCompletionAnswers ==
  ASSUME CoordinatorNext
  PROVE  \/ NoCommitAnswered'
         \/ \E v \in unsettledVersions : CompletionAnswers(v, TRUE)
<1>0. ASSUME NEW r, NEW kind, NEW version, NEW cause, Answer(r, kind, version, cause)
      PROVE  reply'.kind = kind /\ reply'.cause = cause
  BY Zenon, <1>0 DEF Answer
<1>1. ASSUME NEW r, NEW version, NEW cause,
             NEW kind \in {"replayed", "conflict", "validation", "overloaded", "draining",
                           "failed", "indeterminate", "internal", "committed",
                           "convergence_unavailable"},
             Answer(r, kind, version, cause)
      PROVE  NoCommitAnswered'
  <2>1. kind # "executed"
    BY Zenon
  <2> QED BY Zenon, <1>0, <1>1, <2>1 DEF NoCommitAnswered
<1>2. reply' = NoReply => NoCommitAnswered'
  BY DEF NoReply, NoCommitAnswered
<1>3. ASSUME NEW r, NEW version, Answer(r, "executed", version, "application error")
      PROVE  NoCommitAnswered'
  BY Zenon, <1>0, <1>3 DEF NoCommitAnswered
<1>4. CASE TurnStarts
  <2>1. ASSUME NEW r, NEW id, TurnReplays(r, id) \/ TurnConflicts(r, id) \/ TurnRefused(r)
                              \/ TurnPruneFails(r)
        PROVE  NoCommitAnswered'
    BY Zenon, <1>1, <2>1 DEF TurnReplays, TurnConflicts, TurnRefused, TurnPruneFails
  <2>2. ASSUME NEW r, NEW id, TurnUnavailable(r, id) \/ TurnCannotBegin(r, id) \/ TurnBegins(r, id)
        PROVE  NoCommitAnswered'
    BY Zenon, <1>1, <1>2, <2>2 DEF TurnUnavailable, TurnCannotBegin, TurnBegins
  <2> QED BY Zenon, <1>4, <2>1, <2>2 DEF TurnStarts
<1>5. CASE TurnEnds
  <2>1. ASSUME NEW p, NEW b, NEW oneTime, TurnCommits(p, b, oneTime) \/ TurnReturnsError(b, oneTime)
        PROVE  NoCommitAnswered'
    BY Zenon, <1>2, <1>3, <2>1 DEF TurnCommits, TurnReturnsError
  <2>2. ASSUME NEW cause, TurnLosesError(cause) \/ TurnFails \/ TurnOverloads
        PROVE  NoCommitAnswered'
    BY Zenon, <1>1, <2>2 DEF TurnLosesError, TurnFails, TurnOverloads, RollBackTurn
  <2> QED BY Zenon, <1>5, <2>1, <2>2 DEF TurnEnds
<1>6. CASE TurnHandsOff \/ FrameworkBegins \/ PublicationStarts \/ PublicationCloses \/ Tick \/ Restart
  BY Zenon, <1>2, <1>6
  DEF TurnHandsOff, FrameworkBegins, PublicationStarts, PublicationCloses, Tick, Restart
<1>7. CASE FrameworkEnds
  BY Zenon, <1>1, <1>7 DEF FrameworkEnds
<1>8. ASSUME NEW v \in unsettledVersions, CompletionAnswers(v, FALSE) PROVE NoCommitAnswered'
  BY Zenon, <1>1, <1>8 DEF CompletionAnswers
<1>9. \A ok \in BOOLEAN : ok = TRUE \/ ok = FALSE
  BY Zenon
<1> QED BY Zenon, <1>4, <1>5, <1>6, <1>7, <1>8, <1>9 DEF CoordinatorNext

(* execute() answers a commit only after ordered publication has settled   *)
(* its version without an error, however turns, slots and crashes          *)
(* interleave: the version was started, its slot is unlinked, and it is    *)
(* not among the failed ones.                                              *)
THEOREM AnsweredAfterPublicationHolds == CoordinatorSpec => []AnsweredAfterPublication
<1>1. CoordinatorInit => AnsweredAfterPublication
  BY DEF CoordinatorInit, NoReply, AnsweredAfterPublication
<1>2. ASSUME PublishedInv, AnsweredAfterPublication, [CoordinatorNext]_coordinatorVars
      PROVE  AnsweredAfterPublication'
  <2>1. CASE NoCommitAnswered'
    BY Zenon, <2>1 DEF NoCommitAnswered, AnsweredAfterPublication
  <2>2. ASSUME NEW v \in unsettledVersions, CompletionAnswers(v, TRUE)
        PROVE  AnsweredAfterPublication'
    <3>1. SettleHandedOff(v, TRUE) /\ reply'.version = v
      BY Zenon, <2>2 DEF CompletionAnswers, Answer
    <3>2. TRUE \in BOOLEAN
      BY Zenon
    <3> QED BY Zenon, <1>2, <3>1, <3>2, SettledLeaves DEF PublishedInv, AnsweredAfterPublication
  <2>3. CASE UNCHANGED coordinatorVars
    BY Zenon, <1>2, <2>3 DEF coordinatorVars, pubVars, AnsweredAfterPublication
  <2> QED BY Zenon, <1>2, <2>1, <2>2, <2>3, OnlyCompletionAnswers
<1> QED BY <1>1, <1>2, PublishedInvariant, PTL DEF CoordinatorSpec

====
