---------------------------- MODULE Coordinator ----------------------------
(***************************************************************************)
(* CommitCoordinator: the only writer turn.  A turn looks the request up   *)
(* in the replay ledger, reserves the next publication slot, runs the      *)
(* handler in a SQLite transaction, and either commits data, version and   *)
(* ledger row together and hands the slot to ordered publication, or rolls *)
(* back and cancels the slot.  An application error rolls the handler's    *)
(* writes back and stores its result in a transaction of its own.          *)
(*                                                                         *)
(* The module composes MutationReplay (the ledger) and Publication (the    *)
(* ordered slots).  A step is a stretch of code between two awaits: the    *)
(* start of the turn up to the handler, the end of the handler up to       *)
(* COMMIT, the hand-off after the diagnostic wait hook.  The process may   *)
(* crash between any two steps; the next one scans the ledger and starts   *)
(* publication at the durable commit version.                              *)
(***************************************************************************)
EXTENDS Publication, MutationReplay

CONSTANTS
  NoRequest,      (* a transaction without idempotency                      *)
  CreatedAt,      (* uuidV7Timestamp of each request                        *)
  ClientAhead,    (* how far a client's clock may run ahead of the server's *)
  ClockSkew,      (* MAX_MUTATION_CLOCK_SKEW_MS                             *)
  MaxAge,         (* limits.mutationReplay.maxAgeMs                         *)
  MaxRecords,     (* limits.mutationReplay.maxRecords                       *)
  MaxReplayBytes, (* limits.mutationReplay.maxBytes                         *)
  MaxResultBytes, (* limits.mutationReplay.maxResultBytes                   *)
  PruneInterval,  (* the minute between two prunes                          *)
  ClockBound      (* bound of the model: the clock stops here               *)

ASSUME CoordinatorAssumption ==
  /\ NoRequest \notin Requests /\ NoRequest \notin Identities
  /\ CreatedAt \in [Requests -> Nat]
  /\ ClientAhead \in Nat
  /\ ClockSkew \in Nat
  /\ MaxAge \in Nat
  /\ MaxRecords \in Nat
  /\ MaxReplayBytes \in Nat
  /\ MaxResultBytes \in Nat
  /\ PruneInterval \in Nat
  /\ ClockBound \in Nat

VARIABLES
  clock,
  nextPruneAt,     (* nextPruneAtMs                                          *)
  phase,           (* where the writer's turn is                             *)
  current,         (* the request of the turn                                *)
  identity,
  transactionOpen, (* SQLite's writer connection is inside a transaction     *)
  waiting,         (* the execute() calls that await a slot's completion:    *)
                   (* version -> the request and the sequence of its result  *)
  reply,           (* what the last step answered                            *)
  completions,     (* history: how often a request ran to a durable outcome  *)
  answers          (* history: the results a request was answered with       *)

turnVars  == <<phase, current, identity>>
history   == <<completions, answers>>
ledger    == <<durable, memory>>
coordinatorVars == <<pubVars, durable, memory, clock, nextPruneAt, turnVars,
                     transactionOpen, waiting, reply, history>>

Phases == {"idle", "work", "handoff", "framework"}

NoReply == [request |-> NoRequest, kind |-> "none", version |-> 0, cause |-> "none"]

CoordinatorInit ==
  /\ PublicationInit
  /\ MutationReplayInit(InitialVersion)
  /\ clock = 0
  /\ nextPruneAt = 0
  /\ phase = "idle"
  /\ current = NoRequest
  /\ identity = NoRequest
  /\ transactionOpen = FALSE
  /\ waiting = [v \in {} |-> [request |-> NoRequest, sequence |-> 0]]
  /\ reply = NoReply
  /\ completions = [r \in Requests |-> 0]
  /\ answers = [r \in Requests |-> {}]

EndTurn ==
  /\ phase' = "idle"
  /\ current' = NoRequest
  /\ identity' = NoRequest

Answer(r, kind, version, cause) ==
  reply' = [request |-> r, kind |-> kind, version |-> version, cause |-> cause]

(* A result reaches the caller of request r.                               *)
Deliver(r, sequence, version) ==
  answers' = IF r = NoRequest THEN answers
             ELSE [answers EXCEPT ![r] = @ \cup {<<sequence, version>>}]

Complete(r) ==
  completions' = IF r = NoRequest THEN completions
                 ELSE [completions EXCEPT ![r] = @ + 1]

-----------------------------------------------------------------------------
(* The start of a turn, up to the handler.                                 *)

PruneDue == clock >= nextPruneAt

(* BEGIN fails inside the transaction a failed ROLLBACK left open.         *)
PruneFails == PruneDue /\ transactionOpen /\ Expired(clock - MaxAge) # {}

(* pruneExpiredMutations.                                                  *)
PruneTurn ==
  IF PruneDue
  THEN /\ nextPruneAt' = clock + PruneInterval
       /\ PruneLedger(clock - MaxAge)
  ELSE UNCHANGED <<nextPruneAt, ledger>>

(* A client sends a request no earlier than its clock has created it.      *)
Sendable(r) == CreatedAt[r] <= clock + ClientAhead

StartIdempotent(r) ==
  /\ phase = "idle"
  /\ Sendable(r)
  /\ ~PruneFails
  /\ PruneTurn

Future(r) == CreatedAt[r] > clock + ClockSkew

\* Mutant: the age of a request is not checked.
TooOld_Unchecked(r) == FALSE

TooOld(r) == CreatedAt[r] < clock - MaxAge

NewRequest(r) ==
  /\ r \notin DOMAIN index'
  /\ ~Future(r)
  /\ ~TooOld(r)
  /\ recordCount' < MaxRecords

\* Mutant: a replay reports the current commit version.
TurnReplays_CurrentVersion(r, id) ==
  /\ StartIdempotent(r)
  /\ r \in DOMAIN index'
  /\ LET row == rows'[index'[r]] IN
       /\ row.identity = id
       /\ row.disposition = "replayable"
       /\ Answer(r, "replayed", commitVersion, "other")
       /\ answers' = [answers EXCEPT ![r] = @ \cup {<<index'[r], commitVersion>>}]
  /\ UNCHANGED <<pubVars, clock, turnVars, transactionOpen, waiting, completions>>

(* The stored result answers a retry with the same identity.               *)
TurnReplays(r, id) ==
  /\ StartIdempotent(r)
  /\ r \in DOMAIN index'
  /\ LET row == rows'[index'[r]] IN
       /\ row.identity = id
       /\ row.disposition = "replayable"
       /\ Answer(r, "replayed", row.version, "other")
       /\ answers' = [answers EXCEPT ![r] = @ \cup {<<index'[r], row.version>>}]
  /\ UNCHANGED <<pubVars, clock, turnVars, transactionOpen, waiting, completions>>

(* Another identity, or a result that was given out only once.             *)
TurnConflicts(r, id) ==
  /\ StartIdempotent(r)
  /\ r \in DOMAIN index'
  /\ LET row == rows'[index'[r]] IN
       row.identity # id \/ row.disposition = "one-time"
  /\ Answer(r, "conflict", 0, "other")
  /\ UNCHANGED <<pubVars, clock, turnVars, transactionOpen, waiting, history>>

(* The request is from the future, outside the window, or does not fit.    *)
TurnRefused(r) ==
  /\ StartIdempotent(r)
  /\ r \notin DOMAIN index'
  /\ \/ Future(r) /\ Answer(r, "validation", 0, "other")
     \/ ~Future(r) /\ TooOld(r) /\ Answer(r, "conflict", 0, "other")
     \/ /\ ~Future(r) /\ ~TooOld(r) /\ recordCount' >= MaxRecords
        /\ Answer(r, "overloaded", 0, "capacity")
  /\ UNCHANGED <<pubVars, clock, turnVars, transactionOpen, waiting, history>>

(* The transaction of a failed ROLLBACK makes the prune throw.             *)
TurnPruneFails(r) ==
  /\ phase = "idle"
  /\ Sendable(r)
  /\ PruneFails
  /\ nextPruneAt' = clock + PruneInterval
  /\ Answer(r, "failed", 0, "other")
  /\ UNCHANGED <<pubVars, ledger, clock, turnVars, transactionOpen, waiting, history>>

(* A turn that may run the handler: a new request, or none.                *)
Admitted(r, id) ==
  \/ r \in Requests /\ id \in Identities /\ StartIdempotent(r) /\ NewRequest(r)
  \/ /\ r = NoRequest /\ id = NoRequest
     /\ phase = "idle"
     /\ UNCHANGED <<nextPruneAt, ledger>>

(* reserve() throws: publication is closed or full.  Its third error, that *)
(* a slot is open already, is the one ReservationOwned excludes.           *)
TurnUnavailable(r, id) ==
  /\ \/ closed /\ Answer(r, "draining", 0, "other")
     \/ ~closed /\ items >= MaxItems /\ Answer(r, "overloaded", 0, "capacity")
  /\ Admitted(r, id)
  /\ UNCHANGED <<pubVars, clock, turnVars, transactionOpen, waiting, history>>

(* BEGIN throws and the reservation is given back: nothing changes.        *)
TurnCannotBegin(r, id) ==
  /\ transactionOpen
  /\ ~closed /\ items < MaxItems
  /\ Admitted(r, id)
  /\ Answer(r, "failed", 0, "other")
  /\ UNCHANGED <<pubVars, clock, turnVars, transactionOpen, waiting, history>>

(* The slot is reserved and the transaction begun; the handler runs.       *)
TurnBegins(r, id) ==
  /\ ~transactionOpen
  /\ Reserve(0)
  /\ Admitted(r, id)
  /\ transactionOpen' = TRUE
  /\ phase' = "work"
  /\ current' = r
  /\ identity' = id
  /\ reply' = NoReply
  /\ UNCHANGED <<clock, waiting, history>>

-----------------------------------------------------------------------------
(* The end of a turn.                                                      *)

(* catch: ROLLBACK, then cancel the reservation.  When ROLLBACK throws the *)
(* connection may still be inside the transaction, or SQLite may have      *)
(* ended it by itself.                                                     *)
RollBackTurn(kind, cause) ==
  /\ CancelSlot
  /\ \/ transactionOpen' = FALSE /\ Answer(current, kind, 0, cause)
     \/ transactionOpen' \in BOOLEAN /\ Answer(current, "indeterminate", 0, "other")
  /\ EndTurn
  /\ UNCHANGED <<ledger, clock, nextPruneAt, waiting, history>>

(* The handler throws, the transaction is poisoned or aborted, finalize or *)
(* validate throws, COMMIT fails, or storage allocates another version     *)
(* than the reserved one (VersionsAgree excludes that).                    *)
TurnFails ==
  /\ phase = "work"
  /\ RollBackTurn("failed", "other")

(* The commit does not fit into publication or into the ledger.            *)
TurnOverloads ==
  /\ phase = "work"
  /\ \/ \E b \in Sizes : bytes + b > MaxBytes
     \/ \E b \in ResultSizes :
          \/ b > MaxResultBytes
          \/ current # NoRequest /\ b > MaxReplayBytes - byteCount
  /\ RollBackTurn("overloaded", "capacity")

Disposition(oneTime) == IF oneTime THEN "one-time" ELSE "replayable"

(* The encoded size of a result the ledger accepts.                        *)
FitsLedger(b, oneTime) ==
  /\ oneTime => b = 0
  /\ b <= MaxResultBytes
  /\ b <= MaxReplayBytes - byteCount

(* An application error: the handler's writes are rolled back, the slot is *)
(* cancelled, and the result is stored without a version of its own.       *)
TurnReturnsError(b, oneTime) ==
  /\ phase = "work"
  /\ CancelSlot
  /\ transactionOpen' = FALSE
  /\ Answer(current, "executed", commitVersion, "application error")
  /\ Complete(current)
  /\ Deliver(current, mutationSequence + 1, commitVersion)
  /\ IF current = NoRequest
     THEN UNCHANGED ledger
     ELSE /\ FitsLedger(b, oneTime)
          /\ StageRow(current, identity, Disposition(oneTime), b, clock, "replay")
          /\ CommittedRow(current, b, clock)
  /\ EndTurn
  /\ UNCHANGED <<clock, nextPruneAt, waiting>>

(* The result of an application error does not fit, or its transaction     *)
(* fails: the slot was already cancelled, so the catch block's own cancel  *)
(* throws and its error replaces the one that was caught.                  *)
TurnLosesError(cause) ==
  /\ phase = "work"
  /\ current # NoRequest
  /\ cause = "capacity" =>
       \E b \in ResultSizes : b > MaxResultBytes \/ b > MaxReplayBytes - byteCount
  /\ CancelSlot
  /\ transactionOpen' = FALSE
  /\ Answer(current, "internal", 0, cause)
  /\ EndTurn
  /\ UNCHANGED <<ledger, clock, nextPruneAt, waiting, history>>

(* Data, version and ledger row commit together; then the index learns of  *)
(* the row.                                                                *)
TurnCommits(p, b, oneTime) ==
  /\ phase = "work"
  /\ commitVersion + 1 = openReservation
  /\ Resize(p)
  /\ IF current = NoRequest
     THEN /\ commitVersion' = AllocatedVersion("commit")
          /\ UNCHANGED <<rows, mutationSequence, mutationRecords, mutationBytes, memory>>
     ELSE /\ FitsLedger(b, oneTime)
          /\ StageRow(current, identity, Disposition(oneTime), b, clock, "commit")
          /\ CommittedRow(current, b, clock)
  /\ transactionOpen' = FALSE
  /\ Complete(current)
  /\ phase' = "handoff"
  /\ reply' = NoReply
  /\ UNCHANGED <<clock, nextPruneAt, current, identity, waiting, answers>>

\* Mutant: the caller is answered at COMMIT, before ordered publication.
TurnHandsOff_AnswersEarly ==
  /\ phase = "handoff"
  /\ CommitSlot
  /\ Answer(current, "executed", openReservation, "other")
  /\ Deliver(current, mutationSequence, openReservation)
  /\ EndTurn
  /\ UNCHANGED <<ledger, clock, nextPruneAt, transactionOpen, waiting, completions>>

(* The slot joins ordered publication and the writer's turn ends; execute  *)
(* goes on to await the slot's completion.                                 *)
TurnHandsOff ==
  LET v == openReservation
      entry == [request |-> current,
                sequence |-> IF current = NoRequest THEN 0 ELSE mutationSequence]
  IN /\ phase = "handoff"
     /\ CommitSlot
     /\ waiting' = [w \in DOMAIN waiting \cup {v} |-> IF w = v THEN entry ELSE waiting[w]]
     /\ reply' = NoReply
     /\ EndTurn
     /\ UNCHANGED <<ledger, clock, nextPruneAt, transactionOpen, history>>

(* The slot settles and execute answers: the result, or that the commit    *)
(* could not be published.                                                 *)
CompletionAnswers(v, ok) ==
  /\ v \in DOMAIN waiting
  /\ SettleHandedOff(v, ok)
  /\ Answer(waiting[v].request, IF ok THEN "executed" ELSE "convergence_unavailable",
            v, "other")
  /\ IF ok THEN Deliver(waiting[v].request, waiting[v].sequence, v)
     ELSE UNCHANGED answers
  /\ waiting' = [w \in DOMAIN waiting \ {v} |-> waiting[w]]
  /\ UNCHANGED <<ledger, clock, nextPruneAt, turnVars, transactionOpen, completions>>

-----------------------------------------------------------------------------
(* transactFramework: a transaction without version or publication.        *)

FrameworkBegins ==
  /\ phase = "idle"
  /\ ~transactionOpen
  /\ transactionOpen' = TRUE
  /\ phase' = "framework"
  /\ reply' = NoReply
  /\ UNCHANGED <<pubVars, ledger, clock, nextPruneAt, current, identity, waiting, history>>

FrameworkEnds ==
  /\ phase = "framework"
  /\ \/ transactionOpen' = FALSE /\ Answer(NoRequest, "committed", 0, "other")
     \/ transactionOpen' = FALSE /\ Answer(NoRequest, "failed", 0, "other")
     \/ transactionOpen' \in BOOLEAN /\ Answer(NoRequest, "indeterminate", 0, "other")
  /\ EndTurn
  /\ UNCHANGED <<pubVars, ledger, clock, nextPruneAt, waiting, history>>

-----------------------------------------------------------------------------
(* The surroundings: ordered publication, time, and the process.           *)

PublicationStarts ==
  /\ StartHandsOff
  /\ reply' = NoReply
  /\ UNCHANGED <<ledger, clock, nextPruneAt, turnVars, transactionOpen, waiting, history>>

PublicationCloses ==
  /\ Close
  /\ reply' = NoReply
  /\ UNCHANGED <<ledger, clock, nextPruneAt, turnVars, transactionOpen, waiting, history>>

Tick ==
  /\ clock < ClockBound
  /\ clock' = clock + 1
  /\ reply' = NoReply
  /\ UNCHANGED <<pubVars, ledger, nextPruneAt, turnVars, transactionOpen, waiting, history>>

(* OrderedPublication as the next process constructs it.                   *)
PublicationRestarts(v) ==
  /\ slots' = [w \in {} |-> [state |-> "reserved", bytes |-> 0]]
  /\ openReservation' = NoVersion
  /\ items' = 0
  /\ bytes' = 0
  /\ committedHighWater' = v
  /\ startedHighWater' = v
  /\ settledHighWater' = v
  /\ unsettledVersions' = {}
  /\ starting' = FALSE
  /\ queued' = NoVersion
  /\ awaited' = NoVersion
  /\ processed' = 0
  /\ failedVersions' = {}
  /\ lastFailureVersion' = NoVersion
  /\ closed' = FALSE
  /\ closePromise' = "none"

(* The process dies, at any point, and starts again: SQLite forgets the    *)
(* open transaction, the ledger is scanned, and every promise is lost.     *)
Restart ==
  /\ LoadLedger
  /\ PublicationRestarts(commitVersion)
  /\ nextPruneAt' = 0
  /\ transactionOpen' = FALSE
  /\ waiting' = [v \in {} |-> [request |-> NoRequest, sequence |-> 0]]
  /\ reply' = NoReply
  /\ EndTurn
  /\ UNCHANGED <<durable, clock, history>>

TurnStarts ==
  \/ \E r \in Requests, id \in Identities : TurnReplays(r, id) \/ TurnConflicts(r, id)
  \/ \E r \in Requests : TurnRefused(r) \/ TurnPruneFails(r)
  \/ \E r \in Requests, id \in Identities :
       TurnUnavailable(r, id) \/ TurnCannotBegin(r, id) \/ TurnBegins(r, id)
  \/ TurnUnavailable(NoRequest, NoRequest)
  \/ TurnCannotBegin(NoRequest, NoRequest)
  \/ TurnBegins(NoRequest, NoRequest)

TurnEnds ==
  \/ TurnFails
  \/ TurnOverloads
  \/ \E b \in ResultSizes, oneTime \in BOOLEAN : TurnReturnsError(b, oneTime)
  \/ \E cause \in {"capacity", "other"} : TurnLosesError(cause)
  \/ \E p \in Sizes, b \in ResultSizes, oneTime \in BOOLEAN : TurnCommits(p, b, oneTime)

CoordinatorNext ==
  \/ TurnStarts
  \/ TurnEnds
  \/ TurnHandsOff
  \/ \E v \in unsettledVersions, ok \in BOOLEAN : CompletionAnswers(v, ok)
  \/ FrameworkBegins
  \/ FrameworkEnds
  \/ PublicationStarts
  \/ PublicationCloses
  \/ Tick
  \/ Restart

CoordinatorSpec == CoordinatorInit /\ [][CoordinatorNext]_coordinatorVars

(* A turn always ends: the handler settles, the wait hook resolves, every  *)
(* started slot settles, and the event loop runs its microtasks.           *)
CoordinatorFairness ==
  /\ WF_coordinatorVars(TurnEnds)
  /\ WF_coordinatorVars(TurnHandsOff)
  /\ WF_coordinatorVars(FrameworkEnds)
  /\ WF_coordinatorVars(PublicationStarts)
  /\ \A v \in 1..VersionBound :
       WF_coordinatorVars(\E ok \in BOOLEAN : CompletionAnswers(v, ok))

FairCoordinatorSpec == CoordinatorSpec /\ CoordinatorFairness

-----------------------------------------------------------------------------
(* Properties.                                                             *)

Reply == [request : Requests \cup {NoRequest},
          kind : {"none", "executed", "replayed", "conflict", "validation",
                  "overloaded", "draining", "failed", "indeterminate", "internal",
                  "committed", "convergence_unavailable"},
          version : Nat,
          cause : {"none", "other", "capacity", "application error"}]

(* The type of the ledger's and the coordinator's variables.               *)
CoordinatorTypeOK ==
  /\ LedgerTypeOK
  /\ clock \in Nat
  /\ nextPruneAt \in Nat
  /\ phase \in Phases
  /\ current \in Requests \cup {NoRequest}
  /\ identity \in Identities \cup {NoRequest}
  /\ transactionOpen \in BOOLEAN
  /\ DOMAIN waiting \subseteq Nat
  /\ reply \in Reply
  /\ completions \in [Requests -> Nat]
  /\ DOMAIN answers = Requests

(* A request has at most one durable outcome, however often it is retried, *)
(* whatever fails, and wherever the process crashes: the ledger row is     *)
(* part of the transaction, and a row is pruned only when the age check    *)
(* refuses its request.                                                    *)
ExactlyOnce == \A r \in Requests : completions[r] <= 1

(* Every answer that carries a result of a request carries the same one:   *)
(* the same stored sequence and the same commit version.                   *)
AnswersAgree == \A r \in Requests : Cardinality(answers[r]) <= 1

(* The version SQLite commits is the version publication reserved: between *)
(* COMMIT and the hand-off storage is one ahead, otherwise they are equal. *)
VersionsAgree ==
  commitVersion = IF phase = "handoff" THEN committedHighWater + 1
                  ELSE committedHighWater

(* A slot is open exactly while the turn that reserved it runs, on every   *)
(* error path: an idle writer never finds a reservation already open.      *)
ReservationOwned ==
  openReservation =
    IF phase \in {"work", "handoff"} THEN committedHighWater + 1 ELSE NoVersion

(* execute() answers a commit only after ordered publication has settled   *)
(* its version without an error.                                           *)
AnsweredAfterPublication ==
  reply.kind = "executed" /\ reply.cause # "application error" =>
    /\ reply.version <= startedHighWater
    /\ reply.version \notin DOMAIN slots
    /\ reply.version \notin failedVersions

(* The ledger never holds more than its limits, application errors         *)
(* included.                                                               *)
LedgerBounded == recordCount <= MaxRecords /\ byteCount <= MaxReplayBytes

(* The index in memory, the counters and the rows agree, a restart accepts *)
(* them, and they keep to the limits, through stage, commit, application   *)
(* error, prune and crash.                                                 *)
LedgerSound == IndexExact /\ CountersExact /\ ScanAccepts /\ LedgerBounded

(* A request that does not fit is answered "overloaded".                   *)
OverloadIsExplicit == reply.cause = "capacity" => reply.kind = "overloaded"

(* The writer's turn always ends.                                          *)
TurnAlwaysEnds == (phase # "idle") ~> (phase = "idle")

(* An execute() call that awaits its slot's completion is answered, or     *)
(* the process has died.                                                   *)
WaitingAnswered ==
  \A v \in 1..VersionBound : (v \in DOMAIN waiting) ~> (v \notin DOMAIN waiting)

====
