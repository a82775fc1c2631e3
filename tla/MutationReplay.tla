--------------------------- MODULE MutationReplay ---------------------------
(***************************************************************************)
(* MutationReplayLedger: the durable ledger of completed mutations and the *)
(* in-memory index that answers a retry.                                   *)
(*                                                                         *)
(* The durable part is the table _ackerdb_mutations and the singleton row  *)
(* _ackerdb_state; the memory part is rebuilt by a scan when the process   *)
(* starts.  A row is staged and committed within one synchronous stretch   *)
(* of the writer's turn, so a step here is the pair (stage, COMMIT), and   *)
(* `committed` is the update of the index that follows.                    *)
(***************************************************************************)
EXTENDS Integers, FiniteSets, Functions

CONSTANTS
  Requests,     (* scoped request identifiers: (sessionId, requestId)       *)
  Identities,   (* the rest of an identity: issuedAt, principal, function,  *)
                (* arguments                                                *)
  ResultSizes   (* the encoded sizes of results                             *)

ASSUME MutationReplayAssumption == ResultSizes \subseteq Nat

VARIABLES
  rows,               (* _ackerdb_mutations: sequence -> row                *)
  commitVersion,      (* _ackerdb_state.commit_version                      *)
  mutationSequence,   (* _ackerdb_state.mutation_sequence                   *)
  mutationRecords,    (* _ackerdb_state.mutation_records                    *)
  mutationBytes,      (* _ackerdb_state.mutation_result_bytes               *)
  index,              (* scoped request -> sequence                         *)
  recordCount,
  byteCount,
  lastCompletedAt

durable == <<rows, commitVersion, mutationSequence, mutationRecords, mutationBytes>>
memory  == <<index, recordCount, byteCount, lastCompletedAt>>

Dispositions == {"replayable", "one-time"}

Row == [request : Requests, identity : Identities, disposition : Dispositions,
        bytes : Nat, version : Nat, completedAt : Nat]

(* A database whose ledger is empty, at the given version.                 *)
MutationReplayInit(version) ==
  /\ rows = [s \in {} |-> CHOOSE row \in Row : TRUE]
  /\ commitVersion = version
  /\ mutationSequence = 0
  /\ mutationRecords = 0
  /\ mutationBytes = 0
  /\ index = [r \in {} |-> 0]
  /\ recordCount = 0
  /\ byteCount = 0
  /\ lastCompletedAt = 0

BytesOf(table) == [s \in DOMAIN table |-> table[s].bytes]

RowBytes(table) == SumFunctionOnSet(BytesOf(table), DOMAIN table)

(* lookup, on the index and the table the caller sees.                     *)
Stored(r) == r \in DOMAIN index

StoredRow(r) == rows[index[r]]

-----------------------------------------------------------------------------
(* scanMutationReplay.                                                     *)

IndexOf(table) ==
  [r \in {table[s].request : s \in DOMAIN table} |->
     CHOOSE s \in DOMAIN table : table[s].request = r]

(* The checks that make the scan refuse a database as corrupt.             *)
ScanAccepts ==
  /\ \A s \in DOMAIN rows :
       /\ s > 0 /\ s <= mutationSequence
       /\ rows[s].version <= commitVersion
  /\ \A s, t \in DOMAIN rows :
       s < t => /\ rows[s].version <= rows[t].version
                /\ rows[s].completedAt <= rows[t].completedAt
                /\ rows[s].request # rows[t].request
  /\ Cardinality(DOMAIN rows) = mutationRecords
  /\ RowBytes(rows) = mutationBytes

(* The constructor on the snapshot of the scan; the completion time is the *)
(* one of the last row.                                                    *)
LoadLedger ==
  /\ ScanAccepts
  /\ index' = IndexOf(rows)
  /\ recordCount' = Cardinality(DOMAIN rows)
  /\ byteCount' = RowBytes(rows)
  /\ \E c \in {0} \cup {rows[s].completedAt : s \in DOMAIN rows} :
       /\ \A s \in DOMAIN rows :
            (\A t \in DOMAIN rows : t <= s) => c = rows[s].completedAt
       /\ lastCompletedAt' = c

-----------------------------------------------------------------------------
(* stage, COMMIT and committed.                                            *)

CompletionTime(now) == IF now >= lastCompletedAt THEN now ELSE lastCompletedAt

(* allocateCommit and allocateReplay: a result stored without application  *)
(* writes takes a sequence and no version.                                 *)
AllocatedVersion(allocation) ==
  IF allocation = "commit" THEN commitVersion + 1 ELSE commitVersion

NewRow(r, id, disposition, b, now, allocation) ==
  [request |-> r, identity |-> id, disposition |-> disposition, bytes |-> b,
   version |-> AllocatedVersion(allocation), completedAt |-> CompletionTime(now)]

(* The durable effect of stage, once the transaction commits.              *)
StageRow(r, id, disposition, b, now, allocation) ==
  LET s == mutationSequence + 1
      row == NewRow(r, id, disposition, b, now, allocation)
  IN /\ ~Stored(r)
     /\ rows' = [t \in DOMAIN rows \cup {s} |-> IF t = s THEN row ELSE rows[t]]
     /\ commitVersion' = AllocatedVersion(allocation)
     /\ mutationSequence' = s
     /\ mutationRecords' = mutationRecords + 1
     /\ mutationBytes' = mutationBytes + b

(* committed: the row becomes visible to lookup.                           *)
CommittedRow(r, b, now) ==
  /\ index' = [q \in DOMAIN index \cup {r} |->
                 IF q = r THEN mutationSequence + 1 ELSE index[q]]
  /\ recordCount' = recordCount + 1
  /\ byteCount' = byteCount + b
  /\ lastCompletedAt' = CompletionTime(now)

-----------------------------------------------------------------------------
(* prune.                                                                  *)

(* The prefix of rows that completed before the given time.                *)
Expired(before) ==
  {s \in DOMAIN rows : \A t \in DOMAIN rows : t <= s => rows[t].completedAt < before}

\* Mutant: the durable counters are left at their old values.
PruneLedger_ForgetsCounters(before) ==
  LET gone == Expired(before)
      kept == DOMAIN rows \ gone
      lost == SumFunctionOnSet(BytesOf(rows), gone)
  IN /\ rows' = [s \in kept |-> rows[s]]
     /\ index' = [r \in {q \in DOMAIN index : index[q] \in kept} |-> index[r]]
     /\ recordCount' = recordCount - Cardinality(gone)
     /\ byteCount' = byteCount - lost
     /\ UNCHANGED <<commitVersion, mutationSequence, mutationRecords, mutationBytes,
                    lastCompletedAt>>

(* pruneExpiredMutations calls prune until less than a full batch is gone: *)
(* the whole expired prefix leaves the table, then the index.              *)
PruneLedger(before) ==
  LET gone == Expired(before)
      kept == DOMAIN rows \ gone
      lost == SumFunctionOnSet(BytesOf(rows), gone)
  IN /\ rows' = [s \in kept |-> rows[s]]
     /\ mutationRecords' = mutationRecords - Cardinality(gone)
     /\ mutationBytes' = mutationBytes - lost
     /\ index' = [r \in {q \in DOMAIN index : index[q] \in kept} |-> index[r]]
     /\ recordCount' = recordCount - Cardinality(gone)
     /\ byteCount' = byteCount - lost
     /\ UNCHANGED <<commitVersion, mutationSequence, lastCompletedAt>>

-----------------------------------------------------------------------------

(* The type of the ledger's variables.                                     *)
LedgerTypeOK ==
  /\ DOMAIN rows \subseteq Nat \ {0}
  /\ rows \in [DOMAIN rows -> Row]
  /\ commitVersion \in Nat
  /\ mutationSequence \in Nat
  /\ mutationRecords \in Int
  /\ mutationBytes \in Int
  /\ DOMAIN index \subseteq Requests
  /\ index \in [DOMAIN index -> Nat]
  /\ recordCount \in Int
  /\ byteCount \in Int
  /\ lastCompletedAt \in Nat

(* The in-memory index agrees with the durable ledger: every row is found  *)
(* under its own request, and nothing else is, so lookup() never reports   *)
(* a corrupt index and never misses a stored result.                       *)
IndexExact ==
  /\ \A s \in DOMAIN rows :
       rows[s].request \in DOMAIN index /\ index[rows[s].request] = s
  /\ \A r \in DOMAIN index : index[r] \in DOMAIN rows /\ rows[index[r]].request = r

(* The counters the limits are checked against are the sums over the rows, *)
(* through stage, committed, prune and a restart.                          *)
CountersExact ==
  /\ recordCount = Cardinality(DOMAIN rows)
  /\ byteCount = RowBytes(rows)

====
