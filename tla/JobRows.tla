------------------------------- MODULE JobRows -------------------------------
(***************************************************************************)
(* The durable half of the job runner: the rows of _ackerdb_jobs and       *)
(* _ackerdb_job_runs and the writer transactions that move them            *)
(* (runtime/jobs/runtime.ts, steps.ts, store.ts).  Every action here is    *)
(* the body of one jobsWrite transaction, or of one iteration of the       *)
(* recovery transaction; who runs them, and when, is module JobRunner.     *)
(*                                                                         *)
(* A name stands for a dedupe identity, a definition together with one     *)
(* value of its arguments.  Names that share a gate share a concurrency    *)
(* cap.  Times are naturals and Null is SQL's NULL.                        *)
(***************************************************************************)
EXTENDS Integers

CONSTANTS
  MaxJobs,          \* bound on the jobs ever inserted
  MaxRuns,          \* bound on the runs one job may be given
  Steps,            \* positions of the steps of a handler
  Names,            \* dedupe identities
  Definition,       \* policy of each name
  DefaultRetention, \* DEFAULT_JOB_RETENTION_MS
  LeaseMs           \* limits.jobs.leaseMs

VARIABLES
  clock,    \* options.now()
  jobs,     \* _ackerdb_jobs, by id
  runs,     \* _ackerdb_job_runs, by job id and number
  lastId,   \* the largest id ever inserted
  tokens,   \* lease tokens handed out so far
  declared, \* the names whose definition the running application has
  effects   \* committed executions of each step's writes under one journal

rowVars == <<clock, jobs, runs, lastId, tokens, declared, effects>>

Ids == 1..MaxJobs   \* rows are numbered as they are inserted
Null == -1
Forever == -1
NoToken == 0

JobStates == {"absent", "pending", "running", "retrying", "completed", "failed", "canceled"}
RunStates == {"absent", "running", "completed", "failed", "canceled"}
Terminal == {"completed", "failed", "canceled"}
Live == {"pending", "running", "retrying"}
DueStates == {"pending", "retrying"}
Triggers == {"none", "manual_retry", "force"}

\* What job({...}) declares; every = 0 when there is no repeat rule.
Definitions ==
  [kind : {"mutation", "procedure"}, gate : STRING, concurrency : Nat,
   attempts : Nat, delay : Nat, every : Nat, dedupe : BOOLEAN,
   completedFor : Nat \cup {Forever}, failedFor : Nat \cup {Forever},
   retention : Nat \cup {Forever}]

ASSUME JobConstants ==
  /\ MaxJobs \in Nat
  /\ MaxRuns \in Nat
  /\ Definition \in [Names -> Definitions]
  /\ DefaultRetention \in Nat
  /\ LeaseMs \in Nat

NoJob == [name |-> "", state |-> "absent", scheduledAt |-> 0, nextRunAt |-> 0, runCount |-> 0,
          trigger |-> "none", steps |-> {}, settledAt |-> Null, deleteAfter |-> Null]
NoRun == [state |-> "absent", settledAt |-> Null, token |-> NoToken, leaseUntil |-> Null,
          deleteAfter |-> Null]

-----------------------------------------------------------------------------
\* Reads of the store.

byNumber(j, n) == IF n = 0 THEN NoRun ELSE runs[j][n]

LatestRun(j) == byNumber(j, jobs[j].runCount)

liveFor(table, name) == \E j \in Ids : table[j].name = name /\ table[j].state \in Live

due == {j \in Ids : jobs[j].state \in DueStates /\ jobs[j].nextRunAt <= clock}

\* expiredLeases, as <<job, number>> pairs.
expiredLeases(now) ==
  {p \in Ids \X (1..MaxRuns) :
     /\ runs[p[1]][p[2]].state = "running"
     /\ runs[p[1]][p[2]].leaseUntil # Null
     /\ runs[p[1]][p[2]].leaseUntil <= now}

expiredJobs == {j \in Ids : jobs[j].deleteAfter # Null /\ jobs[j].deleteAfter <= clock}

-----------------------------------------------------------------------------
\* Retention, retry and recurrence policies.

Window(value, now) == IF value = Forever THEN Null ELSE now + value

retentionOf(name) == IF name \in declared THEN Definition[name].retention ELSE DefaultRetention

dedupeWindow(name, state) ==
  IF state = "completed" THEN Definition[name].completedFor ELSE Definition[name].failedFor

\* The longer of the retention and of the dedupe window of this outcome.
retentionStamp(name, state, now) ==
  IF name \notin declared \/ ~Definition[name].dedupe \/ state = "canceled"
  THEN Window(retentionOf(name), now)
  ELSE IF Forever \in {Definition[name].retention, dedupeWindow(name, state)}
  THEN Null
  ELSE IF Definition[name].retention >= dedupeWindow(name, state)
  THEN now + Definition[name].retention
  ELSE now + dedupeWindow(name, state)

\* The { attempts, delayMs } form of a retry policy.
retries(name, number) == name \in declared /\ number < Definition[name].attempts

repeats(known, name) == name \in known /\ Definition[name].every > 0

\* The { everyMs } form of a repeat rule: misses coalesce to one occurrence.
nextOccurrence(name, scheduledAt, now) ==
  LET base == IF scheduledAt >= now THEN scheduledAt ELSE now
  IN base + Definition[name].every - ((base - scheduledAt) % Definition[name].every)

-----------------------------------------------------------------------------
\* Row transitions.

FreshJob(name, at) ==
  [NoJob EXCEPT !.name = name, !.state = "pending", !.scheduledAt = at, !.nextRunAt = at]

insertJob(table, name, at) ==
  /\ lastId + 1 \in Ids
  /\ lastId' = lastId + 1
  /\ jobs' = [table EXCEPT ![lastId + 1] = FreshJob(name, at)]
  /\ effects' = [effects EXCEPT ![lastId + 1] = [s \in Steps |-> 0]]

\* mintRepeat on the table in which job j has just settled.
mintRepeat(table, j) ==
  IF repeats(declared, jobs[j].name) /\ ~liveFor(table, jobs[j].name)
  THEN insertJob(table, jobs[j].name,
                 nextOccurrence(jobs[j].name, jobs[j].scheduledAt, clock))
  ELSE /\ jobs' = table
       /\ UNCHANGED <<lastId, effects>>

SettledRun(run, state, deleteAfter) ==
  [run EXCEPT !.state = state, !.settledAt = clock, !.token = NoToken,
              !.leaseUntil = Null, !.deleteAfter = deleteAfter]

\* Mutant: only a leased run records the outcome, not one that sleeps.
SettleLeasedOnly(j, number, state) ==
  LET stamp == retentionStamp(jobs[j].name, state, clock)
  IN /\ runs' = IF byNumber(j, number).token # NoToken
                THEN [runs EXCEPT ![j][number] = SettledRun(@, state, stamp)]
                ELSE runs
     /\ mintRepeat([jobs EXCEPT ![j].state = state, ![j].trigger = "none",
                                ![j].settledAt = clock, ![j].deleteAfter = stamp], j)

\* settleJobIn: number is the run the outcome is recorded on, 0 for none.
settleJobIn(j, number, state) ==
  LET stamp == retentionStamp(jobs[j].name, state, clock)
  IN /\ runs' = IF byNumber(j, number).state = "running"
                THEN [runs EXCEPT ![j][number] = SettledRun(@, state, stamp)]
                ELSE runs
     /\ mintRepeat([jobs EXCEPT ![j].state = state, ![j].trigger = "none",
                                ![j].settledAt = clock, ![j].deleteAfter = stamp], j)

\* settleFailureIn: a step refusal never consults the retry policy.
settleFailureIn(j, number, refusal) ==
  IF ~refusal /\ retries(jobs[j].name, number)
  THEN /\ runs' = [runs EXCEPT ![j][number] =
                     SettledRun(@, "failed", Window(retentionOf(jobs[j].name), clock))]
       /\ jobs' = [jobs EXCEPT ![j].state = "retrying", ![j].trigger = "none",
                               ![j].nextRunAt = clock + Definition[jobs[j].name].delay]
       /\ UNCHANGED <<lastId, effects>>
  ELSE settleJobIn(j, number, "failed")

\* dedupeJob: is there a live job, or a memoized outcome still in its window?
Memoized(j) ==
  /\ jobs[j].state \in {"completed", "failed"}
  /\ dedupeWindow(jobs[j].name, jobs[j].state) # 0
  /\ \/ dedupeWindow(jobs[j].name, jobs[j].state) = Forever
     \/ clock < jobs[j].settledAt + dedupeWindow(jobs[j].name, jobs[j].state)

dedupeJob(name) ==
  /\ Definition[name].dedupe
  /\ liveFor(jobs, name) \/ \E j \in Ids : jobs[j].name = name /\ Memoized(j)

-----------------------------------------------------------------------------
\* Transactions of the application and of operators.

\* enqueueWith, reached by enqueue, by a mutation and by runAgain.
EnqueueTx(name, at) ==
  /\ name \in declared
  /\ ~dedupeJob(name)
  /\ insertJob(jobs, name, at)
  /\ UNCHANGED <<clock, runs, tokens, declared>>

CancelTx(j) ==
  /\ jobs[j].state \in Live
  /\ settleJobIn(j, jobs[j].runCount, "canceled")
  /\ UNCHANGED <<clock, tokens, declared>>

reopen(j, row) ==
  /\ jobs[j].runCount < MaxRuns
  /\ runs' = IF LatestRun(j).settledAt # Null
             THEN [runs EXCEPT ![j][jobs[j].runCount].deleteAfter =
                     Window(retentionOf(jobs[j].name), LatestRun(j).settledAt)]
             ELSE runs
  /\ jobs' = [jobs EXCEPT ![j] = [row EXCEPT !.nextRunAt = clock, !.settledAt = Null,
                                             !.deleteAfter = Null]]
  /\ UNCHANGED <<clock, lastId, tokens, declared>>

RetryTx(j) ==
  /\ jobs[j].state = "failed"
  /\ reopen(j, [jobs[j] EXCEPT !.state = "retrying", !.trigger = "manual_retry"])
  /\ UNCHANGED effects

ForceRunAgainTx(j) ==
  /\ jobs[j].state \in Terminal
  /\ reopen(j, [jobs[j] EXCEPT !.state = "pending", !.trigger = "force", !.steps = {}])
  /\ effects' = [effects EXCEPT ![j] = [s \in Steps |-> 0]]

RescheduleTx(j, at) ==
  /\ jobs[j].state \in DueStates
  /\ jobs' = [jobs EXCEPT ![j].nextRunAt = at]
  /\ UNCHANGED <<clock, runs, lastId, tokens, effects, declared>>

deleteWithRuns(J) ==
  /\ jobs' = [j \in Ids |-> IF j \in J THEN NoJob ELSE jobs[j]]
  /\ effects' = [j \in Ids |-> IF j \in J THEN [s \in Steps |-> 0] ELSE effects[j]]

DeleteTx(j) ==
  /\ jobs[j].state # "absent"
  /\ deleteWithRuns({j})
  /\ runs' = [runs EXCEPT ![j] = [n \in 1..MaxRuns |-> NoRun]]
  /\ UNCHANGED <<clock, lastId, tokens, declared>>

\* The first occurrence of the repeating job, at start-up.
BootstrapTx(known) ==
  IF \E name \in known : repeats(known, name) /\ ~liveFor(jobs, name)
  THEN \E name \in known :
         /\ repeats(known, name)
         /\ ~liveFor(jobs, name)
         /\ insertJob(jobs, name, nextOccurrence(name, clock, clock))
  ELSE UNCHANGED <<lastId, jobs, effects>>

\* Another process opens the database, with the definitions it declares.
RestartTx(known) ==
  /\ declared' = known
  /\ BootstrapTx(known)
  /\ UNCHANGED <<clock, runs, tokens>>

-----------------------------------------------------------------------------
\* Transactions of the runner and of a running handler.

\* What openRun does to the tables: a suspended run is leased again, any
\* other claim opens the next run.
OpenedNumber(j) ==
  IF /\ jobs[j].state = "pending"
     /\ jobs[j].trigger = "none"
     /\ LatestRun(j).state = "running"
  THEN jobs[j].runCount
  ELSE jobs[j].runCount + 1

OpenedRun(j) ==
  [NoRun EXCEPT !.state = "running", !.token = tokens + 1, !.leaseUntil = clock + LeaseMs]

ClaimTx(j) ==
  /\ j \in due
  /\ Definition[jobs[j].name].kind = "procedure"
  /\ OpenedNumber(j) <= MaxRuns
  /\ tokens' = tokens + 1
  /\ runs' = [runs EXCEPT ![j][OpenedNumber(j)] = OpenedRun(j)]
  /\ jobs' = [jobs EXCEPT ![j].state = "running", ![j].trigger = "none",
                          ![j].runCount = OpenedNumber(j)]
  /\ UNCHANGED <<clock, lastId, effects, declared>>

\* runMutationJob: claim, handler and settle in one transaction.  The run
\* never appears unsettled, and a failing handler's writes are rolled back
\* to the savepoint.  number and state are those of the run it leaves.
InlineRow(j, state, stamp) ==
  [jobs[j] EXCEPT !.state = state, !.trigger = "none", !.runCount = OpenedNumber(j),
                  !.settledAt = clock, !.deleteAfter = stamp]

ClaimInlineTx(j, ok) ==
  LET number == OpenedNumber(j)
      state == IF ok THEN "completed" ELSE "failed"
      stamp == retentionStamp(jobs[j].name, state, clock)
  IN /\ j \in due
     /\ Definition[jobs[j].name].kind = "mutation"
     /\ number <= MaxRuns
     /\ tokens' = tokens + 1
     /\ IF ~ok /\ retries(jobs[j].name, number)
        THEN /\ runs' = [runs EXCEPT ![j][number] =
                  SettledRun(NoRun, "failed", Window(retentionOf(jobs[j].name), clock))]
             /\ jobs' = [jobs EXCEPT ![j] =
                  [@ EXCEPT !.state = "retrying", !.trigger = "none", !.runCount = number,
                            !.nextRunAt = clock + Definition[jobs[j].name].delay]]
             /\ UNCHANGED <<lastId, effects>>
        ELSE /\ runs' = [runs EXCEPT ![j][number] = SettledRun(NoRun, state, stamp)]
             /\ mintRepeat([jobs EXCEPT ![j] = InlineRow(j, state, stamp)], j)
     /\ UNCHANGED <<clock, declared>>

\* Mutant: any run of a job that still exists may write.
AnyRun(j, number, token) == jobs[j].state # "absent"

\* assertOwned: the right to write belongs to the run holding the lease.
Owned(j, number, token) ==
  runs[j][number].state = "running" /\ runs[j][number].token = token

\* A transactional step: its writes and its journal entry commit together.
StepTx(j, number, token, s) ==
  /\ Owned(j, number, token)
  /\ jobs' = [jobs EXCEPT ![j].steps = @ \cup {s}]
  /\ effects' = [effects EXCEPT ![j][s] = @ + 1]
  /\ UNCHANGED <<clock, runs, lastId, tokens, declared>>

\* append: the record of a procedure step whose work is already done.
AppendTx(j, number, token, s) ==
  /\ Owned(j, number, token)
  /\ jobs' = [jobs EXCEPT ![j].steps = @ \cup {s}]
  /\ UNCHANGED <<clock, runs, lastId, tokens, effects, declared>>

\* step.sleep: journal entry, pending job, wake time and lease release.
SleepTx(j, number, token, s, wakeAt) ==
  /\ Owned(j, number, token)
  /\ jobs' = [jobs EXCEPT ![j].steps = @ \cup {s}, ![j].state = "pending",
                          ![j].trigger = "none", ![j].nextRunAt = wakeAt]
  /\ runs' = [runs EXCEPT ![j][number].token = NoToken, ![j][number].leaseUntil = Null]
  /\ UNCHANGED <<clock, lastId, tokens, effects, declared>>

\* settle: the run and its lease are validated again.
SettleTx(j, number, token, outcome) ==
  /\ Owned(j, number, token)
  /\ IF outcome = "ok"
     THEN settleJobIn(j, number, "completed")
     ELSE settleFailureIn(j, number, outcome = "refusal")
  /\ UNCHANGED <<clock, tokens, declared>>

\* One iteration of the recovery transaction, over an expired lease.
RecoverTx(j, number, now) ==
  /\ <<j, number>> \in expiredLeases(now)
  /\ jobs[j].state # "absent"
  /\ settleFailureIn(j, number, FALSE)
  /\ UNCHANGED <<clock, tokens, declared>>

\* reap: expired jobs with their runs (J, at most a page of them), then
\* expired runs that are not the latest of their job (R).
ReapTx(J, R) ==
  /\ J \subseteq expiredJobs
  /\ \A p \in R : /\ runs[p[1]][p[2]].deleteAfter # Null
                  /\ runs[p[1]][p[2]].deleteAfter <= clock
                  /\ p[1] \notin J
                  /\ jobs[p[1]].runCount # p[2]
  /\ deleteWithRuns(J)
  /\ runs' = [j \in Ids |-> [n \in 1..MaxRuns |->
                IF j \in J \/ <<j, n>> \in R THEN NoRun ELSE runs[j][n]]]
  /\ UNCHANGED <<clock, lastId, tokens, declared>>

Tick ==
  /\ clock' = clock + 1
  /\ UNCHANGED <<jobs, runs, lastId, tokens, declared, effects>>

=============================================================================
