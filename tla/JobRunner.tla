------------------------------ MODULE JobRunner ------------------------------
(***************************************************************************)
(* The job runner of one process (runtime/jobs/runtime.ts) over the rows   *)
(* of JobRows: the timer and its arming read, the single-flight batch, the *)
(* handlers in flight, the waiters, and restarts.                          *)
(*                                                                         *)
(* A jobsWrite call commits in one step and its caller goes on in a later  *)
(* one: the coordinator answers a transaction only after its publication,  *)
(* in commit order, and other transactions commit meanwhile.  resumes is   *)
(* that queue of callers.  Whoever resumes first wakes the runner when its *)
(* transaction touched the jobs table (commitWrite's armJobs).             *)
(***************************************************************************)
EXTENDS JobRows, FiniteSets, FiniteSetsExt, Sequences

CONSTANTS
  Releases,         \* the sets of names a later release may declare
  Program,          \* the kinds of the steps of a procedure handler, in order
  ClaimBatchSize,   \* limits.jobs.claimBatchSize
  MaxRunning,       \* limits.jobs.maxRunning
  ReapInterval,     \* REAP_INTERVAL_MS
  SleepMs,          \* duration of a step.sleep
  Delays,           \* delays an enqueue or a reschedule asks for
  MaxClock,         \* bound on the clock
  MaxEnqueues,      \* enqueues take no id beyond this bound
  MaxDisturbances   \* operator verbs, waiters, restarts and faults, all together

ASSUME RunnerConstants ==
  /\ Steps = 1..Len(Program)
  /\ ClaimBatchSize \in Nat \ {0}
  /\ MaxRunning \in Nat \ {0}
  /\ \A name \in Names : Definition[name].attempts <= MaxRuns
  /\ Cardinality({name \in Names : Definition[name].every > 0}) <= 1

VARIABLES
  timer,        \* [kind, at]: what the armed timeout does, and when
  arming,       \* the outstanding nextDueAt read of the current generation
  stalled,
  batch,        \* the single-flight batch
  handlers,     \* dispatched runs not released yet; running, or awaiting a transaction
  controllers,  \* runControllers, by job: the lease token of the entry
  lastReapAt,
  resumes,      \* callers of committed transactions, in commit order
  waiting,      \* waiters, by job: registered and reading, or registered
  budget        \* disturbances the model still allows

wakeVars == <<timer, arming, stalled>>
handlerVars == <<handlers, controllers>>
runnerVars == <<wakeVars, batch, handlerVars, lastReapAt, resumes, waiting, budget>>
vars == <<rowVars, runnerVars>>

NoTimer == [kind |-> "none", at |-> 0]
NotArming == [on |-> FALSE, inProcess |-> {}]
NoClaim == [token |-> NoToken, job |-> 0, number |-> 0, entries |-> {}, pc |-> 1, running |-> TRUE]
IdleBatch == [pc |-> "idle", now |-> 0, claims |-> 0, cursor |-> <<0, 0>>, todo |-> {},
              done |-> {}, claimed |-> NoClaim, full |-> FALSE]

\* A caller of a committed transaction.  token names a handler, settled
\* the jobs whose waiters it notifies, wake whether jobs rows changed.
Caller(kind, token, settled, wake) ==
  [kind |-> kind, token |-> token, settled |-> settled, wake |-> wake]

Disturb == budget > 0 /\ budget' = budget - 1

\* The recovery transaction takes several steps and holds the writer.
WriterFree == batch.pc # "recovering"

-----------------------------------------------------------------------------
\* Arming.

InProcess(map) == {j \in Ids : map[j] # NoToken}

\* Mutant: a commit does not clear stalled.
ArmKeepsStalled(map, wake) ==
  /\ timer' = NoTimer
  /\ arming' = [on |-> TRUE, inProcess |-> InProcess(map)]
  /\ UNCHANGED stalled

\* arm(): a new generation, whose read replaces any outstanding one.
arm(map, wake) ==
  /\ timer' = NoTimer
  /\ arming' = [on |-> TRUE, inProcess |-> InProcess(map)]
  /\ stalled' = (stalled /\ ~wake)

armIf(touched, map) == IF touched THEN arm(map, TRUE) ELSE UNCHANGED wakeVars

\* nextDueJobAt: every reason the runner has to wake.
WakeTimes ==
  {jobs[j].nextRunAt : j \in {i \in Ids : jobs[i].state \in DueStates}}
  \cup {runs[p[1]][p[2]].leaseUntil : p \in
          {q \in (Ids \ arming.inProcess) \X (1..MaxRuns) :
             runs[q[1]][q[2]].state = "running" /\ runs[q[1]][q[2]].leaseUntil # Null}}
  \cup {Max({t, lastReapAt + ReapInterval}) : t \in
          ({jobs[j].deleteAfter : j \in Ids} \cup
           {runs[p[1]][p[2]].deleteAfter : p \in Ids \X (1..MaxRuns)}) \ {Null}}

NextDue ==
  /\ arming.on
  /\ WriterFree
  /\ arming' = NotArming
  /\ timer' = IF WakeTimes = {} \/ (Min(WakeTimes) <= clock /\ stalled)
              THEN NoTimer
              ELSE [kind |-> "run", at |-> Max({Min(WakeTimes), clock})]
  /\ UNCHANGED <<rowVars, stalled, batch, handlerVars, lastReapAt, resumes, waiting, budget>>

NextDueFails ==
  /\ arming.on
  /\ Disturb
  /\ arming' = NotArming
  /\ timer' = [kind |-> "arm", at |-> clock]
  /\ UNCHANGED <<rowVars, stalled, batch, handlerVars, lastReapAt, resumes, waiting>>

TimerArms ==
  /\ timer.kind = "arm"
  /\ arm(controllers, TRUE)
  /\ UNCHANGED <<rowVars, batch, handlerVars, lastReapAt, resumes, waiting, budget>>

\* run(): a batch already in flight absorbs the call.
TimerRuns ==
  /\ timer.kind = "run"
  /\ timer.at <= clock
  /\ timer' = NoTimer
  /\ batch' = IF batch.pc = "idle"
              THEN [IdleBatch EXCEPT !.pc = "recover", !.now = clock]
              ELSE batch
  /\ UNCHANGED <<rowVars, arming, stalled, handlerVars, lastReapAt, resumes, waiting, budget>>

-----------------------------------------------------------------------------
\* The batch.

RecoverCommits ==
  /\ resumes' = Append(resumes, Caller("recovered", NoToken, batch.done, batch.done # {}))
  /\ batch' = [batch EXCEPT !.pc = "wait", !.now = 0, !.done = {}]

\* The page of expired leases, less the runs whose handler lives here.
RecoverBegins ==
  /\ batch.pc = "recover"
  /\ \E page \in SUBSET expiredLeases(batch.now) :
       LET todo == {p \in page : controllers[p[1]] = NoToken}
       IN /\ Cardinality(page) = Min({ClaimBatchSize, Cardinality(expiredLeases(batch.now))})
          /\ IF todo = {}
             THEN RecoverCommits
             ELSE /\ batch' = [batch EXCEPT !.pc = "recovering", !.todo = todo]
                  /\ UNCHANGED resumes
  /\ UNCHANGED <<rowVars, wakeVars, handlerVars, lastReapAt, waiting, budget>>

RecoverEnds ==
  /\ batch.pc = "recovering"
  /\ batch.todo = {}
  /\ RecoverCommits
  /\ UNCHANGED <<rowVars, wakeVars, handlerVars, lastReapAt, waiting, budget>>

RecoverOne ==
  /\ batch.pc = "recovering"
  /\ \E p \in batch.todo :
       /\ RecoverTx(p[1], p[2], batch.now)
       /\ batch' = [batch EXCEPT !.todo = @ \ {p}, !.done = @ \cup {p[1]}]
  /\ UNCHANGED <<wakeVars, handlerVars, lastReapAt, resumes, waiting, budget>>

\* Mutant: one run too many.
GateLoose(j) ==
  /\ jobs[j].name \in declared
  /\ Cardinality({i \in Ids : jobs[i].state = "running"
                              /\ Definition[jobs[i].name].gate = Definition[jobs[j].name].gate})
       <= Definition[jobs[j].name].concurrency

\* runningByGate against the definition's cap; undeclared rows are skipped.
GateOpen(j) ==
  /\ jobs[j].name \in declared
  /\ Cardinality({i \in Ids : jobs[i].state = "running"
                              /\ Definition[jobs[i].name].gate = Definition[jobs[j].name].gate})
       < Definition[jobs[j].name].concurrency

\* The keyset order of the claim scan.
Before(a, b) == a[1] < b[1] \/ (a[1] = b[1] /\ a[2] < b[2])
KeyOf(j) == <<jobs[j].nextRunAt, j>>

Claimable == {j \in due : GateOpen(j)}

\* The rows the claim scan of this batch may still take.
Ahead == {j \in Claimable : batch.claims = 0 \/ Before(batch.cursor, KeyOf(j))}

\* Mutant: the journal is not consulted.
IgnoreJournal(pc, entries) == pc

\* claim(): recorded steps answer from the journal the run was claimed
\* with, and the handler goes on to the first one that is not there.
Unrecorded(pc, entries) ==
  Min({i \in pc..(Len(Program) + 1) : i \notin entries})

\* claimNext takes the first eligible row beyond the cursor.
ClaimOne ==
  /\ batch.pc = "claim"
  /\ \E j \in Ahead :
       /\ \A i \in Ahead \ {j} : Before(KeyOf(j), KeyOf(i))
       /\ \/ /\ ClaimTx(j)
             /\ resumes' = Append(resumes, Caller("claimed", NoToken, {}, TRUE))
             /\ batch' = [batch EXCEPT !.pc = "wait", !.cursor = KeyOf(j),
                            !.claimed = [NoClaim EXCEPT !.token = tokens + 1, !.job = j,
                                           !.number = OpenedNumber(j), !.entries = jobs[j].steps,
                                           !.pc = Unrecorded(1, jobs[j].steps)]]
          \/ \E ok \in BOOLEAN :
               /\ ClaimInlineTx(j, ok)
               /\ resumes' = Append(resumes, Caller("inline", NoToken, {j}, TRUE))
               /\ batch' = [batch EXCEPT !.pc = "wait", !.cursor = KeyOf(j)]
  /\ UNCHANGED <<wakeVars, handlerVars, lastReapAt, waiting, budget>>

ClaimNone ==
  /\ batch.pc = "claim"
  /\ Ahead = {}
  /\ resumes' = Append(resumes, Caller("none", NoToken, {}, FALSE))
  /\ batch' = [batch EXCEPT !.pc = "wait"]
  /\ UNCHANGED <<rowVars, wakeVars, handlerVars, lastReapAt, waiting, budget>>

\* Mutant: run() ends without arming again.
EndUnarmed(idle, map) ==
  /\ batch' = IdleBatch
  /\ stalled' = idle
  /\ UNCHANGED <<timer, arming>>

\* stalled, then the finally block of run().
EndBatch(idle, map) ==
  /\ batch' = IdleBatch
  /\ timer' = NoTimer
  /\ arming' = [on |-> TRUE, inProcess |-> InProcess(map)]
  /\ stalled' = idle

\* After the loop: the sweep, unless something was claimed or it is not due.
AfterClaims(claims, wake, map) ==
  IF claims = 0 /\ clock - lastReapAt >= ReapInterval
  THEN /\ batch' = [batch EXCEPT !.pc = "reap"]
       /\ lastReapAt' = clock
       /\ armIf(wake, controllers)
  ELSE /\ EndBatch(claims = 0, map)
       /\ UNCHANGED lastReapAt

\* The loop condition, after the recovery and after every claim.  map is
\* the controllers as the loop leaves them.
Loop(claims, active, wake, map) ==
  IF claims < ClaimBatchSize /\ active < MaxRunning
  THEN /\ batch' = [batch EXCEPT !.pc = "claim", !.claims = claims, !.claimed = NoClaim]
       /\ armIf(wake, controllers)
       /\ UNCHANGED lastReapAt
  ELSE AfterClaims(claims, wake, map)

\* A page of expired jobs, then a page of the expired runs that remain,
\* of which the latest runs of their jobs are kept.
Reap ==
  /\ batch.pc = "reap"
  /\ \E J \in SUBSET expiredJobs :
       LET rest == {p \in (Ids \ J) \X (1..MaxRuns) :
                      /\ runs[p[1]][p[2]].deleteAfter # Null
                      /\ runs[p[1]][p[2]].deleteAfter <= lastReapAt}
           limit == ClaimBatchSize
       IN /\ Cardinality(J) = Min({limit, Cardinality(expiredJobs)})
          /\ \E page \in SUBSET rest :
               /\ Cardinality(page) = Min({limit, Cardinality(rest)})
               /\ ReapTx(J, {p \in page : jobs[p[1]].runCount # p[2]})
               /\ resumes' = Append(resumes, Caller("reaped", NoToken, {}, J # {}))
               /\ batch' = [batch EXCEPT !.pc = "wait",
                              !.full = Cardinality(J) = limit \/ Cardinality(page) = limit]
  /\ UNCHANGED <<wakeVars, handlerVars, lastReapAt, waiting, budget>>

\* A transaction of the batch rejects: stalled keeps its value.
BatchFails ==
  /\ batch.pc \in {"recover", "claim", "reap"}
  /\ Disturb
  /\ batch' = IdleBatch
  /\ arm(controllers, FALSE)
  /\ UNCHANGED <<rowVars, handlerVars, lastReapAt, resumes, waiting>>

-----------------------------------------------------------------------------
\* Handlers of dispatched runs.

AtStep(h, kind) ==
  /\ h.running
  /\ h.pc <= Len(Program)
  /\ Program[h.pc] = kind

Moved(h, g) == handlers' = (handlers \ {h}) \cup {g}

Await(h) == Moved(h, [h EXCEPT !.running = FALSE])

StepMutation(h) ==
  /\ AtStep(h, "mutation")
  /\ WriterFree
  /\ StepTx(h.job, h.number, h.token, h.pc)
  /\ resumes' = Append(resumes, Caller("step", h.token, {}, TRUE))
  /\ Await(h)
  /\ UNCHANGED <<wakeVars, batch, controllers, lastReapAt, waiting, budget>>

\* A procedure step is recorded once its external work is done.
StepProcedure(h) ==
  /\ AtStep(h, "procedure")
  /\ WriterFree
  /\ AppendTx(h.job, h.number, h.token, h.pc)
  /\ resumes' = Append(resumes, Caller("step", h.token, {}, TRUE))
  /\ Await(h)
  /\ UNCHANGED <<wakeVars, batch, controllers, lastReapAt, waiting, budget>>

StepSleep(h) ==
  /\ AtStep(h, "sleep")
  /\ WriterFree
  /\ SleepTx(h.job, h.number, h.token, h.pc, clock + SleepMs)
  /\ resumes' = Append(resumes, Caller("slept", h.token, {h.job}, TRUE))
  /\ Await(h)
  /\ UNCHANGED <<wakeVars, batch, controllers, lastReapAt, waiting, budget>>

\* assertOwned throws inside the transaction: nothing commits, and the
\* handler may catch the error and go on.
StepRefused(h) ==
  /\ h.running
  /\ h.pc <= Len(Program)
  /\ WriterFree
  /\ ~Owned(h.job, h.number, h.token)
  /\ Moved(h, [h EXCEPT !.pc = Unrecorded(@ + 1, h.entries)])
  /\ UNCHANGED <<rowVars, wakeVars, batch, controllers, lastReapAt, resumes, waiting, budget>>

\* Mutant: only the outcome of a run that succeeded is delivered.
SettleTellsSuccess(h, outcome) ==
  /\ h.running
  /\ WriterFree
  /\ IF Owned(h.job, h.number, h.token)
     THEN /\ SettleTx(h.job, h.number, h.token, outcome)
          /\ resumes' = Append(resumes, Caller("settled", h.token,
                                               IF outcome = "ok" THEN {h.job} ELSE {}, TRUE))
     ELSE /\ UNCHANGED rowVars
          /\ resumes' = Append(resumes, Caller("settled", h.token, {}, FALSE))
  /\ Await(h)
  /\ UNCHANGED <<wakeVars, batch, controllers, lastReapAt, waiting, budget>>

\* The handler returns, throws or is refused, and settle() runs.
Settle(h, outcome) ==
  /\ h.running
  /\ WriterFree
  /\ IF Owned(h.job, h.number, h.token)
     THEN /\ SettleTx(h.job, h.number, h.token, outcome)
          /\ resumes' = Append(resumes, Caller("settled", h.token, {h.job}, TRUE))
     ELSE /\ UNCHANGED rowVars
          /\ resumes' = Append(resumes, Caller("settled", h.token, {}, FALSE))
  /\ Await(h)
  /\ UNCHANGED <<wakeVars, batch, controllers, lastReapAt, waiting, budget>>

\* releaseRun compares the controller before it drops the entry.
Released(h) ==
  [controllers EXCEPT ![h.job] = IF @ = h.token THEN NoToken ELSE @]

releaseRun(h) ==
  /\ handlers' = handlers \ {h}
  /\ controllers' = Released(h)
  /\ arm(Released(h), TRUE)

\* The settle transaction fails to commit; its catch only logs.
SettleFails(h) ==
  /\ h.running
  /\ Disturb
  /\ releaseRun(h)
  /\ UNCHANGED <<rowVars, batch, lastReapAt, resumes, waiting>>

-----------------------------------------------------------------------------
\* Callers go on, in commit order.

deliver(settled) ==
  waiting' = [j \in Ids |-> IF j \in settled THEN "none" ELSE waiting[j]]

Next1(kind) ==
  /\ resumes # <<>>
  /\ Head(resumes).kind = kind
  /\ resumes' = Tail(resumes)

OperationResumes ==
  /\ Next1("operation")
  /\ arm(controllers, TRUE)
  /\ deliver(Head(resumes).settled)
  /\ UNCHANGED <<rowVars, batch, handlerVars, lastReapAt, budget>>

\* The batch goes on as far as its next transaction.
BatchResumes ==
  /\ LET active == Cardinality(handlers)
         wake == Head(resumes).wake
     IN \/ Next1("recovered") /\ Loop(0, active, wake, controllers)
        \/ Next1("inline") /\ Loop(batch.claims + 1, active, wake, controllers)
        \/ Next1("none") /\ AfterClaims(batch.claims, wake, controllers)
        \/ Next1("reaped") /\ EndBatch(~batch.full, controllers) /\ UNCHANGED lastReapAt
  /\ deliver(Head(resumes).settled)
  /\ UNCHANGED <<rowVars, handlerVars, budget>>

\* dispatch: the entry of an older run of the same job is replaced.
Dispatch ==
  /\ Next1("claimed")
  /\ handlers' = handlers \cup {batch.claimed}
  /\ controllers' = [controllers EXCEPT ![batch.claimed.job] = batch.claimed.token]
  /\ Loop(batch.claims + 1, Cardinality(handlers) + 1, TRUE, controllers')
  /\ UNCHANGED <<rowVars, waiting, budget>>

StepResumes(h) ==
  /\ Next1("step")
  /\ Head(resumes).token = h.token
  /\ arm(controllers, TRUE)
  /\ Moved(h, [h EXCEPT !.running = TRUE, !.pc = Unrecorded(@ + 1, h.entries)])
  /\ UNCHANGED <<rowVars, batch, controllers, lastReapAt, waiting, budget>>

\* The sleep signal unwinds the handler.
SleepUnwinds(h) ==
  /\ Next1("slept")
  /\ Head(resumes).token = h.token
  /\ deliver(Head(resumes).settled)
  /\ releaseRun(h)
  /\ UNCHANGED <<rowVars, batch, lastReapAt, budget>>

\* A handler that catches the signal goes on as a stale run.
SleepSwallowed(h) ==
  /\ Next1("slept")
  /\ Head(resumes).token = h.token
  /\ deliver(Head(resumes).settled)
  /\ arm(controllers, TRUE)
  /\ Moved(h, [h EXCEPT !.running = TRUE, !.pc = Unrecorded(@ + 1, h.entries)])
  /\ UNCHANGED <<rowVars, batch, controllers, lastReapAt, budget>>

SettleResumes(h) ==
  /\ Next1("settled")
  /\ Head(resumes).token = h.token
  /\ deliver(Head(resumes).settled)
  /\ releaseRun(h)
  /\ UNCHANGED <<rowVars, batch, lastReapAt, budget>>

-----------------------------------------------------------------------------
\* The application, operators, time and the process.

Operation(settled) ==
  /\ WriterFree
  /\ resumes' = Append(resumes, Caller("operation", NoToken, settled, TRUE))
  /\ UNCHANGED <<wakeVars, batch, handlerVars, lastReapAt, waiting>>

Enqueue ==
  /\ lastId < MaxEnqueues
  /\ \E name \in Names, delay \in Delays : EnqueueTx(name, clock + delay)
  /\ Operation({})
  /\ UNCHANGED budget

Cancel ==
  /\ Disturb
  /\ \E j \in Ids : CancelTx(j) /\ Operation({j})

Retry ==
  /\ Disturb
  /\ \E j \in Ids : RetryTx(j)
  /\ Operation({})

ForceRunAgain ==
  /\ Disturb
  /\ \E j \in Ids : ForceRunAgainTx(j)
  /\ Operation({})

Reschedule ==
  /\ Disturb
  /\ \E j \in Ids, delay \in Delays : RescheduleTx(j, clock + delay)
  /\ Operation({})

Delete ==
  /\ Disturb
  /\ \E j \in Ids : DeleteTx(j)
  /\ Operation({})

\* Something the process has yet to do about the jobs table.
Pending ==
  \/ timer.kind = "arm"
  \/ timer.kind = "run" /\ timer.at <= clock
  \/ arming.on
  \/ batch.pc # "idle"
  \/ resumes # <<>>

\* Another commit that touches the jobs table, such as a patched key.  The
\* model lets it come when nothing else is pending; Enqueue, the other
\* operations and the steps of handlers come at any time.
OtherCommit ==
  /\ ~Pending
  /\ Operation({})
  /\ UNCHANGED <<rowVars, budget>>

\* wait(): register, then read.
Wait(j) ==
  /\ waiting[j] = "none"
  /\ jobs[j].state # "absent"
  /\ Disturb
  /\ waiting' = [waiting EXCEPT ![j] = "reading"]
  /\ UNCHANGED <<rowVars, wakeVars, batch, handlerVars, lastReapAt, resumes>>

WaitReads(j) ==
  /\ waiting[j] = "reading"
  /\ WriterFree
  /\ waiting' = [waiting EXCEPT ![j] = IF jobs[j].state \in Live THEN "waiting" ELSE "none"]
  /\ UNCHANGED <<rowVars, wakeVars, batch, handlerVars, lastReapAt, resumes, budget>>

TimePasses ==
  /\ clock < MaxClock
  /\ Tick
  /\ UNCHANGED runnerVars

\* The process ends, drained by stop() or not, and another one opens the
\* database.  Waiters end with it.
\* activate() mints the missing first occurrences and arms the runner.
Restart ==
  /\ WriterFree
  /\ Disturb
  /\ timer' = NoTimer
  /\ arming' = [on |-> TRUE, inProcess |-> {}]
  /\ stalled' = FALSE
  /\ batch' = IdleBatch
  /\ handlers' = {}
  /\ controllers' = [j \in Ids |-> NoToken]
  /\ lastReapAt' = 0
  /\ resumes' = <<>>
  /\ waiting' = [j \in Ids |-> "none"]
  /\ \E known \in Releases : RestartTx(known)

-----------------------------------------------------------------------------
Init ==
  /\ clock = 0
  /\ declared = Names
  /\ runs = [j \in Ids |-> [n \in 1..MaxRuns |-> NoRun]]
  /\ tokens = 0
  /\ effects = [j \in Ids |-> [s \in Steps |-> 0]]
  /\ \/ \E name \in Names :
          /\ repeats(Names, name)
          /\ lastId = 1
          /\ jobs = [[j \in Ids |-> NoJob] EXCEPT ![1] = FreshJob(name, nextOccurrence(name, 0, 0))]
     \/ /\ \A name \in Names : ~repeats(Names, name)
        /\ lastId = 0
        /\ jobs = [j \in Ids |-> NoJob]
  /\ timer = NoTimer
  /\ arming = [on |-> TRUE, inProcess |-> {}]
  /\ stalled = FALSE
  /\ batch = IdleBatch
  /\ handlers = {}
  /\ controllers = [j \in Ids |-> NoToken]
  /\ lastReapAt = 0
  /\ resumes = <<>>
  /\ waiting = [j \in Ids |-> "none"]
  /\ budget = MaxDisturbances

Runner ==
  \/ NextDue \/ TimerArms \/ TimerRuns
  \/ RecoverBegins \/ RecoverOne \/ RecoverEnds
  \/ ClaimOne \/ ClaimNone \/ Reap

Handler(h) ==
  \/ StepMutation(h) \/ StepProcedure(h)
  \/ StepSleep(h) \/ StepRefused(h)
  \/ \E outcome \in {"ok", "error", "refusal"} : Settle(h, outcome)

Resumption ==
  \/ OperationResumes \/ BatchResumes \/ Dispatch
  \/ \E h \in handlers :
       StepResumes(h) \/ SleepUnwinds(h) \/ SleepSwallowed(h) \/ SettleResumes(h)

Application ==
  \/ Enqueue \/ Cancel \/ Retry \/ ForceRunAgain \/ Reschedule \/ Delete
  \/ \E j \in Ids : Wait(j) \/ WaitReads(j)

Faults ==
  \/ NextDueFails \/ BatchFails \/ Restart
  \/ \E h \in handlers : SettleFails(h)

Next ==
  \/ Runner \/ Resumption \/ Application \/ OtherCommit \/ Faults \/ TimePasses
  \/ \E h \in handlers : Handler(h)

Spec == Init /\ [][Next]_vars

\* The event loop runs what is ready: reads answer, due timers fire, the
\* batch and the callers of committed transactions go on.  Handlers owe
\* nothing: application code may hang.
Fairness ==
  /\ WF_vars(NextDue)
  /\ WF_vars(TimerArms)
  /\ WF_vars(TimerRuns)
  /\ WF_vars(RecoverBegins \/ RecoverOne \/ RecoverEnds \/ ClaimOne \/ ClaimNone \/ Reap)
  /\ WF_vars(Resumption)

FairSpec == Spec /\ Fairness

-----------------------------------------------------------------------------
\* Properties.

SlotFree == Cardinality(handlers) < MaxRunning

\* Expired leases whose run has no handler in this process.
AbandonedLeases == {p \in expiredLeases(clock) : controllers[p[1]] = NoToken}

\* The rows keep the shapes the two tables declare and lease tokens are
\* never reused (openRun's leaseCounter).
JobRowsTypeOK ==
  /\ clock \in Nat
  /\ lastId \in Ids \cup {0}
  /\ tokens \in Nat
  /\ declared \subseteq Names
  /\ \A j \in Ids :
       /\ jobs[j].state \in JobStates
       /\ jobs[j].runCount \in 0..MaxRuns
       /\ jobs[j].trigger \in Triggers
       /\ jobs[j].steps \subseteq Steps
       /\ \A n \in 1..MaxRuns : runs[j][n].state \in RunStates /\ runs[j][n].token \in 0..tokens
  /\ timer.kind \in {"none", "run", "arm"}
  /\ batch.pc \in {"idle", "recover", "recovering", "wait", "claim", "reap"}
  /\ \A h \in handlers : h.pc \in 1..(Len(Program) + 1)
  /\ waiting \in [Ids -> {"none", "reading", "waiting"}]

\* A job and its runs never disagree, whatever mix of settlements, sleeps,
\* cancels, retries, forced runs, recoveries, deletes and sweeps moved them:
\* the latest run exists and is open exactly while the job runs or sleeps,
\* older runs are settled, a lease means a running job, and a deleted job
\* leaves no run behind.
JobAgreesWithRun ==
  \A j \in Ids :
    /\ jobs[j].state = "absent" => \A n \in 1..MaxRuns : runs[j][n] = NoRun
    /\ jobs[j].runCount > 0 => LatestRun(j).state # "absent"
    /\ jobs[j].state = "running" => LatestRun(j).state = "running" /\ LatestRun(j).token # NoToken
    /\ jobs[j].state \in Terminal \cup {"retrying"} => LatestRun(j).state # "running"
    /\ \A n \in 1..MaxRuns :
         /\ n # jobs[j].runCount => runs[j][n].state # "running"
         /\ runs[j][n].token # NoToken => jobs[j].state = "running"

\* The writes of a transactional step commit once per journal, over retries,
\* sleeps, crashes and runs that outlive their lease (JobSteps.run).
StepsOnce ==
  \A j \in Ids, s \in Steps : effects[j][s] <= 1 /\ (effects[j][s] = 1 => s \in jobs[j].steps)

\* At most concurrency runs of one gate are open at once (claimNext), though
\* the rows counted are written by other transactions.
GateHolds ==
  \A j \in Ids : jobs[j].state = "running" /\ jobs[j].name \in declared =>
    Cardinality({i \in Ids : jobs[i].state = "running"
                   /\ Definition[jobs[i].name].gate = Definition[jobs[j].name].gate})
      <= Definition[jobs[j].name].concurrency

\* The run that holds a lease in this process is the one cancel and recovery
\* find in runControllers, also while handlers of older runs of the same job
\* are still unwinding; so recovery never settles a run that is alive here.
OwnerIsRegistered ==
  \A h \in handlers :
    Owned(h.job, h.number, h.token) =>
      controllers[h.job] = h.token /\ <<h.job, h.number>> \notin batch.todo

\* reap never takes an outcome a dedupe hit would still be answered with.
SweepKeepsMemo ==
  \A j \in expiredJobs : ~(jobs[j].name \in declared /\ Definition[jobs[j].name].dedupe /\ Memoized(j))

\* A registered waiter of a job that has settled is about to be told: the
\* caller that committed the settlement has yet to deliver it (wait reads
\* after registering).  A deleted job is exempt: delete tells no one.
WaitersWillHear ==
  \A j \in Ids :
    waiting[j] = "waiting" =>
      \/ jobs[j].state \in Live \cup {"absent"}
      \/ \E i \in DOMAIN resumes : j \in resumes[i].settled
      \/ j \in batch.done

\* Unless the last batch left stalled set, the runner is never idle with no
\* read, timer or batch ahead of it while a job could be claimed or an
\* abandoned lease recovered (arm, run).
DueWorkIsAwaited ==
  ~Pending /\ ~stalled => AbandonedLeases = {} /\ (SlotFree => Claimable = {})

\* An outcome changes only by being reopened or deleted: a handler of a run
\* that was cancelled, recovered or resumed elsewhere cannot settle the job
\* again (settle, assertOwned).
OutcomeIsFinal ==
  [][\A j \in Ids :
       jobs[j].state \in Terminal /\ jobs'[j] # jobs[j] =>
         jobs'[j].state \in {"pending", "retrying", "absent"}]_vars

\* A recurring job keeps a live occurrence through failures, cancels, retries
\* and sweeps; only deleting that occurrence ends it (settleJobIn, mintRepeat).
RecurrenceEndsOnlyByDelete ==
  [][\A name \in Names :
       repeats(declared, name) /\ liveFor(jobs, name) /\ ~liveFor(jobs', name) =>
         \E j \in Ids : jobs[j].state \in Live /\ jobs'[j] = NoJob]_vars

\* As long as commits that touch the jobs table keep coming, no job stays
\* claimable with a slot free and no abandoned lease stays unrecovered: each
\* commit wakes the runner whatever stalled says (commitWrite, arm).
OverdueWorkIsTakenUp ==
  []<><<OtherCommit>>_vars =>
    \A j \in Ids :
      /\ []<>~(j \in Claimable /\ SlotFree)
      /\ []<>(\A n \in 1..MaxRuns : <<j, n>> \notin AbandonedLeases)

\* An idle runner leaves no abandoned lease behind: what docs/jobs.md says of
\* crashes.  The code violates it: an overdue job behind the crashed run's own
\* gate is the earliest wake time, the batch that cannot claim it sets
\* stalled, and arm then returns before it looks at the lease.
AbandonedLeasesAreAwaited ==
  ~Pending => AbandonedLeases = {}

\* An idle runner leaves no claimable job behind: what the comment on stalled
\* says.  The code violates it: a wake between the claim scan of a batch and
\* its end is overwritten when the batch sets stalled.
NothingClaimableParks ==
  ~Pending /\ SlotFree => Claimable = {}

=============================================================================
