-------------------------------- MODULE Files --------------------------------
(***************************************************************************)
(* Files: the upload route (packages/server/src/files/http.ts), files.store *)
(* of procedures (procedure.ts), the mutation capability (namespace.ts) and *)
(* the durable cleanup worker (cleanup.ts), over the rows of the database   *)
(* and a separate object store.                                            *)
(*                                                                         *)
(* A write to the database is one step: it commits and answers ("ok"),     *)
(* fails ("failed"), or commits and the caller sees an error ("lost").  An *)
(* operation of the store that fails may have taken effect.  The process   *)
(* may stop at any point; rows and objects stay.                           *)
(***************************************************************************)
EXTENDS Integers, FiniteSets

CONSTANTS Uploads, Attempts, Stores,  \* upload sessions, requests, files.store calls
          MaxKeys, MaxCalls, MaxGrants, \* bounds: keys drawn, uploads and stores begun, grants
          Batch,                      \* BATCH_SIZE
          SessionMs, PendingMs, GrantMs, LeaseMs, RetryMs,
          MaxClock, MaxFaults, MaxCrashes

ASSUME FilesAssumption ==
  /\ {MaxKeys, MaxCalls, MaxGrants, LeaseMs, RetryMs, MaxClock, MaxFaults, MaxCrashes} \subseteq Nat
  /\ {Batch, SessionMs, PendingMs, GrantMs} \cup Attempts \subseteq Nat \ {0}
  /\ \A S \in SUBSET Uploads : Cardinality(S) \in Nat  \* finitely many sessions

VARIABLES
  file,      \* per key, the row of _files: none, pending, active or deleting, and its expiry
  upload,    \* per session, the row of _file_uploads
  tasks,     \* the rows of _file_cleanup
  granted,   \* the rows of _file_grants
  objects,   \* the keys the store holds
  request,   \* per attempt: how far executeUpload is, with what it claimed
  staging,   \* per store call: how far it is, its key and its row
  worker,    \* FileCleanupRuntime.cycle
  armedAt,   \* the timer: empty, or one instant
  rerun, recovering,
  ready,     \* recoveryReady
  keys, ids, \* keys and row ids drawn
  clock, faults, crashes,
  lost       \* history: a write of this process committed and its caller saw an error

rows == <<file, upload, tasks, granted>>
workerVars == <<worker, armedAt, rerun, recovering, ready>>
drawn == <<keys, ids>>
vars == <<rows, objects, request, staging, workerVars, drawn, clock, faults, crashes, lost>>

Keys == 1..MaxKeys
Live == {"pending", "active"}
NoFile == [state |-> "none", at |-> 0]
NoUpload == [state |-> "none", key |-> 0, token |-> 0, at |-> 0]
NoRequest == [pc |-> "new", id |-> 0, key |-> 0, since |-> 0]
NoStaging == [pc |-> "new", key |-> 0, id |-> 0]
NoTask == [id |-> 0, key |-> 0, file |-> FALSE, state |-> "none", at |-> 0, lease |-> 0]
Idle == [pc |-> "idle", now |-> 0, queue |-> {}, task |-> NoTask, immediate |-> FALSE, next |-> {}]

FilesInit ==
  /\ file = [k \in Keys |-> NoFile] /\ upload = [u \in Uploads |-> NoUpload]
  /\ tasks = {} /\ granted = {} /\ objects = {}
  /\ request = [a \in Attempts |-> NoRequest] /\ staging = [b \in Stores |-> NoStaging]
  /\ worker = [Idle EXCEPT !.pc = "inspect"]
  /\ armedAt = {} /\ rerun = FALSE /\ recovering = TRUE /\ ready = FALSE
  /\ keys = 0 /\ ids = 0 /\ clock = 0 /\ faults = 0 /\ crashes = 0 /\ lost = FALSE

-----------------------------------------------------------------------------
(***************************************************************************)
(* Outcomes, fresh names and the timer.                                    *)
(***************************************************************************)
Results == {"ok", "failed", "lost"}
Fails(happens) == IF happens THEN faults < MaxFaults /\ faults' = faults + 1 ELSE UNCHANGED faults
Write(r) == Fails(r # "ok") /\ lost' = (lost \/ r = "lost")
Committed(r) == r # "failed"

Called ==
  Cardinality({a \in Attempts : request[a].pc # "new"}) + Cardinality({b \in Stores : staging[b].pc # "new"}) < MaxCalls

DrawKey == keys < MaxKeys /\ keys' = keys + 1

\* arm: the earliest instant asked for is the timer's.
Earliest(times) == {t \in times : \A u \in times : t <= u}
Armed(at) == Earliest(armedAt \cup {at})

Task(id, k, isFile, at) == [id |-> id, key |-> k, file |-> isFile, state |-> "pending", at |-> at, lease |-> 0]

\* A row is queued again.  A staging row holds no lease.
Pending(t, at) == [t EXCEPT !.state = "pending", !.at = at, !.lease = 0]

-----------------------------------------------------------------------------
(***************************************************************************)
(* The mutation capability.  Every write but the worker's waits for the    *)
(* recovery to end.                                                        *)
(***************************************************************************)
CreateUploadSession(u) ==
  /\ ready /\ upload[u].state = "none" /\ DrawKey
  /\ upload' = [upload EXCEPT ![u] = [state |-> "open", key |-> keys + 1, token |-> 0, at |-> clock + SessionMs]]
  /\ armedAt' = Armed(clock + SessionMs)
  /\ UNCHANGED <<file, tasks, granted, objects, request, staging, worker, rerun, recovering, ready, ids,
                 clock, faults, crashes, lost>>

Activated(k) == [file EXCEPT ![k] = [state |-> "active", at |-> 0]]

Claim(k) ==
  /\ ready /\ file[k].state = "pending"
  /\ file' = Activated(k)
  /\ UNCHANGED <<upload, tasks, granted, objects, request, staging, workerVars, drawn, clock, faults, crashes, lost>>

\* createUrl claims the file.  Bound: MaxGrants.
CreateUrl(k, permanent) ==
  /\ ready /\ file[k].state \in Live /\ Cardinality(granted) < MaxGrants
  /\ file' = Activated(k)
  /\ granted' = granted \cup {[key |-> k, at |-> IF permanent THEN 0 ELSE clock + GrantMs]}
  /\ armedAt' = IF permanent THEN armedAt ELSE Armed(clock + GrantMs)
  /\ UNCHANGED <<upload, tasks, objects, request, staging, worker, rerun, recovering, ready, drawn, clock,
                 faults, crashes, lost>>

RevokeGrant(g) ==
  /\ ready
  /\ granted' = granted \ {g}
  /\ UNCHANGED <<file, upload, tasks, objects, request, staging, workerVars, drawn, clock, faults, crashes, lost>>

Revoked(k) == {g \in granted : g.key # k}

Delete(k) ==
  /\ ready /\ file[k].state \in Live
  /\ file' = [file EXCEPT ![k] = [state |-> "deleting", at |-> 0]]
  /\ granted' = Revoked(k)
  /\ tasks' = tasks \cup {Task(ids + 1, k, TRUE, clock)}
  /\ ids' = ids + 1
  /\ armedAt' = Armed(clock)
  /\ UNCHANGED <<upload, objects, request, staging, worker, rerun, recovering, ready, keys, clock,
                 faults, crashes, lost>>

-----------------------------------------------------------------------------
(***************************************************************************)
(* executeUpload.                                                          *)
(***************************************************************************)
Becomes(a, pc) ==
  request' = [request EXCEPT ![a] = IF pc = "done" THEN [NoRequest EXCEPT !.pc = "done"] ELSE [@ EXCEPT !.pc = pc]]

\* The attempts are interchangeable, so they begin in their order.
Begin(a, u) ==
  /\ request[a].pc = "new" /\ Called /\ \A x \in Attempts : x < a => request[x].pc # "new"
  /\ upload[u].state # "none"
  /\ request' = [request EXCEPT ![a] = [pc |-> "acquire", id |-> u, key |-> 0, since |-> clock]]
  /\ UNCHANGED <<rows, objects, staging, workerVars, drawn, clock, faults, crashes, lost>>

\* acquireUpload and claimUpload: an open session that had not expired when
\* the request arrived is claimed.
Acquire(a, r) ==
  /\ request[a].pc = "acquire" /\ ready
  /\ LET u == request[a].id
     IN  /\ upload[u].state = "open" /\ upload[u].at > request[a].since
         /\ Write(r)
         /\ upload' = IF Committed(r) THEN [upload EXCEPT ![u].state = "uploading", ![u].token = a] ELSE upload
         /\ IF r = "ok"
            THEN request' = [request EXCEPT ![a].pc = "claimed", ![a].key = upload[u].key]
            ELSE Becomes(a, "done")
  /\ UNCHANGED <<file, tasks, granted, objects, staging, workerVars, drawn, clock, crashes>>

\* Not found, already committed, busy for too long, or cut off.
Refused(a) ==
  /\ request[a].pc = "acquire"
  /\ Becomes(a, "done")
  /\ UNCHANGED <<rows, objects, staging, workerVars, drawn, clock, faults, crashes, lost>>

\* The headers are refused, before any byte is stored.
Invalid(a) ==
  /\ request[a].pc = "claimed"
  /\ Becomes(a, "release")
  /\ UNCHANGED <<rows, objects, staging, workerVars, drawn, clock, faults, crashes, lost>>

\* put: the bytes are stored, or it fails with or without them.  A digest
\* that does not match is such a failure too.
Put(a, stored, ok) ==
  /\ request[a].pc = "claimed" /\ (ok => stored)
  /\ Becomes(a, IF ok THEN "stored" ELSE "discard")
  /\ objects' = IF stored THEN objects \cup {request[a].key} ELSE objects
  /\ UNCHANGED <<rows, staging, workerVars, drawn, clock, faults, crashes, lost>>

Owns(a) == LET row == upload[request[a].id] IN row.state = "uploading" /\ row.token = a

\* The metadata commit, which arms the timer when it answers.  A row that is
\* no longer the attempt's own makes it throw.
Commit(a, r) ==
  /\ request[a].pc = "stored"
  /\ Write(r)
  /\ IF Committed(r) /\ Owns(a)
     THEN /\ file' = [file EXCEPT ![request[a].key] = [state |-> "pending", at |-> clock + PendingMs]]
          /\ upload' = [upload EXCEPT ![request[a].id].state = "committed", ![request[a].id].token = 0]
     ELSE UNCHANGED <<file, upload>>
  /\ Becomes(a, IF r = "ok" /\ Owns(a) THEN "done" ELSE "prove")
  /\ armedAt' = IF r = "ok" THEN Armed(clock + PendingMs) ELSE armedAt
  /\ UNCHANGED <<tasks, granted, objects, staging, worker, rerun, recovering, ready, drawn, clock, crashes>>

Proven(a) == Owns(a) /\ upload[request[a].id].key = request[a].key

\* uploadCommitProof: the bytes are discarded only if the row still is the
\* attempt's own; a read that fails leaves everything as it is.
Prove(a, readable) ==
  /\ request[a].pc = "prove"
  /\ Fails(~readable)
  /\ Becomes(a, IF readable /\ Proven(a) THEN "discard" ELSE "done")
  /\ UNCHANGED <<rows, objects, staging, workerVars, drawn, clock, crashes, lost>>

\* cleanupObject: the object is deleted, or its deletion is recorded.
Discard(a, ok, gone) ==
  /\ request[a].pc = "discard" /\ (ok => gone)
  /\ Fails(~ok)
  /\ objects' = IF gone THEN objects \ {request[a].key} ELSE objects
  /\ Becomes(a, IF ok THEN "release" ELSE "record")
  /\ UNCHANGED <<rows, staging, workerVars, drawn, clock, crashes, lost>>

Record(a, r) ==
  /\ request[a].pc = "record"
  /\ Write(r)
  /\ IF Committed(r)
     THEN tasks' = tasks \cup {Task(ids + 1, request[a].key, FALSE, clock)} /\ ids' = ids + 1
     ELSE UNCHANGED <<tasks, ids>>
  /\ Becomes(a, IF r = "ok" THEN "release" ELSE "done")
  /\ armedAt' = IF r = "ok" THEN Armed(clock) ELSE armedAt
  /\ UNCHANGED <<file, upload, granted, objects, staging, worker, rerun, recovering, ready, keys, clock, crashes>>

\* Mutant: the released session keeps its key.
FreshNever(k) == k

\* releaseUpload draws a new key: a deletion may still name the old one.
Fresh(k) == keys + 1

Release(a, r) ==
  /\ request[a].pc = "release"
  /\ Write(r)
  /\ Becomes(a, "done")
  /\ IF Owns(a) /\ Committed(r)
     THEN /\ DrawKey
          /\ upload' = [upload EXCEPT ![request[a].id].state = "open", ![request[a].id].token = 0,
                                      ![request[a].id].key = Fresh(@)]
     ELSE UNCHANGED <<upload, keys>>
  /\ UNCHANGED <<file, tasks, granted, objects, staging, workerVars, ids, clock, crashes>>

-----------------------------------------------------------------------------
(***************************************************************************)
(* files.store of procedures: a staging row names the key before any byte  *)
(* is stored, and gives way to the file's row.                             *)
(***************************************************************************)
Goes(b, pc) ==
  staging' = [staging EXCEPT ![b] = IF pc = "done" THEN [NoStaging EXCEPT !.pc = "done"] ELSE [@ EXCEPT !.pc = pc]]
Staged(b) == {t \in tasks : t.id = staging[b].id /\ t.state = "staging"}

Stage(b, r) ==
  /\ staging[b].pc = "new" /\ Called /\ ready /\ DrawKey
  /\ Write(r)
  /\ IF r = "ok" THEN staging' = [staging EXCEPT ![b] = [pc |-> "staged", key |-> keys + 1, id |-> ids + 1]]
     ELSE Goes(b, "done")
  /\ IF Committed(r)
     THEN tasks' = tasks \cup {[Task(ids + 1, keys + 1, FALSE, clock) EXCEPT !.state = "staging"]} /\ ids' = ids + 1
     ELSE UNCHANGED <<tasks, ids>>
  /\ UNCHANGED <<file, upload, granted, objects, request, workerVars, clock, crashes>>

PutStaged(b, stored, ok) ==
  /\ staging[b].pc = "staged" /\ (ok => stored)
  /\ Goes(b, IF ok THEN "stored" ELSE "abandon")
  /\ objects' = IF stored THEN objects \cup {staging[b].key} ELSE objects
  /\ UNCHANGED <<rows, request, workerVars, drawn, clock, faults, crashes, lost>>

CommitStaged(b, r) ==
  /\ staging[b].pc = "stored"
  /\ Write(r)
  /\ IF Committed(r) /\ Staged(b) # {}
     THEN /\ file' = [file EXCEPT ![staging[b].key] = [state |-> "pending", at |-> clock + PendingMs]]
          /\ tasks' = tasks \ Staged(b)
     ELSE UNCHANGED <<file, tasks>>
  /\ LET done == r = "ok" /\ Staged(b) # {}
     IN  /\ Goes(b, IF done THEN "done" ELSE "abandon")
         /\ armedAt' = IF done THEN Armed(clock + PendingMs) ELSE armedAt
  /\ UNCHANGED <<upload, granted, objects, request, worker, rerun, recovering, ready, drawn, clock, crashes>>

\* Mutant: the row is dropped, as if no byte had been stored.
AbandonedDropped(b) == {}

Abandoned(b) == {Pending(t, clock) : t \in Staged(b)}

\* abandonStaging: a row that still is staging becomes a deletion.
AbandonStaging(b, r) ==
  /\ staging[b].pc = "abandon"
  /\ Write(r)
  /\ Goes(b, "done")
  /\ tasks' = IF Committed(r) THEN (tasks \ Staged(b)) \cup Abandoned(b) ELSE tasks
  /\ armedAt' = IF r = "ok" /\ Staged(b) # {} THEN Armed(clock) ELSE armedAt
  /\ UNCHANGED <<file, upload, granted, objects, request, worker, rerun, recovering, ready, drawn, clock, crashes>>

-----------------------------------------------------------------------------
(***************************************************************************)
(* FileCleanupRuntime.                                                     *)
(***************************************************************************)
\* The timer runs a cycle, or asks the running one for another.
TimerFires ==
  /\ \E t \in armedAt : t <= clock
  /\ armedAt' = {}
  /\ IF worker.pc = "idle"
     THEN worker' = [Idle EXCEPT !.pc = "inspect", !.now = clock] /\ UNCHANGED rerun
     ELSE rerun' = TRUE /\ UNCHANGED worker
  /\ UNCHANGED <<rows, objects, request, staging, recovering, ready, drawn, clock, faults, crashes, lost>>

\* The end of a cycle arms what it asks for, and at once for a rerun.
EndCycle(times) ==
  /\ worker' = Idle
  /\ rerun' = FALSE
  /\ armedAt' = Earliest(armedAt \cup times \cup (IF rerun THEN {clock} ELSE {}))

\* Mutant: a cycle that failed is not tried again.
CycleFailsQuietly == EndCycle({})

CycleFails == EndCycle({clock + RetryMs})

\* Mutant: the queued deletions are forgotten.
WorkTimesNoTasks ==
  {file[k].at : k \in {k \in Keys : file[k].state = "pending"}}
  \cup {upload[u].at : u \in {u \in Uploads : upload[u].state \in {"open", "committed"}}}
  \cup {g.at : g \in {g \in granted : g.at # 0}}

\* nextCleanupAt reads the earliest of these.
WorkTimes ==
  {file[k].at : k \in {k \in Keys : file[k].state = "pending"}}
  \cup {upload[u].at : u \in {u \in Uploads : upload[u].state \in {"open", "committed"}}}
  \cup {g.at : g \in {g \in granted : g.at # 0}}
  \cup {t.at : t \in {t \in tasks : t.state \in {"pending", "running"}}}

Uploading == {u \in Uploads : upload[u].state = "uploading"}
InProgress == {t \in tasks : t.state \in {"running", "staging"}}

Inspect(readable) ==
  /\ worker.pc = "inspect"
  /\ Fails(~readable)
  /\ LET needsWrite == \/ \E at \in WorkTimes : at <= worker.now
                       \/ recovering /\ (Uploading # {} \/ InProgress # {})
     IN  IF readable
         THEN /\ worker' = [worker EXCEPT !.pc = IF needsWrite THEN "write" ELSE "inspected",
                                          !.next = IF needsWrite THEN {} ELSE Earliest(WorkTimes)]
              /\ UNCHANGED <<armedAt, rerun>>
         ELSE CycleFails
  /\ UNCHANGED <<rows, objects, request, staging, recovering, ready, drawn, clock, crashes, lost>>

\* Nothing is due: a recovery is over, and the timer is armed with what was read.
Rests ==
  /\ worker.pc = "inspected"
  /\ recovering' = FALSE /\ ready' = TRUE
  /\ EndCycle(worker.next)
  /\ UNCHANGED <<rows, objects, request, staging, drawn, clock, faults, crashes, lost>>

\* take(BATCH_SIZE).
Taken(S) == {T \in SUBSET S : Cardinality(T) = IF Cardinality(S) < Batch THEN Cardinality(S) ELSE Batch}

\* After a restart no process holds a lease: this one owns the deployment alone.
Lapsed == {t \in tasks : t.state = "running" /\ (recovering \/ t.at <= worker.now)}

Requeued(S) == {Pending(t, worker.now) : t \in S}

\* The deletions after interrupted and expired work has been queued.
Queued(back, cut, unclaimed) ==
  (tasks \ back) \cup Requeued(back)
  \cup {Task(ids + upload[u].key, upload[u].key, FALSE, worker.now) : u \in cut}
  \cup {Task(ids + k, k, TRUE, worker.now) : k \in unclaimed}

Running(t) == [t EXCEPT !.state = "running", !.at = worker.now + LeaseMs, !.lease = ids + MaxKeys + 1]

Leases(due) == {Running(t) : t \in due}

\* A cut session opens again under a new key, unless it has expired.
Reopened(u, key) ==
  IF upload[u].at > worker.now
  THEN [state |-> "open", key |-> key, token |-> 0, at |-> upload[u].at]
  ELSE [NoUpload EXCEPT !.state = "deleted"]

CycleRows(back, cut, unclaimed, expired, grants, due) ==
  /\ tasks' = (Queued(back, cut, unclaimed) \ due) \cup Leases(due)
  /\ file' = [k \in Keys |-> IF k \in unclaimed THEN [state |-> "deleting", at |-> 0] ELSE file[k]]
  /\ granted' = granted \ grants
  /\ \E fresh \in [cut -> (keys + 1)..(keys + Cardinality(cut))] :
       /\ \A u, v \in cut : u # v => fresh[u] # fresh[v]
       /\ upload' = [u \in Uploads |-> IF u \in cut THEN Reopened(u, fresh[u])
                                       ELSE IF u \in expired THEN [NoUpload EXCEPT !.state = "deleted"]
                                            ELSE upload[u]]
  /\ keys' = keys + Cardinality(cut) /\ keys' <= MaxKeys
  /\ ids' = ids + MaxKeys + 1

Past(state) == {u \in Uploads : upload[u].state = state /\ upload[u].at <= worker.now}

\* What a cycle does with the rows it took: the next one follows at once if
\* a batch was full.
CycleApplies(r, lapsed, staged, cut, unclaimed, expired, grants, due) ==
  LET full == recovering /\ \E S \in {lapsed, staged, cut} : Cardinality(S) = Batch
  IN  /\ IF Committed(r) THEN CycleRows(lapsed \cup staged, cut, unclaimed, expired, grants, due)
         ELSE UNCHANGED <<rows, drawn>>
      /\ IF r = "ok"
         THEN /\ recovering' = full
              /\ ready' = (ready \/ ~full)
              /\ worker' = [worker EXCEPT !.pc = "deleting", !.queue = Leases(due),
                   !.immediate = \/ full \/ Cardinality(due) = Batch
                                 \/ ~recovering /\ Cardinality(lapsed) = Batch]
              /\ UNCHANGED <<armedAt, rerun>>
         ELSE CycleFails /\ UNCHANGED <<recovering, ready>>

\* The transaction of a cycle: interrupted work is queued, what expired is
\* deleted, and a batch of due deletions is claimed.
CycleWrite(r) ==
  /\ worker.pc = "write"
  /\ Write(r)
  /\ \E lapsed \in Taken(Lapsed),
        staged \in Taken(IF recovering THEN {t \in tasks : t.state = "staging"} ELSE {}),
        cut \in Taken(IF recovering THEN Uploading ELSE {}),
        unclaimed \in Taken({k \in Keys : file[k].state = "pending" /\ file[k].at <= worker.now}),
        open \in Taken(Past("open")), done \in Taken(Past("committed")),
        grants \in Taken({g \in granted : g.at # 0 /\ g.at <= worker.now}) :
       \E due \in Taken({t \in Queued(lapsed \cup staged, cut, unclaimed) :
                           t.state = "pending" /\ t.at <= worker.now}) :
         CycleApplies(r, lapsed, staged, cut, unclaimed, open \cup done, grants, due)
  /\ UNCHANGED <<objects, request, staging, clock, crashes>>

\* deleteObject.
DeleteObject(t, ok, gone) ==
  /\ worker.pc = "deleting" /\ t \in worker.queue /\ (ok => gone)
  /\ Fails(~ok)
  /\ objects' = IF gone THEN objects \ {t.key} ELSE objects
  /\ worker' = [worker EXCEPT !.pc = IF ok THEN "confirm" ELSE "retry", !.task = t, !.queue = @ \ {t}]
  /\ UNCHANGED <<rows, request, staging, armedAt, rerun, recovering, ready, drawn, clock, crashes, lost>>

\* The row the worker holds the lease of.
Leased == {t \in tasks : t.id = worker.task.id /\ t.state = "running" /\ t.lease = worker.task.lease}

Onward == [worker EXCEPT !.pc = "deleting", !.task = NoTask]

Confirm(r) ==
  /\ worker.pc = "confirm"
  /\ Write(r)
  /\ IF Committed(r) /\ Leased # {}
     THEN /\ tasks' = tasks \ Leased
          /\ file' = IF worker.task.file THEN [file EXCEPT ![worker.task.key] = NoFile] ELSE file
     ELSE UNCHANGED <<tasks, file>>
  /\ worker' = IF r = "ok" THEN Onward ELSE [worker EXCEPT !.pc = "retry"]
  /\ UNCHANGED <<upload, granted, objects, request, staging, armedAt, rerun, recovering, ready, drawn, clock, crashes>>

\* A retry that cannot be recorded ends the cycle: the lease is left to run out.
Retry(r) ==
  /\ worker.pc = "retry"
  /\ Write(r)
  /\ tasks' = IF Committed(r)
              THEN (tasks \ Leased) \cup {Pending(t, clock + RetryMs) : t \in Leased}
              ELSE tasks
  /\ IF r = "ok"
     THEN /\ worker' = Onward
          /\ armedAt' = Armed(clock + RetryMs)
          /\ UNCHANGED rerun
     ELSE CycleFails
  /\ UNCHANGED <<file, upload, granted, objects, request, staging, recovering, ready, drawn, clock, crashes>>

\* scheduleNext.
ScheduleNext(readable) ==
  /\ worker.pc = "deleting" /\ worker.queue = {}
  /\ IF worker.immediate
     THEN readable /\ UNCHANGED faults /\ EndCycle({clock})
     ELSE /\ Fails(~readable)
          /\ IF readable
             THEN worker' = [worker EXCEPT !.pc = "scheduled", !.next = Earliest(WorkTimes)] /\ UNCHANGED <<armedAt, rerun>>
             ELSE CycleFails
  /\ UNCHANGED <<rows, objects, request, staging, recovering, ready, drawn, clock, crashes, lost>>

Scheduled ==
  /\ worker.pc = "scheduled"
  /\ EndCycle(worker.next)
  /\ UNCHANGED <<rows, objects, request, staging, recovering, ready, drawn, clock, faults, crashes, lost>>

-----------------------------------------------------------------------------
(***************************************************************************)
(* The process stops, with every request it served, and starts again.      *)
(***************************************************************************)
Ended(call, none) == IF call.pc = "new" THEN none ELSE [none EXCEPT !.pc = "done"]

Restart ==
  /\ crashes < MaxCrashes
  /\ crashes' = crashes + 1
  /\ request' = [a \in Attempts |-> Ended(request[a], NoRequest)]
  /\ staging' = [b \in Stores |-> Ended(staging[b], NoStaging)]
  /\ worker' = [Idle EXCEPT !.pc = "inspect", !.now = clock]
  /\ armedAt' = {} /\ rerun' = FALSE /\ recovering' = TRUE /\ ready' = FALSE /\ lost' = FALSE
  /\ UNCHANGED <<rows, objects, drawn, clock, faults>>

Tick ==
  /\ clock < MaxClock
  /\ clock' = clock + 1
  /\ UNCHANGED <<rows, objects, request, staging, workerVars, drawn, faults, crashes, lost>>

UploadNext(a) ==
  \/ \E u \in Uploads : Begin(a, u)
  \/ \E r \in Results : Acquire(a, r) \/ Commit(a, r) \/ Record(a, r) \/ Release(a, r)
  \/ Refused(a) \/ Invalid(a)
  \/ \E x, ok \in BOOLEAN : Put(a, x, ok) \/ Discard(a, ok, x)
  \/ \E readable \in BOOLEAN : Prove(a, readable)

StoreNext(b) ==
  \/ \E r \in Results : Stage(b, r) \/ CommitStaged(b, r) \/ AbandonStaging(b, r)
  \/ \E stored, ok \in BOOLEAN : PutStaged(b, stored, ok)

MutationNext ==
  \/ \E u \in Uploads : CreateUploadSession(u)
  \/ \E k \in Keys : Claim(k) \/ Delete(k) \/ \E permanent \in BOOLEAN : CreateUrl(k, permanent)
  \/ \E g \in granted : RevokeGrant(g)

WorkerNext ==
  \/ \E readable \in BOOLEAN : Inspect(readable) \/ ScheduleNext(readable)
  \/ \E r \in Results : CycleWrite(r) \/ Confirm(r) \/ Retry(r)
  \/ \E t \in worker.queue, ok, gone \in BOOLEAN : DeleteObject(t, ok, gone)
  \/ Rests \/ Scheduled

FilesNext ==
  \/ MutationNext
  \/ \E a \in Attempts : UploadNext(a)
  \/ \E b \in Stores : StoreNext(b)
  \/ WorkerNext \/ TimerFires \/ Restart \/ Tick

FilesSpec == FilesInit /\ [][FilesNext]_vars

\* The event loop runs what the worker awaits and fires its timer; time passes.
FairFilesSpec == FilesSpec /\ WF_vars(WorkerNext) /\ WF_vars(TimerFires) /\ WF_vars(Tick)

-----------------------------------------------------------------------------
(***************************************************************************)
(* Properties.                                                             *)
(***************************************************************************)
\* A file that can be read has its bytes: no deletion, of an attempt that
\* failed or of the worker, ever names the object of a file in use.
LiveFilesHaveBytes == \A k \in Keys : file[k].state \in Live => k \in objects

\* No object is forgotten: whatever fails and wherever the process stops, a
\* row still names every object the store holds.
NoOrphans ==
  \A k \in objects :
    \/ file[k].state # "none"
    \/ \E t \in tasks : t.key = k
    \/ \E u \in Uploading : upload[u].key = k

\* A download grant names a claimed file, so that no file with a grant
\* expires as unclaimed and none that is being deleted can be downloaded.
GrantsAreLive == \A g \in granted : file[g.key].state = "active"

\* A file being deleted is in the hands of a queued deletion.
DeletingIsQueued ==
  \A k \in Keys : file[k].state = "deleting" => \E t \in tasks : t.key = k /\ t.file /\ t.state # "staging"

\* An idle worker is armed for the earliest file or deletion there is to
\* take care of, or to try again after a failure, unless the answer of a
\* write was lost.
WorkIsAwaited ==
  LET times == {file[k].at : k \in {k \in Keys : file[k].state = "pending"}}
               \cup {t.at : t \in {t \in tasks : t.state \in {"pending", "running"}}}
  IN  worker.pc = "idle" /\ (times # {} \/ ~ready) /\ ~lost =>
        \E t \in armedAt : t <= clock + RetryMs \/ (ready /\ \A at \in times : t <= at)

\* The worker retries a deletion until the store confirms it, across
\* failures and restarts, and then the file's row disappears.
DeletingEnds == \A k \in Keys : file[k].state = "deleting" ~> file[k].state = "none"
=============================================================================
