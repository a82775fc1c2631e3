--------------------------- MODULE FilesInvariant ---------------------------
(***************************************************************************)
(* The inductive invariant of Files, and that the mutation capability, the *)
(* upload requests, the worker's reads, time and a restart keep it.        *)
(* FilesDeletions adds files.store and the deletion of objects;            *)
(* FilesProofs adds the cleanup cycle and draws the theorems.              *)
(***************************************************************************)
EXTENDS Files, TLAPS

UploadStates == {"none", "open", "uploading", "committed", "deleted"}
RequestPcs == {"new", "acquire", "claimed", "stored", "prove", "discard", "record", "release", "done"}
StagingPcs == {"new", "staged", "stored", "abandon", "done"}
WorkerPcs == {"idle", "inspect", "inspected", "write", "deleting", "confirm", "retry", "scheduled"}
FileType == [state : {"none", "pending", "active", "deleting"}, at : Nat]
UploadType == [state : UploadStates, key : Nat, token : Nat, at : Nat]
GrantType == [key : Keys, at : Nat]
RequestType == [pc : RequestPcs, id : Uploads \cup {0}, key : Nat, since : Nat]
StagingType == [pc : StagingPcs, key : Nat, id : Nat]
TaskRows ==
  [id : Nat \ {0}, key : Keys, file : BOOLEAN, state : {"staging", "pending", "running"}, at : Nat, lease : Nat]
WorkerType ==
  [pc : WorkerPcs, now : Nat, queue : SUBSET TaskRows, task : TaskRows \cup {NoTask}, immediate : BOOLEAN,
   next : SUBSET Nat]

FilesTypes ==
  /\ file \in [Keys -> FileType] /\ upload \in [Uploads -> UploadType]
  /\ tasks \in SUBSET TaskRows /\ granted \in SUBSET GrantType /\ objects \in SUBSET Keys
  /\ request \in [Attempts -> RequestType] /\ staging \in [Stores -> StagingType]
  /\ worker \in WorkerType /\ recovering \in BOOLEAN /\ ready \in BOOLEAN
  /\ keys \in 0..MaxKeys /\ ids \in Nat /\ clock \in Nat

\* What the worker still holds a lease of, or held one of.
Held == worker.queue \cup {worker.task}

\* No deletion names the key, and no file has it.
Clean(k) ==
  /\ file[k].state = "none"
  /\ \A t \in tasks \cup Held : t.key # k

\* Keys not drawn yet are used nowhere.
Drawn ==
  /\ \A k \in Keys : file[k].state # "none" => k <= keys
  /\ \A k \in objects : k <= keys
  /\ \A t \in tasks \cup Held : t.key <= keys
  /\ \A u \in Uploads : upload[u].key <= keys
  /\ \A b \in Stores : staging[b].key <= keys

\* A session is open under a key nothing was done with.
OpenIsClean ==
  \A u \in Uploads : upload[u].state = "open" =>
    upload[u].key \in Keys /\ Clean(upload[u].key) /\ upload[u].key \notin objects

\* A session in use has a key without a file.
UploadingHasNoFile ==
  \A u \in Uploading : /\ upload[u].key \in Keys
                       /\ file[upload[u].key].state = "none"

\* No two sessions share a key.
SessionKeysDiffer ==
  \A u, v \in Uploads :
    u # v /\ {upload[u].state, upload[v].state} \subseteq {"open", "uploading"} => upload[u].key # upload[v].key

\* An attempt owns its session until it is done with it; its key is its own.
AttemptOwns(a) ==
  LET q == request[a]
  IN  /\ q.pc \notin {"new", "done"} => q.id \in Uploads
      /\ q.pc \in {"claimed", "stored", "discard", "record", "release"} => Owns(a)
      /\ q.pc \in {"claimed", "stored", "prove", "discard", "record", "release"} /\ Owns(a) => q.key = upload[q.id].key
      /\ q.pc \in {"claimed", "stored", "prove", "discard", "record"} /\ Owns(a) => Clean(q.key)
      /\ q.pc = "claimed" => q.key \notin objects
      /\ q.pc = "stored" => q.key \in objects
      /\ q.pc = "release" /\ q.key \in objects => \E t \in tasks : t.key = q.key

AttemptsOwn == \A a \in Attempts : AttemptOwns(a)

\* No call is under way while the process recovers.
RecoversAlone ==
  /\ recovering => ~ready
  /\ ~ready => /\ \A a \in Attempts : request[a].pc \in {"new", "acquire", "done"}
               /\ \A b \in Stores : staging[b].pc \in {"new", "done"}

\* A staged key is named by its row alone.
StagedIsAlone ==
  \A t \in tasks : t.state = "staging" =>
    /\ file[t.key].state = "none"
    /\ \A s \in tasks : s.key = t.key => s = t
    /\ \A h \in Held : h.key # t.key
    /\ \A u \in Uploads : upload[u].state \in {"open", "uploading"} => upload[u].key # t.key

\* A store call owns the row it staged.
StoresOwn ==
  /\ \A b \in Stores :
       /\ staging[b].pc \in {"staged", "stored"} =>
            \E t \in tasks : t.id = staging[b].id /\ t.key = staging[b].key /\ t.state = "staging"
       /\ staging[b].pc = "stored" => staging[b].key \in objects
       /\ staging[b].id <= ids
  /\ \A b, c \in Stores :
       b # c /\ {staging[b].pc, staging[c].pc} \subseteq {"staged", "stored", "abandon"} => staging[b].id # staging[c].id

\* Rows have their own ids, and the worker's copies agree with them.
IdsAgree ==
  /\ \A t \in tasks : t.id <= ids
  /\ \A s, t \in tasks : s.id = t.id => s = t
  /\ \A h \in Held : h.id <= ids
  /\ \A h \in Held, t \in tasks : h.id = t.id => h.key = t.key /\ t.state # "staging"

\* What is to be deleted is not in use.
DeletionsAreDead ==
  /\ \A t \in tasks : file[t.key].state \notin Live
  /\ \A h \in Held : h.key \in Keys => file[h.key].state \notin Live

ConfirmsDeleted == worker.pc = "confirm" => worker.task.key \notin objects

FilesInv ==
  /\ FilesTypes /\ Drawn /\ OpenIsClean /\ UploadingHasNoFile /\ SessionKeysDiffer
  /\ AttemptsOwn /\ RecoversAlone /\ StagedIsAlone /\ StoresOwn /\ IdsAgree
  /\ DeletionsAreDead /\ ConfirmsDeleted
  /\ LiveFilesHaveBytes /\ NoOrphans /\ GrantsAreLive

-----------------------------------------------------------------------------
(***************************************************************************)
(* Facts about the constants and the pieces of steps.                      *)
(***************************************************************************)
\* What the assumptions say of the constants.
LEMMA ConstantFacts ==
  /\ MaxKeys \in Nat /\ LeaseMs \in Nat /\ RetryMs \in Nat
  /\ SessionMs \in Nat /\ PendingMs \in Nat /\ GrantMs \in Nat
  /\ \A a \in Attempts : a \in Nat /\ a # 0
  /\ \A k \in Keys : k \in Nat /\ k # 0
  /\ \A S \in SUBSET Uploads : Cardinality(S) \in Nat
BY FilesAssumption DEF Keys

\* The worker's timer comes from the rows.
LEMMA WorkTimesType == FilesTypes => Earliest(WorkTimes) \in SUBSET Nat
BY DEF FilesTypes, WorkTimes, Earliest, TaskRows, FileType, UploadType, GrantType

\* The worker's record between cycles, and at the start of one.
LEMMA IdleType ==
  /\ Idle \in WorkerType
  /\ \A n \in Nat : [Idle EXCEPT !.pc = "inspect", !.now = n] \in WorkerType
BY Zenon DEF Idle, WorkerType, WorkerPcs

\* Becomes moves one attempt and keeps its session and its key.
LEMMA BecomesType ==
  ASSUME NEW a \in Attempts, NEW pc \in RequestPcs, FilesTypes, Becomes(a, pc)
  PROVE  /\ request' \in [Attempts -> RequestType]
         /\ request'[a].pc = pc
         /\ pc # "done" => request'[a].id = request[a].id /\ request'[a].key = request[a].key
         /\ \A x \in Attempts : x # a => request'[x] = request[x]
BY Zenon DEF Becomes, FilesTypes, RequestType, RequestPcs, NoRequest

\* Goes moves one store call and keeps its key and its row.
LEMMA GoesType ==
  ASSUME NEW b \in Stores, NEW pc \in StagingPcs, FilesTypes, Goes(b, pc)
  PROVE  /\ staging' \in [Stores -> StagingType]
         /\ staging'[b].pc = pc
         /\ pc # "done" => staging'[b].id = staging[b].id /\ staging'[b].key = staging[b].key
         /\ pc = "done" => staging'[b].id = 0 /\ staging'[b].key = 0
         /\ \A x \in Stores : x # b => staging'[x] = staging[x]
BY Zenon DEF Goes, FilesTypes, StagingType, StagingPcs, NoStaging

\* A row queued again keeps its id and its key.
LEMMA PendingType ==
  ASSUME NEW t \in TaskRows, NEW at \in Nat
  PROVE  /\ Pending(t, at) \in TaskRows /\ Pending(t, at).id = t.id /\ Pending(t, at).key = t.key
         /\ Pending(t, at).state = "pending"
BY Zenon DEF Pending, TaskRows

\* A step of the worker that writes no row and deletes no object.
LEMMA WorkerSteps ==
  ASSUME FilesInv, UNCHANGED <<rows, objects, request, staging, drawn>>,
         clock' \in Nat, worker' \in WorkerType, recovering' \in BOOLEAN, ready' \in BOOLEAN,
         Held' \subseteq Held \cup {NoTask}, worker'.pc = "confirm" => worker.pc = "confirm" /\ worker'.task = worker.task,
         recovering' => ~ready', ready => ready'
  PROVE  FilesInv'
<1> USE DEF rows, drawn
<1>0. NoTask.key = 0 /\ NoTask.id = 0 /\ 0 \notin Keys
  BY Zenon, ConstantFacts DEF NoTask
<1>1. FilesTypes'
  BY Zenon DEF FilesInv, FilesTypes
<1>2. Drawn'
  BY <1>0, ConstantFacts DEF FilesInv, FilesTypes, Drawn
<1>3. OpenIsClean'
  BY Zenon, <1>0 DEF FilesInv, FilesTypes, OpenIsClean, Clean
<1>4. UploadingHasNoFile' /\ SessionKeysDiffer' /\ StoresOwn' /\ LiveFilesHaveBytes' /\ NoOrphans' /\ GrantsAreLive'
  BY DEF FilesInv, UploadingHasNoFile, SessionKeysDiffer, StoresOwn, LiveFilesHaveBytes, NoOrphans, GrantsAreLive, Uploading
<1>5. AttemptsOwn'
  <2>1. \A k \in Keys : Clean(k) => Clean(k)'
    BY Zenon, <1>0 DEF Clean
  <2>2. \A a \in Attempts : Owns(a)' = Owns(a)
    BY Zenon DEF Owns
  <2> QED
    BY <2>1, <2>2 DEF FilesInv, AttemptsOwn, AttemptOwns, Owns, UploadingHasNoFile, Uploading
<1>6. RecoversAlone'
  BY Zenon DEF FilesInv, RecoversAlone
<1>7. StagedIsAlone'
  BY <1>0 DEF FilesInv, FilesTypes, TaskRows, StagedIsAlone
<1>8. IdsAgree'
  BY <1>0 DEF FilesInv, FilesTypes, TaskRows, IdsAgree
<1>9. DeletionsAreDead' /\ ConfirmsDeleted'
  BY Zenon, <1>0 DEF FilesInv, DeletionsAreDead, ConfirmsDeleted
<1> QED
  BY Zenon, <1>1, <1>2, <1>3, <1>4, <1>5, <1>6, <1>7, <1>8, <1>9 DEF FilesInv

-----------------------------------------------------------------------------
(***************************************************************************)
(* The worker's steps without rows.                                        *)
(***************************************************************************)
\* The steps of the worker that only read, its timer and the clock keep the invariant.
LEMMA WorkerReads ==
  ASSUME FilesInv, \/ \E readable \in BOOLEAN : Inspect(readable) \/ ScheduleNext(readable)
                   \/ Rests \/ Scheduled \/ TimerFires \/ Tick
  PROVE  FilesInv'
<1> USE DEF workerVars, drawn, rows
<1>0. FilesTypes /\ worker.queue \subseteq Held /\ worker.task \in Held /\ RecoversAlone
  BY Zenon DEF FilesInv, Held
<1>i. worker' = Idle => worker' \in WorkerType /\ Held' \subseteq Held \cup {NoTask} /\ worker'.pc # "confirm"
  <2> SUFFICES ASSUME worker' = Idle PROVE worker' \in WorkerType /\ Held' \subseteq Held \cup {NoTask} /\ worker'.pc # "confirm"
    BY Zenon
  <2>1. worker' \in WorkerType
    BY Zenon, IdleType
  <2>2. worker'.pc = "idle" /\ worker'.queue = {} /\ worker'.task = NoTask
    BY Zenon DEF Idle
  <2> QED
    BY Zenon, <2>1, <2>2 DEF Held
<1>1. ASSUME NEW readable \in BOOLEAN, Inspect(readable) PROVE FilesInv'
  <2>1. CASE readable
    <3>1. worker' \in WorkerType
      BY Zenon, <1>0, <1>1, <2>1, WorkTimesType DEF Inspect, FilesTypes, WorkerType, WorkerPcs
    <3>2. worker'.queue = worker.queue /\ worker'.task = worker.task /\ worker'.pc # "confirm"
      BY Zenon, <1>0, <1>1, <2>1 DEF Inspect, FilesTypes, WorkerType
    <3> QED
      BY Zenon, <1>0, <1>1, <3>1, <3>2, WorkerSteps DEF Inspect, FilesTypes, RecoversAlone, Held
  <2>2. CASE ~readable
    BY Zenon, <1>0, <1>i, <1>1, <2>2, WorkerSteps DEF Inspect, CycleFails, EndCycle, FilesTypes, RecoversAlone
  <2> QED
    BY Zenon, <2>1, <2>2
<1>2. ASSUME NEW readable \in BOOLEAN, ScheduleNext(readable) PROVE FilesInv'
  <2>1. CASE worker' = Idle
    BY Zenon, <1>0, <1>i, <1>2, <2>1, WorkerSteps DEF ScheduleNext, FilesTypes, RecoversAlone
  <2>2. CASE worker' = [worker EXCEPT !.pc = "scheduled", !.next = Earliest(WorkTimes)]
    <3>1. worker' \in WorkerType
      BY Zenon, <1>0, <2>2, WorkTimesType DEF FilesTypes, WorkerType, WorkerPcs
    <3>2. worker'.queue = worker.queue /\ worker'.task = worker.task /\ worker'.pc # "confirm"
      BY Zenon, <1>0, <2>2 DEF FilesTypes, WorkerType
    <3> QED
      BY Zenon, <1>0, <1>2, <3>1, <3>2, WorkerSteps DEF ScheduleNext, FilesTypes, RecoversAlone, Held
  <2> QED
    BY Zenon, <1>2, <2>1, <2>2 DEF ScheduleNext, CycleFails, EndCycle
<1>3. CASE Rests
  BY Zenon, <1>0, <1>i, <1>3, WorkerSteps DEF Rests, EndCycle, FilesTypes, RecoversAlone
<1>4. CASE Scheduled
  BY Zenon, <1>0, <1>i, <1>4, WorkerSteps DEF Scheduled, EndCycle, FilesTypes, RecoversAlone
<1>5. CASE TimerFires
  <2>1. CASE worker.pc = "idle"
    <3>1. worker' \in WorkerType
      BY Zenon, <1>0, <1>5, <2>1, IdleType DEF TimerFires, FilesTypes
    <3>2. worker'.queue = {} /\ worker'.task = NoTask /\ worker'.pc # "confirm"
      BY Zenon, <1>5, <2>1 DEF TimerFires, Idle
    <3> QED
      BY Zenon, <1>0, <1>5, <3>1, <3>2, WorkerSteps DEF TimerFires, FilesTypes, RecoversAlone, Held
  <2>2. CASE worker.pc # "idle"
    BY Zenon, <1>0, <1>5, <2>2, WorkerSteps DEF TimerFires, FilesTypes, RecoversAlone, Held
  <2> QED
    BY Zenon, <2>1, <2>2
<1>6. CASE Tick
  BY <1>0, <1>6, WorkerSteps DEF Tick, FilesTypes, RecoversAlone, Held
<1> QED
  BY Zenon, <1>1, <1>2, <1>3, <1>4, <1>5, <1>6

\* The process stops: no call is left, rows and objects stay.
LEMMA RestartKeeps == FilesInv /\ Restart => FilesInv'
<1> SUFFICES ASSUME FilesInv, Restart PROVE FilesInv'
  BY Zenon
<1> USE DEF drawn, rows, Restart
<1>0. NoTask.key = 0 /\ NoTask.id = 0 /\ 0 \notin Keys
  BY Zenon, ConstantFacts DEF NoTask
<1>1. worker' \in WorkerType /\ Held' = {NoTask} /\ worker'.pc = "inspect"
  BY Zenon, IdleType DEF FilesInv, FilesTypes, Held, Idle
<1>2. \A a \in Attempts : request'[a] \in RequestType /\ request'[a].pc \in {"new", "done"}
  BY Zenon DEF Ended, NoRequest, RequestType, RequestPcs
<1>3. \A b \in Stores : staging'[b] \in StagingType /\ staging'[b].pc \in {"new", "done"} /\ staging'[b].key = 0 /\ staging'[b].id = 0
  BY Zenon DEF Ended, NoStaging, StagingType, StagingPcs
<1>4. FilesTypes'
  BY Zenon, <1>1, <1>2, <1>3 DEF FilesInv, FilesTypes
<1>5. Drawn'
  BY <1>0, <1>1, <1>3, ConstantFacts DEF FilesInv, FilesTypes, Drawn
<1>6. OpenIsClean'
  BY Zenon, <1>0, <1>1 DEF FilesInv, OpenIsClean, Clean
<1>7. UploadingHasNoFile' /\ SessionKeysDiffer' /\ LiveFilesHaveBytes' /\ NoOrphans' /\ GrantsAreLive'
  BY DEF FilesInv, UploadingHasNoFile, SessionKeysDiffer, LiveFilesHaveBytes, NoOrphans, GrantsAreLive, Uploading
<1>8. AttemptsOwn' /\ RecoversAlone' /\ StoresOwn'
  BY <1>2, <1>3 DEF FilesInv, FilesTypes, AttemptsOwn, AttemptOwns, RecoversAlone, StoresOwn
<1>9. StagedIsAlone' /\ IdsAgree'
  BY <1>0, <1>1 DEF FilesInv, FilesTypes, TaskRows, StagedIsAlone, IdsAgree
<1>10. DeletionsAreDead' /\ ConfirmsDeleted'
  BY Zenon, <1>0, <1>1 DEF FilesInv, DeletionsAreDead, ConfirmsDeleted
<1> QED
  BY Zenon, <1>4, <1>5, <1>6, <1>7, <1>8, <1>9, <1>10 DEF FilesInv

-----------------------------------------------------------------------------
(***************************************************************************)
(* Uploads.                                                                *)
(***************************************************************************)
\* What an attempt's place gives: its session and its key.
LEMMA AttemptFacts ==
  ASSUME FilesInv, NEW a \in Attempts, request[a].pc \in {"claimed", "stored", "discard", "record", "release"}
  PROVE  /\ request[a].id \in Uploads /\ request[a].id \in Uploading
         /\ upload[request[a].id].state = "uploading" /\ upload[request[a].id].token = a
         /\ upload[request[a].id].key = request[a].key
         /\ request[a].key \in Keys /\ request[a].key <= keys
         /\ file[request[a].key].state = "none"
         /\ request[a].pc # "release" => Clean(request[a].key)
         /\ ready
BY DEF FilesInv, AttemptsOwn, AttemptOwns, Owns, Uploading, UploadingHasNoFile, RecoversAlone, Drawn

\* Two attempts that own sessions have different keys.
LEMMA AttemptKeysDiffer ==
  ASSUME FilesInv, NEW a \in Attempts, NEW x \in Attempts, x # a,
         request[a].id \in Uploads, request[x].id \in Uploads, Owns(a), Owns(x),
         request[a].key = upload[request[a].id].key, request[x].key = upload[request[x].id].key
  PROVE  request[a].key # request[x].key
BY Zenon DEF FilesInv, SessionKeysDiffer, Owns

\* A step that moves one attempt and nothing else.
LEMMA AttemptMoves ==
  ASSUME FilesInv, NEW a \in Attempts,
         UNCHANGED <<rows, objects, staging, worker, recovering, ready, drawn, clock>>,
         request' \in [Attempts -> RequestType], \A x \in Attempts : x # a => request'[x] = request[x],
         AttemptOwns(a)', ready \/ request'[a].pc \in {"new", "acquire", "done"}
  PROVE  FilesInv'
<1> USE DEF rows, drawn
<1>1. FilesTypes'
  BY Zenon DEF FilesInv, FilesTypes
<1>2. Drawn' /\ OpenIsClean' /\ StagedIsAlone' /\ IdsAgree' /\ DeletionsAreDead' /\ ConfirmsDeleted'
  BY DEF FilesInv, Drawn, OpenIsClean, Clean, Held, StagedIsAlone, IdsAgree, DeletionsAreDead, ConfirmsDeleted
<1>3. UploadingHasNoFile' /\ SessionKeysDiffer' /\ StoresOwn' /\ LiveFilesHaveBytes' /\ NoOrphans' /\ GrantsAreLive'
  BY DEF FilesInv, UploadingHasNoFile, SessionKeysDiffer, StoresOwn, LiveFilesHaveBytes, NoOrphans, GrantsAreLive, Uploading
<1>4. ASSUME NEW x \in Attempts, x # a PROVE AttemptOwns(x)'
  BY <1>4 DEF FilesInv, AttemptsOwn, AttemptOwns, Owns, Clean, Held
<1>5. RecoversAlone'
  BY Zenon DEF FilesInv, RecoversAlone
<1> QED
  BY Zenon, <1>1, <1>2, <1>3, <1>4, <1>5 DEF FilesInv, AttemptsOwn

\* A request that begins, is refused, is invalid or reads its proof keeps the
\* invariant.
LEMMA AttemptMovesKeep ==
  ASSUME FilesInv, NEW a \in Attempts,
         \/ \E u \in Uploads : Begin(a, u)
         \/ Refused(a) \/ Invalid(a)
         \/ \E readable \in BOOLEAN : Prove(a, readable)
  PROVE  FilesInv'
<1> USE DEF rows, workerVars, drawn
<1>0. FilesTypes /\ AttemptOwns(a)
  BY Zenon DEF FilesInv, AttemptsOwn
<1>1. ASSUME NEW u \in Uploads, Begin(a, u) PROVE FilesInv'
  <2>1. /\ request' \in [Attempts -> RequestType] /\ request'[a].pc = "acquire" /\ request'[a].id = u
        /\ \A x \in Attempts : x # a => request'[x] = request[x]
    BY Zenon, <1>0, <1>1 DEF Begin, FilesTypes, RequestType, RequestPcs
  <2>2. AttemptOwns(a)'
    BY Zenon, <2>1 DEF AttemptOwns
  <2> QED
    BY Zenon, <1>1, <2>1, <2>2, AttemptMoves DEF Begin
<1>2. CASE Refused(a)
  <2>1. Becomes(a, "done") /\ "done" \in RequestPcs
    BY Zenon, <1>2 DEF Refused, RequestPcs
  <2>2. AttemptOwns(a)' /\ request'[a].pc = "done"
    BY Zenon, <1>0, <2>1, BecomesType DEF AttemptOwns
  <2> QED
    BY Zenon, <1>0, <1>2, <2>1, <2>2, BecomesType, AttemptMoves DEF Refused
<1>3. CASE Invalid(a)
  <2>1. Becomes(a, "release") /\ "release" \in RequestPcs /\ request[a].pc = "claimed"
    BY Zenon, <1>3 DEF Invalid, RequestPcs
  <2>2. AttemptOwns(a)'
    BY Zenon, <1>0, <1>3, <2>1, BecomesType DEF AttemptOwns, Owns, Invalid
  <2> QED
    BY Zenon, <1>0, <1>3, <2>1, <2>2, BecomesType, AttemptMoves, AttemptFacts DEF Invalid
<1>4. ASSUME NEW readable \in BOOLEAN, Prove(a, readable) PROVE FilesInv'
  <2>1. CASE readable /\ Proven(a)
    <3>1. Becomes(a, "discard") /\ "discard" \in RequestPcs /\ request[a].pc = "prove"
      BY Zenon, <1>4, <2>1 DEF Prove, RequestPcs
    <3>2. AttemptOwns(a)'
      BY Zenon, <1>0, <1>4, <2>1, <3>1, BecomesType DEF AttemptOwns, Owns, Proven, Prove, Clean, Held
    <3>3. ready
      BY Zenon, <3>1 DEF FilesInv, FilesTypes, RecoversAlone
    <3> QED
      BY Zenon, <1>0, <1>4, <3>1, <3>2, <3>3, BecomesType, AttemptMoves DEF Prove
  <2>2. CASE ~(readable /\ Proven(a))
    <3>1. Becomes(a, "done") /\ "done" \in RequestPcs
      BY Zenon, <1>4, <2>2 DEF Prove, RequestPcs
    <3>2. AttemptOwns(a)' /\ request'[a].pc = "done"
      BY Zenon, <1>0, <3>1, BecomesType DEF AttemptOwns
    <3> QED
      BY Zenon, <1>0, <1>4, <3>1, <3>2, BecomesType, AttemptMoves DEF Prove
  <2> QED
    BY Zenon, <2>1, <2>2
<1> QED
  BY Zenon, <1>1, <1>2, <1>3, <1>4

\* Storing and discarding touch the attempt's own object.
LEMMA ObjectStepsKeep ==
  ASSUME FilesInv, NEW a \in Attempts, \E x, ok \in BOOLEAN : Put(a, x, ok) \/ Discard(a, ok, x)
  PROVE  FilesInv'
<1> USE DEF rows, workerVars, drawn
<1> DEFINE k == request[a].key
<1>1. PICK x \in BOOLEAN, ok \in BOOLEAN : Put(a, x, ok) \/ Discard(a, ok, x)
  BY Zenon
<1>2. FilesTypes /\ request[a].pc \in {"claimed", "discard"}
  BY Zenon, <1>1 DEF FilesInv, Put, Discard
<1>3. PICK pc \in RequestPcs :
        /\ Becomes(a, pc)
        /\ pc \in {"stored", "discard", "release", "record"}
        /\ pc = "stored" => k \in objects'
        /\ pc = "release" => k \notin objects'
  BY Zenon, <1>1, <1>2 DEF Put, Discard, RequestPcs
<1>4. /\ UNCHANGED <<rows, staging, worker, recovering, ready, drawn, clock>>
      /\ objects' \subseteq objects \cup {k} /\ objects \subseteq objects' \cup {k}
  BY Zenon, <1>1 DEF Put, Discard
<1>5. /\ k \in Keys /\ k <= keys /\ file[k].state = "none" /\ Clean(k) /\ ready
      /\ request[a].id \in Uploads /\ Owns(a) /\ upload[request[a].id].key = k
  BY Zenon, <1>2, AttemptFacts DEF Owns
<1>6. /\ request' \in [Attempts -> RequestType] /\ request'[a].pc = pc
      /\ request'[a].id = request[a].id /\ request'[a].key = k
      /\ \A y \in Attempts : y # a => request'[y] = request[y]
  BY Zenon, <1>2, <1>3, BecomesType
<1> HIDE DEF k
<1>7. FilesTypes'
  BY Zenon, <1>2, <1>4, <1>5, <1>6 DEF FilesTypes
<1>8. Drawn' /\ StagedIsAlone' /\ IdsAgree' /\ DeletionsAreDead'
  BY Zenon, <1>4, <1>5 DEF FilesInv, Drawn, Held, StagedIsAlone, IdsAgree, DeletionsAreDead
<1>9. OpenIsClean' /\ UploadingHasNoFile' /\ SessionKeysDiffer' /\ GrantsAreLive'
  BY <1>4, <1>5 DEF FilesInv, OpenIsClean, Clean, Held, UploadingHasNoFile, Uploading, SessionKeysDiffer, Owns, GrantsAreLive
<1>10. AttemptOwns(a)'
  BY Zenon, <1>3, <1>4, <1>5, <1>6 DEF AttemptOwns, Owns, Clean, Held
<1>11. ASSUME NEW y \in Attempts, y # a PROVE AttemptOwns(y)'
  <2>1. AttemptOwns(y) /\ (Owns(y)' = Owns(y)) /\ (\A c \in Keys : Clean(c)' = Clean(c))
    BY Zenon, <1>4, <1>6, <1>11 DEF FilesInv, AttemptsOwn, Owns, Clean, Held
  <2>2. request[y].pc \in {"claimed", "stored", "release"} => request[y].key # k
    BY Zenon, <1>5, <1>11, <2>1, AttemptKeysDiffer DEF AttemptOwns, k
  <2>3. Owns(y) /\ request[y].id \in Uploads => upload[request[y].id].key \in Keys
    BY Zenon DEF FilesInv, Owns, UploadingHasNoFile, Uploading
  <2> QED
    BY Zenon, <1>4, <1>6, <1>11, <2>1, <2>2, <2>3 DEF AttemptOwns
<1>12. RecoversAlone'
  BY Zenon, <1>4, <1>5 DEF FilesInv, RecoversAlone
<1>13. StoresOwn'
  BY <1>2, <1>4, <1>5 DEF FilesInv, StoresOwn, Clean
<1>14. ConfirmsDeleted' /\ LiveFilesHaveBytes'
  BY Zenon, <1>4, <1>5 DEF FilesInv, ConfirmsDeleted, Clean, Held, LiveFilesHaveBytes, Live
<1>15. NoOrphans'
  BY SMTT(30), <1>4, <1>5 DEF FilesInv, NoOrphans, Uploading, Owns
<1> QED
  BY Zenon, <1>7, <1>8, <1>9, <1>10, <1>11, <1>12, <1>13, <1>14, <1>15 DEF FilesInv, AttemptsOwn

\* Claiming an open session: its key is clean, and the attempt owns it.
LEMMA AcquireKeeps ==
  ASSUME FilesInv, NEW a \in Attempts, NEW r \in Results, Acquire(a, r)
  PROVE  FilesInv'
<1> USE DEF workerVars, drawn, Acquire
<1> DEFINE u == request[a].id
           k == upload[u].key
<1>0. FilesTypes /\ AttemptOwns(a) /\ "done" \in RequestPcs /\ "claimed" \in RequestPcs
  BY Zenon DEF FilesInv, AttemptsOwn, RequestPcs
<1>1. CASE r = "failed"
  <2>1. Becomes(a, "done") /\ UNCHANGED <<rows, objects, staging, worker, recovering, ready, drawn, clock>>
    BY Zenon, <1>1 DEF Committed, rows
  <2>2. AttemptOwns(a)' /\ request'[a].pc = "done"
    BY Zenon, <1>0, <2>1, BecomesType DEF AttemptOwns
  <2> QED
    BY Zenon, <1>0, <2>1, <2>2, BecomesType, AttemptMoves
<1>2. CASE r # "failed"
  <2>1. /\ u \in Uploads /\ upload[u].state = "open" /\ ready
        /\ k \in Keys /\ Clean(k) /\ k \notin objects
    BY Zenon, <1>0 DEF AttemptOwns, FilesInv, OpenIsClean
  <2>2. /\ UNCHANGED <<file, tasks, granted, objects, staging, worker, recovering, ready, drawn, clock>>
        /\ upload' = [upload EXCEPT ![u].state = "uploading", ![u].token = a]
    BY Zenon, <1>2 DEF Committed
  <2>3. /\ upload' \in [Uploads -> UploadType]
        /\ upload'[u].state = "uploading" /\ upload'[u].token = a /\ upload'[u].key = k
        /\ \A v \in Uploads : v # u => upload'[v] = upload[v]
    BY <1>0, <2>1, <2>2, ConstantFacts DEF FilesTypes, UploadType, UploadStates
  <2>4. /\ request' \in [Attempts -> RequestType]
        /\ \A x \in Attempts : x # a => request'[x] = request[x]
        /\ \/ request'[a].pc = "done"
           \/ request'[a].pc = "claimed" /\ request'[a].id = u /\ request'[a].key = k
    <3>1. CASE r = "ok"
      BY <1>0, <2>1, <3>1 DEF FilesTypes, RequestType, RequestPcs, UploadType
    <3>2. CASE r # "ok"
      BY Zenon, <1>0, <3>2, BecomesType
    <3> QED
      BY Zenon, <3>1, <3>2
  <2> HIDE DEF u, k, Acquire
  <2>5. FilesTypes'
    BY Zenon, <1>0, <2>2, <2>3, <2>4 DEF FilesTypes
  <2>6. Drawn' /\ OpenIsClean'
    BY <2>1, <2>2, <2>3 DEF FilesInv, Drawn, OpenIsClean, Clean, Held, k
  <2>7. UploadingHasNoFile' /\ SessionKeysDiffer'
    BY <2>1, <2>2, <2>3 DEF FilesInv, UploadingHasNoFile, Uploading, SessionKeysDiffer, Clean, k
  <2>8. AttemptOwns(a)'
    BY <2>1, <2>2, <2>3, <2>4 DEF AttemptOwns, Owns, Clean, Held
  <2>9. ASSUME NEW x \in Attempts, x # a PROVE AttemptOwns(x)'
    <3>1. AttemptOwns(x)
      BY Zenon DEF FilesInv, AttemptsOwn
    <3>2. request[x].id \in Uploads => Owns(x)' = Owns(x) /\ (Owns(x) => upload'[request[x].id] = upload[request[x].id])
      BY Zenon, <2>1, <2>3, <2>4, <2>9 DEF Owns
    <3>3. \A c \in Keys : Clean(c)' = Clean(c)
      BY Zenon, <2>2 DEF Clean, Held
    <3>4. request[x].id \in Uploads /\ Owns(x) => upload[request[x].id].key \in Keys
      BY Zenon DEF FilesInv, UploadingHasNoFile, Uploading, Owns
    <3> QED
      BY Zenon, <2>2, <2>4, <2>9, <3>1, <3>2, <3>3, <3>4 DEF AttemptOwns
  <2>10. RecoversAlone'
    BY Zenon, <2>1, <2>2 DEF FilesInv, RecoversAlone
  <2>11. StagedIsAlone'
    BY <2>1, <2>2, <2>3 DEF FilesInv, StagedIsAlone, Held, Clean
  <2>12. StoresOwn' /\ IdsAgree' /\ DeletionsAreDead' /\ ConfirmsDeleted' /\ LiveFilesHaveBytes' /\ GrantsAreLive'
    BY Zenon, <2>2 DEF FilesInv, StoresOwn, IdsAgree, Held, DeletionsAreDead, ConfirmsDeleted, LiveFilesHaveBytes, GrantsAreLive
  <2>13. NoOrphans'
    BY Zenon, <2>1, <2>2, <2>3 DEF FilesInv, NoOrphans, Uploading
  <2> QED
    BY Zenon, <2>5, <2>6, <2>7, <2>8, <2>9, <2>10, <2>11, <2>12, <2>13 DEF FilesInv, AttemptsOwn
<1> QED
  BY Zenon, <1>1, <1>2

\* The metadata commit turns the stored object into a pending file.
LEMMA CommitKeeps ==
  ASSUME FilesInv, NEW a \in Attempts, NEW r \in Results, Commit(a, r)
  PROVE  FilesInv'
<1> USE DEF workerVars, drawn
<1> DEFINE u == request[a].id
           k == request[a].key
<1>0. FilesTypes /\ AttemptOwns(a) /\ request[a].pc = "stored" /\ "done" \in RequestPcs /\ "prove" \in RequestPcs
  BY Zenon DEF FilesInv, AttemptsOwn, RequestPcs, Commit
<1>1. /\ u \in Uploads /\ upload[u].state = "uploading" /\ upload[u].token = a /\ upload[u].key = k /\ Owns(a)
      /\ k \in Keys /\ k <= keys /\ Clean(k) /\ k \in objects /\ ready
  BY Zenon, <1>0, AttemptFacts DEF AttemptOwns, Owns
<1>2. CASE r = "failed"
  <2>1. Becomes(a, "prove") /\ UNCHANGED <<rows, objects, staging, worker, recovering, ready, drawn, clock>>
    BY Zenon, <1>2 DEF Commit, Committed, rows
  <2>2. AttemptOwns(a)'
    BY Zenon, <1>0, <1>1, <2>1, BecomesType DEF AttemptOwns, Owns, Clean, Held, rows
  <2> QED
    BY Zenon, <1>0, <1>1, <2>1, <2>2, BecomesType, AttemptMoves
<1>3. CASE r # "failed"
  <2>1. /\ UNCHANGED <<tasks, granted, objects, staging, worker, recovering, ready, drawn, clock>>
        /\ file' = [file EXCEPT ![k] = [state |-> "pending", at |-> clock + PendingMs]]
        /\ upload' = [upload EXCEPT ![u].state = "committed", ![u].token = 0]
        /\ \E pc \in {"done", "prove"} : Becomes(a, pc)
    BY Zenon, <1>1, <1>3 DEF Commit, Committed
  <2>2. /\ file' \in [Keys -> FileType] /\ file'[k].state = "pending"
        /\ \A c \in Keys : c # k => file'[c] = file[c]
    BY <1>0, <1>1, <2>1, ConstantFacts DEF FilesTypes, FileType
  <2>3. /\ upload' \in [Uploads -> UploadType]
        /\ upload'[u].state = "committed" /\ upload'[u].key = k
        /\ \A v \in Uploads : v # u => upload'[v] = upload[v]
    BY <1>0, <1>1, <2>1 DEF FilesTypes, UploadType, UploadStates
  <2>4. /\ request' \in [Attempts -> RequestType]
        /\ \A x \in Attempts : x # a => request'[x] = request[x]
        /\ request'[a].pc = "done" \/ (request'[a].pc = "prove" /\ request'[a].id = u)
    BY Zenon, <1>0, <2>1, BecomesType
  <2> HIDE DEF u, k
  <2>5. FilesTypes'
    BY Zenon, <1>0, <2>1, <2>2, <2>3, <2>4 DEF FilesTypes
  <2>6. Drawn'
    BY Zenon, <1>1, <2>1, <2>2, <2>3 DEF FilesInv, Drawn, Held
  <2>7. OpenIsClean' /\ UploadingHasNoFile' /\ SessionKeysDiffer'
    BY <1>1, <2>1, <2>2, <2>3
    DEF FilesInv, OpenIsClean, Clean, Held, UploadingHasNoFile, Uploading, SessionKeysDiffer
  <2>8. AttemptOwns(a)'
    BY Zenon, <1>1, <2>3, <2>4 DEF AttemptOwns, Owns
  <2>9. ASSUME NEW x \in Attempts, x # a PROVE AttemptOwns(x)'
    <3>1. AttemptOwns(x)
      BY Zenon DEF FilesInv, AttemptsOwn
    <3>2. request[x].id \in Uploads => Owns(x)' = Owns(x) /\ (Owns(x) => upload'[request[x].id] = upload[request[x].id])
      BY <1>1, <2>3, <2>4, <2>9 DEF Owns
    <3>3. \A c \in Keys : c # k => Clean(c)' = Clean(c)
      BY Zenon, <2>1, <2>2 DEF Clean, Held
    <3>4. request[x].id \in Uploads /\ Owns(x) => upload[request[x].id].key \in Keys
      BY Zenon DEF FilesInv, UploadingHasNoFile, Uploading, Owns
    <3>5. request[x].id \in Uploads /\ Owns(x) /\ request[x].key = upload[request[x].id].key => request[x].key # k
      BY Zenon, <1>1, <2>9, AttemptKeysDiffer DEF k, u
    <3> QED
      BY Zenon, <2>1, <2>4, <2>9, <3>1, <3>2, <3>3, <3>4, <3>5 DEF AttemptOwns
  <2>10. RecoversAlone'
    BY Zenon, <1>1, <2>1 DEF FilesInv, RecoversAlone
  <2>11. StagedIsAlone' /\ DeletionsAreDead'
    BY <1>0, <1>1, <2>1, <2>2, <2>3 DEF FilesInv, FilesTypes, TaskRows, StagedIsAlone, DeletionsAreDead, Held, Clean
  <2>12. StoresOwn' /\ IdsAgree' /\ ConfirmsDeleted'
    BY Zenon, <2>1 DEF FilesInv, StoresOwn, IdsAgree, Held, ConfirmsDeleted
  <2>13. LiveFilesHaveBytes' /\ GrantsAreLive'
    BY Zenon, <1>0, <1>1, <2>1, <2>2 DEF FilesInv, FilesTypes, GrantType, LiveFilesHaveBytes, GrantsAreLive, Clean
  <2>14. NoOrphans'
    BY <1>0, <1>1, <2>1, <2>2, <2>3 DEF FilesInv, FilesTypes, NoOrphans, Uploading
  <2> QED
    BY Zenon, <2>5, <2>6, <2>7, <2>8, <2>9, <2>10, <2>11, <2>12, <2>13, <2>14 DEF FilesInv, AttemptsOwn
<1> QED
  BY Zenon, <1>2, <1>3

\* Another attempt keeps what it owns when neither its session nor its key
\* is touched.
LEMMA OthersOwn ==
  ASSUME FilesInv, NEW x \in Attempts, request'[x] = request[x],
         request[x].id \in Uploads /\ request[x].pc \notin {"new", "acquire", "done"} =>
           /\ Owns(x)' = Owns(x)
           /\ Owns(x) => upload'[request[x].id] = upload[request[x].id],
         \A c \in Keys : Owns(x) /\ c = request[x].key /\ c = upload[request[x].id].key =>
           (Clean(c) => Clean(c)') /\ (c \in objects <=> c \in objects'),
         \A t \in tasks : request[x].pc = "release" /\ t.key = request[x].key => \E s \in tasks' : s.key = t.key
  PROVE  AttemptOwns(x)'
<1>1. AttemptOwns(x)
  BY Zenon DEF FilesInv, AttemptsOwn
<1>2. request[x].id \in Uploads /\ Owns(x) => upload[request[x].id].key \in Keys
  BY Zenon DEF FilesInv, UploadingHasNoFile, Uploading, Owns
<1> QED
  BY Zenon, <1>1, <1>2 DEF AttemptOwns

\* The deletion of a failed upload is recorded under its key, which no one
\* else has.
LEMMA RecordKeeps ==
  ASSUME FilesInv, NEW a \in Attempts, NEW r \in Results, Record(a, r)
  PROVE  FilesInv'
<1> USE DEF workerVars, drawn
<1> DEFINE u == request[a].id
           k == request[a].key
           new == Task(ids + 1, k, FALSE, clock)
<1>0. /\ FilesTypes /\ AttemptOwns(a) /\ request[a].pc = "record"
      /\ "done" \in RequestPcs /\ "release" \in RequestPcs
  BY Zenon DEF FilesInv, AttemptsOwn, RequestPcs, Record
<1>1. /\ u \in Uploads /\ upload[u].state = "uploading" /\ upload[u].token = a /\ upload[u].key = k /\ Owns(a)
      /\ k \in Keys /\ k <= keys /\ Clean(k) /\ ready
  BY Zenon, <1>0, AttemptFacts DEF Owns
<1>2. CASE r = "failed"
  <2>1. Becomes(a, "done") /\ UNCHANGED <<rows, objects, staging, worker, recovering, ready, drawn, clock>>
    BY Zenon, <1>2 DEF Record, Committed, rows
  <2>2. AttemptOwns(a)'
    BY Zenon, <1>0, <2>1, BecomesType DEF AttemptOwns
  <2> QED
    BY Zenon, <1>0, <1>1, <2>1, <2>2, BecomesType, AttemptMoves
<1>3. CASE r # "failed"
  <2>1. /\ UNCHANGED <<file, upload, granted, objects, staging, worker, recovering, ready, keys, clock>>
        /\ tasks' = tasks \cup {new} /\ ids' = ids + 1
        /\ \E pc \in {"done", "release"} : Becomes(a, pc)
    BY Zenon, <1>3 DEF Record, Committed
  <2>2. new \in TaskRows /\ new.key = k /\ new.id = ids + 1 /\ new.state = "pending"
    BY <1>0, <1>1 DEF FilesTypes, Task, TaskRows
  <2>3. /\ request' \in [Attempts -> RequestType]
        /\ \A x \in Attempts : x # a => request'[x] = request[x]
        /\ request'[a].pc = "done" \/ (request'[a].pc = "release" /\ request'[a].id = u /\ request'[a].key = k)
    BY Zenon, <1>0, <2>1, BecomesType
  <2> HIDE DEF u, k, new
  <2>5. FilesTypes'
    BY <1>0, <2>1, <2>2, <2>3 DEF FilesTypes
  <2>6. Drawn'
    BY Zenon, <1>1, <2>1, <2>2 DEF FilesInv, Drawn, Held
  <2>7. OpenIsClean'
    BY <1>1, <2>1, <2>2 DEF FilesInv, OpenIsClean, Clean, Held, SessionKeysDiffer
  <2>8. UploadingHasNoFile' /\ SessionKeysDiffer' /\ ConfirmsDeleted' /\ LiveFilesHaveBytes' /\ GrantsAreLive'
    BY Zenon, <2>1 DEF FilesInv, UploadingHasNoFile, Uploading, SessionKeysDiffer, ConfirmsDeleted, LiveFilesHaveBytes, GrantsAreLive
  <2>9. AttemptOwns(a)'
    BY Zenon, <1>1, <2>1, <2>2, <2>3 DEF AttemptOwns, Owns
  <2>10. ASSUME NEW x \in Attempts, x # a PROVE AttemptOwns(x)'
    <3>1. Owns(x)' = Owns(x)
      BY Zenon, <2>1, <2>3, <2>10 DEF Owns
    <3>2. \A c \in Keys : c # k /\ Clean(c) => Clean(c)'
      BY Zenon, <2>1, <2>2 DEF Clean, Held
    <3>3. request[x].id \in Uploads /\ Owns(x) /\ request[x].key = upload[request[x].id].key => request[x].key # k
      BY Zenon, <1>1, <2>10, AttemptKeysDiffer DEF k, u
    <3>4. request[x].pc \notin {"new", "done"} => request[x].id \in Uploads
      BY Zenon DEF FilesInv, AttemptsOwn, AttemptOwns
    <3> QED
      BY SMTT(30), <2>1, <2>3, <2>10, <3>1, <3>2, <3>3, <3>4 DEF AttemptOwns, FilesInv, AttemptsOwn, UploadingHasNoFile, Uploading, Owns
  <2>11. RecoversAlone'
    BY Zenon, <1>1, <2>1 DEF FilesInv, RecoversAlone
  <2>12. StagedIsAlone'
    BY SMTT(30), <1>1, <2>1, <2>2 DEF FilesInv, StagedIsAlone, Held, Clean
  <2>13. StoresOwn'
    BY <1>0, <2>1 DEF FilesInv, FilesTypes, StagingType, StoresOwn
  <2>14. IdsAgree'
    BY <1>0, <2>1, <2>2, ConstantFacts DEF FilesInv, FilesTypes, TaskRows, WorkerType, NoTask, IdsAgree, Held
  <2>15. DeletionsAreDead'
    BY Zenon, <1>1, <2>1, <2>2 DEF FilesInv, DeletionsAreDead, Held, Clean, Live
  <2>16. NoOrphans'
    BY Zenon, <2>1 DEF FilesInv, NoOrphans, Uploading
  <2> QED
    BY Zenon, <2>5, <2>6, <2>7, <2>8, <2>9, <2>10, <2>11, <2>12, <2>13, <2>14, <2>15, <2>16 DEF FilesInv, AttemptsOwn
<1> QED
  BY Zenon, <1>2, <1>3

\* A key beyond the drawn ones is used nowhere.
LEMMA FreshKey ==
  ASSUME FilesInv, NEW n \in Keys, keys < n
  PROVE  /\ Clean(n) /\ n \notin objects
         /\ \A v \in Uploads : upload[v].key # n
         /\ \A t \in tasks \cup Held : t.key # n
<1>1. keys \in Nat /\ n \in Nat /\ ~(n <= keys)
  BY ConstantFacts DEF FilesInv, FilesTypes
<1> QED
  BY Zenon, <1>1 DEF FilesInv, FilesTypes, FileType, Drawn, Clean

\* Drawing keys leaves the drawn ones drawn.
LEMMA KeysGrow ==
  ASSUME FilesInv, NEW n \in Nat, keys <= n
  PROVE  /\ \A k \in Keys : file[k].state # "none" => k <= n
         /\ \A k \in objects : k <= n
         /\ \A t \in tasks \cup Held : t.key <= n
         /\ \A u \in Uploads : upload[u].key <= n
         /\ \A b \in Stores : staging[b].key <= n
<1>1. \A m \in Nat : m <= keys => m <= n
  BY DEF FilesInv, FilesTypes
<1>2. /\ \A b \in Stores : staging[b].key \in Nat
      /\ \A v \in Uploads : upload[v].key \in Nat
      /\ \A t \in tasks \cup Held : t.key \in Nat
      /\ Keys \subseteq Nat /\ objects \subseteq Keys
  BY ConstantFacts DEF FilesInv, FilesTypes, StagingType, UploadType, TaskRows, Held, WorkerType, NoTask
<1> QED
  BY Zenon, <1>1, <1>2 DEF FilesInv, Drawn

\* The session opens again under a fresh key; the old one is left to the
\* recorded deletion.
LEMMA ReleaseKeeps ==
  ASSUME FilesInv, NEW a \in Attempts, NEW r \in Results, Release(a, r)
  PROVE  FilesInv'
<1> USE DEF workerVars, drawn
<1> DEFINE u == request[a].id
           k == request[a].key
<1>0. FilesTypes /\ AttemptOwns(a) /\ request[a].pc = "release" /\ Becomes(a, "done") /\ "done" \in RequestPcs
  BY Zenon DEF FilesInv, AttemptsOwn, RequestPcs, Release
<1>1. /\ u \in Uploads /\ upload[u].state = "uploading" /\ upload[u].token = a /\ upload[u].key = k /\ Owns(a)
      /\ k \in Keys /\ ready
      /\ k \in objects => \E t \in tasks : t.key = k
  BY Zenon, <1>0, AttemptFacts DEF Owns, AttemptOwns
<1>2. /\ request' \in [Attempts -> RequestType] /\ request'[a].pc = "done"
      /\ \A x \in Attempts : x # a => request'[x] = request[x]
  BY Zenon, <1>0, BecomesType
<1>3. AttemptOwns(a)'
  BY Zenon, <1>2 DEF AttemptOwns
<1>4. CASE r = "failed"
  <2>1. UNCHANGED <<rows, objects, staging, worker, recovering, ready, drawn, clock>>
    BY Zenon, <1>4 DEF Release, Committed, rows
  <2> QED
    BY Zenon, <1>1, <1>2, <1>3, <2>1, AttemptMoves
<1>5. CASE r # "failed"
  <2>0. PICK n \in Nat : n = keys + 1
    BY <1>0 DEF FilesTypes
  <2>1. /\ UNCHANGED <<file, tasks, granted, objects, staging, worker, recovering, ready, ids, clock>>
        /\ keys < MaxKeys /\ keys' = n
        /\ upload' = [upload EXCEPT ![u].state = "open", ![u].token = 0, ![u].key = n]
    BY Zenon, <1>1, <1>5, <2>0 DEF Release, Committed, DrawKey, Fresh
  <2>2. /\ upload' \in [Uploads -> UploadType]
        /\ upload'[u].state = "open" /\ upload'[u].key = n
        /\ \A v \in Uploads : v # u => upload'[v] = upload[v]
    BY <1>0, <1>1, <2>1 DEF FilesTypes, UploadType, UploadStates
  <2>3. n \in Keys /\ keys' \in 0..MaxKeys /\ keys < n /\ keys <= n
    BY <1>0, <2>0, <2>1, ConstantFacts DEF FilesTypes, Keys
  <2>4. /\ Clean(n) /\ n \notin objects
        /\ \A v \in Uploads : upload[v].key # n
        /\ \A t \in tasks \cup Held : t.key # n
    BY Zenon, <2>3, FreshKey
  <2> HIDE DEF u, k
  <2>5. FilesTypes'
    BY Zenon, <1>0, <1>2, <2>1, <2>2, <2>3 DEF FilesTypes
  <2>6. Drawn'
    BY <2>1, <2>2, <2>3, KeysGrow DEF Drawn, Held
  <2>7. OpenIsClean'
    <3>1. \A c \in Keys : Clean(c) => Clean(c)'
      BY Zenon, <2>1 DEF Clean, Held
    <3> QED
      BY <2>1, <2>2, <2>3, <2>4, <3>1 DEF FilesInv, OpenIsClean
  <2>8. UploadingHasNoFile'
    BY Zenon, <2>1, <2>2 DEF FilesInv, UploadingHasNoFile, Uploading
  <2>9. SessionKeysDiffer'
    BY SMTT(30), <2>2, <2>4 DEF FilesInv, SessionKeysDiffer
  <2>10. ASSUME NEW x \in Attempts, x # a PROVE AttemptOwns(x)'
    <3>1. request[x].id \in Uploads => Owns(x)' = Owns(x) /\ (Owns(x) => upload'[request[x].id] = upload[request[x].id])
      BY <1>1, <1>2, <2>2, <2>10 DEF Owns
    <3>2. \A c \in Keys : Clean(c) => Clean(c)'
      BY Zenon, <2>1 DEF Clean, Held
    <3> QED
      BY Zenon, <1>2, <2>1, <2>10, <3>1, <3>2, OthersOwn
  <2>11. RecoversAlone'
    BY Zenon, <1>1, <2>1 DEF FilesInv, RecoversAlone
  <2>12. StagedIsAlone'
    BY <2>1, <2>2, <2>4 DEF FilesInv, StagedIsAlone, Held
  <2>13. StoresOwn' /\ IdsAgree' /\ DeletionsAreDead' /\ ConfirmsDeleted' /\ LiveFilesHaveBytes' /\ GrantsAreLive'
    BY Zenon, <2>1 DEF FilesInv, StoresOwn, IdsAgree, Held, DeletionsAreDead, ConfirmsDeleted, LiveFilesHaveBytes, GrantsAreLive
  <2>14. NoOrphans'
    BY <1>1, <2>1, <2>2 DEF FilesInv, NoOrphans, Uploading
  <2> QED
    BY Zenon, <1>3, <2>5, <2>6, <2>7, <2>8, <2>9, <2>10, <2>11, <2>12, <2>13, <2>14 DEF FilesInv, AttemptsOwn
<1> QED
  BY Zenon, <1>4, <1>5

-----------------------------------------------------------------------------
(***************************************************************************)
(* The mutation capability.                                                *)
(***************************************************************************)
\* A new session has a fresh key.
LEMMA CreateUploadSessionKeeps ==
  ASSUME FilesInv, NEW u \in Uploads, CreateUploadSession(u)
  PROVE  FilesInv'
<1> USE DEF CreateUploadSession, DrawKey
<1>0. FilesTypes
  BY Zenon DEF FilesInv
<1>1. PICK n \in Nat : n = keys + 1
  BY <1>0 DEF FilesTypes
<1>2. /\ UNCHANGED <<file, tasks, granted, objects, request, staging, worker, recovering, ready, ids, clock>>
      /\ upload[u].state = "none" /\ keys' = n
  BY Zenon, <1>1
<1>3. /\ upload' \in [Uploads -> UploadType]
      /\ upload'[u].state = "open" /\ upload'[u].key = n
      /\ \A v \in Uploads : v # u => upload'[v] = upload[v]
  BY <1>0, <1>1, ConstantFacts DEF FilesTypes, UploadType, UploadStates
<1>4. n \in Keys /\ keys' \in 0..MaxKeys /\ keys < n /\ keys <= n
  BY <1>0, <1>1, ConstantFacts DEF FilesTypes, Keys
<1>5. /\ Clean(n) /\ n \notin objects
      /\ \A v \in Uploads : upload[v].key # n
      /\ \A t \in tasks \cup Held : t.key # n
  BY Zenon, <1>4, FreshKey
<1> HIDE DEF CreateUploadSession
<1>6. FilesTypes'
  BY Zenon, <1>0, <1>2, <1>3, <1>4 DEF FilesTypes
<1>7. Drawn'
  BY <1>2, <1>3, <1>4, KeysGrow DEF Drawn, Held
<1>8. \A c \in Keys : Clean(c) => Clean(c)'
  BY Zenon, <1>2 DEF Clean, Held
<1>9. OpenIsClean'
  BY Zenon, <1>2, <1>3, <1>4, <1>5, <1>8 DEF FilesInv, OpenIsClean
<1>10. UploadingHasNoFile' /\ SessionKeysDiffer'
  BY SMTT(30), <1>2, <1>3, <1>5 DEF FilesInv, UploadingHasNoFile, Uploading, SessionKeysDiffer
<1>11. ASSUME NEW x \in Attempts PROVE AttemptOwns(x)'
  <2>1. request[x].id \in Uploads => Owns(x)' = Owns(x) /\ (Owns(x) => upload'[request[x].id] = upload[request[x].id])
    BY Zenon, <1>2, <1>3 DEF Owns
  <2> QED
    BY Zenon, <1>2, <1>8, <2>1, OthersOwn
<1>12. StagedIsAlone'
  BY <1>2, <1>3, <1>5 DEF FilesInv, StagedIsAlone, Held
<1>13. /\ RecoversAlone' /\ StoresOwn' /\ IdsAgree' /\ DeletionsAreDead' /\ ConfirmsDeleted'
       /\ LiveFilesHaveBytes' /\ GrantsAreLive'
  BY Zenon, <1>2 DEF FilesInv, RecoversAlone, StoresOwn, IdsAgree, Held, DeletionsAreDead, ConfirmsDeleted, LiveFilesHaveBytes, GrantsAreLive
<1>14. NoOrphans'
  BY <1>2, <1>3 DEF FilesInv, NoOrphans, Uploading
<1> QED
  BY Zenon, <1>6, <1>7, <1>9, <1>10, <1>11, <1>12, <1>13, <1>14 DEF FilesInv, AttemptsOwn

\* A live file changes to another state that has a row, no other file does,
\* and a new deletion may name it once it is not live.
LEMMA FileChanges ==
  ASSUME FilesInv, NEW k \in Keys, file[k].state \in Live,
         UNCHANGED <<upload, objects, request, staging, worker, recovering, ready, keys, clock>>,
         file' \in [Keys -> FileType], \A c \in Keys : c # k => file'[c] = file[c],
         file'[k].state # "none", ids' \in Nat, ids <= ids',
         tasks \subseteq tasks', tasks' \in SUBSET TaskRows,
         \A t \in tasks' \ tasks :
           t.key = k /\ t.state # "staging" /\ t.id = ids' /\ ids < ids' /\ file'[k].state \notin Live,
         \A s, t \in tasks' \ tasks : s = t,
         granted' \in SUBSET GrantType, GrantsAreLive'
  PROVE  FilesInv'
<1>0. FilesTypes /\ k <= keys
  BY Zenon DEF FilesInv, Drawn, Live
<1>1. \A t \in tasks' \cup Held : t.id \in Nat
  BY <1>0 DEF FilesTypes, Held, TaskRows, WorkerType, NoTask
<1>2. FilesTypes'
  BY Zenon, <1>0 DEF FilesTypes
<1>3. Drawn'
  BY Zenon, <1>0 DEF FilesInv, Drawn, Held
<1>4. \A c \in Keys : Clean(c) => Clean(c)'
  BY Zenon DEF Clean, Held, Live
<1>5. OpenIsClean' /\ UploadingHasNoFile' /\ SessionKeysDiffer'
  BY <1>4 DEF FilesInv, OpenIsClean, UploadingHasNoFile, Uploading, SessionKeysDiffer, Live
<1>6. ASSUME NEW x \in Attempts PROVE AttemptOwns(x)'
  BY Zenon, <1>4, OthersOwn DEF Owns
<1>7. RecoversAlone' /\ ConfirmsDeleted'
  BY Zenon DEF FilesInv, RecoversAlone, ConfirmsDeleted
<1>8. StagedIsAlone'
  BY <1>0 DEF FilesInv, FilesTypes, TaskRows, StagedIsAlone, Held, Live
<1>9. StoresOwn'
  <2>1. \A b \in Stores : staging[b].id \in Nat
    BY Zenon, <1>0 DEF FilesTypes, StagingType
  <2> QED
    BY <1>0, <2>1 DEF FilesInv, FilesTypes, StoresOwn
<1>10. IdsAgree'
  BY SMTT(30), <1>0, <1>1 DEF FilesInv, FilesTypes, IdsAgree, Held
<1>11. DeletionsAreDead'
  BY Zenon, <1>0 DEF FilesInv, FilesTypes, TaskRows, DeletionsAreDead, Held
<1>12. LiveFilesHaveBytes' /\ NoOrphans'
  BY <1>0 DEF FilesInv, FilesTypes, LiveFilesHaveBytes, NoOrphans, Uploading
<1> QED
  BY Zenon, <1>2, <1>3, <1>5, <1>6, <1>7, <1>8, <1>9, <1>10, <1>11, <1>12 DEF FilesInv, AttemptsOwn

\* The mutation capability keeps the invariant.
LEMMA MutationKeeps == FilesInv /\ MutationNext => FilesInv'
<1> SUFFICES ASSUME FilesInv, MutationNext PROVE FilesInv'
  BY Zenon
<1> USE DEF workerVars, drawn
<1>0. FilesTypes /\ GrantsAreLive /\ ids <= ids /\ "active" \in Live
  BY DEF FilesInv, FilesTypes, Live
<1>1. ASSUME NEW k \in Keys, Claim(k) PROVE FilesInv'
  <2>1. /\ file' \in [Keys -> FileType] /\ file'[k].state = "active"
        /\ \A c \in Keys : c # k => file'[c] = file[c]
    BY Zenon, <1>0, <1>1 DEF Claim, Activated, FilesTypes, FileType
  <2>2. GrantsAreLive'
    BY Zenon, <1>0, <1>1, <2>1 DEF Claim, GrantsAreLive, FilesTypes, GrantType
  <2> QED
    BY Zenon, <1>0, <1>1, <2>1, <2>2, FileChanges DEF Claim, Live, FilesTypes, drawn
<1>2. ASSUME NEW k \in Keys, NEW permanent \in BOOLEAN, CreateUrl(k, permanent) PROVE FilesInv'
  <2>1. /\ file' \in [Keys -> FileType] /\ file'[k].state = "active"
        /\ \A c \in Keys : c # k => file'[c] = file[c]
    BY Zenon, <1>0, <1>2 DEF CreateUrl, Activated, FilesTypes, FileType
  <2>2. granted' \in SUBSET GrantType
    BY <1>0, <1>2, ConstantFacts DEF CreateUrl, FilesTypes, GrantType
  <2>3. GrantsAreLive'
    BY <1>0, <1>2, <2>1 DEF CreateUrl, GrantsAreLive, FilesTypes, GrantType
  <2> QED
    BY Zenon, <1>0, <1>2, <2>1, <2>2, <2>3, FileChanges DEF CreateUrl, FilesTypes
<1>3. ASSUME NEW k \in Keys, Delete(k) PROVE FilesInv'
  <2>1. /\ file' \in [Keys -> FileType] /\ file'[k].state = "deleting"
        /\ \A c \in Keys : c # k => file'[c] = file[c]
    BY Zenon, <1>0, <1>3 DEF Delete, FilesTypes, FileType
  <2> DEFINE new == Task(ids + 1, k, TRUE, clock)
  <2>2. new \in TaskRows /\ new.key = k /\ new.state # "staging" /\ new.id = ids + 1
    BY <1>0 DEF Task, TaskRows, FilesTypes
  <2>6. tasks' = tasks \cup {new}
    BY Zenon, <1>3 DEF Delete
  <2>3. granted' \in SUBSET GrantType /\ GrantsAreLive'
    BY Zenon, <1>0, <1>3, <2>1 DEF Delete, Revoked, GrantsAreLive, FilesTypes, GrantType
  <2>4. ids' = ids + 1 /\ ids' \in Nat /\ ids <= ids' /\ ids < ids'
    BY <1>0, <1>3 DEF Delete, FilesTypes
  <2> HIDE DEF new
  <2>5. tasks \subseteq tasks' /\ tasks' \in SUBSET TaskRows /\ \A t \in tasks' \ tasks : t = new
    BY Zenon, <1>0, <2>2, <2>6 DEF FilesTypes
  <2>7. file[k].state \in Live /\ file'[k].state \notin Live
    BY Zenon, <1>3, <2>1 DEF Delete, Live
  <2>8. UNCHANGED <<upload, objects, request, staging, worker, recovering, ready, keys, clock>>
    BY Zenon, <1>3 DEF Delete
  <2> QED
    BY Zenon, <2>1, <2>2, <2>3, <2>4, <2>5, <2>7, <2>8, FileChanges
<1>4. ASSUME NEW g \in granted, RevokeGrant(g) PROVE FilesInv'
  <2>1. UNCHANGED <<file, upload, tasks, objects, request, staging, worker, recovering, ready, keys, ids, clock>>
        /\ granted' \subseteq granted
    BY Zenon, <1>4 DEF RevokeGrant
  <2>2. FilesTypes' /\ GrantsAreLive'
    BY Zenon, <1>0, <2>1 DEF FilesTypes, GrantsAreLive
  <2>3. AttemptsOwn'
    BY SMTT(30), <2>1 DEF FilesInv, AttemptsOwn, AttemptOwns, Owns, Clean, Held
  <2>4. /\ Drawn' /\ OpenIsClean' /\ UploadingHasNoFile' /\ SessionKeysDiffer' /\ RecoversAlone' /\ StagedIsAlone'
        /\ StoresOwn' /\ IdsAgree' /\ DeletionsAreDead' /\ ConfirmsDeleted' /\ LiveFilesHaveBytes' /\ NoOrphans'
    BY SMTT(30), <2>1 DEF FilesInv, Drawn, OpenIsClean, Clean, Held, UploadingHasNoFile, Uploading, SessionKeysDiffer, RecoversAlone,
       StagedIsAlone, StoresOwn, IdsAgree, DeletionsAreDead, ConfirmsDeleted, LiveFilesHaveBytes, NoOrphans
  <2> QED
    BY Zenon, <2>2, <2>3, <2>4 DEF FilesInv
<1> QED
  BY Zenon, <1>1, <1>2, <1>3, <1>4, CreateUploadSessionKeeps DEF MutationNext
=============================================================================
