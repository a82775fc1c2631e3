----------------------------- MODULE FilesProofs -----------------------------
(***************************************************************************)
(* Proofs about Files: the bytes of a live file are there, no object is    *)
(* forgotten, and grants name claimed files, for any number of sessions,   *)
(* requests, store calls, failures and restarts.                           *)
(***************************************************************************)
EXTENDS FilesDeletions

-----------------------------------------------------------------------------
(***************************************************************************)
(* The cleanup cycle.                                                      *)
(***************************************************************************)
\* A leased row keeps its id and its key.
LEMMA RunningType ==
  ASSUME FilesTypes, NEW t \in TaskRows
  PROVE  /\ Running(t) \in TaskRows /\ Running(t).id = t.id /\ Running(t).key = t.key
         /\ Running(t).state = "running"
<1>1. worker.now + LeaseMs \in Nat /\ ids + MaxKeys + 1 \in Nat
  BY ConstantFacts DEF FilesTypes, WorkerType
<1>2. PICK until \in Nat, lease \in Nat : until = worker.now + LeaseMs /\ lease = ids + MaxKeys + 1
  BY Zenon, <1>1
<1>3. Running(t) = [t EXCEPT !.state = "running", !.at = until, !.lease = lease]
  BY Zenon, <1>2 DEF Running
<1> QED
  BY Zenon, <1>3 DEF TaskRows

\* What a cycle may take: interrupted rows, the sessions of a process that
\* is gone, unclaimed files, and sessions nobody uploads to.
CycleTakes(back, cut, unclaimed, expired) ==
  /\ back \subseteq tasks
  /\ \A t \in back : t.state = "running" \/ (t.state = "staging" /\ recovering)
  /\ cut \subseteq Uploading /\ (cut # {} => recovering)
  /\ unclaimed \subseteq {k \in Keys : file[k].state = "pending"}
  /\ expired \subseteq {u \in Uploads : upload[u].state \in {"open", "committed"}}

\* The keys of the deletions a cycle queues.
NewKeys(cut, unclaimed) == {upload[u].key : u \in cut} \cup unclaimed

\* Where a row of the next table comes from.
ComesFrom(s, t, back) == s.id = t.id /\ s.key = t.key /\ (s = t \/ (s.state # "staging" /\ (t.state = "staging" => t \in back)))

\* The rows a cycle leaves: the old ones under their keys, and the new ones.
TableFacts(T, back, cut, unclaimed) ==
  /\ T \in SUBSET TaskRows
  /\ \A s \in T : \/ \E t \in tasks : ComesFrom(s, t, back)
                  \/ s.key \in NewKeys(cut, unclaimed) /\ s.id = ids + s.key /\ s.state # "staging"
  /\ \A t \in tasks : \E s \in T : s.key = t.key
  /\ \A t \in tasks : t.state = "staging" /\ t \notin back => t \in T
  /\ \A k \in NewKeys(cut, unclaimed) : \E s \in T : s.key = k
  /\ \A s, t \in T : s.id = t.id => s = t

\* Queueing interrupted and expired work keeps every row under its key.
LEMMA QueuedFacts ==
  ASSUME FilesInv, NEW back, NEW cut, NEW unclaimed, NEW expired, CycleTakes(back, cut, unclaimed, expired)
  PROVE  TableFacts(Queued(back, cut, unclaimed), back, cut, unclaimed)
<1> DEFINE Q == Queued(back, cut, unclaimed)
           CutTask(u) == Task(ids + upload[u].key, upload[u].key, FALSE, worker.now)
           FileTask(k) == Task(ids + k, k, TRUE, worker.now)
<1> USE DEF CycleTakes
<1>0. FilesTypes /\ worker.now \in Nat /\ ids \in Nat
  BY Zenon DEF FilesInv, FilesTypes, WorkerType
<1>1. \A t \in back : /\ Pending(t, worker.now) \in TaskRows /\ Pending(t, worker.now).id = t.id
                      /\ Pending(t, worker.now).key = t.key /\ Pending(t, worker.now).state = "pending"
  BY <1>0, PendingType DEF FilesTypes
<1>2. \A u \in cut : u \in Uploads /\ upload[u].key \in Keys /\ file[upload[u].key].state = "none"
  BY Zenon DEF FilesInv, UploadingHasNoFile, Uploading
<1>3. \A k \in Keys : /\ FileTask(k) \in TaskRows /\ FileTask(k).id = ids + k
                      /\ FileTask(k).key = k /\ FileTask(k).state = "pending"
  BY <1>0, ConstantFacts DEF Task, TaskRows
<1>4. \A u \in cut : /\ CutTask(u) \in TaskRows /\ CutTask(u).id = ids + upload[u].key
                     /\ CutTask(u).key = upload[u].key /\ CutTask(u).state = "pending"
  BY <1>0, <1>2, ConstantFacts DEF Task, TaskRows
<1>5. \A u, v \in cut : upload[u].key = upload[v].key => CutTask(u) = CutTask(v)
  BY Zenon
<1>6. Q = (tasks \ back) \cup {Pending(t, worker.now) : t \in back} \cup {CutTask(u) : u \in cut} \cup {FileTask(k) : k \in unclaimed}
  BY Zenon DEF Queued, Requeued
<1> HIDE DEF Q, CutTask, FileTask
<1>7. Q \in SUBSET TaskRows
  BY <1>0, <1>1, <1>3, <1>4, <1>6 DEF FilesTypes
<1>8. ASSUME NEW s \in Q
      PROVE  \/ s \in tasks \ back
             \/ \E t \in back : s = Pending(t, worker.now)
             \/ \E u \in cut : s = CutTask(u)
             \/ \E k \in unclaimed : s = FileTask(k)
  BY Zenon, <1>6
<1>9. \A s \in Q : \/ \E t \in tasks : ComesFrom(s, t, back)
                   \/ s.key \in NewKeys(cut, unclaimed) /\ s.id = ids + s.key /\ s.state # "staging"
  BY SMTT(30), <1>1, <1>3, <1>4, <1>8 DEF ComesFrom, NewKeys
<1>10. (\A t \in tasks : \E s \in Q : s.key = t.key) /\ (\A t \in tasks : t.state = "staging" /\ t \notin back => t \in Q)
  BY Zenon, <1>1, <1>6
<1>11. \A k \in NewKeys(cut, unclaimed) : \E s \in Q : s.key = k
  BY <1>3, <1>4, <1>6 DEF NewKeys
<1>12. ASSUME NEW s \in Q, NEW t \in Q, s.id = t.id PROVE s = t
  <2> DEFINE Old(q) == q \in tasks \ back \/ \E p \in back : q = Pending(p, worker.now)
  <2>1. \A q, p \in tasks : q.id = p.id => q = p
    BY Zenon DEF FilesInv, IdsAgree
  <2>2. \A q \in tasks : q.id \in Nat /\ q.id <= ids
    BY Zenon, <1>0 DEF FilesInv, FilesTypes, TaskRows, IdsAgree
  <2>3. \A q \in Q : Old(q) => q.id \in Nat /\ q.id <= ids
    BY <1>1, <2>2
  <2>4. \A q \in Q : ~Old(q) => q.key \in Keys /\ q.id = ids + q.key
    BY <1>2, <1>3, <1>4, <1>8
  <2>5. \A q \in Q : ~Old(q) => ~(q.id <= ids)
    BY <1>0, <2>4, ConstantFacts
  <2>6. CASE Old(s) /\ Old(t)
    BY <1>1, <1>12, <2>1, <2>6
  <2>7. CASE ~Old(s) /\ ~Old(t)
    <3>1. s.key = t.key
      BY SMTT(30), <1>0, <1>12, <2>4, <2>7, ConstantFacts
    <3>2. \A u \in cut, k \in unclaimed : upload[u].key # k
      BY Zenon, <1>2
    <3> QED
      BY <1>3, <1>4, <1>5, <1>8, <2>7, <3>1, <3>2
  <2> QED
    BY Zenon, <1>12, <2>3, <2>5, <2>6, <2>7
<1> QED
  BY Zenon, <1>7, <1>9, <1>10, <1>11, <1>12 DEF TableFacts, Q

\* So does leasing the due rows.
LEMMA LeasedFacts ==
  ASSUME FilesInv, NEW back, NEW cut, NEW unclaimed, NEW due, NEW Q, TableFacts(Q, back, cut, unclaimed),
         due \subseteq {t \in Q : t.state = "pending"}
  PROVE  TableFacts((Q \ due) \cup Leases(due), back, cut, unclaimed)
<1> DEFINE T == (Q \ due) \cup Leases(due)
<1>0. FilesTypes
  BY Zenon DEF FilesInv
<1>1. \A t \in due : t \in Q /\ t.state = "pending" /\ t \in TaskRows
  BY Zenon DEF TableFacts
<1>2. \A t \in due : /\ Running(t) \in TaskRows /\ Running(t).id = t.id
                     /\ Running(t).key = t.key /\ Running(t).state = "running"
  BY Zenon, <1>0, <1>1, RunningType
<1>3. \A s \in T : \E t \in Q : s.id = t.id /\ s.key = t.key /\ ((s = t /\ t \notin due) \/ (s = Running(t) /\ t \in due))
  BY Zenon, <1>1, <1>2 DEF Leases
<1>4. \A t \in Q : \E s \in T : s.key = t.key
  BY Zenon, <1>2 DEF Leases
<1>5. T \in SUBSET TaskRows
  BY <1>2 DEF Leases, TableFacts
<1>6. \A t \in Q : t.state = "staging" => t \in T
  BY Zenon, <1>1
<1> HIDE DEF T
<1>7. \A s \in T : \/ \E t \in tasks : ComesFrom(s, t, back)
                   \/ s.key \in NewKeys(cut, unclaimed) /\ s.id = ids + s.key /\ s.state # "staging"
  <2> SUFFICES ASSUME NEW s \in T
               PROVE  \/ \E t \in tasks : ComesFrom(s, t, back)
                      \/ s.key \in NewKeys(cut, unclaimed) /\ s.id = ids + s.key /\ s.state # "staging"
    BY Zenon
  <2>1. PICK q \in Q : s.id = q.id /\ s.key = q.key /\ ((s = q /\ q \notin due) \/ (s = Running(q) /\ q \in due))
    BY Zenon, <1>3
  <2>2. s = q \/ (s.state = "running" /\ q.state = "pending")
    BY Zenon, <1>1, <1>2, <2>1
  <2> QED
    BY Zenon, <2>1, <2>2 DEF TableFacts, ComesFrom
<1>8. \A s, t \in T : s.id = t.id => s = t
  BY <1>3 DEF TableFacts
<1> QED
  BY <1>4, <1>5, <1>6, <1>7, <1>8 DEF TableFacts, T

\* The sessions a cycle leaves: as they were, gone, or open under fresh keys.
LEMMA CycleSessions ==
  ASSUME FilesInv, NEW back, NEW cut, NEW unclaimed, NEW expired, NEW grants, NEW due,
         CycleTakes(back, cut, unclaimed, expired), CycleRows(back, cut, unclaimed, expired, grants, due)
  PROVE  /\ keys' \in 0..MaxKeys /\ keys <= keys'
         /\ upload' \in [Uploads -> UploadType]
         /\ \E fresh \in [cut -> Keys] :
              /\ \A u \in cut : keys < fresh[u] /\ fresh[u] <= keys'
              /\ \A u, v \in cut : u # v => fresh[u] # fresh[v]
              /\ \A u \in Uploads :
                   \/ upload'[u] = upload[u] /\ u \notin cut /\ u \notin expired
                   \/ upload'[u].state = "deleted" /\ upload'[u].key = 0 /\ u \in cut \cup expired
                   \/ u \in cut /\ upload'[u].state = "open" /\ upload'[u].key = fresh[u]
<1>0. FilesTypes /\ cut \subseteq Uploads /\ keys \in Nat /\ MaxKeys \in Nat
  BY ConstantFacts DEF FilesInv, FilesTypes, CycleTakes, Uploading
<1>1. PICK c \in Nat : c = Cardinality(cut)
  BY Zenon, <1>0, ConstantFacts
<1>2. keys' = keys + c /\ keys' <= MaxKeys
  BY Zenon, <1>1 DEF CycleRows
<1>3. PICK fresh \in [cut -> (keys + 1)..(keys + c)] :
        /\ \A u, v \in cut : u # v => fresh[u] # fresh[v]
        /\ upload' = [u \in Uploads |-> IF u \in cut THEN Reopened(u, fresh[u])
                                        ELSE IF u \in expired THEN [NoUpload EXCEPT !.state = "deleted"]
                                             ELSE upload[u]]
  BY Zenon, <1>1 DEF CycleRows
<1>4. \A u \in cut : fresh[u] \in Keys /\ fresh[u] \in Nat /\ keys < fresh[u] /\ fresh[u] <= keys'
  BY <1>0, <1>2, <1>3 DEF Keys
<1> DEFINE Gone == [NoUpload EXCEPT !.state = "deleted"]
<1>5. Gone \in UploadType /\ Gone.state = "deleted" /\ Gone.key = 0
  BY Zenon DEF NoUpload, UploadType, UploadStates
<1> HIDE DEF Gone
<1>6. ASSUME NEW u \in cut
      PROVE  \/ Reopened(u, fresh[u]) = Gone
             \/ /\ Reopened(u, fresh[u]) \in UploadType
                /\ Reopened(u, fresh[u]).state = "open" /\ Reopened(u, fresh[u]).key = fresh[u]
  BY Zenon, <1>0, <1>4 DEF Reopened, Gone, FilesTypes, UploadType, UploadStates
<1>7. ASSUME NEW u \in Uploads
      PROVE  /\ upload'[u] \in UploadType
             /\ \/ upload'[u] = upload[u] /\ u \notin cut /\ u \notin expired
                \/ upload'[u].state = "deleted" /\ upload'[u].key = 0 /\ u \in cut \cup expired
                \/ u \in cut /\ upload'[u].state = "open" /\ upload'[u].key = fresh[u]
  <2>1. CASE u \in cut
    BY Zenon, <1>3, <1>5, <1>6, <2>1
  <2>2. CASE u \notin cut /\ u \in expired
    BY Zenon, <1>3, <1>5, <2>2 DEF Gone
  <2>3. CASE u \notin cut /\ u \notin expired
    BY Zenon, <1>0, <1>3, <2>3 DEF FilesTypes
  <2> QED
    BY Zenon, <2>1, <2>2, <2>3
<1>8. upload' \in [Uploads -> UploadType] /\ fresh \in [cut -> Keys]
  BY Zenon, <1>3, <1>4, <1>7
<1>9. keys' \in 0..MaxKeys /\ keys <= keys'
  BY <1>0, <1>2
<1> QED
  BY Zenon, <1>3, <1>4, <1>7, <1>8, <1>9

\* The rows of a cycle that committed keep the invariant.
LEMMA CycleRowsKeep ==
  ASSUME FilesInv, NEW back, NEW cut, NEW unclaimed, NEW expired, NEW grants, NEW due,
         CycleTakes(back, cut, unclaimed, expired), CycleRows(back, cut, unclaimed, expired, grants, due),
         due \subseteq {t \in Queued(back, cut, unclaimed) : t.state = "pending"},
         UNCHANGED <<objects, request, staging, clock>>,
         worker' \in WorkerType, worker'.pc # "confirm", Held' \subseteq Held \cup Leases(due) \cup {NoTask},
         recovering' \in BOOLEAN, ready' \in BOOLEAN, recovering' => ~ready', ready => ready'
  PROVE  FilesInv'
<1> DEFINE New == NewKeys(cut, unclaimed)
           L == Leases(due)
<1>0. FilesTypes /\ NoTask.key = 0 /\ NoTask.id = 0 /\ 0 \notin Keys /\ ids \in Nat /\ keys \in Nat
  BY ConstantFacts DEF FilesInv, FilesTypes, NoTask
<1>1. TableFacts(tasks', back, cut, unclaimed) /\ L \subseteq tasks' /\ \A h \in L : h.state = "running"
  <2>1. TableFacts(Queued(back, cut, unclaimed), back, cut, unclaimed)
    BY Zenon, QueuedFacts
  <2>2. tasks' = (Queued(back, cut, unclaimed) \ due) \cup Leases(due)
    BY Zenon DEF CycleRows
  <2>3. \A t \in due : t \in TaskRows
    BY Zenon, <2>1 DEF TableFacts
  <2> QED
    BY <1>0, <2>1, <2>2, <2>3, LeasedFacts, RunningType DEF Leases
<1>2. PICK fresh \in [cut -> Keys] :
        /\ \A u \in cut : keys < fresh[u] /\ fresh[u] <= keys'
        /\ \A u, v \in cut : u # v => fresh[u] # fresh[v]
        /\ \A u \in Uploads :
             \/ upload'[u] = upload[u] /\ u \notin cut /\ u \notin expired
             \/ upload'[u].state = "deleted" /\ upload'[u].key = 0 /\ u \in cut \cup expired
             \/ u \in cut /\ upload'[u].state = "open" /\ upload'[u].key = fresh[u]
  BY SMTT(30), CycleSessions
<1>3. keys' \in 0..MaxKeys /\ keys' \in Nat /\ keys <= keys' /\ upload' \in [Uploads -> UploadType]
  BY SMTT(30), CycleSessions, ConstantFacts
<1>4. /\ \A k \in unclaimed : k \in Keys /\ file[k].state = "pending"
      /\ \A u \in cut : u \in Uploads /\ upload[u].state = "uploading" /\ upload[u].key \in Keys /\ file[upload[u].key].state = "none"
      /\ \A u \in expired : u \in Uploads /\ upload[u].state \in {"open", "committed"}
      /\ cut # {} => recovering
  BY Zenon DEF CycleTakes, Uploading, FilesInv, UploadingHasNoFile
<1>5. /\ file' \in [Keys -> FileType]
      /\ \A k \in Keys : \/ file'[k] = file[k] /\ k \notin unclaimed
                         \/ file'[k].state = "deleting" /\ k \in unclaimed
  BY Zenon, <1>0 DEF CycleRows, FilesTypes, FileType
<1>6. granted' \subseteq granted /\ ids' = ids + MaxKeys + 1 /\ ids' \in Nat /\ ids <= ids'
  BY <1>0, ConstantFacts DEF CycleRows
<1>7. /\ \A s \in tasks' : \/ \E t \in tasks : ComesFrom(s, t, back)
                           \/ s.key \in New /\ s.id = ids + s.key /\ s.state # "staging"
      /\ \A s, t \in tasks' : s.id = t.id => s = t
      /\ tasks' \in SUBSET TaskRows
  BY Zenon, <1>1 DEF TableFacts
<1>8. \A k \in New : k \in Keys /\ k <= keys /\ file[k].state \in {"none", "pending"}
  BY SMTT(30), <1>4 DEF NewKeys, FilesInv, Drawn
<1>9. \A s \in tasks' : (\E t \in tasks : s.key = t.key) \/ s.key \in New
  BY Zenon, <1>7 DEF ComesFrom
<1> HIDE DEF New, L
<1>10. FilesTypes'
  BY Zenon, <1>0, <1>3, <1>5, <1>6, <1>7 DEF FilesTypes
<1>11. Drawn'
  <2>1. /\ \A k \in Keys : file[k].state # "none" => k <= keys'
        /\ \A k \in objects : k <= keys'
        /\ \A t \in tasks \cup Held : t.key <= keys'
        /\ \A u \in Uploads : upload[u].key <= keys'
        /\ \A b \in Stores : staging[b].key <= keys'
    BY Zenon, <1>3, KeysGrow
  <2>2. \A k \in New : k <= keys'
    BY SMTT(30), <1>0, <1>3, <1>8, ConstantFacts
  <2>3. \A s \in tasks' : s.key <= keys'
    BY Zenon, <1>9, <2>1, <2>2
  <2>4. \A h \in Held' : h.key <= keys'
    BY SMTT(30), <1>0, <1>1, <1>3, <2>1, <2>3 DEF L
  <2>5. \A u \in Uploads : upload'[u].key <= keys'
    BY SMTT(30), <1>2, <1>3, <2>1
  <2>6. \A k \in Keys : file'[k].state # "none" => k <= keys'
    BY Zenon, <1>4, <1>5, <2>1
  <2> QED
    BY Zenon, <2>1, <2>3, <2>4, <2>5, <2>6 DEF Drawn
<1>12. \A c \in Keys : Clean(c) /\ c \notin New => Clean(c)'
  <2> SUFFICES ASSUME NEW c \in Keys, Clean(c), c \notin New PROVE Clean(c)'
    BY Zenon
  <2>1. file'[c].state = "none"
    BY Zenon, <1>4, <1>5 DEF Clean
  <2>2. \A s \in tasks' : s.key # c
    BY Zenon, <1>9 DEF Clean
  <2>3. \A h \in Held' : h.key # c
    BY Zenon, <1>0, <1>1, <2>2 DEF Clean, L
  <2> QED
    BY Zenon, <2>1, <2>2, <2>3 DEF Clean
<1>13. \A u \in Uploads : upload[u].state \in {"open", "uploading"} /\ u \notin cut /\ upload[u].key \in Keys
                          /\ file[upload[u].key].state = "none" => upload[u].key \notin New
  BY SMTT(30), <1>4 DEF FilesInv, SessionKeysDiffer, NewKeys, New
<1>14. OpenIsClean'
  <2> SUFFICES ASSUME NEW u \in Uploads, upload'[u].state = "open"
               PROVE  upload'[u].key \in Keys /\ Clean(upload[u].key)' /\ upload'[u].key \notin objects
    BY Zenon DEF OpenIsClean
  <2>1. CASE upload'[u] = upload[u] /\ u \notin cut
    <3>1. upload[u].key \in Keys /\ Clean(upload[u].key) /\ upload[u].key \notin objects /\ file[upload[u].key].state = "none"
      BY Zenon, <2>1 DEF FilesInv, OpenIsClean, Clean
    <3>2. PICK c \in Keys : c = upload[u].key
      BY Zenon, <3>1
    <3> QED
      BY Zenon, <1>12, <1>13, <2>1, <3>1, <3>2
  <2>2. CASE u \in cut /\ upload'[u].key = fresh[u]
    <3>1. PICK c \in Keys : c = fresh[u]
      BY Zenon, <1>2, <2>2
    <3>2. keys < c /\ c \notin New
      BY SMTT(30), <1>0, <1>2, <1>8, <2>2, <3>1, ConstantFacts
    <3>3. Clean(c) /\ c \notin objects
      BY Zenon, <3>2, FreshKey
    <3> QED
      BY Zenon, <1>12, <2>2, <3>1, <3>2, <3>3
  <2> QED
    BY Zenon, <1>2, <2>1, <2>2
<1>15. UploadingHasNoFile'
  <2>1. \A u \in Uploads : upload'[u].state = "uploading" => upload'[u] = upload[u]
    BY Zenon, <1>2
  <2> QED
    BY SMTT(30), <1>4, <1>5, <2>1 DEF FilesInv, UploadingHasNoFile, Uploading
<1>16. SessionKeysDiffer'
  <2> SUFFICES ASSUME NEW u \in Uploads, NEW v \in Uploads, u # v, upload'[u].state \in {"open", "uploading"},
                      upload'[v].state \in {"open", "uploading"}
               PROVE  upload'[u].key # upload'[v].key
    BY Zenon DEF SessionKeysDiffer
  <2>1. \A w \in Uploads, x \in cut : upload[w].key # fresh[x]
    BY Zenon, <1>2, FreshKey
  <2>2. CASE upload'[u] = upload[u] /\ upload'[v] = upload[v]
    BY Zenon, <2>2 DEF FilesInv, SessionKeysDiffer
  <2> QED
    BY SMTT(30), <1>2, <2>1, <2>2
<1>17. ASSUME NEW x \in Attempts PROVE AttemptOwns(x)'
  <2>1. AttemptOwns(x)
    BY Zenon DEF FilesInv, AttemptsOwn
  <2>2. CASE cut # {}
    <3>1. request[x].pc \in {"new", "acquire", "done"}
      BY Zenon, <1>4, <2>2 DEF FilesInv, RecoversAlone
    <3> QED
      BY Zenon, <2>1, <3>1 DEF AttemptOwns
  <2>3. CASE cut = {}
    <3>1. request[x].id \in Uploads => Owns(x)' = Owns(x) /\ (Owns(x) => upload'[request[x].id] = upload[request[x].id])
      BY Zenon, <1>2, <1>4, <2>3 DEF Owns
    <3>2. request[x].id \in Uploads /\ Owns(x) => upload[request[x].id].key \in Keys /\ upload[request[x].id].key \notin New
      BY Zenon, <1>13, <2>3 DEF FilesInv, UploadingHasNoFile, Uploading, Owns
    <3>3. \A t \in tasks : \E s \in tasks' : s.key = t.key
      BY Zenon, <1>1 DEF TableFacts
    <3> QED
      BY Zenon, <1>12, <2>1, <3>1, <3>2, <3>3 DEF AttemptOwns
  <2> QED
    BY Zenon, <2>2, <2>3
<1>18. RecoversAlone'
  BY Zenon DEF FilesInv, RecoversAlone
<1>19. \A t \in tasks' : t.state = "staging" => t \in tasks
  BY Zenon, <1>7 DEF ComesFrom
<1>20. StagedIsAlone'
  <2> SUFFICES ASSUME NEW t \in tasks', t.state = "staging"
               PROVE  /\ file'[t.key].state = "none"
                      /\ \A s \in tasks' : s.key = t.key => s = t
                      /\ \A h \in Held' : h.key # t.key
                      /\ \A u \in Uploads : upload'[u].state \in {"open", "uploading"} => upload'[u].key # t.key
    BY Zenon DEF StagedIsAlone
  <2>1. /\ t \in tasks /\ t.key \in Keys /\ file[t.key].state = "none"
        /\ \A s \in tasks : s.key = t.key => s = t
        /\ \A h \in Held : h.key # t.key
        /\ \A u \in Uploads : upload[u].state \in {"open", "uploading"} => upload[u].key # t.key
    BY Zenon, <1>7, <1>19 DEF FilesInv, StagedIsAlone, TaskRows
  <2>2. t.key \notin New
    BY SMTT(30), <1>4, <2>1 DEF New, NewKeys
  <2>3. \A s \in tasks' : s.key = t.key => s = t
    BY <1>7, <2>1, <2>2 DEF ComesFrom
  <2>4. \A h \in Held' : h.key # t.key
    BY Zenon, <1>0, <1>1, <2>1, <2>3 DEF L
  <2>5. \A u \in cut : fresh[u] # t.key
    BY Zenon, <1>2, <2>1, FreshKey
  <2> QED
    BY SMTT(30), <1>2, <1>4, <1>5, <2>1, <2>3, <2>4, <2>5
<1>21. StoresOwn'
  <2>1. ASSUME NEW b \in Stores, staging[b].pc \in {"staged", "stored"}
        PROVE  \E t \in tasks' : t.id = staging[b].id /\ t.key = staging[b].key /\ t.state = "staging"
    <3>1. ~recovering
      BY Zenon, <2>1 DEF FilesInv, FilesTypes, RecoversAlone
    <3>2. \A t \in tasks : t.state = "staging" => t \in tasks'
      BY Zenon, <1>1, <3>1 DEF TableFacts, CycleTakes
    <3> QED
      BY Zenon, <2>1, <3>2 DEF FilesInv, StoresOwn
  <2>2. \A b \in Stores : staging[b].id <= ids'
    BY <1>0, <1>6 DEF FilesInv, FilesTypes, StagingType, StoresOwn
  <2> QED
    BY Zenon, <2>1, <2>2 DEF FilesInv, StoresOwn
<1>22. IdsAgree'
  <2>1. \A t \in tasks \cup Held : t.id \in Nat /\ t.id <= ids
    BY <1>0 DEF FilesInv, FilesTypes, Held, TaskRows, WorkerType, IdsAgree
  <2>2. \A s \in tasks' : s.id <= ids'
    <3>1. \A k \in New : ids + k <= ids'
      BY <1>0, <1>6, <1>8, ConstantFacts DEF Keys
    <3>2. \A t \in tasks : t.id <= ids'
      BY <1>0, <1>6, <2>1
    <3> QED
      BY Zenon, <1>7, <3>1, <3>2 DEF ComesFrom
  <2>3. \A h \in Held' : h.id <= ids'
    BY <1>0, <1>1, <1>6, <2>1, <2>2 DEF L
  <2>4. ASSUME NEW h \in Held, NEW s \in tasks', h.id = s.id PROVE h.key = s.key /\ s.state # "staging"
    <3>1. ~(s.key \in New /\ s.id = ids + s.key)
      BY SMTT(30), <1>0, <1>8, <2>1, <2>4, ConstantFacts
    <3> QED
      BY <1>7, <2>4, <3>1 DEF FilesInv, IdsAgree, ComesFrom
  <2>5. \A s \in tasks' : s.id # 0
    BY Zenon, <1>7 DEF TaskRows
  <2>6. ASSUME NEW h \in Held', NEW s \in tasks', h.id = s.id PROVE h.key = s.key /\ s.state # "staging"
    BY Zenon, <1>0, <1>1, <1>7, <2>4, <2>5, <2>6 DEF L
  <2> QED
    BY Zenon, <1>7, <2>2, <2>3, <2>6 DEF IdsAgree
<1>23. DeletionsAreDead'
  <2>1. \A k \in Keys : file'[k].state \in Live => file[k].state \in Live /\ k \notin unclaimed
    BY Zenon, <1>5 DEF Live
  <2>2. \A k \in New : file'[k].state \notin Live
    BY <1>4, <1>8, <2>1 DEF New, NewKeys, Live
  <2>3. \A s \in tasks' : file'[s.key].state \notin Live
    BY Zenon, <1>7, <1>9, <2>1, <2>2 DEF FilesInv, DeletionsAreDead, TaskRows
  <2> QED
    BY Zenon, <1>0, <1>1, <2>1, <2>3 DEF FilesInv, DeletionsAreDead, L
<1>24. ConfirmsDeleted' /\ LiveFilesHaveBytes'
  BY Zenon, <1>5 DEF FilesInv, ConfirmsDeleted, LiveFilesHaveBytes, Live
<1>25. GrantsAreLive'
  BY <1>0, <1>4, <1>5, <1>6 DEF FilesInv, FilesTypes, GrantType, GrantsAreLive
<1>26. NoOrphans'
  <2> SUFFICES ASSUME NEW k \in objects
               PROVE  \/ file'[k].state # "none"
                      \/ \E t \in tasks' : t.key = k
                      \/ \E u \in Uploads : upload'[u].state = "uploading" /\ upload'[u].key = k
    BY Zenon DEF NoOrphans, Uploading
  <2>1. k \in Keys /\ (file[k].state # "none" => file'[k].state # "none")
    BY Zenon, <1>0, <1>5 DEF FilesTypes
  <2>2. (\E t \in tasks : t.key = k) \/ k \in New => \E t \in tasks' : t.key = k
    BY Zenon, <1>1 DEF TableFacts, New
  <2>3. ASSUME NEW u \in Uploading, upload[u].key = k PROVE k \in New \/ upload'[u] = upload[u]
    BY SMTT(30), <1>2, <1>4, <2>3 DEF Uploading, New, NewKeys
  <2> QED
    BY SMTT(30), <2>1, <2>2, <2>3 DEF FilesInv, NoOrphans, Uploading
<1> QED
  BY Zenon, <1>10, <1>11, <1>14, <1>15, <1>16, <1>17, <1>18, <1>20, <1>21, <1>22, <1>23, <1>24, <1>25, <1>26 DEF FilesInv, AttemptsOwn

\* The transaction of a cycle keeps the invariant, whether or not it commits
\* and its answer arrives.
LEMMA CycleWriteKeeps ==
  ASSUME FilesInv, NEW r \in Results, CycleWrite(r)
  PROVE  FilesInv'
<1> USE DEF drawn, rows
<1>0. FilesTypes /\ worker \in WorkerType /\ RecoversAlone
  BY Zenon DEF FilesInv, FilesTypes
<1>i. Idle \in WorkerType /\ Idle.pc = "idle" /\ Idle.queue = {} /\ Idle.task = NoTask
  BY Zenon, IdleType DEF Idle
<1>t. \A S, T : T \in Taken(S) => T \subseteq S
  BY Zenon DEF Taken
<1>1. CASE r = "failed"
  <2>1. UNCHANGED <<rows, objects, request, staging, drawn, clock, recovering, ready>> /\ worker' = Idle
    BY <1>1 DEF CycleWrite, CycleApplies, Committed, CycleFails, EndCycle
  <2>2. worker' \in WorkerType /\ worker'.pc # "confirm" /\ Held' \subseteq Held \cup {NoTask}
    BY Zenon, <1>i, <2>1 DEF Held
  <2> QED
    BY Zenon, <1>0, <2>1, <2>2, WorkerSteps DEF FilesTypes, RecoversAlone
<1>2. CASE r # "failed"
  <2>1. PICK lapsed \in Taken(Lapsed),
             staged \in Taken(IF recovering THEN {t \in tasks : t.state = "staging"} ELSE {}),
             cut \in Taken(IF recovering THEN Uploading ELSE {}),
             unclaimed \in Taken({k \in Keys : file[k].state = "pending" /\ file[k].at <= worker.now}),
             open \in Taken(Past("open")), done \in Taken(Past("committed")),
             grants \in Taken({g \in granted : g.at # 0 /\ g.at <= worker.now}) :
        \E due \in Taken({t \in Queued(lapsed \cup staged, cut, unclaimed) : t.state = "pending" /\ t.at <= worker.now}) :
          CycleApplies(r, lapsed, staged, cut, unclaimed, open \cup done, grants, due)
    BY Zenon DEF CycleWrite
  <2>a. PICK due \in Taken({t \in Queued(lapsed \cup staged, cut, unclaimed) : t.state = "pending" /\ t.at <= worker.now}) :
          CycleApplies(r, lapsed, staged, cut, unclaimed, open \cup done, grants, due)
    BY Zenon, <2>1
  <2> DEFINE full == recovering /\ \E S \in {lapsed, staged, cut} : Cardinality(S) = Batch
  <2>2. /\ CycleRows(lapsed \cup staged, cut, unclaimed, open \cup done, grants, due)
        /\ \/ /\ recovering' = full
              /\ ready' = (ready \/ ~full)
              /\ worker' = [worker EXCEPT !.pc = "deleting", !.queue = Leases(due),
                   !.immediate = \/ full \/ Cardinality(due) = Batch
                                 \/ ~recovering /\ Cardinality(lapsed) = Batch]
           \/ worker' = Idle /\ UNCHANGED <<recovering, ready>>
    BY Zenon, <1>2, <2>a DEF CycleApplies, Committed, CycleFails, EndCycle
  <2>3. due \subseteq {t \in Queued(lapsed \cup staged, cut, unclaimed) : t.state = "pending"}
    BY Zenon, <1>t
  <2>4. CycleTakes(lapsed \cup staged, cut, unclaimed, open \cup done)
    <3>1. lapsed \subseteq Lapsed /\ unclaimed \subseteq {k \in Keys : file[k].state = "pending" /\ file[k].at <= worker.now}
      BY Zenon, <1>t
    <3>2. staged \subseteq (IF recovering THEN {t \in tasks : t.state = "staging"} ELSE {})
      BY Zenon, <1>t
    <3>3. cut \subseteq (IF recovering THEN Uploading ELSE {})
      BY Zenon, <1>t
    <3>4. open \subseteq Past("open") /\ done \subseteq Past("committed")
      BY Zenon, <1>t
    <3> QED
      BY Zenon, <3>1, <3>2, <3>3, <3>4 DEF CycleTakes, Lapsed, Past
  <2>5. UNCHANGED <<objects, request, staging, clock>>
    BY Zenon DEF CycleWrite
  <2>6. Leases(due) \in SUBSET TaskRows
    <3>1. Queued(lapsed \cup staged, cut, unclaimed) \in SUBSET TaskRows
      BY Zenon, <2>4, QueuedFacts DEF TableFacts
    <3> QED
      BY Zenon, <1>0, <2>3, <3>1, RunningType DEF Leases
  <2>7. /\ worker' \in WorkerType /\ worker'.pc # "confirm"
        /\ worker'.queue \subseteq Leases(due) /\ worker'.task \in {worker.task, NoTask}
    <3>1. CASE worker' = Idle
      BY Zenon, <1>i, <3>1
    <3>2. CASE worker' # Idle
      <4>1. PICK i \in BOOLEAN : worker' = [worker EXCEPT !.pc = "deleting", !.queue = Leases(due), !.immediate = i]
        BY Zenon, <2>2, <3>2
      <4> QED
        BY Zenon, <1>0, <2>6, <4>1 DEF WorkerType, WorkerPcs
    <3> QED
      BY Zenon, <3>1, <3>2
  <2>8. Held' \subseteq Held \cup Leases(due) \cup {NoTask}
    BY Zenon, <2>7 DEF Held
  <2>9. recovering' \in BOOLEAN /\ ready' \in BOOLEAN /\ (recovering' => ~ready') /\ (ready => ready')
    <3>1. full => recovering
      BY Zenon
    <3>2. full \in BOOLEAN
      BY Zenon
    <3> HIDE DEF full
    <3>3. recovering \in BOOLEAN /\ ready \in BOOLEAN /\ (recovering => ~ready)
      BY Zenon, <1>0 DEF FilesTypes, RecoversAlone
    <3>4. CASE recovering' = full /\ ready' = (ready \/ ~full)
      BY <3>1, <3>2, <3>3, <3>4, Zenon
    <3>5. CASE UNCHANGED <<recovering, ready>>
      BY Zenon, <3>3, <3>5
    <3> QED
      BY Zenon, <2>2, <3>4, <3>5
  <2> QED
    BY Zenon, <2>2, <2>3, <2>4, <2>5, <2>7, <2>8, <2>9, CycleRowsKeep
<1> QED
  BY Zenon, <1>1, <1>2

-----------------------------------------------------------------------------
(***************************************************************************)
(* Results.                                                                *)
(***************************************************************************)
\* The invariant holds of an empty database and an empty store.
LEMMA FilesInvInit == FilesInit => FilesInv
<1> SUFFICES ASSUME FilesInit PROVE FilesInv
  BY Zenon
<1> USE DEF FilesInit
<1>0. NoTask.key = 0 /\ NoTask.id = 0 /\ 0 \in Nat
  BY Zenon DEF NoTask
<1>1. worker \in WorkerType /\ worker.queue = {} /\ worker.task = NoTask /\ worker.pc = "inspect"
  BY Zenon DEF Idle, WorkerType, WorkerPcs
<1>2. /\ \A k \in Keys : file[k] \in FileType /\ file[k].state = "none"
      /\ \A u \in Uploads : upload[u] \in UploadType /\ upload[u].state = "none" /\ upload[u].key = 0
      /\ \A a \in Attempts : request[a] \in RequestType /\ request[a].pc = "new"
      /\ \A b \in Stores : staging[b] \in StagingType /\ staging[b].pc = "new" /\ staging[b].key = 0 /\ staging[b].id = 0
  BY Zenon DEF NoFile, FileType, NoUpload, UploadType, UploadStates, NoRequest, RequestType, RequestPcs,
     NoStaging, StagingType, StagingPcs
<1>3. FilesTypes
  <2>1. keys \in 0..MaxKeys /\ ids \in Nat /\ clock \in Nat
    BY ConstantFacts
  <2>2. /\ file \in [Keys -> FileType] /\ upload \in [Uploads -> UploadType]
        /\ request \in [Attempts -> RequestType] /\ staging \in [Stores -> StagingType]
    BY Zenon, <1>2
  <2> QED
    BY Zenon, <1>1, <2>1, <2>2 DEF FilesTypes
<1>4. /\ Drawn /\ OpenIsClean /\ UploadingHasNoFile /\ SessionKeysDiffer /\ AttemptsOwn /\ RecoversAlone
      /\ StagedIsAlone /\ StoresOwn /\ IdsAgree
  BY <1>0, <1>1, <1>2 DEF Drawn, OpenIsClean, UploadingHasNoFile, Uploading, SessionKeysDiffer, AttemptsOwn,
     AttemptOwns, RecoversAlone, StagedIsAlone, StoresOwn, IdsAgree, Held
<1>5. DeletionsAreDead /\ ConfirmsDeleted /\ LiveFilesHaveBytes /\ NoOrphans /\ GrantsAreLive
  BY Zenon, <1>1, <1>2 DEF DeletionsAreDead, Held, ConfirmsDeleted, LiveFilesHaveBytes, NoOrphans, GrantsAreLive, Live
<1> QED
  BY Zenon, <1>3, <1>4, <1>5 DEF FilesInv

\* FilesInv is inductive: every step of a request, a store call, a mutation,
\* the cleanup worker or a restart keeps it.
LEMMA FilesInvNext == FilesInv /\ [FilesNext]_vars => FilesInv'
<1> SUFFICES ASSUME FilesInv, [FilesNext]_vars PROVE FilesInv'
  BY Zenon
<1>1. CASE UNCHANGED vars
  <2>1. UNCHANGED <<rows, objects, request, staging, drawn, clock, worker, recovering, ready>>
    BY Zenon, <1>1 DEF vars, workerVars
  <2> QED
    BY Zenon, <2>1, WorkerSteps DEF FilesInv, FilesTypes, RecoversAlone, Held
<1>2. CASE MutationNext
  BY Zenon, <1>2, MutationKeeps
<1>3. ASSUME NEW a \in Attempts, UploadNext(a) PROVE FilesInv'
  BY Zenon, <1>3, AttemptMovesKeep, ObjectStepsKeep, AcquireKeeps, CommitKeeps, RecordKeeps, ReleaseKeeps DEF UploadNext
<1>4. ASSUME NEW b \in Stores, StoreNext(b) PROVE FilesInv'
  BY Zenon, <1>4, StageKeeps, CommitStagedKeeps, StagedStepsKeep DEF StoreNext
<1>5. CASE WorkerNext
  BY Zenon, <1>5, WorkerReads, CycleWriteKeeps, DeletesKeep DEF WorkerNext
<1>6. CASE TimerFires \/ Restart \/ Tick
  BY Zenon, <1>6, WorkerReads, RestartKeeps
<1> QED
  BY Zenon, <1>1, <1>2, <1>3, <1>4, <1>5, <1>6 DEF FilesNext

\* The invariant holds in every reachable state.
THEOREM FilesAreConsistent == FilesSpec => []FilesInv
<1>1. FilesInit => FilesInv
  BY Zenon, FilesInvInit
<1>2. FilesInv /\ [FilesNext]_vars => FilesInv'
  BY Zenon, FilesInvNext
<1> QED
  BY <1>1, <1>2, PTL DEF FilesSpec

\* A file that can be read has its bytes, whatever requests overlap, whatever
\* writes and deletions fail, and wherever the process stops.
THEOREM FilesKeepTheirBytes == FilesSpec => []LiveFilesHaveBytes
<1>1. FilesInv => LiveFilesHaveBytes
  BY Zenon DEF FilesInv
<1> QED
  BY <1>1, FilesAreConsistent, PTL

\* Every object in the store is named by a row, so that cleanup can find it:
\* by a file, by a deletion, or by the session it is being uploaded to.
THEOREM ObjectsAreAccountedFor == FilesSpec => []NoOrphans
<1>1. FilesInv => NoOrphans
  BY Zenon DEF FilesInv
<1> QED
  BY <1>1, FilesAreConsistent, PTL

\* A download grant names a claimed file: createUrl claims, delete revokes,
\* and a claimed file does not expire.
THEOREM GrantsNameClaimedFiles == FilesSpec => []GrantsAreLive
<1>1. FilesInv => GrantsAreLive
  BY Zenon DEF FilesInv
<1> QED
  BY <1>1, FilesAreConsistent, PTL
=============================================================================
