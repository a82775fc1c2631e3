---------------------------- MODULE FilesDeletions ----------------------------
(***************************************************************************)
(* Proofs about Files, continued: the calls of files.store, and the        *)
(* deletion of objects, keep the invariant of FilesInvariant.              *)
(***************************************************************************)
EXTENDS FilesInvariant

-----------------------------------------------------------------------------
(***************************************************************************)
(* files.store.                                                            *)
(***************************************************************************)
\* A step of a store call that commits no file: its row may become a
\* deletion, and an object may be stored under a staged key.
LEMMA StoreMoves ==
  ASSUME FilesInv, NEW b \in Stores,
         UNCHANGED <<file, upload, granted, request, worker, recovering, ready, drawn, clock>>,
         staging' \in [Stores -> StagingType], \A x \in Stores : x # b => staging'[x] = staging[x],
         staging'[b].id <= ids, staging'[b].key <= keys,
         \/ staging'[b].id = staging[b].id /\ staging[b].pc \in {"staged", "stored", "abandon"}
         \/ staging'[b].pc = "done",
         ready \/ staging'[b].pc \in {"new", "done"},
         staging'[b].pc \in {"staged", "stored"} =>
            \E t \in tasks' : t.id = staging'[b].id /\ t.key = staging'[b].key /\ t.state = "staging",
         staging'[b].pc = "stored" => staging'[b].key \in objects',
         objects \subseteq objects', objects' \in SUBSET Keys, 
         \A k \in objects' \ objects : \E t \in tasks : t.key = k /\ t.state = "staging",
         tasks' \in SUBSET TaskRows,
         \A t \in tasks : t \in tasks' \/ (t.id = staging[b].id /\ staging[b].pc \in {"staged", "stored", "abandon"}
                                           /\ \E s \in tasks' : s.key = t.key),
         \A s \in tasks' : s \in tasks \/ \E t \in tasks \ tasks' :
           s.id = t.id /\ s.key = t.key /\ t.state = "staging" /\ s.state = "pending",
         \A s, t \in tasks' : s.id = t.id => s = t
  PROVE  FilesInv'
<1> USE DEF drawn
<1>0. FilesTypes
  BY Zenon DEF FilesInv
<1>1. \A s \in tasks' : \E t \in tasks : s.id = t.id /\ s.key = t.key /\ (s = t \/ (t.state = "staging" /\ s.state = "pending"))
  BY Zenon
<1>2. FilesTypes'
  BY Zenon, <1>0 DEF FilesTypes
<1>3. Drawn'
  BY <1>0, <1>1 DEF FilesInv, Drawn, Held
<1>4. \A c \in Keys : Clean(c) => Clean(c)'
  BY <1>1 DEF Clean, Held
<1>5. \A c \in Keys : Clean(c) => (c \in objects <=> c \in objects')
  BY DEF Clean
<1>6. OpenIsClean' /\ UploadingHasNoFile' /\ SessionKeysDiffer'
  BY Zenon, <1>4, <1>5 DEF FilesInv, OpenIsClean, UploadingHasNoFile, Uploading, SessionKeysDiffer
<1>7. ASSUME NEW x \in Attempts PROVE AttemptOwns(x)'
  <2>1. AttemptOwns(x) /\ Owns(x)' = Owns(x)
    BY Zenon DEF FilesInv, AttemptsOwn, Owns
  <2>2. request[x].pc = "release" =>
          /\ upload[request[x].id].state = "uploading" /\ request[x].id \in Uploads
          /\ request[x].key = upload[request[x].id].key
    BY Zenon, <2>1 DEF AttemptOwns, Owns
  <2>3. request[x].pc = "release" /\ request[x].key \in objects' => request[x].key \in objects
    BY <2>2 DEF FilesInv, StagedIsAlone
  <2>4. request[x].id \in Uploads /\ Owns(x) => upload[request[x].id].key \in Keys
    BY Zenon DEF FilesInv, UploadingHasNoFile, Uploading, Owns
  <2> QED
    BY <1>4, <1>5, <2>1, <2>3, <2>4 DEF AttemptOwns
<1>8. RecoversAlone'
  BY Zenon DEF FilesInv, RecoversAlone
<1>9. StagedIsAlone'
  <2>1. \A t \in tasks' : t.state = "staging" => t \in tasks
    BY Zenon
  <2>2. ASSUME NEW t \in tasks', t.state = "staging", NEW s \in tasks', s.key = t.key PROVE s = t
    BY <1>1, <2>1, <2>2 DEF FilesInv, StagedIsAlone
  <2> QED
    BY <2>1, <2>2 DEF FilesInv, StagedIsAlone, Held
<1>10. StoresOwn'
  <2>1. ASSUME NEW x \in Stores, x # b, staging[x].pc \in {"staged", "stored"}
        PROVE  \E t \in tasks' : t.id = staging[x].id /\ t.key = staging[x].key /\ t.state = "staging"
    BY <2>1 DEF FilesInv, StoresOwn
  <2>2. ASSUME NEW x \in Stores, NEW y \in Stores, x # y,
               {staging'[x].pc, staging'[y].pc} \subseteq {"staged", "stored", "abandon"}
        PROVE  staging'[x].id # staging'[y].id
    BY <2>2 DEF FilesInv, StoresOwn
  <2> QED
    BY <2>1, <2>2 DEF FilesInv, StoresOwn
<1>11. IdsAgree'
  BY <1>1 DEF FilesInv, IdsAgree, Held
<1>12. DeletionsAreDead'
  BY <1>1 DEF FilesInv, DeletionsAreDead, Held
<1>13. ConfirmsDeleted'
  BY DEF FilesInv, ConfirmsDeleted, StagedIsAlone, Held
<1>14. LiveFilesHaveBytes' /\ GrantsAreLive'
  BY Zenon DEF FilesInv, LiveFilesHaveBytes, GrantsAreLive
<1>15. NoOrphans'
  BY DEF FilesInv, NoOrphans, Uploading
<1> QED
  BY Zenon, <1>2, <1>3, <1>6, <1>7, <1>8, <1>9, <1>10, <1>11, <1>12, <1>13, <1>14, <1>15 DEF FilesInv, AttemptsOwn

\* The row of a store call.
LEMMA StagedRow ==
  ASSUME FilesInv, NEW b \in Stores, staging[b].pc \in {"staged", "stored"}
  PROVE  /\ staging[b].key \in Keys /\ staging[b].key <= keys /\ ready
         /\ \E t \in tasks : t.id = staging[b].id /\ t.key = staging[b].key /\ t.state = "staging" /\ Staged(b) = {t}
<1>1. PICK t \in tasks : t.id = staging[b].id /\ t.key = staging[b].key /\ t.state = "staging"
  BY Zenon DEF FilesInv, StoresOwn
<1>2. Staged(b) = {t}
  BY Zenon, <1>1 DEF FilesInv, IdsAgree, Staged
<1>3. ready
  BY Zenon DEF FilesInv, FilesTypes, RecoversAlone
<1> QED
  BY Zenon, <1>1, <1>2, <1>3 DEF FilesInv, FilesTypes, TaskRows, Drawn

\* Storing under a staged key and abandoning the row keep the invariant.
LEMMA StagedStepsKeep ==
  ASSUME FilesInv, NEW b \in Stores,
         \/ \E stored, ok \in BOOLEAN : PutStaged(b, stored, ok)
         \/ \E r \in Results : AbandonStaging(b, r)
  PROVE  FilesInv'
<1> USE DEF rows, workerVars, drawn
<1>0. FilesTypes /\ staging[b].id <= ids /\ staging[b].key <= keys /\ 0 <= ids /\ 0 <= keys
  BY DEF FilesInv, FilesTypes, StoresOwn, Drawn
<1>1. ASSUME NEW stored \in BOOLEAN, NEW ok \in BOOLEAN, PutStaged(b, stored, ok) PROVE FilesInv'
  <2>1. PICK pc \in StagingPcs : Goes(b, pc) /\ pc \in {"stored", "abandon"} /\ (pc = "stored" => staging[b].key \in objects')
    BY Zenon, <1>1 DEF PutStaged, StagingPcs
  <2>2. /\ staging[b].pc = "staged" /\ tasks' = tasks
        /\ UNCHANGED <<file, upload, granted, request, worker, recovering, ready, drawn, clock>>
        /\ objects \subseteq objects' /\ objects' \subseteq objects \cup {staging[b].key}
    BY Zenon, <1>1 DEF PutStaged
  <2>3. PICK t \in tasks : t.id = staging[b].id /\ t.key = staging[b].key /\ t.state = "staging"
    BY Zenon, <2>2, StagedRow
  <2>4. /\ staging' \in [Stores -> StagingType] /\ staging'[b].pc = pc
        /\ staging'[b].id = staging[b].id /\ staging'[b].key = staging[b].key
        /\ \A x \in Stores : x # b => staging'[x] = staging[x]
    BY Zenon, <1>0, <2>1, GoesType
  <2>5. objects' \in SUBSET Keys /\ ready
    BY Zenon, <1>0, <2>2, StagedRow DEF FilesTypes
  <2>6. tasks' \in SUBSET TaskRows /\ \A s, y \in tasks' : s.id = y.id => s = y
    BY Zenon, <1>0, <2>2 DEF FilesTypes, FilesInv, IdsAgree
  <2> QED
    BY Zenon, <1>0, <2>1, <2>2, <2>3, <2>4, <2>5, <2>6, StoreMoves
<1>2. ASSUME NEW r \in Results, AbandonStaging(b, r) PROVE FilesInv'
  <2>1. /\ staging[b].pc = "abandon" /\ Goes(b, "done") /\ "done" \in StagingPcs /\ objects' = objects
        /\ UNCHANGED <<file, upload, granted, request, worker, recovering, ready, drawn, clock>>
        /\ tasks' = tasks \/ tasks' = (tasks \ Staged(b)) \cup Abandoned(b)
    BY Zenon, <1>2 DEF AbandonStaging, StagingPcs
  <2>2. /\ staging' \in [Stores -> StagingType] /\ staging'[b].pc = "done"
        /\ staging'[b].id = 0 /\ staging'[b].key = 0
        /\ \A x \in Stores : x # b => staging'[x] = staging[x]
    BY Zenon, <1>0, <2>1, GoesType
  <2>3. \A t \in tasks : /\ Pending(t, clock) \in TaskRows /\ Pending(t, clock).id = t.id
                         /\ Pending(t, clock).key = t.key /\ Pending(t, clock).state = "pending"
    BY Zenon, <1>0, PendingType DEF FilesTypes
  <2>4. /\ \A t \in tasks : t \in tasks' \/ (t \in Staged(b) /\ \E s \in tasks' : s.key = t.key)
        /\ \A s \in tasks' : s \in tasks \/ \E t \in Staged(b) :
             s.id = t.id /\ s.key = t.key /\ t.state = "staging" /\ s.state = "pending"
        /\ tasks' \in SUBSET TaskRows
    BY <1>0, <2>1, <2>3 DEF FilesTypes, Abandoned, Staged
  <2>5. \A s, t \in tasks' : s.id = t.id => s = t
    <3>1. \A s, t \in tasks : s.id = t.id => s = t
      BY Zenon DEF FilesInv, IdsAgree
    <3>2. CASE tasks' = tasks
      BY Zenon, <3>1, <3>2
    <3>3. CASE tasks' = (tasks \ Staged(b)) \cup Abandoned(b)
      <4>1. \A s \in Abandoned(b) : \E t \in Staged(b) : s = Pending(t, clock) /\ s.id = t.id
        BY Zenon, <1>0, <2>3 DEF Abandoned, Staged, FilesTypes
      <4>2. \A s, t \in Staged(b) : s = t
        BY Zenon, <3>1 DEF Staged
      <4> QED
        BY <3>1, <3>3, <4>1, <4>2 DEF Staged
    <3> QED
      BY Zenon, <2>1, <3>2, <3>3
  <2>6. \A s \in tasks' : s \in tasks \/ \E t \in tasks \ tasks' :
          s.id = t.id /\ s.key = t.key /\ t.state = "staging" /\ s.state = "pending"
    <3> SUFFICES ASSUME NEW s \in tasks', s \notin tasks
                 PROVE  \E t \in tasks \ tasks' : s.id = t.id /\ s.key = t.key /\ t.state = "staging" /\ s.state = "pending"
      BY Zenon
    <3>1. PICK t \in Staged(b) : s.id = t.id /\ s.key = t.key /\ t.state = "staging" /\ s.state = "pending"
      BY Zenon, <2>4
    <3>2. t \notin tasks'
      BY Zenon, <2>5, <3>1
    <3> QED
      BY Zenon, <3>1, <3>2 DEF Staged
  <2>7. \A t \in Staged(b) : t.id = staging[b].id
    BY Zenon DEF Staged
  <2>8. objects' \in SUBSET Keys
    BY Zenon, <1>0, <2>1 DEF FilesTypes
  <2> QED
    BY Zenon, <1>0, <2>1, <2>2, <2>4, <2>5, <2>6, <2>7, <2>8, StoreMoves
<1> QED
  BY Zenon, <1>1, <1>2

\* The staging row gives way to the file it named.
LEMMA CommitStagedKeeps ==
  ASSUME FilesInv, NEW b \in Stores, NEW r \in Results, CommitStaged(b, r)
  PROVE  FilesInv'
<1> USE DEF workerVars, drawn
<1> DEFINE k == staging[b].key
<1>0. FilesTypes /\ staging[b].pc = "stored" /\ staging[b].id <= ids /\ 0 <= ids /\ 0 <= keys
  BY DEF FilesInv, FilesTypes, StoresOwn, CommitStaged
<1>1. k \in Keys /\ k <= keys /\ ready /\ k \in objects
  BY Zenon, <1>0, StagedRow DEF FilesInv, StoresOwn
<1>2. PICK row \in tasks : row.id = staging[b].id /\ row.key = k /\ row.state = "staging" /\ Staged(b) = {row}
  BY Zenon, <1>0, StagedRow
<1>3. PICK pc \in StagingPcs : Goes(b, pc) /\ pc \in {"done", "abandon"}
  BY Zenon DEF CommitStaged, StagingPcs
<1>4. /\ staging' \in [Stores -> StagingType] /\ staging'[b].pc = pc
      /\ pc = "abandon" => staging'[b].id = staging[b].id /\ staging'[b].key = k
      /\ staging'[b].id <= ids /\ staging'[b].key <= keys
      /\ \A x \in Stores : x # b => staging'[x] = staging[x]
  BY Zenon, <1>0, <1>1, <1>3, GoesType
<1>5. UNCHANGED <<upload, granted, objects, request, worker, recovering, ready, drawn, clock>>
  BY Zenon DEF CommitStaged
<1>6. CASE r = "failed"
  <2>1. tasks' = tasks /\ file' = file
    BY Zenon, <1>6 DEF CommitStaged, Committed
  <2>2. tasks' \in SUBSET TaskRows /\ objects' \in SUBSET Keys /\ \A s, y \in tasks' : s.id = y.id => s = y
    BY Zenon, <1>0, <1>5, <2>1 DEF FilesTypes, FilesInv, IdsAgree
  <2> QED
    BY Zenon, <1>0, <1>1, <1>3, <1>4, <1>5, <2>1, <2>2, StoreMoves
<1>7. CASE r # "failed"
  <2>1. /\ file' = [file EXCEPT ![k] = [state |-> "pending", at |-> clock + PendingMs]]
        /\ tasks' = tasks \ {row}
    BY Zenon, <1>2, <1>7 DEF CommitStaged, Committed
  <2>2. /\ file' \in [Keys -> FileType] /\ file'[k].state = "pending"
        /\ \A c \in Keys : c # k => file'[c] = file[c]
    BY <1>0, <1>1, <2>1, ConstantFacts DEF FilesTypes, FileType
  <2> HIDE DEF k
  <2>3. /\ file[k].state = "none"
        /\ \A t \in tasks' \cup Held : t.key # k
        /\ \A u \in Uploads : upload[u].state \in {"open", "uploading"} => upload[u].key # k
    BY Zenon, <1>2, <2>1 DEF FilesInv, StagedIsAlone
  <2>4. FilesTypes'
    BY Zenon, <1>0, <1>4, <1>5, <2>1, <2>2 DEF FilesTypes
  <2>5. Drawn'
    BY Zenon, <1>1, <1>4, <1>5, <2>1, <2>2 DEF FilesInv, Drawn, Held
  <2>6. \A c \in Keys : c # k /\ Clean(c) => Clean(c)'
    BY Zenon, <1>5, <2>1, <2>2 DEF Clean, Held
  <2>7. OpenIsClean' /\ UploadingHasNoFile' /\ SessionKeysDiffer'
    BY <1>5, <2>2, <2>3, <2>6 DEF FilesInv, OpenIsClean, UploadingHasNoFile, Uploading, SessionKeysDiffer
  <2>8. ASSUME NEW x \in Attempts PROVE AttemptOwns(x)'
    <3>1. Owns(x)' = Owns(x) /\ request'[x] = request[x]
      BY Zenon, <1>5 DEF Owns
    <3>2. request[x].id \in Uploads /\ Owns(x) => upload[request[x].id].key # k
      BY Zenon, <2>3 DEF Owns
    <3>3. \A t \in tasks : t.key # k => t \in tasks'
      BY Zenon, <1>2, <2>1
    <3>4. request[x].pc \notin {"new", "done"} => request[x].id \in Uploads
      BY Zenon DEF FilesInv, AttemptsOwn, AttemptOwns
    <3>5. request[x].pc = "release" => request[x].key # k
      BY Zenon, <3>2, <3>4 DEF FilesInv, AttemptsOwn, AttemptOwns
    <3>6. request[x].id \in Uploads /\ Owns(x) => upload[request[x].id].key \in Keys
      BY Zenon DEF FilesInv, UploadingHasNoFile, Uploading, Owns
    <3>7. AttemptOwns(x)
      BY Zenon DEF FilesInv, AttemptsOwn
    <3> QED
      BY Zenon, <1>5, <2>6, <3>1, <3>2, <3>3, <3>4, <3>5, <3>6, <3>7 DEF AttemptOwns
  <2>9. RecoversAlone'
    BY Zenon, <1>1, <1>5 DEF FilesInv, RecoversAlone
  <2>10. StagedIsAlone' /\ DeletionsAreDead'
    BY <1>0, <1>5, <2>1, <2>2, <2>3 DEF FilesInv, FilesTypes, TaskRows, StagedIsAlone, DeletionsAreDead, Held
  <2>11. StoresOwn'
    <3>1. ASSUME NEW x \in Stores, x # b, staging[x].pc \in {"staged", "stored"}
          PROVE  \E t \in tasks' : t.id = staging[x].id /\ t.key = staging[x].key /\ t.state = "staging"
      BY <1>0, <1>2, <2>1, <3>1 DEF FilesInv, StoresOwn
    <3> QED
      BY <1>0, <1>3, <1>4, <1>5, <3>1 DEF FilesInv, StoresOwn
  <2>12. IdsAgree' /\ ConfirmsDeleted'
    BY <1>5, <2>1 DEF FilesInv, IdsAgree, Held, ConfirmsDeleted
  <2>13. LiveFilesHaveBytes' /\ GrantsAreLive'
    BY Zenon, <1>0, <1>1, <1>5, <2>2, <2>3 DEF FilesInv, FilesTypes, GrantType, LiveFilesHaveBytes, GrantsAreLive
  <2>14. NoOrphans'
    BY <1>0, <1>2, <1>5, <2>1, <2>2 DEF FilesInv, FilesTypes, NoOrphans, Uploading
  <2> QED
    BY Zenon, <2>4, <2>5, <2>7, <2>8, <2>9, <2>10, <2>11, <2>12, <2>13, <2>14 DEF FilesInv, AttemptsOwn
<1> QED
  BY Zenon, <1>6, <1>7

\* A staging row is written under a fresh key, before any byte is stored.
LEMMA StageKeeps ==
  ASSUME FilesInv, NEW b \in Stores, NEW r \in Results, Stage(b, r)
  PROVE  FilesInv'
<1> USE DEF workerVars, drawn
<1>0. FilesTypes /\ ready /\ staging[b].pc = "new" /\ "done" \in StagingPcs
  BY Zenon DEF FilesInv, Stage, StagingPcs
<1>1. PICK n \in Nat : n = keys + 1
  BY <1>0 DEF FilesTypes
<1>2. n \in Keys /\ keys' = n /\ keys' \in 0..MaxKeys /\ keys < n /\ keys <= n
  BY <1>0, <1>1, ConstantFacts DEF Stage, DrawKey, FilesTypes, Keys
<1>3. PICK i \in Nat : i = ids + 1
  BY <1>0 DEF FilesTypes
<1> DEFINE new == [Task(ids + 1, keys + 1, FALSE, clock) EXCEPT !.state = "staging"]
<1>4. new \in TaskRows /\ new.key = n /\ new.id = i /\ new.state = "staging"
  <2> DEFINE row == Task(ids + 1, keys + 1, FALSE, clock)
  <2>1. row \in TaskRows /\ row.key = n /\ row.id = i
    BY <1>0, <1>1, <1>2, <1>3 DEF Task, TaskRows, FilesTypes
  <2> HIDE DEF row
  <2>2. LET s == [row EXCEPT !.state = "staging"] IN s \in TaskRows /\ s.key = n /\ s.id = i /\ s.state = "staging"
    BY Zenon, <2>1 DEF TaskRows
  <2> QED
    BY Zenon, <2>2 DEF row
<1>5. UNCHANGED <<file, upload, granted, objects, request, worker, recovering, ready, clock>>
  BY Zenon DEF Stage
<1>6. \/ tasks' = tasks /\ ids' = ids /\ Goes(b, "done")
      \/ /\ tasks' = tasks \cup {new} /\ ids' = i
         /\ \/ Goes(b, "done")
            \/ staging' = [staging EXCEPT ![b] = [pc |-> "staged", key |-> n, id |-> i]]
  BY Zenon, <1>1, <1>3 DEF Stage, Committed
<1> HIDE DEF new
<1>7. /\ staging' \in [Stores -> StagingType] /\ \A x \in Stores : x # b => staging'[x] = staging[x]
      /\ \/ staging'[b].pc = "done" /\ staging'[b].key = 0 /\ staging'[b].id = 0
         \/ /\ staging'[b].pc = "staged" /\ staging'[b].key = n /\ staging'[b].id = i /\ new \in tasks' /\ ids' = i
  <2>1. CASE Goes(b, "done")
    BY Zenon, <1>0, <2>1, GoesType
  <2>2. CASE /\ tasks' = tasks \cup {new} /\ ids' = i
             /\ staging' = [staging EXCEPT ![b] = [pc |-> "staged", key |-> n, id |-> i]]
    BY Zenon, <1>0, <2>2 DEF FilesTypes, StagingType, StagingPcs
  <2> QED
    BY Zenon, <1>6, <2>1, <2>2
<1>8. /\ ids' \in Nat /\ ids <= ids' /\ ids < i /\ ids \in Nat
      /\ tasks \subseteq tasks' /\ \A t \in tasks' : t \in tasks \/ (t = new /\ ids' = i)
  BY <1>0, <1>3, <1>6 DEF FilesTypes
<1>9. /\ Clean(n) /\ n \notin objects /\ file[n].state = "none"
      /\ \A v \in Uploads : upload[v].key # n
      /\ \A t \in tasks \cup Held : t.key # n
  BY Zenon, <1>2, FreshKey DEF Clean
<1>10. FilesTypes'
  BY Zenon, <1>0, <1>2, <1>4, <1>5, <1>7, <1>8 DEF FilesTypes
<1>11. Drawn'
  <2>1. 0 <= n /\ n <= n
    OBVIOUS
  <2> QED
    BY Zenon, <1>2, <1>4, <1>5, <1>7, <1>8, <2>1, KeysGrow DEF Drawn, Held
<1>12. \A c \in Keys : c # n /\ Clean(c) => Clean(c)'
  BY Zenon, <1>4, <1>5, <1>8 DEF Clean, Held
<1>13. OpenIsClean' /\ UploadingHasNoFile' /\ SessionKeysDiffer'
  BY Zenon, <1>5, <1>9, <1>12 DEF FilesInv, OpenIsClean, UploadingHasNoFile, Uploading, SessionKeysDiffer
<1>14. ASSUME NEW x \in Attempts PROVE AttemptOwns(x)'
  <2>1. request[x].id \in Uploads => Owns(x)' = Owns(x) /\ upload'[request[x].id] = upload[request[x].id] /\ upload[request[x].id].key # n
    BY Zenon, <1>5, <1>9 DEF Owns
  <2>2. request[x].pc \notin {"new", "done"} => request[x].id \in Uploads
    BY Zenon DEF FilesInv, AttemptsOwn, AttemptOwns
  <2>3. request[x].id \in Uploads /\ Owns(x) => upload[request[x].id].key \in Keys
    BY Zenon DEF FilesInv, UploadingHasNoFile, Uploading, Owns
  <2>4. AttemptOwns(x)
    BY Zenon DEF FilesInv, AttemptsOwn
  <2> QED
    BY Zenon, <1>5, <1>8, <1>12, <2>1, <2>2, <2>3, <2>4 DEF AttemptOwns
<1>15. RecoversAlone'
  BY Zenon, <1>0, <1>5 DEF FilesInv, RecoversAlone
<1>16. StagedIsAlone'
  BY Zenon, <1>4, <1>5, <1>8, <1>9 DEF FilesInv, StagedIsAlone, Held
<1>17. StoresOwn'
  <2>1. \A x \in Stores : staging[x].id \in Nat /\ staging[x].id <= ids
    BY Zenon, <1>0 DEF FilesInv, FilesTypes, StagingType, StoresOwn
  <2>2. \A x \in Stores : staging'[x].id <= ids'
    BY <1>0, <1>7, <1>8, <2>1
  <2>3. ASSUME NEW x \in Stores, x # b PROVE staging[x].id # i
    BY <1>8, <2>1
  <2>4. ASSUME NEW x \in Stores, NEW y \in Stores, x # y,
               {staging'[x].pc, staging'[y].pc} \subseteq {"staged", "stored", "abandon"}
        PROVE  staging'[x].id # staging'[y].id
    BY <1>7, <2>3, <2>4 DEF FilesInv, StoresOwn
  <2>5. ASSUME NEW x \in Stores, staging'[x].pc \in {"staged", "stored"}
        PROVE  \E t \in tasks' : t.id = staging'[x].id /\ t.key = staging'[x].key /\ t.state = "staging"
    BY <1>4, <1>7, <1>8, <2>5 DEF FilesInv, StoresOwn
  <2>6. ASSUME NEW x \in Stores, staging'[x].pc = "stored" PROVE staging'[x].key \in objects'
    BY Zenon, <1>5, <1>7, <2>6 DEF FilesInv, StoresOwn
  <2> QED
    BY Zenon, <2>2, <2>4, <2>5, <2>6 DEF StoresOwn
<1>18. IdsAgree'
  <2>1. \A t \in tasks \cup Held : t.id \in Nat /\ t.id <= ids
    BY <1>0 DEF FilesInv, FilesTypes, Held, TaskRows, WorkerType, NoTask, IdsAgree
  <2>2. \A t \in tasks \cup Held : t.id # i /\ t.id <= ids'
    BY <1>8, <2>1
  <2> QED
    BY SMTT(30), <1>4, <1>5, <1>8, <2>2 DEF FilesInv, IdsAgree, Held
<1>19. DeletionsAreDead'
  BY Zenon, <1>4, <1>5, <1>8, <1>9 DEF FilesInv, DeletionsAreDead, Held, Live
<1>20. ConfirmsDeleted' /\ LiveFilesHaveBytes' /\ GrantsAreLive' /\ NoOrphans'
  BY Zenon, <1>5, <1>8 DEF FilesInv, ConfirmsDeleted, LiveFilesHaveBytes, GrantsAreLive, NoOrphans, Uploading
<1> QED
  BY Zenon, <1>10, <1>11, <1>13, <1>14, <1>15, <1>16, <1>17, <1>18, <1>19, <1>20 DEF FilesInv, AttemptsOwn

-----------------------------------------------------------------------------
(***************************************************************************)
(* The worker.                                                             *)
(***************************************************************************)
\* Deletion rows keep their keys and ids, or disappear with the object gone.
LEMMA LeaseMoves ==
  ASSUME FilesInv, UNCHANGED <<upload, granted, request, staging, recovering, ready, drawn, clock>>,
         worker' \in WorkerType, Held' \subseteq Held \cup {NoTask},
         worker'.pc = "confirm" => worker'.task.key \notin objects',
         objects' \subseteq objects, file' \in [Keys -> FileType], tasks' \in SUBSET TaskRows,
         \A k \in objects \ objects' : \E h \in Held : h.key = k,
         \A k \in Keys : file'[k] = file[k] \/ (file'[k].state = "none" /\ k \notin objects /\ \E h \in Held : h.key = k),
         \A t \in tasks : \/ t \in tasks'
                          \/ t.state = "running" /\ t.key \notin objects
                          \/ t.state = "running" /\ \E s \in tasks' : s.key = t.key,
         \A s \in tasks' : s \in tasks \/ (s.state = "pending" /\ \E t \in tasks : s.id = t.id /\ s.key = t.key /\ t.state = "running"),
         \A s, t \in tasks' : s.id = t.id => s = t
  PROVE  FilesInv'
<1> USE DEF drawn
<1>0. FilesTypes /\ NoTask.key = 0 /\ NoTask.id = 0 /\ 0 \notin Keys
  BY Zenon, ConstantFacts DEF FilesInv, NoTask
<1>1. \A s \in tasks' : \E t \in tasks : s.id = t.id /\ s.key = t.key /\ (s = t \/ (t.state = "running" /\ s.state = "pending"))
  OBVIOUS
<1>2. FilesTypes'
  BY Zenon, <1>0 DEF FilesTypes
<1>3. Drawn'
  <2>1. 0 <= keys
    BY <1>0 DEF FilesTypes
  <2> QED
    BY <1>0, <1>1, <2>1 DEF FilesInv, Drawn
<1>4. \A c \in Keys : Clean(c) => Clean(c)' /\ (c \in objects <=> c \in objects')
  BY <1>0, <1>1 DEF Clean
<1>5. OpenIsClean' /\ SessionKeysDiffer'
  BY <1>4 DEF FilesInv, OpenIsClean, SessionKeysDiffer
<1>6. UploadingHasNoFile'
  BY DEF FilesInv, UploadingHasNoFile, Uploading
<1>7. ASSUME NEW x \in Attempts PROVE AttemptOwns(x)'
  <2>1. AttemptOwns(x) /\ Owns(x)' = Owns(x)
    BY Zenon DEF FilesInv, AttemptsOwn, Owns
  <2>2. request[x].id \in Uploads /\ Owns(x) => upload[request[x].id].key \in Keys
    BY Zenon DEF FilesInv, UploadingHasNoFile, Uploading, Owns
  <2>3. request[x].pc = "release" /\ request[x].key \in objects' => \E t \in tasks' : t.key = request[x].key
    BY <2>1 DEF AttemptOwns
  <2> QED
    BY Zenon, <1>4, <2>1, <2>2, <2>3 DEF AttemptOwns
<1>8. RecoversAlone'
  BY Zenon DEF FilesInv, RecoversAlone
<1>9. StagedIsAlone'
  <2>1. \A t \in tasks' : t.state = "staging" => t \in tasks
    BY Zenon
  <2>2. ASSUME NEW t \in tasks', t.state = "staging", NEW s \in tasks', s.key = t.key PROVE s = t
    BY <1>1, <2>1, <2>2 DEF FilesInv, StagedIsAlone
  <2>3. ASSUME NEW t \in tasks', t.state = "staging" PROVE file'[t.key].state = "none"
    BY <1>0, <2>1, <2>3 DEF FilesInv, StagedIsAlone, FilesTypes, TaskRows
  <2>4. ASSUME NEW t \in tasks', t.state = "staging", NEW h \in Held' PROVE h.key # t.key
    BY <1>0, <2>1, <2>4 DEF FilesInv, StagedIsAlone, FilesTypes, TaskRows
  <2> QED
    BY SMTT(30), <2>1, <2>2, <2>3, <2>4 DEF FilesInv, StagedIsAlone
<1>10. StoresOwn'
  <2>1. ASSUME NEW b \in Stores, NEW t \in tasks, t.state = "staging" PROVE t \in tasks'
    BY Zenon, <2>1
  <2>2. ASSUME NEW b \in Stores, staging[b].pc = "stored" PROVE staging[b].key \in objects'
    BY <2>2 DEF FilesInv, StoresOwn, StagedIsAlone
  <2> QED
    BY <2>1, <2>2 DEF FilesInv, StoresOwn
<1>11. IdsAgree'
  <2>1. \A t \in tasks : t.id # 0
    BY Zenon, <1>0 DEF FilesTypes, TaskRows
  <2>2. 0 <= ids
    BY <1>0 DEF FilesTypes
  <2> QED
    BY SMTT(30), <1>0, <1>1, <2>1, <2>2 DEF FilesInv, IdsAgree
<1>12. DeletionsAreDead'
  BY <1>0, <1>1 DEF FilesInv, FilesTypes, TaskRows, DeletionsAreDead, Live
<1>13. ConfirmsDeleted'
  BY Zenon DEF ConfirmsDeleted
<1>14. LiveFilesHaveBytes'
  <2>1. ASSUME NEW k \in Keys, file'[k].state \in Live PROVE file'[k] = file[k] /\ \A h \in Held : h.key # k
    BY <2>1 DEF FilesInv, DeletionsAreDead, Live
  <2> QED
    BY <2>1 DEF FilesInv, LiveFilesHaveBytes
<1>15. GrantsAreLive'
  BY <1>0 DEF FilesInv, FilesTypes, GrantType, GrantsAreLive, DeletionsAreDead, Live
<1>16. NoOrphans'
  <2>1. ASSUME NEW k \in objects', file[k].state # "none" PROVE file'[k].state # "none"
    BY Zenon, <1>0, <2>1 DEF FilesTypes
  <2> QED
    BY <2>1 DEF FilesInv, NoOrphans, Uploading
<1> QED
  BY Zenon, <1>2, <1>3, <1>5, <1>6, <1>7, <1>8, <1>9, <1>10, <1>11, <1>12, <1>13, <1>14, <1>15, <1>16 DEF FilesInv, AttemptsOwn

\* Deleting an object, confirming it and retrying it keep the invariant: what
\* the worker holds is not in use.
LEMMA DeletesKeep ==
  ASSUME FilesInv, \/ \E t \in worker.queue, ok, gone \in BOOLEAN : DeleteObject(t, ok, gone)
                   \/ \E r \in Results : Confirm(r) \/ Retry(r)
  PROVE  FilesInv'
<1> USE DEF rows, drawn
<1>0. FilesTypes /\ worker \in WorkerType /\ clock + RetryMs \in Nat
  BY ConstantFacts DEF FilesInv, FilesTypes
<1>1. /\ \A s, t \in tasks : s.id = t.id => s = t
      /\ \A t \in Leased : t.state = "running" /\ t \in tasks /\ t.key = worker.task.key
      /\ \A s, t \in Leased : s = t
  BY Zenon DEF FilesInv, IdsAgree, Leased, Held
<1>2. ASSUME NEW t \in worker.queue, NEW ok \in BOOLEAN, NEW gone \in BOOLEAN, DeleteObject(t, ok, gone) PROVE FilesInv'
  <2>1. /\ UNCHANGED <<file, tasks, upload, granted, request, staging, recovering, ready, drawn, clock>>
        /\ objects' \subseteq objects /\ \A k \in objects \ objects' : k = t.key
        /\ ok => t.key \notin objects'
    BY Zenon, <1>2 DEF DeleteObject
  <2>2. /\ worker' \in WorkerType /\ worker'.task = t /\ worker'.queue \subseteq worker.queue
        /\ worker'.pc = "confirm" => ok
    BY Zenon, <1>0, <1>2 DEF DeleteObject, WorkerType, WorkerPcs
  <2>3. Held' \subseteq Held \cup {NoTask} /\ t \in Held
    BY Zenon, <1>2, <2>2 DEF Held
  <2>4. file' \in [Keys -> FileType] /\ tasks' \in SUBSET TaskRows
    BY Zenon, <1>0, <2>1 DEF FilesTypes
  <2> QED
    BY Zenon, <1>1, <2>1, <2>2, <2>3, <2>4, LeaseMoves
<1>3. ASSUME NEW r \in Results, Confirm(r) PROVE FilesInv'
  <2>1. /\ UNCHANGED <<objects, upload, granted, request, staging, recovering, ready, drawn, clock>>
        /\ worker.task.key \notin objects /\ worker.pc = "confirm" /\ worker.task \in Held
    BY Zenon, <1>3 DEF Confirm, FilesInv, ConfirmsDeleted, Held
  <2>2. /\ worker' \in WorkerType /\ worker'.pc \in {"deleting", "retry"}
        /\ worker'.queue = worker.queue /\ worker'.task \in {worker.task, NoTask}
    BY Zenon, <1>0, <1>3 DEF Confirm, Onward, WorkerType, WorkerPcs
  <2>3. Held' \subseteq Held \cup {NoTask}
    BY Zenon, <2>2 DEF Held
  <2>4. tasks' \subseteq tasks /\ \A t \in tasks \ tasks' : t \in Leased
    BY Zenon, <1>3 DEF Confirm
  <2>5. /\ file' \in [Keys -> FileType]
        /\ \A k \in Keys : file'[k] = file[k] \/ (file'[k].state = "none" /\ k = worker.task.key)
    BY <1>0, <1>3 DEF Confirm, FilesTypes, FileType, NoFile
  <2>6. tasks' \in SUBSET TaskRows
    BY Zenon, <1>0, <2>4 DEF FilesTypes
  <2>7. \A t \in tasks : t \in tasks' \/ (t.state = "running" /\ t.key \notin objects)
    BY Zenon, <1>1, <2>1, <2>4
  <2> QED
    BY Zenon, <1>1, <2>1, <2>2, <2>3, <2>4, <2>5, <2>6, <2>7, LeaseMoves
<1>4. ASSUME NEW r \in Results, Retry(r) PROVE FilesInv'
  <2>1. /\ UNCHANGED <<file, objects, upload, granted, request, staging, recovering, ready, drawn, clock>>
        /\ tasks' = tasks \/ tasks' = (tasks \ Leased) \cup {Pending(t, clock + RetryMs) : t \in Leased}
        /\ worker' = Onward \/ worker' = Idle
    BY Zenon, <1>4 DEF Retry, CycleFails, EndCycle
  <2>2. worker' \in WorkerType /\ worker'.pc # "confirm" /\ worker'.queue \subseteq worker.queue /\ worker'.task = NoTask
    <3>1. CASE worker' = Onward
      BY Zenon, <1>0, <3>1 DEF Onward, WorkerType, WorkerPcs
    <3>2. CASE worker' = Idle
      <4>1. Idle.pc = "idle" /\ Idle.queue = {} /\ Idle.task = NoTask
        BY Zenon DEF Idle
      <4> QED
        BY Zenon, <3>2, <4>1, IdleType
    <3> QED
      BY Zenon, <2>1, <3>1, <3>2
  <2>3. Held' \subseteq Held \cup {NoTask}
    BY Zenon, <2>2 DEF Held
  <2>4. \A t \in tasks : /\ Pending(t, clock + RetryMs) \in TaskRows /\ Pending(t, clock + RetryMs).id = t.id
                         /\ Pending(t, clock + RetryMs).key = t.key /\ Pending(t, clock + RetryMs).state = "pending"
    BY Zenon, <1>0, PendingType DEF FilesTypes
  <2>5. file' \in [Keys -> FileType] /\ tasks' \in SUBSET TaskRows
    BY <1>0, <1>1, <2>1, <2>4 DEF FilesTypes
  <2>6. \A t \in tasks : t \in tasks' \/ (t.state = "running" /\ \E s \in tasks' : s.key = t.key)
    BY <1>1, <2>1, <2>4
  <2>7. \A s \in tasks' : s \in tasks \/ (s.state = "pending" /\ \E t \in tasks : s.id = t.id /\ s.key = t.key /\ t.state = "running")
    BY <1>1, <2>1, <2>4
  <2>8. \A s, t \in tasks' : s.id = t.id => s = t
    <3>1. \A s \in tasks' : \/ s \in tasks \ Leased \/ tasks' = tasks
                            \/ \E t \in Leased : s = Pending(t, clock + RetryMs) /\ s.id = t.id
      BY <1>1, <2>1, <2>4
    <3> QED
      BY <1>1, <3>1
  <2> QED
    BY Zenon, <2>1, <2>2, <2>3, <2>5, <2>6, <2>7, <2>8, LeaseMoves
<1> QED
  BY Zenon, <1>2, <1>3, <1>4
=============================================================================
