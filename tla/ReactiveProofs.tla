--------------------------- MODULE ReactiveProofs ---------------------------
(***************************************************************************)
(* For any queries, keys, contents and bounds: the types of the reactive   *)
(* state, and that an entry is exact, misses no processed write, is        *)
(* current when at rest, and retains an honest history.                    *)
(*                                                                         *)
(* The invariant is stated entry by entry (EntryInv), because every action *)
(* but Commit and ProcessPublication changes one entry and nothing that    *)
(* the others are compared with.  Beyond the properties it says which      *)
(* phases imply a result, and how the content at a later version compares  *)
(* with the content the entry read (Agrees): the latter turns "no write    *)
(* missed" into "the result is still the result".                          *)
(***************************************************************************)
EXTENDS Reactive, TLAPS

(* Every commit changes the content only at the keys it wrote.             *)
DatabaseChains ==
  \A v \in 0..highWater - 1 : \A k \in Keys :
    k \notin writes[v + 1] => contents[v + 1][k] = contents[v][k]

Exact(q, e) ==
  e.initialized => /\ e.result = Result(q, contents[e.version])
                   /\ e.readSet = ReadKeys(q, contents[e.version])

MissesNothing(e) ==
  \A v \in 1..started :
    e.initialized /\ v > e.version /\ writes[v] \cap e.readSet # {}
      => e.phase # "idle" /\ e.dirty >= v

(* Up to the first processed commit that wrote a key it read, the content  *)
(* is what the entry read.                                                 *)
Agrees(e) ==
  e.initialized =>
    \A v \in 0..started :
      /\ v >= e.version
      /\ \A w \in 1..started : w > e.version /\ w <= v => writes[w] \cap e.readSet = {}
      => \A k \in e.readSet : contents[v][k] = contents[e.version][k]

Honest(q, e) ==
  \A i \in 1..Len(e.history) :
    /\ e.history[i].from < e.history[i].to
    /\ e.history[i].to <= e.version
    /\ e.history[i].to = IF i = Len(e.history) THEN e.version ELSE e.history[i + 1].from
    /\ e.history[i].result = Result(q, contents[e.history[i].to])
    /\ e.history[i].changed <=> e.history[i].result # Result(q, contents[e.history[i].from])

EntryInv(q, e) ==
  /\ e \in EntryType
  /\ EntryBounds(e)
  /\ e.phase \in {"idle", "delivering"} => e.initialized
  /\ ~e.initialized => e.history = <<>>
  /\ Exact(q, e)
  /\ MissesNothing(e)
  /\ Agrees(e)
  /\ Honest(q, e)

DatabaseInv ==
  /\ highWater \in Nat
  /\ contents \in [0..highWater -> Content]
  /\ writes \in [1..highWater -> SUBSET Keys]
  /\ started \in 0..highWater
  /\ generations \in Nat
  /\ DatabaseChains

ReactiveInv ==
  /\ DatabaseInv
  /\ DOMAIN entries \subseteq Queries
  /\ entries = [q \in DOMAIN entries |-> entries[q]]
  /\ \A q \in DOMAIN entries : EntryInv(q, entries[q])

-----------------------------------------------------------------------------
(***************************************************************************)
(* What one step may do to the entries.                                    *)
(***************************************************************************)

(* The set of entries mentions no variable.                                *)
LEMMA EntryTypeConstant == EntryType' = EntryType
BY DEF EntryType, RecordType, Results, Phases

(* Nor does the result of a query on a given content.                      *)
LEMMA ResultConstant == \A q, c : Result(q, c)' = Result(q, c)
BY DEF Result

(* What an entry is compared with stays while the database does.           *)
LEMMA ComparisonsStand ==
  ASSUME UNCHANGED <<highWater, contents, writes, started>>,
         NEW q, NEW e,
         e \in EntryType, Exact(q, e), MissesNothing(e), Agrees(e), Honest(q, e)
  PROVE  (/\ e \in EntryType
          /\ Exact(q, e) /\ MissesNothing(e) /\ Agrees(e) /\ Honest(q, e))'
<1>1. (e \in EntryType)'
  BY EntryTypeConstant
<1>2. Exact(q, e)'
  BY DEF Exact, Result
<1>3. MissesNothing(e)'
  BY DEF MissesNothing
<1>4. Agrees(e)'
  BY DEF Agrees
<1>5. Honest(q, e)'
  <2>1. \A v : contents'[v] = contents[v]
    OBVIOUS
  <2> QED
    BY <2>1, ResultConstant DEF Honest
<1> QED
  BY <1>1, <1>2, <1>3, <1>4, <1>5

(* An entry that is left alone keeps its invariant while generations are   *)
(* handed out to others.                                                   *)
LEMMA EntryStands ==
  ASSUME UNCHANGED <<highWater, contents, writes, started>>,
         generations \in Nat, generations' \in Nat, generations <= generations',
         NEW q, NEW e, EntryInv(q, e)
  PROVE  EntryInv(q, e)'
<1>1. EntryBounds(e)'
  BY DEF EntryInv, EntryBounds, EntryType
<1> QED
  BY <1>1, ComparisonsStand DEF EntryInv

(* One entry is replaced, added or removed.                                *)
LEMMA OneEntryChanges ==
  ASSUME ReactiveInv,
         UNCHANGED <<highWater, contents, writes, started>>,
         generations' \in Nat, generations <= generations',
         NEW q \in Queries,
         DOMAIN entries' \subseteq DOMAIN entries \cup {q},
         entries' = [p \in DOMAIN entries' |-> entries'[p]],
         \A p \in DOMAIN entries' : p # q => entries'[p] = entries[p],
         q \in DOMAIN entries' => EntryInv(q, entries[q])'
  PROVE  ReactiveInv'
<1>1. DatabaseInv'
  BY DEF ReactiveInv, DatabaseInv, DatabaseChains
<1>2. DOMAIN entries' \subseteq Queries
  BY DEF ReactiveInv
<1>3. ASSUME NEW p \in DOMAIN entries'
      PROVE  EntryInv(p, entries[p])'
  <2>1. CASE p = q
    BY <2>1
  <2>2. CASE p # q
    <3>1. p \in DOMAIN entries /\ entries'[p] = entries[p]
      BY <2>2
    <3>2. PICK e : e = entries[p]
      OBVIOUS
    <3>3. EntryInv(p, e)
      BY <3>1, <3>2 DEF ReactiveInv
    <3>4. generations \in Nat
      BY DEF ReactiveInv, DatabaseInv
    <3>5. EntryInv(p, e)'
      BY <3>3, <3>4, EntryStands
    <3> QED
      BY <3>1, <3>2, <3>5
  <2> QED
    BY <2>1, <2>2
<1> QED
  BY <1>1, <1>2, <1>3 DEF ReactiveInv

(* One entry is replaced and no generation is handed out.                  *)
LEMMA OneEntryReplaced ==
  ASSUME ReactiveInv,
         UNCHANGED <<highWater, contents, writes, started, generations>>,
         NEW q \in Queries, q \in DOMAIN entries,
         NEW d, entries' = [entries EXCEPT ![q] = d], EntryInv(q, d)'
  PROVE  ReactiveInv'
<1>1. /\ DOMAIN entries' = DOMAIN entries
      /\ entries' = [p \in DOMAIN entries' |-> entries'[p]]
      /\ \A p \in DOMAIN entries' : p # q => entries'[p] = entries[p]
      /\ entries'[q] = d
  BY DEF ReactiveInv
<1>2. EntryInv(q, entries[q])'
  BY <1>1
<1>3. generations' \in Nat /\ generations <= generations'
  BY DEF ReactiveInv, DatabaseInv
<1> QED
  BY <1>1, <1>2, <1>3, OneEntryChanges

(* An entry whose evaluation moves on: the result and what it is compared  *)
(* with stay, and it comes to rest only when nothing later was processed.  *)
Moves(e, d) ==
  /\ d = [e EXCEPT !.dirty = d.dirty, !.phase = d.phase, !.snapshot = d.snapshot]
  /\ d.dirty \in Nat /\ e.dirty <= d.dirty /\ d.dirty <= highWater
  /\ d.phase \in Phases
  /\ d.phase = "delivering" => e.initialized
  /\ d.phase = "idle" => e.initialized /\ (e.phase = "idle" \/ e.version >= started)
  /\ d.snapshot \in Nat /\ d.snapshot <= highWater

(* Such a step keeps the entry's invariant.                                *)
LEMMA EvaluationMoves ==
  ASSUME UNCHANGED <<highWater, contents, writes, started, generations>>,
         DatabaseInv, NEW q, NEW e, NEW d, EntryInv(q, e), Moves(e, d)
  PROVE  EntryInv(q, d)'
<1> USE DEF Moves
<1>1. e \in EntryType
  BY DEF EntryInv
<1>2. d \in EntryType
  BY <1>1 DEF EntryType
<1>3. /\ d.born = e.born /\ d.generation = e.generation
      /\ d.initialized = e.initialized /\ d.result = e.result
      /\ d.version = e.version /\ d.readSet = e.readSet /\ d.history = e.history
  BY <1>1 DEF EntryType
<1>4. started \in Nat /\ highWater \in Nat /\ generations \in Nat
      /\ e.version \in Nat /\ e.dirty \in Nat
  BY <1>1 DEF DatabaseInv, EntryType
<1>5. EntryBounds(d)
  BY <1>3, <1>4 DEF EntryInv, EntryBounds
<1>6. d.phase \in {"idle", "delivering"} => d.initialized
  BY <1>3
<1>7. Exact(q, d) /\ Agrees(d)
  BY <1>3 DEF EntryInv, Exact, Agrees
<1>8. Honest(q, d)
  BY <1>3 DEF EntryInv, Honest
<1>9. MissesNothing(d)
  BY <1>3, <1>4 DEF EntryInv, MissesNothing
<1>10. EntryInv(q, d)
  BY <1>2, <1>3, <1>5, <1>6, <1>7, <1>8, <1>9 DEF EntryInv
<1> QED
  BY <1>10, <1>4, EntryStands

(* A new entry has nothing to be compared with.                            *)
LEMMA FreshEntryFitsNext ==
  ASSUME DatabaseInv', ReactiveAssumption, NEW q, NEW d,
         NEW g \in Nat \ {0}, g = generations',
         NEW dirty \in Nat, dirty <= highWater',
         d = [FreshEntry(g) EXCEPT !.dirty = dirty, !.phase = "queued"]
  PROVE  EntryInv(q, d)'
<1>1. NoResult \in Results
  <2>1. [k \in {} |-> 0] \in [{} -> Values]
    OBVIOUS
  <2>2. [{} -> Values] \in {[S -> Values] : S \in SUBSET Keys}
    OBVIOUS
  <2> QED
    BY <2>1, <2>2 DEF NoResult, Results
<1>2. FreshEntry(g) \in EntryType
  BY <1>1 DEF FreshEntry, EntryType, Phases
<1>3. /\ d.born = g /\ d.generation = g /\ d.initialized = FALSE
      /\ d.version = 0 /\ d.history = <<>>
      /\ d.dirty = dirty /\ d.phase = "queued" /\ d.snapshot = 0
  BY DEF FreshEntry
<1>4. d \in EntryType
  BY <1>2 DEF EntryType, Phases
<1>5. EntryBounds(d)'
  BY <1>3 DEF EntryBounds, ReactiveAssumption, DatabaseInv
<1>6. (Exact(q, d) /\ MissesNothing(d) /\ Agrees(d) /\ Honest(q, d))'
  BY <1>3 DEF Exact, MissesNothing, Agrees, Honest
<1> QED
  BY <1>3, <1>4, <1>5, <1>6, EntryTypeConstant DEF EntryInv

(* The result of a query is typed.                                         *)
LEMMA ResultTyped ==
  ASSUME ReactiveAssumption, NEW q \in Queries, NEW c \in Content
  PROVE  Result(q, c) \in Results
<1> DEFINE read == [k \in ReadKeys(q, c) |-> c[k]]
<1>1. ReadKeys(q, c) \subseteq Keys
  BY DEF ReactiveAssumption
<1>2. read \in [ReadKeys(q, c) -> Values]
  BY <1>1 DEF Content
<1>3. [ReadKeys(q, c) -> Values] \in {[S -> Values] : S \in SUBSET Keys}
  BY <1>1
<1>4. IsErr(q, read) \in BOOLEAN
  BY DEF ReactiveAssumption
<1>5. Result(q, c) = [err |-> IsErr(q, read), data |-> read]
  BY DEF Result
<1> HIDE DEF read
<1> QED
  BY <1>2, <1>3, <1>4, <1>5 DEF Results

(* The history after one more record, seen from the records before it.     *)
LEMMA RetainedShape ==
  ASSUME ReactiveAssumption, NEW h \in Seq(RecordType), NEW r \in RecordType,
         Len(h) <= MaxTransitions
  PROVE  /\ Retained(h, r) \in Seq(RecordType)
         /\ Len(Retained(h, r)) <= MaxTransitions
         /\ \E off \in {0, 1} :
              /\ off <= Len(h)
              /\ Len(Retained(h, r)) = Len(h) - off + 1
              /\ Retained(h, r)[Len(h) - off + 1] = r
              /\ \A i \in 1..Len(h) - off : Retained(h, r)[i] = h[i + off]
<1>0. MaxTransitions \in Nat \ {0} /\ Len(h) \in Nat
  BY DEF ReactiveAssumption
<1>1. CASE Len(h) >= MaxTransitions
  <2>1. h # <<>> /\ Len(h) >= 1
    BY <1>0, <1>1
  <2>2. /\ Tail(h) \in Seq(RecordType) /\ Len(Tail(h)) = Len(h) - 1
        /\ \A i \in 1..Len(h) - 1 : Tail(h)[i] = h[i + 1]
    BY <1>0, <2>1
  <2>3. Retained(h, r) = Append(Tail(h), r)
    BY <1>1 DEF Retained
  <2>4. PICK t \in Seq(RecordType) : t = Tail(h)
    BY <2>2
  <2>5. /\ Append(t, r) \in Seq(RecordType) /\ Len(Append(t, r)) = Len(h)
        /\ Append(t, r)[Len(h)] = r
        /\ \A i \in 1..Len(h) - 1 : Append(t, r)[i] = h[i + 1]
    BY <1>0, <2>1, <2>2, <2>4
  <2> DEFINE s == Append(t, r)
  <2>6. /\ 1 <= Len(h) /\ Len(s) = Len(h) - 1 + 1 /\ s[Len(h) - 1 + 1] = r
        /\ \A i \in 1..Len(h) - 1 : s[i] = h[i + 1]
    BY <1>0, <2>1, <2>5
  <2>7. s \in Seq(RecordType) /\ Len(s) <= MaxTransitions /\ Retained(h, r) = s
    BY <1>0, <2>3, <2>4, <2>5
  <2> HIDE DEF s
  <2> QED
    BY <2>6, <2>7
<1>2. CASE Len(h) < MaxTransitions
  <2>1. Retained(h, r) = Append(h, r)
    BY <1>0, <1>2 DEF Retained
  <2>2. /\ Append(h, r) \in Seq(RecordType) /\ Len(Append(h, r)) = Len(h) + 1
        /\ Append(h, r)[Len(h) + 1] = r
        /\ \A i \in 1..Len(h) : Append(h, r)[i] = h[i]
    BY <1>0
  <2> DEFINE s == Append(h, r)
  <2>3. /\ 0 <= Len(h) /\ Len(s) = Len(h) - 0 + 1 /\ s[Len(h) - 0 + 1] = r
        /\ \A i \in 1..Len(h) - 0 : s[i] = h[i + 0]
    BY <1>0, <2>2
  <2>4. Len(s) <= MaxTransitions
    BY <1>0, <1>2, <2>2
  <2> HIDE DEF s
  <2> QED
    BY <2>1, <2>2, <2>3, <2>4 DEF s
<1> QED
  BY <1>0, <1>1, <1>2

(* One more record at the end of an honest history leaves it honest.       *)
LEMMA HistoryGrows ==
  ASSUME ReactiveAssumption, NEW q, NEW e, EntryInv(q, e), e.initialized,
         NEW at \in Nat, at > e.version,
         NEW r, r \in RecordType, r.from = e.version, r.to = at,
         r.result = Result(q, contents[at]),
         r.changed <=> e.result # r.result,
         NEW d, d.version = at, d.history = Retained(e.history, r)
  PROVE  Honest(q, d)
<1>1. e.history \in Seq(RecordType) /\ Len(e.history) <= MaxTransitions
      /\ e.version \in Nat /\ Len(e.history) \in Nat
  BY DEF EntryInv, EntryType, EntryBounds
<1>2. PICK off \in {0, 1} :
        /\ off <= Len(e.history)
        /\ Len(d.history) = Len(e.history) - off + 1
        /\ d.history[Len(e.history) - off + 1] = r
        /\ \A i \in 1..Len(e.history) - off : d.history[i] = e.history[i + off]
  <2>1. \E off \in {0, 1} :
          /\ off <= Len(e.history)
          /\ Len(Retained(e.history, r)) = Len(e.history) - off + 1
          /\ Retained(e.history, r)[Len(e.history) - off + 1] = r
          /\ \A i \in 1..Len(e.history) - off :
               Retained(e.history, r)[i] = e.history[i + off]
    BY <1>1, RetainedShape
  <2> QED
    BY <2>1
<1> DEFINE n == Len(e.history) - off
<1>3. n \in Nat /\ Len(d.history) = n + 1 /\ d.history[n + 1] = r
  BY <1>1, <1>2
<1>4. e.result = Result(q, contents[e.version])
  BY DEF EntryInv, Exact
<1>5. ASSUME NEW i \in 1..n
      PROVE  /\ d.history[i] = e.history[i + off]
             /\ i + off \in 1..Len(e.history)
             /\ i = n <=> i + off = Len(e.history)
             /\ i # n => d.history[i + 1] = e.history[i + off + 1]
  <2>1. i + off \in 1..Len(e.history) /\ (i = n <=> i + off = Len(e.history))
    <3>1. PICK len \in Nat : len = Len(e.history)
      BY <1>1
    <3>2. i \in Int /\ 1 <= i /\ i <= len - off /\ (off = 0 \/ off = 1)
      BY <3>1
    <3> QED
      BY <3>1, <3>2
  <2>2. d.history[i] = e.history[i + off]
    BY <1>2
  <2>3. ASSUME i # n PROVE d.history[i + 1] = e.history[i + off + 1]
    <3>1. i + 1 \in 1..n /\ (i + 1) + off = i + off + 1
      BY <2>3, <1>3
    <3>2. d.history[i + 1] = e.history[(i + 1) + off]
      BY <3>1, <1>2
    <3> QED
      BY <3>1, <3>2
  <2> QED
    BY <2>1, <2>2, <2>3
<1> HIDE DEF n
<1> DEFINE Told(i) ==
      /\ d.history[i].from < d.history[i].to
      /\ d.history[i].to <= d.version
      /\ d.history[i].to = IF i = Len(d.history) THEN d.version ELSE d.history[i + 1].from
      /\ d.history[i].result = Result(q, contents[d.history[i].to])
      /\ d.history[i].changed <=> d.history[i].result # Result(q, contents[d.history[i].from])
<1>6. Told(n + 1)
  BY <1>1, <1>3, <1>4
<1>7. ASSUME NEW i \in 1..n
      PROVE  Told(i)
  <2> DEFINE j == i + off
  <2>1. /\ e.history[j].from < e.history[j].to
        /\ e.history[j].to <= e.version
        /\ e.history[j].to = IF j = Len(e.history) THEN e.version ELSE e.history[j + 1].from
        /\ e.history[j].result = Result(q, contents[e.history[j].to])
        /\ e.history[j].changed <=> e.history[j].result # Result(q, contents[e.history[j].from])
    BY <1>5 DEF EntryInv, Honest
  <2>2. e.history[j].to \in Nat
    <3>1. j \in 1..Len(e.history)
      BY <1>5
    <3>2. e.history[j] \in RecordType
      BY <1>1, <3>1
    <3> QED
      BY <3>2 DEF RecordType
  <2>3. d.history[i] = e.history[j]
    BY <1>5
  <2>4. i # Len(d.history)
    BY <1>3
  <2>5. d.history[i].to = d.history[i + 1].from
    <3>1. CASE i = n
      BY <3>1, <1>3, <1>5, <2>1, <2>3
    <3>2. CASE i # n
      BY <3>2, <1>5, <2>1, <2>3
    <3> QED
      BY <3>1, <3>2
  <2>6. d.history[i].to <= d.version
    BY <1>1, <2>1, <2>2, <2>3
  <2> HIDE DEF j
  <2> QED
    BY <2>1, <2>3, <2>4, <2>5, <2>6
<1>8. \A i \in 1..Len(d.history) : i = n + 1 \/ i \in 1..n
  BY <1>3
<1>9. \A i \in 1..Len(d.history) : Told(i)
  BY <1>6, <1>7, <1>8
<1> QED
  BY <1>9 DEF Honest

(* An entry whose oldest record expires.                                   *)
LEMMA HistoryShrinks ==
  ASSUME DatabaseInv, UNCHANGED <<highWater, contents, writes, started, generations>>,
         NEW q, NEW e, EntryInv(q, e), e.history # <<>>,
         NEW d, d = [e EXCEPT !.history = Tail(@)]
  PROVE  EntryInv(q, d)'
<1>1. e \in EntryType
  BY DEF EntryInv
<1>2. e.history \in Seq(RecordType) /\ Len(e.history) \in Nat /\ Len(e.history) >= 1
  BY <1>1 DEF EntryType
<1>3. /\ Tail(e.history) \in Seq(RecordType)
      /\ Len(Tail(e.history)) = Len(e.history) - 1
      /\ \A i \in 1..Len(e.history) - 1 : Tail(e.history)[i] = e.history[i + 1]
  BY <1>2
<1>4. d \in EntryType
  BY <1>1, <1>3 DEF EntryType
<1>5. /\ d.born = e.born /\ d.generation = e.generation
      /\ d.initialized = e.initialized /\ d.result = e.result
      /\ d.version = e.version /\ d.readSet = e.readSet
      /\ d.history = Tail(e.history)
      /\ d.dirty = e.dirty /\ d.phase = e.phase /\ d.snapshot = e.snapshot
  BY <1>1 DEF EntryType
<1>6. d.initialized
  BY <1>5 DEF EntryInv
<1>7. EntryBounds(d)
  <2>1. MaxTransitions \in Nat
    BY ReactiveAssumption DEF ReactiveAssumption
  <2>2. Len(d.history) <= MaxTransitions
    BY <1>2, <1>3, <1>5, <2>1 DEF EntryInv, EntryBounds
  <2> QED
    BY <1>5, <2>2 DEF EntryInv, EntryBounds
<1>8. Exact(q, d) /\ MissesNothing(d) /\ Agrees(d)
  BY <1>5 DEF EntryInv, Exact, MissesNothing, Agrees
<1>9. Honest(q, d)
  <2>1. ASSUME NEW i \in 1..Len(d.history)
        PROVE  /\ i + 1 \in 1..Len(e.history) /\ d.history[i] = e.history[i + 1]
               /\ i = Len(d.history) <=> i + 1 = Len(e.history)
               /\ i # Len(d.history) => d.history[i + 1] = e.history[i + 1 + 1]
    BY <1>2, <1>3, <1>5
  <2>2. \A j \in 1..Len(e.history) :
          /\ e.history[j].from < e.history[j].to
          /\ e.history[j].to <= e.version
          /\ e.history[j].to = IF j = Len(e.history) THEN e.version ELSE e.history[j + 1].from
          /\ e.history[j].result = Result(q, contents[e.history[j].to])
          /\ e.history[j].changed <=> e.history[j].result # Result(q, contents[e.history[j].from])
    BY DEF EntryInv, Honest
  <2> QED
    BY <1>5, <2>1, <2>2 DEF Honest
<1>10. EntryInv(q, d)
  BY <1>4, <1>5, <1>6, <1>7, <1>8, <1>9 DEF EntryInv
<1> QED
  BY <1>10, EntryStands DEF DatabaseInv

(* An evaluation installed at the high water is exact there, and nothing   *)
(* processed is later.                                                     *)
LEMMA InstallFits ==
  ASSUME ReactiveAssumption, DatabaseInv,
         UNCHANGED <<highWater, contents, writes, started>>,
         NEW q \in Queries, NEW e, EntryInv(q, e), NEW kept \in BOOLEAN,
         generations' = IF kept THEN generations ELSE generations + 1,
         NEW d,
         d = InstallOver(e, Result(q, contents[highWater]), highWater,
                         ReadKeys(q, contents[highWater]), kept)
  PROVE  EntryInv(q, d)'
<1> DEFINE r == Result(q, contents[highWater])
           keys == ReadKeys(q, contents[highWater])
           record == [from |-> e.version, to |-> highWater,
                      changed |-> Changed(e, r), result |-> r]
           g == IF kept THEN e.generation ELSE generations + 1
           h == IF ~kept THEN <<>>
                ELSE IF e.initialized /\ highWater > e.version
                THEN Retained(e.history, record) ELSE e.history
<1>1. e \in EntryType
  BY DEF EntryInv
<1>2. /\ highWater \in Nat /\ started \in Nat /\ started <= highWater
      /\ generations \in Nat /\ contents[highWater] \in Content
  BY DEF DatabaseInv
<1>3. r \in Results /\ keys \in SUBSET Keys
  BY <1>2, ResultTyped DEF ReactiveAssumption
<1>4. /\ e.version \in Nat /\ e.version <= highWater /\ e.history \in Seq(RecordType)
      /\ Len(e.history) <= MaxTransitions
      /\ e.born \in 1..generations /\ e.generation \in 1..generations
  BY <1>1 DEF EntryInv, EntryBounds, EntryType
<1>5. record \in RecordType
  BY <1>2, <1>3, <1>4 DEF RecordType, Changed
<1>6. g \in Nat /\ g \in 1..generations' /\ e.born \in 1..generations'
  BY <1>2, <1>4
<1>7. h \in Seq(RecordType) /\ Len(h) <= MaxTransitions
  <2>1. <<>> \in Seq(RecordType) /\ Len(<<>>) = 0 /\ 0 <= MaxTransitions
    BY DEF ReactiveAssumption
  <2>2. Retained(e.history, record) \in Seq(RecordType)
        /\ Len(Retained(e.history, record)) <= MaxTransitions
    BY <1>4, <1>5, RetainedShape
  <2> HIDE DEF record
  <2> QED
    BY <1>4, <2>1, <2>2
<1>8. d = [born |-> e.born, generation |-> g, initialized |-> TRUE, result |-> r,
           version |-> highWater, dirty |-> e.dirty, readSet |-> keys,
           history |-> h, phase |-> "delivering", snapshot |-> 0]
  BY DEF InstallOver
<1> HIDE DEF r, keys, g, h, record
<1>9. /\ d.born = e.born /\ d.generation = g /\ d.initialized = TRUE
      /\ d.result = r /\ d.version = highWater /\ d.readSet = keys
      /\ d.history = h /\ d.dirty = e.dirty /\ d.phase = "delivering"
      /\ d.snapshot = 0
  BY <1>8
<1>10. d \in EntryType
  BY <1>1, <1>2, <1>3, <1>6, <1>7, <1>8 DEF EntryType, Phases
<1>11. EntryBounds(d)'
  BY <1>2, <1>6, <1>7, <1>9 DEF EntryInv, EntryBounds
<1>12. Exact(q, d)
  BY <1>9 DEF Exact, r, keys
<1>13. MissesNothing(d)
  BY <1>2, <1>9 DEF MissesNothing
<1>14. Agrees(d)
  <2>1. \A v \in 0..started : v >= d.version => v = d.version
    BY <1>2, <1>9
  <2> QED
    BY <2>1 DEF Agrees
<1>15. Honest(q, d)
  <2>1. CASE ~kept
    <3>1. Len(d.history) = 0
      BY <1>9, <2>1 DEF h
    <3> QED
      BY <3>1 DEF Honest
  <2>2. CASE kept /\ e.initialized /\ highWater > e.version
    <3>1. d.history = Retained(e.history, record)
      BY <1>9, <2>2 DEF h
    <3>2. /\ record.from = e.version /\ record.to = highWater
          /\ record.result = Result(q, contents[highWater])
          /\ record.changed <=> e.result # record.result
      BY DEF record, r, Changed
    <3> QED
      <4>1. highWater \in Nat /\ d.version = highWater
        BY <1>2, <1>9
      <4>2. \A at \in Nat, x \in RecordType :
              /\ at > e.version /\ x.from = e.version /\ x.to = at
              /\ x.result = Result(q, contents[at])
              /\ x.changed <=> e.result # x.result
              /\ d.version = at /\ d.history = Retained(e.history, x)
              => Honest(q, d)
        BY <2>2, HistoryGrows
      <4> QED
        BY <1>5, <2>2, <3>1, <3>2, <4>1, <4>2
  <2>3. CASE kept /\ ~(e.initialized /\ highWater > e.version)
    <3>1. d.history = e.history
      BY <1>9, <2>3 DEF h
    <3>2. CASE ~e.initialized
      <4>1. Len(d.history) = 0
        BY <3>1, <3>2 DEF EntryInv
      <4> QED
        BY <4>1 DEF Honest
    <3>3. CASE e.initialized
      <4>1. d.version = e.version
        BY <1>2, <1>4, <1>9, <2>3, <3>3
      <4> QED
        BY <3>1, <4>1 DEF EntryInv, Honest
    <3> QED
      BY <3>2, <3>3
  <2> QED
    BY <2>1, <2>2, <2>3
<1>16. (/\ d \in EntryType
        /\ Exact(q, d) /\ MissesNothing(d) /\ Agrees(d) /\ Honest(q, d))'
  BY <1>10, <1>12, <1>13, <1>14, <1>15, ComparisonsStand
<1> QED
  BY <1>9, <1>11, <1>16 DEF EntryInv

(* Publication of the next version: an entry that read a key it wrote      *)
(* becomes dirty and is evaluated, the others still agree.                 *)
LEMMA PublicationFits ==
  ASSUME ReactiveAssumption, DatabaseInv, started < highWater, started' = started + 1,
         UNCHANGED <<highWater, contents, writes, generations>>,
         NEW q, NEW e, EntryInv(q, e), NEW d,
         d = IF e.readSet \cap writes[started + 1] # {} /\ e.version < started + 1
             THEN EnsureCurrent(e, started + 1) ELSE e
  PROVE  EntryInv(q, d)'
<1> DEFINE v0 == started + 1
           hit == e.readSet \cap writes[v0] # {} /\ e.version < v0
<1>1. e \in EntryType
  BY DEF EntryInv
<1>2. /\ started \in Nat /\ highWater \in Nat /\ v0 \in Nat /\ v0 <= highWater
      /\ e.version \in Nat /\ e.dirty \in Nat /\ e.readSet \subseteq Keys
  BY <1>1 DEF DatabaseInv, EntryType
<1>3. /\ d \in EntryType
      /\ d.born = e.born /\ d.generation = e.generation
      /\ d.initialized = e.initialized /\ d.result = e.result
      /\ d.version = e.version /\ d.readSet = e.readSet /\ d.history = e.history
      /\ d.snapshot = e.snapshot
  BY <1>1, <1>2 DEF EnsureCurrent, EntryType, Larger, Phases
<1>4. /\ e.dirty <= d.dirty /\ d.dirty <= highWater
      /\ d.phase = "idle" => e.phase = "idle"
      /\ d.phase = "delivering" => e.phase = "delivering"
      /\ hit => d.phase # "idle" /\ d.dirty >= v0
  <2>1. e.dirty <= highWater
    BY DEF EntryInv, EntryBounds
  <2>2. CASE hit
    <3>1. d.dirty = Larger(e.dirty, v0)
          /\ d.phase = IF (e.initialized /\ e.version >= v0) \/ e.phase # "idle"
                       THEN e.phase ELSE "queued"
      BY <1>1, <2>2 DEF EnsureCurrent, EntryType
    <3> QED
      BY <1>2, <2>1, <2>2, <3>1 DEF Larger
  <2>3. CASE ~hit
    BY <1>2, <2>1, <2>3
  <2> QED
    BY <2>2, <2>3
<1>5. (d \in EntryType)' /\ EntryBounds(d)'
  BY <1>2, <1>3, <1>4, EntryTypeConstant DEF EntryInv, EntryBounds
<1>6. Exact(q, d)'
  <2>1. Exact(q, d)
    BY <1>3 DEF EntryInv, Exact
  <2> QED
    BY <2>1, ResultConstant DEF Exact
<1>7. Honest(q, d)'
  <2>1. Honest(q, d)
    BY <1>3 DEF EntryInv, Honest
  <2>2. \A v : contents'[v] = contents[v]
    OBVIOUS
  <2> QED
    BY <2>1, <2>2, ResultConstant DEF Honest
<1>8. MissesNothing(d)'
  <2> SUFFICES ASSUME NEW v \in 1..v0, d.initialized, v > d.version,
                      writes[v] \cap d.readSet # {}
               PROVE  d.phase # "idle" /\ d.dirty >= v
    BY DEF MissesNothing
  <2>1. CASE v = v0
    BY <1>3, <1>4, <2>1
  <2>2. CASE v # v0
    <3>1. v \in 1..started
      BY <1>2, <2>2
    <3>2. e.phase # "idle" /\ e.dirty >= v
      BY <1>3, <3>1 DEF EntryInv, MissesNothing
    <3>3. d.dirty \in Nat
      BY <1>3 DEF EntryType
    <3> QED
      BY <1>2, <1>4, <3>1, <3>2, <3>3
  <2> QED
    BY <2>1, <2>2
<1>9. Agrees(d)'
  <2> SUFFICES ASSUME d.initialized, NEW v \in 0..v0, v >= d.version,
                      \A w \in 1..v0 : w > d.version /\ w <= v
                                       => writes[w] \cap d.readSet = {},
                      NEW k \in d.readSet
               PROVE  contents[v][k] = contents[d.version][k]
    BY DEF Agrees
  <2>0. \A u \in 0..started : u >= e.version /\ u <= v
                              => contents[u][k] = contents[e.version][k]
    <3> SUFFICES ASSUME NEW u \in 0..started, u >= e.version, u <= v
                 PROVE  contents[u][k] = contents[e.version][k]
      OBVIOUS
    <3>1. \A w \in 1..started : w > e.version /\ w <= u => writes[w] \cap e.readSet = {}
      BY <1>2, <1>3
    <3> QED
      BY <1>3, <3>1 DEF EntryInv, Agrees
  <2>1. CASE v <= started
    BY <1>2, <1>3, <2>0, <2>1
  <2>2. CASE v = v0 /\ e.version = v0
    BY <1>3, <2>2
  <2>3. CASE v = v0 /\ e.version < v0
    <3>1. contents[started][k] = contents[e.version][k]
      BY <1>2, <2>0, <2>3
    <3>2. k \notin writes[v0] /\ k \in Keys
      BY <1>2, <1>3, <2>3
    <3>3. contents[started + 1][k] = contents[started][k]
      BY <1>2, <3>2 DEF DatabaseInv, DatabaseChains
    <3> QED
      BY <1>3, <2>3, <3>1, <3>3
  <2> QED
    BY <1>2, <1>3, <2>1, <2>2, <2>3
<1> QED
  BY <1>3, <1>4, <1>5, <1>6, <1>7, <1>8, <1>9 DEF EntryInv

(* A commit adds a version nobody has looked at yet.                       *)
LEMMA CommitFits ==
  ASSUME DatabaseInv, NEW u \in Updates, Commit(u), NEW q, NEW e, EntryInv(q, e)
  PROVE  EntryInv(q, e)'
<1>1. e \in EntryType
  BY DEF EntryInv
<1>2. /\ highWater \in Nat /\ highWater' = highWater + 1
      /\ started' = started /\ started \in 0..highWater /\ generations' = generations
      /\ \A v \in 0..highWater : contents'[v] = contents[v]
      /\ \A v \in 1..highWater : writes'[v] = writes[v]
  BY DEF Commit, DatabaseInv
<1>3. e.version \in 0..highWater /\ e.dirty \in 0..highWater /\ e.snapshot \in 0..highWater
  BY <1>1, <1>2 DEF EntryInv, EntryBounds, EntryType
<1>4. (e \in EntryType)' /\ EntryBounds(e)'
  BY <1>1, <1>2, <1>3, EntryTypeConstant DEF EntryInv, EntryBounds
<1>5. Exact(q, e)'
  BY <1>2, <1>3, ResultConstant DEF EntryInv, Exact
<1>6. MissesNothing(e)'
  <2>1. \A v \in 1..started : v \in 1..highWater
    BY <1>2
  <2> QED
    BY <1>2, <2>1 DEF EntryInv, MissesNothing
<1>7. Agrees(e)'
  <2>1. \A v \in 0..started : v \in 0..highWater
    BY <1>2
  <2>2. \A v \in 1..started : v \in 1..highWater
    BY <1>2
  <2> QED
    BY <1>2, <1>3, <2>1, <2>2 DEF EntryInv, Agrees
<1>8. Honest(q, e)'
  <2>1. ASSUME NEW i \in 1..Len(e.history)
        PROVE  e.history[i].from \in 0..highWater /\ e.history[i].to \in 0..highWater
    <3>1. e.history[i] \in RecordType
      BY <1>1 DEF EntryType
    <3>2. e.history[i].from < e.history[i].to /\ e.history[i].to <= e.version
      BY DEF EntryInv, Honest
    <3> QED
      BY <1>2, <1>3, <3>1, <3>2 DEF RecordType
  <2> QED
    BY <1>2, <2>1, ResultConstant DEF EntryInv, Honest
<1> QED
  BY <1>4, <1>5, <1>6, <1>7, <1>8 DEF EntryInv

-----------------------------------------------------------------------------
(***************************************************************************)
(* One lemma per action.                                                   *)
(***************************************************************************)

(* The initial state: no entries, one content.                             *)
LEMMA InitInv == ASSUME ReactiveAssumption, ReactiveInit PROVE ReactiveInv
<1>1. DatabaseInv
  BY DEF ReactiveInit, DatabaseInv, DatabaseChains
<1>2. DOMAIN entries = {} /\ entries = [q \in DOMAIN entries |-> entries[q]]
  BY DEF ReactiveInit
<1> QED
  BY <1>1, <1>2 DEF ReactiveInv

(* COMMIT of a writer turn.                                                *)
LEMMA CommitInv ==
  ASSUME ReactiveAssumption, ReactiveInv, NEW u \in Updates, Commit(u)
  PROVE  ReactiveInv'
<1>1. DatabaseInv
  BY DEF ReactiveInv
<1> DEFINE c == [k \in Keys |-> IF k \in DOMAIN u THEN u[k] ELSE contents[highWater][k]]
<1>2. /\ highWater \in Nat /\ highWater' = highWater + 1
      /\ started' = started /\ started \in 0..highWater
      /\ generations' = generations /\ generations \in Nat /\ entries' = entries
  BY <1>1 DEF Commit, DatabaseInv
<1>3. /\ contents' = [v \in 0..highWater + 1 |-> IF v <= highWater THEN contents[v] ELSE c]
      /\ writes' = [v \in 1..highWater + 1 |->
                      IF v <= highWater THEN writes[v] ELSE DOMAIN u]
  BY DEF Commit
<1>4. c \in Content /\ DOMAIN u \in SUBSET Keys
  <2>1. contents[highWater] \in Content
    BY <1>1, <1>2 DEF DatabaseInv
  <2> QED
    BY <2>1 DEF Content, ReactiveAssumption
<1>5. \A k \in Keys : k \notin DOMAIN u => c[k] = contents[highWater][k]
  OBVIOUS
<1> HIDE DEF c
<1>6. contents' \in [0..highWater' -> Content] /\ writes' \in [1..highWater' -> SUBSET Keys]
  <2>1. \A v \in 0..highWater + 1 : v <= highWater => contents[v] \in Content
    BY <1>1, <1>2 DEF DatabaseInv
  <2>2. \A v \in 1..highWater + 1 : v <= highWater => writes[v] \in SUBSET Keys
    BY <1>1, <1>2 DEF DatabaseInv
  <2> QED
    BY <1>2, <1>3, <1>4, <2>1, <2>2
<1>7. DatabaseChains'
  <2> SUFFICES ASSUME NEW v \in 0..highWater, NEW k \in Keys, k \notin writes'[v + 1]
               PROVE  contents'[v + 1][k] = contents'[v][k]
    BY <1>2 DEF DatabaseChains
  <2>1. CASE v = highWater
    BY <1>2, <1>3, <1>5, <2>1
  <2>2. CASE v < highWater
    <3>1. /\ contents'[v] = contents[v] /\ contents'[v + 1] = contents[v + 1]
          /\ writes'[v + 1] = writes[v + 1] /\ v \in 0..highWater - 1
      BY <1>2, <1>3, <2>2
    <3> QED
      BY <1>1, <3>1 DEF DatabaseInv, DatabaseChains
  <2> QED
    BY <1>2, <2>1, <2>2
<1>8. DatabaseInv'
  BY <1>2, <1>6, <1>7 DEF DatabaseInv
<1>9. ASSUME NEW q \in DOMAIN entries'
      PROVE  EntryInv(q, entries[q])'
  <2>1. PICK e : e = entries[q]
    OBVIOUS
  <2>2. EntryInv(q, e)
    BY <1>2, <2>1 DEF ReactiveInv
  <2>3. EntryInv(q, e)'
    BY <1>1, <2>2, CommitFits
  <2> QED
    BY <1>2, <2>1, <2>3
<1> QED
  BY <1>2, <1>8, <1>9 DEF ReactiveInv

(* processPublication.                                                     *)
LEMMA PublicationInv ==
  ASSUME ReactiveAssumption, ReactiveInv, ProcessPublication
  PROVE  ReactiveInv'
<1>1. DatabaseInv /\ DOMAIN entries \subseteq Queries
  BY DEF ReactiveInv
<1>2. /\ started < highWater /\ started' = started + 1
      /\ UNCHANGED <<highWater, contents, writes, generations>>
      /\ DOMAIN entries' = DOMAIN entries
      /\ entries' = [q \in DOMAIN entries' |-> entries'[q]]
  BY DEF ProcessPublication
<1>3. DatabaseInv'
  BY <1>1, <1>2 DEF DatabaseInv, DatabaseChains
<1>4. ASSUME NEW q \in DOMAIN entries'
      PROVE  EntryInv(q, entries[q])'
  <2>1. PICK e : e = entries[q]
    OBVIOUS
  <2>2. EntryInv(q, e)
    BY <1>2, <2>1 DEF ReactiveInv
  <2>3. PICK d : d = entries'[q]
    OBVIOUS
  <2>4. d = IF e.readSet \cap writes[started + 1] # {} /\ e.version < started + 1
            THEN EnsureCurrent(e, started + 1) ELSE e
    BY <1>2, <2>1, <2>3 DEF ProcessPublication, Affected
  <2>5. EntryInv(q, d)'
    BY <1>1, <1>2, <2>2, <2>4, PublicationFits
  <2> QED
    BY <2>3, <2>5
<1> QED
  BY <1>1, <1>2, <1>3, <1>4 DEF ReactiveInv

(* entryFor and ensureCurrent, for a subscription or a convergence.        *)
LEMMA RequireInv ==
  ASSUME ReactiveAssumption, ReactiveInv, NEW q \in Queries,
         NEW target \in 0..highWater, RequireVersion(q, target)
  PROVE  ReactiveInv'
<1>1. DatabaseInv
  BY DEF ReactiveInv
<1>2. /\ UNCHANGED <<highWater, contents, writes, started>>
      /\ DOMAIN entries' = DOMAIN entries \cup {q}
      /\ entries' = [p \in DOMAIN entries' |-> entries'[p]]
      /\ \A p \in DOMAIN entries' : p # q => entries'[p] = entries[p]
      /\ entries'[q] = EnsureCurrent(EntryFor(q), target)
  BY DEF RequireVersion, With
<1>3. /\ generations \in Nat /\ generations' \in Nat /\ generations <= generations'
      /\ highWater \in Nat /\ target \in Nat /\ target <= highWater
  BY <1>1 DEF DatabaseInv, RequireVersion
<1>4. PICK d : d = entries'[q]
  OBVIOUS
<1>5. EntryInv(q, d)'
  <2>1. CASE q \in DOMAIN entries
    <3>1. PICK e : e = entries[q]
      OBVIOUS
    <3>2. EntryInv(q, e) /\ e \in EntryType
      BY <2>1, <3>1 DEF ReactiveInv, EntryInv
    <3>3. e.dirty \in Nat /\ e.version \in Nat /\ e.snapshot \in Nat /\ e.phase \in Phases
          /\ e.dirty <= highWater /\ e.snapshot <= highWater
      BY <3>2 DEF EntryInv, EntryBounds, EntryType
    <3> DEFINE dirty == Larger(e.dirty, target)
               phase == IF (e.initialized /\ e.version >= target) \/ e.phase # "idle"
                        THEN e.phase ELSE "queued"
    <3>4. d = [e EXCEPT !.dirty = dirty, !.phase = phase]
      BY <1>2, <1>4, <2>1, <3>1 DEF EntryFor, EnsureCurrent
    <3>5. dirty \in Nat /\ e.dirty <= dirty /\ dirty <= highWater
      BY <1>3, <3>3 DEF Larger
    <3>6. /\ phase \in Phases
          /\ phase = "delivering" => e.initialized
          /\ phase = "idle" => e.initialized /\ e.phase = "idle"
      BY <3>2, <3>3 DEF EntryInv, Phases
    <3> HIDE DEF dirty, phase
    <3>7. /\ d.dirty = dirty /\ d.phase = phase /\ d.snapshot = e.snapshot
          /\ d = [e EXCEPT !.dirty = d.dirty, !.phase = d.phase, !.snapshot = d.snapshot]
      BY <3>2, <3>4 DEF EntryType
    <3>8. UNCHANGED <<highWater, contents, writes, started, generations>>
      BY <2>1 DEF RequireVersion
    <3>9. Moves(e, d)
      BY <3>3, <3>5, <3>6, <3>7 DEF Moves
    <3> QED
      BY <1>1, <3>2, <3>8, <3>9, EvaluationMoves
  <2>2. CASE q \notin DOMAIN entries
    <3>1. generations' = generations + 1
      BY <2>2 DEF RequireVersion
    <3>2. PICK g \in Nat \ {0} : g = generations'
      BY <1>3, <3>1
    <3>3. d = [FreshEntry(g) EXCEPT !.dirty = target, !.phase = "queued"]
      <4>1. PICK f : f = FreshEntry(g)
        OBVIOUS
      <4>2. f.dirty = 0 /\ f.initialized = FALSE /\ f.phase = "idle"
        BY <4>1 DEF FreshEntry
      <4>3. d = EnsureCurrent(f, target)
        BY <1>2, <1>4, <2>2, <3>1, <3>2, <4>1 DEF EntryFor
      <4>4. Larger(f.dirty, target) = target
        BY <1>3, <4>2 DEF Larger
      <4> QED
        BY <4>1, <4>2, <4>3, <4>4 DEF EnsureCurrent
    <3>4. DatabaseInv'
      BY <1>1, <1>2, <1>3 DEF DatabaseInv, DatabaseChains
    <3> QED
      <4>1. target <= highWater' /\ target \in Nat
        BY <1>2, <1>3
      <4> QED
        BY <3>2, <3>3, <3>4, <4>1, FreshEntryFitsNext
  <2> QED
    BY <2>1, <2>2
<1>6. EntryInv(q, entries[q])'
  BY <1>4, <1>5
<1> QED
  BY <1>2, <1>3, <1>6, OneEntryChanges

(* The snapshot is read and the handler starts.                            *)
LEMMA StartsInv ==
  ASSUME ReactiveInv, NEW q \in Queries, EvaluationStarts(q)
  PROVE  ReactiveInv'
<1>1. DatabaseInv /\ q \in DOMAIN entries
  BY DEF ReactiveInv, EvaluationStarts
<1>2. PICK e : e = entries[q]
  OBVIOUS
<1>3. PICK d : d = [e EXCEPT !.phase = "running", !.snapshot = highWater]
  OBVIOUS
<1>4. EntryInv(q, e) /\ e \in EntryType
  BY <1>1, <1>2 DEF ReactiveInv, EntryInv
<1>5. /\ d.dirty = e.dirty /\ d.phase = "running" /\ d.snapshot = highWater
      /\ d = [e EXCEPT !.dirty = d.dirty, !.phase = d.phase, !.snapshot = d.snapshot]
  BY <1>3, <1>4 DEF EntryType
<1>6. e.dirty \in Nat /\ e.dirty <= highWater /\ highWater \in Nat
  BY <1>1, <1>4 DEF EntryInv, EntryBounds, EntryType, DatabaseInv
<1>7. /\ UNCHANGED <<highWater, contents, writes, started, generations>>
      /\ entries' = [entries EXCEPT ![q] = d]
  BY <1>2, <1>3 DEF EvaluationStarts
<1>8. Moves(e, d)
  BY <1>5, <1>6 DEF Moves, Phases
<1>9. EntryInv(q, d)'
  BY <1>1, <1>4, <1>7, <1>8, EvaluationMoves
<1> QED
  BY <1>1, <1>7, <1>9, OneEntryReplaced

(* compareAndInstall refuses and the evaluation starts over.               *)
LEMMA StaleInv ==
  ASSUME ReactiveInv, NEW q \in Queries, EvaluationStale(q)
  PROVE  ReactiveInv'
<1>1. DatabaseInv /\ q \in DOMAIN entries
  BY DEF ReactiveInv, EvaluationStale
<1>2. PICK e : e = entries[q]
  OBVIOUS
<1>3. PICK d : d = [e EXCEPT !.dirty = Larger(@, highWater), !.phase = "queued",
                             !.snapshot = 0]
  OBVIOUS
<1>4. EntryInv(q, e) /\ e \in EntryType
  BY <1>1, <1>2 DEF ReactiveInv, EntryInv
<1>5. /\ d.dirty = Larger(e.dirty, highWater) /\ d.phase = "queued" /\ d.snapshot = 0
      /\ d = [e EXCEPT !.dirty = d.dirty, !.phase = d.phase, !.snapshot = d.snapshot]
  BY <1>3, <1>4 DEF EntryType
<1>6. e.dirty \in Nat /\ e.dirty <= highWater /\ highWater \in Nat
  BY <1>1, <1>4 DEF EntryInv, EntryBounds, EntryType, DatabaseInv
<1>7. /\ UNCHANGED <<highWater, contents, writes, started, generations>>
      /\ entries' = [entries EXCEPT ![q] = d]
  BY <1>2, <1>3 DEF EvaluationStale
<1>8. d.dirty \in Nat /\ e.dirty <= d.dirty /\ d.dirty <= highWater
  BY <1>5, <1>6 DEF Larger
<1>9. Moves(e, d)
  BY <1>5, <1>6, <1>8 DEF Moves, Phases
<1>10. EntryInv(q, d)'
  BY <1>1, <1>4, <1>7, <1>9, EvaluationMoves
<1> QED
  BY <1>1, <1>7, <1>10, OneEntryReplaced

(* The listeners have been served; an entry that rests is at the high      *)
(* water.                                                                  *)
LEMMA EndsInv ==
  ASSUME ReactiveInv, NEW q \in Queries, EvaluationEnds(q)
  PROVE  ReactiveInv'
<1>1. DatabaseInv /\ q \in DOMAIN entries /\ entries[q].phase = "delivering"
  BY DEF ReactiveInv, EvaluationEnds
<1>2. PICK e : e = entries[q]
  OBVIOUS
<1> DEFINE dirty == Larger(e.dirty, highWater)
           phase == IF e.version < dirty THEN "queued" ELSE "idle"
<1>3. PICK d : d = [e EXCEPT !.dirty = dirty, !.phase = phase]
  OBVIOUS
<1>4. EntryInv(q, e) /\ e \in EntryType
  BY <1>1, <1>2 DEF ReactiveInv, EntryInv
<1>5. /\ e.dirty \in Nat /\ e.dirty <= highWater /\ highWater \in Nat /\ e.version \in Nat
      /\ e.snapshot \in Nat /\ e.snapshot <= highWater /\ started \in Nat
      /\ started <= highWater /\ e.initialized
  BY <1>1, <1>2, <1>4 DEF EntryInv, EntryBounds, EntryType, DatabaseInv
<1>6. dirty = highWater /\ phase \in Phases /\ phase # "delivering"
      /\ (phase = "idle" => e.version >= started)
  BY <1>5 DEF Larger, Phases
<1>7. /\ UNCHANGED <<highWater, contents, writes, started, generations>>
      /\ entries' = [entries EXCEPT ![q] = d]
  BY <1>2, <1>3 DEF EvaluationEnds, Released
<1> HIDE DEF dirty, phase
<1>8. /\ d.dirty = dirty /\ d.phase = phase /\ d.snapshot = e.snapshot
      /\ d = [e EXCEPT !.dirty = d.dirty, !.phase = d.phase, !.snapshot = d.snapshot]
  BY <1>3, <1>4 DEF EntryType
<1>9. Moves(e, d)
  BY <1>5, <1>6, <1>8 DEF Moves
<1>10. EntryInv(q, d)'
  BY <1>1, <1>4, <1>7, <1>9, EvaluationMoves
<1> QED
  BY <1>1, <1>7, <1>10, OneEntryReplaced

(* compareAndInstall succeeds: installEvaluation.                          *)
LEMMA InstallsInv ==
  ASSUME ReactiveAssumption, ReactiveInv, NEW q \in Queries, NEW kept \in BOOLEAN,
         EvaluationInstalls(q, kept)
  PROVE  ReactiveInv'
<1>1. DatabaseInv /\ q \in DOMAIN entries /\ entries[q].snapshot = highWater
  BY DEF ReactiveInv, EvaluationInstalls, CanInstall
<1>2. PICK e : e = entries[q]
  OBVIOUS
<1>3. EntryInv(q, e)
  BY <1>1, <1>2 DEF ReactiveInv
<1>4. PICK d : d = Installed(q, kept)
  OBVIOUS
<1>5. d = InstallOver(e, Result(q, contents[highWater]), highWater,
                      ReadKeys(q, contents[highWater]), kept)
  BY <1>1, <1>2, <1>4 DEF Installed
<1>6. /\ UNCHANGED <<highWater, contents, writes, started>>
      /\ generations' = IF kept THEN generations ELSE generations + 1
      /\ DOMAIN entries' = DOMAIN entries
      /\ entries' = [p \in DOMAIN entries' |-> entries'[p]]
      /\ \A p \in DOMAIN entries' : p # q => entries'[p] = entries[p]
      /\ entries'[q] = d
  BY <1>1, <1>4 DEF EvaluationInstalls, With
<1>7. EntryInv(q, d)'
  BY <1>1, <1>3, <1>5, <1>6, InstallFits
<1>8. EntryInv(q, entries[q])'
  BY <1>6, <1>7
<1>9. generations' \in Nat /\ generations <= generations'
  BY <1>1, <1>6 DEF DatabaseInv
<1> QED
  BY <1>6, <1>8, <1>9, OneEntryChanges

(* removeEntry, after a failure or for want of capacity.                   *)
LEMMA RemovedInv ==
  ASSUME ReactiveInv, NEW q \in Queries, entries' = Without(q),
         UNCHANGED <<highWater, contents, writes, started, generations>>
  PROVE  ReactiveInv'
<1>1. /\ DOMAIN entries' = DOMAIN entries \ {q}
      /\ entries' = [p \in DOMAIN entries' |-> entries'[p]]
      /\ \A p \in DOMAIN entries' : p # q => entries'[p] = entries[p]
  BY DEF Without
<1>2. generations' \in Nat /\ generations <= generations'
  BY DEF ReactiveInv, DatabaseInv
<1> QED
  BY <1>1, <1>2, OneEntryChanges

(* The oldest transition expires or makes room.                            *)
LEMMA PrunedInv ==
  ASSUME ReactiveAssumption, ReactiveInv, NEW q \in Queries, HistoryPruned(q)
  PROVE  ReactiveInv'
<1>1. DatabaseInv /\ q \in DOMAIN entries
  BY DEF ReactiveInv, HistoryPruned
<1>2. PICK e : e = entries[q]
  OBVIOUS
<1>3. EntryInv(q, e) /\ e.history # <<>>
  BY <1>1, <1>2 DEF ReactiveInv, HistoryPruned
<1>4. PICK d : d = [e EXCEPT !.history = Tail(@)]
  OBVIOUS
<1>5. /\ UNCHANGED <<highWater, contents, writes, started, generations>>
      /\ entries' = [entries EXCEPT ![q] = d]
  BY <1>2, <1>4 DEF HistoryPruned
<1>6. EntryInv(q, d)'
  BY <1>1, <1>3, <1>4, <1>5, HistoryShrinks
<1> QED
  BY <1>1, <1>5, <1>6, OneEntryReplaced

(* Every step keeps the invariant.                                         *)
LEMMA NextInv ==
  ASSUME ReactiveAssumption, ReactiveInv, [ReactiveNext]_reactiveVars
  PROVE  ReactiveInv'
<1>1. ASSUME NEW u \in Updates, Commit(u) PROVE ReactiveInv'
  BY <1>1, CommitInv
<1>2. ASSUME ProcessPublication PROVE ReactiveInv'
  BY <1>2, PublicationInv
<1>3. ASSUME NEW q \in Queries, NEW target \in 0..highWater, RequireVersion(q, target)
      PROVE  ReactiveInv'
  BY <1>3, RequireInv
<1>4. ASSUME NEW q \in Queries, EvaluationStarts(q) PROVE ReactiveInv'
  BY <1>4, StartsInv
<1>5. ASSUME NEW q \in Queries, EvaluationStale(q) PROVE ReactiveInv'
  BY <1>5, StaleInv
<1>6. ASSUME NEW q \in Queries, NEW kept \in BOOLEAN, EvaluationInstalls(q, kept)
      PROVE  ReactiveInv'
  BY <1>6, InstallsInv
<1>7. ASSUME NEW q \in Queries, EvaluationFails(q) PROVE ReactiveInv'
  BY <1>7, RemovedInv DEF EvaluationFails
<1>8. ASSUME NEW q \in Queries, EvaluationEnds(q) PROVE ReactiveInv'
  BY <1>8, EndsInv
<1>9. ASSUME NEW q \in Queries, HistoryPruned(q) PROVE ReactiveInv'
  BY <1>9, PrunedInv
<1>10. ASSUME NEW q \in Queries, EntryEvicted(q) PROVE ReactiveInv'
  BY <1>10, RemovedInv DEF EntryEvicted
<1>11. CASE UNCHANGED reactiveVars
  <2>1. UNCHANGED <<highWater, contents, writes, started, generations>> /\ entries' = entries
    BY <1>11 DEF reactiveVars
  <2>2. DatabaseInv'
    BY <2>1 DEF ReactiveInv, DatabaseInv, DatabaseChains
  <2>3. ASSUME NEW q \in DOMAIN entries' PROVE EntryInv(q, entries[q])'
    <3>1. PICK e : e = entries[q]
      OBVIOUS
    <3>2. EntryInv(q, e) /\ generations \in Nat
      BY <2>1, <3>1 DEF ReactiveInv, DatabaseInv
    <3>3. EntryInv(q, e)'
      BY <2>1, <3>2, EntryStands
    <3> QED
      BY <2>1, <3>1, <3>3
  <2> QED
    BY <2>1, <2>2, <2>3 DEF ReactiveInv
<1> QED
  BY <1>1, <1>2, <1>3, <1>4, <1>5, <1>6, <1>7, <1>8, <1>9, <1>10, <1>11 DEF ReactiveNext

(* ReactiveInv holds in every reachable state.                             *)
THEOREM ReactiveInvHolds == ReactiveSpec => []ReactiveInv
<1>1. ReactiveInit => ReactiveInv
  BY InitInv, ReactiveAssumption
<1>2. ReactiveInv /\ [ReactiveNext]_reactiveVars => ReactiveInv'
  BY NextInv, ReactiveAssumption
<1> QED
  BY <1>1, <1>2, PTL DEF ReactiveSpec

-----------------------------------------------------------------------------
(* The types and bounds of the reactive state hold in every reachable      *)
(* state.                                                                  *)
THEOREM ReactiveTypeOKHolds == ReactiveSpec => []ReactiveTypeOK
<1>1. ReactiveInv => ReactiveTypeOK
  BY DEF ReactiveInv, DatabaseInv, EntryInv, ReactiveTypeOK
<1> QED
  BY <1>1, ReactiveInvHolds, PTL

(* An entry is exact at the version it claims, whatever commits race its   *)
(* evaluations.                                                            *)
THEOREM EntryExactHolds == ReactiveSpec => []EntryExact
<1>1. ReactiveInv => EntryExact
  BY DEF ReactiveInv, EntryInv, Exact, EntryExact
<1> QED
  BY <1>1, ReactiveInvHolds, PTL

(* No processed write to a key an entry read is missed.                    *)
THEOREM NoMissedWriteHolds == ReactiveSpec => []NoMissedWrite
<1>1. ReactiveInv => NoMissedWrite
  BY DEF ReactiveInv, EntryInv, MissesNothing, NoMissedWrite
<1> QED
  BY <1>1, ReactiveInvHolds, PTL

(* The retained history is an unbroken, truthful chain to the entry's      *)
(* version.                                                                *)
THEOREM HistoryHonestHolds == ReactiveSpec => []HistoryHonest
<1>1. ReactiveInv => HistoryHonest
  <2> SUFFICES ASSUME ReactiveInv, NEW q \in DOMAIN entries,
                      NEW i \in DOMAIN entries[q].history
               PROVE  LET e == entries[q]
                          h == e.history
                      IN  /\ h[i].from < h[i].to
                          /\ h[i].to = IF i = Len(h) THEN e.version ELSE h[i + 1].from
                          /\ h[i].result = Result(q, contents[h[i].to])
                          /\ h[i].changed <=> h[i].result # Result(q, contents[h[i].from])
    BY DEF HistoryHonest
  <2>1. EntryInv(q, entries[q])
    BY DEF ReactiveInv
  <2>2. entries[q].history \in Seq(RecordType)
    BY <2>1 DEF EntryInv, EntryType
  <2>3. i \in 1..Len(entries[q].history)
    BY <2>2
  <2> QED
    BY <2>1, <2>3 DEF EntryInv, Honest
<1> QED
  BY <1>1, ReactiveInvHolds, PTL

(* An entry at rest answers for the latest processed publication.          *)
THEOREM RestingEntryIsCurrentHolds == ReactiveSpec => []RestingEntryIsCurrent
<1>1. ReactiveInv => RestingEntryIsCurrent
  <2> SUFFICES ASSUME ReactiveInv, NEW q \in DOMAIN entries, entries[q].phase = "idle"
               PROVE  /\ entries[q].initialized
                      /\ entries[q].result
                           = Result(q, contents[Larger(entries[q].version, started)])
    BY DEF RestingEntryIsCurrent
  <2>1. PICK e : e = entries[q]
    OBVIOUS
  <2>2. EntryInv(q, e) /\ q \in Queries /\ DatabaseInv /\ e.phase = "idle"
    BY <2>1 DEF ReactiveInv
  <2>3. /\ e.initialized /\ e.version \in 0..highWater /\ started \in 0..highWater
        /\ e.version \in Nat /\ started \in Nat
    BY <2>2 DEF EntryInv, EntryType, EntryBounds, DatabaseInv
  <2>4. /\ e.result = Result(q, contents[e.version])
        /\ e.readSet = ReadKeys(q, contents[e.version])
    BY <2>2, <2>3 DEF EntryInv, Exact
  <2>5. CASE e.version >= started
    BY <2>1, <2>3, <2>4, <2>5 DEF Larger
  <2>6. CASE e.version < started
    <3>1. \A w \in 1..started : w > e.version => writes[w] \cap e.readSet = {}
      BY <2>2, <2>3 DEF EntryInv, MissesNothing
    <3>2. \A k \in e.readSet : contents[started][k] = contents[e.version][k]
      BY <2>2, <2>3, <2>6, <3>1 DEF EntryInv, Agrees
    <3>3. PICK c \in Content : c = contents[e.version]
      BY <2>2, <2>3 DEF DatabaseInv
    <3>4. PICK d \in Content : d = contents[started]
      BY <2>2, <2>3 DEF DatabaseInv
    <3>5. \A k \in ReadKeys(q, c) : c[k] = d[k]
      BY <2>4, <3>2, <3>3, <3>4
    <3>6. ReadKeys(q, d) = ReadKeys(q, c)
      BY <2>2, <3>5, ReactiveAssumption DEF ReactiveAssumption
    <3>7. [k \in ReadKeys(q, d) |-> d[k]] = [k \in ReadKeys(q, c) |-> c[k]]
      BY <3>5, <3>6
    <3>8. Result(q, d) = Result(q, c)
      BY <3>7 DEF Result
    <3>9. Larger(e.version, started) = started
      BY <2>3, <2>6 DEF Larger
    <3> QED
      BY <2>1, <2>3, <2>4, <3>3, <3>4, <3>8, <3>9
  <2> QED
    BY <2>3, <2>5, <2>6
<1> QED
  BY <1>1, ReactiveInvHolds, PTL
=============================================================================
