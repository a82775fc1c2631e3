------------------------------ MODULE Reactive ------------------------------
(***************************************************************************)
(* OrderedReactive: the shared query entries and their evaluations.        *)
(*                                                                         *)
(* An entry holds the result of one query at one commit version, with the  *)
(* keys the query read.  Publications are processed in version order (see  *)
(* Publication): each one marks the entries that read a written key as     *)
(* dirty and makes sure an evaluation is on its way.  An evaluation reads  *)
(* a SQLite snapshot, and is installed only if no commit happened since.   *)
(*                                                                         *)
(* The database is kept here as the content at every commit version, so    *)
(* that what an entry holds can be compared with what the query returns    *)
(* at that version.  The listeners of an entry are in Subscriptions; this  *)
(* module leaves open when they have been served.                          *)
(*                                                                         *)
(* COMMIT and reservation.commit are one synchronous step, so a snapshot   *)
(* never carries a version above the high water of publication.            *)
(***************************************************************************)
EXTENDS Integers, Sequences

CONSTANTS
  Queries,          (* entry keys: address, arguments and policy scope       *)
  Keys,             (* dependency keys                                       *)
  Values,           (* what a key may hold                                   *)
  Updates,          (* the writes of a commit: functions on a set of keys    *)
  ReadKeys(_, _),   (* the keys query q reads on content c                   *)
  IsErr(_, _),      (* q returns an application error for what it read       *)
  MaxTransitions,   (* resume.maxTransitionsPerStream                        *)
  VersionBound,     (* bound of the model: number of commits                 *)
  GenerationBound   (* bound of the model: number of stream generations      *)

Content == [Keys -> Values]

(* A query is a function of what it reads: two contents that agree on the  *)
(* keys read on one of them are read, and answered, alike.                 *)
ASSUME ReactiveAssumption ==
  /\ MaxTransitions \in Nat \ {0}
  /\ VersionBound \in Nat
  /\ GenerationBound \in Nat
  /\ \A u \in Updates : DOMAIN u \subseteq Keys
                        /\ \A k \in DOMAIN u : u[k] \in Values
  /\ \A q \in Queries, c \in Content : ReadKeys(q, c) \subseteq Keys
  /\ \A q \in Queries, c, d \in Content :
       (\A k \in ReadKeys(q, c) : c[k] = d[k]) => ReadKeys(q, d) = ReadKeys(q, c)
  /\ \A q \in Queries, c \in Content :
       IsErr(q, [k \in ReadKeys(q, c) |-> c[k]]) \in BOOLEAN

VARIABLES
  highWater,        (* committedHighWater, the durable commit version        *)
  contents,         (* commit version -> content of the database             *)
  writes,           (* commit version -> keys written by that commit         *)
  started,          (* startedHighWater: publications processed so far       *)
  entries,          (* the live entries: query -> entry                      *)
  generations       (* number of generations handed out                      *)

reactiveVars == <<highWater, contents, writes, started, entries, generations>>

(***************************************************************************)
(* Results and entries.                                                    *)
(***************************************************************************)

Result(q, c) ==
  LET read == [k \in ReadKeys(q, c) |-> c[k]]
  IN  [err |-> IsErr(q, read), data |-> read]

NoResult == [err |-> FALSE, data |-> [k \in {} |-> 0]]

(* "idle": no evaluation; "queued": submitted to the revalidation          *)
(* executor; "running": the snapshot is read and the handler runs;         *)
(* "delivering": installed, its listeners are being served.                *)
Phases == {"idle", "queued", "running", "delivering"}

FreshEntry(g) ==
  [born        |-> g,        (* the first generation: identifies the object *)
   generation  |-> g,
   initialized |-> FALSE,
   result      |-> NoResult,
   version     |-> 0,
   dirty       |-> 0,
   readSet     |-> {},
   history     |-> <<>>,
   phase       |-> "idle",
   snapshot    |-> 0]

Larger(a, b) == IF a >= b THEN a ELSE b

EnsureCurrent(e, target) ==
  [e EXCEPT !.dirty = Larger(@, target),
            !.phase = IF (e.initialized /\ e.version >= target) \/ @ # "idle"
                      THEN @ ELSE "queued"]

Without(q) == [p \in DOMAIN entries \ {q} |-> entries[p]]

With(q, e) == [p \in DOMAIN entries \cup {q} |-> IF p = q THEN e ELSE entries[p]]

ReactiveInit ==
  /\ highWater = 0
  /\ contents \in [{0} -> Content]
  /\ writes = [v \in {} |-> {}]
  /\ started = 0
  /\ entries = [q \in {} |-> FreshEntry(0)]
  /\ generations = 0

(***************************************************************************)
(* The writer and the ordered publications.                                *)
(***************************************************************************)

Commit(u) ==
  /\ highWater < VersionBound
  /\ highWater' = highWater + 1
  /\ contents' = [v \in 0..highWater + 1 |->
                    IF v <= highWater THEN contents[v]
                    ELSE [k \in Keys |-> IF k \in DOMAIN u THEN u[k]
                                         ELSE contents[highWater][k]]]
  /\ writes' = [v \in 1..highWater + 1 |->
                  IF v <= highWater THEN writes[v] ELSE DOMAIN u]
  /\ UNCHANGED <<started, entries, generations>>

Affected(v) ==
  {q \in DOMAIN entries :
     entries[q].readSet \cap writes[v] # {} /\ entries[q].version < v}

ProcessPublication ==
  /\ started < highWater
  /\ started' = started + 1
  /\ entries' = [q \in DOMAIN entries |->
                   IF q \in Affected(started + 1)
                   THEN EnsureCurrent(entries[q], started + 1) ELSE entries[q]]
  /\ UNCHANGED <<highWater, contents, writes, generations>>

(***************************************************************************)
(* Entries are created by a subscription, which asks for the high water,   *)
(* or asked to reach a version by converge.                                *)
(***************************************************************************)

EntryFor(q) ==
  IF q \in DOMAIN entries THEN entries[q] ELSE FreshEntry(generations + 1)

RequireVersion(q, target) ==
  /\ q \in DOMAIN entries \/ generations < GenerationBound
  /\ entries' = With(q, EnsureCurrent(EntryFor(q), target))
  /\ generations' = IF q \in DOMAIN entries THEN generations ELSE generations + 1
  /\ UNCHANGED <<highWater, contents, writes, started>>

(***************************************************************************)
(* Evaluation.                                                             *)
(***************************************************************************)

EvaluationStarts(q) ==
  /\ q \in DOMAIN entries
  /\ entries[q].phase = "queued"
  /\ entries' = [entries EXCEPT ![q].phase = "running", ![q].snapshot = highWater]
  /\ UNCHANGED <<highWater, contents, writes, started, generations>>

(* A plausible slip: dropping the refused evaluation.                      *)
EvaluationStale_GivesUp(q) ==
  /\ q \in DOMAIN entries
  /\ entries[q].phase = "running"
  /\ entries[q].snapshot # highWater
  /\ entries' = [entries EXCEPT ![q].phase = "idle", ![q].snapshot = 0]
  /\ UNCHANGED <<highWater, contents, writes, started, generations>>

(* A commit happened while the handler ran: compareAndInstall refuses, and *)
(* release starts over for the new high water.                             *)
EvaluationStale(q) ==
  /\ q \in DOMAIN entries
  /\ entries[q].phase = "running"
  /\ entries[q].snapshot # highWater
  /\ entries' = [entries EXCEPT ![q].dirty = Larger(@, highWater),
                                ![q].phase = "queued", ![q].snapshot = 0]
  /\ UNCHANGED <<highWater, contents, writes, started, generations>>

Retained(h, record) ==
  Append(IF Len(h) >= MaxTransitions THEN Tail(h) ELSE h, record)

(* A plausible slip: comparing only whether there is an application error. *)
Changed_ErrOnly(e, r) == e.result.err # r.err

Changed(e, r) == e.result # r

(* installEvaluation of result r, read at version `at` from these keys.    *)
(* `kept` is whether the transition fits the history; when it does not,    *)
(* the history is cleared and the generation rotates.                      *)
InstallOver(e, r, at, keys, kept) ==
  [born        |-> e.born,
   generation  |-> IF kept THEN e.generation ELSE generations + 1,
   initialized |-> TRUE,
   result      |-> r,
   version     |-> at,
   dirty       |-> e.dirty,
   readSet     |-> keys,
   history     |-> IF ~kept THEN <<>>
                   ELSE IF e.initialized /\ at > e.version
                   THEN Retained(e.history, [from |-> e.version, to |-> at,
                                             changed |-> Changed(e, r), result |-> r])
                   ELSE e.history,
   phase       |-> "delivering",
   snapshot    |-> 0]

Installed(q, kept) ==
  LET e == entries[q]
      c == contents[e.snapshot]
  IN  InstallOver(e, Result(q, c), e.snapshot, ReadKeys(q, c), kept)

CanInstall(q) ==
  /\ q \in DOMAIN entries
  /\ entries[q].phase = "running"
  /\ entries[q].snapshot = highWater

EvaluationInstalls(q, kept) ==
  /\ CanInstall(q)
  /\ ~kept => /\ entries[q].initialized
              /\ entries[q].snapshot > entries[q].version
              /\ generations < GenerationBound
  /\ entries' = With(q, Installed(q, kept))
  /\ generations' = IF kept THEN generations ELSE generations + 1
  /\ UNCHANGED <<highWater, contents, writes, started>>

(* The handler, the executor or the result capacity refuses: the entry is  *)
(* removed, whether or not it has listeners.  (No entry is removed at the  *)
(* bound on generations, so that it can be made again.)                    *)
EvaluationFails(q) ==
  /\ generations < GenerationBound
  /\ q \in DOMAIN entries
  /\ entries[q].phase \in {"queued", "running"}
  /\ entries' = Without(q)
  /\ UNCHANGED <<highWater, contents, writes, started, generations>>

(* A plausible slip: not looking at what became dirty meanwhile.           *)
Released_Forgets(e) == [e EXCEPT !.phase = "idle"]

(* The listeners have been served: evaluateOnce looks at the high water    *)
(* once more, and release starts over if it moved.                         *)
Released(e) ==
  LET dirty == Larger(e.dirty, highWater)
  IN  [e EXCEPT !.dirty = dirty,
                !.phase = IF e.version < dirty THEN "queued" ELSE "idle"]

EvaluationEnds(q) ==
  /\ q \in DOMAIN entries
  /\ entries[q].phase = "delivering"
  /\ entries' = [entries EXCEPT ![q] = Released(@)]
  /\ UNCHANGED <<highWater, contents, writes, started, generations>>

(***************************************************************************)
(* Time: transitions and dormant entries expire, or make room for others.  *)
(***************************************************************************)

HistoryPruned(q) ==
  /\ q \in DOMAIN entries
  /\ entries[q].history # <<>>
  /\ entries' = [entries EXCEPT ![q].history = Tail(@)]
  /\ UNCHANGED <<highWater, contents, writes, started, generations>>

EntryEvicted(q) ==
  /\ generations < GenerationBound
  /\ q \in DOMAIN entries
  /\ entries[q].phase = "idle"
  /\ entries' = Without(q)
  /\ UNCHANGED <<highWater, contents, writes, started, generations>>

ReactiveNext ==
  \/ \E u \in Updates : Commit(u)
  \/ ProcessPublication
  \/ \E q \in Queries, target \in 0..highWater : RequireVersion(q, target)
  \/ \E q \in Queries :
       \/ EvaluationStarts(q)
       \/ EvaluationStale(q)
       \/ \E kept \in BOOLEAN : EvaluationInstalls(q, kept)
       \/ EvaluationFails(q)
       \/ EvaluationEnds(q)
       \/ HistoryPruned(q)
       \/ EntryEvicted(q)

ReactiveSpec == ReactiveInit /\ [][ReactiveNext]_reactiveVars

(***************************************************************************)
(* Properties.                                                             *)
(***************************************************************************)

Results == [err : BOOLEAN, data : UNION {[S -> Values] : S \in SUBSET Keys}]

RecordType == [from : Nat, to : Nat, changed : BOOLEAN, result : Results]

EntryType ==
  [born : Nat, generation : Nat, initialized : BOOLEAN, result : Results,
   version : Nat, dirty : Nat, readSet : SUBSET Keys, history : Seq(RecordType),
   phase : Phases, snapshot : Nat]

EntryBounds(e) ==
  /\ e.born \in 1..generations /\ e.generation \in 1..generations
  /\ e.version <= highWater /\ e.dirty <= highWater /\ e.snapshot <= highWater
  /\ Len(e.history) <= MaxTransitions

(* The types and bounds of the reactive state; no stream retains more than *)
(* maxTransitionsPerStream records.                                        *)
ReactiveTypeOK ==
  /\ highWater \in Nat
  /\ contents \in [0..highWater -> Content]
  /\ writes \in [1..highWater -> SUBSET Keys]
  /\ started \in 0..highWater
  /\ generations \in Nat
  /\ DOMAIN entries \subseteq Queries
  /\ entries \in [DOMAIN entries -> EntryType]
  /\ \A q \in DOMAIN entries : EntryBounds(entries[q])

(* What an entry holds is what its query returns at the version the entry  *)
(* claims, and its dependency keys are the keys read there: a result is    *)
(* never installed under another version (compareAndInstall).              *)
EntryExact ==
  \A q \in DOMAIN entries :
    LET e == entries[q]
    IN  e.initialized =>
          /\ e.result = Result(q, contents[e.version])
          /\ e.readSet = ReadKeys(q, contents[e.version])

(* No publication is missed: once a commit that wrote a key the entry read *)
(* has been processed, the entry includes it or an evaluation is under way *)
(* that will not end before it does (processPublication, release).         *)
NoMissedWrite ==
  \A q \in DOMAIN entries : \A v \in 1..started :
    LET e == entries[q]
    IN  e.initialized /\ v > e.version /\ writes[v] \cap e.readSet # {}
          => e.phase # "idle" /\ e.dirty >= v

(* An entry at rest answers for the latest processed publication, not only *)
(* for the older version it carries: the commits it skipped did not matter *)
(* to it.  This is what lets a listener trust a stream that says nothing.  *)
RestingEntryIsCurrent ==
  \A q \in DOMAIN entries :
    entries[q].phase = "idle" =>
      /\ entries[q].initialized
      /\ entries[q].result = Result(q, contents[Larger(entries[q].version, started)])

(* The retained history is one unbroken chain that ends at the entry's     *)
(* version, each record tells the result at its end, and a checkpoint is   *)
(* only used where the result did not change (retain, prune, clear).       *)
HistoryHonest ==
  \A q \in DOMAIN entries :
    LET e == entries[q]
        h == e.history
    IN  \A i \in DOMAIN h :
          /\ h[i].from < h[i].to
          /\ h[i].to = IF i = Len(h) THEN e.version ELSE h[i + 1].from
          /\ h[i].result = Result(q, contents[h[i].to])
          /\ h[i].changed <=> h[i].result # Result(q, contents[h[i].from])
=============================================================================
