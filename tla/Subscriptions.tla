--------------------------- MODULE Subscriptions ---------------------------
(***************************************************************************)
(* Query subscriptions end to end: the listeners OrderedReactive attaches  *)
(* to an entry, the transitions it sends them, the session store's claim   *)
(* on a subscription id, and the client that holds a cursor and applies a  *)
(* transition only when it continues that cursor.                          *)
(*                                                                         *)
(* Each client has one subscription.  A transition waits in the listener's *)
(* delivery queue, is transmitted (the client receives it at that moment), *)
(* and is settled when the transport accepted it, which is when the        *)
(* listener's cursor moves.  Between the three, anything may happen.       *)
(* Frames the other way travel separately: a reset request is handled some *)
(* time after the client asked.                                            *)
(***************************************************************************)
EXTENDS Reactive

CONSTANTS
  Clients,
  QueryOf,           (* the query each client subscribes to                  *)
  FailureBound,      (* bound of the model: failed evaluations               *)
  DisconnectBound,   (* bound of the model: lost connections                 *)
  UnsubscribeBound   (* bound of the model: subscriptions given up           *)

ASSUME SubscriptionsAssumption ==
  /\ QueryOf \in [Clients -> Queries]
  /\ {FailureBound, DisconnectBound, UnsubscribeBound} \subseteq Nat

VARIABLES
  listeners,     (* client -> [attached, cursor, queue]                      *)
  subscribing,   (* client -> the entry its subscribeQuery awaits, 0 if none *)
  claimed,       (* client -> the session store holds its subscription id    *)
  resets,        (* client -> reset requests on their way to the server      *)
  client,        (* client -> [status, cursor, result, resetRequested]       *)
  failures, disconnects, unsubscribes

serverVars == <<listeners, subscribing, claimed, resets>>
counters == <<failures, disconnects, unsubscribes>>
subscriptionVars == <<reactiveVars, serverVars, client, counters>>

(***************************************************************************)
(* Cursors and transitions.                                                *)
(***************************************************************************)

(* Generations start at 1, so no entry has this cursor.                    *)
NoCursor == [generation |-> 0, version |-> 0]

(* What a reset carries for an entry that holds an application error: the  *)
(* entry's value is undefined.                                             *)
Undefined == [err |-> FALSE, data |-> "undefined"]

Cursor(e) == [generation |-> e.generation, version |-> e.version]

Transition(kind, from, to, result) ==
  [kind |-> kind, from |-> from, to |-> to, result |-> result]

(* The records of h from version `from` to version `to`; <<>> if they are  *)
(* not all there.  The records are contiguous (HistoryHonest), so the run  *)
(* is found by its two ends.                                               *)
Chain(h, from, to) ==
  IF \E i, j \in DOMAIN h : i <= j /\ h[i].from = from /\ h[j].to = to
  THEN LET i == CHOOSE i \in DOMAIN h : h[i].from = from
           j == CHOOSE j \in DOMAIN h : h[j].to = to
       IN  SubSeq(h, i, j)
  ELSE <<>>

Step(e, record) ==
  Transition(IF ~record.changed THEN "checkpoint"
             ELSE IF record.result.err THEN "application-error" ELSE "update",
             [generation |-> e.generation, version |-> record.from],
             [generation |-> e.generation, version |-> record.to],
             record.result)

Authoritative(e, from) ==
  Transition(IF e.result.err THEN "application-error" ELSE "reset",
             from, Cursor(e), e.result)

(* deliverQuery: what is sent to a listener whose cursor is `from`.        *)
Deliveries(e, from, positiveResume, forceReset) ==
  LET chain == IF forceReset \/ from.generation # e.generation THEN <<>>
               ELSE Chain(e.history, from.version, e.version)
  IN  IF from = Cursor(e)
      THEN IF positiveResume THEN <<Transition("resume", from, from, e.result)>>
           ELSE <<>>
      ELSE IF chain # <<>>
           THEN [i \in DOMAIN chain |-> Step(e, chain[i])]
           ELSE <<Authoritative(e, from)>>

(* An element of a delivery queue: a frame, and the transitions the same   *)
(* delivery will queue once this one is settled.                           *)
Item(frame, rest, purpose) ==
  [frame |-> frame, rest |-> rest, purpose |-> purpose, sent |-> FALSE]

Enqueue(l, frames, purpose) ==
  IF frames = <<>> THEN l
  ELSE [l EXCEPT !.queue = Append(@, Item(Head(frames), Tail(frames), purpose))]

Detached == [attached |-> FALSE, cursor |-> NoCursor, queue |-> <<>>]

(* The attached listeners of a query's entry.                              *)
ListenersOf(q) == {c \in Clients : QueryOf[c] = q /\ listeners[c].attached}

Owed(c, purpose) ==
  \E i \in DOMAIN listeners[c].queue : listeners[c].queue[i].purpose = purpose

NewClient == [status |-> "idle", cursor |-> NoCursor, result |-> NoResult,
              resetRequested |-> FALSE]

SubscriptionsInit ==
  /\ ReactiveInit
  /\ listeners = [c \in Clients |-> Detached]
  /\ subscribing = [c \in Clients |-> 0]
  /\ claimed = [c \in Clients |-> FALSE]
  /\ resets = [c \in Clients |-> <<>>]
  /\ client = [c \in Clients |-> NewClient]
  /\ failures = 0 /\ disconnects = 0 /\ unsubscribes = 0

(***************************************************************************)
(* The database and the entries, with the listeners they concern.          *)
(***************************************************************************)

ServerCommits(u) ==
  Commit(u) /\ UNCHANGED <<serverVars, client, counters>>

ServerPublishes ==
  ProcessPublication /\ UNCHANGED <<serverVars, client, counters>>

ServerEvaluates(q) ==
  EvaluationStarts(q) /\ UNCHANGED <<serverVars, client, counters>>

ServerReevaluates(q) ==
  EvaluationStale(q) /\ UNCHANGED <<serverVars, client, counters>>

(* deliverInstalled: a first evaluation has nobody to tell.                *)
ServerInstalls(q, kept) ==
  /\ EvaluationInstalls(q, kept)
  /\ listeners' = [c \in Clients |->
       IF c \in ListenersOf(q) /\ entries[q].initialized
       THEN Enqueue(listeners[c],
                    Deliveries(entries'[q], listeners[c].cursor, FALSE, ~kept),
                    "install")
       ELSE listeners[c]]
  /\ UNCHANGED <<subscribing, claimed, resets, client, counters>>

ServerEnds(q) ==
  /\ EvaluationEnds(q)
  /\ \A c \in Clients : QueryOf[c] = q => ~Owed(c, "install")
  /\ UNCHANGED <<serverVars, client, counters>>

(* A plausible slip: the entry goes and its listeners are not told.        *)
ServerFails_Silently(q) ==
  /\ failures < FailureBound
  /\ failures' = failures + 1
  /\ EvaluationFails(q)
  /\ UNCHANGED <<serverVars, client, disconnects, unsubscribes>>

(* The entry is removed.  A subscribe that awaited its first evaluation is *)
(* answered with the error; listeners are detached and sent the error,     *)
(* while the session store keeps their claim.  The error is retryable.     *)
ServerFails(q) ==
  /\ failures < FailureBound
  /\ failures' = failures + 1
  /\ EvaluationFails(q)
  /\ LET e == entries[q]
         rejected == IF e.initialized THEN {}
                     ELSE {c \in Clients : QueryOf[c] = q /\ subscribing[c] = e.born}
         error == Transition("error", NoCursor, NoCursor, NoResult)
     IN  /\ subscribing' = [c \in Clients |-> IF c \in rejected THEN 0 ELSE subscribing[c]]
         /\ claimed' = [c \in Clients |-> claimed[c] /\ c \notin rejected]
         /\ client' = [c \in Clients |->
              IF c \in rejected THEN [client[c] EXCEPT !.status = "idle"] ELSE client[c]]
         /\ listeners' = [c \in Clients |->
              IF c \in ListenersOf(q)
              THEN Enqueue([listeners[c] EXCEPT !.attached = FALSE], <<error>>, "error")
              ELSE listeners[c]]
  /\ UNCHANGED <<resets, disconnects, unsubscribes>>

ServerPrunes(q) ==
  HistoryPruned(q) /\ UNCHANGED <<serverVars, client, counters>>

(* A plausible slip: an entry is dormant as soon as nobody listens.        *)
ServerEvicts_Busy(q) ==
  /\ ListenersOf(q) = {} /\ q \in DOMAIN entries
  /\ generations < GenerationBound
  /\ entries' = Without(q)
  /\ UNCHANGED <<highWater, contents, writes, started, generations>>
  /\ UNCHANGED <<serverVars, client, counters>>

ServerEvicts(q) ==
  /\ ListenersOf(q) = {}
  /\ EntryEvicted(q)
  /\ UNCHANGED <<serverVars, client, counters>>

(***************************************************************************)
(* Subscribing.                                                            *)
(***************************************************************************)

(* The client sends its subscription with the cursor it retained; the      *)
(* store claims the id, or answers a conflict, which is not retryable.     *)
SubscribeStarts(c) ==
  /\ client[c].status = "idle"
  /\ ~claimed[c]
  /\ RequireVersion(QueryOf[c], highWater)
  /\ claimed' = [claimed EXCEPT ![c] = TRUE]
  /\ subscribing' = [subscribing EXCEPT ![c] = entries'[QueryOf[c]].born]
  /\ client' = [client EXCEPT ![c].status = "open"]
  /\ UNCHANGED <<listeners, resets, counters>>

SubscribeConflicts(c) ==
  /\ client[c].status = "idle"
  /\ claimed[c]
  /\ client' = [client EXCEPT ![c].status = "gone"]
  /\ UNCHANGED <<reactiveVars, serverVars, counters>>

(* The awaited evaluation settled, and no commit came in between: attach,  *)
(* and deliver from the client's cursor.                                   *)
Awaits(c) == QueryOf[c] \in DOMAIN entries /\ entries[QueryOf[c]].born = subscribing[c]

CanAttach(c) ==
  /\ Awaits(c)
  /\ entries[QueryOf[c]].initialized
  /\ entries[QueryOf[c]].version = highWater

SubscribeAttaches(c) ==
  /\ subscribing[c] # 0
  /\ CanAttach(c)
  /\ subscribing' = [subscribing EXCEPT ![c] = 0]
  /\ listeners' = [listeners EXCEPT ![c] =
       Enqueue([attached |-> TRUE, cursor |-> client[c].cursor, queue |-> <<>>],
               Deliveries(entries[QueryOf[c]], client[c].cursor, TRUE, FALSE),
               "control")]
  /\ UNCHANGED <<reactiveVars, claimed, resets, client, counters>>

(* A commit came in between, or the entry was removed: once more.          *)
SubscribeRetries(c) ==
  /\ subscribing[c] # 0
  /\ Awaits(c) => /\ entries[QueryOf[c]].phase = "idle"
                  /\ entries[QueryOf[c]].version < highWater
  /\ RequireVersion(QueryOf[c], highWater)
  /\ subscribing' = [subscribing EXCEPT ![c] = entries'[QueryOf[c]].born]
  /\ UNCHANGED <<listeners, claimed, resets, client, counters>>

(***************************************************************************)
(* The client's side of a transition (applyTransition).                    *)
(***************************************************************************)

Arrived(cl, t) == cl.cursor # NoCursor /\ cl.cursor = t.to

Continues(cl, t) ==
  \/ cl.cursor # NoCursor /\ cl.cursor = t.from
  \/ t.kind = "reset" /\ t.from = NoCursor

(* parseSubscriptionTransition: an application error must stay in its      *)
(* stream when it has a predecessor.  The client gives up on such a frame. *)
Malformed(t) ==
  /\ t.kind = "application-error"
  /\ t.from # NoCursor
  /\ t.from.generation # t.to.generation \/ t.to.version <= t.from.version

Waiting(cl, t) == cl.resetRequested /\ t.kind # "reset"

MustReset(cl, t) ==
  ~Malformed(t) /\ ~Arrived(cl, t) /\ ~Waiting(cl, t) /\ ~Continues(cl, t)

(* The result shown to the application.                                    *)
Shown(cl, t) ==
  IF t.kind \in {"checkpoint", "resume"} THEN cl.result ELSE t.result

(* A plausible slip: applying a transition whatever it continues.          *)
Applied_Unchecked(cl, t) ==
  [cl EXCEPT !.cursor = t.to, !.result = Shown(cl, t), !.resetRequested = FALSE]

Applied(cl, t) ==
  IF Malformed(t) THEN [cl EXCEPT !.status = "gone"]
  ELSE IF Arrived(cl, t)
  THEN [cl EXCEPT !.resetRequested = @ /\ t.kind # "reset"]
  ELSE IF Waiting(cl, t) THEN cl
  ELSE IF ~Continues(cl, t) THEN [cl EXCEPT !.resetRequested = TRUE]
  ELSE [cl EXCEPT !.cursor = t.to, !.result = Shown(cl, t), !.resetRequested = FALSE]

(* requestReset sends the retained cursor; without one it sends the        *)
(* subscription again, which the store answers with a conflict.            *)
Receive(c, t) ==
  IF client[c].status = "gone"
  THEN UNCHANGED <<client, resets>>
  ELSE IF t.kind = "error"
  THEN /\ client' = [client EXCEPT ![c].status = "idle"]
       /\ UNCHANGED resets
  ELSE LET next == Applied(client[c], t)
           asks == MustReset(client[c], t) /\ ~client[c].resetRequested
       IN  IF asks /\ client[c].cursor = NoCursor
           THEN /\ client' = [client EXCEPT ![c] = [next EXCEPT !.status = "gone"]]
                /\ UNCHANGED resets
           ELSE /\ client' = [client EXCEPT ![c] = next]
                /\ resets' = IF asks
                             THEN [resets EXCEPT ![c] = Append(@, client[c].cursor)]
                             ELSE resets

(***************************************************************************)
(* Delivery.                                                               *)
(***************************************************************************)

Transmit(c) ==
  /\ listeners[c].queue # <<>>
  /\ ~Head(listeners[c].queue).sent
  /\ listeners' = [listeners EXCEPT ![c].queue[1].sent = TRUE]
  /\ Receive(c, Head(listeners[c].queue).frame)
  /\ UNCHANGED <<reactiveVars, subscribing, claimed, counters>>

Settled(l) ==
  LET item == Head(l.queue)
      moved == [l EXCEPT !.queue = Tail(@),
                         !.cursor = IF item.frame.kind = "error" THEN @ ELSE item.frame.to]
  IN  Enqueue(moved, item.rest, item.purpose)

Settle(c) ==
  /\ listeners[c].queue # <<>>
  /\ Head(listeners[c].queue).sent
  /\ listeners' = [listeners EXCEPT ![c] = Settled(@)]
  /\ UNCHANGED <<reactiveVars, subscribing, claimed, resets, client, counters>>

(* reset: an authoritative value at the entry's cursor, in the order of    *)
(* the subscription's control operations.                                  *)
ServerResets(c) ==
  /\ resets[c] # <<>>
  /\ subscribing[c] = 0 /\ ~Owed(c, "control")
  /\ resets' = [resets EXCEPT ![c] = Tail(@)]
  /\ IF listeners[c].attached
     THEN LET e == entries[QueryOf[c]]
              value == IF e.result.err THEN Undefined ELSE e.result
          IN  /\ listeners' = [listeners EXCEPT ![c] =
                   Enqueue(@, <<Transition("reset", Head(resets[c]), Cursor(e), value)>>,
                           "control")]
              /\ UNCHANGED client
     ELSE /\ client' = [client EXCEPT ![c].status = "gone"]
          /\ UNCHANGED listeners
  /\ UNCHANGED <<reactiveVars, subscribing, claimed, counters>>

(***************************************************************************)
(* The connection.                                                         *)
(***************************************************************************)

(* The server forgets the session; the client keeps cursor and value, and  *)
(* whether it was waiting for a reset.                                     *)
Disconnected(cl) == IF cl.status = "open" THEN [cl EXCEPT !.status = "idle"] ELSE cl

DropSession(c) ==
  /\ listeners' = [listeners EXCEPT ![c] = Detached]
  /\ subscribing' = [subscribing EXCEPT ![c] = 0]
  /\ claimed' = [claimed EXCEPT ![c] = FALSE]
  /\ resets' = [resets EXCEPT ![c] = <<>>]

Disconnect(c) ==
  /\ disconnects < DisconnectBound
  /\ disconnects' = disconnects + 1
  /\ claimed[c]
  /\ DropSession(c)
  /\ client' = [client EXCEPT ![c] = Disconnected(@)]
  /\ UNCHANGED <<reactiveVars, failures, unsubscribes>>

(* The application gives the subscription up and may make a new one; what  *)
(* is still sent for the old id finds no subscription.                     *)
Unsubscribe(c) ==
  /\ unsubscribes < UnsubscribeBound
  /\ unsubscribes' = unsubscribes + 1
  /\ client[c].status = "open" /\ subscribing[c] = 0
  /\ DropSession(c)
  /\ client' = [client EXCEPT ![c] = NewClient]
  /\ UNCHANGED <<reactiveVars, failures, disconnects>>

ServerStep ==
  \/ ServerPublishes
  \/ \E q \in Queries :
       \/ ServerEvaluates(q)
       \/ ServerReevaluates(q)
       \/ \E kept \in BOOLEAN : ServerInstalls(q, kept)
       \/ ServerEnds(q)
  \/ \E c \in Clients :
       SubscribeAttaches(c) \/ SubscribeRetries(c) \/ Transmit(c) \/ Settle(c)
         \/ ServerResets(c)

SubscriptionsNext ==
  \/ \E u \in Updates : ServerCommits(u)
  \/ ServerStep
  \/ \E q \in Queries : ServerFails(q) \/ ServerPrunes(q) \/ ServerEvicts(q)
  \/ \E c \in Clients :
       SubscribeStarts(c) \/ SubscribeConflicts(c) \/ Disconnect(c) \/ Unsubscribe(c)

SubscriptionsSpec == SubscriptionsInit /\ [][SubscriptionsNext]_subscriptionVars

(* The event loop runs every continuation, the executor every evaluation,  *)
(* the transport every frame; the client's timers send what it must send.  *)
FairSubscriptionsSpec ==
  /\ SubscriptionsSpec
  /\ WF_subscriptionVars(ServerPublishes)
  /\ \A q \in Queries :
       /\ WF_subscriptionVars(ServerEvaluates(q))
       /\ WF_subscriptionVars(ServerReevaluates(q))
       /\ WF_subscriptionVars(\E kept \in BOOLEAN : ServerInstalls(q, kept))
       /\ WF_subscriptionVars(ServerEnds(q))
  /\ \A c \in Clients :
       /\ WF_subscriptionVars(SubscribeStarts(c))
       /\ WF_subscriptionVars(SubscribeAttaches(c))
       /\ WF_subscriptionVars(SubscribeRetries(c))
       /\ WF_subscriptionVars(Transmit(c))
       /\ WF_subscriptionVars(Settle(c))
       /\ WF_subscriptionVars(ServerResets(c))

(***************************************************************************)
(* Properties.                                                             *)
(***************************************************************************)

(* The types of the subscription state.                                    *)
SubscriptionsTypeOK ==
  /\ subscribing \in [Clients -> 0..generations]
  /\ claimed \in [Clients -> BOOLEAN]
  /\ \A c \in Clients :
       /\ listeners[c].attached \in BOOLEAN
       /\ listeners[c].cursor.generation \in 0..generations
       /\ client[c].status \in {"idle", "open", "gone"}
       /\ client[c].resetRequested \in BOOLEAN
       /\ client[c].cursor.version \in 0..highWater

(* What a client shows is what its query returns at the version of the     *)
(* cursor it holds: no interleaving of resumes, chains, resets, evictions  *)
(* and reconnects makes it apply a transition to the wrong value.          *)
ClientHonest ==
  \A c \in Clients :
    client[c].cursor # NoCursor =>
      client[c].result = Result(QueryOf[c], contents[client[c].cursor.version])

(* Nothing is left to do on the server or in a delivery queue.             *)
Quiet ==
  /\ started = highWater
  /\ \A q \in DOMAIN entries : entries[q].phase = "idle"
  /\ \A c \in Clients :
       listeners[c].queue = <<>> /\ subscribing[c] = 0 /\ resets[c] = <<>>

(* When nothing is left to do, a subscribed client that is not waiting for *)
(* a reset shows the latest committed state: there is no gap between       *)
(* snapshot, registration and delivery in which an update is lost.         *)
QuietClientsAreCurrent ==
  Quiet => \A c \in Clients :
    client[c].status = "open" /\ ~client[c].resetRequested =>
      client[c].result = Result(QueryOf[c], contents[highWater])

(* A client that waits for a reset has asked for one or is about to get    *)
(* one: while it waits it applies nothing else.                            *)
AwaitedResetComes ==
  Quiet => \A c \in Clients : client[c].status = "open" => ~client[c].resetRequested

(* A subscription ends only when the application ends it.                  *)
StaysSubscribed == \A c \in Clients : client[c].status # "gone"

(* Once the writer stops, every client comes to show the latest state and  *)
(* keeps showing it: evaluations that lose the race with a commit, chains, *)
(* resets and reconnects end, and nobody waits for ever.                   *)
ClientsCatchUp ==
  <>[](\A c \in Clients :
         client[c].result = Result(QueryOf[c], contents[highWater]))

(* A subscription never shows an older version after a newer one.          *)
NeverBackwards ==
  [][\A c \in Clients :
       client'[c].cursor # NoCursor => client'[c].cursor.version >= client[c].cursor.version
    ]_subscriptionVars
=============================================================================
