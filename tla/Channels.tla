------------------------------ MODULE Channels -------------------------------
(***************************************************************************)
(* Application channels: the hub that holds the members of one audience    *)
(* (packages/server/src/channels/hub.ts), the session operations that join *)
(* and leave it (packages/server/src/runtime/sessions/store.ts) and the    *)
(* client's side (packages/client/src/channels/channel.ts), over two FIFO  *)
(* directions of one connection per client.                                *)
(*                                                                         *)
(* A change of credential is reduced to what it does to channels; module   *)
(* Session has the rest.  Application code (authorize, onConnect, event    *)
(* handlers, onDisconnect) takes any time and may fail.                    *)
(***************************************************************************)
EXTENDS Integers, Sequences, FiniteSets, SequencesExt

CONSTANTS Clients,
          MaxSubscriptions,   \* limits.maxSubscriptions, also the hub's maxMembers
          MaxIds,             \* bound: memberships the clients ask for
          MaxMessages,        \* bound: events published, and sent by clients
          MaxEpoch            \* bound: credentials the clients present

ASSUME ChannelsAssumption ==
  {MaxSubscriptions, MaxIds, MaxMessages, MaxEpoch} \subseteq Nat

VARIABLES
  \* the client
  group,       \* its membership group: id (0 if none), state, attemptedAuthEpoch
  nextId,      \* one sequence for all clients: an id is the client's own
  authEpoch,   \* the epoch the client was last told
  attempt,     \* an authentication attempt is pending
  dead,        \* failPermanently was called
  \* the connection
  up, down,    \* frames on their way to the server, and to the client
  \* the runtime's record of the session
  record, epoch,
  claims,      \* subscriptionKinds
  ops,         \* per id, control operations in order
  auth,        \* transitionAuth: how far it is, ids to reattach, captured frames
  \* ChannelHub
  joined,      \* per client and id: an active member
  members,     \* the hub's count
  messages, refreshes

clientVars == <<group, nextId, authEpoch, attempt, dead>>
recordVars == <<record, epoch, claims, ops, auth>>
hubVars == <<joined, members>>
vars == <<clientVars, up, down, recordVars, hubVars, messages, refreshes>>

Ids == 1..MaxIds
NoGroup == [id |-> 0, state |-> "none", epoch |-> -1]
NoAuth == [pc |-> "no", todo |-> <<>>, frames |-> <<>>]
Op(name) == [op |-> name, pc |-> "queued"]
F(t, id, e) == [t |-> t, id |-> id, epoch |-> e]

ChannelsInit ==
  /\ group = [c \in Clients |-> NoGroup] /\ nextId = 1
  /\ authEpoch = [c \in Clients |-> 0]
  /\ attempt = [c \in Clients |-> FALSE] /\ dead = [c \in Clients |-> FALSE]
  /\ up = [c \in Clients |-> <<>>] /\ down = [c \in Clients |-> <<>>]
  /\ record = [c \in Clients |-> "open"] /\ epoch = [c \in Clients |-> 0]
  /\ claims = [c \in Clients |-> {}]
  /\ ops = [c \in Clients |-> [i \in Ids |-> <<>>]]
  /\ auth = [c \in Clients |-> NoAuth]
  /\ joined = [c \in Clients |-> {}] /\ members = 0
  /\ messages = 0 /\ refreshes = 0

-----------------------------------------------------------------------------
(***************************************************************************)
(* The client.  canSend is false while an authentication attempt waits.    *)
(***************************************************************************)
canSend(c) == record[c] = "open" /\ ~dead[c] /\ ~attempt[c]

Open(c) == record[c] = "open" /\ ~dead[c]

\* observe, for the first observer of an audience.
Observe(c) ==
  /\ Open(c) /\ group[c].id = 0 /\ nextId <= MaxIds
  /\ nextId' = nextId + 1
  /\ group' = [group EXCEPT ![c] = [id |-> nextId, state |-> "connecting",
                 epoch |-> IF canSend(c) THEN authEpoch[c] ELSE -1]]
  /\ up' = IF canSend(c) THEN [up EXCEPT ![c] = Append(@, F("join", nextId, 0))] ELSE up
  /\ UNCHANGED <<authEpoch, attempt, dead, down, recordVars, hubVars, messages, refreshes>>

\* releaseGroup, when the last observer closes.
Release(c) ==
  /\ Open(c) /\ group[c].id # 0
  /\ group' = [group EXCEPT ![c] = NoGroup]
  /\ up' = IF canSend(c) THEN [up EXCEPT ![c] = Append(@, F("leave", group[c].id, 0))] ELSE up
  /\ UNCHANGED <<nextId, authEpoch, attempt, dead, down, recordVars, hubVars, messages, refreshes>>

\* send of a handle.
Send(c) ==
  /\ canSend(c) /\ group[c].state = "connected" /\ messages < MaxMessages
  /\ messages' = messages + 1
  /\ up' = [up EXCEPT ![c] = Append(@, F("send", group[c].id, 0))]
  /\ UNCHANGED <<clientVars, down, recordVars, hubVars, refreshes>>

Refresh(c) ==
  /\ canSend(c) /\ refreshes < MaxEpoch
  /\ refreshes' = refreshes + 1
  /\ attempt' = [attempt EXCEPT ![c] = TRUE]
  /\ up' = [up EXCEPT ![c] = Append(@, F("auth", 0, 0))]
  /\ UNCHANGED <<group, nextId, authEpoch, dead, down, recordVars, hubVars, messages>>

\* Mutant: a group that was answered is not joined again under a new credential.
StaleNever(g, e) == FALSE

\* flushGroup sends the join again unless it was tried under this epoch.
Stale(g, e) == g.id # 0 /\ g.epoch # e

\* ready, rejected, failed and event of ChannelManager.
Told(g, f) ==
  CASE f.t = "ready"    -> [g EXCEPT !.state = "connected", !.epoch = f.epoch]
    [] f.t = "rejected" -> [g EXCEPT !.state = "rejected", !.epoch = f.epoch]
    [] f.t = "err"      -> [g EXCEPT !.state = "failed"]
    [] f.t = "event"    -> [g EXCEPT !.state = "connected"]

\* dispatch of the next frame.  An event for a group the client no longer has
\* is a protocol failure; any other frame for one is ignored.
Receive(c) ==
  /\ down[c] # <<>> /\ Open(c)
  /\ down' = [down EXCEPT ![c] = Tail(@)]
  /\ LET f == Head(down[c])
         g == group[c]
         again == f.t = "ack" /\ Stale(g, f.epoch)
     IN  /\ dead' = [dead EXCEPT ![c] = f.t = "event" /\ g.id # f.id]
         /\ attempt' = [attempt EXCEPT ![c] = @ /\ f.t # "ack"]
         /\ authEpoch' = [authEpoch EXCEPT ![c] = IF f.t = "ack" THEN f.epoch ELSE @]
         /\ up' = IF again THEN [up EXCEPT ![c] = Append(@, F("join", g.id, 0))] ELSE up
         /\ group' = [group EXCEPT ![c] =
              CASE again -> [g EXCEPT !.epoch = f.epoch,
                               !.state = IF @ = "connected" THEN @ ELSE "connecting"]
                [] f.t # "ack" /\ g.id = f.id -> Told(g, f)
                [] OTHER -> g]
  /\ UNCHANGED <<nextId, recordVars, hubVars, messages, refreshes>>

-----------------------------------------------------------------------------
(***************************************************************************)
(* The hub: add and remove.  remove does nothing for a member that is no   *)
(* longer active.                                                          *)
(***************************************************************************)
Add(c, i) ==
  joined' = [joined EXCEPT ![c] = @ \cup {i}] /\ members' = members + 1

\* Mutant: remove does not look whether the member is active.
LeavingAll(c, ids) == ids

Leaving(c, ids) == ids \cap joined[c]

Drop(c, ids) ==
  LET gone == Leaving(c, ids)
  IN  /\ joined' = [joined EXCEPT ![c] = @ \ gone]
      /\ members' = members - Cardinality(gone)

(***************************************************************************)
(* The record.  It is removed once it is closing and nothing of it runs;   *)
(* ops' and auth' are given first.                                         *)
(***************************************************************************)
Busy(c, queues, transition) ==
  transition[c].pc # "no" \/ \E i \in Ids : queues[c][i] # <<>>

Settle(c, phase, held) ==
  LET gone == phase = "closing" /\ ~Busy(c, ops', auth')
  IN  /\ record' = [record EXCEPT ![c] = IF gone THEN "removed" ELSE phase]
      /\ claims' = [claims EXCEPT ![c] = IF gone THEN {} ELSE held]

Hangup(c) == up' = [up EXCEPT ![c] = <<>>] /\ down' = [down EXCEPT ![c] = <<>>]

\* The context of an operation that is not a transition is not aborted.
Live(c) == record[c] = "open" /\ auth[c].pc = "no"

\* Mutant: only the successful outcome of an operation is published.
AnswerReady(c, f) ==
  down' = IF Live(c) /\ f.t = "ready" THEN [down EXCEPT ![c] = Append(@, f)] ELSE down

\* An outcome is published unless its context was aborted meanwhile.
Answer(c, f) ==
  down' = IF Live(c) THEN [down EXCEPT ![c] = Append(@, f)] ELSE down

Done(c, i) == ops' = [ops EXCEPT ![c][i] = Tail(@)] /\ UNCHANGED auth

\* The next frame of the client is dispatched.
Dispatch(c) ==
  /\ record[c] = "open" /\ up[c] # <<>>
  /\ LET f == Head(up[c])
     IN  IF f.t = "auth"
         THEN auth' = [auth EXCEPT ![c].pc = "frontier"] /\ UNCHANGED ops
         ELSE ops' = [ops EXCEPT ![c][f.id] = Append(@, Op(f.t))] /\ UNCHANGED auth
  /\ up' = [up EXCEPT ![c] = Tail(@)]
  /\ UNCHANGED <<clientVars, down, record, epoch, claims, hubVars, messages, refreshes>>

At(c, i, name, pc) == ops[c][i] # <<>> /\ Head(ops[c][i]) = [op |-> name, pc |-> pc]

Continue(c, i, pc) == ops' = [ops EXCEPT ![c][i][1].pc = pc] /\ UNCHANGED auth

AllClaims == UNION {{c} \X claims[c] : c \in Clients}

\* claimSubscription takes the place before anything is awaited.
Claimed(c, i) == claims[c] \cup {i}

\* joinChannel: the claim, and the hub's checks.
JoinStarts(c, i) ==
  /\ At(c, i, "join", "queued")
  /\ IF \/ ~Live(c) \/ i \in claims[c] \/ Cardinality(AllClaims) >= MaxSubscriptions
        \/ members >= MaxSubscriptions
     THEN /\ Done(c, i) /\ Answer(c, F("err", i, 0)) /\ Settle(c, record[c], claims[c])
     ELSE /\ Continue(c, i, "authorizing")
          /\ claims' = [claims EXCEPT ![c] = Claimed(c, i)]
          /\ UNCHANGED <<down, record>>
  /\ UNCHANGED <<clientVars, up, epoch, hubVars, messages, refreshes>>

\* The join goes on with authorize's result, whatever became of the session.
JoinAuthorized(c, i, outcome) ==
  /\ At(c, i, "join", "authorizing")
  /\ IF outcome = "ok"
     THEN /\ Continue(c, i, "connecting") /\ Add(c, i)
          /\ UNCHANGED <<down, record, claims>>
     ELSE /\ Done(c, i) /\ Answer(c, F(outcome, i, epoch[c]))
          /\ Settle(c, record[c], claims[c] \ {i})
          /\ UNCHANGED hubVars
  /\ UNCHANGED <<clientVars, up, epoch, messages, refreshes>>

\* onConnect ends; it is cut short if the member was removed.
JoinConnected(c, i, ok) ==
  /\ At(c, i, "join", "connecting")
  /\ Done(c, i)
  /\ IF ok /\ i \in joined[c]
     THEN /\ Answer(c, F("ready", i, epoch[c])) /\ Settle(c, record[c], claims[c])
          /\ UNCHANGED hubVars
     ELSE /\ Answer(c, F("err", i, 0)) /\ Settle(c, record[c], claims[c] \ {i})
          /\ Drop(c, {i})
  /\ UNCHANGED <<clientVars, up, epoch, messages, refreshes>>

\* leaveChannel: the member is removed at once, and the claim is released
\* when its onDisconnect has ended or timed out, but not if it threw.
LeaveStarts(c, i) ==
  /\ At(c, i, "leave", "queued")
  /\ IF Live(c) /\ i \in claims[c]
     THEN /\ Continue(c, i, "disconnecting") /\ Drop(c, {i})
          /\ UNCHANGED <<down, record, claims>>
     ELSE /\ Done(c, i) /\ Answer(c, F("err", i, 0)) /\ Settle(c, record[c], claims[c])
          /\ UNCHANGED hubVars
  /\ UNCHANGED <<clientVars, up, epoch, messages, refreshes>>

LeaveEnds(c, i, ok) ==
  /\ At(c, i, "leave", "disconnecting")
  /\ Done(c, i)
  /\ IF ok THEN Settle(c, record[c], claims[c] \ {i}) /\ UNCHANGED down
     ELSE Settle(c, record[c], claims[c]) /\ Answer(c, F("err", i, 0))
  /\ UNCHANGED <<clientVars, up, epoch, hubVars, messages, refreshes>>

\* sendChannel: the handler runs, and may fail.
SendStarts(c, i) ==
  /\ At(c, i, "send", "queued")
  /\ IF Live(c) /\ i \in claims[c] /\ i \in joined[c]
     THEN Continue(c, i, "handling") /\ UNCHANGED <<down, record, claims>>
     ELSE Done(c, i) /\ Answer(c, F("err", i, 0)) /\ Settle(c, record[c], claims[c])
  /\ UNCHANGED <<clientVars, up, epoch, hubVars, messages, refreshes>>

SendEnds(c, i, ok) ==
  /\ At(c, i, "send", "handling")
  /\ Done(c, i) /\ Settle(c, record[c], claims[c])
  /\ IF ok /\ i \in joined[c] THEN UNCHANGED down ELSE Answer(c, F("err", i, 0))
  /\ UNCHANGED <<clientVars, up, epoch, hubVars, messages, refreshes>>

-----------------------------------------------------------------------------
(***************************************************************************)
(* transitionAuth, once every earlier control operation has ended: the     *)
(* members leave, and join again under the new context.  It goes on to its *)
(* end when the session closes meanwhile.                                  *)
(***************************************************************************)
Idle(c) == \A i \in Ids : ops[c][i] = <<>>

TransitionStarts(c) ==
  /\ auth[c].pc = "frontier" /\ Idle(c)
  /\ UNCHANGED ops
  /\ IF record[c] = "open"
     THEN /\ auth' = [auth EXCEPT ![c] =
               [pc |-> "revoking", frames |-> <<>>,
                todo |-> SetToSortSeq(joined[c], <)]]
          /\ Drop(c, joined[c])
     ELSE auth' = [auth EXCEPT ![c] = NoAuth] /\ UNCHANGED hubVars
  /\ Settle(c, record[c], claims[c])
  /\ UNCHANGED <<clientVars, up, down, epoch, messages, refreshes>>

\* The onDisconnect handlers have ended; one that threw ends the session.
Disconnected(c, ok) ==
  /\ auth[c].pc = "revoking"
  /\ auth' = [auth EXCEPT ![c] = IF ok THEN [@ EXCEPT !.pc = "reattaching"] ELSE NoAuth]
  /\ UNCHANGED ops
  /\ Settle(c, IF ok THEN record[c] ELSE "closing", claims[c])
  /\ IF ok THEN UNCHANGED <<up, down>> ELSE Hangup(c)
  /\ UNCHANGED <<clientVars, epoch, hubVars, messages, refreshes>>

\* The head of auth.todo is finished, with the frame captured for it.
Attached(c, t) ==
  auth' = [auth EXCEPT ![c] =
             [pc |-> "reattaching", todo |-> Tail(@.todo),
              frames |-> Append(@.frames, F(t, Head(@.todo), epoch[c] + 1))]]

AttachStarts(c) ==
  /\ auth[c].pc = "reattaching" /\ auth[c].todo # <<>>
  /\ IF members >= MaxSubscriptions
     THEN /\ Attached(c, "err")
          /\ claims' = [claims EXCEPT ![c] = @ \ {Head(auth[c].todo)}]
     ELSE /\ auth' = [auth EXCEPT ![c].pc = "authorizing"]
          /\ UNCHANGED claims
  /\ UNCHANGED <<clientVars, up, down, record, epoch, ops, hubVars, messages, refreshes>>

AttachAuthorized(c, outcome) ==
  /\ auth[c].pc = "authorizing"
  /\ IF outcome = "ok"
     THEN /\ Add(c, Head(auth[c].todo)) /\ UNCHANGED claims
          /\ auth' = [auth EXCEPT ![c].pc = "connecting"]
     ELSE /\ Attached(c, outcome) /\ UNCHANGED hubVars
          /\ claims' = [claims EXCEPT ![c] = @ \ {Head(auth[c].todo)}]
  /\ UNCHANGED <<clientVars, up, down, record, epoch, ops, messages, refreshes>>

AttachConnected(c, ok) ==
  /\ auth[c].pc = "connecting"
  /\ LET i == Head(auth[c].todo)
     IN  IF ok /\ i \in joined[c]
         THEN Attached(c, "ready") /\ UNCHANGED <<claims, hubVars>>
         ELSE /\ Attached(c, "err") /\ Drop(c, {i})
              /\ claims' = [claims EXCEPT ![c] = @ \ {i}]
  /\ UNCHANGED <<clientVars, up, down, record, epoch, ops, messages, refreshes>>

\* The session takes up the new epoch and sends what was captured.
TransitionEnds(c) ==
  /\ auth[c].pc = "reattaching" /\ auth[c].todo = <<>>
  /\ auth' = [auth EXCEPT ![c] = NoAuth]
  /\ UNCHANGED ops
  /\ epoch' = [epoch EXCEPT ![c] = @ + 1]
  /\ down' = IF record[c] = "open"
             THEN [down EXCEPT ![c] = @ \o auth[c].frames \o <<F("ack", 0, epoch[c] + 1)>>]
             ELSE down
  /\ Settle(c, record[c], claims[c])
  /\ UNCHANGED <<clientVars, up, hubVars, messages, refreshes>>

-----------------------------------------------------------------------------
\* broadcast: a frame for every member, sent or captured; nothing is kept for
\* a session that is refreshing and has not reached its reattachments.
Capturing(c) == auth[c].pc \in {"reattaching", "authorizing", "connecting"}

EventFrames(c) == SetToSeq({F("event", i, 0) : i \in joined[c]})

Broadcast ==
  /\ messages < MaxMessages /\ members > 0
  /\ messages' = messages + 1
  /\ down' = [c \in Clients |-> IF Live(c) THEN down[c] \o EventFrames(c) ELSE down[c]]
  /\ auth' = [c \in Clients |-> IF record[c] = "open" /\ Capturing(c)
                                THEN [auth[c] EXCEPT !.frames = @ \o EventFrames(c)]
                                ELSE auth[c]]
  /\ UNCHANGED <<clientVars, up, record, epoch, claims, ops, hubVars, refreshes>>

\* startClose: the members the session has now are removed.
Close(c) ==
  /\ record[c] = "open"
  /\ UNCHANGED <<ops, auth>>
  /\ Settle(c, "closing", claims[c])
  /\ Drop(c, joined[c])
  /\ Hangup(c)
  /\ UNCHANGED <<clientVars, epoch, messages, refreshes>>

-----------------------------------------------------------------------------
Outcomes == {"ok", "rejected", "err"}

Control(c) ==
  \E i \in Ids :
    \/ JoinStarts(c, i) \/ LeaveStarts(c, i) \/ SendStarts(c, i)
    \/ \E o \in Outcomes : JoinAuthorized(c, i, o)
    \/ \E ok \in BOOLEAN : JoinConnected(c, i, ok) \/ LeaveEnds(c, i, ok) \/ SendEnds(c, i, ok)

Transition(c) ==
  \/ TransitionStarts(c) \/ AttachStarts(c) \/ TransitionEnds(c)
  \/ \E o \in Outcomes : AttachAuthorized(c, o)
  \/ \E ok \in BOOLEAN : Disconnected(c, ok) \/ AttachConnected(c, ok)

ChannelsNext ==
  \/ Broadcast
  \/ \E c \in Clients :
       \/ Observe(c) \/ Release(c) \/ Send(c) \/ Refresh(c) \/ Receive(c)
       \/ Dispatch(c) \/ Control(c) \/ Transition(c) \/ Close(c)

ChannelsSpec == ChannelsInit /\ [][ChannelsNext]_vars

\* Frames are read, application code settles, and a failed client hangs up.
FairChannelsSpec ==
  /\ ChannelsSpec
  /\ \A c \in Clients :
       /\ WF_vars(Receive(c)) /\ WF_vars(Dispatch(c))
       /\ WF_vars(Control(c)) /\ WF_vars(Transition(c))
       /\ WF_vars(dead[c] /\ Close(c))

-----------------------------------------------------------------------------
\* Every variable has its type.
ChannelsTypeOK ==
  /\ \A c \in Clients :
       /\ group[c].id \in 0..MaxIds /\ group[c].epoch \in -1..MaxEpoch
       /\ group[c].state \in {"none", "connecting", "connected", "rejected", "failed"}
       /\ authEpoch[c] <= epoch[c] /\ epoch[c] \in 0..MaxEpoch
       /\ record[c] \in {"open", "closing", "removed"}
       /\ claims[c] \subseteq Ids /\ joined[c] \subseteq Ids
       /\ Range(auth[c].todo) \subseteq Ids
  /\ attempt \in [Clients -> BOOLEAN] /\ dead \in [Clients -> BOOLEAN]
  /\ nextId \in 1..(MaxIds + 1) /\ members \in Nat /\ messages \in 0..MaxMessages /\ refreshes \in 0..MaxEpoch

Memberships == UNION {{c} \X joined[c] : c \in Clients}

\* The hub's count, which its capacity check reads, is the number of active
\* members, however a failed onConnect, a leave and the closing of the session
\* fall together (hub.ts, remove).
MembersExact == members = Cardinality(Memberships)

\* While the runtime has the session, every member of it holds a claim, so the
\* limit on subscriptions also bounds the members of such sessions although
\* the checks are made before authorization is awaited.
MembersAreClaimed ==
  /\ \A c \in Clients : record[c] # "removed" => joined[c] \subseteq claims[c]
  /\ Cardinality({m \in Memberships : record[m[1]] # "removed"}) <= MaxSubscriptions

\* When nothing of a client is on its way, the client is not still connecting,
\* and the membership it shows as connected is an active member of the hub,
\* across refreshes that interrupt joins (flushGroup, transitionAuth).
Quiet(c) ==
  Live(c) /\ Open(c) /\ ~attempt[c] /\ Idle(c) /\ up[c] = <<>> /\ down[c] = <<>>

ClientAgrees ==
  \A c \in Clients : Quiet(c) =>
    /\ group[c].state # "connecting"
    /\ group[c].state = "connected" => group[c].id \in joined[c]

\* A client that waits for a membership is answered, or loses its connection.
JoinsAreAnswered ==
  \A c \in Clients : group[c].state = "connecting" ~> group[c].state # "connecting" \/ ~Open(c)

\* Closing a membership never costs the client its connection.
ClientSurvives == \A c \in Clients : ~dead[c]

\* A session that was removed has no members left in the hub.
RemovedHasNoMembers == \A c \in Clients : record[c] = "removed" => joined[c] = {}

=============================================================================
