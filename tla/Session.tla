------------------------------- MODULE Session -------------------------------
(***************************************************************************)
(* One client session over a WebSocket: the handshake, credentials that    *)
(* replace each other, expiry, revocation and close                        *)
(* (packages/server/src/subscriptions/session/session.ts), with the        *)
(* runtime's record of the session, which moves its query subscriptions to *)
(* the new credential (packages/server/src/runtime/sessions/store.ts), and *)
(* what the client has been told.                                          *)
(*                                                                         *)
(* The credential presented with attempt k is called k; the hello presents *)
(* 0.  It also names the abort controller and the context made for it.     *)
(* Continuations that await no I/O run in one step.                        *)
(***************************************************************************)
EXTENDS Integers, Sequences, FiniteSets

CONSTANTS Subs,            \* subscription ids, which the client counts up from 1
          MaxOperations,   \* limits.maxOperationsPerConnection
          Anonymous,       \* the credentials that are anonymous
          MaxAttempts,     \* bound: credentials presented after the hello
          MaxVersion,      \* bound: commits
          MaxRequests      \* bound: requests the client sends

ASSUME SessionAssumption == /\ IsFiniteSet(Subs) /\ Subs = 1..Cardinality(Subs)
                            /\ {MaxOperations, MaxAttempts, MaxVersion, MaxRequests} \subseteq Nat

VARIABLES
  \* Session
  phase, paused,
  ctx,             \* the context in force: its credential and authEpoch
  latest,          \* latestAttemptId
  pending,         \* whose controller is pendingAuthController; None if null
  aborted,         \* the controllers that were aborted
  opening,         \* how far open() is
  verifying,       \* credentials being verified
  authTail,        \* verified credentials whose completeAuth waits its turn
  completing,      \* the completeAuth that runs, and how far it is
  batch,           \* authPublications: captured frames still to be sent
  timer,           \* whose expiry the timer waits for; None if not set
  closeDue,        \* terminate waits to call closeSession
  \* RuntimeSessionStore and the listeners of OrderedReactive
  store,           \* phase of the runtime's record
  context,         \* state.context
  capture,         \* state.capture
  reserved,        \* frames reserved in authCaptureBudget
  claimed,         \* subscriptionKinds
  controls,        \* per id, the control operations in their order
  query,           \* the credential of the query that runs; None if none
  listener,        \* per id: attached, authEpoch, cursor, its entry's version, delivery due
  version,         \* the last published commit
  \* the environment
  expired, revoked,
  view,            \* per id: the client's cursor, and whether it wants a reset
  requests,
  stale            \* history: a frame was sent for a credential already replaced

sessionVars == <<phase, paused, ctx, latest, pending, aborted, opening, verifying,
                 authTail, completing, batch, timer, closeDue>>
storeVars == <<store, context, capture, reserved, claimed, controls, query, listener>>
worldVars == <<version, expired, revoked, view, requests, stale>>
vars == <<sessionVars, storeVars, worldVars>>

None == -1
Attempts == 0..MaxAttempts

\* A cursor: the epoch and the version it stands for; the cursor of a
\* revocation is of a generation no query has, here version None.  status is "idle" until
\* the client subscribes, and again when it may retry.
NoCursor == <<>>
Unseen == [status |-> "idle", cursor |-> NoCursor, resetRequested |-> FALSE]

\* createRuntimeContext.
Context(k, epoch) == [attempt |-> k, epoch |-> epoch]

Idle == [attempt |-> None, pc |-> "idle", todo |-> <<>>]
NoCapture == [on |-> FALSE, phase |-> "revoking", epoch |-> 0, frames |-> <<>>]
Detached == [on |-> FALSE, epoch |-> 0, cursor |-> 0, entry |-> 0, due |-> FALSE]

SessionInit ==
  /\ phase = "awaiting_hello" /\ paused = TRUE
  /\ ctx = Context(None, 0)
  /\ latest = 0 /\ pending = None /\ aborted = {}
  /\ opening = "no" /\ verifying = {} /\ authTail = <<>> /\ completing = Idle
  /\ batch = <<>> /\ timer = None /\ closeDue = FALSE
  /\ store = "none" /\ context = Context(None, 0)
  /\ capture = NoCapture /\ reserved = 0 /\ claimed = {}
  /\ controls = [s \in Subs |-> <<>>] /\ query = None
  /\ listener = [s \in Subs |-> Detached] /\ version = 0
  /\ expired = {} /\ revoked = {}
  /\ view = [s \in Subs |-> Unseen] /\ requests = 0 /\ stale = FALSE

-----------------------------------------------------------------------------
(***************************************************************************)
(* The runtime's record: operations in flight, and its removal once it is  *)
(* closing and none is left.  An operator that ends an operation is given  *)
(* how many are left.                                                      *)
(***************************************************************************)
Pending(queues) ==
  LET upTo[n \in 0..Cardinality(Subs)] == IF n = 0 THEN 0 ELSE upTo[n - 1] + Len(queues[n])
  IN  upTo[Cardinality(Subs)]

activeOperations ==
  Pending(controls) + (IF query = None THEN 0 ELSE 1)
                    + (IF completing.pc \in {"frontier", "disconnect", "attach"} THEN 1 ELSE 0)

Settle(record, left, listeners, claims) ==
  LET gone == record = "closing" /\ left = 0
  IN  /\ store' = IF gone THEN "removed" ELSE record
      /\ listener' = IF gone THEN [s \in Subs |-> Detached] ELSE listeners
      /\ claimed' = IF gone THEN {} ELSE claims

(***************************************************************************)
(* What a credential's context may publish: sendApplication.               *)
(***************************************************************************)
\* Mutant: the epoch is compared, the pause is not.
CanSendPaused(epoch) == phase # "closed" /\ ctx.epoch = epoch

CanSend(epoch) == phase # "closed" /\ ctx.epoch = epoch /\ ~paused

Sent(attempt) == stale' = (stale \/ attempt # latest)

(***************************************************************************)
(* terminate, with the frames reserved when it is called.  Verifications   *)
(* and completions still to come find the session closed and do nothing.   *)
(***************************************************************************)
Controllers == {ctx.attempt, pending} \ {None}

Terminate(held) ==
  /\ phase' = "closed" /\ paused' = TRUE
  /\ aborted' = aborted \cup Controllers
  /\ batch' = <<>> /\ reserved' = held - Len(batch)
  /\ verifying' = {} /\ authTail' = <<>> /\ timer' = None
  /\ closeDue' = (ctx.attempt # None)
  /\ UNCHANGED <<ctx, latest, pending>>

\* The variables terminate writes, left alone.
Carries == UNCHANGED <<phase, paused, aborted, batch, reserved, verifying, authTail,
                       timer, closeDue, ctx, latest, pending>>

Gone ==
  /\ phase # "closed"
  /\ Terminate(reserved)
  /\ UNCHANGED <<opening, completing, store, context, capture, claimed, controls, query,
                 listener, worldVars>>

\* closeSession, once open() is done; startClose.
CloseRuntime ==
  /\ closeDue /\ opening # "verify" /\ opening # "welcome"
  /\ closeDue' = FALSE
  /\ IF store = "open"
     THEN Settle("closing", activeOperations, listener, claimed)
     ELSE UNCHANGED <<store, listener, claimed>>
  /\ UNCHANGED <<phase, paused, ctx, latest, pending, aborted, opening, verifying, authTail,
                 completing, batch, timer, context, capture, reserved, controls, query,
                 worldVars>>

-----------------------------------------------------------------------------
(***************************************************************************)
(* open: the hello's credential is verified, the runtime opens its record, *)
(* and the welcome is sent before anything else is accepted.               *)
(***************************************************************************)
Hello ==
  /\ phase = "awaiting_hello"
  /\ phase' = "opening" /\ opening' = "verify" /\ pending' = 0
  /\ UNCHANGED <<paused, ctx, latest, aborted, verifying, authTail, completing, batch,
                 timer, closeDue, storeVars, worldVars>>

\* openSession: the runtime's record, under the first context.
StoreOpen(opens) ==
  /\ store' = IF opens THEN "open" ELSE store
  /\ context' = IF opens THEN Context(0, 0) ELSE context

\* The verifier rejects the credential, or the runtime refuses the session:
\* its client session is still connected, or there are too many.
OpenVerified(outcome) ==
  /\ opening = "verify"
  /\ pending' = None
  /\ LET usable == outcome # "rejected" /\ phase # "closed" /\ 0 \notin expired \ Anonymous
         opens  == usable /\ outcome = "accepted"
     IN  /\ ctx' = IF usable THEN Context(0, 0) ELSE ctx
         /\ StoreOpen(opens)
         /\ timer' = IF opens /\ 0 \notin Anonymous THEN 0 ELSE None
         /\ opening' = IF opens THEN "welcome" ELSE "done"
         /\ phase' = IF opens THEN phase ELSE "closed"
         /\ closeDue' = (closeDue \/ (usable /\ ~opens))
  /\ UNCHANGED <<paused, latest, aborted, verifying, authTail, completing, batch, capture,
                 reserved, claimed, controls, query, listener, worldVars>>

OpenWelcomed ==
  /\ opening = "welcome"
  /\ opening' = "done"
  /\ IF phase = "closed" THEN UNCHANGED <<phase, paused>>
     ELSE phase' = "active" /\ paused' = FALSE
  /\ UNCHANGED <<ctx, latest, pending, aborted, verifying, authTail, completing, batch,
                 timer, closeDue, storeVars, worldVars>>

-----------------------------------------------------------------------------
\* An operation whose turn has come starts before another frame is read.
Started == \A s \in Subs : controls[s] # <<>> => Head(controls[s]).running

(***************************************************************************)
(* acceptAuth: a new credential pauses the session and aborts what runs    *)
(* under the old one at once.  An attempt that is not newer changes        *)
(* nothing (the latest one is acknowledged again).                         *)
(***************************************************************************)
AcceptAuth ==
  /\ phase \in {"active", "refreshing"} /\ latest < MaxAttempts /\ Started
  /\ latest' = latest + 1
  /\ paused' = TRUE /\ phase' = "refreshing"
  /\ aborted' = aborted \cup Controllers
  /\ pending' = latest' /\ verifying' = verifying \cup {latest'}
  /\ UNCHANGED <<ctx, opening, authTail, completing, batch, timer, closeDue, storeVars,
                 worldVars>>

\* Mutant: a verification that fails is not queued.
VerifiedSilently(k, ok) ==
  /\ k \in verifying
  /\ verifying' = verifying \ {k}
  /\ authTail' = IF ok /\ k \notin aborted
                 THEN Append(authTail, [attempt |-> k, ok |-> TRUE]) ELSE authTail
  /\ UNCHANGED <<phase, paused, ctx, latest, pending, aborted, opening, completing, batch,
                 timer, closeDue, storeVars, worldVars>>

\* verifyCredential settles: a verification that was aborted fails.
Verified(k, ok) ==
  /\ k \in verifying
  /\ verifying' = verifying \ {k}
  /\ authTail' = Append(authTail, [attempt |-> k, ok |-> ok /\ k \notin aborted])
  /\ UNCHANGED <<phase, paused, ctx, latest, pending, aborted, opening, completing, batch,
                 timer, closeDue, storeVars, worldVars>>

(***************************************************************************)
(* completeAuth, one at a time.  Old application frames are dropped from   *)
(* the sink, and transitionAuth becomes an operation of the session.       *)
(***************************************************************************)
Usable(a) == a.ok /\ a.attempt \notin expired \ Anonymous

\* The record is under the session's context.
matching == context = ctx

\* current() and admit().
Admitted == store = "open" /\ matching /\ activeOperations < MaxOperations

CompleteStarts ==
  /\ completing.pc = "idle" /\ authTail # <<>>
  /\ LET a == Head(authTail)
     IN  \/ /\ a.attempt # latest
            /\ authTail' = Tail(authTail)
            /\ UNCHANGED <<phase, paused, aborted, batch, reserved, verifying, timer, closeDue,
                           ctx, latest, pending, completing>>
         \/ /\ a.attempt = latest /\ ~(Usable(a) /\ Admitted)
            /\ Terminate(reserved)
            /\ UNCHANGED completing
         \/ /\ a.attempt = latest /\ Usable(a) /\ Admitted
            /\ authTail' = Tail(authTail)
            /\ completing' = [attempt |-> a.attempt, pc |-> "frontier", todo |-> <<>>]
            /\ UNCHANGED <<phase, paused, aborted, batch, reserved, verifying, timer, closeDue,
                           ctx, latest, pending>>
  /\ UNCHANGED <<opening, store, context, capture, claimed, controls, query, listener,
                 worldVars>>

(***************************************************************************)
(* transitionAuth.  It waits for the control operations admitted before    *)
(* it, captures what the runtime publishes while it runs, and ends.  The   *)
(* record cannot be removed meanwhile: the transition is an operation.     *)
(***************************************************************************)
TransitionBegins ==
  /\ completing.pc = "frontier" /\ \A s \in Subs : controls[s] = <<>>
  /\ IF completing.attempt \in aborted
     THEN /\ completing' = Idle
          /\ Settle(store, activeOperations - 1, listener, claimed)
          /\ UNCHANGED capture
     ELSE /\ completing' = [completing EXCEPT !.pc = "disconnect"]
          /\ capture' = [NoCapture EXCEPT !.on = TRUE, !.epoch = context.epoch]
          /\ UNCHANGED <<store, listener, claimed>>
  /\ Carries
  /\ UNCHANGED <<opening, context, controls, query, worldVars>>

\* startClose in the catch block; completeAuth's catch block then closes the
\* session unless a newer attempt has taken over.
TransitionFails(listeners) ==
  /\ capture' = NoCapture
  /\ completing' = Idle
  /\ Settle("closing", activeOperations - 1, listeners, claimed)
  /\ IF phase = "closed" \/ completing.attempt # latest \/ completing.attempt \in aborted
     THEN /\ reserved' = reserved - Len(capture.frames)
          /\ aborted' = aborted \cup {completing.attempt}
          /\ UNCHANGED <<phase, paused, batch, verifying, authTail, timer, closeDue, ctx,
                         latest, pending>>
     ELSE Terminate(reserved - Len(capture.frames))
  /\ UNCHANGED <<opening, context, controls, query, worldVars>>

Frame(id, kind, from, to) == [id |-> id, kind |-> kind, from |-> from, to |-> to]

\* The ids of a set in increasing order.
Ordered(ids) ==
  LET NthOf(n) == CHOOSE s \in ids : Cardinality({r \in ids : r < s}) = n - 1
  IN  [n \in 1..Cardinality(ids) |-> NthOf(n)]

\* sendRevocation.
Revocation(s) ==
  Frame(s, "revoked", <<ctx.epoch, listener[s].cursor>>, <<ctx.epoch + 1, None>>)

\* rotateAuth: every listener is detached and its revocation captured, and
\* the record changes over to the new context.
TransitionRotates ==
  /\ completing.pc = "disconnect"
  /\ LET ids == Ordered({s \in Subs : listener[s].on})
         frames == [n \in DOMAIN ids |-> Revocation(ids[n])]
     IN  /\ completing' = [completing EXCEPT !.pc = "attach", !.todo = ids]
         /\ capture' = [on |-> TRUE, phase |-> "reattaching", epoch |-> ctx.epoch + 1,
                        frames |-> frames]
         /\ reserved' = reserved + Len(frames)
  /\ listener' = [s \in Subs |-> Detached]
  /\ context' = Context(completing.attempt, ctx.epoch + 1)
  /\ UNCHANGED <<phase, paused, aborted, batch, verifying, authTail, timer, closeDue, ctx,
                 latest, pending, opening, store, claimed, controls, query, worldVars>>

\* captureFrame finds no room: a revocation is not delivered, or not even the
\* error frame of a subscription fits.
TransitionOverflows ==
  \/ /\ completing.pc = "disconnect" /\ \E s \in Subs : listener[s].on
     /\ TransitionFails([s \in Subs |-> Detached])
  \/ /\ completing.pc = "attach" /\ completing.todo # <<>>
     /\ TransitionFails(listener)

Attached == [on |-> TRUE, epoch |-> context.epoch, cursor |-> version, entry |-> version,
             due |-> FALSE]

\* What a capture takes while subscriptions are reattached; it drops the rest.
captureAccepts(kind) == kind \in {"reset", "err"}

\* attachSubscription for the next subscription: its reset, the application
\* error of its query, which is dropped as if delivered, or a failure.
TransitionAttaches(outcome) ==
  /\ completing.pc = "attach" /\ completing.todo # <<>>
  /\ LET s == Head(completing.todo)
         to == <<context.epoch, version>>
         frame == IF outcome = "err" THEN Frame(s, outcome, NoCursor, NoCursor)
                  ELSE Frame(s, outcome, NoCursor, to)
         frames == IF captureAccepts(outcome) THEN <<frame>> ELSE <<>>
     IN  /\ capture' = [capture EXCEPT !.frames = @ \o frames]
         /\ reserved' = reserved + Len(frames)
         /\ listener' = IF outcome = "err" THEN listener
                        ELSE [listener EXCEPT ![s] = Attached]
  /\ completing' = [completing EXCEPT !.todo = Tail(@)]
  /\ UNCHANGED <<phase, paused, aborted, batch, verifying, authTail, timer, closeDue, ctx,
                 latest, pending, opening, store, context, claimed, controls, query, worldVars>>

\* Mutant: completeAuth does not look for a newer attempt.
SupersededNever(k) == FALSE

Superseded(k) == k # latest \/ k \in aborted

\* scheduleExpiry.
Scheduled(k) == IF k \in Anonymous THEN None ELSE k

(***************************************************************************)
(* finishCapture, and completeAuth goes on.  The credential is in force    *)
(* from here on, even if a newer attempt has arrived; only the latest one  *)
(* sends its frames.                                                       *)
(***************************************************************************)
TransitionEnds ==
  /\ completing.pc = "attach" /\ completing.todo = <<>>
  /\ capture' = NoCapture
  /\ Settle(store, activeOperations - 1, listener, claimed)
  /\ LET k == completing.attempt
         frames == capture.frames
         lapsed == k \in expired \ Anonymous
         sends  == phase # "closed" /\ ~lapsed /\ ~Superseded(k)
     IN  /\ ctx' = IF phase = "closed" THEN ctx ELSE context
         /\ timer' = IF phase = "closed" \/ lapsed THEN None ELSE Scheduled(k)
         /\ phase' = IF lapsed THEN "closed" ELSE phase
         /\ closeDue' = (closeDue \/ (lapsed /\ phase # "closed"))
         /\ aborted' = IF sends THEN aborted
                       ELSE aborted \cup {k} \cup (IF lapsed THEN {pending} \ {None} ELSE {})
         /\ verifying' = IF lapsed THEN {} ELSE verifying
         /\ authTail' = IF lapsed THEN <<>> ELSE authTail
         /\ batch' = IF sends THEN frames ELSE <<>>
         /\ reserved' = IF sends THEN reserved ELSE reserved - Len(frames)
         /\ completing' = IF sends
                          THEN [attempt |-> k, todo |-> frames,
                                pc |-> IF frames = <<>> THEN "acking" ELSE "sending"]
                          ELSE Idle
         /\ stale' = (stale \/ (sends /\ frames # <<>> /\ k # latest))
  /\ UNCHANGED <<paused, latest, pending, opening, context, controls, query, version, expired,
                 revoked, view, requests>>

(***************************************************************************)
(* The client applies a frame: applyError and applyTransition.             *)
(***************************************************************************)
ApplyError(held) == [held EXCEPT !.status = "idle"]

Receive(held, frame) ==
  IF held.status # "open" THEN held
  ELSE CASE frame.kind = "err" -> ApplyError(held)
         [] frame.kind # "err" /\ held.cursor = frame.to ->
              [held EXCEPT !.resetRequested = @ /\ frame.kind # "reset"]
         [] frame.kind # "err" /\ held.cursor # frame.to /\ held.resetRequested
              /\ frame.kind # "reset" -> held
         [] OTHER ->
              IF frame.from = held.cursor \/ (frame.kind = "reset" /\ frame.from = NoCursor)
              THEN [held EXCEPT !.cursor = frame.to, !.resetRequested = FALSE]
              ELSE [held EXCEPT !.resetRequested = TRUE]

\* The end of completeAuth: its finally block releases the batch.
Finish ==
  /\ completing' = Idle
  /\ batch' = <<>> /\ reserved' = reserved - Len(batch)

\* The transport takes the captured frame that waits; the next one is sent,
\* or the acknowledgement, if this is still the latest attempt.
FrameAccepted ==
  /\ completing.pc = "sending"
  /\ LET left == Tail(completing.todo)
         frame == Head(completing.todo)
     IN  /\ view' = IF phase = "closed" THEN view
                    ELSE [view EXCEPT ![frame.id] = Receive(@, frame)]
         /\ IF phase = "closed" \/ Superseded(completing.attempt)
            THEN Finish /\ UNCHANGED stale
            ELSE /\ completing' = [completing EXCEPT !.todo = left,
                                     !.pc = IF left = <<>> THEN "acking" ELSE "sending"]
                 /\ IF left = <<>> THEN UNCHANGED stale ELSE Sent(completing.attempt)
                 /\ UNCHANGED <<batch, reserved>>
  /\ UNCHANGED <<phase, paused, ctx, latest, pending, aborted, opening, verifying, authTail,
                 timer, closeDue, store, context, capture, claimed, controls, query, listener,
                 version, expired, revoked, requests>>

\* The transport takes the acknowledgement: the session is active again.
AckAccepted ==
  /\ completing.pc = "acking"
  /\ Finish
  /\ IF phase = "closed" \/ Superseded(completing.attempt)
     THEN UNCHANGED <<phase, paused, pending>>
     ELSE /\ phase' = "active" /\ paused' = FALSE
          /\ pending' = IF pending = completing.attempt THEN None ELSE pending
  /\ UNCHANGED <<ctx, latest, aborted, opening, verifying, authTail, timer, closeDue, store,
                 context, capture, claimed, controls, query, listener, worldVars>>

-----------------------------------------------------------------------------
(***************************************************************************)
(* Expiry and revocation.                                                  *)
(***************************************************************************)
CredentialExpires(k) ==
  /\ k \in 0..latest \ (expired \cup Anonymous)
  /\ expired' = expired \cup {k}
  /\ UNCHANGED <<sessionVars, storeVars, version, revoked, view, requests, stale>>

Ends == /\ Terminate(reserved)
        /\ UNCHANGED <<opening, completing, store, context, capture, claimed, controls, query,
                       listener>>

\* The timer of scheduleExpiry.
TimerFires ==
  /\ timer # None /\ timer \in expired /\ ctx.attempt = timer
  /\ Ends
  /\ UNCHANGED worldVars

\* Mutant: only the credential in force is looked at.
ReachesCurrent(k) == ctx.attempt = k /\ k \notin Anonymous

\* Whom an invalidation closes: a credential on its way may be the one.
Reaches(k) == pending # None \/ (ctx.attempt = k /\ k \notin Anonymous)

\* onInvalidation, of a credential the client has presented: the verifier
\* turns down one that was revoked before.
Invalidate(k) ==
  /\ phase \notin {"awaiting_hello", "closed"} /\ k \in 0..latest \ (revoked \cup Anonymous)
  /\ revoked' = revoked \cup {k}
  /\ IF Reaches(k) THEN Ends ELSE UNCHANGED <<sessionVars, storeVars>>
  /\ UNCHANGED <<version, expired, view, requests, stale>>

-----------------------------------------------------------------------------
(***************************************************************************)
(* The client's operations, which it sends while no credential is on its   *)
(* way (canSendOperations).  Control operations of one id run in order.    *)
(***************************************************************************)
CanSendOperations == phase = "active" /\ ~paused

Control(op) == [op |-> op, attempt |-> ctx.attempt, running |-> FALSE]

\* admit, or the overloaded error.
RequestSubscribe(s) ==
  /\ CanSendOperations /\ requests < MaxRequests /\ view[s].status = "idle"
  /\ requests' = requests + 1
  /\ IF store = "open" /\ activeOperations < MaxOperations
     THEN /\ controls' = [controls EXCEPT ![s] = Append(@, Control("sub"))]
          /\ view' = [view EXCEPT ![s].status = "open"]
     ELSE UNCHANGED <<controls, view>>
  /\ UNCHANGED <<sessionVars, store, context, capture, reserved, claimed, query, listener,
                 version, expired, revoked, stale>>

\* removeSubscription: while a credential is on its way nothing is sent.
RequestUnsubscribe(s) ==
  /\ phase \in {"active", "refreshing"} /\ requests < MaxRequests /\ view[s].status = "open"
  /\ requests' = requests + 1
  /\ view' = [view EXCEPT ![s] = [Unseen EXCEPT !.status = "gone"]]
  /\ controls' = IF CanSendOperations /\ store = "open" /\ activeOperations < MaxOperations
                 THEN [controls EXCEPT ![s] = Append(@, Control("unsub"))] ELSE controls
  /\ UNCHANGED <<sessionVars, store, context, capture, reserved, claimed, query, listener,
                 version, expired, revoked, stale>>

\* The client's state after a frame, with the reset it sends if it may
\* (requestReset).  One that is not admitted is answered with an error.
Tell(s, frame, queues) ==
  LET held == Receive(view[s], frame)
      asks == held.resetRequested /\ ~view[s].resetRequested /\ CanSendOperations
      room == store = "open" /\ activeOperations < MaxOperations
  IN  /\ view' = [view EXCEPT ![s] =
                    IF asks /\ ~room THEN ApplyError(held) ELSE held]
      /\ controls' = IF asks /\ room
                     THEN [queues EXCEPT ![s] = Append(@, Control("reset"))] ELSE queues

Popped(s) == [controls EXCEPT ![s] = Tail(@)]

\* publishOperationOutcome of a failed operation: silent once its context is
\* aborted.
Refuse(s, attempt) ==
  IF attempt \notin aborted /\ CanSend(context.epoch)
  THEN Tell(s, Frame(s, "err", NoCursor, NoCursor), Popped(s)) /\ Sent(attempt)
  ELSE controls' = Popped(s) /\ UNCHANGED <<view, stale>>

Starts(s, op) == /\ controls[s] # <<>> /\ Head(controls[s]).op = op
                 /\ ~Head(controls[s]).running

\* An operation whose context was aborted before its turn came.
ControlAborted(s) ==
  /\ controls[s] # <<>> /\ ~Head(controls[s]).running /\ Head(controls[s]).attempt \in aborted
  /\ controls' = Popped(s)
  /\ Settle(store, activeOperations - 1, listener, claimed)
  /\ UNCHANGED <<sessionVars, context, capture, reserved, query, worldVars>>

\* claimSubscription, or the conflict.
SubscribeStarts(s) ==
  /\ Starts(s, "sub") /\ Head(controls[s]).attempt \notin aborted
  /\ IF s \in claimed
     THEN /\ Refuse(s, Head(controls[s]).attempt)
          /\ Settle(store, activeOperations - 1, listener, claimed)
     ELSE /\ controls' = [controls EXCEPT ![s][1].running = TRUE]
          /\ claimed' = claimed \cup {s}
          /\ UNCHANGED <<store, listener, view, stale>>
  /\ UNCHANGED <<sessionVars, context, capture, reserved, query, version, expired, revoked,
                 requests>>

\* releaseSubscription.
Freed(s) == claimed \ {s}

(***************************************************************************)
(* attachSubscription settles: the query fails, or the listener is         *)
(* attached and delivers from the client's cursor.  A delivery the session *)
(* no longer takes detaches it again, and nothing is said about it.        *)
(***************************************************************************)
SubscribeSettles(s, ok) ==
  /\ controls[s] # <<>> /\ Head(controls[s]).running
  /\ LET attempt == Head(controls[s]).attempt
         from == view[s].cursor
         to == <<context.epoch, version>>
         kind == IF from # NoCursor /\ from[1] = context.epoch /\ from[2] # None THEN "update" ELSE "reset"
     IN  IF ok /\ CanSend(context.epoch)
         THEN /\ Tell(s, Frame(s, kind, from, to), Popped(s))
              /\ Sent(attempt)
              /\ Settle(store, activeOperations - 1, [listener EXCEPT ![s] = Attached], claimed)
         ELSE /\ Refuse(s, attempt)
              /\ Settle(store, activeOperations - 1, listener, Freed(s))
  /\ UNCHANGED <<sessionVars, context, capture, reserved, query, version, expired, revoked,
                 requests>>

Unsubscribe(s) ==
  /\ Starts(s, "unsub") /\ Head(controls[s]).attempt \notin aborted
  /\ controls' = Popped(s)
  /\ Settle(store, activeOperations - 1, [listener EXCEPT ![s] = Detached], Freed(s))
  /\ UNCHANGED <<sessionVars, context, capture, reserved, query, worldVars>>

\* The entry's result, whatever the cursor; an error if nothing is attached.
Reset(s) ==
  /\ Starts(s, "reset") /\ Head(controls[s]).attempt \notin aborted
  /\ LET to == <<listener[s].epoch, listener[s].entry>>
     IN  IF listener[s].on /\ CanSend(listener[s].epoch)
         THEN /\ Tell(s, Frame(s, "reset", view[s].cursor, to), Popped(s))
              /\ Sent(Head(controls[s]).attempt)
              /\ Settle(store, activeOperations - 1,
                        [listener EXCEPT ![s].cursor = listener[s].entry], claimed)
         ELSE /\ Refuse(s, Head(controls[s]).attempt)
              /\ Settle(store, activeOperations - 1, listener, claimed)
  /\ UNCHANGED <<sessionVars, context, capture, reserved, query, version, expired, revoked,
                 requests>>

-----------------------------------------------------------------------------
(***************************************************************************)
(* Commits, and a query that runs beside everything else.                  *)
(***************************************************************************)
Commit ==
  /\ version < MaxVersion
  /\ version' = version + 1
  /\ listener' = [s \in Subs |-> [listener[s] EXCEPT !.due = listener[s].on]]
  /\ UNCHANGED <<sessionVars, store, context, capture, reserved, claimed, controls, query,
                 expired, revoked, view, requests, stale>>

(***************************************************************************)
(* deliverQuery after a commit.  While a capture is on the update is       *)
(* dropped as if it had been delivered; while the session is paused it is  *)
(* refused, and the cursor stays.                                          *)
(***************************************************************************)
Deliver(s) ==
  /\ listener[s].on /\ listener[s].due
  /\ LET l == listener[s]
         sends == ~capture.on /\ CanSend(l.epoch)
         moved == [l EXCEPT !.due = FALSE, !.entry = version,
                            !.cursor = IF capture.on \/ sends THEN version ELSE l.cursor]
     IN  /\ listener' = [listener EXCEPT ![s] = moved]
         /\ IF sends
            THEN /\ Tell(s, Frame(s, "update", <<l.epoch, l.cursor>>, <<l.epoch, version>>), controls)
                 /\ Sent(ctx.attempt)
            ELSE UNCHANGED <<view, controls, stale>>
  /\ UNCHANGED <<sessionVars, store, context, capture, reserved, claimed, query, version,
                 expired, revoked, requests>>

RequestQuery ==
  /\ CanSendOperations /\ query = None /\ requests < MaxRequests
  /\ store = "open" /\ activeOperations < MaxOperations
  /\ requests' = requests + 1 /\ query' = ctx.attempt
  /\ UNCHANGED <<sessionVars, store, context, capture, reserved, claimed, controls, listener,
                 version, expired, revoked, view, stale>>

\* The query ends; its result is published under the context it began with.
QueryEnds ==
  /\ query # None
  /\ query' = None
  /\ Settle(store, activeOperations - 1, listener, claimed)
  /\ IF query \notin aborted /\ ~capture.on /\ query = context.attempt /\ CanSend(context.epoch)
     THEN Sent(query) ELSE UNCHANGED stale
  /\ UNCHANGED <<sessionVars, context, capture, reserved, controls, version, expired, revoked,
                 view, requests>>

-----------------------------------------------------------------------------
ClientNext ==
  \/ Hello \/ Gone \/ AcceptAuth \/ RequestQuery
  \/ \E s \in Subs : RequestSubscribe(s) \/ RequestUnsubscribe(s)
  \/ Commit
  \/ \E k \in Attempts : CredentialExpires(k) \/ Invalidate(k)

Outcomes == {"reset", "application-error", "err"}

TransitionNext ==
  \/ CompleteStarts \/ TransitionBegins \/ TransitionRotates \/ TransitionOverflows
  \/ \E outcome \in Outcomes : TransitionAttaches(outcome)
  \/ TransitionEnds \/ FrameAccepted \/ AckAccepted

ControlNext(s) ==
  \/ ControlAborted(s) \/ SubscribeStarts(s) \/ Unsubscribe(s) \/ Reset(s)
  \/ \E ok \in BOOLEAN : SubscribeSettles(s, ok)

OpenNext == (\E outcome \in {"rejected", "refused", "accepted"} : OpenVerified(outcome))
            \/ OpenWelcomed

VerifyNext == \E k \in Attempts, ok \in BOOLEAN : Verified(k, ok)

SessionNext ==
  \/ ClientNext \/ OpenNext \/ VerifyNext \/ TransitionNext
  \/ CloseRuntime \/ TimerFires \/ QueryEnds
  \/ \E s \in Subs : ControlNext(s) \/ Deliver(s)

SessionSpec == SessionInit /\ [][SessionNext]_vars

\* What the server has begun, it goes on with.
FairSessionSpec ==
  /\ SessionSpec
  /\ WF_vars(OpenNext) /\ WF_vars(VerifyNext) /\ WF_vars(TransitionNext)
  /\ WF_vars(CloseRuntime) /\ WF_vars(TimerFires) /\ WF_vars(QueryEnds)
  /\ \A s \in Subs : WF_vars(ControlNext(s)) /\ WF_vars(Deliver(s))

-----------------------------------------------------------------------------
Cursors == {NoCursor} \cup (Attempts \X (None..MaxVersion))

\* The types of the variables; a session has at most MaxOperations operations
\* in flight (admit), the change of credential among them.
SessionTypeOK ==
  /\ phase \in {"awaiting_hello", "opening", "active", "refreshing", "closed"}
  /\ {paused, closeDue, stale} \subseteq BOOLEAN
  /\ {ctx, context} \subseteq [attempt : Attempts \cup {None}, epoch : Attempts]
  /\ latest \in Attempts /\ {pending, timer, query} \subseteq Attempts \cup {None}
  /\ aborted \cup verifying \cup expired \cup revoked \subseteq Attempts
  /\ opening \in {"no", "verify", "welcome", "done"}
  /\ \A i \in DOMAIN authTail : authTail[i] \in [attempt : Attempts, ok : BOOLEAN]
  /\ completing.pc \in {"idle", "frontier", "disconnect", "attach", "sending", "acking"}
  /\ store \in {"none", "open", "closing", "removed"}
  /\ claimed \subseteq Subs /\ activeOperations <= MaxOperations
  /\ \A s \in Subs : view[s] \in [status : {"idle", "open", "gone"}, cursor : Cursors,
                                  resetRequested : BOOLEAN]

\* An active session answers for the credential the client presented last: the
\* runtime's record is under the same context, and nothing has aborted it
\* (completeAuth exposes a transition only if its attempt is still the latest).
ActiveIsAligned ==
  phase = "active" => /\ ~paused /\ ctx.attempt = latest /\ ctx.attempt \notin aborted
                      /\ store = "open" => context = ctx
                      /\ completing = Idle /\ pending = None

\* No frame is handed to the transport for a credential that has been
\* replaced, whatever was in flight when the new one arrived (sendApplication,
\* publishOperationOutcome and the loop of completeAuth).
NothingStaleIsSent == ~stale

\* An invalidation closes every session that holds the credential or may be
\* about to: no open session is ever under a revoked one (onInvalidation).
RevokedIsOut == phase # "closed" => ctx.attempt \notin revoked

\* Frames are reserved in authCaptureBudget, which all sessions share, exactly
\* while they are captured or on their way to the client: none is left behind
\* by a close, a newer credential or a failed transition.
CaptureReturned == reserved = Len(capture.frames) + Len(batch)

\* A listener belongs to an id the record has claimed and to the context of
\* the record, and a removed record has neither (remove).
ListenersAreClaimed ==
  \A s \in Subs : listener[s].on =>
    s \in claimed /\ store \in {"open", "closing"} /\ listener[s].epoch = context.epoch

\* A session that refreshes its credential becomes active again or closes:
\* attempts that replace each other leave none half done (enqueueAuth).
RefreshSettles == phase = "refreshing" ~> phase \in {"active", "closed"}

\* A closed session is removed from the runtime, once its operations have
\* ended (terminate, startClose, tryRemove).
ClosedIsRemoved == phase = "closed" ~> store \in {"none", "removed"}

\* A session does not outlive the credential it is under (scheduleExpiry).
ExpiredEnds == ctx.attempt \in expired ~> phase = "closed" \/ ctx.attempt \notin expired

\* Nothing is under way.
Quiet == /\ phase = "active" /\ store = "open" /\ completing = Idle
         /\ \A s \in Subs : controls[s] = <<>> /\ ~listener[s].due

\* A client that waits for nothing more holds the last commit of every query
\* it subscribes to: docs/realtime.md's "no unchecked gap between snapshot and
\* live registration", across a change of credential.
QuietSessionIsCurrent ==
  Quiet => \A s \in Subs : view[s].status = "open" => view[s].cursor = <<ctx.epoch, version>>

=============================================================================
