---------------------------- MODULE SessionProofs ----------------------------
(***************************************************************************)
(* What a session may say, and for whom, for every number of credentials,  *)
(* subscriptions, commits and requests: an active session is under the     *)
(* credential presented last, no frame is sent for one that was replaced,  *)
(* and no open session is under a revoked one.                             *)
(*                                                                         *)
(* The three are one argument.  A frame is sent only while the session is  *)
(* not paused, which is exactly while it is active; it becomes active only *)
(* at the end of a completeAuth whose attempt is still the latest; by then *)
(* the control operations of older credentials have ended, because the     *)
(* transition waits for them and none is admitted while the session is     *)
(* paused; and the query that may still run was aborted when the session   *)
(* was paused.                                                             *)
(***************************************************************************)
EXTENDS Session, TLAPS

(* The places of completeAuth.                                             *)
Pcs == {"idle", "frontier", "disconnect", "attach", "sending", "acking"}
(* An operation of a subscription, running or waiting.                      *)
Ops == [op : {"sub", "unsub", "reset"}, attempt : Int, running : BOOLEAN]
(* A verified attempt that waits for its transition.                       *)
Queued == [attempt : Int, ok : BOOLEAN]

(* The types the argument needs.                                           *)
SessionTypes ==
  /\ phase \in {"awaiting_hello", "opening", "active", "refreshing", "closed"}
  /\ latest \in Nat /\ revoked \subseteq 0..latest
  /\ verifying \subseteq 0..latest
  /\ authTail \in Seq(Queued)
  /\ \A i \in 1..Len(authTail) : authTail[i].attempt <= latest
  /\ DOMAIN completing = {"attempt", "pc", "todo"} /\ completing.pc \in Pcs
  /\ completing.pc # "idle" => completing.attempt \in Int /\ completing.attempt <= latest
  /\ controls \in [Subs -> Seq(Ops)]

(* Nothing is admitted before the welcome, and the first context is the    *)
(* hello's.                                                                *)
OpensFirst ==
  /\ phase \in {"awaiting_hello", "opening"} =>
       /\ latest = 0 /\ aborted = {} /\ verifying = {} /\ authTail = <<>>
       /\ completing = Idle /\ query = None /\ \A s \in Subs : controls[s] = <<>>
  /\ phase = "awaiting_hello" => opening = "no" /\ revoked = {} /\ ctx.attempt = None
  /\ phase = "opening" => opening \in {"verify", "welcome"}
  /\ phase \in {"active", "refreshing"} => opening = "done"
  /\ phase = "opening" /\ opening = "verify" => pending = 0 /\ revoked = {}
  /\ phase = "opening" /\ opening = "welcome" =>
       ctx = Context(0, 0) /\ context = ctx /\ pending = None

(* The session takes frames exactly while it is active, and then under the *)
(* credential presented last.                                              *)
ActiveFacts ==
  /\ paused = (phase # "active")
  /\ phase = "active" =>
       /\ ctx.attempt = latest /\ latest \notin aborted /\ context = ctx
       /\ completing = Idle /\ pending = None
       /\ latest \notin verifying
       /\ \A i \in 1..Len(authTail) : authTail[i].attempt # latest
       /\ \A s \in Subs : \A i \in 1..Len(controls[s]) : controls[s][i].attempt = latest

(* The last attempt is in one place: verified, queued or being completed.  *)
LatestOnce ==
  /\ latest \in verifying => \A i \in 1..Len(authTail) : authTail[i].attempt # latest
  /\ \A i, j \in 1..Len(authTail) :
       authTail[i].attempt = latest /\ authTail[j].attempt = latest => i = j
  /\ completing.pc # "idle" /\ completing.attempt = latest =>
       /\ latest \notin verifying
       /\ \A i \in 1..Len(authTail) : authTail[i].attempt # latest

(* How far completeAuth has come, while the session is still open.         *)
RefreshFacts ==
  /\ phase = "refreshing" => pending = latest /\ latest \notin revoked
  /\ phase = "refreshing" /\ completing.pc # "idle" => completing.attempt \notin revoked
  /\ completing.pc = "attach" => context.attempt = completing.attempt
  /\ completing.pc \in {"sending", "acking"} /\ phase # "closed" =>
       ctx.attempt = completing.attempt /\ context = ctx
  /\ completing.pc \in {"disconnect", "attach", "sending", "acking"} =>
       \A s \in Subs : controls[s] = <<>>

(* A query runs under the credential in force, or its context was aborted. *)
QueryFacts ==
  query # None => \/ query \in aborted \/ phase = "closed"
                  \/ phase = "active" /\ query = latest

(* The inductive invariant.                                                *)
SessionInv ==
  /\ SessionTypes /\ OpensFirst /\ ActiveFacts /\ LatestOnce /\ RefreshFacts /\ QueryFacts
  /\ RevokedIsOut /\ ~stale

(* What the invariant depends on.                                          *)
invVars == <<phase, paused, ctx, latest, pending, aborted, opening, verifying, authTail,
             completing, context, controls, query, revoked, stale>>

-----------------------------------------------------------------------------

(* The initial state satisfies it.                                         *)
LEMMA SessionStart == SessionInit => SessionInv
<1> SUFFICES ASSUME SessionInit PROVE SessionInv
  BY Zenon
<1>1. SessionTypes
  <2>1. /\ phase = "awaiting_hello" /\ latest = 0 /\ revoked = {} /\ verifying = {}
        /\ authTail = <<>> /\ completing = Idle /\ controls = [s \in Subs |-> <<>>]
    BY Zenon DEF SessionInit
  <2>2. DOMAIN completing = {"attempt", "pc", "todo"} /\ completing.pc = "idle"
    BY Zenon, <2>1 DEF Idle
  <2>3. controls \in [Subs -> Seq(Ops)]
    BY <2>1
  <2> QED BY <2>1, <2>2, <2>3 DEF SessionTypes, Pcs
<1>2. OpensFirst
  BY Zenon DEF SessionInit, OpensFirst, Context, None
<1>3. ActiveFacts /\ QueryFacts
  BY Zenon DEF SessionInit, ActiveFacts, QueryFacts
<1>4. LatestOnce /\ RefreshFacts
  BY DEF SessionInit, LatestOnce, RefreshFacts, Idle
<1>5. RevokedIsOut /\ ~stale
  BY Zenon DEF SessionInit, RevokedIsOut
<1> QED BY <1>1, <1>2, <1>3, <1>4, <1>5 DEF SessionInv

(* A step that leaves those variables alone preserves it.                  *)
LEMMA SessionStutters ==
  ASSUME SessionInv, UNCHANGED invVars
  PROVE  SessionInv'
<1>1. SessionTypes' /\ OpensFirst' /\ ActiveFacts'
  BY Zenon DEF SessionInv, SessionTypes, OpensFirst, ActiveFacts, invVars
<1>2. LatestOnce' /\ RefreshFacts' /\ QueryFacts' /\ RevokedIsOut' /\ ~stale'
  BY Zenon DEF SessionInv, LatestOnce, RefreshFacts, QueryFacts, RevokedIsOut, invVars
<1> QED BY <1>1, <1>2 DEF SessionInv

(* A step into the closed phase: only what completeAuth still relies on    *)
(* has to be kept.                                                         *)
LEMMA SessionCloses ==
  ASSUME SessionInv, phase' = "closed", paused' = TRUE, SessionTypes', LatestOnce',
         completing'.pc = "attach" => context'.attempt = completing'.attempt,
         completing'.pc \in {"disconnect", "attach", "sending", "acking"} =>
           \A s \in Subs : controls'[s] = <<>>,
         ~stale'
  PROVE  SessionInv'
<1>1. OpensFirst' /\ ActiveFacts'
  BY Zenon DEF OpensFirst, ActiveFacts
<1>2. RefreshFacts' /\ QueryFacts' /\ RevokedIsOut'
  BY Zenon DEF RefreshFacts, QueryFacts, RevokedIsOut
<1> QED BY <1>1, <1>2 DEF SessionInv

(* terminate, whatever calls it, with completeAuth left where it was or    *)
(* ended.                                                                  *)
LEMMA SessionTerminates ==
  ASSUME SessionInv, NEW held, Terminate(held), completing' \in {completing, Idle},
         revoked' \subseteq 0..latest, UNCHANGED <<context, controls, stale>>
  PROVE  SessionInv'
<1>1. /\ phase' = "closed" /\ paused' = TRUE /\ verifying' = {} /\ authTail' = <<>>
      /\ latest' = latest
  BY Zenon DEF Terminate
<1>2. /\ DOMAIN completing' = {"attempt", "pc", "todo"} /\ completing'.pc \in Pcs
      /\ completing' = completing \/ completing'.pc = "idle"
  BY DEF SessionInv, SessionTypes, Idle, Pcs
<1>3. SessionTypes'
  BY <1>1, <1>2 DEF SessionInv, SessionTypes
<1>4. LatestOnce'
  BY <1>1 DEF LatestOnce
<1>5. /\ completing'.pc = "attach" => context'.attempt = completing'.attempt
      /\ completing'.pc \in {"disconnect", "attach", "sending", "acking"} =>
           \A s \in Subs : controls'[s] = <<>>
  BY Zenon, <1>2 DEF SessionInv, RefreshFacts
<1> QED
  BY Zenon, <1>1, <1>3, <1>4, <1>5, SessionCloses DEF SessionInv

-----------------------------------------------------------------------------

(* The handshake.                                                          *)
LEMMA HelloKeeps ==
  ASSUME SessionInv, Hello
  PROVE  SessionInv'
<1>1. /\ phase = "awaiting_hello" /\ phase' = "opening" /\ opening' = "verify" /\ pending' = 0
      /\ UNCHANGED <<paused, ctx, latest, aborted, verifying, authTail, completing, context,
                     controls, query, revoked, stale>>
  BY Zenon DEF Hello, storeVars, worldVars
<1>2. SessionTypes'
  BY Zenon, <1>1 DEF SessionInv, SessionTypes
<1>3. OpensFirst' /\ ActiveFacts'
  BY Zenon, <1>1 DEF SessionInv, OpensFirst, ActiveFacts
<1>4. LatestOnce' /\ RefreshFacts' /\ QueryFacts'
  BY Zenon, <1>1 DEF SessionInv, LatestOnce, RefreshFacts, QueryFacts, OpensFirst, Idle
<1>5. RevokedIsOut' /\ ~stale'
  BY Zenon, <1>1 DEF SessionInv, RevokedIsOut
<1> QED BY <1>2, <1>3, <1>4, <1>5 DEF SessionInv

(* The hello has been verified: the first context, or the close.           *)
LEMMA OpenVerifiedKeeps ==
  ASSUME SessionInv, NEW outcome, OpenVerified(outcome)
  PROVE  SessionInv'
<1> DEFINE usable == outcome # "rejected" /\ phase # "closed" /\ 0 \notin expired \ Anonymous
           opens == usable /\ outcome = "accepted"
<1>1. /\ opening = "verify" /\ pending' = None
      /\ ctx' = IF usable THEN Context(0, 0) ELSE ctx
      /\ context' = IF opens THEN Context(0, 0) ELSE context
      /\ opening' = IF opens THEN "welcome" ELSE "done"
      /\ phase' = IF opens THEN phase ELSE "closed"
      /\ UNCHANGED <<paused, latest, aborted, verifying, authTail, completing, controls, query,
                     revoked, stale>>
  BY Zenon DEF OpenVerified, StoreOpen, worldVars
<1>2. phase \in {"opening", "closed"}
  BY Zenon, <1>1 DEF SessionInv, SessionTypes, OpensFirst
<1>3. SessionTypes' /\ LatestOnce'
  BY Zenon, <1>1 DEF SessionInv, SessionTypes, LatestOnce
<1>4. CASE opens
  <2>1. /\ phase = "opening" /\ phase' = "opening" /\ opening' = "welcome"
        /\ ctx' = Context(0, 0) /\ context' = Context(0, 0)
    BY Zenon, <1>1, <1>2, <1>4
  <2>2. revoked = {} /\ completing = Idle
    BY Zenon, <1>1, <2>1 DEF SessionInv, OpensFirst
  <2>3. OpensFirst' /\ ActiveFacts'
    BY Zenon, <1>1, <2>1 DEF SessionInv, OpensFirst, ActiveFacts
  <2>4. RefreshFacts' /\ QueryFacts'
    BY Zenon, <1>1, <2>1, <2>2 DEF SessionInv, RefreshFacts, QueryFacts, Idle
  <2>5. RevokedIsOut' /\ ~stale'
    BY Zenon, <1>1, <2>1, <2>2 DEF SessionInv, RevokedIsOut
  <2> QED BY <1>3, <2>3, <2>4, <2>5 DEF SessionInv
<1>5. CASE ~opens
  <2>1. phase' = "closed" /\ paused' = TRUE /\ context' = context
    BY Zenon, <1>1, <1>2, <1>5 DEF SessionInv, ActiveFacts
  <2>2. /\ completing'.pc = "attach" => context'.attempt = completing'.attempt
        /\ completing'.pc \in {"disconnect", "attach", "sending", "acking"} =>
             \A s \in Subs : controls'[s] = <<>>
    BY Zenon, <1>1, <2>1 DEF SessionInv, RefreshFacts
  <2> QED BY <1>1, <1>3, <2>1, <2>2, SessionCloses DEF SessionInv
<1> QED BY <1>4, <1>5

(* The welcome is sent, and the session becomes active.                    *)
LEMMA OpenWelcomedKeeps ==
  ASSUME SessionInv, OpenWelcomed
  PROVE  SessionInv'
<1>1. /\ opening = "welcome" /\ opening' = "done"
      /\ UNCHANGED <<ctx, latest, pending, aborted, verifying, authTail, completing, context,
                     controls, query, revoked, stale>>
  BY Zenon DEF OpenWelcomed, storeVars, worldVars
<1>2. CASE phase = "closed"
  <2>1. UNCHANGED <<phase, paused>>
    BY Zenon, <1>2 DEF OpenWelcomed
  <2>2. SessionTypes' /\ LatestOnce'
    BY Zenon, <1>1, <2>1 DEF SessionInv, SessionTypes, LatestOnce
  <2>3. /\ completing'.pc = "attach" => context'.attempt = completing'.attempt
        /\ completing'.pc \in {"disconnect", "attach", "sending", "acking"} =>
             \A s \in Subs : controls'[s] = <<>>
    BY Zenon, <1>1 DEF SessionInv, RefreshFacts
  <2>4. phase' = "closed" /\ paused' = TRUE /\ ~stale'
    BY Zenon, <1>1, <1>2, <2>1 DEF SessionInv, ActiveFacts
  <2> QED BY <2>2, <2>3, <2>4, SessionCloses
<1>3. CASE phase # "closed"
  <2>1. phase' = "active" /\ paused' = FALSE
    BY Zenon, <1>3 DEF OpenWelcomed
  <2>2. /\ phase = "opening" /\ latest = 0 /\ aborted = {} /\ verifying = {}
        /\ authTail = <<>> /\ completing = Idle /\ query = None /\ pending = None
        /\ ctx = Context(0, 0) /\ context = ctx
        /\ \A s \in Subs : controls[s] = <<>>
    BY Zenon, <1>1, <1>3 DEF SessionInv, SessionTypes, OpensFirst
  <2>3. SessionTypes'
    BY Zenon, <1>1, <2>1 DEF SessionInv, SessionTypes
  <2>4. OpensFirst' /\ LatestOnce'
    BY <1>1, <2>1, <2>2 DEF OpensFirst, LatestOnce
  <2>5. ActiveFacts'
    <3>1. ctx.attempt = latest /\ latest \notin aborted /\ latest \notin verifying
      BY Zenon, <2>2 DEF Context
    <3>2. /\ \A i \in 1..Len(authTail) : authTail[i].attempt # latest
          /\ \A s \in Subs : \A i \in 1..Len(controls[s]) : controls[s][i].attempt = latest
      BY <2>2
    <3>3. paused' = (phase' # "active")
      BY Zenon, <2>1
    <3> QED BY <1>1, <2>2, <3>1, <3>2, <3>3 DEF ActiveFacts
  <2>6. RefreshFacts' /\ QueryFacts'
    BY Zenon, <1>1, <2>1, <2>2 DEF RefreshFacts, QueryFacts, Idle
  <2>7. RevokedIsOut' /\ ~stale'
    BY Zenon, <1>1, <2>1, <2>2 DEF SessionInv, RevokedIsOut
  <2> QED BY <2>3, <2>4, <2>5, <2>6, <2>7 DEF SessionInv
<1> QED BY <1>2, <1>3

-----------------------------------------------------------------------------

(* The entries of the queue of verified credentials.                       *)
LEMMA QueueFacts ==
  ASSUME SessionInv
  PROVE  /\ Len(authTail) \in Nat
         /\ \A i \in 1..Len(authTail) :
              authTail[i].attempt \in Int /\ authTail[i].attempt <= latest
<1>1. authTail \in Seq(Queued)
  BY Zenon DEF SessionInv, SessionTypes
<1>2. \A i \in 1..Len(authTail) : authTail[i] \in Queued
  BY <1>1
<1>3. \A i \in 1..Len(authTail) : authTail[i].attempt <= latest
  BY Zenon DEF SessionInv, SessionTypes
<1> QED BY <1>1, <1>2, <1>3 DEF Queued

(* A new credential.                                                       *)
LEMMA AcceptAuthKeeps ==
  ASSUME SessionInv, AcceptAuth
  PROVE  SessionInv'
<1>1. /\ phase \in {"active", "refreshing"} /\ phase' = "refreshing" /\ paused' = TRUE
      /\ latest' = latest + 1 /\ pending' = latest'
      /\ aborted' = aborted \cup Controllers
      /\ verifying' = verifying \cup {latest'}
      /\ UNCHANGED <<ctx, opening, authTail, completing, context, controls, query, revoked,
                     stale>>
  BY Zenon DEF AcceptAuth, storeVars, worldVars
<1>2. latest \in Nat /\ latest' \in Nat /\ latest < latest'
  BY <1>1 DEF SessionInv, SessionTypes
<1>3. \A i \in 1..Len(authTail) : authTail[i].attempt <= latest' /\ authTail[i].attempt # latest'
  BY <1>2, QueueFacts
<1>4. latest' \notin revoked /\ revoked \subseteq 0..latest' /\ verifying' \subseteq 0..latest'
  <2>1. 0..latest \subseteq 0..latest' /\ latest' \in 0..latest' /\ latest' \notin 0..latest
    BY <1>2
  <2>2. revoked \subseteq 0..latest /\ verifying \subseteq 0..latest
    BY Zenon DEF SessionInv, SessionTypes
  <2> QED BY <1>1, <2>1, <2>2
<1>5. SessionTypes'
  BY <1>1, <1>2, <1>3, <1>4 DEF SessionInv, SessionTypes
<1>6. OpensFirst'
  BY Zenon, <1>1 DEF SessionInv, OpensFirst
<1>7. ActiveFacts'
  BY Zenon, <1>1 DEF ActiveFacts
<1>8. completing.pc # "idle" => completing.attempt # latest' /\ phase = "refreshing"
  <2>1. completing.pc # "idle" => completing.attempt \in Int /\ completing.attempt <= latest
    BY Zenon DEF SessionInv, SessionTypes
  <2>2. phase = "active" => completing.pc = "idle"
    BY DEF SessionInv, ActiveFacts, Idle
  <2> QED BY <1>1, <1>2, <2>1, <2>2
<1>9. LatestOnce'
  BY Zenon, <1>1, <1>3, <1>8 DEF LatestOnce
<1>10. RefreshFacts'
  BY Zenon, <1>1, <1>4, <1>8 DEF SessionInv, RefreshFacts
<1>11. QueryFacts'
  <2>1. CASE phase = "active" /\ query = latest
    <3>1. query \in Controllers
      BY <1>2, <2>1 DEF SessionInv, ActiveFacts, Controllers, None
    <3> QED BY <1>1, <3>1 DEF QueryFacts
  <2>2. CASE query = None \/ query \in aborted
    BY Zenon, <1>1, <2>2 DEF QueryFacts
  <2> QED BY <1>1, <2>1, <2>2 DEF SessionInv, QueryFacts
<1>12. RevokedIsOut' /\ ~stale'
  BY Zenon, <1>1 DEF SessionInv, RevokedIsOut
<1> QED
  BY Zenon, <1>5, <1>6, <1>7, <1>9, <1>10, <1>11, <1>12 DEF SessionInv

(* A credential that was verified joins the queue.                         *)
LEMMA VerifiedKeeps ==
  ASSUME SessionInv, NEW k, NEW ok \in BOOLEAN, Verified(k, ok)
  PROVE  SessionInv'
<1> DEFINE a == [attempt |-> k, ok |-> ok /\ k \notin aborted]
           n == Len(authTail)
<1>1. /\ k \in verifying /\ verifying' = verifying \ {k} /\ authTail' = Append(authTail, a)
      /\ UNCHANGED <<phase, paused, ctx, latest, pending, aborted, opening, completing, context,
                     controls, query, revoked, stale>>
  BY Zenon DEF Verified, storeVars, worldVars
<1>2. k \in Int /\ k <= latest /\ latest \in Nat
  <2>1. latest \in Nat /\ verifying \subseteq 0..latest
    BY Zenon DEF SessionInv, SessionTypes
  <2> QED BY <1>1, <2>1
<1>3. a \in Queued /\ a.attempt = k
  BY Zenon, <1>2 DEF Queued
<1> HIDE DEF a
<1>4. /\ authTail' \in Seq(Queued)
      /\ Len(authTail') = n + 1 /\ n \in Nat /\ authTail'[n + 1].attempt = k
      /\ \A i \in 1..n : authTail'[i] = authTail[i]
  BY <1>1, <1>3 DEF SessionInv, SessionTypes
<1> HIDE DEF n
<1>5. \A i \in 1..Len(authTail') : i \in 1..n \/ i = n + 1
  BY <1>4
<1>6. SessionTypes'
  <2>1. \A i \in 1..Len(authTail') : authTail'[i].attempt <= latest
    BY Zenon, <1>2, <1>4, <1>5 DEF SessionInv, SessionTypes, n
  <2> QED BY <1>1, <1>4, <2>1 DEF SessionInv, SessionTypes
<1>7. phase \notin {"awaiting_hello", "opening"}
  BY Zenon, <1>1 DEF SessionInv, OpensFirst
<1>8. OpensFirst' /\ RefreshFacts' /\ QueryFacts'
  BY Zenon, <1>1, <1>7 DEF SessionInv, OpensFirst, RefreshFacts, QueryFacts
<1>9. ActiveFacts'
  <2>1. phase = "active" => \A i \in 1..Len(authTail') : authTail'[i].attempt # latest
    BY Zenon, <1>1, <1>4, <1>5 DEF SessionInv, ActiveFacts, n
  <2> QED BY <1>1, <2>1 DEF SessionInv, ActiveFacts
<1>10. LatestOnce'
  <2>1. CASE k = latest
    <3>1. \A i \in 1..n : authTail[i].attempt # latest
      BY Zenon, <1>1, <2>1 DEF SessionInv, LatestOnce, n
    <3>2. \A i \in 1..Len(authTail') : authTail'[i].attempt = latest => i = n + 1
      BY Zenon, <1>4, <1>5, <3>1
    <3>3. latest \notin verifying' /\ ~(completing.pc # "idle" /\ completing.attempt = latest)
      BY Zenon, <1>1, <2>1 DEF SessionInv, LatestOnce
    <3> QED BY <1>1, <3>2, <3>3 DEF LatestOnce
  <2>2. CASE k # latest
    <3>1. \A i \in 1..Len(authTail') :
            authTail'[i].attempt = latest => i \in 1..n /\ authTail[i].attempt = latest
      BY Zenon, <1>4, <1>5, <2>2
    <3> QED BY <1>1, <2>2, <3>1 DEF SessionInv, LatestOnce, n
  <2> QED BY <2>1, <2>2
<1>11. RevokedIsOut' /\ ~stale'
  BY Zenon, <1>1 DEF SessionInv, RevokedIsOut
<1> QED
  BY Zenon, <1>6, <1>8, <1>9, <1>10, <1>11 DEF SessionInv

(* completeAuth begins: the attempt was replaced, fails, or is the latest  *)
(* one and its transition is admitted.                                     *)
LEMMA CompleteStartsKeeps ==
  ASSUME SessionInv, CompleteStarts
  PROVE  SessionInv'
<1> DEFINE a == Head(authTail)
           n == Len(authTail)
<1>1. /\ completing.pc = "idle" /\ authTail # <<>>
      /\ UNCHANGED <<opening, context, controls, query, revoked, stale>>
  BY Zenon DEF CompleteStarts, worldVars
<1>2. /\ n \in Nat /\ n > 0 /\ a = authTail[1] /\ a.attempt \in Int /\ a.attempt <= latest
      /\ Tail(authTail) \in Seq(Queued) /\ Len(Tail(authTail)) = n - 1
      /\ \A i \in 1..(n - 1) : Tail(authTail)[i] = authTail[i + 1] /\ i + 1 \in 1..n
  <2>1. authTail \in Seq(Queued)
    BY Zenon DEF SessionInv, SessionTypes
  <2>2. /\ n \in Nat /\ n > 0 /\ a = authTail[1] /\ 1 \in 1..n
        /\ Tail(authTail) \in Seq(Queued) /\ Len(Tail(authTail)) = n - 1
    BY <1>1, <2>1
  <2>3. \A i \in 1..(n - 1) : Tail(authTail)[i] = authTail[i + 1] /\ i + 1 \in 1..n
    BY <1>1, <2>1, <2>2
  <2> QED BY <2>2, <2>3, QueueFacts
<1>3. phase \notin {"awaiting_hello", "opening"} /\ (phase = "active" => a.attempt # latest)
  BY <1>1, <1>2 DEF SessionInv, OpensFirst, ActiveFacts
<1> HIDE DEF a, n
<1>4. ASSUME authTail' = Tail(authTail),
             UNCHANGED <<phase, paused, aborted, verifying, ctx, latest, pending>>,
             \/ completing' = completing
             \/ /\ a.attempt = latest
                /\ completing' = [attempt |-> a.attempt, pc |-> "frontier", todo |-> <<>>]
      PROVE  SessionInv'
  <2>1. \A i \in 1..Len(authTail') : authTail'[i] = authTail[i + 1] /\ i + 1 \in 1..n
    BY Zenon, <1>2, <1>4
  <2>2. /\ DOMAIN completing' = {"attempt", "pc", "todo"} /\ completing'.pc \in {"idle", "frontier"}
        /\ completing'.pc # "idle" =>
             /\ completing'.attempt = latest /\ a.attempt = latest
             /\ phase = "refreshing" \/ phase = "closed"
    BY <1>1, <1>3, <1>4 DEF SessionInv, SessionTypes
  <2>3. SessionTypes'
    <3>1. \A i \in 1..Len(authTail') : authTail'[i].attempt <= latest
      BY Zenon, <2>1 DEF SessionInv, SessionTypes, n
    <3> QED BY <1>1, <1>2, <1>4, <2>2, <3>1 DEF SessionInv, SessionTypes, Pcs
  <2>4. OpensFirst' /\ QueryFacts'
    BY Zenon, <1>1, <1>3, <1>4 DEF SessionInv, OpensFirst, QueryFacts
  <2>5. ActiveFacts'
    BY Zenon, <1>1, <1>3, <1>4, <2>1 DEF SessionInv, ActiveFacts, n
  <2>6. LatestOnce'
    <3>1. ASSUME a.attempt = latest
          PROVE  /\ latest \notin verifying
                 /\ \A i \in 1..Len(authTail') : authTail'[i].attempt # latest
      <4>1. \A i \in 1..Len(authTail') : i + 1 # 1
        BY <1>2, <1>4
      <4>2. 1 \in 1..n
        BY <1>2
      <4> QED BY <1>2, <2>1, <3>1, <4>1, <4>2 DEF SessionInv, LatestOnce, n
    <3>2. latest \in verifying => \A i \in 1..Len(authTail') : authTail'[i].attempt # latest
      BY Zenon, <2>1 DEF SessionInv, LatestOnce, n
    <3>3. \A i, j \in 1..Len(authTail') :
            authTail'[i].attempt = latest /\ authTail'[j].attempt = latest => i = j
      <4>1. \A i, j \in 1..Len(authTail') : i + 1 = j + 1 => i = j
        BY <1>2, <1>4
      <4> QED BY <2>1, <4>1 DEF SessionInv, LatestOnce, n
    <3> QED BY <1>4, <2>2, <3>1, <3>2, <3>3 DEF LatestOnce
  <2>7. RefreshFacts'
    BY Zenon, <1>1, <1>4, <2>2 DEF SessionInv, RefreshFacts
  <2>8. RevokedIsOut' /\ ~stale'
    BY Zenon, <1>1, <1>4 DEF SessionInv, RevokedIsOut
  <2> QED BY <2>3, <2>4, <2>5, <2>6, <2>7, <2>8 DEF SessionInv
<1>5. ASSUME Terminate(reserved), UNCHANGED completing PROVE SessionInv'
  BY Zenon, <1>1, <1>5, SessionTerminates DEF SessionInv, SessionTypes
<1> QED
  BY Zenon, <1>4, <1>5 DEF CompleteStarts, a

-----------------------------------------------------------------------------

(* The transition gives up, because its attempt was aborted, or begins.    *)
LEMMA TransitionBeginsKeeps ==
  ASSUME SessionInv, TransitionBegins
  PROVE  SessionInv'
<1>1. /\ completing.pc = "frontier" /\ \A s \in Subs : controls[s] = <<>>
      /\ completing' \in {Idle, [completing EXCEPT !.pc = "disconnect"]}
      /\ UNCHANGED <<phase, paused, ctx, latest, pending, aborted, opening, verifying, authTail,
                     context, controls, query, revoked, stale>>
  BY Zenon DEF TransitionBegins, Carries, worldVars
<1>2. /\ DOMAIN completing' = {"attempt", "pc", "todo"} /\ completing'.pc \in {"idle", "disconnect"}
      /\ completing'.pc # "idle" => completing'.attempt = completing.attempt
  BY <1>1 DEF SessionInv, SessionTypes, Idle
<1>3. phase \in {"refreshing", "closed"}
  BY <1>1 DEF SessionInv, SessionTypes, OpensFirst, ActiveFacts, Idle
<1>4. SessionTypes'
  BY Zenon, <1>1, <1>2 DEF SessionInv, SessionTypes, Pcs
<1>5. OpensFirst' /\ ActiveFacts' /\ QueryFacts'
  BY Zenon, <1>1, <1>3 DEF SessionInv, OpensFirst, ActiveFacts, QueryFacts
<1>6. LatestOnce' /\ RefreshFacts'
  BY Zenon, <1>1, <1>2 DEF SessionInv, LatestOnce, RefreshFacts
<1>7. RevokedIsOut' /\ ~stale'
  BY Zenon, <1>1 DEF SessionInv, RevokedIsOut
<1> QED BY <1>4, <1>5, <1>6, <1>7 DEF SessionInv

(* The transition fails: the session closes, unless it does not matter.    *)
LEMMA TransitionFailsKeeps ==
  ASSUME SessionInv, NEW listeners, completing.pc \in {"disconnect", "attach"},
         TransitionFails(listeners)
  PROVE  SessionInv'
<1>1. completing' = Idle /\ UNCHANGED <<opening, context, controls, query, revoked, stale>>
  BY Zenon DEF TransitionFails, worldVars
<1>2. CASE Terminate(reserved - Len(capture.frames))
  BY Zenon, <1>1, <1>2, SessionTerminates DEF SessionInv, SessionTypes
<1>3. CASE /\ aborted' = aborted \cup {completing.attempt}
           /\ UNCHANGED <<phase, paused, verifying, authTail, ctx, latest, pending>>
  <2>1. phase \in {"refreshing", "closed"}
    BY DEF SessionInv, SessionTypes, OpensFirst, ActiveFacts, Idle
  <2>2. DOMAIN completing' = {"attempt", "pc", "todo"} /\ completing'.pc = "idle"
    BY Zenon, <1>1 DEF Idle
  <2>3. SessionTypes'
    BY Zenon, <1>1, <1>3, <2>2 DEF SessionInv, SessionTypes, Pcs
  <2>4. OpensFirst' /\ ActiveFacts' /\ QueryFacts'
    BY Zenon, <1>1, <1>3, <2>1 DEF SessionInv, OpensFirst, ActiveFacts, QueryFacts
  <2>5. LatestOnce' /\ RefreshFacts'
    BY Zenon, <1>1, <1>3, <2>2 DEF SessionInv, LatestOnce, RefreshFacts
  <2>6. RevokedIsOut' /\ ~stale'
    BY Zenon, <1>1, <1>3 DEF SessionInv, RevokedIsOut
  <2> QED BY <2>3, <2>4, <2>5, <2>6 DEF SessionInv
<1> QED BY <1>2, <1>3 DEF TransitionFails

(* The record changes over to the new context, and subscriptions are       *)
(* reattached one by one.                                                  *)
LEMMA TransitionMovesKeeps ==
  ASSUME SessionInv, TransitionRotates \/ \E outcome \in Outcomes : TransitionAttaches(outcome)
  PROVE  SessionInv'
<1>1. /\ completing.pc \in {"disconnect", "attach"}
      /\ UNCHANGED <<phase, paused, ctx, latest, pending, aborted, opening, verifying, authTail,
                     controls, query, revoked, stale>>
  BY Zenon DEF TransitionRotates, TransitionAttaches, worldVars
<1>2. \/ /\ context' = Context(completing.attempt, ctx.epoch + 1)
         /\ \E ids : completing' = [completing EXCEPT !.pc = "attach", !.todo = ids]
      \/ /\ context' = context /\ completing.pc = "attach"
         /\ completing' = [completing EXCEPT !.todo = Tail(@)]
  BY Zenon DEF TransitionRotates, TransitionAttaches
<1>3. /\ DOMAIN completing' = {"attempt", "pc", "todo"} /\ completing'.pc = "attach"
      /\ completing'.attempt = completing.attempt
  BY Zenon, <1>1, <1>2 DEF SessionInv, SessionTypes
<1>4. context'.attempt = completing'.attempt
  <2>1. CASE context' = Context(completing.attempt, ctx.epoch + 1)
    BY Zenon, <1>3, <2>1 DEF Context
  <2>2. CASE context' = context /\ completing.pc = "attach"
    BY Zenon, <1>3, <2>2 DEF SessionInv, RefreshFacts
  <2> QED BY <1>2, <2>1, <2>2
<1>5. phase \in {"refreshing", "closed"}
  BY <1>1 DEF SessionInv, SessionTypes, OpensFirst, ActiveFacts, Idle
<1>6. SessionTypes'
  BY Zenon, <1>1, <1>3 DEF SessionInv, SessionTypes, Pcs
<1>7. OpensFirst' /\ ActiveFacts' /\ QueryFacts'
  BY Zenon, <1>1, <1>5 DEF SessionInv, OpensFirst, ActiveFacts, QueryFacts
<1>8. LatestOnce'
  BY Zenon, <1>1, <1>3 DEF SessionInv, LatestOnce
<1>9. RefreshFacts'
  BY Zenon, <1>1, <1>3, <1>4 DEF SessionInv, RefreshFacts
<1>10. RevokedIsOut' /\ ~stale'
  BY Zenon, <1>1 DEF SessionInv, RevokedIsOut
<1> QED BY <1>6, <1>7, <1>8, <1>9, <1>10 DEF SessionInv

(* The new credential is in force: its frames are sent, it was replaced    *)
(* meanwhile, or it has expired.                                           *)
LEMMA TransitionEndsKeeps ==
  ASSUME SessionInv, TransitionEnds
  PROVE  SessionInv'
<1> DEFINE k == completing.attempt
           lapsed == k \in expired \ Anonymous
           sends == phase # "closed" /\ ~lapsed /\ ~Superseded(k)
<1>1. /\ completing.pc = "attach"
      /\ ctx' = IF phase = "closed" THEN ctx ELSE context
      /\ phase' = IF lapsed THEN "closed" ELSE phase
      /\ verifying' = IF lapsed THEN {} ELSE verifying
      /\ authTail' = IF lapsed THEN <<>> ELSE authTail
      /\ aborted \subseteq aborted'
      /\ UNCHANGED <<paused, latest, pending, opening, context, controls, query, revoked>>
  BY Zenon DEF TransitionEnds
<1>2. /\ completing' = IF sends
                       THEN [attempt |-> k, todo |-> capture.frames,
                             pc |-> IF capture.frames = <<>> THEN "acking" ELSE "sending"]
                       ELSE Idle
      /\ stale' = (stale \/ (sends /\ capture.frames # <<>> /\ k # latest))
  BY Zenon DEF TransitionEnds
<1>3. phase \in {"refreshing", "closed"}
  BY <1>1 DEF SessionInv, SessionTypes, OpensFirst, ActiveFacts, Idle
<1>4. context.attempt = k /\ \A s \in Subs : controls[s] = <<>>
  BY Zenon, <1>1 DEF SessionInv, RefreshFacts
<1>5. ~stale'
  BY Zenon, <1>2 DEF SessionInv, Superseded
<1>6. /\ DOMAIN completing' = {"attempt", "pc", "todo"}
      /\ completing'.pc \in {"idle", "sending", "acking"}
      /\ completing'.pc # "idle" => completing'.attempt = k /\ sends
  BY Zenon, <1>2 DEF Idle
<1>7. k \in Int /\ k <= latest
  BY Zenon, <1>1 DEF SessionInv, SessionTypes
<1> HIDE DEF k, lapsed, sends
<1>8. SessionTypes'
  <2>1. /\ authTail' \in Seq(Queued)
        /\ \A i \in 1..Len(authTail') : authTail'[i].attempt <= latest
    <3>1. CASE authTail' = <<>>
      BY <3>1
    <3>2. CASE authTail' = authTail
      BY Zenon, <3>2 DEF SessionInv, SessionTypes
    <3> QED BY <1>1, <3>1, <3>2
  <2>2. verifying' \subseteq 0..latest
    BY Zenon, <1>1 DEF SessionInv, SessionTypes
  <2> QED
    BY Zenon, <1>1, <1>3, <1>6, <1>7, <2>1, <2>2 DEF SessionInv, SessionTypes, Pcs
<1>9. LatestOnce'
  BY <1>1, <1>6 DEF SessionInv, LatestOnce, k
<1>10. CASE phase' = "closed"
  <2>1. paused' = TRUE
    BY Zenon, <1>1, <1>3 DEF SessionInv, ActiveFacts
  <2> QED BY <1>1, <1>4, <1>5, <1>6, <1>8, <1>9, <1>10, <2>1, SessionCloses
<1>11. CASE phase' # "closed"
  <2>1. phase = "refreshing" /\ phase' = "refreshing" /\ ctx' = context
    BY Zenon, <1>1, <1>3, <1>11
  <2>2. k \notin revoked
    BY Zenon, <1>1, <2>1 DEF SessionInv, RefreshFacts, k
  <2>3. OpensFirst' /\ ActiveFacts' /\ QueryFacts'
    BY Zenon, <1>1, <2>1 DEF SessionInv, OpensFirst, ActiveFacts, QueryFacts
  <2>4. RefreshFacts'
    BY Zenon, <1>1, <1>4, <1>6, <2>1, <2>2 DEF SessionInv, RefreshFacts
  <2>5. RevokedIsOut'
    BY Zenon, <1>1, <1>4, <2>1, <2>2 DEF RevokedIsOut
  <2> QED BY <1>5, <1>8, <1>9, <2>3, <2>4, <2>5 DEF SessionInv
<1> QED BY <1>10, <1>11

(* The transport takes a captured frame.                                   *)
LEMMA FrameAcceptedKeeps ==
  ASSUME SessionInv, FrameAccepted
  PROVE  SessionInv'
<1>1. /\ completing.pc = "sending"
      /\ UNCHANGED <<phase, paused, ctx, latest, pending, aborted, opening, verifying, authTail,
                     context, controls, query, revoked>>
  BY Zenon DEF FrameAccepted
<1>2. \/ completing' = Idle /\ stale' = stale
      \/ /\ \E left, pc : /\ pc \in {"acking", "sending"}
                          /\ completing' = [completing EXCEPT !.todo = left, !.pc = pc]
         /\ stale' = stale \/ stale' = (stale \/ completing.attempt # latest)
         /\ ~Superseded(completing.attempt)
  BY Zenon DEF FrameAccepted, Finish, Sent
<1>3. ~stale'
  BY Zenon, <1>2 DEF SessionInv, Superseded
<1>4. /\ DOMAIN completing' = {"attempt", "pc", "todo"}
      /\ completing'.pc \in {"idle", "sending", "acking"}
      /\ completing'.pc # "idle" => completing'.attempt = completing.attempt
  <2>1. CASE completing' = Idle
    BY Zenon, <2>1 DEF Idle
  <2>2. ASSUME NEW left, NEW pc \in {"acking", "sending"},
               completing' = [completing EXCEPT !.todo = left, !.pc = pc]
        PROVE  /\ DOMAIN completing' = {"attempt", "pc", "todo"} /\ completing'.pc = pc
               /\ completing'.attempt = completing.attempt
    BY Zenon, <2>2 DEF SessionInv, SessionTypes
  <2> QED BY <1>2, <2>1, <2>2
<1>5. phase \in {"refreshing", "closed"}
  BY <1>1 DEF SessionInv, SessionTypes, OpensFirst, ActiveFacts, Idle
<1>6. SessionTypes'
  BY Zenon, <1>1, <1>4 DEF SessionInv, SessionTypes, Pcs
<1>7. OpensFirst' /\ ActiveFacts' /\ QueryFacts'
  BY Zenon, <1>1, <1>5 DEF SessionInv, OpensFirst, ActiveFacts, QueryFacts
<1>8. LatestOnce' /\ RefreshFacts'
  BY Zenon, <1>1, <1>4 DEF SessionInv, LatestOnce, RefreshFacts
<1>9. RevokedIsOut'
  BY Zenon, <1>1 DEF SessionInv, RevokedIsOut
<1> QED BY <1>3, <1>6, <1>7, <1>8, <1>9 DEF SessionInv

(* The transport takes the acknowledgement: only the latest attempt makes  *)
(* the session active.                                                     *)
LEMMA AckAcceptedKeeps ==
  ASSUME SessionInv, AckAccepted
  PROVE  SessionInv'
<1>1. /\ completing.pc = "acking" /\ completing' = Idle
      /\ UNCHANGED <<ctx, latest, aborted, opening, verifying, authTail, context, controls,
                     query, revoked, stale>>
  BY Zenon DEF AckAccepted, Finish, worldVars
<1>2. phase \in {"refreshing", "closed"}
  BY <1>1 DEF SessionInv, SessionTypes, OpensFirst, ActiveFacts, Idle
<1>3. DOMAIN completing' = {"attempt", "pc", "todo"} /\ completing'.pc = "idle"
  BY Zenon, <1>1 DEF Idle
<1>4. LatestOnce'
  BY Zenon, <1>1, <1>3 DEF SessionInv, LatestOnce
<1>5. CASE phase = "closed" \/ Superseded(completing.attempt)
  <2>1. UNCHANGED <<phase, paused, pending>>
    BY Zenon, <1>5 DEF AckAccepted
  <2>2. SessionTypes'
    BY Zenon, <1>1, <1>3, <2>1 DEF SessionInv, SessionTypes, Pcs
  <2>3. OpensFirst' /\ ActiveFacts' /\ QueryFacts'
    BY Zenon, <1>1, <1>2, <2>1 DEF SessionInv, OpensFirst, ActiveFacts, QueryFacts
  <2>4. RefreshFacts' /\ RevokedIsOut' /\ ~stale'
    BY Zenon, <1>1, <1>3, <2>1 DEF SessionInv, RefreshFacts, RevokedIsOut
  <2> QED BY <1>4, <2>2, <2>3, <2>4 DEF SessionInv
<1>6. CASE phase = "refreshing" /\ ~Superseded(completing.attempt)
  <2>1. /\ phase' = "active" /\ paused' = FALSE
        /\ pending' = IF pending = completing.attempt THEN None ELSE pending
    BY Zenon, <1>6 DEF AckAccepted
  <2>2. completing.attempt = latest /\ latest \notin aborted
    BY Zenon, <1>6 DEF Superseded
  <2>3. /\ pending' = None /\ ctx.attempt = latest /\ context = ctx
        /\ \A s \in Subs : controls[s] = <<>>
    BY Zenon, <1>1, <1>6, <2>1, <2>2 DEF SessionInv, RefreshFacts
  <2>4. SessionTypes'
    BY Zenon, <1>1, <1>3, <2>1 DEF SessionInv, SessionTypes, Pcs
  <2>5. OpensFirst'
    BY Zenon, <1>1, <1>6, <2>1 DEF SessionInv, OpensFirst
  <2>6. ActiveFacts'
    <3>1. /\ latest \notin verifying
          /\ \A i \in 1..Len(authTail) : authTail[i].attempt # latest
      BY Zenon, <1>1, <2>2 DEF SessionInv, LatestOnce
    <3>2. paused' = (phase' # "active")
      BY Zenon, <2>1
    <3>3. \A s \in Subs : \A i \in 1..Len(controls[s]) : controls[s][i].attempt = latest
      BY <2>3
    <3> QED BY <1>1, <2>1, <2>2, <2>3, <3>1, <3>2, <3>3 DEF ActiveFacts
  <2>7. RefreshFacts' /\ RevokedIsOut' /\ ~stale'
    BY Zenon, <1>1, <1>3, <1>6, <2>1 DEF SessionInv, RefreshFacts, RevokedIsOut
  <2>8. QueryFacts'
    BY Zenon, <1>1, <1>6, <2>1 DEF SessionInv, QueryFacts
  <2> QED BY <1>4, <2>4, <2>5, <2>6, <2>7, <2>8 DEF SessionInv
<1> QED BY <1>2, <1>5, <1>6

-----------------------------------------------------------------------------

(* Queues of control operations the session may hold next: operations are  *)
(* added while it is active and under the credential presented last.       *)
QueuesFit(queues) ==
  /\ queues \in [Subs -> Seq(Ops)]
  /\ phase = "active" => \A s \in Subs : \A i \in 1..Len(queues[s]) : queues[s][i].attempt = latest
  /\ phase # "active" => \A s \in Subs : controls[s] = <<>> => queues[s] = <<>>

(* A step of the client or of the record that changes only the queues, and *)
(* sends nothing stale, preserves the invariant.                           *)
LEMMA ControlsKeep ==
  ASSUME SessionInv, QueuesFit(controls'), ~stale',
         UNCHANGED <<sessionVars, context, query, revoked>>
  PROVE  SessionInv'
<1>1. UNCHANGED <<phase, paused, ctx, latest, pending, aborted, opening, verifying, authTail,
                  completing>>
  BY Zenon DEF sessionVars
<1>2. SessionTypes'
  BY Zenon, <1>1 DEF SessionInv, SessionTypes, QueuesFit
<1>3. OpensFirst'
  BY Zenon, <1>1 DEF SessionInv, OpensFirst, QueuesFit
<1>4. ActiveFacts'
  BY Zenon, <1>1 DEF SessionInv, ActiveFacts, QueuesFit
<1>5. LatestOnce' /\ QueryFacts' /\ RevokedIsOut'
  BY Zenon, <1>1 DEF SessionInv, LatestOnce, QueryFacts, RevokedIsOut
<1>6. RefreshFacts'
  <2>1. phase = "active" => completing.pc = "idle"
    BY DEF SessionInv, ActiveFacts, Idle
  <2> QED BY <1>1, <2>1 DEF SessionInv, RefreshFacts, QueuesFit
<1> QED BY <1>2, <1>3, <1>4, <1>5, <1>6 DEF SessionInv

(* The queues as they are.                                                 *)
LEMMA QueuesFitNow == SessionInv => QueuesFit(controls)
BY Zenon DEF SessionInv, SessionTypes, ActiveFacts, QueuesFit

(* The operation whose turn it is, and the queues without it.              *)
LEMMA QueuesFitPopped ==
  ASSUME SessionInv, NEW s \in Subs, controls[s] # <<>>
  PROVE  /\ QueuesFit(Popped(s))
         /\ phase = "active" => Head(controls[s]).attempt = latest
<1> DEFINE q == controls[s]
<1>1. q \in Seq(Ops) /\ Len(q) \in Nat /\ Len(q) > 0
  BY DEF SessionInv, SessionTypes
<1>2. /\ Tail(q) \in Seq(Ops) /\ Len(Tail(q)) = Len(q) - 1
      /\ \A i \in 1..Len(Tail(q)) : Tail(q)[i] = q[i + 1] /\ i + 1 \in 1..Len(q)
      /\ Head(q) = q[1] /\ 1 \in 1..Len(q)
  BY <1>1
<1>3. controls \in [Subs -> Seq(Ops)]
  BY Zenon DEF SessionInv, SessionTypes
<1>4. /\ Popped(s) \in [Subs -> Seq(Ops)] /\ Popped(s)[s] = Tail(q)
      /\ \A r \in Subs : r # s => Popped(s)[r] = controls[r]
  BY Zenon, <1>2, <1>3 DEF Popped
<1>5. phase = "active" =>
        \A r \in Subs : \A i \in 1..Len(controls[r]) : controls[r][i].attempt = latest
  BY Zenon DEF SessionInv, ActiveFacts
<1> HIDE DEF q
<1>6. phase = "active" =>
        \A r \in Subs : \A i \in 1..Len(Popped(s)[r]) : Popped(s)[r][i].attempt = latest
  <2> SUFFICES ASSUME phase = "active", NEW r \in Subs, NEW i \in 1..Len(Popped(s)[r])
               PROVE  Popped(s)[r][i].attempt = latest
    BY Zenon
  <2>1. CASE r = s
    <3>1. Popped(s)[r][i] = q[i + 1] /\ i + 1 \in 1..Len(q)
      BY Zenon, <1>2, <1>4, <2>1
    <3> QED BY <1>5, <3>1 DEF q
  <2>2. CASE r # s
    BY Zenon, <1>4, <1>5, <2>2
  <2> QED BY <2>1, <2>2
<1>7. \A r \in Subs : controls[r] = <<>> => Popped(s)[r] = <<>>
  BY Zenon, <1>4
<1>8. phase = "active" => Head(q).attempt = latest
  BY Zenon, <1>2, <1>5 DEF q
<1> QED BY <1>4, <1>6, <1>7, <1>8 DEF QueuesFit, q

(* An operation is added.                                                  *)
LEMMA QueuesFitAppended ==
  ASSUME SessionInv, phase = "active", NEW queues, QueuesFit(queues), NEW s \in Subs,
         NEW op \in {"sub", "unsub", "reset"}
  PROVE  QueuesFit([queues EXCEPT ![s] = Append(@, Control(op))])
<1> DEFINE c == Control(op)
           q == queues[s]
           new == [queues EXCEPT ![s] = Append(@, c)]
<1>1. ctx.attempt = latest /\ latest \in Nat
  BY Zenon DEF SessionInv, ActiveFacts, SessionTypes
<1>2. c \in Ops /\ c.attempt = latest
  BY <1>1 DEF Control, Ops
<1> HIDE DEF c
<1>3. queues \in [Subs -> Seq(Ops)] /\ q \in Seq(Ops)
  BY Zenon DEF QueuesFit
<1>4. /\ Append(q, c) \in Seq(Ops) /\ Len(Append(q, c)) = Len(q) + 1 /\ Len(q) \in Nat
      /\ Append(q, c)[Len(q) + 1] = c /\ \A i \in 1..Len(q) : Append(q, c)[i] = q[i]
  BY <1>2, <1>3
<1>5. /\ new \in [Subs -> Seq(Ops)] /\ new[s] = Append(q, c)
      /\ \A r \in Subs : r # s => new[r] = queues[r]
  BY Zenon, <1>3, <1>4
<1>6. \A r \in Subs : \A i \in 1..Len(queues[r]) : queues[r][i].attempt = latest
  BY Zenon DEF QueuesFit
<1> HIDE DEF q, new
<1>7. \A r \in Subs : \A i \in 1..Len(new[r]) : new[r][i].attempt = latest
  <2> SUFFICES ASSUME NEW r \in Subs, NEW i \in 1..Len(new[r])
               PROVE  new[r][i].attempt = latest
    BY Zenon
  <2>1. CASE r = s
    <3>1. i \in 1..Len(q) \/ i = Len(q) + 1
      BY <1>4, <1>5, <2>1
    <3> QED BY <1>2, <1>4, <1>5, <1>6, <2>1, <3>1 DEF q
  <2>2. CASE r # s
    BY Zenon, <1>5, <1>6, <2>2
  <2> QED BY <2>1, <2>2
<1>8. QueuesFit(new)
  BY Zenon, <1>5, <1>7 DEF QueuesFit
<1> QED BY <1>8 DEF new, c

(* A frame told to the client may make it send a reset.                    *)
LEMMA TellFits ==
  ASSUME SessionInv, NEW s \in Subs, NEW frame, NEW queues, QueuesFit(queues),
         Tell(s, frame, queues)
  PROVE  QueuesFit(controls')
<1>1. \/ controls' = queues
      \/ phase = "active" /\ controls' = [queues EXCEPT ![s] = Append(@, Control("reset"))]
  BY Zenon DEF Tell, CanSendOperations
<1> QED BY <1>1, QueuesFitAppended

(* A frame is sent only by an active session.                              *)
LEMMA SendsActive ==
  ASSUME SessionInv, NEW epoch, CanSend(epoch)
  PROVE  phase = "active"
BY Zenon DEF SessionInv, ActiveFacts, CanSend

(* An operation that fails: its error is sent, or nothing is.              *)
LEMMA RefuseFits ==
  ASSUME SessionInv, NEW s \in Subs, controls[s] # <<>>, Refuse(s, Head(controls[s]).attempt)
  PROVE  QueuesFit(controls') /\ ~stale'
<1> DEFINE attempt == Head(controls[s]).attempt
<1>1. QueuesFit(Popped(s)) /\ (phase = "active" => attempt = latest)
  BY Zenon, QueuesFitPopped
<1>2. CASE attempt \notin aborted /\ CanSend(context.epoch)
  <2>1. Tell(s, Frame(s, "err", NoCursor, NoCursor), Popped(s)) /\ Sent(attempt)
    BY Zenon, <1>2 DEF Refuse
  <2>2. QueuesFit(controls')
    BY Zenon, <1>1, <2>1, TellFits
  <2>3. ~stale'
    BY Zenon, <1>1, <1>2, <2>1, SendsActive DEF Sent, SessionInv
  <2> QED BY <2>2, <2>3
<1>3. CASE ~(attempt \notin aborted /\ CanSend(context.epoch))
  <2>1. controls' = Popped(s) /\ stale' = stale
    BY Zenon, <1>3 DEF Refuse
  <2> QED BY <1>1, <2>1 DEF SessionInv
<1> QED BY <1>2, <1>3

-----------------------------------------------------------------------------

(* The client's requests.                                                  *)
LEMMA RequestsKeep ==
  ASSUME SessionInv, NEW s \in Subs, RequestSubscribe(s) \/ RequestUnsubscribe(s)
  PROVE  SessionInv'
<1>1. /\ UNCHANGED <<sessionVars, context, query, revoked, stale>>
      /\ \/ controls' = controls
         \/ /\ phase = "active"
            /\ \E op \in {"sub", "unsub", "reset"} :
                 controls' = [controls EXCEPT ![s] = Append(@, Control(op))]
  BY Zenon DEF RequestSubscribe, RequestUnsubscribe, CanSendOperations
<1>2. QueuesFit(controls')
  <2>1. CASE controls' = controls
    BY Zenon, <2>1, QueuesFitNow
  <2>2. ASSUME phase = "active", NEW op \in {"sub", "unsub", "reset"},
               controls' = [controls EXCEPT ![s] = Append(@, Control(op))]
        PROVE  QueuesFit(controls')
    BY Zenon, <2>2, QueuesFitNow, QueuesFitAppended
  <2> QED BY <1>1, <2>1, <2>2
<1>3. ~stale'
  BY Zenon, <1>1 DEF SessionInv
<1> QED BY <1>1, <1>2, <1>3, ControlsKeep

(* A query is admitted only by a session that is active.                   *)
LEMMA RequestQueryKeeps ==
  ASSUME SessionInv, RequestQuery
  PROVE  SessionInv'
<1>1. /\ phase = "active" /\ query' = ctx.attempt
      /\ UNCHANGED <<phase, paused, ctx, latest, pending, aborted, opening, verifying, authTail,
                     completing, context, controls, revoked, stale>>
  BY Zenon DEF RequestQuery, CanSendOperations, sessionVars
<1>2. SessionTypes' /\ LatestOnce' /\ RefreshFacts'
  BY Zenon, <1>1 DEF SessionInv, SessionTypes, LatestOnce, RefreshFacts
<1>3. OpensFirst' /\ ActiveFacts'
  BY Zenon, <1>1 DEF SessionInv, OpensFirst, ActiveFacts
<1>4. QueryFacts' /\ RevokedIsOut' /\ ~stale'
  BY Zenon, <1>1 DEF SessionInv, QueryFacts, RevokedIsOut, ActiveFacts
<1> QED BY <1>2, <1>3, <1>4 DEF SessionInv

(* The query ends.  Whether its result may be sent was decided when the    *)
(* session was paused.                                                     *)
LEMMA QueryEndsKeeps ==
  ASSUME SessionInv, QueryEnds
  PROVE  SessionInv'
<1>1. /\ query # None /\ query' = None
      /\ UNCHANGED <<phase, paused, ctx, latest, pending, aborted, opening, verifying, authTail,
                     completing, context, controls, revoked>>
  BY Zenon DEF QueryEnds, sessionVars
<1>2. ~stale'
  <2>1. CASE query \notin aborted /\ CanSend(context.epoch)
    <3>1. phase = "active"
      BY Zenon, <2>1, SendsActive
    <3>2. query = latest
      BY Zenon, <1>1, <2>1, <3>1 DEF SessionInv, QueryFacts
    <3> QED BY <3>2 DEF SessionInv, QueryEnds, Sent
  <2>2. CASE ~(query \notin aborted /\ CanSend(context.epoch))
    BY Zenon, <2>2 DEF SessionInv, QueryEnds
  <2> QED BY <2>1, <2>2
<1>3. SessionTypes' /\ LatestOnce' /\ RefreshFacts'
  BY <1>1 DEF SessionInv, SessionTypes, LatestOnce, RefreshFacts
<1>4. OpensFirst' /\ ActiveFacts'
  BY Zenon, <1>1 DEF SessionInv, OpensFirst, ActiveFacts
<1>5. QueryFacts' /\ RevokedIsOut'
  BY Zenon, <1>1 DEF SessionInv, QueryFacts, RevokedIsOut
<1> QED BY <1>2, <1>3, <1>4, <1>5 DEF SessionInv

(* An operation starts to run.                                             *)
LEMMA RunningFits ==
  ASSUME SessionInv, NEW s \in Subs, controls[s] # <<>>
  PROVE  QueuesFit([controls EXCEPT ![s][1].running = TRUE])
<1> DEFINE q == controls[s]
           op == [q[1] EXCEPT !.running = TRUE]
           run == [q EXCEPT ![1] = op]
           new == [controls EXCEPT ![s] = run]
<1>1. controls \in [Subs -> Seq(Ops)] /\ q \in Seq(Ops) /\ Len(q) \in Nat /\ 1 \in 1..Len(q)
  BY DEF SessionInv, SessionTypes
<1>2. q[1] \in Ops
  BY <1>1
<1>3. op \in Ops /\ op.attempt = q[1].attempt
  BY Zenon, <1>2 DEF Ops
<1> HIDE DEF op
<1>4. /\ run \in Seq(Ops) /\ Len(run) = Len(q) /\ run[1] = op
      /\ \A i \in 1..Len(q) : i # 1 => run[i] = q[i]
  BY <1>1, <1>3
<1> HIDE DEF run
<1>5. /\ new \in [Subs -> Seq(Ops)] /\ new[s] = run
      /\ \A r \in Subs : r # s => new[r] = controls[r]
  BY Zenon, <1>1, <1>4
<1> HIDE DEF new
<1>6. \A i \in 1..Len(q) : run[i].attempt = q[i].attempt
  BY Zenon, <1>3, <1>4
<1>7. phase = "active" =>
        \A r \in Subs : \A i \in 1..Len(controls[r]) : controls[r][i].attempt = latest
  BY Zenon DEF SessionInv, ActiveFacts
<1>8. phase = "active" => \A r \in Subs : \A i \in 1..Len(new[r]) : new[r][i].attempt = latest
  <2> SUFFICES ASSUME phase = "active", NEW r \in Subs, NEW i \in 1..Len(new[r])
               PROVE  new[r][i].attempt = latest
    BY Zenon
  <2>1. CASE r = s
    BY Zenon, <1>4, <1>5, <1>6, <1>7, <2>1
  <2>2. CASE r # s
    BY Zenon, <1>5, <1>7, <2>2
  <2> QED BY <2>1, <2>2
<1>9. \A r \in Subs : controls[r] = <<>> => new[r] = <<>>
  BY Zenon, <1>5
<1>10. QueuesFit(new)
  BY Zenon, <1>5, <1>8, <1>9 DEF QueuesFit
<1> QED BY <1>10 DEF new, run, op

(* The control operations of an id.                                        *)
LEMMA ControlNextKeeps ==
  ASSUME SessionInv, NEW s \in Subs, ControlNext(s)
  PROVE  SessionInv'
<1> DEFINE attempt == Head(controls[s]).attempt
<1>1. UNCHANGED <<sessionVars, context, query, revoked>> /\ controls[s] # <<>>
  BY Zenon DEF ControlNext, ControlAborted, SubscribeStarts, Unsubscribe, Reset, SubscribeSettles,
         Starts, worldVars
<1>2. QueuesFit(Popped(s)) /\ (phase = "active" => attempt = latest)
  BY Zenon, <1>1, QueuesFitPopped
<1>3. CASE controls' = Popped(s) /\ stale' = stale
  <2>1. ~stale'
    BY Zenon, <1>3 DEF SessionInv
  <2> QED BY <1>1, <1>2, <1>3, <2>1, ControlsKeep
<1>4. CASE Refuse(s, attempt)
  BY Zenon, <1>1, <1>4, RefuseFits, ControlsKeep
<1>5. CASE controls' = [controls EXCEPT ![s][1].running = TRUE] /\ stale' = stale
  <2>1. ~stale'
    BY Zenon, <1>5 DEF SessionInv
  <2> QED BY <1>1, <1>5, <2>1, RunningFits, ControlsKeep
<1>6. ASSUME NEW frame, NEW epoch, CanSend(epoch), Tell(s, frame, Popped(s)), Sent(attempt)
      PROVE  SessionInv'
  <2>1. QueuesFit(controls')
    BY Zenon, <1>2, <1>6, TellFits
  <2>2. ~stale'
    BY Zenon, <1>2, <1>6, SendsActive DEF Sent, SessionInv
  <2> QED BY <1>1, <2>1, <2>2, ControlsKeep
<1>7. CASE ControlAborted(s) \/ Unsubscribe(s)
  BY Zenon, <1>3, <1>7 DEF ControlAborted, Unsubscribe, worldVars
<1>8. CASE SubscribeStarts(s)
  BY Zenon, <1>4, <1>5, <1>8 DEF SubscribeStarts
<1>9. CASE Reset(s)
  BY Zenon, <1>4, <1>6, <1>9 DEF Reset
<1>10. ASSUME NEW ok, SubscribeSettles(s, ok) PROVE SessionInv'
  BY Zenon, <1>4, <1>6, <1>10 DEF SubscribeSettles
<1> QED BY <1>7, <1>8, <1>9, <1>10 DEF ControlNext

(* A delivery after a commit is sent under the context in force.           *)
LEMMA DeliverKeeps ==
  ASSUME SessionInv, NEW s \in Subs, Deliver(s)
  PROVE  SessionInv'
<1>1. UNCHANGED <<sessionVars, context, query, revoked>>
  BY Zenon DEF Deliver
<1>2. ASSUME NEW frame, NEW epoch, CanSend(epoch), Tell(s, frame, controls), Sent(ctx.attempt)
      PROVE  SessionInv'
  <2>1. QueuesFit(controls')
    BY Zenon, <1>2, QueuesFitNow, TellFits
  <2>2. ~stale'
    BY Zenon, <1>2, SendsActive DEF Sent, SessionInv, ActiveFacts
  <2> QED BY <1>1, <2>1, <2>2, ControlsKeep
<1>3. CASE UNCHANGED <<controls, stale>>
  <2>1. ~stale'
    BY Zenon, <1>3 DEF SessionInv
  <2> QED BY <1>1, <1>3, <2>1, QueuesFitNow, ControlsKeep
<1> QED BY <1>2, <1>3 DEF Deliver

(* Revocation.                                                             *)
LEMMA InvalidateKeeps ==
  ASSUME SessionInv, NEW k, Invalidate(k)
  PROVE  SessionInv'
<1>1. /\ phase \notin {"awaiting_hello", "closed"} /\ k \in 0..latest
      /\ revoked' = revoked \cup {k} /\ stale' = stale /\ k \notin Anonymous
  BY Zenon DEF Invalidate
<1>2. revoked' \subseteq 0..latest
  BY Zenon, <1>1 DEF SessionInv, SessionTypes
<1>3. CASE Reaches(k)
  <2>1. Terminate(reserved) /\ UNCHANGED <<completing, context, controls>>
    BY Zenon, <1>3 DEF Invalidate, Ends
  <2> QED BY <1>1, <1>2, <2>1, SessionTerminates
<1>4. CASE ~Reaches(k)
  <2>1. UNCHANGED <<phase, paused, ctx, latest, pending, aborted, opening, verifying, authTail,
                    completing, context, controls, query>>
    BY Zenon, <1>4 DEF Invalidate, sessionVars, storeVars
  <2>2. pending = None /\ ctx.attempt # k
    BY Zenon, <1>1, <1>4 DEF Reaches
  <2>3. phase # "refreshing" /\ ~(phase = "opening" /\ opening = "verify")
    BY <2>2 DEF SessionInv, SessionTypes, RefreshFacts, OpensFirst, None
  <2>4. SessionTypes' /\ LatestOnce'
    BY Zenon, <1>2, <2>1 DEF SessionInv, SessionTypes, LatestOnce
  <2>5. OpensFirst'
    BY Zenon, <1>1, <2>1, <2>3 DEF SessionInv, OpensFirst
  <2>6. ActiveFacts' /\ RefreshFacts' /\ QueryFacts'
    BY Zenon, <2>1, <2>3 DEF SessionInv, ActiveFacts, RefreshFacts, QueryFacts
  <2>7. RevokedIsOut' /\ ~stale'
    BY Zenon, <1>1, <2>1, <2>2 DEF SessionInv, RevokedIsOut
  <2> QED BY <2>4, <2>5, <2>6, <2>7 DEF SessionInv
<1> QED BY <1>3, <1>4

(* Every step preserves the invariant.                                     *)
LEMMA SessionStep == SessionInv /\ [SessionNext]_vars => SessionInv'
<1> SUFFICES ASSUME SessionInv, [SessionNext]_vars PROVE SessionInv'
  BY Zenon
<1>1. CASE Hello \/ AcceptAuth \/ RequestQuery
  BY Zenon, <1>1, HelloKeeps, AcceptAuthKeeps, RequestQueryKeeps
<1>2. CASE Gone \/ TimerFires
  <2>1. Terminate(reserved) /\ UNCHANGED <<completing, context, controls, revoked, stale>>
    BY Zenon, <1>2 DEF Gone, TimerFires, Ends, worldVars
  <2> QED BY <2>1, SessionTerminates DEF SessionInv, SessionTypes
<1>3. ASSUME NEW s \in Subs, RequestSubscribe(s) \/ RequestUnsubscribe(s) PROVE SessionInv'
  BY Zenon, <1>3, RequestsKeep
<1>4. CASE Commit \/ (\E k \in Attempts : CredentialExpires(k)) \/ CloseRuntime \/ UNCHANGED vars
  <2>1. UNCHANGED invVars
    BY Zenon, <1>4
    DEF Commit, CredentialExpires, CloseRuntime, vars, sessionVars, storeVars, worldVars, invVars
  <2> QED BY <2>1, SessionStutters
<1>5. ASSUME NEW k, Invalidate(k) PROVE SessionInv'
  BY Zenon, <1>5, InvalidateKeeps
<1>6. CASE OpenNext
  BY Zenon, <1>6, OpenVerifiedKeeps, OpenWelcomedKeeps DEF OpenNext
<1>7. CASE VerifyNext
  BY Zenon, <1>7, VerifiedKeeps DEF VerifyNext
<1>8. CASE TransitionNext
  <2>1. ASSUME NEW listeners, completing.pc \in {"disconnect", "attach"},
               TransitionFails(listeners)
        PROVE  SessionInv'
    BY <2>1, TransitionFailsKeeps
  <2>2. CASE TransitionOverflows
    BY <2>1, <2>2 DEF TransitionOverflows
  <2> QED
    BY Zenon, <1>8, <2>2, CompleteStartsKeeps, TransitionBeginsKeeps, TransitionMovesKeeps,
       TransitionEndsKeeps, FrameAcceptedKeeps, AckAcceptedKeeps DEF TransitionNext
<1>9. CASE QueryEnds
  BY Zenon, <1>9, QueryEndsKeeps
<1>10. ASSUME NEW s \in Subs, ControlNext(s) \/ Deliver(s) PROVE SessionInv'
  BY Zenon, <1>10, ControlNextKeeps, DeliverKeeps
<1> QED
  BY Zenon, <1>1, <1>2, <1>3, <1>4, <1>5, <1>6, <1>7, <1>8, <1>9, <1>10 DEF SessionNext, ClientNext

(* The invariant holds in every reachable state.                           *)
THEOREM SessionIsConsistent == SessionSpec => []SessionInv
BY SessionStart, SessionStep, PTL DEF SessionSpec

(* An active session answers for the credential the client presented last, *)
(* with the runtime's record under the same context and nothing under way  *)
(* to change it (completeAuth).                                            *)
THEOREM ActiveStaysAligned == SessionSpec => []ActiveIsAligned
<1>1. SessionInv => ActiveIsAligned
  BY Zenon DEF SessionInv, ActiveFacts, ActiveIsAligned
<1> QED BY <1>1, SessionIsConsistent, PTL

(* No frame is handed to the transport for a credential that has been      *)
(* replaced (sendApplication, publishOperationOutcome, completeAuth).      *)
THEOREM StaleIsNeverSent == SessionSpec => []NothingStaleIsSent
<1>1. SessionInv => NothingStaleIsSent
  BY Zenon DEF SessionInv, NothingStaleIsSent
<1> QED BY <1>1, SessionIsConsistent, PTL

(* No open session is under a revoked credential, at whatever point of a   *)
(* change of credential the revocation arrives (onInvalidation).           *)
THEOREM RevokedStaysOut == SessionSpec => []RevokedIsOut
<1>1. SessionInv => RevokedIsOut
  BY Zenon DEF SessionInv
<1> QED BY <1>1, SessionIsConsistent, PTL

=============================================================================
