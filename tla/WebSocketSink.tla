---------------------------- MODULE WebSocketSink ----------------------------
(***************************************************************************)
(* The outbound side of WebSocket connections                              *)
(* (packages/server/src/subscriptions/delivery/websocket.ts): one FIFO     *)
(* queue per connection, frames handed to Bun's socket that still own      *)
(* their bytes until the socket's buffered amount shows they left, a stall *)
(* timer, and the budget every connection shares.                          *)
(*                                                                         *)
(* A call runs to completion before anything else happens, but the pump    *)
(* it ends with asks the socket once per frame.  pumping holds the         *)
(* connection whose pump is running; every other action waits for it.      *)
(*                                                                         *)
(* The socket is external.  send reports a dropped frame, a frame that     *)
(* left some bytes behind (backpressure) or a frame taken; the network     *)
(* takes bytes when it likes, or never, and Bun calls drain when it does.  *)
(* A frame on the wire is Overhead bytes longer than its text.             *)
(***************************************************************************)
EXTENDS OutboundBudget, Sequences, Functions

CONSTANTS Connections,
          MaxFrameBytes,           \* limits.maxFrameBytes
          MaxBytesPerConnection,   \* limits.webSocket.maxBytesPerConnection
          MaxStall,                \* limits.webSocket.maxStallMs, in ticks
          Overhead,                \* bytes of a WebSocket frame header
          Offers,                  \* the frames each connection is offered: lane, bytes
          MaxEpoch,                \* bound: credential changes of each connection
          MaxFrames              \* bound: frames offered to each connection

\* The constructor's check.
ASSUME SinkAssumption == /\ MaxFrameBytes < MaxBytesPerConnection
                         /\ MaxStall \in Nat \ {0}

VARIABLES queue,         \* PendingFrame[]: lane, authEpoch, bytes, turn
          buffered,      \* BufferedFrame[]: lane and the bytes still owned
          used,          \* applicationBytes and controlBytes
          bufferedBytes,
          blocked,
          closed,        \* why the sink closed, "open" while it has not
          stall,         \* ticks since stallSince; NoStall when no timer is set
          wire,          \* getBufferedAmount(): bytes the socket holds
          drainDue,      \* bytes left the socket and Bun has not called drain yet
          epoch,         \* the authEpoch the caller sends with
          offered,       \* frames offered so far; numbers the frames
          pumping,
          lastSent,      \* history: the last frame handed to the socket
          idle           \* history: ticks since the consumer last took a byte

socketVars == <<wire, drainDue>>
callerVars == <<epoch, offered>>
vars == <<budget, queue, buffered, used, bufferedBytes, blocked, closed, stall,
          socketVars, callerVars, pumping, lastSent, idle>>

NoStall == -1
Nobody == "nobody"
NoFrame == [lane |-> "control", authEpoch |-> 0, bytes |-> 0, turn |-> 0]

SinkInit ==
  /\ BudgetInit
  /\ queue = [c \in Connections |-> <<>>]
  /\ buffered = [c \in Connections |-> <<>>]
  /\ used = [c \in Connections |-> [lane \in Lanes |-> 0]]
  /\ bufferedBytes = [c \in Connections |-> 0]
  /\ blocked = [c \in Connections |-> FALSE]
  /\ closed = [c \in Connections |-> "open"]
  /\ stall = [c \in Connections |-> NoStall]
  /\ wire = [c \in Connections |-> 0]
  /\ drainDue = [c \in Connections |-> FALSE]
  /\ epoch = [c \in Connections |-> 0]
  /\ offered = [c \in Connections |-> 0]
  /\ idle = [c \in Connections |-> 0]
  /\ lastSent = [c \in Connections |-> NoFrame]
  /\ pumping = Nobody

\* The bytes of the frames of a lane; of both lanes.
Sum(frames, lane) ==
  LET upTo[i \in 0..Len(frames)] ==
        IF i = 0 THEN 0
        ELSE upTo[i - 1] + IF frames[i].lane = lane THEN frames[i].bytes ELSE 0
  IN  upTo[Len(frames)]
Bytes(frames) == Sum(frames, "application") + Sum(frames, "control")

-----------------------------------------------------------------------------
(***************************************************************************)
(* releaseBuffered: give back bytes from the front of the buffered frames, *)
(* in part when the next one has not left whole.                           *)
(***************************************************************************)
ReleaseFront(frames, bytes) ==
  LET Left(i) == Least(frames[i].bytes, Bytes(SubSeq(frames, 1, i)) - bytes)
      shrunk  == [i \in DOMAIN frames |-> [frames[i] EXCEPT !.bytes = Left(i)]]
  IN  SelectSeq(shrunk, LAMBDA f : f.bytes > 0)

\* The lane totals once the frames "before" have become the frames "after".
Give(totals, before, after) ==
  [lane \in Lanes |-> totals[lane] - (Sum(before, lane) - Sum(after, lane))]

(***************************************************************************)
(* reconcileBuffered against an observed amount, as the values it leaves:  *)
(* the frames still owned, their bytes, and the stall timer, restarted     *)
(* when bytes left and the caller marks progress, cleared when nothing is  *)
(* waited for.  armStall keeps a running timer.                            *)
(***************************************************************************)
Target(c, observed) == Least(observed, bufferedBytes[c])

\* Mutant: progress does not restart the stall timer.
ReconciledNeverRestarts(c, observed, isBlocked, markProgress) ==
  IF Target(c, observed) = 0 /\ ~isBlocked THEN NoStall ELSE stall[c]

ReconciledStall(c, observed, isBlocked, markProgress) ==
  LET target == Target(c, observed)
  IN  CASE target = 0 /\ ~isBlocked -> NoStall
        [] target < bufferedBytes[c] /\ markProgress -> 0
        [] OTHER -> stall[c]

\* Mutant: armStall only keeps a timer that is already running.
ArmedIfRunning(elapsed) == elapsed

Armed(elapsed) == IF elapsed = NoStall THEN 0 ELSE elapsed

Reconcile(c, observed) ==
  LET kept == ReleaseFront(buffered[c], bufferedBytes[c] - Target(c, observed))
  IN  /\ buffered' = [buffered EXCEPT ![c] = kept]
      /\ bufferedBytes' = [bufferedBytes EXCEPT ![c] = Target(c, observed)]
      /\ used' = [used EXCEPT ![c] = Give(@, buffered[c], kept)]
      /\ budget' = Give(budget, buffered[c], kept)

(***************************************************************************)
(* fail and close: the sink becomes terminal, cancels its timer and gives  *)
(* back every queued and buffered byte.  fail then sends one error frame   *)
(* if the control lane has room for it and releases it at once, so it      *)
(* leaves the budget as it was.  The closed socket holds nothing more.     *)
(***************************************************************************)
\* Mutant: only the queued frames are given back.
OwnedQueued(c) == queue[c]

Owned(c) == queue[c] \o buffered[c]

Shut(c, why) ==
  /\ closed' = [closed EXCEPT ![c] = why]
  /\ stall' = [stall EXCEPT ![c] = NoStall]
  /\ queue' = [queue EXCEPT ![c] = <<>>]
  /\ buffered' = [buffered EXCEPT ![c] = <<>>]
  /\ bufferedBytes' = [bufferedBytes EXCEPT ![c] = 0]
  /\ used' = [used EXCEPT ![c] = Give(@, Owned(c), <<>>)]
  /\ budget' = Give(budget, Owned(c), <<>>)
  /\ wire' = [wire EXCEPT ![c] = 0]
  /\ drainDue' = [drainDue EXCEPT ![c] = FALSE]
  /\ pumping' = Nobody

-----------------------------------------------------------------------------
Quiet == pumping = Nobody
Open(c) == closed[c] = "open"

\* pump returns at once when the sink is blocked or has nothing to send.
Pumper(c, frames, isBlocked) == IF isBlocked \/ frames = <<>> THEN Nobody ELSE c

\* History: a byte the sink accounted for has left, or none was waited for.
Took(c, observed) ==
  idle' = [idle EXCEPT ![c] = IF \/ Target(c, observed) < bufferedBytes[c]
                                 \/ Target(c, observed) = 0
                              THEN 0 ELSE @]

LocalLimit(lane) == IF lane = "application"
                    THEN MaxBytesPerConnection - MaxFrameBytes
                    ELSE MaxBytesPerConnection
Total(c) == used[c]["application"] + used[c]["control"]
LocalUsed(c, lane) == IF lane = "application" THEN used[c]["application"] ELSE Total(c)

Refusal(c, lane, bytes) ==
  CASE bytes > MaxFrameBytes -> "overloaded"
    [] \/ LocalUsed(c, lane) + bytes > LocalLimit(lane)
       \/ Total(c) + bytes > MaxBytesPerConnection -> "slow_consumer"
    [] ~Reservable(bytes, lane) -> "overloaded"
    [] OTHER -> "none"

(***************************************************************************)
(* sendControl and sendApplication.  A frame that fits nowhere fails the   *)
(* whole connection; a closed sink only rejects the call.                  *)
(***************************************************************************)
enqueue(c, lane, bytes) ==
  /\ Quiet /\ Open(c) /\ offered[c] < MaxFrames[c]
  /\ offered' = [offered EXCEPT ![c] = @ + 1]
  /\ LET why == Refusal(c, lane, bytes)
         frame == [lane |-> lane, authEpoch |-> epoch[c], bytes |-> bytes,
                   turn |-> offered[c] + 1]
     IN  \/ /\ why # "none"
            /\ Shut(c, why)
            /\ UNCHANGED <<blocked, idle>>
         \/ /\ why = "none"
            /\ budget' = Reserved(budget, bytes, lane)
            /\ used' = [used EXCEPT ![c] = Reserved(@, bytes, lane)]
            /\ queue' = [queue EXCEPT ![c] = Append(@, frame)]
            /\ pumping' = Pumper(c, queue'[c], blocked[c])
            /\ UNCHANGED <<buffered, bufferedBytes, blocked, closed, stall,
                           socketVars, idle>>
  /\ UNCHANGED <<epoch, lastSent>>

(***************************************************************************)
(* One turn of the pump's loop.  The socket's buffered amount is read      *)
(* first; a head frame that would take it past the limit waits for drain.  *)
(***************************************************************************)
Overfull(c) == wire[c] + Head(queue[c]).bytes > MaxBytesPerConnection

PumpWaits(c) ==
  /\ pumping = c /\ Overfull(c)
  /\ Reconcile(c, wire[c])
  /\ Took(c, wire[c])
  /\ blocked' = [blocked EXCEPT ![c] = TRUE]
  /\ stall' = [stall EXCEPT ![c] = Armed(ReconciledStall(c, wire[c], FALSE, TRUE))]
  /\ pumping' = Nobody
  /\ UNCHANGED <<queue, closed, socketVars, callerVars, lastSent>>

\* send returned 0, or threw.
PumpDropped(c) ==
  /\ pumping = c /\ ~Overfull(c)
  /\ Shut(c, "unavailable")
  /\ UNCHANGED <<blocked, callerVars, lastSent, idle>>

\* The frame and everything before it left: the reconciliation after send
\* finds the socket empty.
PumpFlushed(c) ==
  /\ pumping = c /\ ~Overfull(c)
  /\ LET frame == Head(queue[c])
         owned == Append(buffered[c], frame)
     IN  /\ queue' = [queue EXCEPT ![c] = Tail(@)]
         /\ buffered' = [buffered EXCEPT ![c] = <<>>]
         /\ bufferedBytes' = [bufferedBytes EXCEPT ![c] = 0]
         /\ used' = [used EXCEPT ![c] = Give(@, owned, <<>>)]
         /\ budget' = Give(budget, owned, <<>>)
         /\ lastSent' = [lastSent EXCEPT ![c] = frame]
  /\ wire' = [wire EXCEPT ![c] = 0]
  /\ stall' = [stall EXCEPT ![c] = NoStall]
  /\ idle' = [idle EXCEPT ![c] = 0]
  /\ pumping' = Pumper(c, queue'[c], FALSE)
  /\ UNCHANGED <<blocked, closed, drainDue, callerVars>>

\* The socket kept the frame; with backpressure (-1) the pump stops.
PumpKept(c, backpressure) ==
  /\ pumping = c /\ ~Overfull(c)
  /\ LET frame == Head(queue[c])
         kept == ReleaseFront(buffered[c], bufferedBytes[c] - Target(c, wire[c]))
     IN  /\ queue' = [queue EXCEPT ![c] = Tail(@)]
         /\ buffered' = [buffered EXCEPT ![c] = Append(kept, frame)]
         /\ bufferedBytes' = [bufferedBytes EXCEPT ![c] = Target(c, wire[c]) + frame.bytes]
         /\ used' = [used EXCEPT ![c] = Give(@, buffered[c], kept)]
         /\ budget' = Give(budget, buffered[c], kept)
         /\ lastSent' = [lastSent EXCEPT ![c] = frame]
         /\ wire' = [wire EXCEPT ![c] = @ + frame.bytes + Overhead]
  /\ Took(c, wire[c])
  /\ blocked' = [blocked EXCEPT ![c] = backpressure]
  /\ stall' = [stall EXCEPT ![c] = Armed(ReconciledStall(c, wire[c], FALSE, TRUE))]
  /\ pumping' = Pumper(c, queue'[c], backpressure)
  /\ UNCHANGED <<closed, drainDue, callerVars>>

Pump(c) ==
  \/ PumpWaits(c)
  \/ PumpDropped(c)
  \/ PumpFlushed(c)
  \/ \E backpressure \in BOOLEAN : PumpKept(c, backpressure)

\* Bun's drain callback.
onDrain(c) ==
  /\ Quiet /\ drainDue[c] /\ Open(c)
  /\ drainDue' = [drainDue EXCEPT ![c] = FALSE]
  /\ blocked' = [blocked EXCEPT ![c] = FALSE]
  /\ Reconcile(c, wire[c])
  /\ Took(c, wire[c])
  /\ stall' = [stall EXCEPT ![c] = ReconciledStall(c, wire[c], FALSE, TRUE)]
  /\ pumping' = Pumper(c, queue[c], FALSE)
  /\ UNCHANGED <<queue, closed, wire, callerVars, lastSent>>

(***************************************************************************)
(* The stall timer: bytes that left without a drain callback count as      *)
(* progress; a connection that took none for MaxStall is failed.           *)
(***************************************************************************)
onStallTimer(c) ==
  /\ Quiet /\ stall[c] = MaxStall
  /\ \/ /\ Target(c, wire[c]) < bufferedBytes[c]
        /\ Reconcile(c, wire[c])
        /\ stall' = [stall EXCEPT ![c] = 0]
        /\ idle' = [idle EXCEPT ![c] = 0]
        /\ UNCHANGED <<queue, closed, pumping, socketVars>>
     \/ /\ Target(c, wire[c]) = bufferedBytes[c]
        /\ bufferedBytes[c] = 0 /\ ~blocked[c]
        /\ stall' = [stall EXCEPT ![c] = NoStall]
        /\ UNCHANGED <<budget, queue, buffered, used, bufferedBytes, closed,
                       pumping, socketVars, idle>>
     \/ /\ Target(c, wire[c]) = bufferedBytes[c]
        /\ bufferedBytes[c] > 0 \/ blocked[c]
        /\ Shut(c, "stalled")
        /\ UNCHANGED idle
  /\ UNCHANGED <<blocked, callerVars, lastSent>>

(***************************************************************************)
(* A credential change (Session.completeAuth): application frames of       *)
(* earlier epochs leave the queue, and the caller sends with the new epoch *)
(* from then on.                                                           *)
(***************************************************************************)
\* Mutant: the frames already queued stay.
RetainedAll(frames, authEpoch) == frames

Retained(frames, authEpoch) ==
  SelectSeq(frames, LAMBDA f : f.lane # "application" \/ f.authEpoch >= authEpoch)

dropApplicationFramesBefore(c) ==
  /\ Quiet /\ Open(c) /\ epoch[c] < MaxEpoch[c]
  /\ epoch' = [epoch EXCEPT ![c] = @ + 1]
  /\ LET retained == Retained(queue[c], epoch'[c])
     IN  /\ queue' = [queue EXCEPT ![c] = retained]
         /\ used' = [used EXCEPT ![c] = Give(@, queue[c], retained)]
         /\ budget' = Give(budget, queue[c], retained)
         /\ pumping' = Pumper(c, retained, blocked[c])
  /\ UNCHANGED <<buffered, bufferedBytes, blocked, closed, stall, socketVars,
                 offered, lastSent, idle>>

\* close, called by the session: on its own end or when the peer is gone.
close(c) ==
  /\ Quiet /\ Open(c)
  /\ Shut(c, "closed")
  /\ UNCHANGED <<blocked, callerVars, lastSent, idle>>

-----------------------------------------------------------------------------
\* The network takes some of what the socket holds.
NetworkTakes(c) ==
  /\ Quiet /\ Open(c) /\ wire[c] > 0
  /\ \E left \in {0, wire[c] - 1} : wire' = [wire EXCEPT ![c] = left]
  /\ drainDue' = [drainDue EXCEPT ![c] = TRUE]
  /\ UNCHANGED <<budget, queue, buffered, used, bufferedBytes, blocked, closed,
                 stall, callerVars, pumping, lastSent, idle>>

\* Time passes for every stall timer.
Tick ==
  /\ Quiet
  /\ \E c \in Connections : stall[c] \in 0..(MaxStall - 1)
  /\ \A c \in Connections : stall[c] # MaxStall
  /\ stall' = [c \in Connections |-> IF stall[c] = NoStall THEN NoStall ELSE stall[c] + 1]
  /\ idle' = [c \in Connections |->
                IF Open(c) /\ (bufferedBytes[c] > 0 \/ blocked[c])
                THEN Least(idle[c] + 1, MaxStall) ELSE idle[c]]
  /\ UNCHANGED <<budget, queue, buffered, used, bufferedBytes, blocked, closed,
                 socketVars, callerVars, pumping, lastSent>>

SinkNext ==
  \/ \E c \in Connections : \E offer \in Offers[c] : enqueue(c, offer.lane, offer.bytes)
  \/ \E c \in Connections : Pump(c)
  \/ \E c \in Connections : onDrain(c)
  \/ \E c \in Connections : onStallTimer(c)
  \/ \E c \in Connections : dropApplicationFramesBefore(c)
  \/ \E c \in Connections : close(c)
  \/ \E c \in Connections : NetworkTakes(c)
  \/ Tick

\* A pump runs to its end, timers fire when due and time passes; nothing is
\* asked of the network or of the callers.
SinkFairness ==
  /\ WF_vars(Tick)
  /\ WF_vars(\E c \in Connections : Pump(c))
  /\ \A c \in Connections : WF_vars(onStallTimer(c))

SinkSpec == SinkInit /\ [][SinkNext]_vars /\ SinkFairness

-----------------------------------------------------------------------------
(***************************************************************************)
(* Properties                                                              *)
(***************************************************************************)
Frames == [lane : Lanes, authEpoch : Nat, bytes : Nat, turn : Nat]

\* The variables have the shapes the sink's fields have.
SinkTypeOK ==
  /\ budget \in [Lanes -> Nat]
  /\ used \in [Connections -> [Lanes -> Nat]]
  /\ bufferedBytes \in [Connections -> Nat]
  /\ blocked \in [Connections -> BOOLEAN]
  /\ stall \in [Connections -> NoStall..MaxStall]
  /\ pumping \in Connections \cup {Nobody}
  /\ \A c \in Connections : \A i \in DOMAIN queue[c] : queue[c][i] \in Frames

\* The books balance in both lanes: the shared budget holds exactly what the
\* sinks say they own (reserve and release), a sink owns exactly its queued
\* and its buffered frames, and the buffered total is the buffered frames'.
\* No path (drop, partial drain, stall, failure, close) leaks a byte or
\* returns one twice.
BooksBalance ==
  /\ \A lane \in Lanes :
       /\ budget[lane] = FoldFunction(+, 0, [c \in Connections |-> used[c][lane]])
       /\ \A c \in Connections : used[c][lane] = Sum(queue[c] \o buffered[c], lane)
  /\ \A c \in Connections :
       bufferedBytes[c] = Bytes(buffered[c])

\* However full the application lane is, a control frame is refused only
\* when control frames have used up the reserve: the room left for control is
\* never less than the reserve they have not used (availableBytes, and the
\* connection's own limit in enqueue).
ControlReserveKept ==
  /\ availableBytes(budget, "control") >= Reserve - budget["control"]
  /\ \A c \in Connections :
       MaxBytesPerConnection - Total(c) >= MaxFrameBytes - used[c]["control"]

\* Nothing waits unwatched: between calls, a queued frame means the sink is
\* blocked, a sink that is blocked or has bytes in the socket has its stall
\* timer running, and a closed one owns nothing and has no timer.
WaitingIsTimed ==
  Quiet => \A c \in Connections :
             IF Open(c)
             THEN /\ queue[c] # <<>> => blocked[c]
                  /\ blocked[c] \/ bufferedBytes[c] > 0 => stall[c] # NoStall
             ELSE /\ queue[c] = <<>> /\ buffered[c] = <<>>
                  /\ stall[c] = NoStall

\* The stall timer (onStallTimer, restartStall) fails only a connection whose
\* consumer took no accounted byte for the whole of maxStallMs.
OnlyTheStalledAreDropped ==
  \A c \in Connections : closed[c] = "stalled" => idle[c] = MaxStall

\* Frames reach the socket in the order they were offered, and after a
\* credential change no application frame of an earlier epoch does, even one
\* that was queued before it (dropApplicationFramesBefore, pump).
SentInOrderAndEpoch ==
  [][\A c \in Connections :
       lastSent'[c] # lastSent[c] =>
         /\ lastSent'[c].turn > lastSent[c].turn
         /\ lastSent'[c].lane = "application" => lastSent'[c].authEpoch = epoch[c]]_vars

\* No sink stays blocked: the network drains it or the stall timer closes
\* it, so that every queued frame leaves the queue and the promise enqueue
\* returned for it settles, whatever the network does.
BlockedEnds ==
  \A c \in Connections : blocked[c] /\ Open(c) ~> ~blocked[c] \/ ~Open(c)
=============================================================================
