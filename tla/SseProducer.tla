----------------------------- MODULE SseProducer -----------------------------
(***************************************************************************)
(* Server-sent event streams: the producer that spends receiver credit     *)
(* (packages/server/src/subscriptions/delivery/sse.ts) and the call that   *)
(* drives it (RuntimeHttp.runSse, packages/server/src/runtime/http).       *)
(*                                                                         *)
(* A call opens a producer, runs the handler, pumps the source it returns  *)
(* one acknowledged frame at a time, then sends a done frame; any failure  *)
(* sends an error frame instead.  Either one is the terminal frame, whose  *)
(* bytes were reserved when the producer was made.  The stream closes when *)
(* the terminal frame is acknowledged, when the consumer cancels, or when  *)
(* the consumer stalls twice.                                              *)
(*                                                                         *)
(* The promises the call awaits resume it as soon as the step that settled *)
(* them is over: woken marks that, and every other action waits for it.    *)
(***************************************************************************)
EXTENDS OutboundBudget, Sequences, FiniteSets, Functions

CONSTANTS Streams,
          MaxFrameBytes,       \* limits.maxFrameBytes
          MaxBytesPerStream,   \* limits.sse.maxBytesPerStream
          TerminalReserve,     \* controlReserveBytes
          DoneBytes,           \* size of the done frame
          MinimumBytes,        \* the smallest chunk frame
          MaxStall,            \* limits.sse.maxStallMs, in ticks
          Chunks,              \* the sizes of the chunk frames
          MaxChunks            \* bound: chunks of each stream

\* The constructor's checks; the reserve holds every terminal frame.
ASSUME SseAssumption == /\ TerminalReserve < MaxBytesPerStream
                        /\ MaxFrameBytes <= MaxBytesPerStream
                        /\ DoneBytes \in 1..TerminalReserve
                        /\ MinimumBytes \in Nat \ {0}
                        /\ MaxStall \in Nat \ {0}

VARIABLES stream,      \* the producer of each stream and the call's progress
          chunks       \* chunks produced so far

vars == <<budget, stream, chunks>>

NoStall == -1

Absent == [state |-> "absent", held |-> <<>>, unacked |-> 0, next |-> 1,
           acked |-> 0, terminal |-> 0, stall |-> NoStall, task |-> "none",
           woken |-> FALSE]

SseInit == /\ BudgetInit
           /\ stream = [s \in Streams |-> Absent]
           /\ chunks = [s \in Streams |-> 0]

Lane(frame) == IF frame.by = "end" THEN "control" ELSE "application"
HeldIn(held, lane) ==
  LET upTo[i \in 0..Len(held)] ==
        IF i = 0 THEN 0
        ELSE upTo[i - 1] + IF Lane(held[i]) = lane THEN held[i].bytes ELSE 0
  IN  upTo[Len(held)]

-----------------------------------------------------------------------------
(***************************************************************************)
(* The producer's methods, as functions of what they change: p is a        *)
(* stream's record paired with the budget.                                 *)
(***************************************************************************)
Pair(s) == [r |-> stream[s], b |-> budget]

Armed(elapsed) == IF elapsed = NoStall THEN 0 ELSE elapsed

applicationLimit == MaxBytesPerStream - TerminalReserve

\* enqueue: the frame owns its bytes until it is acknowledged.
enqueue(p, by, bytes) ==
  [r |-> [p.r EXCEPT !.held = Append(@, [seq |-> p.r.next, by |-> by, bytes |-> bytes]),
                     !.unacked = @ + bytes,
                     !.next = @ + 1,
                     !.stall = Armed(@)],
   b |-> p.b]

\* consumeTerminalReservation: what the terminal frame does not need is
\* given back, the rest is the frame's.
consumeTerminalReservation(p, bytes) ==
  [r |-> [p.r EXCEPT !.terminal = 0],
   b |-> Released(p.b, p.r.terminal - bytes, "control")]

\* An await settles when its waiter is resolved or rejected, and a pending
\* read when its reader is canceled.
\* Mutant: the pending read is not canceled.
WakeAwaiters(p) == [p EXCEPT !.r.woken = p.r.task \in {"credit", "drain", "closing"}]

Wake(p) == [p EXCEPT !.r.woken = p.r.task \in {"credit", "reading", "drain", "closing"}]

\* terminate: an error frame, sized at most as the reserve, ends the stream.
\* Mutant: a stream that is already ending is ended again.
TerminateAgain(p) ==
  LET ended == [Wake(p) EXCEPT !.r.state = "ending", !.r.stall = NoStall]
  IN  enqueue(consumeTerminalReservation(ended, TerminalReserve), "end", TerminalReserve)

terminate(p) ==
  IF p.r.state # "open" THEN p
  ELSE LET ended == [Wake(p) EXCEPT !.r.state = "ending", !.r.stall = NoStall]
       IN  enqueue(consumeTerminalReservation(ended, TerminalReserve), "end", TerminalReserve)

\* cancel and forceClose: everything the stream owns is released at once.
forceClose(p) ==
  Wake([r |-> [p.r EXCEPT !.state = "closed", !.held = <<>>, !.unacked = 0,
                          !.terminal = 0, !.stall = NoStall],
        b |-> Released(Released(p.b, HeldIn(p.r.held, "application"), "application"),
                       HeldIn(p.r.held, "control") + p.r.terminal, "control")])

\* preflightApplication: room for the smallest chunk.
preflightApplication(p) ==
  /\ p.r.state = "open"
  /\ MinimumBytes <= applicationLimit - p.r.unacked
  /\ MinimumBytes <= availableBytes(p.b, "application")

\* enqueueApplication, or the failure that ends the stream.
enqueueApplication(p, by, bytes) ==
  IF /\ bytes <= MaxFrameBytes /\ p.r.unacked + bytes <= applicationLimit
     /\ bytes <= availableBytes(p.b, "application")
  THEN enqueue([p EXCEPT !.b = Reserved(@, bytes, "application")], by, bytes)
  ELSE terminate(p)

Set(s, p) == /\ stream' = [stream EXCEPT ![s] = p.r]
             /\ budget' = p.b

-----------------------------------------------------------------------------
(***************************************************************************)
(* The call: handler, merge, complete, release of its admission slot.      *)
(***************************************************************************)
At(p, task) == [p EXCEPT !.r.task = task, !.r.woken = FALSE]

\* waitForClosed, after which the call's slot is released.
\* Mutant: a stream that is ending is not waited for.
SettledEarly(p) == At(p, "settled")

waitForClosed(p) == At(p, IF p.r.state = "closed" THEN "settled" ELSE "closing")

\* completeOpenStream from the point where nothing is merged.
completeOpenStream(p) ==
  CASE p.r.state # "open" -> waitForClosed(p)
    [] p.r.unacked > 0    -> At(p, "drain")
    [] OTHER -> At([enqueue(consumeTerminalReservation(p, DoneBytes), "end", DoneBytes)
                      EXCEPT !.r.state = "ending"], "closing")

\* consume, at the head of its loop: wait for credit, then ask the source.
consume(p) ==
  CASE p.r.state # "open" -> waitForClosed(p)
    [] p.r.unacked > 0    -> At(p, "credit")
    [] ~preflightApplication(p) -> waitForClosed(terminate(p))
    [] OTHER -> At(p, "reading")

Quiet == \A s \in Streams : ~stream[s].woken
Live(s) == stream[s].state \in {"open", "ending"}

\* The constructor reserves the terminal frame or refuses the stream.
OpenStream(s) ==
  /\ Quiet /\ stream[s].state = "absent"
  /\ IF Reservable(TerminalReserve, "control")
     THEN Set(s, [r |-> [Absent EXCEPT !.state = "open", !.terminal = TerminalReserve,
                                       !.task = "handler"],
                  b |-> Reserved(budget, TerminalReserve, "control")])
     ELSE Set(s, [r |-> [Absent EXCEPT !.state = "refused"], b |-> budget])
  /\ UNCHANGED chunks

HandlerReturns(s) ==
  /\ Quiet /\ stream[s].task = "handler"
  /\ Set(s, consume(Pair(s)))
  /\ UNCHANGED chunks

HandlerFails(s) ==
  /\ Quiet /\ stream[s].task = "handler"
  /\ Set(s, waitForClosed(terminate(Pair(s))))
  /\ UNCHANGED chunks

\* The source yields a chunk.  A write that took the credit meanwhile fails
\* the merge.
SourceYields(s, bytes) ==
  LET p == Pair(s)
  IN  /\ Quiet /\ p.r.task = "reading" /\ chunks[s] < MaxChunks[s]
      /\ chunks' = [chunks EXCEPT ![s] = @ + 1]
      /\ Set(s, IF preflightApplication(p) /\ p.r.unacked = 0
                THEN consume(enqueueApplication(p, "merge", bytes))
                ELSE waitForClosed(terminate(p)))

SourceEnds(s) ==
  LET p == Pair(s)
  IN  /\ Quiet /\ p.r.task = "reading"
      /\ Set(s, IF preflightApplication(p) THEN completeOpenStream(p)
                ELSE waitForClosed(terminate(p)))
      /\ UNCHANGED chunks

SourceFails(s) ==
  /\ Quiet /\ stream[s].task = "reading"
  /\ Set(s, waitForClosed(terminate(Pair(s))))
  /\ UNCHANGED chunks

Resume(s) ==
  LET p == Pair(s)
  IN  /\ p.r.woken
      /\ Set(s, CASE p.r.task = "credit" -> consume(p)
                  [] p.r.task = "drain" -> completeOpenStream(p)
                  [] OTHER -> waitForClosed(p))
      /\ UNCHANGED chunks

(***************************************************************************)
(* The producer's other callers.                                           *)
(***************************************************************************)
write(s, bytes) ==
  LET p == Pair(s)
  IN  /\ Quiet /\ p.r.state = "open" /\ chunks[s] < MaxChunks[s]
      /\ chunks' = [chunks EXCEPT ![s] = @ + 1]
      /\ Set(s, IF preflightApplication(p) THEN enqueueApplication(p, "write", bytes)
                ELSE terminate(p))

\* fail, called for every producer when the runtime drains.
fail(s) ==
  /\ Quiet /\ stream[s].state = "open"
  /\ Set(s, terminate(Pair(s)))
  /\ UNCHANGED chunks

\* ack of a frame the consumer received; a late or repeated one is refused.
ack(s, seq) ==
  LET p == Pair(s)
      through == SelectSeq(p.r.held, LAMBDA f : f.seq <= seq)
      rest == SelectSeq(p.r.held, LAMBDA f : f.seq > seq)
      credited == [r |-> [p.r EXCEPT !.held = rest, !.acked = seq,
                            !.unacked = HeldIn(rest, "application") + HeldIn(rest, "control"),
                            !.stall = IF rest = <<>> THEN NoStall ELSE 0],
                   b |-> Released(Released(budget, HeldIn(through, "application"), "application"),
                                  HeldIn(through, "control"), "control")]
  IN  /\ Quiet /\ seq > p.r.acked /\ seq < p.r.next
      /\ \E i \in DOMAIN p.r.held : p.r.held[i].seq = seq
      /\ Set(s, CASE rest # <<>> -> credited
                  [] p.r.state = "ending" -> Wake([credited EXCEPT !.r.state = "closed"])
                  [] OTHER -> IF p.r.task \in {"credit", "drain"} THEN Wake(credited) ELSE credited)
      /\ UNCHANGED chunks

\* The consumer cancels, or the request's signal aborts.
cancel(s) ==
  /\ Quiet /\ Live(s)
  /\ Set(s, forceClose(Pair(s)))
  /\ UNCHANGED chunks

\* A stalled stream is ended; one that stalls while ending is closed.
onStallTimer(s) ==
  /\ Quiet /\ stream[s].stall = MaxStall
  /\ Set(s, IF stream[s].state = "open" THEN terminate(Pair(s)) ELSE forceClose(Pair(s)))
  /\ UNCHANGED chunks

Tick ==
  /\ Quiet
  /\ \E s \in Streams : stream[s].stall # NoStall
  /\ \A s \in Streams : stream[s].stall # MaxStall
  /\ stream' = [s \in Streams |-> [stream[s] EXCEPT
                  !.stall = IF @ = NoStall THEN NoStall ELSE @ + 1]]
  /\ UNCHANGED <<budget, chunks>>

SseNext ==
  \/ \E s \in Streams : OpenStream(s)
  \/ \E s \in Streams : HandlerReturns(s)
  \/ \E s \in Streams : HandlerFails(s)
  \/ \E s \in Streams : \E bytes \in Chunks : SourceYields(s, bytes)
  \/ \E s \in Streams : SourceEnds(s)
  \/ \E s \in Streams : SourceFails(s)
  \/ \E s \in Streams : Resume(s)
  \/ \E s \in Streams : \E bytes \in Chunks : write(s, bytes)
  \/ \E s \in Streams : fail(s)
  \/ \E s \in Streams : \E seq \in 1..(stream[s].next - 1) : ack(s, seq)
  \/ \E s \in Streams : cancel(s)
  \/ \E s \in Streams : onStallTimer(s)
  \/ Tick

\* Awaits resume, time passes and timers fire.  Nothing is asked of the
\* handler, of the source or of the consumer.
SseFairness ==
  /\ WF_vars(Tick)
  /\ \A s \in Streams : /\ WF_vars(Resume(s))
                        /\ WF_vars(onStallTimer(s))

SseSpec == SseInit /\ [][SseNext]_vars /\ SseFairness

-----------------------------------------------------------------------------
(***************************************************************************)
(* Properties                                                              *)
(***************************************************************************)
\* The variables have the shapes the producer's fields have.
SseTypeOK ==
  /\ budget \in [Lanes -> Nat]
  /\ \A s \in Streams :
       /\ stream[s].state \in {"absent", "refused", "open", "ending", "closed"}
       /\ stream[s].task \in {"none", "handler", "credit", "reading", "drain", "closing", "settled"}
       /\ stream[s].stall \in NoStall..MaxStall
       /\ stream[s].unacked \in Nat /\ stream[s].terminal \in Nat
       /\ \A i \in DOMAIN stream[s].held :
            stream[s].held[i] \in [seq : Nat, by : {"merge", "write", "end"}, bytes : Nat]

SumStreams(f) == FoldFunction(+, 0, f)

\* The shared budget holds exactly the unacknowledged frames and the terminal
\* reserves of the streams that have not closed, on every path out of a
\* stream: acknowledgement, done, failure, cancel, stall.
StreamsBalance ==
  /\ budget["application"] =
       SumStreams([s \in Streams |-> HeldIn(stream[s].held, "application")])
  /\ budget["control"] =
       SumStreams([s \in Streams |-> HeldIn(stream[s].held, "control") + stream[s].terminal])
  /\ \A s \in Streams : stream[s].unacked =
       HeldIn(stream[s].held, "application") + HeldIn(stream[s].held, "control")

\* A stream can always say how it ended: while open it owns a whole terminal
\* reserve, and while ending its last frame, and only that one, is the
\* terminal one.  The unacknowledged frames are the ones after acked, without
\* a gap, so that releaseThrough cannot meet one.
TerminalFrameAssured ==
  \A s \in Streams :
    LET r == stream[s]
    IN  /\ r.state = "open" => r.terminal = TerminalReserve
        /\ r.state \in {"open", "ending"} =>
             /\ [i \in DOMAIN r.held |-> r.held[i].seq]
                  = [i \in 1..(r.next - 1 - r.acked) |-> r.acked + i]
             /\ \A i \in DOMAIN r.held :
                  (r.held[i].by = "end") <=> (r.state = "ending" /\ i = Len(r.held))
        /\ r.state = "ending" => r.held # <<>>

\* A merge spends one credit at a time: at most one of its frames is
\* unacknowledged, and it asks its source for a value only when none is, so
\* that no pulled value waits in memory (the class's own comment).
OneMergeCredit ==
  \A s \in Streams :
    LET merged == {i \in DOMAIN stream[s].held : stream[s].held[i].by = "merge"}
    IN  /\ Cardinality(merged) <= 1
        /\ stream[s].task = "reading" => merged = {}

\* The call's admission slot is given back only once its stream is closed
\* (lifecycle.finally after complete): the admission limit bounds the
\* producers that exist.
SlotOutlivesStream ==
  \A s \in Streams : stream[s].task = "settled" => stream[s].state = "closed"

\* Unacknowledged bytes are always watched by the stall timer, except those
\* of a stream that no longer owns any.
UnackedIsTimed ==
  \A s \in Streams :
    Live(s) => (stream[s].unacked > 0 <=> stream[s].stall # NoStall)

\* A stream that is ending closes, whatever the consumer does, and the call
\* behind it then gives its slot back unless its handler never returns.
EndingStreamsSettle ==
  \A s \in Streams :
    /\ stream[s].state = "ending" ~> stream[s].state = "closed"
    /\ stream[s].state = "closed" /\ stream[s].task # "handler"
         ~> stream[s].task = "settled"
=============================================================================
