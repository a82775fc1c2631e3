----------------------------- MODULE MCWebSocket -----------------------------
(***************************************************************************)
(* c1 is offered frames of both lanes; c2 competes for the shared budget   *)
(* with one frame, which may be too large.                                 *)
(***************************************************************************)
EXTENDS WebSocketSink, TLC

Offer(lane, bytes) == [lane |-> lane, bytes |-> bytes]
MCOffers == "c1" :> {Offer("application", 1), Offer("application", 3), Offer("control", 2)}
            @@ "c2" :> {Offer("application", 1)}
MCMaxFrames == "c1" :> 3 @@ "c2" :> 1
MCMaxEpoch == "c1" :> 1 @@ "c2" :> 0
=============================================================================
