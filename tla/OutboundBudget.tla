--------------------------- MODULE OutboundBudget ---------------------------
(***************************************************************************)
(* The byte budget the outbound queues of a transport share                *)
(* (packages/server/src/subscriptions/delivery/budget.ts).  Every frame    *)
(* that is queued, or handed over and not yet known to have left, owns a   *)
(* reservation in one of two lanes; application frames cannot take the     *)
(* bytes kept for control frames.  The WebSocket sinks of a server share   *)
(* one budget and its SSE producers another.                               *)
(***************************************************************************)
EXTENDS Integers

CONSTANTS MaxBytes,      \* maxBytes of the budget
          Reserve        \* reservedControlBytes

Lanes == {"application", "control"}

\* The constructor refuses a reserve that leaves nothing to applications.
ASSUME BudgetAssumption == /\ MaxBytes \in Nat
                           /\ Reserve \in Nat
                           /\ Reserve < MaxBytes

VARIABLE budget          \* the bytes owned in each lane

BudgetInit == budget = [lane \in Lanes |-> 0]

Least(a, b) == IF a <= b THEN a ELSE b

availableBytes(used, lane) ==
  LET available == MaxBytes - (used["application"] + used["control"])
  IN  IF lane = "control" THEN available
      ELSE Least(available, MaxBytes - Reserve - used["application"])

\* reserve returns a reservation, or null when the lane has no room.
Reservable(bytes, lane) == bytes <= availableBytes(budget, lane)
Reserved(used, bytes, lane) == [used EXCEPT ![lane] = @ + bytes]

Released(used, bytes, lane) == [used EXCEPT ![lane] = @ - bytes]
=============================================================================
