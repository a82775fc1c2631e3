--------------------------- MODULE MCCoordinator ---------------------------
(* Two requests: r2 is created at time 0 and grows too old within the      *)
(* bounds, r1 at time 1.                                                   *)
EXTENDS Coordinator, TLC

CONSTANTS r1, r2, idA, idB

MCCreatedAt == [r \in Requests |-> IF r = r1 THEN 1 ELSE 0]

IdentitySymmetry == Permutations(Identities)

====
