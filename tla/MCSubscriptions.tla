-------------------------- MODULE MCSubscriptions --------------------------
(***************************************************************************)
(* Small instances of Subscriptions: clients of one shared query over two  *)
(* keys.  The query reads "a", and reads "b" only where "a" holds 1.       *)
(***************************************************************************)
EXTENDS Subscriptions, TLC

CONSTANT q

MCQueries == {q}
MCQueryOf == [c \in Clients |-> q]
MCKeys == {"a", "b"}
MCValues == {0, 1}
MCUpdates == {"a" :> 1, "b" :> 1}
MCReadKeys(p, c) == IF c["a"] = 1 THEN {"a", "b"} ELSE {"a"}
MCNeverErr(p, read) == FALSE
MCErrOnOne(p, read) == read["a"] = 1
ClientSymmetry == Permutations(Clients)
=============================================================================
