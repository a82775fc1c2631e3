---------------------------- MODULE MCPublication ----------------------------
(* Ordered publication on a small instance: four versions after a restart  *)
(* at version 1, a backlog of three slots and three bytes.                 *)
EXTENDS Publication
=============================================================================
