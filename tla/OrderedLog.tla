----------------------------- MODULE OrderedLog -----------------------------
(***************************************************************************)
(* What ordered publication promises: versions are committed one after     *)
(* the other, work on them starts in the same order, each settles exactly  *)
(* once, in any order, and `contiguous` is the end of the settled prefix.  *)
(***************************************************************************)
EXTENDS Integers

CONSTANT First  (* the version the log starts after *)

VARIABLES
  committed,   (* the last committed version            *)
  started,     (* the last version whose work started   *)
  settled,     (* the versions whose work is over       *)
  contiguous   (* every version up to it is settled     *)

logVars == <<committed, started, settled, contiguous>>

Init ==
  /\ committed = First
  /\ started = First
  /\ settled = {}
  /\ contiguous = First

Commit ==
  /\ committed' = committed + 1
  /\ UNCHANGED <<started, settled, contiguous>>

Start ==
  /\ started < committed
  /\ started' = started + 1
  /\ UNCHANGED <<committed, settled, contiguous>>

(* h is the end of the prefix of settled versions.                         *)
EndsPrefix(h, S) ==
  /\ h >= First
  /\ (First + 1)..h \subseteq S
  /\ h + 1 \notin S

(* The work on a started version ends.                                     *)
Settle(v) ==
  /\ v \in ((First + 1)..started) \ settled
  /\ settled' = settled \cup {v}
  /\ EndsPrefix(contiguous', settled')
  /\ UNCHANGED <<committed, started>>

(* Work that ends in the turn that starts it.                              *)
StartAndSettle ==
  /\ started < committed
  /\ started' = started + 1
  /\ settled' = settled \cup {started + 1}
  /\ EndsPrefix(contiguous', settled')
  /\ UNCHANGED committed

Next ==
  \/ Commit
  \/ Start
  \/ StartAndSettle
  \/ \E v \in (First + 1)..started : Settle(v)

Spec == Init /\ [][Next]_logVars
=============================================================================
