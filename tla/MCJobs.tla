-------------------------------- MODULE MCJobs --------------------------------
(***************************************************************************)
(* Two procedure jobs behind one concurrency gate and a repeating mutation *)
(* job, on a clock of a few instants.                                      *)
(***************************************************************************)
EXTENDS JobRunner

MCPolicy ==
  [kind |-> "procedure", gate |-> "card", concurrency |-> 1, attempts |-> 2, delay |-> 0,
   every |-> 0, dedupe |-> TRUE, completedFor |-> 1, failedFor |-> 0, retention |-> 0]

MCDefinition ==
  [name \in Names |->
     CASE name = "charge"  -> MCPolicy
       [] name = "refund"  -> [MCPolicy EXCEPT !.attempts = 1, !.dedupe = FALSE]
       [] name = "nightly" -> [MCPolicy EXCEPT !.kind = "mutation", !.gate = "nightly", !.every = 1,
                                 !.attempts = 1, !.dedupe = FALSE, !.retention = 1]]

MCProgram == <<"mutation", "procedure", "sleep">>
MCSteps == 1..Len(MCProgram)

MCShortProgram == <<"mutation">>
MCShortSteps == 1..Len(MCShortProgram)
=============================================================================
