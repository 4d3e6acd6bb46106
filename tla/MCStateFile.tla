----------------------------- MODULE MCStateFile -----------------------------
(***************************************************************************)
(* A small instance of StateFile: the first and last updates of a run by   *)
(* its starter and its supervisor, and a canceller.                        *)
(***************************************************************************)
EXTENDS StateFile

CONSTANTS starter, supervisor, canceller, creator

NewRun == [state |-> "SUBMITTED", sup |-> "no", cancel |-> "no"]

Updates ==
    [w \in {supervisor, canceller, starter} |->
        CASE w = starter -> <<[sup |-> "yes"]>>
          [] w = supervisor -> <<[state |-> "RUNNING", sup |-> "yes"], [state |-> "COMPLETED"]>>
          [] w = canceller -> <<[cancel |-> "yes"], [state |-> "CANCELLED"]>>]
==============================================================================
