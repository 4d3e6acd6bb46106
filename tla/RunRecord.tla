------------------------------ MODULE RunRecord ------------------------------
(***************************************************************************)
(* The vocabulary of a run's persistent record, state.json: the task       *)
(* states of models.py and the tests store.py and service.py make on them. *)
(***************************************************************************)

ActiveStates == {"SUBMITTED", "STARTING", "RUNNING"}

TerminalStates == {"COMPLETED", "FAILED", "CANCELLED", "TIMED_OUT", "REJECTED"}

TaskStates == ActiveStates \union TerminalStates

Active(s) == s \in ActiveStates

Terminal(s) == s \in TerminalStates

(***************************************************************************)
(* What public_state calls resumable, of a record that has a conversation  *)
(* id or not, whose agent is known to have used its session or not (the    *)
(* session's id is in the record by then), and that no run has continued.  *)
(***************************************************************************)
Resumable(inConversation, claimed, state, isTip) ==
    /\ inConversation
    /\ claimed
    /\ Terminal(state)
    /\ state # "REJECTED"
    /\ isTip
==============================================================================
