----------------------------- MODULE RunLifecycle -----------------------------
(***************************************************************************)
(* What the record of one run promises to whoever polls it and continues   *)
(* it, without processes, locks or clocks.  The code's own finishers may   *)
(* overrule one another (Overrule); nothing else about an ended run moves  *)
(* but the parent's tip, which is given back only if the run never used    *)
(* the parent's session, and never once the run has used it.               *)
(***************************************************************************)
EXTENDS RunRecord

VARIABLES
    state,    \* the task state in state.json
    ready,    \* result.txt exists
    tip,      \* what the run holds of its parent: "none", "held", "released"
    claimed   \* the agent is known to have used the session

vars == <<state, ready, tip, claimed>>

TypeOK ==
    /\ state \in TaskStates
    /\ ready \in BOOLEAN
    /\ tip \in {"none", "held", "released"}
    /\ claimed \in BOOLEAN

Init ==
    /\ state = "SUBMITTED"
    /\ ready = FALSE
    /\ tip \in {"none", "held"}
    /\ claimed = FALSE

Start ==
    /\ state \in {"SUBMITTED", "STARTING"}
    /\ state' = "STARTING"
    /\ UNCHANGED <<ready, tip, claimed>>

\* A run that has already been given up cannot start to run.
Run ==
    /\ state = "STARTING"
    /\ tip # "released"
    /\ state' = "RUNNING"
    /\ claimed' \in BOOLEAN
    /\ UNCHANGED <<ready, tip>>

\* The worker's output shows the session it used, or that it used another.
LearnSession ==
    /\ state = "RUNNING"
    /\ tip # "released"
    /\ claimed' \in BOOLEAN
    /\ UNCHANGED <<state, ready, tip>>

SaveResult ==
    /\ ready' = TRUE
    /\ UNCHANGED <<state, tip, claimed>>

Finish ==
    /\ Active(state)
    /\ ready
    /\ state' \in TerminalStates
    /\ UNCHANGED <<ready, tip, claimed>>

Overrule ==
    /\ Terminal(state)
    /\ state' \in TerminalStates
    /\ UNCHANGED <<ready, tip, claimed>>

GiveBack ==
    /\ Terminal(state)
    /\ ~claimed
    /\ tip = "held"
    /\ tip' = "released"
    /\ UNCHANGED <<state, ready, claimed>>

Next ==
    \/ Start
    \/ Run
    \/ LearnSession
    \/ SaveResult
    \/ Finish
    \/ Overrule
    \/ GiveBack

Spec == Init /\ [][Next]_vars
==============================================================================
