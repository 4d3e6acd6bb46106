---------------------------- MODULE AtomicRecord ----------------------------
(***************************************************************************)
(* What state.json and events.jsonl promise to the rest of the program: a  *)
(* record that is created once, whose fields are then changed together by  *)
(* one update after another, and a log with one entry for every update     *)
(* that moved the record to another state.  A process that dies, or whose  *)
(* disk is full, may leave its own entry out of the log, and nothing else. *)
(***************************************************************************)
EXTENDS Integers, Sequences

CONSTANTS
    Absent,    \* not a record
    Created,   \* the record create_run writes
    Changes    \* the updates processes ask for, as functions of the fields changed

VARIABLES
    value,   \* the record
    log      \* the states it has been in, as the log tells

\* dict.update: what the change does not name keeps its value.
Merge(change, record) ==
    [f \in DOMAIN record |-> IF f \in DOMAIN change THEN change[f] ELSE record[f]]

Init ==
    /\ value = Absent
    /\ log = <<>>

Create ==
    /\ value = Absent
    /\ value' = Created
    /\ log' = Append(log, Created.state)

Update(change) ==
    /\ value # Absent
    /\ value' = Merge(change, value)
    /\ log' = IF value'.state # value.state THEN Append(log, value'.state) ELSE log

LoseEntry ==
    /\ log # <<>>
    /\ log' = SubSeq(log, 1, Len(log) - 1)
    /\ UNCHANGED value

Next == Create \/ LoseEntry \/ \E change \in Changes : Update(change)

Spec == Init /\ [][Next]_<<value, log>>
==============================================================================
