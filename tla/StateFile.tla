------------------------------ MODULE StateFile ------------------------------
(***************************************************************************)
(* How the record of one run is created and changed on disk: create_run    *)
(* writes request.json, state.json and events.jsonl; update_state reads    *)
(* state.json, merges, writes a temporary file and renames it over the     *)
(* record, all under the run's flock, and then adds a line to the log.     *)
(* load_state takes no lock: whatever "file" holds, some reader sees.      *)
(* Any process may be killed, or find the disk full, at every step.        *)
(***************************************************************************)
EXTENDS Integers, Sequences

CONSTANTS
    Writers,   \* the processes that call update_state
    Creator,   \* the process that calls create_run
    Created,   \* the record it writes
    Plan,      \* bound: the changes each writer makes, in its order
    Absent,    \* no such file
    Torn       \* a file that is not yet written to its end

Processes == Writers \union {Creator}
Nobody == Absent
Changes == UNION {{Plan[w][i] : i \in 1 .. Len(Plan[w])} : w \in Writers}
Values == UNION {{c[f] : f \in DOMAIN c} : c \in Changes \union {Created}}
Record == [DOMAIN Created -> Values]

ASSUME CreatorAssumption == Creator \notin Writers /\ Absent \notin Processes
ASSUME RecordAssumption ==
    /\ "state" \in DOMAIN Created
    /\ Created = [f \in DOMAIN Created |-> Created[f]]
    /\ Absent \notin Record /\ Torn \notin Record /\ Absent # Torn
ASSUME PlanAssumption ==
    /\ DOMAIN Plan = Writers
    /\ \A w \in Writers : Plan[w] \in Seq(Changes)
    /\ \A c \in Changes : DOMAIN c \subseteq DOMAIN Created

VARIABLES
    request,   \* request.json and config.toml are there
    file,      \* state.json
    events,    \* the states in events.jsonl
    temp,      \* the temporary file each process has made beside it
    lock,      \* who holds the flock on run.lock
    draft,     \* the record each process is about to write
    moved,     \* the draft is in another state than the record it was made from
    todo,      \* the changes each writer has yet to make
    pc

vars == <<request, file, events, temp, lock, draft, moved, todo, pc>>

Atomic == INSTANCE AtomicRecord WITH
    value <- file,
    log <- IF \E p \in Processes : pc[p] = "log" THEN Append(events, file.state) ELSE events

GoTo(p, label) == pc' = [pc EXCEPT ![p] = label]

Init ==
    /\ request = FALSE
    /\ file = Absent
    /\ events = <<>>
    /\ temp = [p \in Processes |-> Absent]
    /\ lock = Nobody
    /\ draft = [p \in Processes |-> Created]
    /\ moved = [p \in Processes |-> TRUE]
    /\ todo = [w \in Writers |-> Plan[w]]
    /\ pc = [p \in Processes |-> IF p = Creator THEN "request" ELSE "begin"]

-----------------------------------------------------------------------------
(* _atomic_bytes.                                                          *)

\* Mutant: the record is written in place.
StageInPlace(p) ==
    /\ pc[p] = "stage"
    /\ temp' = [temp EXCEPT ![p] = Torn]
    /\ file' = Torn
    /\ GoTo(p, "fill")
    /\ UNCHANGED <<request, events, lock, draft, moved, todo>>

\* mkstemp.
Stage(p) ==
    /\ pc[p] = "stage"
    /\ temp' = [temp EXCEPT ![p] = Torn]
    /\ GoTo(p, "fill")
    /\ UNCHANGED <<request, file, events, lock, draft, moved, todo>>

\* write, flush, fsync.
Fill(p) ==
    /\ pc[p] = "fill"
    /\ temp' = [temp EXCEPT ![p] = draft[p]]
    /\ GoTo(p, "replace")
    /\ UNCHANGED <<request, file, events, lock, draft, moved, todo>>

\* os.replace.
Replace(p) ==
    /\ pc[p] = "replace"
    /\ file' = temp[p]
    /\ temp' = [temp EXCEPT ![p] = Absent]
    /\ GoTo(p, IF moved[p] THEN "log" ELSE "unlock")
    /\ UNCHANGED <<request, events, lock, draft, moved, todo>>

-----------------------------------------------------------------------------
(* create_run.                                                             *)

WriteRequest ==
    /\ pc[Creator] = "request"
    /\ request' = TRUE
    /\ GoTo(Creator, "stage")
    /\ UNCHANGED <<file, events, temp, lock, draft, moved, todo>>

CreateLog ==
    /\ pc[Creator] = "log"
    /\ events' = <<Created.state>>
    /\ GoTo(Creator, "done")
    /\ UNCHANGED <<request, file, temp, lock, draft, moved, todo>>

-----------------------------------------------------------------------------
(* update_state.                                                           *)

\* Nobody updates a run before create_run has returned or died: only the
\* starter knows it, and the others' deadlines are seconds away.
CreationOver == pc[Creator] \in {"done", "dead"}

\* Mutant: the lock is not waited for.
AcquireAnyway(w) ==
    /\ pc[w] = "begin"
    /\ CreationOver
    /\ todo[w] # <<>>
    /\ lock' = w
    /\ GoTo(w, "read")
    /\ UNCHANGED <<request, file, events, temp, draft, moved, todo>>

Acquire(w) ==
    /\ pc[w] = "begin"
    /\ CreationOver
    /\ todo[w] # <<>>
    /\ lock = Nobody
    /\ lock' = w
    /\ GoTo(w, "read")
    /\ UNCHANGED <<request, file, events, temp, draft, moved, todo>>

Read(w) ==
    /\ pc[w] = "read"
    /\ file # Absent
    /\ draft' = [draft EXCEPT ![w] = Atomic!Merge(Head(todo[w]), file)]
    /\ moved' = [moved EXCEPT ![w] = draft'[w].state # file.state]
    /\ GoTo(w, "stage")
    /\ UNCHANGED <<request, file, events, temp, lock, todo>>

AppendEvent(w) ==
    /\ pc[w] = "log"
    /\ events' = Append(events, draft[w].state)
    /\ GoTo(w, "unlock")
    /\ UNCHANGED <<request, file, temp, lock, draft, moved, todo>>

Release(w) ==
    /\ pc[w] = "unlock"
    /\ lock' = Nobody
    /\ todo' = [todo EXCEPT ![w] = Tail(@)]
    /\ GoTo(w, "begin")
    /\ UNCHANGED <<request, file, events, temp, draft, moved>>

\* Mutant: an exception leaves without letting go of the lock.
RaiseLocked(w) ==
    /\ temp' = [temp EXCEPT ![w] = Absent]
    /\ todo' = [todo EXCEPT ![w] = <<>>]
    /\ GoTo(w, "begin")
    /\ UNCHANGED <<request, file, events, lock, draft, moved>>

\* An exception: the temporary file is removed and the lock released on the
\* way out, and the caller gives up.
Raise(w) ==
    /\ temp' = [temp EXCEPT ![w] = Absent]
    /\ lock' = Nobody
    /\ todo' = [todo EXCEPT ![w] = <<>>]
    /\ GoTo(w, "begin")
    /\ UNCHANGED <<request, file, events, draft, moved>>

\* RUN_NOT_FOUND: create_run died before it had written the record.
NotFound(w) ==
    /\ pc[w] = "read"
    /\ file = Absent
    /\ Raise(w)

\* The disk is full, say.
Fail(w) ==
    /\ pc[w] \in {"stage", "fill", "replace", "log"}
    /\ Raise(w)

-----------------------------------------------------------------------------
\* Killed: the flock goes with the process, its temporary file stays.
Kill(p) ==
    /\ pc[p] \notin {"done", "dead"}
    /\ lock' = IF lock = p THEN Nobody ELSE lock
    /\ GoTo(p, "dead")
    /\ UNCHANGED <<request, file, events, temp, draft, moved, todo>>

WriteFile(p) == Stage(p) \/ Fill(p) \/ Replace(p)
Create == WriteRequest \/ WriteFile(Creator) \/ CreateLog
Update(w) == 
    Acquire(w) \/ Read(w) \/ NotFound(w) \/ WriteFile(w) \/ AppendEvent(w) \/ Release(w)

Next ==
    \/ Create
    \/ \E w \in Writers : Update(w) \/ Fail(w)
    \/ \E p \in Processes : Kill(p)

Spec == Init /\ [][Next]_vars

\* Processes are scheduled.
FairSpec == Spec /\ WF_vars(Create) /\ \A w \in Writers : WF_vars(Update(w))

-----------------------------------------------------------------------------
(* What should be true.                                                    *)

Labels == {"request", "begin", "read", "stage", "fill", "replace", "log",
           "unlock", "done", "dead"}

\* Every variable has its type: no process ever drafts, or publishes, a record
\* that lacks a field.
TypeOK ==
    /\ request \in BOOLEAN
    /\ file \in Record \union {Absent, Torn}
    /\ events \in Seq({r.state : r \in Record})
    /\ temp \in [Processes -> Record \union {Absent, Torn}]
    /\ lock \in Writers \union {Nobody}
    /\ draft \in [Processes -> Record]
    /\ moved \in [Processes -> BOOLEAN]
    /\ todo \in [Writers -> Seq(Changes)]
    /\ pc \in [Processes -> Labels]

\* load_state takes no lock, and never reads half a record.
WholeRecords == file # Torn

\* Whoever finds the record of a run finds its request too, also when the
\* starter died inside create_run: the supervisor can be told what to do.
RequestFirst == file # Absent => request

\* When update_state is about to return, the record holds what it was told
\* to write: nobody has overwritten it with an older copy.
UpdateTookEffect ==
    \A w \in Writers : pc[w] = "unlock" => Atomic!Merge(Head(todo[w]), file) = file

\* Lock, temporary file, rename and append together are one atomic update of
\* the record, each logged once in the order it happened.
ImplementsAtomicRecord == Atomic!Spec

\* No writer waits for ever for a lock, whoever was killed or failed with it.
UpdatesEnd ==
    pc[Creator] \in {"done", "dead"} ~>
        \A w \in Writers : pc[w] = "dead" \/ (pc[w] = "begin" /\ todo[w] = <<>>)
==============================================================================
