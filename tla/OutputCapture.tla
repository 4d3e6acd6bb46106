---------------------------- MODULE OutputCapture ----------------------------
(***************************************************************************)
(* What the supervisor keeps of a worker's output: the two threads of      *)
(* _OutputCapture, which copy stdout and stderr into the logs and share    *)
(* one budget of bytes, and the supervisor's main thread, which watches,   *)
(* stops the worker's process group, joins the threads for two seconds     *)
(* each, closes the logs and reads the final text out of one of them.      *)
(* Bytes are only counted: a thread reads a stream in order, so what a log *)
(* holds is the first size[s] bytes of what was written to the stream.     *)
(***************************************************************************)
EXTENDS Integers

CONSTANTS
    Limit,      \* max_output_bytes
    Chunk,      \* _CHUNK_SIZE
    MaxWritten  \* bound: what the processes write altogether

ASSUME LimitAssumption == Limit \in Nat \ {0}
ASSUME ChunkAssumption == Chunk \in Nat \ {0}
ASSUME BoundAssumption == MaxWritten \in Nat

Streams == {"stdout", "stderr"}

VARIABLES
    worker,   \* the process that was spawned: running, or its exit status
    kin,      \* other processes of its group live
    helper,   \* a process that left the group and holds the pipes:
              \* none was started, it lives, or it is gone
    written,  \* bytes written to each pipe so far
    taken,    \* bytes the reads of each thread have returned
    chunk,    \* the chunk each thread has in hand
    accepted, \* what it may keep of it
    count,    \* stdout_bytes and stderr_bytes
    full,     \* limit_reached
    thread,   \* where each thread is
    open,     \* the logs are open
    size,     \* bytes in each log
    main,     \* where the main thread is
    reason,
    shown,    \* stdout_bytes and stderr_bytes in the record
    text,     \* how much of stdout the final text was made from
    outcome

processes == <<worker, kin, helper>>
copying == <<taken, chunk, accepted, count, full, thread, size>>
watching == <<open, main, reason, shown, text, outcome>>
vars == <<processes, written, copying, watching>>

Zero == [s \in Streams |-> 0]
Total(f) == f["stdout"] + f["stderr"]
AtMost(a, b) == IF a < b THEN a ELSE b

Init ==
    /\ worker = "runs" /\ kin = FALSE /\ helper = "none"
    /\ written = Zero
    /\ taken = Zero /\ chunk = Zero /\ accepted = Zero /\ count = Zero
    /\ full = FALSE
    /\ thread = [s \in Streams |-> "read"]
    /\ open = TRUE /\ size = Zero
    /\ main = "poll" /\ reason = "none" /\ shown = Zero
    /\ text = 0 /\ outcome = "none"

-----------------------------------------------------------------------------
(* The processes that hold the pipes.                                      *)

InGroup == worker = "runs" \/ kin
Held == InGroup \/ helper = "lives"
Waiting(s) == written[s] - taken[s]

\* Whoever holds a pipe writes to it, unless the pipe and the buffer of the
\* reading end are full.
Write(s) ==
    /\ Held
    /\ Total(written) < MaxWritten
    /\ Waiting(s) < 2 * Chunk
    /\ written' = [written EXCEPT ![s] = @ + 1]
    /\ UNCHANGED <<processes, copying, watching>>

\* A process of the group starts another, which stays in the group or, with
\* setsid, leaves it.
Fork ==
    /\ InGroup
    /\ \/ kin' = TRUE /\ UNCHANGED helper
       \/ helper = "none" /\ helper' = "lives" /\ UNCHANGED kin
    /\ UNCHANGED <<worker, written, copying, watching>>

WorkerExit ==
    /\ worker = "runs"
    /\ worker' \in {"success", "failure"}
    /\ UNCHANGED <<kin, helper, written, copying, watching>>

OthersExit ==
    /\ \/ kin /\ kin' = FALSE /\ UNCHANGED helper
       \/ helper = "lives" /\ helper' = "gone" /\ UNCHANGED kin
    /\ UNCHANGED <<worker, written, copying, watching>>

WorldStep ==
    \/ \E s \in Streams : Write(s)
    \/ Fork \/ WorkerExit \/ OthersExit

-----------------------------------------------------------------------------
(* _OutputCapture.copy.                                                    *)

Alive(s) == main # "concluded" /\ thread[s] \notin {"done", "died"}

\* A buffered read comes back with a whole chunk, or with what there was when
\* the last holder of the pipe has gone.
Read(s) ==
    /\ thread[s] = "read"
    /\ Waiting(s) >= Chunk \/ (~Held /\ Waiting(s) > 0)
    /\ chunk' = [chunk EXCEPT ![s] = AtMost(Chunk, Waiting(s))]
    /\ taken' = [taken EXCEPT ![s] = @ + chunk'[s]]
    /\ thread' = [thread EXCEPT ![s] = "account"]
    /\ UNCHANGED <<accepted, count, full, size>>

EndOfFile(s) ==
    /\ thread[s] = "read"
    /\ ~Held
    /\ Waiting(s) = 0
    /\ thread' = [thread EXCEPT ![s] = "done"]
    /\ UNCHANGED <<taken, chunk, accepted, count, full, size>>

Keep(s, budget) ==
    LET accept == AtMost(chunk[s], budget) IN
    /\ accepted' = [accepted EXCEPT ![s] = accept]
    /\ count' = [count EXCEPT ![s] = @ + accept]
    /\ thread' = [thread EXCEPT ![s] = "write"]

\* Mutant: a budget for each stream.
AccountApart(s) ==
    /\ thread[s] = "account"
    /\ Keep(s, Limit - count[s])
    /\ full' = (full \/ accepted'[s] < chunk[s] \/ Limit = count[s])
    /\ UNCHANGED <<taken, chunk, size>>

\* Mutant: a chunk that does not fit whole is not kept at all.
AccountWhole(s) ==
    /\ thread[s] = "account"
    /\ Keep(s, IF chunk[s] <= Limit - Total(count) THEN chunk[s] ELSE 0)
    /\ full' = (full \/ accepted'[s] < chunk[s] \/ Limit = Total(count))
    /\ UNCHANGED <<taken, chunk, size>>

\* Under the lock of the two threads.
Account(s) ==
    /\ thread[s] = "account"
    /\ Keep(s, Limit - Total(count))
    /\ full' = (full \/ accepted'[s] < chunk[s] \/ Limit = Total(count))
    /\ UNCHANGED <<taken, chunk, size>>

\* A write to a log that the main thread has closed ends the thread.
Store(s) ==
    /\ thread[s] = "write"
    /\ IF accepted[s] > 0 /\ ~open
       THEN thread' = [thread EXCEPT ![s] = "died"] /\ UNCHANGED size
       ELSE /\ size' = [size EXCEPT ![s] = @ + accepted[s]]
            /\ thread' = [thread EXCEPT ![s] = "check"]
    /\ chunk' = [chunk EXCEPT ![s] = 0]
    /\ accepted' = [accepted EXCEPT ![s] = 0]
    /\ UNCHANGED <<taken, count, full>>

Check(s) ==
    /\ thread[s] = "check"
    /\ thread' = [thread EXCEPT ![s] = IF full THEN "done" ELSE "read"]
    /\ UNCHANGED <<taken, chunk, accepted, count, full, size>>

CopyStep(s) ==
    /\ Alive(s)
    /\ Read(s) \/ EndOfFile(s) \/ Account(s) \/ Store(s) \/ Check(s)
    /\ UNCHANGED <<processes, written, watching>>

-----------------------------------------------------------------------------
(* The main thread of supervise.                                           *)

Reasons == {"none", "CANCELLED", "OUTPUT_LIMIT", "TIMEOUT"}

GoOn(from, to) == main = from /\ main' = to

\* The watch loop: has the worker exited? If not, the counts are recorded.
Poll ==
    /\ main = "poll"
    /\ IF worker = "runs"
       THEN main' = "look" /\ shown' = count
       ELSE main' = "wait" /\ UNCHANGED shown
    /\ UNCHANGED <<processes, open, reason, text, outcome>>

\* The run may have been cancelled, and its timeout may have passed, by now.
Look(r) ==
    /\ main = "look"
    /\ r = "OUTPUT_LIMIT" => full
    /\ r \in {"TIMEOUT", "none"} => ~full
    /\ reason' = r
    /\ main' = IF r = "none" THEN "poll" ELSE "terminate"
    /\ UNCHANGED <<processes, open, shown, text, outcome>>

TimeUp == Look("TIMEOUT") /\ UNCHANGED <<written, copying>>

\* _terminate_group, after whatever the processes did while they had grace.
Terminate ==
    /\ GoOn("terminate", "wait")
    /\ worker' = IF worker = "runs" THEN "failure" ELSE worker
    /\ kin' = FALSE
    /\ UNCHANGED <<helper, open, reason, shown, text, outcome>>

\* Mutant: the rest of the group is left alone.
SweepNothing ==
    /\ GoOn("wait", "joinOut")
    /\ UNCHANGED <<processes, open, reason, shown, text, outcome>>

\* process.wait has returned; what is left of the group is terminated.
Sweep ==
    /\ GoOn("wait", "joinOut")
    /\ kin' = FALSE
    /\ UNCHANGED <<worker, helper, open, reason, shown, text, outcome>>

\* Mutant: the join has no timeout.
JoinForever(s, from, to) ==
    /\ GoOn(from, to)
    /\ ~Alive(s)
    /\ UNCHANGED <<processes, open, reason, shown, text, outcome>>

\* Two seconds are long for a thread that has a pipe to empty; the join times
\* out only while someone can still keep the thread waiting or busy.
Join(s, from, to) ==
    /\ GoOn(from, to)
    /\ Held \/ ~Alive(s)
    /\ UNCHANGED <<processes, open, reason, shown, text, outcome>>

Snapshot ==
    /\ GoOn("snapshot", "close")
    /\ shown' = count
    /\ UNCHANGED <<processes, open, reason, text, outcome>>

Close ==
    /\ GoOn("close", "verdict")
    /\ open' = FALSE
    /\ UNCHANGED <<processes, reason, shown, text, outcome>>

\* Mutant: an overflow that the watch loop did not see is forgotten.
VerdictOfLoop ==
    /\ GoOn("verdict", "parse")
    /\ UNCHANGED <<processes, open, reason, shown, text, outcome>>

\* The limit may have been exceeded after the loop looked last.
Verdict ==
    /\ GoOn("verdict", "parse")
    /\ reason' = IF reason = "none" /\ full THEN "OUTPUT_LIMIT" ELSE reason
    /\ UNCHANGED <<processes, open, shown, text, outcome>>

\* An empty log, or one that does not parse, is a failure too.
Conclude ==
    /\ GoOn("parse", "concluded")
    /\ text' = size["stdout"]
    /\ outcome' \in IF reason # "none" THEN {reason}
                    ELSE IF worker = "failure" THEN {"NONZERO_EXIT"}
                    ELSE IF text' = 0 THEN {"PROTOCOL_ERROR"}
                    ELSE {"COMPLETED", "PROTOCOL_ERROR"}
    /\ UNCHANGED <<processes, open, reason, shown>>

MainStep ==
    /\ \/ Poll
       \/ \E r \in Reasons : Look(r)
       \/ Terminate
       \/ Sweep
       \/ Join("stdout", "joinOut", "joinErr")
       \/ Join("stderr", "joinErr", "snapshot")
       \/ Snapshot \/ Close \/ Verdict \/ Conclude
    /\ UNCHANGED <<written, copying>>

Next ==
    \/ WorldStep
    \/ \E s \in Streams : CopyStep(s)
    \/ MainStep

Spec == Init /\ [][Next]_vars

\* Threads are scheduled, and the timeout comes to pass; no process of the worker need
\* ever exit or write.
FairSpec ==
    /\ Spec
    /\ WF_vars(MainStep) /\ SF_vars(TimeUp)
    /\ WF_vars(CopyStep("stdout")) /\ WF_vars(CopyStep("stderr"))

-----------------------------------------------------------------------------
(* What should be true.                                                    *)

\* Every variable has its type.
TypeOK ==
    /\ worker \in {"runs", "success", "failure"}
    /\ kin \in BOOLEAN
    /\ helper \in {"none", "lives", "gone"}
    /\ written \in [Streams -> Nat] /\ taken \in [Streams -> Nat]
    /\ chunk \in [Streams -> Nat] /\ accepted \in [Streams -> Nat]
    /\ count \in [Streams -> Nat] /\ size \in [Streams -> Nat] /\ shown \in [Streams -> Nat]
    /\ full \in BOOLEAN /\ open \in BOOLEAN
    /\ thread \in [Streams -> {"read", "account", "write", "check", "done", "died"}]
    /\ main \in {"poll", "look", "terminate", "wait", "joinOut", "joinErr",
                 "snapshot", "close", "verdict", "parse", "concluded"}
    /\ reason \in Reasons
    /\ text \in Nat
    /\ outcome \in Reasons \union {"NONZERO_EXIT", "PROTOCOL_ERROR", "COMPLETED"}

\* Both logs together never hold more than max_output_bytes, however the two
\* threads take turns, and no log more than was counted for it.
WithinLimit ==
    /\ Total(count) <= Limit
    /\ \A s \in Streams : size[s] <= count[s]

\* A run is ended for its output only when the whole budget is spent; and then,
\* if nobody keeps the pipes from outside the group, the logs, which the partial
\* result is made from, hold all that the policy allows.
LimitIsSpent ==
    outcome = "OUTPUT_LIMIT" =>
        /\ Total(count) = Limit
        /\ helper = "none" => Total(size) = Limit

\* If nobody keeps the pipes from outside the group, a COMPLETED run's logs
\* are all that was written, to the last byte, and its text was made from it.
NothingLost ==
    outcome = "COMPLETED" /\ helper = "none" =>
        size = written /\ text = written["stdout"] /\ ~full

\* Then, whatever the outcome, the counts in the record are the sizes of the
\* logs.
CountsAreTrue == main = "concluded" /\ helper = "none" => shown = size

\* The supervisor comes to a verdict, also when the worker does not exit and
\* when a process out of its reach holds the pipes for ever.
CaptureEnds == <>(main = "concluded")
==============================================================================
