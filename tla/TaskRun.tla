------------------------------- MODULE TaskRun -------------------------------
(***************************************************************************)
(* One run of cliexec, from the moment create_run has written its record:  *)
(* the process that started it (service.start_task, and run_task's polling *)
(* loop), the detached supervisor (supervisor.supervise), the worker it    *)
(* launches with the helpers in its process group, and any number of other *)
(* controllers that call status, list or cancel.  They share nothing but   *)
(* the run's files and the operating system's process table.  An action is *)
(* the code between two accesses to what is shared.                        *)
(***************************************************************************)
EXTENDS RunRecord

CONSTANTS
    Observers,   \* the controllers other than the one that started the run
    Kinds,       \* the kinds of run considered, see Kind
    Crashable,   \* which of Starter and Supervisor may be killed at any time
    Faulty,      \* the supervisor's store and process calls may raise
    Timely       \* every process is quick compared with the deadlines

Starter == "starter"
Supervisor == "supervisor"
Controllers == Observers \union {Starter}
Processes == Controllers \union {Supervisor}

\* How the agent's session id is found, whether the run continues a parent run
\* (never admitted for an agent without sessions), and whether its starter is
\* `cliexec run` or `cliexec start`.
Kind == {k \in [session : {"none", "generated", "output"},
                resume : BOOLEAN,
                foreground : BOOLEAN] : k.resume => k.session # "none"}

ASSUME ObserversAssumption == Observers \intersect {Starter, Supervisor} = {}
ASSUME KindsAssumption == Kinds \subseteq Kind
ASSUME FaultAssumption ==
    /\ Crashable \subseteq {Starter, Supervisor}
    /\ Faulty \in BOOLEAN
    /\ Timely \in BOOLEAN

VARIABLES
    kind,     \* request.json: fixed when the run is created
    rec,      \* state.json
    result,   \* result.txt, by what it holds
    held,     \* the parent's continued_by_run_id names this run
    aged,     \* ten seconds have passed since created_at
    supv,     \* the supervisor process, as /proc shows it
    sigterm,  \* the supervisor's termination_requested event
    leader,   \* the worker process, leader of its process group
    helper,   \* some other process of that group is alive
    pc,       \* where each process is
    op,       \* the operation each controller performs
    snap,     \* the record as each controller last loaded it
    job       \* what each process is about to publish

worker == <<leader, helper>>
locals == <<op, snap, job>>
vars == <<kind, rec, result, held, aged, supv, sigterm, worker, pc, locals>>

Texts == {"absent", "final", "partial", "empty"}
NoJob == [state |-> "none", text |-> "absent"]
NoSnap == [state |-> "none", sup |-> FALSE, child |-> FALSE]

GoTo(p, label) == pc' = [pc EXCEPT ![p] = label]
SetOp(c, o) == op' = [op EXCEPT ![c] = o]
SetJob(p, state, text) == job' = [job EXCEPT ![p] = [state |-> state, text |-> text]]
SetState(s) == rec' = [rec EXCEPT !.state = s]

\* By itself, or killed.
Exited(p) == pc[p] \in {"exit", "killed"}

Dying == IF supv = "alive" THEN "zombie" ELSE "reaped"

\* SIGTERM, the grace period, SIGKILL: how it ends for the worker's group.
KillGroup ==
    /\ leader' = IF leader = "alive" THEN Dying ELSE leader
    /\ helper' = FALSE

\* The supervisor exits: a zombie for as long as the process that spawned it
\* neither waits for it nor exits; init reaps the orphaned worker.
SupervisorGone ==
    /\ supv' = IF Exited(Starter) THEN "gone" ELSE "zombie"
    /\ leader' = IF leader = "zombie" THEN "reaped" ELSE leader

ReapSupervisor == supv' = IF supv = "zombie" THEN "gone" ELSE supv

Init ==
    /\ kind \in Kinds
    /\ rec = [state |-> "SUBMITTED", sup |-> FALSE, child |-> FALSE,
              cancel |-> FALSE, claimed |-> FALSE]
    /\ result = "absent"
    /\ held = kind.resume
    /\ aged = FALSE
    /\ supv = "none"
    /\ sigterm = FALSE
    /\ leader = "none"
    /\ helper = FALSE
    /\ pc = [p \in Processes |-> CASE p = Starter -> "mark"
                                   [] p = Supervisor -> "none"
                                   [] OTHER -> "idle"]
    /\ op = [c \in Controllers |-> IF c = Starter THEN "start" ELSE "none"]
    /\ snap = [c \in Controllers |-> NoSnap]
    /\ job = [p \in Processes |-> NoJob]

-----------------------------------------------------------------------------
(* How every process ends a run: save_result, then update_state with the   *)
(* terminal state, then release_unclaimed_continuation, whose test of the  *)
(* child's record and whose update of the parent are two accesses.         *)

Save(p) ==
    /\ pc[p] = "save"
    /\ result' = job[p].text
    /\ GoTo(p, "publish")
    /\ UNCHANGED <<kind, rec, held, aged, supv, sigterm, worker, locals>>

Publish(p) ==
    /\ pc[p] = "publish"
    /\ SetState(job[p].state)
    /\ GoTo(p, IF job[p].state = "COMPLETED" THEN "done" ELSE "release")
    /\ job' = [job EXCEPT ![p] = NoJob]
    /\ UNCHANGED <<kind, result, held, aged, supv, sigterm, worker, op, snap>>

\* Mutant: the claim is not looked at.
ReleaseClaimed(p) ==
    /\ pc[p] = "release"
    /\ GoTo(p, IF ~kind.resume THEN "done" ELSE "unlink")
    /\ UNCHANGED <<kind, rec, result, held, aged, supv, sigterm, worker, locals>>

Release(p) ==
    /\ pc[p] = "release"
    /\ GoTo(p, IF rec.claimed \/ ~kind.resume THEN "done" ELSE "unlink")
    /\ UNCHANGED <<kind, rec, result, held, aged, supv, sigterm, worker, locals>>

\* Mutant: the parent's link to this run is left in place.
UnlinkNothing(p) ==
    /\ pc[p] = "unlink"
    /\ GoTo(p, "done")
    /\ UNCHANGED <<kind, rec, result, held, aged, supv, sigterm, worker, locals>>

Unlink(p) ==
    /\ pc[p] = "unlink"
    /\ held' = FALSE
    /\ GoTo(p, "done")
    /\ UNCHANGED <<kind, rec, result, aged, supv, sigterm, worker, locals>>

End(p) == Save(p) \/ Publish(p) \/ Release(p) \/ Unlink(p)

-----------------------------------------------------------------------------
(* The starter: the end of start_task, after the run was created.          *)

Mark ==
    /\ pc[Starter] = "mark"
    /\ SetState("STARTING")
    /\ GoTo(Starter, "popen")
    /\ UNCHANGED <<kind, result, held, aged, supv, sigterm, worker, locals>>

Launch ==
    /\ pc[Starter] = "popen"
    /\ \/ /\ supv' = "alive"
          /\ pc' = [pc EXCEPT ![Starter] = "record", ![Supervisor] = "boot"]
          /\ UNCHANGED job
       \/ /\ SetJob(Starter, "FAILED", "empty")
          /\ GoTo(Starter, "save")
          /\ UNCHANGED supv
    /\ UNCHANGED <<kind, rec, result, held, aged, sigterm, worker, op, snap>>

RecordSupervisor ==
    /\ pc[Starter] = "record"
    /\ rec' = [rec EXCEPT !.sup = TRUE]
    /\ GoTo(Starter, "handshake")
    /\ UNCHANGED <<kind, result, held, aged, supv, sigterm, worker, locals>>

\* Popen's destructor polls the supervisor once when start_task returns.
Handshake ==
    /\ pc[Starter] = "handshake"
    /\ IF rec.state = "RUNNING" \/ Terminal(rec.state)
       THEN /\ ReapSupervisor
            /\ IF kind.foreground /\ rec.state = "RUNNING"
               THEN GoTo(Starter, "idle") /\ SetOp(Starter, "status")
               ELSE GoTo(Starter, "done") /\ UNCHANGED op
       ELSE /\ GoTo(Starter, "poll")
            /\ UNCHANGED <<supv, op>>
    /\ UNCHANGED <<kind, rec, result, held, aged, sigterm, worker, snap, job>>

HandshakePoll ==
    /\ pc[Starter] = "poll"
    /\ ReapSupervisor
    /\ IF supv = "alive"
       THEN GoTo(Starter, "handshake") /\ UNCHANGED job
       ELSE GoTo(Starter, "save") /\ SetJob(Starter, "FAILED", "empty")
    /\ UNCHANGED <<kind, rec, result, held, aged, sigterm, worker, op, snap>>

\* Five seconds without the handshake: SIGTERM, one second, SIGKILL.  The
\* supervisor's handler is installed at the end of its boot.
HandshakeDeadline ==
    /\ pc[Starter] = "handshake"
    /\ ~Timely
    /\ \/ /\ supv = "alive"
          /\ pc[Supervisor] # "boot"
          /\ sigterm' = TRUE
          /\ GoTo(Starter, "stop")
          /\ UNCHANGED <<supv, job>>
       \/ /\ supv = "alive" => pc[Supervisor] = "boot"
          /\ supv' = "gone"
          /\ SetJob(Starter, "FAILED", "empty")
          /\ pc' = [pc EXCEPT ![Starter] = "save", ![Supervisor] = "exit"]
          /\ UNCHANGED sigterm
    /\ UNCHANGED <<kind, rec, result, held, aged, worker, op, snap>>

StopSupervisor ==
    /\ pc[Starter] = "stop"
    /\ supv' = IF supv = "alive" THEN "zombie" ELSE "gone"
    /\ leader' = IF leader = "zombie" THEN "reaped" ELSE leader
    /\ SetJob(Starter, "FAILED", "empty")
    /\ pc' = [pc EXCEPT ![Starter] = "save", ![Supervisor] = "exit"]
    /\ UNCHANGED <<kind, rec, result, held, aged, sigterm, helper, op, snap>>

\* start_task, run_task or cancel returned a terminal run, or `cliexec start`
\* returned a running one: the process exits, init reaps its children.
StarterExit ==
    /\ pc[Starter] = "done"
    /\ GoTo(Starter, "exit")
    /\ ReapSupervisor
    /\ UNCHANGED <<kind, rec, result, held, aged, sigterm, worker, locals>>

StarterStep ==
    \/ Mark
    \/ Launch
    \/ RecordSupervisor
    \/ Handshake
    \/ HandshakePoll
    \/ HandshakeDeadline
    \/ StopSupervisor
    \/ StarterExit

-----------------------------------------------------------------------------
(* The supervisor.                                                         *)

ClaimsAtSpawn == kind.session # "none" /\ (kind.resume \/ kind.session = "generated")

Boot ==
    /\ pc[Supervisor] = "boot"
    /\ GoTo(Supervisor, "starting")
    /\ UNCHANGED <<kind, rec, result, held, aged, supv, sigterm, worker, locals>>

Starting ==
    /\ pc[Supervisor] = "starting"
    /\ rec' = [rec EXCEPT !.state = "STARTING", !.sup = TRUE]
    /\ GoTo(Supervisor, "spawn")
    /\ UNCHANGED <<kind, result, held, aged, supv, sigterm, worker, locals>>

SpawnWorker ==
    /\ pc[Supervisor] = "spawn"
    /\ \/ /\ leader' = "alive"
          /\ helper' \in BOOLEAN
          /\ GoTo(Supervisor, "running")
          /\ UNCHANGED job
       \/ /\ SetJob(Supervisor, "FAILED", "empty")
          /\ GoTo(Supervisor, "save")
          /\ UNCHANGED worker
    /\ UNCHANGED <<kind, rec, result, held, aged, supv, sigterm, op, snap>>

Running ==
    /\ pc[Supervisor] = "running"
    /\ rec' = [rec EXCEPT !.state = "RUNNING", !.child = TRUE,
                          !.claimed = ClaimsAtSpawn \/ @]
    /\ GoTo(Supervisor, "watch")
    /\ UNCHANGED <<kind, result, held, aged, supv, sigterm, worker, locals>>

\* One turn of the watch loop.  Cancellation is looked at before the output
\* limit and the timeout.
Watch ==
    /\ pc[Supervisor] = "watch"
    /\ \/ /\ leader = "zombie"
          /\ GoTo(Supervisor, "sweep")
          /\ UNCHANGED job
       \/ /\ sigterm \/ rec.cancel
          /\ SetJob(Supervisor, "CANCELLED", "partial")
          /\ GoTo(Supervisor, "terminate")
       \/ /\ ~(sigterm \/ rec.cancel)
          /\ \E s \in {"FAILED", "TIMED_OUT"} : SetJob(Supervisor, s, "partial")
          /\ GoTo(Supervisor, "terminate")
    /\ UNCHANGED <<kind, rec, result, held, aged, supv, sigterm, worker, op, snap>>

Terminate ==
    /\ pc[Supervisor] = "terminate"
    /\ KillGroup
    /\ GoTo(Supervisor, "sweep")
    /\ UNCHANGED <<kind, rec, result, held, aged, supv, sigterm, locals>>

\* Mutant: the group is not looked at again once the leader has exited.
SweepLeaderOnly ==
    /\ pc[Supervisor] = "sweep"
    /\ leader' = "reaped"
    /\ \/ UNCHANGED job
       \/ job[Supervisor] = NoJob /\ SetJob(Supervisor, "FAILED", "partial")
    /\ GoTo(Supervisor, "session")
    /\ UNCHANGED <<kind, rec, result, held, aged, supv, sigterm, helper, op, snap>>

\* wait() for the leader, then terminate what is left of its group; the copy
\* threads may find the output limit exceeded only now.
Sweep ==
    /\ pc[Supervisor] = "sweep"
    /\ leader' = "reaped"
    /\ helper' = FALSE
    /\ \/ UNCHANGED job
       \/ job[Supervisor] = NoJob /\ SetJob(Supervisor, "FAILED", "partial")
    /\ GoTo(Supervisor, "session")
    /\ UNCHANGED <<kind, rec, result, held, aged, supv, sigterm, op, snap>>

SetClaimed(b) == rec' = [rec EXCEPT !.claimed = b]

\* Mutant: the outcome is published before the result is saved.
StateFirst ==
    /\ pc[Supervisor] = "session"
    /\ SetJob(Supervisor, "FAILED", "partial")
    /\ GoTo(Supervisor, "publish")
    /\ UNCHANGED <<kind, rec, result, held, aged, supv, sigterm, worker, op, snap>>

\* What the run ends with when nothing stopped it: a bad exit code, no session
\* id or output that does not parse fail it.
Conclude(sessionKnown) ==
    IF job[Supervisor] # NoJob
    THEN UNCHANGED job
    ELSE \/ SetJob(Supervisor, "FAILED", "partial")
         \/ sessionKnown /\ SetJob(Supervisor, "COMPLETED", "final")

ReadSession ==
    /\ pc[Supervisor] = "session"
    /\ \/ /\ kind.session # "output"
          /\ Conclude(TRUE)
          /\ UNCHANGED rec
       \/ /\ kind.session = "output"
          /\ \/ SetClaimed(TRUE) /\ Conclude(TRUE)
             \/ UNCHANGED rec /\ Conclude(FALSE)
             \/ /\ kind.resume
                /\ SetClaimed(FALSE)
                /\ SetJob(Supervisor, "FAILED", "partial")
    /\ GoTo(Supervisor, "save")
    /\ UNCHANGED <<kind, result, held, aged, supv, sigterm, worker, op, snap>>

\* An exception: the last-resort handler publishes FAILED, and if that raises
\* too the supervisor leaves through its finally clause.
SupervisorFault ==
    /\ Faulty
    /\ \/ /\ pc[Supervisor] \in {"starting", "spawn", "running", "watch", "session",
                                 "save", "publish", "release", "unlink"}
          /\ SetJob(Supervisor, "FAILED", "empty")
          /\ GoTo(Supervisor, "save")
       \/ /\ pc[Supervisor] \in {"save", "publish", "release", "unlink"}
          /\ GoTo(Supervisor, "done")
          /\ UNCHANGED job
    /\ UNCHANGED <<kind, rec, result, held, aged, supv, sigterm, worker, op, snap>>

\* The finally clause: a leader that is still alive goes first.
Finally ==
    /\ pc[Supervisor] = "done"
    /\ \/ /\ leader = "alive"
          /\ KillGroup
          /\ UNCHANGED <<supv, pc>>
       \/ /\ leader # "alive"
          /\ SupervisorGone
          /\ GoTo(Supervisor, "exit")
          /\ UNCHANGED helper
    /\ UNCHANGED <<kind, rec, result, held, aged, sigterm, locals>>

SupervisorStep ==
    \/ Boot
    \/ Starting
    \/ SpawnWorker
    \/ Running
    \/ Watch
    \/ Terminate
    \/ Sweep
    \/ ReadSession
    \/ Finally

-----------------------------------------------------------------------------
(* A controller's status, list and cancel.                                 *)

SupervisorUnderway ==
    supv = "alive" /\ pc[Supervisor] \in {"boot", "starting", "spawn", "running"}

StartUnderway ==
    \/ op[Starter] = "start" /\ ~Exited(Starter)
    \/ SupervisorUnderway

Seen == [state |-> rec.state, sup |-> rec.sup, child |-> rec.child]

Load(c) ==
    /\ \/ /\ pc[c] = "idle"
          /\ IF c = Starter
             THEN UNCHANGED op
             ELSE \E o \in {"status", "cancel"} : SetOp(c, o)
       \/ pc[c] = "wait" /\ UNCHANGED op
    /\ snap' = [snap EXCEPT ![c] = Seen]
    /\ GoTo(c, "judge")
    /\ UNCHANGED <<kind, rec, result, held, aged, supv, sigterm, worker, job>>

\* Mutant: a RUNNING record is judged without looking for its supervisor.
LostUnseen(c) ==
    /\ Active(snap[c].state)
    /\ snap[c].state = "RUNNING" \/ aged

\* Mutant: a start that has not recorded its supervisor yet gets no time.
LostAtOnce(c) ==
    /\ Active(snap[c].state)
    /\ ~(snap[c].sup /\ supv \in {"alive", "zombie"})

\* same_process: a zombie still has its /proc entry and start time.
Lost(c) ==
    /\ Active(snap[c].state)
    /\ ~(snap[c].sup /\ supv \in {"alive", "zombie"})
    /\ snap[c].state = "RUNNING" \/ aged

\* What the operation does with a record that is not declared lost.
Proceed(c) ==
    IF Terminal(snap[c].state) THEN "done"
    ELSE CASE op[c] = "cancel" -> "request"
           [] op[c] = "await" -> "wait"
           [] OTHER -> IF c = Starter THEN "idle" ELSE "done"

Judge(c) ==
    /\ pc[c] = "judge"
    /\ IF Lost(c)
       THEN SetJob(c, "FAILED", "partial") /\ GoTo(c, "kill")
       ELSE UNCHANGED job /\ GoTo(c, Proceed(c))
    /\ UNCHANGED <<kind, rec, result, held, aged, supv, sigterm, worker, op, snap>>

\* _kill_recorded_child: only if the recorded leader is still in /proc.
Kill(c) ==
    /\ pc[c] = "kill"
    /\ IF snap[c].child /\ leader \in {"alive", "zombie"}
       THEN KillGroup
       ELSE UNCHANGED worker
    /\ GoTo(c, "save")
    /\ UNCHANGED <<kind, rec, result, held, aged, supv, sigterm, locals>>

\* request_cancel: a load, then an update that merges one field.
RequestCancel(c) ==
    /\ pc[c] = "request"
    /\ GoTo(c, IF Terminal(rec.state) THEN "wait" ELSE "flag")
    /\ SetOp(c, "await")
    /\ UNCHANGED <<kind, rec, result, held, aged, supv, sigterm, worker, snap, job>>

FlagCancel(c) ==
    /\ pc[c] = "flag"
    /\ rec' = [rec EXCEPT !.cancel = TRUE]
    /\ GoTo(c, "wait")
    /\ UNCHANGED <<kind, result, held, aged, supv, sigterm, worker, locals>>

\* Mutant: the canceller waits for the run to end however long it takes.
CancelPatience(c) ==
    /\ pc[c] = "wait"
    /\ FALSE
    /\ UNCHANGED vars

\* Seven seconds after the request the canceller stops waiting; if everyone
\* is quick, the last record it polled is still the record.
CancelDeadline(c) ==
    /\ pc[c] = "wait"
    /\ op[c] = "await"
    /\ Timely => supv # "alive" /\ ~StartUnderway /\ snap[c] = Seen
    /\ SetJob(c, "CANCELLED", "empty")
    /\ GoTo(c, "kill")
    /\ UNCHANGED <<kind, rec, result, held, aged, supv, sigterm, worker, op, snap>>

\* Ctrl-C while `cliexec run` polls, wherever its status call has got to.
Interrupt ==
    /\ op[Starter] = "status"
    /\ pc[Starter] # "done" /\ ~Exited(Starter)
    /\ SetOp(Starter, "cancel")
    /\ GoTo(Starter, "idle")
    /\ job' = [job EXCEPT ![Starter] = NoJob]
    /\ UNCHANGED <<kind, rec, result, held, aged, supv, sigterm, worker, snap>>

\* An observer's operation returns; it may begin another.
Return(c) ==
    /\ c # Starter
    /\ pc[c] = "done"
    /\ GoTo(c, "idle")
    /\ SetOp(c, "none")
    /\ snap' = [snap EXCEPT ![c] = NoSnap]
    /\ UNCHANGED <<kind, rec, result, held, aged, supv, sigterm, worker, job>>

ControllerStep(c) ==
    \/ Load(c)
    \/ Judge(c)
    \/ Kill(c)
    \/ RequestCancel(c)
    \/ FlagCancel(c)
    \/ CancelDeadline(c)
    \/ Return(c)

-----------------------------------------------------------------------------
(* The environment.                                                        *)

\* The run becomes ten seconds old.
Age ==
    /\ ~aged
    /\ Timely => /\ ~StartUnderway
                 /\ \A c \in Controllers :
                       pc[c] = "judge" => snap[c].state \notin {"SUBMITTED", "STARTING"}
    /\ aged' = TRUE
    /\ UNCHANGED <<kind, rec, result, held, supv, sigterm, worker, pc, locals>>

LeaderExit ==
    /\ leader = "alive"
    /\ leader' = Dying
    /\ UNCHANGED <<kind, rec, result, held, aged, supv, sigterm, helper, pc, locals>>

HelperExit ==
    /\ helper
    /\ helper' = FALSE
    /\ UNCHANGED <<kind, rec, result, held, aged, supv, sigterm, leader, pc, locals>>

CrashSupervisor ==
    /\ Supervisor \in Crashable
    /\ supv = "alive"
    /\ SupervisorGone
    /\ GoTo(Supervisor, "killed")
    /\ UNCHANGED <<kind, rec, result, held, aged, sigterm, helper, locals>>

CrashStarter ==
    /\ Starter \in Crashable
    /\ ~Exited(Starter)
    /\ GoTo(Starter, "killed")
    /\ ReapSupervisor
    /\ UNCHANGED <<kind, rec, result, held, aged, sigterm, worker, locals>>

Environment ==
    \/ Age
    \/ LeaderExit
    \/ HelperExit
    \/ CrashSupervisor
    \/ CrashStarter

Next ==
    \/ \E p \in Processes : End(p)
    \/ StarterStep
    \/ SupervisorStep
    \/ SupervisorFault
    \/ \E c \in Controllers : ControllerStep(c)
    \/ Interrupt
    \/ Environment

Spec == Init /\ [][Next]_vars

\* A process that is in the middle of an operation goes on with it; an idle
\* observer need not begin one.  The deadline of a waiting canceller comes.
SupervisorFair == WF_vars(SupervisorStep \/ End(Supervisor))

StarterFair ==
    /\ WF_vars(StarterStep \/ End(Starter) \/ ControllerStep(Starter))
    /\ SF_vars(CancelDeadline(Starter))

ObserverFair(c) ==
    /\ WF_vars((pc[c] # "idle" /\ ControllerStep(c)) \/ End(c))
    /\ SF_vars(CancelDeadline(c))

\* The code's own processes are scheduled.
FairSpec == Spec /\ SupervisorFair /\ StarterFair

\* So is everyone who has asked for something, and time passes.
Polling == WF_vars(Age) /\ \A c \in Observers : ObserverFair(c)

PollingSpec == FairSpec /\ Polling

-----------------------------------------------------------------------------
(* What should be true.                                                    *)

Labels == {"none", "mark", "popen", "record", "handshake", "poll", "stop",
           "boot", "starting", "spawn", "running", "watch", "terminate", "sweep",
           "session", "idle", "judge", "request", "flag", "wait", "kill",
           "save", "publish", "release", "unlink", "done", "exit",
           "killed"}

Record == [state : TaskStates, sup : BOOLEAN, child : BOOLEAN,
           cancel : BOOLEAN, claimed : BOOLEAN]
Snapshot == [state : TaskStates \union {"none"}, sup : BOOLEAN, child : BOOLEAN]
Job == [state : TerminalStates \union {"none"}, text : Texts]

\* Every variable has its type; in particular no record is ever left without
\* one of the states of models.TaskState.
TypeOK ==
    /\ kind \in Kinds
    /\ rec \in Record
    /\ result \in Texts
    /\ held \in BOOLEAN
    /\ aged \in BOOLEAN
    /\ supv \in {"none", "alive", "zombie", "gone"}
    /\ sigterm \in BOOLEAN
    /\ leader \in {"none", "alive", "zombie", "reaped"}
    /\ helper \in BOOLEAN
    /\ pc \in [Processes -> Labels]
    /\ op \in [Controllers -> {"none", "start", "status", "cancel", "await"}]
    /\ snap \in [Controllers -> Snapshot]
    /\ job \in [Processes -> Job]

Over == Terminal(rec.state)
WorkerGone == leader \in {"none", "reaped"} /\ ~helper

\* Whoever sees a terminal state can read a result, whichever process ended
\* the run and wherever any process was killed: every finisher saves first.
ResultBeforeTerminal == Over => result # "absent"

\* A controller that gives up a run it saw RUNNING does so only if that run's
\* supervisor has exited, however old the record it judged was.
LostMeansGone ==
    \A c \in Controllers :
        pc[c] = "kill" /\ job[c].state = "FAILED" /\ snap[c].state = "RUNNING"
            => supv = "gone"

\* The supervisor publishes an outcome only when no process of the worker's
\* group is left, so whoever is admitted next finds the directory quiet.
SupervisorPublishesLast ==
    pc[Supervisor] \in {"save", "publish", "release", "unlink"} => WorkerGone

\* A run that has ended is never active again: no late update of the starter
\* or of the supervisor brings it back.
TerminalStays == [][Over => Over']_vars

\* As long as a continued run counts as having used the session, its parent
\* names it as its continuation: the conversation cannot branch.
ClaimKeepsParent == kind.resume /\ rec.claimed => held

\* One run as RunLifecycle describes it.
Lifecycle == INSTANCE RunLifecycle WITH
    state <- rec.state,
    ready <- result # "absent",
    tip <- IF ~kind.resume THEN "none" ELSE IF held THEN "held" ELSE "released",
    claimed <- rec.claimed

\* The processes together implement that description.
ImplementsLifecycle == Lifecycle!Spec

Settled ==
    /\ Over
    /\ WorkerGone
    /\ kind.resume => held = rec.claimed

\* Every run comes to rest: ended for good, its worker's processes gone, and
\* its parent's tip kept if the session was used and given back if not; also
\* when its starter was killed, once that had launched the supervisor.
ComesToRest ==
    <>[](\/ Settled
         \/ pc[Supervisor] = "killed"
         \/ pc[Starter] = "killed" /\ supv = "none")

\* A cancellation that reached the record ends the run, even if the
\* supervisor that should act on it is killed, as long as whoever asked for it
\* polls on.  (The starter asks on Ctrl-C, and may be killed itself.)
CancelEnds == Polling => (rec.cancel ~> Over \/ pc[Starter] = "killed")

-----------------------------------------------------------------------------
(* What the documentation says and the code does not always do.            *)

\* SKILL.md: when the state becomes terminal, call result.  The outcome that
\* was announced is the one that is found.
OutcomeStays == [][Over => rec'.state = rec.state]_vars

\* README.md: cancellation terminates the worker process group.
CancelledMeansStopped == rec.state = "CANCELLED" => WorkerGone

\* README.md: session-capable workers can continue the latest terminal run, so
\* a tip that was taken and not used is given back.
TipComesBack == Over /\ held /\ ~rec.claimed ~> ~held \/ rec.claimed

\* `cliexec run` returns the final result of its task.
RunReturns == kind.foreground ~> pc[Starter] = "exit"
==============================================================================
