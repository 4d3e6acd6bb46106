---------------------------- MODULE TaskRunProofs ----------------------------
(***************************************************************************)
(* Theorems about TaskRun, for any set of observers, any kinds of run, any *)
(* crashes and faults.  EndInv, LostInv and QuietInv need no timeliness;   *)
(* TimelyInv, and what follows from it, needs processes that are quicker   *)
(* than their deadlines.                                                   *)
(***************************************************************************)
EXTENDS TaskRun, TLAPS

USE ObserversAssumption, KindsAssumption, FaultAssumption
USE DEF Starter, Supervisor, Controllers, Processes

\* A job names an outcome and a text, or nothing.
JobsWhole ==
    \A p \in Processes :
        job[p] = NoJob \/ (job[p].state # "none" /\ job[p].text # "absent")

\* A process that is ending the run has something to publish, and has saved
\* the result by the time it publishes the state.
Finishing ==
    \A p \in Processes :
        /\ pc[p] \in {"kill", "save", "publish"} => job[p] # NoJob
        /\ pc[p] = "publish" => result # "absent"

EndInv == TypeOK /\ JobsWhole /\ Finishing /\ ResultBeforeTerminal

LEMMA EndInvInit == Init => EndInv
<1> SUFFICES ASSUME Init PROVE EndInv
  OBVIOUS
<1>1. TypeOK
  BY DEF Init, TypeOK, Record, Snapshot, Job, NoJob, NoSnap, Texts, Labels, TaskStates,
         ActiveStates, TerminalStates, Kind
<1>2. JobsWhole /\ Finishing /\ ResultBeforeTerminal
  BY DEF Init, JobsWhole, Finishing, ResultBeforeTerminal, Over, Terminal, TerminalStates
<1> QED BY <1>1, <1>2 DEF EndInv


(***************************************************************************)
(* Every action keeps EndInv.                                              *)
(***************************************************************************)
LEMMA EndInvStep == EndInv /\ [Next]_vars => EndInv'
<1> SUFFICES ASSUME EndInv, [Next]_vars PROVE EndInv'
  OBVIOUS
<1> USE DEF EndInv, TypeOK, JobsWhole, Finishing, ResultBeforeTerminal, Over, Record, Snapshot,
            Job, NoJob, Texts, Labels, Terminal, TaskStates, ActiveStates, TerminalStates,
            GoTo, SetJob, SetState, SetOp, worker, locals
<1>1. CASE Mark
  BY <1>1 DEF Mark
<1>2. CASE Launch
  BY <1>2 DEF Launch
<1>3. CASE RecordSupervisor
  <2>1. rec' \in Record /\ rec'.state = rec.state
    BY <1>3 DEF RecordSupervisor
  <2> QED BY <1>3, <2>1 DEF RecordSupervisor
<1>4. CASE Handshake
  BY <1>4 DEF Handshake, ReapSupervisor
<1>5. CASE HandshakePoll
  BY <1>5 DEF HandshakePoll, ReapSupervisor
<1>6. CASE HandshakeDeadline
  <2>1. sigterm' \in BOOLEAN
    BY <1>6 DEF HandshakeDeadline
  <2> QED BY <1>6, <2>1 DEF HandshakeDeadline
<1>7. CASE StopSupervisor
  BY <1>7 DEF StopSupervisor
<1>8. CASE StarterExit
  BY <1>8 DEF StarterExit, ReapSupervisor
<1>9. CASE Boot
  BY <1>9 DEF Boot
<1>10. CASE Starting
  <2>1. rec' \in Record /\ rec'.state = "STARTING"
    BY <1>10 DEF Starting
  <2> QED BY <1>10, <2>1 DEF Starting
<1>11. CASE SpawnWorker
  BY <1>11 DEF SpawnWorker
<1>12. CASE Running
  <2>1. PICK b \in BOOLEAN : b = (ClaimsAtSpawn \/ rec.claimed)
    BY Zenon
  <2>2. rec' = [rec EXCEPT !.state = "RUNNING", !.child = TRUE, !.claimed = b]
    BY <1>12, <2>1, Zenon DEF Running
  <2>3. rec' \in Record /\ rec'.state = "RUNNING"
    BY <2>2
  <2> QED BY <1>12, <2>3 DEF Running
<1>13. CASE Watch
  BY <1>13 DEF Watch
<1>14. CASE Terminate
  <2>1. helper' \in BOOLEAN
    BY <1>14 DEF Terminate, KillGroup, Dying
  <2> QED BY <1>14, <2>1 DEF Terminate, KillGroup, Dying
<1>15. CASE Sweep
  <2>1. /\ helper' \in BOOLEAN /\ leader' = "reaped"
        /\ GoTo(Supervisor, "session") /\ pc[Supervisor] = "sweep"
        /\ UNCHANGED <<kind, rec, result, held, aged, supv, sigterm, op, snap>>
    BY <1>15 DEF Sweep
  <2>2. CASE UNCHANGED job
    BY <2>1, <2>2
  <2>3. CASE job[Supervisor] = NoJob /\ SetJob(Supervisor, "FAILED", "partial")
    BY <2>1, <2>3
  <2> QED BY <1>15, <2>2, <2>3 DEF Sweep
<1>16. CASE ReadSession
  <2>0. rec' = rec \/ \E b \in BOOLEAN : rec' = [rec EXCEPT !.claimed = b]
    BY <1>16, Zenon DEF ReadSession, SetClaimed
  <2>1. rec' \in Record /\ rec'.state = rec.state
    BY <2>0
  <2>2. \/ job' = job /\ job[Supervisor] # NoJob
        \/ SetJob(Supervisor, "FAILED", "partial")
        \/ SetJob(Supervisor, "COMPLETED", "final")
    BY <1>16, Zenon DEF ReadSession, Conclude
  <2> QED BY <1>16, <2>1, <2>2 DEF ReadSession
<1>17. CASE Finally
  <2>1. helper' \in BOOLEAN
    BY <1>17 DEF Finally, KillGroup, Dying, SupervisorGone
  <2> QED BY <1>17, <2>1 DEF Finally, KillGroup, Dying, SupervisorGone
<1>18. CASE SupervisorFault
  BY <1>18 DEF SupervisorFault
<1>19. CASE Interrupt
  BY <1>19 DEF Interrupt
<1>20. CASE Age
  BY <1>20 DEF Age
<1>21. CASE LeaderExit
  BY <1>21 DEF LeaderExit, Dying
<1>22. CASE HelperExit
  <2>1. helper' \in BOOLEAN
    BY <1>22 DEF HelperExit
  <2> QED BY <1>22, <2>1 DEF HelperExit
<1>23. CASE CrashSupervisor
  BY <1>23 DEF CrashSupervisor, SupervisorGone
<1>24. CASE CrashStarter
  BY <1>24 DEF CrashStarter, ReapSupervisor
<1>25. ASSUME NEW p \in Processes, Save(p) PROVE EndInv'
  BY <1>25 DEF Save
<1>26. ASSUME NEW p \in Processes, Publish(p) PROVE EndInv'
  BY <1>26 DEF Publish
<1>27. ASSUME NEW p \in Processes, Release(p) PROVE EndInv'
  BY <1>27 DEF Release
<1>28. ASSUME NEW p \in Processes, Unlink(p) PROVE EndInv'
  <2>1. held' \in BOOLEAN
    BY <1>28 DEF Unlink
  <2> QED BY <1>28, <2>1 DEF Unlink
<1>29. ASSUME NEW c \in Controllers, Load(c) PROVE EndInv'
  BY <1>29 DEF Load, Seen
<1>30. ASSUME NEW c \in Controllers, Judge(c) PROVE EndInv'
  BY <1>30 DEF Judge, Lost, Proceed
<1>31. ASSUME NEW c \in Controllers, Kill(c) PROVE EndInv'
  <2>1. helper' \in BOOLEAN
    BY <1>31 DEF Kill, KillGroup, Dying
  <2> QED BY <1>31, <2>1 DEF Kill, KillGroup, Dying
<1>32. ASSUME NEW c \in Controllers, RequestCancel(c) PROVE EndInv'
  BY <1>32 DEF RequestCancel
<1>33. ASSUME NEW c \in Controllers, FlagCancel(c) PROVE EndInv'
  <2>1. rec' \in Record /\ rec'.state = rec.state
    BY <1>33 DEF FlagCancel
  <2> QED BY <1>33, <2>1 DEF FlagCancel
<1>34. ASSUME NEW c \in Controllers, CancelDeadline(c) PROVE EndInv'
  BY <1>34 DEF CancelDeadline
<1>35. ASSUME NEW c \in Controllers, Return(c) PROVE EndInv'
  BY <1>35 DEF Return, NoSnap
<1>36. CASE UNCHANGED vars
  BY <1>36 DEF vars
<1> QED
  BY <1>1, <1>2, <1>3, <1>4, <1>5, <1>6, <1>7, <1>8, <1>9, <1>10, <1>11, <1>12, <1>13, <1>14, <1>15, <1>16, <1>17, <1>18, <1>19, <1>20, <1>21, <1>22, <1>23, <1>24, <1>25, <1>26, <1>27, <1>28, <1>29, <1>30, <1>31, <1>32, <1>33, <1>34, <1>35, <1>36
  DEF Next, StarterStep, SupervisorStep, Environment, End, ControllerStep


\* Every record that ever existed is a typed record, and every finisher saves
\* the result before it publishes the state.
THEOREM TypeCorrect == Spec => []TypeOK
<1>1. EndInv => TypeOK
  BY DEF EndInv
<1> QED BY EndInvInit, EndInvStep, <1>1, PTL DEF Spec

THEOREM ResultReadable == Spec => []ResultBeforeTerminal
<1>1. EndInv => ResultBeforeTerminal
  BY DEF EndInv
<1> QED BY EndInvInit, EndInvStep, <1>1, PTL DEF Spec

-----------------------------------------------------------------------------
(* The supervisor's identity is in the record before the run is RUNNING,   *)
(* and a process once started is never "none" again.                       *)

IdentityInv ==
    /\ pc[Starter] \in {"mark", "popen"} => supv = "none"
    /\ pc[Starter] = "record" \/ pc[Supervisor] # "none" => supv # "none"
    /\ pc[Supervisor] \notin {"none", "exit", "killed"} => supv = "alive"
    /\ rec.sup => supv # "none"
    /\ rec.state = "RUNNING" \/ pc[Supervisor] \in {"spawn", "running"} => rec.sup
    /\ \A c \in Controllers :
          /\ snap[c].sup => supv # "none"
          /\ snap[c].state = "RUNNING" => snap[c].sup

LostInv == IdentityInv /\ LostMeansGone

LEMMA LostInvInit == Init => LostInv
  BY DEF Init, LostInv, IdentityInv, LostMeansGone, NoSnap, NoJob

LEMMA LostInvStep == EndInv /\ LostInv /\ [Next]_vars => LostInv'
<1> SUFFICES ASSUME EndInv, LostInv, [Next]_vars PROVE LostInv'
  OBVIOUS
<1> USE DEF EndInv, TypeOK, Record, Snapshot, Job, NoJob, LostInv, IdentityInv, LostMeansGone,
            Active, ActiveStates, Terminal, TaskStates, TerminalStates,
            GoTo, SetJob, SetState, SetOp, worker, locals, JobsWhole, Finishing
<1>1. CASE Mark
  BY <1>1 DEF Mark
<1>2. CASE Launch
  BY <1>2 DEF Launch
<1>3. CASE RecordSupervisor
  BY <1>3 DEF RecordSupervisor
<1>4. CASE Handshake
  BY <1>4 DEF Handshake, ReapSupervisor
<1>5. CASE HandshakePoll
  BY <1>5 DEF HandshakePoll, ReapSupervisor
<1>6. CASE HandshakeDeadline
  BY <1>6 DEF HandshakeDeadline
<1>7. CASE StopSupervisor
  BY <1>7 DEF StopSupervisor
<1>8. CASE StarterExit
  BY <1>8 DEF StarterExit, ReapSupervisor
<1>9. CASE Boot
  BY <1>9 DEF Boot
<1>10. CASE Starting
  BY <1>10 DEF Starting
<1>11. CASE SpawnWorker
  BY <1>11 DEF SpawnWorker
<1>12. CASE Running
  BY <1>12 DEF Running, ClaimsAtSpawn
<1>13. CASE Watch
  BY <1>13 DEF Watch
<1>14. CASE Terminate
  BY <1>14 DEF Terminate, KillGroup, Dying
<1>15. CASE Sweep
  BY <1>15 DEF Sweep
<1>16. CASE ReadSession
  BY <1>16 DEF ReadSession, Conclude, SetClaimed
<1>17. CASE Finally
  <2>1. UNCHANGED <<rec, snap, job>>
    BY <1>17 DEF Finally
  <2>2. \/ UNCHANGED <<supv, pc>>
        \/ supv' \in {"zombie", "gone"} /\ \E l \in {"exit", "killed"} : pc' = [pc EXCEPT ![Supervisor] = l]
    BY <1>17 DEF Finally, SupervisorGone
  <2>3. CASE UNCHANGED <<supv, pc>>
    BY <2>1, <2>3
  <2>4. CASE supv' \in {"zombie", "gone"} /\ \E l \in {"exit", "killed"} : pc' = [pc EXCEPT ![Supervisor] = l]
    <3>1. supv = "alive"
      BY <1>17 DEF Finally
    <3>2. IdentityInv'
      BY <2>1, <2>4, <3>1
    <3>3. LostMeansGone'
      BY <2>1, <2>4, <3>1
    <3> QED BY <3>2, <3>3
  <2> QED BY <2>2, <2>3, <2>4
<1>18. CASE SupervisorFault
  BY <1>18 DEF SupervisorFault
<1>19. CASE Interrupt
  BY <1>19 DEF Interrupt
<1>20. CASE Age
  BY <1>20 DEF Age
<1>21. CASE LeaderExit
  BY <1>21 DEF LeaderExit, Dying
<1>22. CASE HelperExit
  BY <1>22 DEF HelperExit
<1>23. CASE CrashSupervisor
  BY <1>23 DEF CrashSupervisor, SupervisorGone
<1>24. CASE CrashStarter
  BY <1>24 DEF CrashStarter, ReapSupervisor
<1>25. ASSUME NEW p \in Processes, Save(p) PROVE LostInv'
  BY <1>25 DEF Save
<1>26. ASSUME NEW p \in Processes, Publish(p) PROVE LostInv'
  BY <1>26 DEF Publish
<1>27. ASSUME NEW p \in Processes, Release(p) PROVE LostInv'
  BY <1>27 DEF Release
<1>28. ASSUME NEW p \in Processes, Unlink(p) PROVE LostInv'
  BY <1>28 DEF Unlink
<1>29. ASSUME NEW c \in Controllers, Load(c) PROVE LostInv'
  BY <1>29 DEF Load, Seen
<1>30. ASSUME NEW c \in Controllers, Judge(c) PROVE LostInv'
  BY <1>30 DEF Judge, Lost, Proceed
<1>31. ASSUME NEW c \in Controllers, Kill(c) PROVE LostInv'
  BY <1>31 DEF Kill, KillGroup, Dying
<1>32. ASSUME NEW c \in Controllers, RequestCancel(c) PROVE LostInv'
  BY <1>32 DEF RequestCancel
<1>33. ASSUME NEW c \in Controllers, FlagCancel(c) PROVE LostInv'
  BY <1>33 DEF FlagCancel
<1>34. ASSUME NEW c \in Controllers, CancelDeadline(c) PROVE LostInv'
  BY <1>34 DEF CancelDeadline
<1>35. ASSUME NEW c \in Controllers, Return(c) PROVE LostInv'
  BY <1>35 DEF Return, NoSnap
<1>36. CASE UNCHANGED vars
  BY <1>36 DEF vars
<1> QED
  BY <1>1, <1>2, <1>3, <1>4, <1>5, <1>6, <1>7, <1>8, <1>9, <1>10, <1>11, <1>12, <1>13, <1>14, <1>15, <1>16, <1>17, <1>18, <1>19, <1>20, <1>21, <1>22, <1>23, <1>24, <1>25, <1>26, <1>27, <1>28, <1>29, <1>30, <1>31, <1>32, <1>33, <1>34, <1>35, <1>36
  DEF Next, StarterStep, SupervisorStep, Environment, End, ControllerStep


\* However old the record a controller judged, a run it saw RUNNING is given
\* up only after that run's supervisor has exited.
THEOREM GivenUpOnlyWhenGone == Spec => []LostMeansGone
<1>1. LostInv => LostMeansGone
  BY DEF LostInv
<1> QED BY EndInvInit, EndInvStep, LostInvInit, LostInvStep, <1>1, PTL DEF Spec

-----------------------------------------------------------------------------
(* Where the supervisor is when no process of the worker's group exists.   *)

QuietLabels == {"none", "boot", "starting", "spawn", "session",
                "save", "publish", "release", "unlink"}

QuietInv == pc[Supervisor] \in QuietLabels => WorkerGone

LEMMA QuietInvInit == Init => QuietInv
  BY DEF Init, QuietInv, WorkerGone

LEMMA QuietInvStep ==
    ASSUME Faulty = FALSE
    PROVE  EndInv /\ LostInv /\ QuietInv /\ [Next]_vars => QuietInv'
<1> SUFFICES ASSUME EndInv, LostInv, QuietInv, [Next]_vars PROVE QuietInv'
  OBVIOUS
<1> USE Faulty = FALSE
<1> USE DEF EndInv, TypeOK, QuietInv, QuietLabels, WorkerGone, GoTo, worker, locals
<1>1. CASE Mark
  BY <1>1 DEF Mark
<1>2. CASE Launch
  BY <1>2 DEF Launch, LostInv, IdentityInv
<1>3. CASE RecordSupervisor
  BY <1>3 DEF RecordSupervisor
<1>4. CASE Handshake
  BY <1>4 DEF Handshake, ReapSupervisor
<1>5. CASE HandshakePoll
  BY <1>5 DEF HandshakePoll, ReapSupervisor
<1>6. CASE HandshakeDeadline
  BY <1>6 DEF HandshakeDeadline
<1>7. CASE StopSupervisor
  BY <1>7 DEF StopSupervisor
<1>8. CASE StarterExit
  BY <1>8 DEF StarterExit, ReapSupervisor
<1>9. CASE Boot
  BY <1>9 DEF Boot
<1>10. CASE Starting
  BY <1>10 DEF Starting
<1>11. CASE SpawnWorker
  BY <1>11 DEF SpawnWorker
<1>12. CASE Running
  BY <1>12 DEF Running, ClaimsAtSpawn
<1>13. CASE Watch
  BY <1>13 DEF Watch
<1>14. CASE Terminate
  BY <1>14 DEF Terminate, KillGroup, Dying
<1>15. CASE Sweep
  BY <1>15 DEF Sweep
<1>16. CASE ReadSession
  BY <1>16 DEF ReadSession, Conclude, SetClaimed
<1>17. CASE Finally
  BY <1>17 DEF Finally, KillGroup, Dying, SupervisorGone
<1>18. CASE SupervisorFault
  BY <1>18 DEF SupervisorFault
<1>19. CASE Interrupt
  BY <1>19 DEF Interrupt
<1>20. CASE Age
  BY <1>20 DEF Age
<1>21. CASE LeaderExit
  BY <1>21 DEF LeaderExit, Dying
<1>22. CASE HelperExit
  BY <1>22 DEF HelperExit
<1>23. CASE CrashSupervisor
  BY <1>23 DEF CrashSupervisor, SupervisorGone
<1>24. CASE CrashStarter
  BY <1>24 DEF CrashStarter, ReapSupervisor
<1>25. ASSUME NEW p \in Processes, Save(p) PROVE QuietInv'
  BY <1>25 DEF Save
<1>26. ASSUME NEW p \in Processes, Publish(p) PROVE QuietInv'
  BY <1>26 DEF Publish
<1>27. ASSUME NEW p \in Processes, Release(p) PROVE QuietInv'
  BY <1>27 DEF Release
<1>28. ASSUME NEW p \in Processes, Unlink(p) PROVE QuietInv'
  BY <1>28 DEF Unlink
<1>29. ASSUME NEW c \in Controllers, Load(c) PROVE QuietInv'
  BY <1>29 DEF Load, Seen
<1>30. ASSUME NEW c \in Controllers, Judge(c) PROVE QuietInv'
  BY <1>30 DEF Judge, Lost, Proceed
<1>31. ASSUME NEW c \in Controllers, Kill(c) PROVE QuietInv'
  BY <1>31 DEF Kill, KillGroup, Dying
<1>32. ASSUME NEW c \in Controllers, RequestCancel(c) PROVE QuietInv'
  BY <1>32 DEF RequestCancel
<1>33. ASSUME NEW c \in Controllers, FlagCancel(c) PROVE QuietInv'
  BY <1>33 DEF FlagCancel
<1>34. ASSUME NEW c \in Controllers, CancelDeadline(c) PROVE QuietInv'
  BY <1>34 DEF CancelDeadline
<1>35. ASSUME NEW c \in Controllers, Return(c) PROVE QuietInv'
  BY <1>35 DEF Return, NoSnap
<1>36. CASE UNCHANGED vars
  BY <1>36 DEF vars
<1> QED
  BY <1>1, <1>2, <1>3, <1>4, <1>5, <1>6, <1>7, <1>8, <1>9, <1>10, <1>11, <1>12, <1>13, <1>14, <1>15, <1>16, <1>17, <1>18, <1>19, <1>20, <1>21, <1>22, <1>23, <1>24, <1>25, <1>26, <1>27, <1>28, <1>29, <1>30, <1>31, <1>32, <1>33, <1>34, <1>35, <1>36
  DEF Next, StarterStep, SupervisorStep, Environment, End, ControllerStep

\* As long as its calls do not raise, the supervisor publishes an outcome only
\* when the worker's whole process group is gone, whoever else was killing it.
THEOREM QuietWhenPublished ==
    ASSUME Faulty = FALSE
    PROVE  Spec => []SupervisorPublishesLast
<1>1. QuietInv => SupervisorPublishesLast
  BY DEF QuietInv, QuietLabels, SupervisorPublishesLast
<1> QED BY EndInvInit, EndInvStep, LostInvInit, LostInvStep, QuietInvInit, QuietInvStep, <1>1, PTL DEF Spec

-----------------------------------------------------------------------------
(* When every process is timely, whatever is killed and whatever fails:    *)
(* the stages of a run, who may still move it, and what it holds of its    *)
(* parent.                                                                 *)

\* The supervisor, if there is one, only ends the run, and none will come.
SpentLabels == {"none", "save", "publish", "release", "unlink", "done", "exit", "killed"}
Spent == pc[Starter] \notin {"mark", "popen"} /\ pc[Supervisor] \in SpentLabels

\* The state is the one its starter and its supervisor last gave it, for as
\* long as they are at it; and no run is old while it is being started.
StageInv ==
    /\ pc[Starter] \in {"mark", "popen"} => op[Starter] = "start"
    /\ pc[Supervisor] \in SpentLabels \union
          {"boot", "starting", "spawn", "running", "watch", "terminate", "sweep", "session"}
    /\ aged => ~StartUnderway
    /\ pc[Supervisor] \in {"none", "boot", "starting"} => rec.state # "RUNNING"
    /\ pc[Supervisor] \in {"spawn", "running"} => rec.state = "STARTING"
    /\ pc[Supervisor] \in {"watch", "terminate", "sweep", "session"} => rec.state = "RUNNING"

\* Whoever ends the run, or has ended it, has no starter and no supervisor
\* against it; nor has who is about to judge a start to have taken too long.
SpentInv ==
    /\ Over => Spent
    /\ \A p \in Processes :
          /\ pc[p] \in {"kill", "save", "publish", "release", "unlink"} => Spent
          /\ pc[p] \in {"release", "unlink"} => Over
    /\ \A c \in Controllers :
          pc[c] = "judge" /\ snap[c].state \in {"SUBMITTED", "STARTING"} /\ aged => Spent

\* The parent is given back by a run that can no longer claim its session.
TipInv ==
    /\ \A p \in Processes : pc[p] = "unlink" => kind.resume /\ ~rec.claimed
    /\ kind.resume /\ ~held => Spent /\ ~rec.claimed

TimelyInv == StageInv /\ SpentInv /\ TipInv

LEMMA TimelyInvInit == Init => TimelyInv
  BY DEF Init, TimelyInv, StageInv, SpentInv, TipInv, SpentLabels, Over, Terminal, TerminalStates

LEMMA TimelyInvStep ==
    ASSUME Timely = TRUE
    PROVE  EndInv /\ LostInv /\ TimelyInv /\ [Next]_vars => TimelyInv'
<1> SUFFICES ASSUME EndInv, LostInv, TimelyInv, [Next]_vars PROVE TimelyInv'
  OBVIOUS
<1> USE Timely = TRUE
<1> USE DEF EndInv, TypeOK, Record, Snapshot, LostInv, IdentityInv, TimelyInv, StageInv, SpentInv,
            TipInv, Spent, SpentLabels, StartUnderway, SupervisorUnderway, Exited, Over,
            Active, ActiveStates, Terminal, TaskStates, TerminalStates,
            GoTo, SetJob, SetState, SetOp, worker, locals
<1>1. CASE Mark
  BY <1>1 DEF Mark
<1>2. CASE Launch
  BY <1>2 DEF Launch
<1>3. CASE RecordSupervisor
  BY <1>3 DEF RecordSupervisor
<1>4. CASE Handshake
  BY <1>4 DEF Handshake, ReapSupervisor
<1>5. CASE HandshakePoll
  BY <1>5 DEF HandshakePoll, ReapSupervisor
<1>6. CASE HandshakeDeadline
  BY <1>6 DEF HandshakeDeadline
<1>7. CASE StopSupervisor
  BY <1>7 DEF StopSupervisor
<1>8. CASE StarterExit
  BY <1>8 DEF StarterExit, ReapSupervisor
<1>9. CASE Boot
  BY <1>9 DEF Boot
<1>10. CASE Starting
  BY <1>10 DEF Starting
<1>11. CASE SpawnWorker
  BY <1>11 DEF SpawnWorker
<1>12. CASE Running
  BY <1>12 DEF Running, ClaimsAtSpawn
<1>13. CASE Watch
  BY <1>13 DEF Watch
<1>14. CASE Terminate
  BY <1>14 DEF Terminate, KillGroup, Dying
<1>15. CASE Sweep
  BY <1>15 DEF Sweep
<1>16. CASE ReadSession
  BY <1>16 DEF ReadSession, Conclude, SetClaimed
<1>17. CASE Finally
  BY <1>17 DEF Finally, KillGroup, Dying, SupervisorGone
<1>18. CASE SupervisorFault
  BY <1>18 DEF SupervisorFault
<1>19. CASE Interrupt
  BY <1>19 DEF Interrupt
<1>20. CASE Age
  BY <1>20 DEF Age
<1>21. CASE LeaderExit
  BY <1>21 DEF LeaderExit, Dying
<1>22. CASE HelperExit
  BY <1>22 DEF HelperExit
<1>23. CASE CrashSupervisor
  BY <1>23 DEF CrashSupervisor, SupervisorGone
<1>24. CASE CrashStarter
  BY <1>24 DEF CrashStarter, ReapSupervisor
<1>25. ASSUME NEW p \in Processes, Save(p) PROVE TimelyInv'
  BY <1>25 DEF Save
<1>26. ASSUME NEW p \in Processes, Publish(p) PROVE TimelyInv'
  BY <1>26 DEF Publish, JobsWhole, Finishing, Job, NoJob
<1>27. ASSUME NEW p \in Processes, Release(p) PROVE TimelyInv'
  BY <1>27 DEF Release
<1>28. ASSUME NEW p \in Processes, Unlink(p) PROVE TimelyInv'
  BY <1>28 DEF Unlink
<1>29. ASSUME NEW c \in Controllers, Load(c) PROVE TimelyInv'
  <2>1. aged /\ rec.state \in {"SUBMITTED", "STARTING"} => Spent
    OBVIOUS
  <2>2. /\ UNCHANGED <<kind, rec, held, aged, supv>>
        /\ pc' = [pc EXCEPT ![c] = "judge"] /\ snap' = [snap EXCEPT ![c] = Seen]
        /\ pc[c] \in {"idle", "wait"} /\ (c = Starter => UNCHANGED op)
    BY <1>29 DEF Load
  <2>3. pc'[Starter] = pc[Starter] \/ Starter = c
    BY <2>2
  <2>4. pc'[Supervisor] = pc[Supervisor] /\ op'[Starter] = op[Starter]
    BY <1>29, <2>2 DEF Load
  <2>5. StageInv'
    BY <2>2, <2>3, <2>4
  <2>6. Spent' <=> Spent
    BY <2>2, <2>4
  <2>7. SpentInv'
    BY <2>1, <2>2, <2>6 DEF Seen
  <2>8. TipInv'
    BY <2>2, <2>6
  <2> QED BY <2>5, <2>7, <2>8
<1>30. ASSUME NEW c \in Controllers, Judge(c) PROVE TimelyInv'
  BY <1>30 DEF Judge, Lost, Proceed, LostMeansGone
<1>31. ASSUME NEW c \in Controllers, Kill(c) PROVE TimelyInv'
  BY <1>31 DEF Kill, KillGroup, Dying
<1>32. ASSUME NEW c \in Controllers, RequestCancel(c) PROVE TimelyInv'
  BY <1>32 DEF RequestCancel
<1>33. ASSUME NEW c \in Controllers, FlagCancel(c) PROVE TimelyInv'
  BY <1>33 DEF FlagCancel
<1>34. ASSUME NEW c \in Controllers, CancelDeadline(c) PROVE TimelyInv'
  BY <1>34 DEF CancelDeadline
<1>35. ASSUME NEW c \in Controllers, Return(c) PROVE TimelyInv'
  BY <1>35 DEF Return, NoSnap
<1>36. CASE UNCHANGED vars
  BY <1>36 DEF vars
<1> QED
  BY <1>1, <1>2, <1>3, <1>4, <1>5, <1>6, <1>7, <1>8, <1>9, <1>10, <1>11, <1>12, <1>13, <1>14, <1>15, <1>16, <1>17, <1>18, <1>19, <1>20, <1>21, <1>22, <1>23, <1>24, <1>25, <1>26, <1>27, <1>28, <1>29, <1>30, <1>31, <1>32, <1>33, <1>34, <1>35, <1>36
  DEF Next, StarterStep, SupervisorStep, Environment, End, ControllerStep

\* No late update of the starter or of the supervisor brings a run back that
\* another process has ended, given up or cancelled.
THEOREM EndedStaysEnded ==
    ASSUME Timely = TRUE
    PROVE  Spec => TerminalStays
<1>1. EndInv /\ TimelyInv /\ [Next]_vars => [Over => Over']_vars
  <2> SUFFICES ASSUME EndInv, TimelyInv, Next, Over PROVE Over'
    BY DEF vars
  <2> USE DEF EndInv, TypeOK, JobsWhole, Finishing, TimelyInv, SpentInv, Spent, SpentLabels,
              Over, Terminal, Job, NoJob, SetState, locals
  <2>1. CASE StarterStep
    BY <2>1 DEF Record, StarterStep, Mark, Launch, RecordSupervisor, Handshake, HandshakePoll, HandshakeDeadline,
                StopSupervisor, StarterExit, GoTo
  <2>2. CASE SupervisorStep
    BY <2>2 DEF SupervisorStep, Boot, Starting, SpawnWorker, Running, Watch, Terminate, Sweep, ReadSession,
                SetClaimed, Finally
  <2>3. ASSUME NEW p \in Processes, End(p) PROVE Over'
    <3>1. CASE Publish(p)
      <4>1. job[p].state \in TerminalStates
        BY <3>1 DEF Publish, TerminalStates
      <4>2. rec' = [rec EXCEPT !.state = job[p].state]
        BY <3>1 DEF Publish
      <4> QED BY <4>1, <4>2 DEF Record
    <3>2. CASE Save(p) \/ Release(p) \/ Unlink(p)
      BY <3>2 DEF Save, Release, Unlink
    <3> QED BY <2>3, <3>1, <3>2 DEF End
  <2>4. ASSUME NEW c \in Controllers, ControllerStep(c) PROVE Over'
    <3>1. rec' = rec \/ rec' = [rec EXCEPT !.cancel = TRUE]
      BY <2>4 DEF ControllerStep, Load, Judge, Kill, RequestCancel, FlagCancel, CancelDeadline, Return
    <3> QED BY <3>1 DEF Record
  <2>5. CASE SupervisorFault \/ Interrupt
    BY <2>5 DEF SupervisorFault, Interrupt
  <2>6. CASE Environment
    BY <2>6 DEF Environment, Age, LeaderExit, HelperExit, CrashSupervisor, CrashStarter
  <2> QED BY <2>1, <2>2, <2>3, <2>4, <2>5, <2>6 DEF Next
<1> QED BY <1>1, EndInvInit, EndInvStep, LostInvInit, LostInvStep, TimelyInvInit, TimelyInvStep, PTL
        DEF Spec, TerminalStays

\* A continued run that counts as having used the session is what its parent
\* names: whoever gave the parent back did so of a run that never will.
THEOREM ClaimedKeepsParent ==
    ASSUME Timely = TRUE
    PROVE  Spec => []ClaimKeepsParent
<1>1. TimelyInv => ClaimKeepsParent
  BY DEF TimelyInv, TipInv, ClaimKeepsParent
<1> QED BY <1>1, EndInvInit, EndInvStep, LostInvInit, LostInvStep, TimelyInvInit, TimelyInvStep, PTL DEF Spec

-----------------------------------------------------------------------------
(* The processes implement one run as RunLifecycle describes it.           *)

LEMMA LifecycleInit == Init => Lifecycle!Init
  BY DEF Init, Lifecycle!Init

\* A step that a reader of the record, the result and the parent cannot see.
LEMMA Unseen ==
    ASSUME UNCHANGED <<rec, result, held, kind>>
    PROVE  UNCHANGED Lifecycle!vars
  BY DEF Lifecycle!vars

LEMMA LifecycleStep ==
    EndInv /\ LostInv /\ TimelyInv /\ [Next]_vars => [Lifecycle!Next]_(Lifecycle!vars)
<1> SUFFICES ASSUME EndInv, LostInv, TimelyInv, [Next]_vars PROVE Lifecycle!Next \/ UNCHANGED Lifecycle!vars
  OBVIOUS
<1> USE DEF EndInv, TypeOK, JobsWhole, Finishing, TimelyInv, StageInv, SpentInv, TipInv, Spent,
            SpentLabels, Over, Terminal, TerminalStates, Active, ActiveStates, TaskStates, Record, Job, NoJob, SetState,
            locals
<1>1. CASE Mark
  <2>1. Lifecycle!Start
    <3>1. pc[Starter] = "mark" /\ pc[Supervisor] = "none" /\ ~Spent
      BY <1>1 DEF Mark, LostInv, IdentityInv, Labels
    <3>2. rec.state \in {"SUBMITTED", "STARTING"}
      BY <3>1
    <3>3. rec' = [rec EXCEPT !.state = "STARTING"] /\ UNCHANGED <<result, held, kind>>
      BY <1>1 DEF Mark
    <3> QED BY <3>2, <3>3 DEF Lifecycle!Start
  <2> QED BY <2>1 DEF Lifecycle!Next
<1>2. CASE RecordSupervisor
  BY <1>2 DEF RecordSupervisor, Lifecycle!vars
<1>3. CASE StarterStep /\ ~Mark /\ ~RecordSupervisor
  BY <1>3, Unseen DEF StarterStep, Launch, Handshake, HandshakePoll, HandshakeDeadline, StopSupervisor,
                      StarterExit
<1>4. CASE Starting
  <2>1. Lifecycle!Start
    BY <1>4 DEF Starting, Lifecycle!Start
  <2> QED BY <2>1 DEF Lifecycle!Next
<1>5. CASE Running
  <2>1. Lifecycle!Run
    BY <1>5 DEF Running, ClaimsAtSpawn, Lifecycle!Run
  <2> QED BY <2>1 DEF Lifecycle!Next
<1>6. CASE ReadSession
  <2>1. CASE UNCHANGED rec
    BY <1>6, <2>1, Unseen DEF ReadSession
  <2>2. CASE \E b \in BOOLEAN : SetClaimed(b)
    <3>1. Lifecycle!LearnSession
      BY <1>6, <2>2 DEF ReadSession, SetClaimed, Lifecycle!LearnSession
    <3> QED BY <3>1 DEF Lifecycle!Next
  <2> QED BY <1>6, <2>1, <2>2 DEF ReadSession
<1>7. CASE SupervisorStep /\ ~Starting /\ ~Running /\ ~ReadSession
  BY <1>7, Unseen DEF SupervisorStep, Boot, SpawnWorker, Watch, Terminate, Sweep, Finally
<1>8. ASSUME NEW p \in Processes, Save(p) PROVE Lifecycle!Next
  <2>1. Lifecycle!SaveResult
    BY <1>8 DEF Save, Lifecycle!SaveResult
  <2> QED BY <2>1 DEF Lifecycle!Next
<1>9. ASSUME NEW p \in Processes, Publish(p) PROVE Lifecycle!Next
  <2>1. job[p].state \in TerminalStates /\ rec'.state = job[p].state /\ rec'.claimed = rec.claimed
    BY <1>9 DEF Publish
  <2>2. CASE Active(rec.state)
    <3>1. Lifecycle!Finish
      BY <1>9, <2>1, <2>2 DEF Publish, Lifecycle!Finish, Lifecycle!Active, Lifecycle!ActiveStates,
                              Lifecycle!TerminalStates
    <3> QED BY <3>1 DEF Lifecycle!Next
  <2>3. CASE Terminal(rec.state)
    <3>1. Lifecycle!Overrule
      BY <1>9, <2>1, <2>3 DEF Publish, Lifecycle!Overrule, Lifecycle!Terminal, Lifecycle!TerminalStates
    <3> QED BY <3>1 DEF Lifecycle!Next
  <2> QED BY <2>2, <2>3
<1>10. ASSUME NEW p \in Processes, Release(p) PROVE UNCHANGED Lifecycle!vars
  BY <1>10, Unseen DEF Release
<1>11. ASSUME NEW p \in Processes, Unlink(p) PROVE Lifecycle!Next \/ UNCHANGED Lifecycle!vars
  <2>1. CASE held
    <3>1. Lifecycle!GiveBack
      BY <1>11, <2>1 DEF Unlink, Lifecycle!GiveBack, Lifecycle!Terminal, Lifecycle!TerminalStates
    <3> QED BY <3>1 DEF Lifecycle!Next
  <2>2. CASE ~held
    BY <1>11, <2>2, Unseen DEF Unlink
  <2> QED BY <2>1, <2>2
<1>12. ASSUME NEW c \in Controllers, ControllerStep(c) PROVE UNCHANGED Lifecycle!vars
  <2>1. CASE FlagCancel(c)
    BY <2>1 DEF FlagCancel, Lifecycle!vars
  <2>2. CASE ~FlagCancel(c)
    BY <1>12, <2>2, Unseen DEF ControllerStep, Load, Judge, Kill, RequestCancel, CancelDeadline, Return
  <2> QED BY <2>1, <2>2
<1>13. CASE SupervisorFault \/ Interrupt \/ Environment
  BY <1>13, Unseen DEF SupervisorFault, Interrupt, Environment, Age, LeaderExit, HelperExit, CrashSupervisor,
                       CrashStarter
<1>14. CASE UNCHANGED vars
  BY <1>14, Unseen DEF vars
<1> QED BY <1>1, <1>2, <1>3, <1>4, <1>5, <1>6, <1>7, <1>8, <1>9, <1>10, <1>11, <1>12, <1>13, <1>14
        DEF Next, End

\* The starter, the supervisor and any number of controllers, killed wherever
\* they may be, implement the abstract run.
THEOREM Refinement ==
    ASSUME Timely = TRUE
    PROVE  Spec => ImplementsLifecycle
<1> QED BY EndInvInit, EndInvStep, LostInvInit, LostInvStep, TimelyInvInit, TimelyInvStep, LifecycleInit,
           LifecycleStep, PTL DEF Spec, ImplementsLifecycle, Lifecycle!Spec
==============================================================================
