------------------------------- MODULE Registry -------------------------------
(***************************************************************************)
(* The registry of runs: how start_task admits a run under the registry    *)
(* lock (continuation, concurrency limit, overlapping workspaces), how     *)
(* records are reconciled, tips of conversations given back and old runs   *)
(* purged, while supervisors change their own runs without that lock.      *)
(* What happens inside one run is TaskRun's subject: here a supervisor     *)
(* starts, runs, ends and gives back its parent's tip, or is killed.       *)
(* Processes are quick compared with the deadlines (Timely in TaskRun).    *)
(***************************************************************************)
EXTENDS RunRecord, Integers, FiniteSets, SequencesExt

CONSTANTS
    Clients,         \* invocations of the command-line tool
    Commands,        \* bound: the commands they are given
    MaxRuns,         \* bound: runs ever created
    MaxConcurrency,  \* policy.max_concurrency
    Requests,        \* what a client may ask for, see Request
    SessionAgents,   \* the agents with a session contract
    Crashable        \* who may be killed: "client", "purger" (a client that purges), "supervisor"

Nobody == 0
Runs == 1 .. MaxRuns
Dirs == {<<"a">>, <<"a", "b">>, <<"c">>}
\* `--continue` is a request of its own: it names a parent run.
Request == [agent : {"x", "y"}, write : BOOLEAN, cwd : Dirs, resume : BOOLEAN]

ASSUME CommandsAssumption == Commands \subseteq {"status", "start", "purge"}
\* Processes are finitely many and are named apart from runs: a supervisor is
\* named by its run.
ASSUME ClientsAssumption == IsFiniteSet(Clients) /\ Clients \intersect (Runs \union {Nobody}) = {}
ASSUME LimitAssumption == MaxRuns \in Nat /\ MaxConcurrency \in Nat \ {0}
ASSUME RequestsAssumption == Requests \subseteq Request /\ SessionAgents \subseteq {"x", "y"}
ASSUME CrashAssumption == Crashable \subseteq {"client", "purger", "supervisor"}

VARIABLES
    rec,      \* the records, by run in order of creation
    lock,     \* who holds locks/registry.lock: a client, a run (its supervisor)
    sup,      \* where each run's supervisor is
    pc,       \* where each client is
    phase,    \* for which part of its call it judges and gives up runs
    req,      \* the request a client is working on, with the parent run or 0
    mine,     \* the run a client has created and not yet left, or 0
    todo,     \* the runs a client still has to judge, as it listed them
    active,   \* the runs it found active
    lostRun   \* the run it is giving up, or 0

locals == <<phase, req, mine, todo, active, lostRun>>
vars == <<rec, lock, sup, pc, locals>>

NoAsk == [agent |-> "x", write |-> FALSE, cwd |-> <<"a">>, resume |-> FALSE]
NoRequest == [ask |-> NoAsk, parent |-> 0]
NoRecord == [state |-> "none", ask |-> NoAsk, parent |-> 0, conv |-> 0,
             claimed |-> FALSE, contBy |-> 0]

Exists(r) == rec[r].state \in TaskStates
Created == {r \in Runs : rec[r].state # "none"}
Fresh == Cardinality(Created) + 1

\* Clients that may still create a run: the bound MaxRuns counts them.
Creating == {c \in Clients : pc[c] # "idle" /\ phase[c] # "status" /\ mine[c] = 0}
RoomForOne == Cardinality(Created) + Cardinality(Creating) < MaxRuns

Init ==
    /\ rec = [r \in Runs |-> NoRecord]
    /\ lock = Nobody
    /\ sup = [r \in Runs |-> "none"]
    /\ pc = [c \in Clients |-> "idle"]
    /\ phase = [c \in Clients |-> "none"]
    /\ req = [c \in Clients |-> NoRequest]
    /\ mine = [c \in Clients |-> 0]
    /\ todo = [c \in Clients |-> {}]
    /\ active = [c \in Clients |-> {}]
    /\ lostRun = [c \in Clients |-> 0]

GoTo(c, label) == pc' = [pc EXCEPT ![c] = label]
SetPhase(c, p) == phase' = [phase EXCEPT ![c] = p]
SetState(r, s) == rec' = [rec EXCEPT ![r].state = s]

\* The client's call returns or its process dies; flock goes with the process.
Leave(c) ==
    /\ lock' = IF lock = c THEN Nobody ELSE lock
    /\ GoTo(c, "idle")
    /\ SetPhase(c, "none")
    /\ req' = [req EXCEPT ![c] = NoRequest]
    /\ mine' = [mine EXCEPT ![c] = 0]
    /\ todo' = [todo EXCEPT ![c] = {}]
    /\ active' = [active EXCEPT ![c] = {}]
    /\ lostRun' = [lostRun EXCEPT ![c] = 0]

-----------------------------------------------------------------------------
(* Reconciliation, by status and list_runs and by start_task's own scans.  *)
(* A scan works on the records as it listed them.                          *)

Listed(rs) == {<<r, rec[r].state>> : r \in {q \in rs : Active(rec[q].state)}}

\* list_states sorts its list by created_at, newest first.
Newest(t, list) == \A u \in list : u[1] <= t[1]

Starting(r) == \E c \in Clients : mine[c] = r

\* The supervisor is dead, or never came and the record is ten seconds old.
Lost(r) == sup[r] = "gone" \/ (sup[r] = "none" /\ ~Starting(r))

Status(c) ==
    /\ pc[c] = "idle"
    /\ \E r \in Runs : Active(rec[r].state) /\ todo' = [todo EXCEPT ![c] = Listed({r})]
    /\ GoTo(c, "judge")
    /\ SetPhase(c, "status")
    /\ UNCHANGED <<rec, lock, sup, req, mine, active, lostRun>>

Judge(c) ==
    /\ pc[c] = "judge"
    /\ \E t \in todo[c] :
          /\ Newest(t, todo[c])
          /\ todo' = [todo EXCEPT ![c] = @ \ {t}]
          /\ \/ /\ Lost(t[1])
                /\ lostRun' = [lostRun EXCEPT ![c] = t[1]]
                /\ GoTo(c, "giveup")
                /\ UNCHANGED active
             \/ /\ Lost(t[1]) => t[2] # "RUNNING"
                /\ active' = IF phase[c] = "scan" THEN [active EXCEPT ![c] = @ \union {t[1]}]
                             ELSE active
                /\ UNCHANGED <<lostRun, pc>>
    /\ UNCHANGED <<rec, lock, sup, phase, req, mine>>

\* save_result raises RUN_NOT_FOUND when the run has been purged.
GiveUp(c) ==
    /\ pc[c] = "giveup"
    /\ IF Exists(lostRun[c])
       THEN /\ SetState(lostRun[c], "FAILED")
            /\ GoTo(c, "release")
            /\ UNCHANGED <<lock, locals>>
       ELSE Leave(c) /\ UNCHANGED rec
    /\ UNCHANGED sup

\* Mutant: a run that has used the session gives the tip back all the same.
HoldsAnyway(r) ==
    /\ rec[r].parent # 0
    /\ Exists(rec[r].parent)
    /\ rec[rec[r].parent].contBy = r

\* Run r never used its parent's session and is still named as its continuation.
Holds(r) ==
    /\ rec[r].parent # 0
    /\ ~rec[r].claimed
    /\ Exists(rec[r].parent)
    /\ rec[rec[r].parent].contBy = r

UnlinkParent(r) == rec' = [rec EXCEPT ![rec[r].parent].contBy = 0]

\* registry_locked: start_task's scans already hold the lock.
Locked(c) == phase[c] \in {"parent", "scan"}

AfterRelease(c) ==
    IF phase[c] = "start"
    THEN Leave(c)
    ELSE /\ lock' = IF Locked(c) THEN c ELSE Nobody
         /\ GoTo(c, "judge")
         /\ lostRun' = [lostRun EXCEPT ![c] = 0]
         /\ UNCHANGED <<phase, req, mine, todo, active>>

\* Mutant: the lock is taken although the caller's own scan holds it.
ReleaseRelock(c) ==
    /\ pc[c] = "release"
    /\ lock = Nobody
    /\ CASE ~Exists(lostRun[c]) -> Leave(c)
         [] Exists(lostRun[c]) /\ Holds(lostRun[c]) ->
              lock' = c /\ GoTo(c, "unlink") /\ UNCHANGED locals
         [] OTHER -> AfterRelease(c)
    /\ UNCHANGED <<rec, sup>>

Release(c) ==
    /\ pc[c] = "release"
    /\ lock = IF Locked(c) THEN c ELSE Nobody
    /\ CASE ~Exists(lostRun[c]) -> Leave(c)
         [] Exists(lostRun[c]) /\ Holds(lostRun[c]) ->
              lock' = c /\ GoTo(c, "unlink") /\ UNCHANGED locals
         [] OTHER -> AfterRelease(c)
    /\ UNCHANGED <<rec, sup>>

Unlink(c) ==
    /\ pc[c] = "unlink"
    /\ UnlinkParent(lostRun[c])
    /\ AfterRelease(c)
    /\ UNCHANGED sup

\* Every listed record has been judged.
Judged(c) == pc[c] = "judge" /\ todo[c] = {}

StatusDone(c) ==
    /\ Judged(c)
    /\ phase[c] = "status"
    /\ Leave(c)
    /\ UNCHANGED <<rec, sup>>

-----------------------------------------------------------------------------
(* start_task.                                                             *)

\* The parent is reconciled once before the lock is taken; a continuation
\* must ask for its parent's directory.
Begin(c) ==
    /\ pc[c] = "idle"
    /\ RoomForOne
    /\ \E q \in Requests :
          \/ /\ ~q.resume
             /\ req' = [req EXCEPT ![c] = [ask |-> q, parent |-> 0]]
             /\ UNCHANGED todo
          \/ \E r \in Runs :
                /\ q.resume
                /\ Exists(r)
                /\ q.cwd = rec[r].ask.cwd
                /\ req' = [req EXCEPT ![c] = [ask |-> q, parent |-> r]]
                /\ todo' = [todo EXCEPT ![c] = Listed({r})]
    /\ GoTo(c, "judge")
    /\ SetPhase(c, "before")
    /\ UNCHANGED <<rec, lock, sup, mine, active, lostRun>>

\* Permission or capability is denied before the lock is taken.
DenyEarly(c) ==
    /\ Judged(c)
    /\ phase[c] = "before"
    /\ GoTo(c, "reject")
    /\ UNCHANGED <<rec, lock, sup, locals>>

Lock(c) ==
    /\ Judged(c)
    /\ phase[c] = "before"
    /\ lock = Nobody
    /\ LET p == req[c].parent IN
       IF p # 0 /\ ~Exists(p)
       THEN Leave(c)
       ELSE /\ lock' = c
            /\ SetPhase(c, IF p = 0 THEN "scan" ELSE "parent")
            /\ todo' = [todo EXCEPT ![c] = Listed(IF p = 0 THEN Runs ELSE {p})]
            /\ UNCHANGED <<pc, req, mine, active, lostRun>>
    /\ UNCHANGED <<rec, sup>>

\* Mutant: a parent that has been continued may be continued again.
ProblemNoTip(p, q) ==
    \/ p.ask.agent # q.agent
    \/ q.agent \notin SessionAgents
    \/ ~Terminal(p.state)
    \/ p.state = "REJECTED"
    \/ ~(p.conv # 0 /\ p.claimed)

\* Mutant: a parent that is still running may be continued.
ProblemNoEnd(p, q) ==
    \/ p.ask.agent # q.agent
    \/ q.agent \notin SessionAgents
    \/ p.state = "REJECTED"
    \/ ~(p.conv # 0 /\ p.claimed)
    \/ p.contBy # 0

\* _continuation_problem, for the record of the parent and the request.
Problem(p, q) ==
    \/ p.ask.agent # q.agent
    \/ q.agent \notin SessionAgents
    \/ ~Terminal(p.state)
    \/ p.state = "REJECTED"
    \/ ~(p.conv # 0 /\ p.claimed)
    \/ p.contBy # 0

CheckParent(c) ==
    /\ Judged(c)
    /\ phase[c] = "parent"
    /\ IF Problem(rec[req[c].parent], req[c].ask)
       THEN GoTo(c, "reject") /\ UNCHANGED <<phase, todo>>
       ELSE /\ SetPhase(c, "scan")
            /\ todo' = [todo EXCEPT ![c] = Listed(Runs)]
            /\ UNCHANGED pc
    /\ UNCHANGED <<rec, lock, sup, req, mine, active, lostRun>>

\* Mutant: only the very same directory counts.
OverlapSame(d, e) == d = e

Overlap(d, e) == IsPrefix(d, e) \/ IsPrefix(e, d)

\* Mutant: one run too many.
FullLate(c) == Cardinality(active[c]) > MaxConcurrency

Full(c) == Cardinality(active[c]) >= MaxConcurrency

Busy(c) ==
    /\ req[c].ask.write
    /\ \E r \in active[c] : rec[r].ask.write /\ Overlap(req[c].ask.cwd, rec[r].ask.cwd)

Conversation(q) ==
    CASE q.parent # 0 -> rec[q.parent].conv
      [] q.parent = 0 /\ q.ask.agent \in SessionAgents -> Fresh
      [] OTHER -> 0

\* create_run's record.
Submit(c, conv) ==
    /\ rec' = [rec EXCEPT ![Fresh] =
                 [state |-> "SUBMITTED", ask |-> req[c].ask, parent |-> req[c].parent,
                  conv |-> conv, claimed |-> FALSE, contBy |-> 0]]
    /\ mine' = [mine EXCEPT ![c] = Fresh]

Admit(c) ==
    /\ Judged(c)
    /\ phase[c] = "scan"
    /\ IF Full(c) \/ Busy(c)
       THEN GoTo(c, "reject") /\ UNCHANGED <<rec, mine>>
       ELSE Submit(c, Conversation(req[c])) /\ GoTo(c, "link")
    /\ active' = [active EXCEPT ![c] = {}]
    /\ UNCHANGED <<lock, sup, phase, req, todo, lostRun>>

\* A rejected request leaves a record too, submitted for a moment.
Reject(c) ==
    /\ pc[c] = "reject"
    /\ Submit(c, IF req[c].parent = 0 THEN 0 ELSE rec[req[c].parent].conv)
    /\ GoTo(c, "rejected")
    /\ UNCHANGED <<lock, sup, phase, req, todo, active, lostRun>>

Rejected(c) ==
    /\ pc[c] = "rejected"
    /\ SetState(mine[c], "REJECTED")
    /\ Leave(c)
    /\ UNCHANGED sup

Link(c) ==
    /\ pc[c] = "link"
    /\ rec' = IF req[c].parent = 0 THEN rec
              ELSE [rec EXCEPT ![req[c].parent].contBy = mine[c]]
    /\ GoTo(c, "mark")
    /\ UNCHANGED <<lock, sup, locals>>

Mark(c) ==
    /\ pc[c] = "mark"
    /\ SetState(mine[c], "STARTING")
    /\ lock' = Nobody
    /\ GoTo(c, "launch")
    /\ SetPhase(c, "start")
    /\ UNCHANGED <<sup, req, mine, todo, active, lostRun>>

StartFailed(c) ==
    /\ lostRun' = [lostRun EXCEPT ![c] = mine[c]]
    /\ GoTo(c, "giveup")

Launch(c) ==
    /\ pc[c] = "launch"
    /\ \/ /\ sup' = [sup EXCEPT ![mine[c]] = "boot"]
          /\ GoTo(c, "handshake")
          /\ UNCHANGED lostRun
       \/ StartFailed(c) /\ UNCHANGED sup
    /\ UNCHANGED <<rec, lock, phase, req, mine, todo, active>>

Handshake(c) ==
    /\ pc[c] = "handshake"
    /\ \/ /\ rec[mine[c]].state \notin {"SUBMITTED", "STARTING"}
          /\ Leave(c)
       \/ /\ sup[mine[c]] = "gone"
          /\ StartFailed(c)
          /\ UNCHANGED <<lock, phase, req, mine, todo, active>>
    /\ UNCHANGED <<rec, sup>>

-----------------------------------------------------------------------------
(* purge, and a client's death.                                            *)

\* Mutant: the cutoff is taken from the wrong side.
PurgeNewer(c) ==
    /\ pc[c] = "idle"
    /\ lock = Nobody
    /\ \E k \in Created :
          todo' = [todo EXCEPT ![c] =
                     {<<r, rec[r].state>> :
                        r \in {q \in k .. MaxRuns : Terminal(rec[q].state)}}]
    /\ lock' = c
    /\ GoTo(c, "purge")
    /\ SetPhase(c, "status")
    /\ UNCHANGED <<rec, sup, req, mine, active, lostRun>>

\* The runs that are not active among those created before the cutoff, or
\* among all (--all).
Purge(c) ==
    /\ pc[c] = "idle"
    /\ lock = Nobody
    /\ \E k \in Created :
          todo' = [todo EXCEPT ![c] =
                     {<<r, rec[r].state>> : r \in {q \in 1 .. k : Terminal(rec[q].state)}}]
    /\ lock' = c
    /\ GoTo(c, "purge")
    /\ SetPhase(c, "status")
    /\ UNCHANGED <<rec, sup, req, mine, active, lostRun>>

\* Newest first.
RemoveRun(c) ==
    /\ pc[c] = "purge"
    /\ \/ /\ todo[c] = {}
          /\ Leave(c)
          /\ UNCHANGED rec
       \/ \E t \in todo[c] :
             /\ Newest(t, todo[c])
             /\ rec' = [rec EXCEPT ![t[1]] = [NoRecord EXCEPT !.state = "purged"]]
             /\ todo' = [todo EXCEPT ![c] = @ \ {t}]
             /\ UNCHANGED <<lock, pc, phase, req, mine, active, lostRun>>
    /\ UNCHANGED sup

CrashClient(c) ==
    /\ pc[c] # "idle"
    /\ (IF pc[c] = "purge" THEN "purger" ELSE "client") \in Crashable
    /\ Leave(c)
    /\ UNCHANGED <<rec, sup>>

-----------------------------------------------------------------------------
(* The supervisor of run r, none of whose updates takes the registry lock. *)

SupGoTo(r, s) == sup' = [sup EXCEPT ![r] = s]

HasSession(r) == rec[r].ask.agent \in SessionAgents

SupRun(r) ==
    /\ sup[r] = "boot"
    /\ \/ /\ \E b \in BOOLEAN :
                /\ b => HasSession(r)
                /\ HasSession(r) /\ rec[r].parent # 0 => b
                /\ rec' = [rec EXCEPT ![r].state = "RUNNING", ![r].claimed = b]
          /\ SupGoTo(r, "running")
       \/ SetState(r, "FAILED") /\ SupGoTo(r, "release")
    /\ UNCHANGED <<lock, pc, locals>>

\* The worker has exited. Its output may not say which session it used; if it
\* does, a continued run may turn out to have used another than its parent's.
SupClaim(r) ==
    /\ sup[r] = "running"
    /\ \/ UNCHANGED rec
       \/ HasSession(r) /\ rec' = [rec EXCEPT ![r].claimed = TRUE]
       \/ rec[r].parent # 0 /\ rec' = [rec EXCEPT ![r].claimed = FALSE]
    /\ SupGoTo(r, "ending")
    /\ UNCHANGED <<lock, pc, locals>>

SupEnd(r) ==
    /\ sup[r] = "ending"
    /\ \/ /\ rec[r].claimed = HasSession(r)
          /\ SetState(r, "COMPLETED")
          /\ SupGoTo(r, "gone")
       \/ SetState(r, "FAILED") /\ SupGoTo(r, "release")
    /\ UNCHANGED <<lock, pc, locals>>

SupRelease(r) ==
    /\ sup[r] = "release"
    /\ lock = Nobody
    /\ IF Exists(r) /\ Holds(r)
       THEN lock' = r /\ SupGoTo(r, "unlink")
       ELSE SupGoTo(r, "gone") /\ UNCHANGED lock
    /\ UNCHANGED <<rec, pc, locals>>

SupUnlink(r) ==
    /\ sup[r] = "unlink"
    /\ UnlinkParent(r)
    /\ lock' = Nobody
    /\ SupGoTo(r, "gone")
    /\ UNCHANGED <<pc, locals>>

KillSup(r) ==
    /\ "supervisor" \in Crashable
    /\ sup[r] \notin {"none", "gone"}
    /\ SupGoTo(r, "gone")
    /\ lock' = IF lock = r THEN Nobody ELSE lock
    /\ UNCHANGED <<rec, pc, locals>>

-----------------------------------------------------------------------------
ClientStep(c) ==
    \/ Judge(c)
    \/ GiveUp(c)
    \/ Release(c)
    \/ Unlink(c)
    \/ StatusDone(c)
    \/ DenyEarly(c)
    \/ Lock(c)
    \/ CheckParent(c)
    \/ Admit(c)
    \/ Reject(c)
    \/ Rejected(c)
    \/ Link(c)
    \/ Mark(c)
    \/ Launch(c)
    \/ Handshake(c)
    \/ RemoveRun(c)

Call(c) ==
    \/ "status" \in Commands /\ Status(c)
    \/ "start" \in Commands /\ Begin(c)
    \/ "purge" \in Commands /\ Purge(c)

SupervisorStep(r) == SupRun(r) \/ SupClaim(r) \/ SupEnd(r) \/ SupRelease(r) \/ SupUnlink(r)

Next ==
    \/ \E c \in Clients : Call(c) \/ ClientStep(c) \/ CrashClient(c)
    \/ \E r \in Runs : SupervisorStep(r) \/ KillSup(r)

Spec == Init /\ [][Next]_vars

\* Whoever is in the middle of a call goes on, and so does a supervisor.
FairSpec ==
    /\ Spec
    /\ \A c \in Clients : WF_vars(ClientStep(c))
    /\ \A r \in Runs : WF_vars(SupervisorStep(r))

-----------------------------------------------------------------------------
(* What should be true.                                                    *)

Record ==
    [state : TaskStates \union {"none", "purged"}, ask : Request, parent : 0 .. MaxRuns,
     conv : 0 .. MaxRuns, claimed : BOOLEAN, contBy : 0 .. MaxRuns]
Labels ==
    {"idle", "judge", "giveup", "release", "unlink", "reject", "rejected", "link", "mark",
     "launch", "handshake", "purge"}

\* Every variable has its type; no record is left with an unknown state.
TypeOK ==
    /\ rec \in [Runs -> Record]
    /\ lock \in Clients \union Runs \union {Nobody}
    /\ sup \in [Runs -> {"none", "boot", "running", "ending", "release", "unlink", "gone"}]
    /\ pc \in [Clients -> Labels]
    /\ phase \in [Clients -> {"none", "status", "before", "parent", "scan", "start"}]
    /\ req \in [Clients -> [ask : Request, parent : 0 .. MaxRuns]]
    /\ mine \in [Clients -> 0 .. MaxRuns]
    /\ todo \in [Clients -> SUBSET (Runs \X TaskStates)]
    /\ active \in [Clients -> SUBSET Runs]
    /\ lostRun \in [Clients -> 0 .. MaxRuns]

Admitted(r) == rec[r].state \in {"STARTING", "RUNNING"}

\* Never more admitted runs than policy.max_concurrency, although supervisors
\* end their runs, and lost runs are given up, while a scan counts.
Capacity == Cardinality({r \in Runs : Admitted(r)}) <= MaxConcurrency

\* Two write-capable runs whose directories overlap are never both admitted.
WorkspaceExclusive ==
    \A r, s \in Runs :
        /\ r # s
        /\ Admitted(r) /\ Admitted(s)
        /\ rec[r].ask.write /\ rec[s].ask.write
        => ~IsPrefix(rec[r].ask.cwd, rec[s].ask.cwd)

\* A run that used its parent's session is the one its parent names, whatever
\* was given up, given back, purged or killed on the way.
LinearConversation ==
    \A r \in Runs :
        rec[r].claimed /\ rec[r].parent # 0 /\ Exists(rec[r].parent)
            => rec[rec[r].parent].contBy = r

Tip(r) == Exists(r) /\ Resumable(rec[r].conv # 0, rec[r].claimed, rec[r].state, rec[r].contBy = 0)

\* A conversation has at most one run that can be continued.
OneTip == \A r, s \in Runs : Tip(r) /\ Tip(s) /\ rec[r].conv = rec[s].conv => r = s

\* At most one live supervisor at a time works for a conversation. Of workers this
\* says nothing: one that outlives its killed supervisor is seen by nobody here.
OneSupervisor ==
    \A r, s \in Runs :
        /\ sup[r] \in {"boot", "running", "ending"} /\ sup[s] \in {"boot", "running", "ending"}
        /\ rec[r].conv # 0 /\ rec[r].conv = rec[s].conv
        => r = s

\* When nobody is at work on the registry, no kept run waits for a
\* continuation that purge has removed.
NoDanglingTip ==
    lock = Nobody => \A r \in Runs : rec[r].contBy # 0 => Exists(rec[r].contBy)

\* A run's supervisor is at work on the conversation's session or may still come to be.
Attached(r) ==
    \/ sup[r] \in {"boot", "running", "ending"}
    \/ \E c \in Clients : mine[c] = r /\ pc[c] \in {"mark", "launch"}
User(r) == rec[r].claimed \/ Attached(r)

\* Where a request may write: in its directory and below it.
Area(q) == IF q.write THEN {d \in Dirs : IsPrefix(q.cwd, d)} ELSE {}

\* The runs as Ledger describes them.
Book == INSTANCE Ledger WITH
    Limit <- MaxConcurrency,
    Places <- Dirs,
    entry <- [r \in Runs |-> [talk |-> rec[r].conv, from |-> rec[r].parent, area |-> Area(rec[r].ask)]],
    users <- {r \in Runs : User(r)},
    working <- {r \in Runs : Attached(r)},
    admitted <- {r \in Runs : Admitted(r)}

\* Every step of the registry is one of the ledger or changes nothing there:
\* a run joins a conversation only behind its last member, when nobody of it is
\* at work and whatever was given up, crashed or purged; it counts as admitted
\* only if there is room for it, and leaves the line only as the one at work.
ImplementsLedger == Book!Spec

\* Whoever holds the registry lock lets go of it.
LockReturns == \A a \in Clients \union Runs : lock = a ~> lock # a
==============================================================================
