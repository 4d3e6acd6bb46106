---------------------- MODULE RegistryProofs -------------------------
(***************************************************************************)
(* Theorems about Registry, for any clients and requests, any number of    *)
(* runs, any limit, and whoever may be killed. Base says who is where and  *)
(* is inductive by itself; CountInv (capacity and workspaces) and ConvInv  *)
(* (conversations) are inductive on top of it; TipInv (continuations that  *)
(* are purged) is inductive on top of both while no purge is killed.       *)
(***************************************************************************)
EXTENDS Registry, FiniteSetTheorems, TLAPS

-----------------------------------------------------------------------------
(* The inductive invariant.                                                *)

\* Runs are numbered as they are created, and whoever may still create one has
\* room for it.
RoomInv ==
    /\ \E n \in 0 .. MaxRuns : Created = 1 .. n
    /\ Cardinality(Created) + Cardinality(Creating) <= MaxRuns

\* The client gives a run up; it has created a run and not yet left it.
GivingUp(c) == pc[c] \in {"giveup", "release", "unlink"}
Owning(c) == pc[c] \in {"rejected", "link", "mark", "launch", "handshake"} \/ phase[c] = "start"

\* What a client is doing says for which part of its call, whether it has the
\* lock, and whether it has created its run.
PlaceInv(c) ==
    /\ pc[c] = "idle" => phase[c] = "none"
    /\ pc[c] = "judge" => phase[c] \in {"status", "before", "parent", "scan"}
    /\ GivingUp(c) => phase[c] # "none" /\ lostRun[c] \in Created
    /\ pc[c] \in {"reject", "rejected"} => phase[c] \in {"before", "parent", "scan"}
    /\ pc[c] \in {"link", "mark"} => phase[c] = "scan"
    /\ pc[c] \in {"launch", "handshake"} => phase[c] = "start"
    /\ pc[c] = "purge" => phase[c] = "status"
    /\ Locked(c) \/ pc[c] \in {"unlink", "purge"} => lock = c
    /\ IF Owning(c) THEN mine[c] \in Created ELSE mine[c] = 0
    /\ GivingUp(c) /\ phase[c] = "start" => lostRun[c] = mine[c]
    /\ \A t \in todo[c] : t[1] \in Created
    /\ phase[c] \in {"parent"} => req[c].parent \in Created

\* Each run has one starter, and the record is as that one left it.
StarterInv(c) ==
    /\ \A d \in Clients : mine[d] = mine[c] /\ mine[c] # 0 => d = c
    /\ pc[c] \in {"rejected", "link", "mark"} => rec[mine[c]].state = "SUBMITTED"
    /\ pc[c] = "launch" => rec[mine[c]].state = "STARTING"
    /\ pc[c] \in {"rejected", "link", "mark", "launch"} => sup[mine[c]] = "none" /\ ~rec[mine[c]].claimed
    /\ pc[c] = "handshake" => sup[mine[c]] # "none"

\* A run that is being given up has no supervisor and will have none.
LostInv(c) ==
    GivingUp(c) =>
        \/ sup[lostRun[c]] = "gone"
        \/ sup[lostRun[c]] = "none" /\ \A d \in Clients : mine[d] = lostRun[c] => d = c

\* Only its own supervisor moves a run that has one.
RunInv(r) ==
    /\ sup[r] # "none" => r \in Created
    /\ sup[r] = "boot" => rec[r].state = "STARTING"
    /\ sup[r] \in {"running", "ending"} => rec[r].state = "RUNNING"
    /\ sup[r] = "none" => ~rec[r].claimed
    /\ sup[r] = "unlink" => lock = r

\* Only a run that was terminal is about to be removed, and it still is.
PurgeInv(c) ==
    pc[c] = "purge" => \A t \in todo[c] : ~Active(rec[t[1]].state)

-----------------------------------------------------------------------------
(* The invariant of capacity and workspaces.                               *)

AdmittedRuns == {r \in Runs : Admitted(r)}

\* A scan misses no admitted run: it has counted it, or will, or gives it up.
ScanInv(c) ==
    phase[c] = "scan" /\ (pc[c] = "judge" \/ GivingUp(c)) =>
        \A r \in AdmittedRuns :
            \/ r \in active[c]
            \/ \E t \in todo[c] : t[1] = r
            \/ pc[c] = "giveup" /\ lostRun[c] = r

\* Two requests may work at the same time.
Apart(q, p) == q.write /\ p.write => ~Overlap(q.cwd, p.cwd)

\* What an admission found is true until the run counts as admitted.
AdmitInv(c) ==
    pc[c] \in {"link", "mark"} =>
        /\ Cardinality(AdmittedRuns) < MaxConcurrency
        /\ rec[mine[c]].ask = req[c].ask
        /\ \A r \in AdmittedRuns : Apart(req[c].ask, rec[r].ask)

\* Admitted writers work apart from every other admitted writer.
WritersInv ==
    \A r, s \in AdmittedRuns : r # s => Apart(rec[r].ask, rec[s].ask)

-----------------------------------------------------------------------------
\* The last run of a conversation that used it, if what followed did not.
Latest(r) ==
    /\ User(r)
    /\ rec[r].contBy # 0 => Exists(rec[r].contBy) /\ ~User(rec[r].contBy)

\* What was never created, or was purged, has no part in a conversation.
BlankInv ==
    \A r \in Runs :
        /\ rec[r].state = "none" => rec[r] = NoRecord
        /\ rec[r].state = "purged" => rec[r].contBy = 0 /\ ~rec[r].claimed

\* Runs name created runs, and a continuation names its parent.
NamesInv ==
    \A r \in Runs :
        /\ rec[r].conv # 0 => rec[r].conv \in Created
        /\ rec[r].parent # 0 => rec[r].parent \in Created
        /\ rec[r].contBy # 0 =>
             /\ rec[r].contBy \in Created
             /\ Exists(rec[r].contBy) =>
                  rec[rec[r].contBy].parent = r /\ rec[rec[r].contBy].conv = rec[r].conv

\* A run at work is not continued yet, and a run that used its parent's session
\* is the one its parent names.
UserInv ==
    \A r \in Runs :
        /\ Attached(r) => rec[r].contBy = 0
        /\ User(r) /\ rec[r].parent # 0 /\ Exists(rec[r].parent) => rec[rec[r].parent].contBy = r

\* A conversation has one latest user.
LatestInv ==
    \A r, s \in Runs : Latest(r) /\ Latest(s) /\ rec[r].conv = rec[s].conv /\ rec[r].conv # 0 => r = s

LinkInv == BlankInv /\ NamesInv /\ UserInv /\ LatestInv

\* A client asks for the continuation of a run there is.
RequestInv(c) == req[c].parent # 0 => req[c].parent \in Created

\* The parent that was tested is as it was until the link is made.
TestedInv(c) ==
    phase[c] = "scan" /\ req[c].parent # 0 /\ (pc[c] \in {"judge", "link"} \/ GivingUp(c)) =>
        LET p == rec[req[c].parent] IN
        Terminal(p.state) /\ p.claimed /\ p.contBy = 0 /\ p.conv # 0

\* The new run goes on with its parent's conversation or begins one.
BegunInv(c) ==
    pc[c] = "link" =>
        LET n == rec[mine[c]] IN
        /\ n.parent = req[c].parent /\ n.contBy = 0
        /\ req[c].parent # 0 => n.conv = rec[req[c].parent].conv
        /\ req[c].parent = 0 => \A s \in Runs : User(s) /\ rec[s].conv = n.conv => n.conv = 0

\* Who is about to give a tip back still may.
ReturnInv(c) == pc[c] = "unlink" => Exists(lostRun[c]) /\ Holds(lostRun[c])
UnlinkInv(r) == sup[r] = "unlink" => Exists(r) /\ Holds(r)

\* What holds of every client.
ClientInv == \A c \in Clients : PlaceInv(c) /\ StarterInv(c) /\ LostInv(c) /\ PurgeInv(c)

\* Who is where. It is inductive by itself, and the other two parts rest on it.
Base == TypeOK /\ RoomInv /\ ClientInv /\ \A r \in Runs : RunInv(r)

\* Capacity and workspaces.
CountInv ==
    /\ \A c \in Clients : ScanInv(c) /\ AdmitInv(c)
    /\ WritersInv
    /\ Capacity

\* Conversations.
ConvInv ==
    /\ LinkInv
    /\ \A c \in Clients : RequestInv(c) /\ TestedInv(c) /\ BegunInv(c) /\ ReturnInv(c)
    /\ \A r \in Runs : UnlinkInv(r)

-----------------------------------------------------------------------------
(* Types.                                                                  *)

LEMMA Types ==
    /\ NoAsk \in Request /\ Nobody = 0 /\ 0 \in 0 .. MaxRuns
    /\ Requests \subseteq Request
    /\ \A r \in Runs : r \in Nat /\ r \in 1 .. MaxRuns /\ r \in 0 .. MaxRuns /\ r # 0
    /\ \A r \in 0 .. MaxRuns : r # 0 => r \in Runs
    /\ NoRecord \in Record
    /\ \A c \in Clients : c \notin Runs /\ c # Nobody
BY RequestsAssumption, LimitAssumption, ClientsAssumption
DEF NoAsk, Request, Dirs, Nobody, Runs, NoRecord, Record

\* The variables of the clients.
LocalsOK ==
    /\ pc \in [Clients -> Labels]
    /\ phase \in [Clients -> {"none", "status", "before", "parent", "scan", "start"}]
    /\ req \in [Clients -> [ask : Request, parent : 0 .. MaxRuns]]
    /\ mine \in [Clients -> 0 .. MaxRuns]
    /\ todo \in [Clients -> SUBSET (Runs \X TaskStates)]
    /\ active \in [Clients -> SUBSET Runs]
    /\ lostRun \in [Clients -> 0 .. MaxRuns]

LEMMA LeaveKeeps ==
    ASSUME TypeOK, NEW c \in Clients, Leave(c)
    PROVE  LocalsOK' /\ lock' \in Clients \union Runs \union {Nobody}
<1> USE Types DEF TypeOK, Leave
<1>1. pc' \in [Clients -> Labels]
    BY DEF GoTo, Labels
<1>2. phase' \in [Clients -> {"none", "status", "before", "parent", "scan", "start"}]
    BY DEF SetPhase
<1>3. req' \in [Clients -> [ask : Request, parent : 0 .. MaxRuns]]
    BY DEF NoRequest
<1>4. mine' \in [Clients -> 0 .. MaxRuns] /\ lostRun' \in [Clients -> 0 .. MaxRuns]
    OBVIOUS
<1>5. todo' \in [Clients -> SUBSET (Runs \X TaskStates)] /\ active' \in [Clients -> SUBSET Runs]
    OBVIOUS
<1> QED BY <1>1, <1>2, <1>3, <1>4, <1>5 DEF LocalsOK

LEMMA AfterReleaseKeeps ==
    ASSUME TypeOK, NEW c \in Clients, AfterRelease(c)
    PROVE  LocalsOK' /\ lock' \in Clients \union Runs \union {Nobody}
<1>1. CASE phase[c] = "start"
    BY <1>1, LeaveKeeps DEF AfterRelease
<1>2. CASE phase[c] # "start"
  <2>1. pc' \in [Clients -> Labels] /\ lostRun' \in [Clients -> 0 .. MaxRuns]
      BY <1>2, Types DEF AfterRelease, TypeOK, GoTo, Labels
  <2>2. lock' \in Clients \union Runs \union {Nobody}
      BY <1>2 DEF AfterRelease
  <2> QED BY <1>2, <2>1, <2>2 DEF AfterRelease, LocalsOK, TypeOK
<1> QED BY <1>1, <1>2

LEMMA ListedType ==
    ASSUME TypeOK, NEW rs \in SUBSET Runs
    PROVE  Listed(rs) \in SUBSET (Runs \X TaskStates)
BY DEF Listed, TypeOK, Active, ActiveStates, TaskStates

\* What the changes of a record leave of its type.
LEMMA RecordType ==
    ASSUME NEW old \in Record
    PROVE  /\ \A s \in TaskStates : [old EXCEPT !.state = s] \in Record
           /\ \A n \in 0 .. MaxRuns : [old EXCEPT !.contBy = n] \in Record
           /\ \A b \in BOOLEAN : [old EXCEPT !.claimed = b] \in Record
           /\ \A s \in TaskStates, b \in BOOLEAN :
                 [old EXCEPT !.state = s, !.claimed = b] \in Record
<1>1. \A s \in TaskStates : [old EXCEPT !.state = s] \in Record
    BY DEF Record
<1>2. \A n \in 0 .. MaxRuns : [old EXCEPT !.contBy = n] \in Record
    BY DEF Record
<1>3. \A new \in Record, b \in BOOLEAN : [new EXCEPT !.claimed = b] \in Record
    BY DEF Record
<1>4. \A s \in TaskStates, b \in BOOLEAN :
        [old EXCEPT !.state = s, !.claimed = b] = [[old EXCEPT !.state = s] EXCEPT !.claimed = b]
    OBVIOUS
<1> QED BY <1>1, <1>2, <1>3, <1>4

LEMMA StateType ==
    ASSUME TypeOK, NEW r, NEW s \in TaskStates, SetState(r, s)
    PROVE  rec' \in [Runs -> Record]
<1>1. r \in Runs => [rec[r] EXCEPT !.state = s] \in Record
    BY RecordType DEF TypeOK
<1>2. rec' = [rec EXCEPT ![r] = [rec[r] EXCEPT !.state = s]]
    BY DEF SetState
<1> QED BY <1>1, <1>2 DEF TypeOK

LEMMA ClaimType ==
    ASSUME TypeOK, NEW r, NEW s \in TaskStates, NEW b \in BOOLEAN,
           rec' = [rec EXCEPT ![r].state = s, ![r].claimed = b]
    PROVE  rec' \in [Runs -> Record]
<1>1. r \in Runs => [rec[r] EXCEPT !.state = s, !.claimed = b] \in Record
    BY RecordType DEF TypeOK
<1>2. rec' = [rec EXCEPT ![r] = [rec[r] EXCEPT !.state = s, !.claimed = b]]
    BY DEF TypeOK
<1> QED BY <1>1, <1>2 DEF TypeOK

LEMMA LinkType ==
    ASSUME TypeOK, NEW p, NEW r \in 0 .. MaxRuns, rec' = [rec EXCEPT ![p].contBy = r]
    PROVE  rec' \in [Runs -> Record]
<1>1. p \in Runs => [rec[p] EXCEPT !.contBy = r] \in Record
    BY RecordType DEF TypeOK
<1> QED BY <1>1 DEF TypeOK

LEMMA SubmitType ==
    ASSUME TypeOK, NEW c \in Clients, NEW conv \in 0 .. MaxRuns, Submit(c, conv), Fresh \in Runs
    PROVE  rec' \in [Runs -> Record] /\ mine' \in [Clients -> 0 .. MaxRuns]
<1>1. [state |-> "SUBMITTED", ask |-> req[c].ask, parent |-> req[c].parent,
       conv |-> conv, claimed |-> FALSE, contBy |-> 0] \in Record
    BY Types DEF TypeOK, Record, TaskStates, ActiveStates
<1> QED BY <1>1, Types DEF TypeOK, Submit

\* Every step keeps the types; a run is created only if there is room.
LEMMA TypeKeeps ==
    ASSUME TypeOK, Next,
           \A c \in Clients : PlaceInv(c) /\ (c \in Creating => Fresh \in Runs)
    PROVE  TypeOK'
<1> USE Types
<1>1. ASSUME NEW c \in Clients, Status(c) PROVE TypeOK'
  <2>1. todo' \in [Clients -> SUBSET (Runs \X TaskStates)]
      BY <1>1, ListedType DEF Status, TypeOK
  <2> QED BY <1>1, <2>1 DEF Status, TypeOK, GoTo, SetPhase, Labels
<1>2. ASSUME NEW c \in Clients, Begin(c) PROVE TypeOK'
  <2>0. PICK q \in Request :
          \/ req' = [req EXCEPT ![c] = [ask |-> q, parent |-> 0]] /\ UNCHANGED todo
          \/ \E r \in Runs : /\ req' = [req EXCEPT ![c] = [ask |-> q, parent |-> r]]
                            /\ todo' = [todo EXCEPT ![c] = Listed({r})]
      BY <1>2 DEF Begin
  <2>1. PICK p \in 0 .. MaxRuns :
             /\ req' = [req EXCEPT ![c] = [ask |-> q, parent |-> p]]
             /\ UNCHANGED todo \/ (p \in Runs /\ todo' = [todo EXCEPT ![c] = Listed({p})])
    <3>1. CASE req' = [req EXCEPT ![c] = [ask |-> q, parent |-> 0]] /\ UNCHANGED todo
      <4> WITNESS 0 \in 0 .. MaxRuns
      <4> QED BY <3>1
    <3>2. ASSUME NEW r \in Runs, req' = [req EXCEPT ![c] = [ask |-> q, parent |-> r]],
                 todo' = [todo EXCEPT ![c] = Listed({r})]
          PROVE  \E p \in 0 .. MaxRuns :
                   /\ req' = [req EXCEPT ![c] = [ask |-> q, parent |-> p]]
                   /\ UNCHANGED todo \/ (p \in Runs /\ todo' = [todo EXCEPT ![c] = Listed({p})])
        BY <3>2
    <3> QED BY <2>0, <3>1, <3>2
  <2>2. req' \in [Clients -> [ask : Request, parent : 0 .. MaxRuns]]
      BY <2>1 DEF TypeOK
  <2>3. p \in Runs => Listed({p}) \in SUBSET (Runs \X TaskStates)
      BY ListedType
  <2>4. todo' \in [Clients -> SUBSET (Runs \X TaskStates)]
    <3>1. CASE UNCHANGED todo
        BY <3>1 DEF TypeOK
    <3>2. CASE p \in Runs /\ todo' = [todo EXCEPT ![c] = Listed({p})]
        BY <2>3, <3>2 DEF TypeOK
    <3> QED BY <2>1, <3>1, <3>2
  <2> QED BY <1>2, <2>2, <2>4 DEF Begin, TypeOK, GoTo, SetPhase, Labels
<1>3. ASSUME NEW c \in Clients, Purge(c) PROVE TypeOK'
  <2>1. todo' \in [Clients -> SUBSET (Runs \X TaskStates)]
    <3>1. PICK k \in Created : todo' = [todo EXCEPT ![c] =
             {<<r, rec[r].state>> : r \in {q \in 1 .. k : Terminal(rec[q].state)}}]
        BY <1>3 DEF Purge
    <3>2. 1 .. k \subseteq Runs
        BY LimitAssumption DEF Created, Runs
    <3>3. {<<r, rec[r].state>> : r \in {q \in 1 .. k : Terminal(rec[q].state)}}
            \in SUBSET (Runs \X TaskStates)
        BY <3>2 DEF TypeOK, Terminal, TaskStates
    <3> QED BY <3>1, <3>3 DEF TypeOK
  <2> QED BY <1>3, <2>1 DEF Purge, TypeOK, GoTo, SetPhase, Labels
<1>4. ASSUME NEW c \in Clients, Judge(c) PROVE TypeOK'
  <2>1. PICK t \in todo[c] :
             /\ todo' = [todo EXCEPT ![c] = @ \ {t}]
             /\ \/ /\ lostRun' = [lostRun EXCEPT ![c] = t[1]]
                   /\ GoTo(c, "giveup")
                   /\ UNCHANGED active
                \/ /\ active' = IF phase[c] = "scan" THEN [active EXCEPT ![c] = @ \union {t[1]}]
                                 ELSE active
                   /\ UNCHANGED <<lostRun, pc>>
      BY <1>4 DEF Judge
  <2>2. t[1] \in Runs
      BY DEF TypeOK
  <2>3. UNCHANGED <<rec, lock, sup, phase, req, mine>>
      BY <1>4 DEF Judge
  <2>4. todo' \in [Clients -> SUBSET (Runs \X TaskStates)]
      BY <2>1 DEF TypeOK
  <2>5. lostRun' \in [Clients -> 0 .. MaxRuns]
      BY <2>1, <2>2 DEF TypeOK
  <2>7. active' \in [Clients -> SUBSET Runs]
    <3>1. active \in [Clients -> SUBSET Runs] /\ active[c] \union {t[1]} \in SUBSET Runs
        BY <2>2 DEF TypeOK
    <3>2. [active EXCEPT ![c] = @ \union {t[1]}] \in [Clients -> SUBSET Runs]
        BY <3>1
    <3>3. active' \in {active, [active EXCEPT ![c] = @ \union {t[1]}]}
        BY <2>1
    <3> QED BY <3>1, <3>2, <3>3
  <2>6. pc' \in [Clients -> Labels]
      BY <2>1 DEF TypeOK, GoTo, Labels
  <2> QED BY <2>3, <2>4, <2>5, <2>6, <2>7 DEF TypeOK
<1>5. ASSUME NEW c \in Clients, GiveUp(c) PROVE TypeOK'
  <2>1. CASE Exists(lostRun[c])
    <3>1. rec' \in [Runs -> Record]
        BY <1>5, <2>1, StateType DEF GiveUp, TaskStates, TerminalStates
    <3>2. pc' \in [Clients -> Labels] /\ UNCHANGED <<lock, locals, sup>>
        BY <1>5, <2>1 DEF GiveUp, GoTo, TypeOK, Labels
    <3> QED BY <3>1, <3>2 DEF TypeOK, locals
  <2>2. CASE ~Exists(lostRun[c])
      BY <1>5, <2>2, LeaveKeeps DEF GiveUp, TypeOK, LocalsOK
  <2> QED BY <2>1, <2>2
<1>6. ASSUME NEW c \in Clients, Release(c) PROVE TypeOK'
  <2>1. CASE Leave(c) \/ AfterRelease(c)
      BY <1>6, <2>1, LeaveKeeps, AfterReleaseKeeps DEF Release, TypeOK, LocalsOK
  <2>2. CASE lock' = c /\ GoTo(c, "unlink") /\ UNCHANGED locals
      BY <1>6, <2>2 DEF Release, TypeOK, GoTo, Labels, locals
  <2> QED BY <1>6, <2>1, <2>2 DEF Release
<1>7. ASSUME NEW c \in Clients, Unlink(c) PROVE TypeOK'
  <2>1. rec' \in [Runs -> Record]
      BY <1>7, LinkType DEF Unlink, UnlinkParent
  <2> QED BY <1>7, <2>1, AfterReleaseKeeps DEF Unlink, TypeOK, LocalsOK
<1>8. ASSUME NEW c \in Clients, StatusDone(c) PROVE TypeOK'
    BY <1>8, LeaveKeeps DEF StatusDone, TypeOK, LocalsOK
<1>9. ASSUME NEW c \in Clients, DenyEarly(c) PROVE TypeOK'
    BY <1>9 DEF DenyEarly, TypeOK, GoTo, Labels, locals
<1>10. ASSUME NEW c \in Clients, Lock(c) PROVE TypeOK'
  <2>1. CASE Leave(c)
      BY <1>10, <2>1, LeaveKeeps DEF Lock, TypeOK, LocalsOK
  <2>2. CASE /\ lock' = c
             /\ SetPhase(c, IF req[c].parent = 0 THEN "scan" ELSE "parent")
             /\ todo' = [todo EXCEPT ![c] = Listed(IF req[c].parent = 0 THEN Runs ELSE {req[c].parent})]
             /\ UNCHANGED <<pc, req, mine, active, lostRun>>
    <3>1. todo' \in [Clients -> SUBSET (Runs \X TaskStates)]
        BY <2>2, ListedType DEF TypeOK
    <3> QED BY <1>10, <2>2, <3>1 DEF Lock, TypeOK, SetPhase
  <2> QED BY <1>10, <2>1, <2>2 DEF Lock
<1>11. ASSUME NEW c \in Clients, CheckParent(c) PROVE TypeOK'
  <2>1. todo' \in [Clients -> SUBSET (Runs \X TaskStates)]
    <3>1. Listed(Runs) \in SUBSET (Runs \X TaskStates)
        BY ListedType
    <3>2. todo' \in {todo, [todo EXCEPT ![c] = Listed(Runs)]}
        BY <1>11 DEF CheckParent
    <3> QED BY <3>1, <3>2 DEF TypeOK
  <2>2. pc' \in [Clients -> Labels]
           /\ phase' \in [Clients -> {"none", "status", "before", "parent", "scan", "start"}]
    <3>1. pc' \in {pc, [pc EXCEPT ![c] = "reject"]}
        BY <1>11 DEF CheckParent, GoTo
    <3>2. phase' \in {phase, [phase EXCEPT ![c] = "scan"]}
        BY <1>11 DEF CheckParent, SetPhase
    <3> QED BY <3>1, <3>2 DEF TypeOK, Labels
  <2> QED BY <1>11, <2>1, <2>2 DEF CheckParent, TypeOK
<1>12. ASSUME NEW c \in Clients, Admit(c) PROVE TypeOK'
  <2>1. CASE GoTo(c, "reject") /\ UNCHANGED <<rec, mine>>
      BY <1>12, <2>1 DEF Admit, TypeOK, GoTo, Labels
  <2>2. CASE Submit(c, Conversation(req[c])) /\ GoTo(c, "link")
    <3>1. Fresh \in Runs
        BY <1>12 DEF Admit, Judged, PlaceInv, Creating, Owning
    <3>2. Conversation(req[c]) \in 0 .. MaxRuns
        BY <3>1 DEF Conversation, TypeOK, Record
    <3>3. rec' \in [Runs -> Record] /\ mine' \in [Clients -> 0 .. MaxRuns]
        BY <2>2, <3>1, <3>2, SubmitType
    <3>4. pc' \in [Clients -> Labels]
        BY <2>2 DEF TypeOK, GoTo, Labels
    <3> QED BY <1>12, <3>3, <3>4 DEF Admit, TypeOK
  <2> QED BY <1>12, <2>1, <2>2 DEF Admit
<1>13. ASSUME NEW c \in Clients, Reject(c) PROVE TypeOK'
  <2>1. Fresh \in Runs
      BY <1>13 DEF Reject, PlaceInv, Creating, Owning
  <2>2. PICK conv \in 0 .. MaxRuns : Submit(c, conv)
      BY <1>13 DEF Reject, TypeOK, Record
  <2>3. rec' \in [Runs -> Record] /\ mine' \in [Clients -> 0 .. MaxRuns]
      BY <2>1, <2>2, SubmitType
  <2>4. pc' \in [Clients -> Labels]
      BY <1>13 DEF Reject, TypeOK, GoTo, Labels
  <2> QED BY <1>13, <2>3, <2>4 DEF Reject, TypeOK
<1>14. ASSUME NEW c \in Clients, Rejected(c) PROVE TypeOK'
  <2>1. rec' \in [Runs -> Record]
      BY <1>14, StateType DEF Rejected, TaskStates, TerminalStates
  <2> QED BY <1>14, <2>1, LeaveKeeps DEF Rejected, TypeOK, LocalsOK
<1>15. ASSUME NEW c \in Clients, Link(c) PROVE TypeOK'
  <2>1. rec' \in [Runs -> Record]
      BY <1>15, LinkType DEF Link, TypeOK
  <2> QED BY <1>15, <2>1 DEF Link, TypeOK, GoTo, Labels, locals
<1>16. ASSUME NEW c \in Clients, Mark(c) PROVE TypeOK'
  <2>1. rec' \in [Runs -> Record]
      BY <1>16, StateType DEF Mark, TaskStates, ActiveStates
  <2> QED BY <1>16, <2>1 DEF Mark, TypeOK, GoTo, SetPhase, Labels
<1>17. ASSUME NEW c \in Clients, Launch(c) PROVE TypeOK'
  <2>1. sup' \in [Runs -> {"none", "boot", "running", "ending", "release", "unlink", "gone"}]
      BY <1>17 DEF Launch, TypeOK
  <2>2. pc' \in [Clients -> Labels] /\ lostRun' \in [Clients -> 0 .. MaxRuns]
    <3>1. CASE GoTo(c, "handshake") /\ UNCHANGED lostRun
        BY <3>1 DEF TypeOK, GoTo, Labels
    <3>2. CASE StartFailed(c)
        BY <3>2 DEF StartFailed, TypeOK, GoTo, Labels
    <3> QED BY <1>17, <3>1, <3>2 DEF Launch
  <2> QED BY <1>17, <2>1, <2>2 DEF Launch, TypeOK
<1>18. ASSUME NEW c \in Clients, Handshake(c) PROVE TypeOK'
  <2>1. CASE Leave(c)
      BY <1>18, <2>1, LeaveKeeps DEF Handshake, TypeOK, LocalsOK
  <2>2. CASE StartFailed(c) /\ UNCHANGED <<lock, phase, req, mine, todo, active>>
      BY <1>18, <2>2 DEF Handshake, StartFailed, TypeOK, GoTo, Labels
  <2> QED BY <1>18, <2>1, <2>2 DEF Handshake
<1>19. ASSUME NEW c \in Clients, RemoveRun(c) PROVE TypeOK'
  <2>1. CASE Leave(c) /\ UNCHANGED rec
      BY <1>19, <2>1, LeaveKeeps DEF RemoveRun, TypeOK, LocalsOK
  <2>2. ASSUME NEW t \in todo[c],
               rec' = [rec EXCEPT ![t[1]] = [NoRecord EXCEPT !.state = "purged"]],
               todo' = [todo EXCEPT ![c] = @ \ {t}],
               UNCHANGED <<lock, pc, phase, req, mine, active, lostRun>>
        PROVE  TypeOK'
    <3>1. rec' \in [Runs -> Record]
      <4>1. [NoRecord EXCEPT !.state = "purged"] \in Record
          BY DEF Record, NoRecord
      <4> QED BY <2>2, <4>1 DEF TypeOK
    <3>2. todo' \in [Clients -> SUBSET (Runs \X TaskStates)]
        BY <2>2 DEF TypeOK
    <3> QED BY <1>19, <2>2, <3>1, <3>2 DEF RemoveRun, TypeOK
  <2> QED BY <1>19, <2>1, <2>2 DEF RemoveRun
<1>20. ASSUME NEW c \in Clients, CrashClient(c) PROVE TypeOK'
    BY <1>20, LeaveKeeps DEF CrashClient, TypeOK, LocalsOK
<1>21. ASSUME NEW r \in Runs, SupRun(r) PROVE TypeOK'
  <2>1. rec' \in [Runs -> Record]
    <3>1. CASE SetState(r, "FAILED")
        BY <3>1, StateType DEF TaskStates, TerminalStates
    <3>2. CASE \E b \in BOOLEAN : rec' = [rec EXCEPT ![r].state = "RUNNING", ![r].claimed = b]
        BY <3>2, ClaimType DEF TaskStates, ActiveStates
    <3> QED BY <1>21, <3>1, <3>2 DEF SupRun
  <2>2. sup' \in [Runs -> {"none", "boot", "running", "ending", "release", "unlink", "gone"}]
      BY <1>21 DEF SupRun, SupGoTo, TypeOK
  <2> QED BY <1>21, <2>1, <2>2 DEF SupRun, TypeOK, locals
<1>22. ASSUME NEW r \in Runs, SupClaim(r) PROVE TypeOK'
  <2>1. rec' \in [Runs -> Record]
    <3>1. \A b \in BOOLEAN : [rec[r] EXCEPT !.claimed = b] \in Record
        BY RecordType DEF TypeOK
    <3>2. CASE UNCHANGED rec
        BY <3>2 DEF TypeOK
    <3>3. ASSUME NEW b \in BOOLEAN, rec' = [rec EXCEPT ![r].claimed = b] PROVE rec' \in [Runs -> Record]
      <4>1. rec' = [rec EXCEPT ![r] = [rec[r] EXCEPT !.claimed = b]]
          BY <3>3 DEF TypeOK
      <4> QED BY <3>1, <4>1 DEF TypeOK
    <3> QED BY <1>22, <3>2, <3>3 DEF SupClaim
  <2>2. sup' \in [Runs -> {"none", "boot", "running", "ending", "release", "unlink", "gone"}]
      BY <1>22 DEF SupClaim, SupGoTo, TypeOK
  <2> QED BY <1>22, <2>1, <2>2 DEF SupClaim, TypeOK, locals
<1>23. ASSUME NEW r \in Runs, SupEnd(r) PROVE TypeOK'
  <2>1. rec' \in [Runs -> Record]
    <3>1. PICK s \in TaskStates : SetState(r, s)
        BY <1>23 DEF SupEnd, TaskStates, TerminalStates
    <3> QED BY <3>1, StateType
  <2>2. sup' \in [Runs -> {"none", "boot", "running", "ending", "release", "unlink", "gone"}]
      BY <1>23 DEF SupEnd, SupGoTo, TypeOK
  <2> QED BY <1>23, <2>1, <2>2 DEF SupEnd, TypeOK, locals
<1>24. ASSUME NEW r \in Runs, SupRelease(r) PROVE TypeOK'
    BY <1>24 DEF SupRelease, SupGoTo, TypeOK, locals
<1>25. ASSUME NEW r \in Runs, SupUnlink(r) PROVE TypeOK'
  <2>1. rec' \in [Runs -> Record]
      BY <1>25, LinkType DEF SupUnlink, UnlinkParent
  <2> QED BY <1>25, <2>1 DEF SupUnlink, SupGoTo, TypeOK, locals
<1>26. ASSUME NEW r \in Runs, KillSup(r) PROVE TypeOK'
    BY <1>26 DEF KillSup, SupGoTo, TypeOK, locals
<1> QED
    BY <1>1, <1>2, <1>3, <1>4, <1>5, <1>6, <1>7, <1>8, <1>9, <1>10, <1>11, <1>12, <1>13, <1>14,
       <1>15, <1>16, <1>17, <1>18, <1>19, <1>20, <1>21, <1>22, <1>23, <1>24, <1>25, <1>26
    DEF Next, Call, ClientStep, SupervisorStep

-----------------------------------------------------------------------------
(* Room for new runs.                                                      *)

LEMMA FreshFits ==
    ASSUME RoomInv
    PROVE  /\ IsFiniteSet(Created) /\ Cardinality(Created) \in Nat
           /\ Created = 1 .. Cardinality(Created)
           /\ Fresh \notin Created
           /\ IsFiniteSet(Creating) /\ Cardinality(Creating) \in Nat
           /\ Creating # {} => Fresh \in Runs
<1>1. PICK n \in 0 .. MaxRuns : Created = 1 .. n
    BY DEF RoomInv
<1>2. IsFiniteSet(Created) /\ Cardinality(Created) = n /\ n \in Nat
    BY <1>1, FS_Interval, LimitAssumption
<1>3. IsFiniteSet(Creating)
    BY FS_Subset, ClientsAssumption DEF Creating
<1>4. Cardinality(Creating) \in Nat
    BY <1>3, FS_CardinalityType
<1>5. Creating # {} => Cardinality(Creating) # 0
    BY <1>3, FS_EmptySet
<1>6. n + Cardinality(Creating) <= MaxRuns
    BY <1>2 DEF RoomInv
<1>7. Creating # {} => n + 1 \in Runs
    BY <1>2, <1>4, <1>5, <1>6, LimitAssumption DEF Runs
<1> QED BY <1>1, <1>2, <1>3, <1>4, <1>7 DEF Fresh

\* Most steps create nothing and let nobody create more.
LEMMA RoomFrame ==
    ASSUME RoomInv, Created' = Created, Creating' \subseteq Creating
    PROVE  RoomInv'
<1>1. Cardinality(Creating') <= Cardinality(Creating) /\ Cardinality(Creating') \in Nat
    BY FreshFits, FS_Subset, FS_CardinalityType
<1>2. Cardinality(Created) \in Nat /\ Cardinality(Creating) \in Nat
    BY FreshFits
<1>3. Cardinality(Created) + Cardinality(Creating) <= MaxRuns /\ \E n \in 0 .. MaxRuns : Created' = 1 .. n
    BY DEF RoomInv
<1>4. Cardinality(Created') + Cardinality(Creating') <= MaxRuns
    BY <1>1, <1>2, <1>3, LimitAssumption
<1> QED BY <1>3, <1>4 DEF RoomInv

LEMMA RoomBegin ==
    ASSUME RoomInv, RoomForOne, NEW c, Created' = Created, Creating' \subseteq Creating \union {c}
    PROVE  RoomInv'
<1>0. IsFiniteSet(Creating) /\ Cardinality(Creating) \in Nat
    BY FreshFits
<1>1. IsFiniteSet(Creating \union {c}) /\ Cardinality(Creating \union {c}) <= Cardinality(Creating) + 1
    BY <1>0, FS_AddElement
<1>2. Cardinality(Creating') <= Cardinality(Creating \union {c}) /\ Cardinality(Creating') \in Nat
      /\ Cardinality(Creating \union {c}) \in Nat
    BY <1>1, FS_Subset, FS_CardinalityType
<1>3. Cardinality(Created) \in Nat
    BY FreshFits
<1>4. Cardinality(Created) + Cardinality(Creating') <= MaxRuns
    BY <1>0, <1>1, <1>2, <1>3, LimitAssumption DEF RoomForOne
<1> QED BY <1>4 DEF RoomInv

LEMMA RoomSubmit ==
    ASSUME RoomInv, NEW c \in Creating, Created' = Created \union {Fresh},
           Creating' \subseteq Creating \ {c}
    PROVE  RoomInv'
<1>1. IsFiniteSet(Creating \ {c}) /\ Cardinality(Creating \ {c}) = Cardinality(Creating) - 1
    BY FreshFits, FS_RemoveElement
<1>2. Cardinality(Creating') <= Cardinality(Creating \ {c}) /\ Cardinality(Creating') \in Nat
    BY <1>1, FS_Subset, FS_CardinalityType
<1>3. Cardinality(Created') = Cardinality(Created) + 1
    BY FreshFits, FS_AddElement
<1>a. /\ Cardinality(Created) \in Nat /\ Cardinality(Creating) \in Nat
      /\ Cardinality(Created) + Cardinality(Creating) <= MaxRuns
    BY FreshFits DEF RoomInv
<1>4. Cardinality(Created') + Cardinality(Creating') <= MaxRuns
    BY <1>1, <1>2, <1>3, <1>a, LimitAssumption
<1>5. Created' = 1 .. Fresh /\ Fresh \in 0 .. MaxRuns
    BY FreshFits, LimitAssumption DEF Fresh, Runs
<1> QED BY <1>4, <1>5 DEF RoomInv

-----------------------------------------------------------------------------
(* What a client's step leaves of the other clients.                       *)

\* Client d is where it was, with all that it knows.
Same(d) ==
    /\ pc'[d] = pc[d] /\ phase'[d] = phase[d] /\ req'[d] = req[d] /\ mine'[d] = mine[d]
    /\ todo'[d] = todo[d] /\ active'[d] = active[d] /\ lostRun'[d] = lostRun[d]
    /\ lock = d => lock' = d

OthersSame(c) == \A d \in Clients \ {c} : Same(d)

LEMMA LeaveEffect ==
    ASSUME TypeOK, NEW c \in Clients, Leave(c)
    PROVE  /\ pc'[c] = "idle" /\ phase'[c] = "none" /\ mine'[c] = 0 /\ todo'[c] = {}
           /\ lock' = lock \/ (lock = c /\ lock' = Nobody)
           /\ OthersSame(c)
BY DEF TypeOK, Leave, GoTo, SetPhase, OthersSame, Same

LEMMA AfterReleaseEffect ==
    ASSUME TypeOK, NEW c \in Clients, AfterRelease(c), lock = c \/ lock = Nobody, Locked(c) => lock = c
    PROVE  /\ OthersSame(c)
           /\ phase[c] = "start" => Leave(c)
           /\ phase[c] # "start" => /\ pc'[c] = "judge" /\ lostRun'[c] = 0
                                    /\ Locked(c) => lock' = c
                                    /\ UNCHANGED <<phase, req, mine, todo, active>>
<1>1. CASE phase[c] = "start"
    BY <1>1, LeaveEffect DEF AfterRelease
<1>2. CASE phase[c] # "start"
    BY <1>2 DEF AfterRelease, TypeOK, GoTo, OthersSame, Same
<1> QED BY <1>1, <1>2

LEMMA ClientFrame ==
    ASSUME TypeOK, NEW c \in Clients, PlaceInv(c), Call(c) \/ ClientStep(c) \/ CrashClient(c)
    PROVE  OthersSame(c)
<1> USE DEF TypeOK, OthersSame, Same, GoTo, SetPhase
<1>1. ASSUME Status(c) \/ Begin(c) \/ Purge(c) PROVE OthersSame(c)
  <2>1. CASE Status(c)
      BY <2>1 DEF Status
  <2>2. CASE Begin(c)
      BY <2>2 DEF Begin
  <2>3. CASE Purge(c)
      BY <2>3, Types DEF Purge
  <2> QED BY <1>1, <2>1, <2>2, <2>3
<1>2. ASSUME Judge(c) \/ DenyEarly(c) PROVE OthersSame(c)
    BY <1>2 DEF Judge, DenyEarly, locals
<1>3. ASSUME GiveUp(c) PROVE OthersSame(c)
    BY <1>3, LeaveEffect DEF GiveUp, locals
<1>4. ASSUME Release(c) PROVE OthersSame(c)
  <2>1. lock = c \/ lock = Nobody
      BY <1>4 DEF Release
  <2>2. CASE Leave(c) \/ AfterRelease(c)
      BY <1>4, <2>1, <2>2, LeaveEffect, AfterReleaseEffect DEF PlaceInv
  <2>3. CASE lock' = c /\ GoTo(c, "unlink") /\ UNCHANGED locals
      BY <2>1, <2>3, Types DEF locals
  <2> QED BY <1>4, <2>2, <2>3 DEF Release
<1>5. ASSUME Unlink(c) PROVE OthersSame(c)
    BY <1>5, AfterReleaseEffect DEF Unlink, PlaceInv
<1>6. ASSUME StatusDone(c) \/ Rejected(c) \/ CrashClient(c) PROVE OthersSame(c)
    BY <1>6, LeaveEffect DEF StatusDone, Rejected, CrashClient
<1>7. ASSUME Lock(c) PROVE OthersSame(c)
    BY <1>7, LeaveEffect, Types DEF Lock
<1>8. ASSUME CheckParent(c) PROVE OthersSame(c)
    BY <1>8 DEF CheckParent
<1>9. ASSUME Admit(c) \/ Reject(c) PROVE OthersSame(c)
    BY <1>9 DEF Admit, Reject, Submit
<1>10. ASSUME Link(c) PROVE OthersSame(c)
    BY <1>10 DEF Link, locals
<1>11. ASSUME Mark(c) PROVE OthersSame(c)
    BY <1>11 DEF Mark, PlaceInv, Locked
<1>12. ASSUME Launch(c) PROVE OthersSame(c)
    BY <1>12 DEF Launch, StartFailed
<1>13. ASSUME Handshake(c) PROVE OthersSame(c)
    BY <1>13, LeaveEffect DEF Handshake, StartFailed
<1>14. ASSUME RemoveRun(c) PROVE OthersSame(c)
    BY <1>14, LeaveEffect DEF RemoveRun
<1> QED
    BY <1>1, <1>2, <1>3, <1>4, <1>5, <1>6, <1>7, <1>8, <1>9, <1>10, <1>11, <1>12, <1>13, <1>14
    DEF Call, ClientStep

\* A supervisor changes no client, and takes the lock from none.
LEMMA SupervisorFrame ==
    ASSUME TypeOK, NEW r \in Runs, RunInv(r), SupervisorStep(r) \/ KillSup(r)
    PROVE  /\ UNCHANGED <<pc, phase, req, mine, todo, active, lostRun>>
           /\ \A d \in Clients : Same(d)
           /\ \A q \in Runs \ {r} : sup'[q] = sup[q] /\ (lock = q => lock' = q)
BY Types DEF TypeOK, Same, SupervisorStep, SupRun, SupClaim, SupEnd, SupRelease, SupUnlink, KillSup, locals,
             SupGoTo, RunInv

-----------------------------------------------------------------------------
(* What a step makes of the records.                                       *)

LEMMA StateEffect ==
    ASSUME TypeOK, NEW r \in Runs, NEW s, SetState(r, s)
    PROVE  /\ rec'[r] = [rec[r] EXCEPT !.state = s]
           /\ rec'[r].state = s /\ rec'[r].ask = rec[r].ask /\ rec'[r].parent = rec[r].parent
           /\ rec'[r].conv = rec[r].conv /\ rec'[r].claimed = rec[r].claimed
           /\ rec'[r].contBy = rec[r].contBy
           /\ \A q \in Runs \ {r} : rec'[q] = rec[q]
<1>1. rec' = [rec EXCEPT ![r] = [rec[r] EXCEPT !.state = s]]
    BY DEF SetState
<1>2. rec[r] \in Record
    BY DEF TypeOK
<1> QED BY <1>1, <1>2 DEF TypeOK, Record

LEMMA ClaimEffect ==
    ASSUME TypeOK, NEW r \in Runs, NEW s, NEW b,
           rec' = [rec EXCEPT ![r].state = s, ![r].claimed = b]
    PROVE  /\ rec'[r].state = s /\ rec'[r].ask = rec[r].ask /\ rec'[r].parent = rec[r].parent
           /\ rec'[r].conv = rec[r].conv /\ rec'[r].claimed = b
           /\ rec'[r].contBy = rec[r].contBy
           /\ \A q \in Runs \ {r} : rec'[q] = rec[q]
<1>1. rec' = [rec EXCEPT ![r] = [rec[r] EXCEPT !.state = s, !.claimed = b]]
    BY DEF TypeOK
<1>2. rec[r] \in Record
    BY DEF TypeOK
<1> QED BY <1>1, <1>2 DEF TypeOK, Record

LEMMA LinkEffect ==
    ASSUME TypeOK, NEW p, NEW n, rec' = [rec EXCEPT ![p].contBy = n]
    PROVE  \A q \in Runs :
             /\ rec'[q].state = rec[q].state /\ rec'[q].ask = rec[q].ask
             /\ rec'[q].parent = rec[q].parent /\ rec'[q].conv = rec[q].conv
             /\ rec'[q].claimed = rec[q].claimed
             /\ rec'[q].contBy = IF q = p THEN n ELSE rec[q].contBy
             /\ q # p => rec'[q] = rec[q]
<1>1. \A q \in Runs : rec[q] \in Record
    BY DEF TypeOK
<1>2. \A q \in Runs : rec'[q] = IF q = p THEN [rec[q] EXCEPT !.contBy = n] ELSE rec[q]
    BY DEF TypeOK
<1> QED BY <1>1, <1>2 DEF Record

LEMMA SubmitEffect ==
    ASSUME TypeOK, NEW c \in Clients, NEW conv, Submit(c, conv), Fresh \in Runs
    PROVE  /\ rec'[Fresh] = [state |-> "SUBMITTED", ask |-> req[c].ask, parent |-> req[c].parent,
                             conv |-> conv, claimed |-> FALSE, contBy |-> 0]
           /\ \A q \in Runs \ {Fresh} : rec'[q] = rec[q]
           /\ mine'[c] = Fresh
BY DEF TypeOK, Submit

LEMMA ClaimChange ==
    ASSUME TypeOK, NEW r \in Runs, RunInv(r), SupRun(r) \/ SupClaim(r) \/ SupEnd(r)
    PROVE  \E s \in TaskStates, b \in BOOLEAN :
              /\ rec' = [rec EXCEPT ![r].state = s, ![r].claimed = b]
              /\ b => HasSession(r) \/ rec[r].claimed
              /\ \/ sup[r] = "boot" /\ sup'[r] = "running" /\ s = "RUNNING"
                 \/ sup[r] = "boot" /\ sup'[r] = "release" /\ s = "FAILED" /\ b = rec[r].claimed
                 \/ sup[r] = "running" /\ sup'[r] = "ending" /\ s = "RUNNING"
                 \/ sup[r] = "ending" /\ sup'[r] = "gone" /\ s = "COMPLETED" /\ b = rec[r].claimed
                 \/ sup[r] = "ending" /\ sup'[r] = "release" /\ s = "FAILED" /\ b = rec[r].claimed
<1> USE DEF TaskStates, ActiveStates, TerminalStates, SupGoTo
<1>1. rec[r] \in Record /\ rec[r].claimed \in BOOLEAN
    BY DEF TypeOK, Record
<1>2. \A s : SetState(r, s) => rec' = [rec EXCEPT ![r].state = s, ![r].claimed = rec[r].claimed]
  <2> SUFFICES ASSUME NEW s, SetState(r, s)
               PROVE  rec' = [rec EXCEPT ![r].state = s, ![r].claimed = rec[r].claimed]
      OBVIOUS
  <2>1. [rec[r] EXCEPT !.state = s] = [rec[r] EXCEPT !.state = s, !.claimed = rec[r].claimed]
      BY <1>1 DEF Record
  <2>2. rec' = [rec EXCEPT ![r] = [rec[r] EXCEPT !.state = s]]
      BY DEF SetState
  <2>3. [rec EXCEPT ![r].state = s, ![r].claimed = rec[r].claimed]
           = [rec EXCEPT ![r] = [rec[r] EXCEPT !.state = s, !.claimed = rec[r].claimed]]
      BY DEF TypeOK
  <2> QED BY <2>1, <2>2, <2>3
<1>3. CASE SetState(r, "FAILED") /\ SupGoTo(r, "release") /\ sup[r] = "boot"
    BY <1>1, <1>2, <1>3 DEF TypeOK
<1>4. ASSUME NEW b \in BOOLEAN, b => HasSession(r), sup[r] = "boot", SupGoTo(r, "running"),
             rec' = [rec EXCEPT ![r].state = "RUNNING", ![r].claimed = b]
      PROVE  \E s \in TaskStates, d \in BOOLEAN :
              /\ rec' = [rec EXCEPT ![r].state = s, ![r].claimed = d]
              /\ d => HasSession(r) \/ rec[r].claimed
              /\ sup[r] = "boot" /\ sup'[r] = "running" /\ s = "RUNNING"
    BY <1>4 DEF TypeOK
<1>5. CASE SupRun(r)
    BY <1>3, <1>4, <1>5 DEF SupRun
<1>6. CASE SupClaim(r)
  <2>1. sup[r] = "running" /\ sup'[r] = "ending" /\ rec[r].state = "RUNNING"
      BY <1>6 DEF SupClaim, TypeOK, RunInv
  <2>2. PICK b \in BOOLEAN : /\ rec' = [rec EXCEPT ![r].claimed = b]
                             /\ b => HasSession(r) \/ rec[r].claimed
    <3>1. CASE UNCHANGED rec
      <4>1. rec = [rec EXCEPT ![r].claimed = rec[r].claimed]
          BY <1>1 DEF TypeOK, Record
      <4> QED BY <1>1, <3>1, <4>1
    <3> QED BY <1>6, <3>1 DEF SupClaim
  <2>3. rec' = [rec EXCEPT ![r].state = "RUNNING", ![r].claimed = b]
    <3>1. [rec[r] EXCEPT !.claimed = b] = [rec[r] EXCEPT !.state = "RUNNING", !.claimed = b]
        BY <1>1, <2>1 DEF Record
    <3>2. rec' = [rec EXCEPT ![r] = [rec[r] EXCEPT !.claimed = b]]
        BY <2>2
    <3>3. [rec EXCEPT ![r].state = "RUNNING", ![r].claimed = b]
             = [rec EXCEPT ![r] = [rec[r] EXCEPT !.state = "RUNNING", !.claimed = b]]
        BY DEF TypeOK
    <3> QED BY <3>1, <3>2, <3>3
  <2> QED BY <2>1, <2>2, <2>3
<1>7. CASE SupEnd(r)
  <2>1. sup[r] = "ending" /\ \/ SetState(r, "COMPLETED") /\ sup'[r] = "gone"
                             \/ SetState(r, "FAILED") /\ sup'[r] = "release"
      BY <1>7 DEF SupEnd, TypeOK
  <2> QED BY <1>1, <1>2, <2>1
<1> QED BY <1>5, <1>6, <1>7

-----------------------------------------------------------------------------
LEMMA StatesCreated ==
    ASSUME \A q \in Runs : rec'[q].state = "none" <=> rec[q].state = "none"
    PROVE  Created' = Created
BY DEF Created

LEMMA OneChanged ==
    ASSUME NEW r \in Created, rec'[r].state # "none", \A q \in Runs \ {r} : rec'[q] = rec[q]
    PROVE  Created' = Created
BY DEF Created

LEMMA CreatingFrame ==
    ASSUME NEW c \in Clients, OthersSame(c), c \in Creating' => c \in Creating
    PROVE  Creating' \subseteq Creating
BY DEF OthersSame, Same, Creating

\* What a step of a client does to who is there and who may still come.
LEMMA ClientRoom ==
    ASSUME TypeOK, RoomInv, NEW c \in Clients, PlaceInv(c), Call(c) \/ ClientStep(c) \/ CrashClient(c)
    PROVE  RoomInv' /\ Created \subseteq Created'
<1>0. OthersSame(c)
    BY ClientFrame
<1> USE DEF TypeOK, GoTo, SetPhase
<1>1. ASSUME Created' = Created, c \in Creating' => c \in Creating
      PROVE  RoomInv' /\ Created \subseteq Created'
    BY <1>0, <1>1, CreatingFrame, RoomFrame
<1>2. ASSUME Leave(c), Created' = Created PROVE RoomInv' /\ Created \subseteq Created'
    BY <1>1, <1>2, LeaveEffect DEF Creating
<1>3. ASSUME UNCHANGED rec PROVE Created' = Created
    BY <1>3 DEF Created
<1>4. ASSUME Status(c) \/ Purge(c) PROVE RoomInv' /\ Created \subseteq Created'
    BY <1>1, <1>3, <1>4 DEF Status, Purge, Creating
<1>5. ASSUME Begin(c) PROVE RoomInv' /\ Created \subseteq Created'
  <2>1. Creating' \subseteq Creating \union {c}
      BY <1>0 DEF OthersSame, Same, Creating
  <2> QED BY <1>3, <1>5, <2>1, RoomBegin DEF Begin
<1>6. ASSUME Judge(c) \/ DenyEarly(c) PROVE RoomInv' /\ Created \subseteq Created'
    BY <1>1, <1>3, <1>6 DEF Judge, DenyEarly, Judged, Creating, locals
<1>7. ASSUME GiveUp(c) PROVE RoomInv' /\ Created \subseteq Created'
  <2>1. CASE Exists(lostRun[c])
    <3>1. lostRun[c] \in Runs
        BY <1>7 DEF GiveUp, PlaceInv, GivingUp, Created
    <3>2. Created' = Created
      <4>1. SetState(lostRun[c], "FAILED") /\ lostRun[c] \in Created
          BY <1>7, <2>1 DEF GiveUp, PlaceInv, GivingUp
      <4>2. /\ rec'[lostRun[c]].state = "FAILED"
            /\ \A q \in Runs \ {lostRun[c]} : rec'[q] = rec[q]
        <5> HIDE DEF TypeOK
        <5> QED BY <3>1, <4>1, StateEffect
      <4> QED BY <4>1, <4>2, OneChanged
    <3> QED BY <1>1, <1>7, <2>1, <3>2 DEF GiveUp, Creating, locals
  <2>2. CASE ~Exists(lostRun[c])
      BY <1>2, <1>3, <1>7, <2>2 DEF GiveUp
  <2> QED BY <2>1, <2>2
<1>8. ASSUME AfterRelease(c), Created' = Created, pc[c] # "idle", lock = c \/ lock = Nobody
      PROVE  RoomInv' /\ Created \subseteq Created'
    BY <1>1, <1>2, <1>8, AfterReleaseEffect DEF PlaceInv, Creating
<1>9. ASSUME Release(c) PROVE RoomInv' /\ Created \subseteq Created'
  <2>1. Created' = Created /\ pc[c] # "idle" /\ (lock = c \/ lock = Nobody)
      BY <1>3, <1>9 DEF Release
  <2>2. CASE Leave(c) \/ AfterRelease(c)
      BY <1>2, <1>8, <2>1, <2>2
  <2>3. CASE lock' = c /\ GoTo(c, "unlink") /\ UNCHANGED locals
      BY <1>1, <2>1, <2>3 DEF Creating, locals
  <2> QED BY <1>9, <2>2, <2>3 DEF Release
<1>10. ASSUME Unlink(c) PROVE RoomInv' /\ Created \subseteq Created'
  <2>1. Created' = Created
    <3>1. PICK p : rec' = [rec EXCEPT ![p].contBy = 0]
        BY <1>10 DEF Unlink, UnlinkParent
    <3>2. \A q \in Runs : rec'[q].state = rec[q].state
      <4> HIDE DEF TypeOK
      <4> QED BY <3>1, LinkEffect
    <3> QED BY <3>2, StatesCreated
  <2> QED BY <1>8, <1>10, <2>1 DEF Unlink, PlaceInv
<1>11. ASSUME StatusDone(c) \/ CrashClient(c) PROVE RoomInv' /\ Created \subseteq Created'
    BY <1>2, <1>3, <1>11 DEF StatusDone, CrashClient
<1>12. ASSUME Lock(c) PROVE RoomInv' /\ Created \subseteq Created'
    BY <1>1, <1>2, <1>3, <1>12 DEF Lock, Judged, Creating
<1>13. ASSUME CheckParent(c) PROVE RoomInv' /\ Created \subseteq Created'
    BY <1>1, <1>3, <1>13 DEF CheckParent, Judged, Creating
<1>14. ASSUME NEW conv, Submit(c, conv), c \in Creating
       PROVE  RoomInv' /\ Created \subseteq Created'
  <2>1. Fresh \in Runs
      BY <1>14, FreshFits
  <2>2. Created' = Created \union {Fresh}
    <3>1. rec'[Fresh].state = "SUBMITTED" /\ \A q \in Runs \ {Fresh} : rec'[q] = rec[q]
      <4> HIDE DEF TypeOK
      <4>1. Submit(c, conv)
          BY <1>14
      <4>2. rec'[Fresh] = [state |-> "SUBMITTED", ask |-> req[c].ask, parent |-> req[c].parent,
                           conv |-> conv, claimed |-> FALSE, contBy |-> 0]
          BY <2>1, <4>1, SubmitEffect
      <4>3. \A q \in Runs \ {Fresh} : rec'[q] = rec[q]
          BY <2>1, <4>1, SubmitEffect
      <4> QED BY <4>2, <4>3
    <3> QED BY <2>1, <3>1 DEF Created
  <2>3. mine'[c] # 0
      BY <1>14, <2>1, SubmitEffect, Types
  <2>4. Creating' \subseteq Creating \ {c}
      BY <1>0, <2>3 DEF OthersSame, Same, Creating
  <2> QED BY <1>14, <2>2, <2>4, RoomSubmit
<1>15. ASSUME Admit(c) PROVE RoomInv' /\ Created \subseteq Created'
  <2>1. c \in Creating
      BY <1>15 DEF Admit, Judged, PlaceInv, Owning, Creating
  <2>2. CASE GoTo(c, "reject") /\ UNCHANGED <<rec, mine>>
      BY <1>1, <1>3, <2>1, <2>2
  <2>3. CASE Submit(c, Conversation(req[c]))
      BY <1>14, <2>1, <2>3
  <2> QED BY <1>15, <2>2, <2>3 DEF Admit
<1>16. ASSUME Reject(c) PROVE RoomInv' /\ Created \subseteq Created'
  <2>1. c \in Creating
      BY <1>16 DEF Reject, PlaceInv, Owning, Creating
  <2> QED BY <1>14, <1>16, <2>1 DEF Reject
<1>17. ASSUME NEW s, mine[c] \in Created, SetState(mine[c], s), s # "none" PROVE Created' = Created
  <2>1. mine[c] \in Runs
      BY <1>17 DEF Created
  <2>2. rec'[mine[c]].state = s /\ \A q \in Runs \ {mine[c]} : rec'[q] = rec[q]
      BY <1>17, <2>1, StateEffect
  <2> QED BY <1>17, <2>2, OneChanged
<1>18. ASSUME Rejected(c) PROVE RoomInv' /\ Created \subseteq Created'
    BY <1>2, <1>17, <1>18 DEF Rejected, PlaceInv, Owning
<1>19. ASSUME Link(c) PROVE RoomInv' /\ Created \subseteq Created'
  <2>1. Created' = Created
    <3>1. CASE UNCHANGED rec
        BY <1>3, <3>1
    <3>2. CASE rec' = [rec EXCEPT ![req[c].parent].contBy = mine[c]]
        BY <3>2, LinkEffect, StatesCreated
    <3> QED BY <1>19, <3>1, <3>2 DEF Link
  <2> QED BY <1>1, <1>19, <2>1 DEF Link, Creating, locals
<1>20. ASSUME Mark(c) PROVE RoomInv' /\ Created \subseteq Created'
  <2>1. Created' = Created
      BY <1>17, <1>20 DEF Mark, PlaceInv, Owning
  <2> QED BY <1>1, <1>20, <2>1 DEF Mark, PlaceInv, Creating
<1>21. ASSUME Launch(c) PROVE RoomInv' /\ Created \subseteq Created'
    BY <1>1, <1>3, <1>21 DEF Launch, StartFailed, Creating
<1>22. ASSUME Handshake(c) PROVE RoomInv' /\ Created \subseteq Created'
    BY <1>1, <1>2, <1>3, <1>22 DEF Handshake, StartFailed, Creating
<1>23. ASSUME RemoveRun(c) PROVE RoomInv' /\ Created \subseteq Created'
  <2>1. CASE Leave(c) /\ UNCHANGED rec
      BY <1>2, <1>3, <2>1
  <2>2. ASSUME NEW t \in todo[c],
               rec' = [rec EXCEPT ![t[1]] = [NoRecord EXCEPT !.state = "purged"]],
               UNCHANGED <<lock, pc, phase, req, mine, active, lostRun>>
        PROVE  RoomInv' /\ Created \subseteq Created'
    <3>1. t[1] \in Created
        BY <2>2 DEF PlaceInv
    <3>2. Created' = Created
        BY <2>2, <3>1, StatesCreated DEF Created, NoRecord
    <3> QED BY <1>1, <2>2, <3>2 DEF Creating
  <2> QED BY <1>23, <2>1, <2>2 DEF RemoveRun
<1> QED
    BY <1>4, <1>5, <1>6, <1>7, <1>9, <1>10, <1>11, <1>12, <1>13, <1>15, <1>16, <1>18,
       <1>19, <1>20, <1>21, <1>22, <1>23 DEF Call, ClientStep

LEMMA SupervisorRoom ==
    ASSUME TypeOK, RoomInv, NEW r \in Runs, RunInv(r), SupervisorStep(r) \/ KillSup(r)
    PROVE  RoomInv' /\ Created' = Created
<1>1. Created' = Created
  <2>1. CASE SupRun(r) \/ SupClaim(r) \/ SupEnd(r)
    <3>1. PICK s \in TaskStates, b \in BOOLEAN :
               /\ rec' = [rec EXCEPT ![r].state = s, ![r].claimed = b]
               /\ b => HasSession(r) \/ rec[r].claimed
               /\ \/ sup[r] = "boot" /\ sup'[r] = "running" /\ s = "RUNNING"
                  \/ sup[r] = "boot" /\ sup'[r] = "release" /\ s = "FAILED" /\ b = rec[r].claimed
                  \/ sup[r] = "running" /\ sup'[r] = "ending" /\ s = "RUNNING"
                  \/ sup[r] = "ending" /\ sup'[r] = "gone" /\ s = "COMPLETED" /\ b = rec[r].claimed
                  \/ sup[r] = "ending" /\ sup'[r] = "release" /\ s = "FAILED" /\ b = rec[r].claimed
        BY <2>1, ClaimChange
    <3>2. rec'[r].state = s /\ \A q \in Runs \ {r} : rec'[q] = rec[q]
        BY <3>1, ClaimEffect
    <3>3. r \in Created /\ s # "none"
        BY <3>1 DEF RunInv, TaskStates, ActiveStates, TerminalStates
    <3> QED BY <3>2, <3>3, OneChanged
  <2>2. CASE SupUnlink(r)
      BY <2>2, LinkEffect, StatesCreated DEF SupUnlink, UnlinkParent
  <2>3. CASE SupRelease(r) \/ KillSup(r)
      BY <2>3 DEF SupRelease, KillSup, Created
  <2> QED BY <2>1, <2>2, <2>3 DEF SupervisorStep
<1>2. Creating' \subseteq Creating
    BY SupervisorFrame DEF Creating
<1> QED BY <1>1, <1>2, RoomFrame

-----------------------------------------------------------------------------
(* Where clients are.                                                      *)

LEMMA PlaceSame ==
    ASSUME NEW d \in Clients, PlaceInv(d), Same(d), Created \subseteq Created'
    PROVE  PlaceInv(d)'
BY DEF PlaceInv, Same, GivingUp, Owning, Locked

LEMMA PlaceLeave ==
    ASSUME TypeOK, NEW c \in Clients, Leave(c)
    PROVE  PlaceInv(c)'
BY LeaveEffect, Types DEF PlaceInv, GivingUp, Owning, Locked

LEMMA PlaceKeeps ==
    ASSUME TypeOK, RoomInv, \A d \in Clients : PlaceInv(d),
           NEW c \in Clients, Call(c) \/ ClientStep(c) \/ CrashClient(c)
    PROVE  \A d \in Clients : PlaceInv(d)'
<1>1. OthersSame(c) /\ Created \subseteq Created'
    BY ClientFrame, ClientRoom
<1>2. \A d \in Clients \ {c} : PlaceInv(d)'
    BY <1>1, PlaceSame DEF OthersSame
<1>3. PlaceInv(c)
    OBVIOUS
<1> DEFINE P == PlaceInv(c)'
<1>4. ASSUME Leave(c) PROVE P
    BY <1>4, PlaceLeave
<1>5. \A rs \in SUBSET Runs : \A t \in Listed(rs) : t[1] \in Created
    BY DEF Listed, Created, Active, ActiveStates
<1> USE DEF PlaceInv, GivingUp, Owning, Locked, GoTo, SetPhase
<1>6. ASSUME Status(c) PROVE P
    BY <1>1, <1>3, <1>5, <1>6 DEF Status, TypeOK
<1>7. ASSUME Begin(c) PROVE P
  <2>1. \A t \in todo'[c] : t[1] \in Created
    <3>1. UNCHANGED todo \/ \E r \in Runs : todo' = [todo EXCEPT ![c] = Listed({r})]
        BY <1>7 DEF Begin
    <3>2. CASE UNCHANGED todo
        BY <1>1, <1>3, <3>2
    <3>3. ASSUME NEW r \in Runs, todo' = [todo EXCEPT ![c] = Listed({r})]
          PROVE  \A t \in todo'[c] : t[1] \in Created
      <4>1. {r} \in SUBSET Runs
          OBVIOUS
      <4> QED BY <1>5, <3>3, <4>1 DEF TypeOK
    <3> QED BY <3>1, <3>2, <3>3
  <2> QED BY <1>1, <1>3, <1>7, <2>1 DEF Begin, TypeOK
<1>8. ASSUME Purge(c) PROVE P
  <2>1. \A t \in todo'[c] : t[1] \in Created
    <3>1. PICK k \in Created : todo' = [todo EXCEPT ![c] =
             {<<r, rec[r].state>> : r \in {q \in 1 .. k : Terminal(rec[q].state)}}]
        BY <1>8 DEF Purge
    <3>2. \A q \in 1 .. k : Terminal(rec[q].state) => q \in Created
        BY LimitAssumption DEF Created, Runs, Terminal, TerminalStates
    <3> QED BY <3>1, <3>2 DEF TypeOK
  <2> QED BY <1>1, <1>3, <1>8, <2>1 DEF Purge, TypeOK
<1>9. ASSUME Judge(c) PROVE P
  <2>1. PICK t \in todo[c] :
             /\ todo' = [todo EXCEPT ![c] = @ \ {t}]
             /\ \/ lostRun' = [lostRun EXCEPT ![c] = t[1]] /\ GoTo(c, "giveup")
                \/ UNCHANGED <<lostRun, pc>>
      BY <1>9 DEF Judge
  <2> QED BY <1>1, <1>3, <1>9, <2>1 DEF Judge, TypeOK
<1>10. ASSUME GiveUp(c) PROVE P
    BY <1>1, <1>3, <1>4, <1>10 DEF GiveUp, locals, TypeOK
<1>11. ASSUME AfterRelease(c), lock = c \/ lock = Nobody, GivingUp(c) PROVE P
  <2>1. CASE phase[c] = "start"
      BY <1>4, <1>11, <2>1 DEF AfterRelease
  <2>2. CASE phase[c] # "start"
    <3>0. Locked(c) => lock = c
        BY <1>3
    <3>1. /\ pc'[c] = "judge" /\ lostRun'[c] = 0 /\ (Locked(c) => lock' = c)
          /\ UNCHANGED <<phase, req, mine, todo, active>>
      <4> HIDE DEF PlaceInv, GivingUp, Owning, Locked, GoTo, SetPhase
      <4> QED BY <1>11, <2>2, <3>0, AfterReleaseEffect
    <3> QED BY <1>1, <1>3, <1>11, <2>2, <3>1 DEF TypeOK
  <2> QED BY <2>1, <2>2
<1>12. ASSUME Release(c) PROVE P
  <2>1. CASE lock' = c /\ GoTo(c, "unlink") /\ UNCHANGED locals
      BY <1>1, <1>3, <1>12, <2>1 DEF Release, locals, TypeOK
  <2> QED BY <1>4, <1>11, <1>12, <2>1 DEF Release
<1>13. ASSUME Unlink(c) PROVE P
    BY <1>3, <1>11, <1>13 DEF Unlink
<1>14. ASSUME StatusDone(c) \/ CrashClient(c) PROVE P
    BY <1>4, <1>14 DEF StatusDone, CrashClient
<1>15. ASSUME DenyEarly(c) PROVE P
    BY <1>1, <1>3, <1>15 DEF DenyEarly, Judged, locals, TypeOK
<1>16. ASSUME Lock(c) PROVE P
  <2>1. CASE Leave(c)
      BY <1>4, <2>1
  <2>2. CASE ~Leave(c)
    <3>1. /\ req[c].parent # 0 => Exists(req[c].parent)
          /\ lock' = c
          /\ SetPhase(c, IF req[c].parent = 0 THEN "scan" ELSE "parent")
          /\ UNCHANGED <<pc, req, mine, active, lostRun>>
          /\ todo' = [todo EXCEPT ![c] = Listed(IF req[c].parent = 0 THEN Runs ELSE {req[c].parent})]
        BY <1>16, <2>2 DEF Lock
    <3>3. (IF req[c].parent = 0 THEN Runs ELSE {req[c].parent}) \in SUBSET Runs
        BY Types DEF TypeOK
    <3>4. \A t \in todo'[c] : t[1] \in Created
        BY <1>5, <3>1, <3>3 DEF TypeOK
    <3>2. req[c].parent # 0 => req[c].parent \in Created
        BY <3>1, Types DEF Exists, Created, TypeOK, TaskStates, ActiveStates, TerminalStates
    <3> QED BY <1>1, <1>3, <1>16, <3>1, <3>2, <3>4 DEF Lock, Judged, TypeOK
  <2> QED BY <2>1, <2>2
<1>17. ASSUME CheckParent(c) PROVE P
  <2>1. \A t \in todo'[c] : t[1] \in Created
      BY <1>3, <1>5, <1>17 DEF CheckParent, Judged, TypeOK
  <2> QED BY <1>1, <1>3, <1>17, <2>1 DEF CheckParent, Judged, TypeOK
<1>18. ASSUME c \in Creating, NEW conv, Submit(c, conv) PROVE mine'[c] \in Created'
  <2>1. Fresh \in Runs
      BY <1>18, FreshFits
  <2>2. rec'[Fresh].state = "SUBMITTED" /\ mine'[c] = Fresh
    <3>1. Submit(c, conv)
        BY <1>18
    <3>2. rec'[Fresh] = [state |-> "SUBMITTED", ask |-> req[c].ask, parent |-> req[c].parent,
                         conv |-> conv, claimed |-> FALSE, contBy |-> 0]
        BY <2>1, <3>1, SubmitEffect
    <3>3. mine'[c] = Fresh
        BY <2>1, <3>1, SubmitEffect
    <3> QED BY <3>2, <3>3
  <2> QED BY <2>1, <2>2 DEF Created
<1>19. ASSUME Admit(c) PROVE P
  <2>1. c \in Creating
      BY <1>3, <1>19 DEF Admit, Judged, Creating
  <2>2. CASE GoTo(c, "reject") /\ UNCHANGED <<rec, mine>>
      BY <1>1, <1>3, <1>19, <2>2 DEF Admit, Judged, TypeOK
  <2>3. CASE Submit(c, Conversation(req[c])) /\ GoTo(c, "link")
      BY <1>1, <1>3, <1>18, <1>19, <2>1, <2>3 DEF Admit, Judged, TypeOK
  <2> QED BY <1>19, <2>2, <2>3 DEF Admit
<1>20. ASSUME Reject(c) PROVE P
  <2>1. c \in Creating
      BY <1>3, <1>20 DEF Reject, Creating
  <2>2. mine'[c] \in Created'
      BY <1>18, <1>20, <2>1 DEF Reject
  <2> QED BY <1>1, <1>3, <1>20, <2>2 DEF Reject, TypeOK
<1>21. ASSUME Rejected(c) PROVE P
    BY <1>4, <1>21 DEF Rejected
<1>22. ASSUME Link(c) PROVE P
    BY <1>1, <1>3, <1>22 DEF Link, locals, TypeOK
<1>23. ASSUME Mark(c) PROVE P
    BY <1>1, <1>3, <1>23 DEF Mark, TypeOK
<1>24. ASSUME Launch(c) PROVE P
    BY <1>1, <1>3, <1>24 DEF Launch, StartFailed, TypeOK
<1>25. ASSUME Handshake(c) PROVE P
    BY <1>1, <1>3, <1>4, <1>25 DEF Handshake, StartFailed, TypeOK
<1>26. ASSUME RemoveRun(c) PROVE P
    BY <1>1, <1>3, <1>4, <1>26 DEF RemoveRun, TypeOK
<1>27. P
    BY <1>6, <1>7, <1>8, <1>9, <1>10, <1>12, <1>13, <1>14, <1>15, <1>16, <1>17, <1>19, <1>20,
       <1>21, <1>22, <1>23, <1>24, <1>25, <1>26 DEF Call, ClientStep
<1> QED BY <1>2, <1>27

-----------------------------------------------------------------------------
(* What a step makes of each run, its place in its conversation aside.     *)

\* Run r is as it was, its continuation aside.
Kept(r) ==
    /\ rec'[r].state = rec[r].state /\ rec'[r].ask = rec[r].ask
    /\ rec'[r].parent = rec[r].parent /\ rec'[r].conv = rec[r].conv
    /\ rec'[r].claimed = rec[r].claimed /\ sup'[r] = sup[r]

\* Run r takes state s, and is the same otherwise.
Moved(r, s) ==
    /\ rec'[r].state = s /\ rec'[r].ask = rec[r].ask /\ rec'[r].claimed = rec[r].claimed
    /\ rec'[r].parent = rec[r].parent /\ rec'[r].conv = rec[r].conv
    /\ rec'[r].contBy = rec[r].contBy /\ sup'[r] = sup[r]

\* Client c submits run r.
Submitted(c, r) ==
    /\ c \in Creating /\ r = Fresh /\ mine'[c] = r
    /\ rec'[r].state = "SUBMITTED" /\ ~rec'[r].claimed /\ rec'[r].contBy = 0
    /\ rec'[r].ask = req[c].ask /\ rec'[r].parent = req[c].parent
    /\ sup'[r] = sup[r]

\* Client c purges run r.
Removed(c, r) ==
    /\ pc[c] = "purge" /\ \E t \in todo[c] : t[1] = r
    /\ rec'[r] = [NoRecord EXCEPT !.state = "purged"]
    /\ sup'[r] = sup[r]

\* What a step of client c can make of run r.
Touched(c, r) ==
    \/ pc[c] = "giveup" /\ r = lostRun[c] /\ Exists(r) /\ Moved(r, "FAILED")
    \/ Submitted(c, r)
    \/ pc[c] = "rejected" /\ r = mine[c] /\ Moved(r, "REJECTED")
    \/ pc[c] = "mark" /\ r = mine[c] /\ Moved(r, "STARTING")
    \/ pc[c] = "launch" /\ r = mine[c] /\ rec'[r] = rec[r] /\ sup'[r] = "boot"
    \/ Removed(c, r)

LEMMA ClientTouches ==
    ASSUME TypeOK, RoomInv, NEW c \in Clients, PlaceInv(c), Call(c) \/ ClientStep(c) \/ CrashClient(c)
    PROVE  \A r \in Runs : Kept(r) \/ Touched(c, r)
<1> DEFINE P == \A r \in Runs : Kept(r) \/ Touched(c, r)
<1>1. ASSUME UNCHANGED <<rec, sup>> PROVE P
    BY <1>1 DEF Kept
<1>2. CASE \/ Status(c) \/ Begin(c) \/ Purge(c) \/ Judge(c) \/ Release(c) \/ StatusDone(c)
           \/ DenyEarly(c) \/ Lock(c) \/ CheckParent(c) \/ Handshake(c) \/ CrashClient(c)
    BY <1>1, <1>2 DEF Status, Begin, Purge, Judge, Release, StatusDone, DenyEarly, Lock, CheckParent,
                      Handshake, CrashClient
<1>3. ASSUME NEW r, r \in Runs, NEW s, SetState(r, s), UNCHANGED sup
      PROVE  Moved(r, s) /\ \A q \in Runs \ {r} : Kept(q)
  <2>1. /\ rec'[r].state = s /\ rec'[r].ask = rec[r].ask /\ rec'[r].parent = rec[r].parent
        /\ rec'[r].conv = rec[r].conv /\ rec'[r].claimed = rec[r].claimed
        /\ rec'[r].contBy = rec[r].contBy
      BY <1>3, StateEffect
  <2>2. \A q \in Runs \ {r} : rec'[q] = rec[q]
      BY <1>3, StateEffect
  <2> QED BY <1>3, <2>1, <2>2 DEF Moved, Kept
<1>4. CASE GiveUp(c)
  <2>1. CASE ~Exists(lostRun[c])
      BY <1>1, <1>4, <2>1 DEF GiveUp
  <2>2. CASE Exists(lostRun[c])
    <3>1. lostRun[c] \in Runs /\ SetState(lostRun[c], "FAILED") /\ UNCHANGED sup
        BY <1>4, <2>2 DEF GiveUp, PlaceInv, GivingUp, Created
    <3>2. Moved(lostRun[c], "FAILED") /\ \A q \in Runs \ {lostRun[c]} : Kept(q)
        BY <1>3, <3>1
    <3> QED BY <1>4, <2>2, <3>2 DEF GiveUp, Touched
  <2> QED BY <2>1, <2>2
<1>5. ASSUME NEW s, mine[c] \in Created, SetState(mine[c], s), UNCHANGED sup
      PROVE  Moved(mine[c], s) /\ \A q \in Runs \ {mine[c]} : Kept(q)
    BY <1>3, <1>5 DEF Created
<1>6. CASE Rejected(c)
    BY <1>5, <1>6 DEF Rejected, PlaceInv, Owning, Touched
<1>7. CASE Mark(c)
    BY <1>5, <1>7 DEF Mark, PlaceInv, Owning, Touched
<1>8. ASSUME NEW p, NEW n, rec' = [rec EXCEPT ![p].contBy = n], UNCHANGED sup PROVE P
    BY <1>8, LinkEffect DEF Kept
<1>9. CASE Unlink(c)
    BY <1>8, <1>9 DEF Unlink, UnlinkParent
<1>10. CASE Link(c)
    BY <1>1, <1>8, <1>10 DEF Link
<1>11. ASSUME NEW conv, Submit(c, conv), c \in Creating, UNCHANGED sup PROVE P
  <2>1. Fresh \in Runs
      BY <1>11, FreshFits
  <2>2. rec'[Fresh] = [state |-> "SUBMITTED", ask |-> req[c].ask, parent |-> req[c].parent,
                       conv |-> conv, claimed |-> FALSE, contBy |-> 0]
      BY <1>11, <2>1, SubmitEffect
  <2>3. \A q \in Runs \ {Fresh} : rec'[q] = rec[q]
      BY <1>11, <2>1, SubmitEffect
  <2>4. mine'[c] = Fresh
      BY <1>11, <2>1, SubmitEffect
  <2> QED BY <1>11, <2>2, <2>3, <2>4 DEF Kept, Touched, Submitted
<1>12. CASE Admit(c)
  <2>1. c \in Creating
      BY <1>12 DEF Admit, Judged, PlaceInv, Owning, Creating
  <2> QED BY <1>1, <1>11, <1>12, <2>1 DEF Admit
<1>13. CASE Reject(c)
  <2>1. c \in Creating
      BY <1>13 DEF Reject, PlaceInv, Owning, Creating
  <2> QED BY <1>11, <1>13, <2>1 DEF Reject
<1>14. CASE Launch(c)
    BY <1>1, <1>14 DEF Launch, Kept, Touched, TypeOK
<1>15. CASE RemoveRun(c)
    BY <1>1, <1>15 DEF RemoveRun, Kept, Touched, Removed, TypeOK
<1> QED
    BY <1>2, <1>4, <1>6, <1>7, <1>9, <1>10, <1>12, <1>13, <1>14, <1>15 DEF Call, ClientStep

LEMMA SupervisorTouches ==
    ASSUME TypeOK, NEW r \in Runs, RunInv(r), SupervisorStep(r) \/ KillSup(r)
    PROVE  /\ \A q \in Runs \ {r} : Kept(q)
           /\ \/ /\ rec'[r].state = rec[r].state /\ rec'[r].claimed = rec[r].claimed
                 /\ sup[r] \notin {"none", "gone"} /\ sup'[r] \in {"unlink", "gone"}
                 /\ sup'[r] = "unlink" => lock' = r
              \/ /\ \/ sup[r] = "boot" /\ sup'[r] = "running"
                    \/ sup[r] = "running" /\ sup'[r] = "ending"
                 /\ rec'[r].state = "RUNNING"
              \/ /\ sup[r] \in {"boot", "ending"} /\ sup'[r] \in {"release", "gone"}
                 /\ Terminal(rec'[r].state)
           /\ rec'[r].ask = rec[r].ask /\ rec'[r].parent = rec[r].parent /\ rec'[r].conv = rec[r].conv
           /\ UNCHANGED <<pc, phase, req, mine, todo, active, lostRun>>
<1>0. UNCHANGED <<pc, phase, req, mine, todo, active, lostRun>>
    BY DEF SupervisorStep, SupRun, SupClaim, SupEnd, SupRelease, SupUnlink, KillSup, locals
<1>1. CASE SupRun(r) \/ SupClaim(r) \/ SupEnd(r)
  <2>1. PICK s \in TaskStates, b \in BOOLEAN :
              /\ rec' = [rec EXCEPT ![r].state = s, ![r].claimed = b]
              /\ b => HasSession(r) \/ rec[r].claimed
              /\ \/ sup[r] = "boot" /\ sup'[r] = "running" /\ s = "RUNNING"
                 \/ sup[r] = "boot" /\ sup'[r] = "release" /\ s = "FAILED" /\ b = rec[r].claimed
                 \/ sup[r] = "running" /\ sup'[r] = "ending" /\ s = "RUNNING"
                 \/ sup[r] = "ending" /\ sup'[r] = "gone" /\ s = "COMPLETED" /\ b = rec[r].claimed
                 \/ sup[r] = "ending" /\ sup'[r] = "release" /\ s = "FAILED" /\ b = rec[r].claimed
      BY <1>1, ClaimChange
  <2>2. /\ rec'[r].state = s /\ rec'[r].ask = rec[r].ask /\ rec'[r].parent = rec[r].parent
        /\ rec'[r].conv = rec[r].conv
      BY <2>1, ClaimEffect
  <2>3. \A q \in Runs \ {r} : rec'[q] = rec[q]
      BY <2>1 DEF TypeOK
  <2>4. \A q \in Runs \ {r} : sup'[q] = sup[q]
      BY <1>1 DEF SupRun, SupClaim, SupEnd, SupGoTo, TypeOK
  <2> QED BY <1>0, <2>1, <2>2, <2>3, <2>4 DEF Kept, Terminal, TerminalStates
<1>2. CASE SupUnlink(r)
  <2>1. \A q \in Runs : /\ rec'[q].state = rec[q].state /\ rec'[q].ask = rec[q].ask
             /\ rec'[q].parent = rec[q].parent /\ rec'[q].conv = rec[q].conv
             /\ rec'[q].claimed = rec[q].claimed
      BY <1>2, LinkEffect DEF SupUnlink, UnlinkParent
  <2> QED BY <1>0, <1>2, <2>1 DEF SupUnlink, SupGoTo, Kept, TypeOK
<1>3. CASE SupRelease(r) \/ KillSup(r)
    BY <1>0, <1>3 DEF SupRelease, KillSup, SupGoTo, Kept, TypeOK
<1> QED BY <1>1, <1>2, <1>3 DEF SupervisorStep

-----------------------------------------------------------------------------
(* Runs and their supervisors.                                             *)

\* A client takes the lock when it is free and gives it back as its own.
LEMMA ClientLock ==
    ASSUME TypeOK, NEW c \in Clients, PlaceInv(c), Call(c) \/ ClientStep(c) \/ CrashClient(c)
    PROVE  lock' = lock \/ lock \in {c, Nobody}
BY LeaveEffect DEF Call, ClientStep, CrashClient, Status, Begin, Purge, Judge, GiveUp, Release, Unlink,
    StatusDone, DenyEarly, Lock, CheckParent, Admit, Reject, Rejected, Link, Mark, Launch, Handshake,
    RemoveRun, AfterRelease, Leave, PlaceInv, Locked, StartFailed, locals

LEMMA RunKeptByClient ==
    ASSUME TypeOK, RoomInv, \A q \in Runs : RunInv(q), NEW c \in Clients,
           PlaceInv(c), StarterInv(c), LostInv(c), PurgeInv(c),
           Call(c) \/ ClientStep(c) \/ CrashClient(c)
    PROVE  \A r \in Runs : RunInv(r)'
<1> SUFFICES ASSUME NEW r \in Runs PROVE RunInv(r)'
    OBVIOUS
<1>1. lock = r => lock' = r
    BY ClientLock, Types
<1>2. Created \subseteq Created' /\ RunInv(r)
    BY ClientRoom
<1>3. CASE Kept(r)
    BY <1>1, <1>2, <1>3 DEF Kept, RunInv
<1>4. CASE pc[c] = "giveup" /\ r = lostRun[c] /\ Moved(r, "FAILED")
    BY <1>1, <1>2, <1>4 DEF Moved, RunInv, LostInv, GivingUp
<1>5. CASE Submitted(c, r)
    BY <1>1, <1>2, <1>5, FreshFits DEF Submitted, RunInv
<1>6. CASE pc[c] \in {"rejected", "mark"} /\ r = mine[c] /\ \E s : Moved(r, s)
    BY <1>1, <1>2, <1>6 DEF Moved, RunInv, StarterInv
<1>7. CASE pc[c] = "launch" /\ r = mine[c] /\ rec'[r] = rec[r] /\ sup'[r] = "boot"
    BY <1>1, <1>2, <1>7 DEF RunInv, StarterInv, PlaceInv, Owning
<1>8. CASE Removed(c, r)
  <2>1. ~Active(rec[r].state)
      BY <1>8 DEF Removed, PurgeInv
  <2>2. sup[r] \notin {"boot", "running", "ending"} /\ ~rec'[r].claimed
      BY <1>2, <1>8, <2>1 DEF RunInv, Removed, Active, ActiveStates, NoRecord
  <2> QED BY <1>1, <1>2, <1>8, <2>2 DEF RunInv, Removed
<1> QED BY <1>3, <1>4, <1>5, <1>6, <1>7, <1>8, ClientTouches DEF Touched

LEMMA RunKeptBySupervisor ==
    ASSUME TypeOK, RoomInv, \A q \in Runs : RunInv(q), NEW r \in Runs, SupervisorStep(r) \/ KillSup(r)
    PROVE  \A q \in Runs : RunInv(q)'
<1>1. Created' = Created
    BY SupervisorRoom
<1>2. ASSUME NEW q \in Runs \ {r} PROVE RunInv(q)'
  <2>1. Kept(q) /\ (lock = q => lock' = q)
      BY SupervisorTouches, SupervisorFrame
  <2> QED BY <1>1, <2>1 DEF RunInv, Kept
<1>3. RunInv(r)'
    BY <1>1, SupervisorTouches DEF RunInv, Terminal, TerminalStates
<1> QED BY <1>2, <1>3

-----------------------------------------------------------------------------
(* Starters, and who gives up what.                                        *)

LEMMA BaseParts ==
    ASSUME Base
    PROVE  /\ TypeOK /\ RoomInv /\ \A r \in Runs : RunInv(r)
           /\ \A c \in Clients : PlaceInv(c) /\ StarterInv(c) /\ LostInv(c) /\ PurgeInv(c)
BY DEF Base, ClientInv

\* A client works on the run it had, on the run it creates, or on none.
LEMMA MineChange ==
    ASSUME Base, NEW c \in Clients, Call(c) \/ ClientStep(c) \/ CrashClient(c)
    PROVE  /\ mine'[c] \in {0, mine[c]} \/ (mine'[c] = Fresh /\ Fresh \in Runs /\ Fresh \notin Created)
           /\ mine'[c] # 0 => mine'[c] \in Created'
           /\ mine[c] # 0 => mine[c] \in Created
<1>1. TypeOK /\ RoomInv /\ PlaceInv(c)
    BY BaseParts
<1>2. \A d \in Clients : PlaceInv(d)'
    BY BaseParts, PlaceKeeps
<1>3. mine[c] # 0 => mine[c] \in Created
    BY <1>1 DEF PlaceInv
<1>4. mine'[c] # 0 => mine'[c] \in Created'
    BY <1>2 DEF PlaceInv
<1>5. ASSUME mine'[c] \notin {0, mine[c]} PROVE mine'[c] = Fresh /\ Fresh \in Runs /\ Fresh \notin Created
  <2>1. PICK conv : Submit(c, conv) /\ (Admit(c) \/ Reject(c))
    <3>1. ASSUME Leave(c) PROVE FALSE
        BY <1>1, <1>5, <3>1, LeaveEffect
    <3>2. ASSUME mine' = mine PROVE FALSE
        BY <1>5, <3>2
    <3> QED BY <3>1, <3>2 DEF Call, ClientStep, CrashClient, Status, Begin, Purge, Judge, GiveUp, Release,
          Unlink, StatusDone, DenyEarly, Lock, CheckParent, Admit, Reject, Rejected, Link, Mark, Launch,
          Handshake, RemoveRun, AfterRelease, StartFailed, locals
  <2>2. c \in Creating
      BY <1>1, <2>1 DEF Admit, Reject, Judged, PlaceInv, Owning, Creating
  <2>3. Fresh \in Runs /\ Fresh \notin Created
      BY <1>1, <2>2, FreshFits
  <2>4. mine'[c] = Fresh
      BY <1>1, <2>1 DEF Submit, TypeOK
  <2> QED BY <2>3, <2>4
<1> QED BY <1>3, <1>4, <1>5

\* What a client's step leaves true of the other clients.
LEMMA OthersKept ==
    ASSUME Base, NEW c \in Clients, Call(c) \/ ClientStep(c) \/ CrashClient(c), NEW d \in Clients \ {c}
    PROVE  StarterInv(d)' /\ LostInv(d)' /\ PurgeInv(d)'
<1>1. /\ TypeOK /\ RoomInv /\ (\A r \in Runs : RunInv(r))
      /\ PlaceInv(c) /\ StarterInv(c) /\ LostInv(c) /\ PurgeInv(c)
      /\ PlaceInv(d) /\ StarterInv(d) /\ LostInv(d) /\ PurgeInv(d)
    BY BaseParts
<1>2. OthersSame(c)
    BY <1>1, ClientFrame
<1>3. \A r \in Runs : Kept(r) \/ Touched(c, r)
    BY <1>1, ClientTouches
<1>4. Fresh \notin Created /\ Created \subseteq Runs
    BY <1>1, FreshFits DEF Created
<1>5. \A e \in Clients : mine[e] # 0 => mine[e] \in Created
    BY BaseParts DEF PlaceInv
<1>6. mine'[c] \in {0, mine[c]} \/ mine'[c] = Fresh
    BY MineChange
<1>7. Same(d) /\ mine'[d] = mine[d]
    BY <1>2 DEF OthersSame, Same
<1>8. \A e \in Clients : mine'[e] = mine'[d] /\ mine'[d] # 0 => e = d
    BY <1>1, <1>2, <1>4, <1>5, <1>6, <1>7 DEF OthersSame, Same, StarterInv
<1>9. ASSUME pc[d] \in {"rejected", "link", "mark", "launch", "handshake"}
      PROVE  /\ sup'[mine[d]] = sup[mine[d]]
             /\ pc[d] # "handshake" => /\ rec'[mine[d]].state = rec[mine[d]].state
                                       /\ rec'[mine[d]].claimed = rec[mine[d]].claimed
  <2>1. mine[d] \in Created /\ mine[d] # 0 /\ mine[c] # mine[d]
      BY <1>1, <1>4, <1>9, Types DEF PlaceInv, Owning, StarterInv
  <2>2. CASE Kept(mine[d])
      BY <2>2 DEF Kept
  <2>3. CASE pc[c] = "giveup" /\ mine[d] = lostRun[c] /\ Moved(mine[d], "FAILED")
    <3>1. pc[d] = "handshake"
        BY <1>1, <1>9, <2>3 DEF StarterInv, LostInv, GivingUp
    <3> QED BY <2>3, <3>1 DEF Moved
  <2>4. CASE Submitted(c, mine[d])
      BY <1>4, <2>1, <2>4 DEF Submitted
  <2>5. CASE Removed(c, mine[d])
    <3>1. ~Active(rec[mine[d]].state)
        BY <1>1, <2>5 DEF Removed, PurgeInv
    <3>2. pc[d] = "handshake"
        BY <1>1, <1>9, <3>1 DEF StarterInv, Active, ActiveStates
    <3> QED BY <2>5, <3>2 DEF Removed
  <2> QED BY <1>3, <1>4, <2>1, <2>2, <2>3, <2>4, <2>5 DEF Touched
<1>10. StarterInv(d)'
    BY <1>1, <1>7, <1>8, <1>9 DEF StarterInv, Same
<1>11. LostInv(d)'
  <2> SUFFICES ASSUME GivingUp(d)
               PROVE  \/ sup'[lostRun[d]] = "gone"
                      \/ sup'[lostRun[d]] = "none" /\ \A e \in Clients : mine'[e] = lostRun[d] => e = d
      BY <1>7 DEF LostInv, GivingUp, Same
  <2>1. lostRun[d] \in Created /\ lostRun[d] # 0
      BY <1>1, <1>4, Types DEF PlaceInv
  <2>2. sup'[lostRun[d]] = sup[lostRun[d]]
    <3>1. ~(pc[c] = "launch" /\ lostRun[d] = mine[c])
        BY <1>1 DEF StarterInv, LostInv
    <3> QED BY <1>3, <1>4, <2>1, <3>1 DEF Kept, Touched, Moved, Submitted, Removed
  <2>3. mine'[c] = lostRun[d] => mine[c] = lostRun[d]
      BY <1>4, <1>6, <2>1
  <2> QED BY <1>1, <1>2, <2>2, <2>3 DEF LostInv, OthersSame, Same
<1>12. PurgeInv(d)'
  <2> SUFFICES ASSUME pc[d] = "purge", NEW t \in todo[d] PROVE ~Active(rec'[t[1]].state)
      BY <1>7 DEF PurgeInv, Same
  <2>1. t[1] \in Created /\ ~Active(rec[t[1]].state)
      BY <1>1 DEF PlaceInv, PurgeInv
  <2>2. ~(pc[c] = "mark" /\ t[1] = mine[c])
      BY <1>1, <2>1 DEF StarterInv, Active, ActiveStates
  <2> QED BY <1>3, <1>4, <2>1, <2>2
          DEF Kept, Touched, Moved, Submitted, Removed, Active, ActiveStates, NoRecord
<1> QED BY <1>10, <1>11, <1>12

\* And of the client itself.
LEMMA OwnKept ==
    ASSUME Base, NEW c \in Clients, Call(c) \/ ClientStep(c) \/ CrashClient(c)
    PROVE  StarterInv(c)' /\ LostInv(c)' /\ PurgeInv(c)'
<1>1. /\ TypeOK /\ RoomInv /\ (\A r \in Runs : RunInv(r))
      /\ PlaceInv(c) /\ StarterInv(c) /\ LostInv(c) /\ PurgeInv(c)
    BY BaseParts
<1>2. OthersSame(c)
    BY <1>1, ClientFrame
<1>4. Fresh \notin Created /\ Created \subseteq Runs
    BY <1>1, FreshFits DEF Created
<1>5. \A e \in Clients : mine[e] # 0 => mine[e] \in Created
    BY BaseParts DEF PlaceInv
<1>6. mine'[c] \in {0, mine[c]} \/ mine'[c] = Fresh
    BY MineChange
<1>7. \A e \in Clients : mine'[e] = mine'[c] /\ mine'[c] # 0 => e = c
    BY <1>1, <1>2, <1>4, <1>5, <1>6 DEF OthersSame, Same, StarterInv
<1>a. mine[c] # 0 => mine[c] \in Runs
    BY <1>4, <1>5
<1> DEFINE P == StarterInv(c)' /\ LostInv(c)' /\ PurgeInv(c)'
<1>8. ASSUME pc'[c] \in {"idle", "judge", "reject"} PROVE P
    BY <1>7, <1>8 DEF StarterInv, LostInv, PurgeInv, GivingUp
<1>9. ASSUME Leave(c) PROVE P
    BY <1>1, <1>8, <1>9, LeaveEffect
<1> USE DEF GoTo, SetPhase
<1>10. ASSUME Status(c) \/ Begin(c) \/ StatusDone(c) \/ DenyEarly(c) \/ Lock(c) \/ CheckParent(c)
              \/ Rejected(c) \/ CrashClient(c)
       PROVE  P
    BY <1>1, <1>8, <1>9, <1>10 DEF Status, Begin, StatusDone, DenyEarly, Judged, Lock, CheckParent,
                                   Rejected, CrashClient, TypeOK
<1>11. ASSUME Purge(c) PROVE P
  <2>1. pc'[c] = "purge" /\ UNCHANGED rec
      BY <1>1, <1>11 DEF Purge, TypeOK
  <2>2. \A t \in todo'[c] : ~Active(rec[t[1]].state)
    <3>1. PICK k \in Created : todo' = [todo EXCEPT ![c] =
             {<<r, rec[r].state>> : r \in {q \in 1 .. k : Terminal(rec[q].state)}}]
        BY <1>11 DEF Purge
    <3>2. \A s : Terminal(s) => ~Active(s)
        BY DEF Terminal, TerminalStates, Active, ActiveStates
    <3> QED BY <1>1, <3>1, <3>2 DEF TypeOK
  <2> QED BY <1>7, <2>1, <2>2 DEF StarterInv, LostInv, PurgeInv, GivingUp
<1>12. ASSUME Judge(c) PROVE P
  <2>1. CASE pc'[c] = "judge"
      BY <1>8, <2>1
  <2>2. CASE pc'[c] # "judge"
    <3>1. PICK t \in todo[c] : Lost(t[1]) /\ lostRun' = [lostRun EXCEPT ![c] = t[1]] /\ GoTo(c, "giveup")
        BY <1>1, <1>12, <2>2 DEF Judge, TypeOK
    <3>2. lostRun'[c] = t[1] /\ pc'[c] = "giveup" /\ UNCHANGED <<sup, mine, rec>>
        BY <1>1, <1>12, <3>1 DEF Judge, TypeOK
    <3>3. LostInv(c)'
        BY <3>1, <3>2 DEF LostInv, Lost, Starting
    <3> QED BY <1>7, <3>2, <3>3 DEF StarterInv, PurgeInv
  <2> QED BY <2>1, <2>2
<1>13. ASSUME GiveUp(c) PROVE P
  <2>1. CASE Exists(lostRun[c])
    <3>1. pc'[c] = "release" /\ UNCHANGED <<sup, mine, lostRun, todo>>
        BY <1>1, <1>13, <2>1 DEF GiveUp, locals, TypeOK
    <3> QED BY <1>1, <1>7, <1>13, <3>1 DEF GiveUp, StarterInv, LostInv, PurgeInv, GivingUp
  <2> QED BY <1>9, <1>13, <2>1 DEF GiveUp
<1>14. ASSUME AfterRelease(c), GivingUp(c), lock = c \/ lock = Nobody PROVE P
  <2>1. Locked(c) => lock = c
      BY <1>1 DEF PlaceInv
  <2>2. CASE phase[c] = "start"
      BY <1>9, <1>14, <2>2 DEF AfterRelease
  <2>3. CASE phase[c] # "start"
      BY <1>1, <1>8, <1>14, <2>1, <2>3, AfterReleaseEffect
  <2> QED BY <2>2, <2>3
<1>15. ASSUME Release(c) PROVE P
  <2>1. CASE lock' = c /\ GoTo(c, "unlink") /\ UNCHANGED locals
    <3>1. pc'[c] = "unlink" /\ UNCHANGED <<sup, mine, lostRun>>
        BY <1>1, <1>15, <2>1 DEF Release, locals, TypeOK
    <3> QED BY <1>1, <1>7, <1>15, <3>1 DEF Release, StarterInv, LostInv, PurgeInv, GivingUp
  <2> QED BY <1>9, <1>14, <1>15, <2>1 DEF Release, GivingUp
<1>16. ASSUME Unlink(c) PROVE P
    BY <1>1, <1>14, <1>16 DEF Unlink, GivingUp, PlaceInv
<1>17. ASSUME NEW conv, Submit(c, conv), c \in Creating, UNCHANGED sup
       PROVE  rec'[mine'[c]].state = "SUBMITTED" /\ ~rec'[mine'[c]].claimed /\ sup'[mine'[c]] = "none"
  <2>1. Fresh \in Runs
      BY <1>1, <1>17, FreshFits
  <2>2. Submit(c, conv)
      BY <1>17
  <2>3. rec'[Fresh] = [state |-> "SUBMITTED", ask |-> req[c].ask, parent |-> req[c].parent,
                       conv |-> conv, claimed |-> FALSE, contBy |-> 0]
      BY <1>1, <2>1, <2>2, SubmitEffect
  <2>4. mine'[c] = Fresh
      BY <1>1, <2>1, <2>2, SubmitEffect
  <2>5. sup'[Fresh] = "none"
      BY <1>1, <1>4, <1>17, <2>1 DEF RunInv
  <2> QED BY <2>3, <2>4, <2>5
<1>18. ASSUME Admit(c) PROVE P
  <2>1. c \in Creating
      BY <1>1, <1>18 DEF Admit, Judged, PlaceInv, Owning, Creating
  <2>2. CASE pc'[c] = "reject"
      BY <1>8, <2>2
  <2>3. CASE Submit(c, Conversation(req[c])) /\ GoTo(c, "link")
    <3>1. pc'[c] = "link"
        BY <1>1, <2>3 DEF TypeOK
    <3>2. rec'[mine'[c]].state = "SUBMITTED" /\ ~rec'[mine'[c]].claimed /\ sup'[mine'[c]] = "none"
        BY <1>17, <1>18, <2>1, <2>3 DEF Admit
    <3> QED BY <1>7, <3>1, <3>2 DEF StarterInv, LostInv, PurgeInv, GivingUp
  <2> QED BY <1>1, <1>18, <2>2, <2>3 DEF Admit, TypeOK
<1>19. ASSUME Reject(c) PROVE P
  <2>1. c \in Creating
      BY <1>1, <1>19 DEF Reject, PlaceInv, Owning, Creating
  <2>2. pc'[c] = "rejected"
      BY <1>1, <1>19 DEF Reject, TypeOK
  <2>3. rec'[mine'[c]].state = "SUBMITTED" /\ ~rec'[mine'[c]].claimed /\ sup'[mine'[c]] = "none"
      BY <1>17, <1>19, <2>1 DEF Reject
  <2> QED BY <1>7, <2>2, <2>3 DEF StarterInv, LostInv, PurgeInv, GivingUp
<1>20. ASSUME Link(c) PROVE P
  <2>1. pc'[c] = "mark" /\ UNCHANGED <<sup, mine>>
      BY <1>1, <1>20 DEF Link, locals, TypeOK
  <2>2. mine[c] \in Runs
      BY <1>1, <1>4, <1>20 DEF Link, PlaceInv, Owning
  <2>3. rec'[mine[c]].state = rec[mine[c]].state /\ rec'[mine[c]].claimed = rec[mine[c]].claimed
    <3>1. CASE UNCHANGED rec
        BY <3>1
    <3>2. CASE rec' = [rec EXCEPT ![req[c].parent].contBy = mine[c]]
        BY <1>1, <2>2, <3>2, LinkEffect
    <3> QED BY <1>20, <3>1, <3>2 DEF Link
  <2> QED BY <1>1, <1>7, <1>20, <2>1, <2>3 DEF Link, StarterInv, LostInv, PurgeInv, GivingUp
<1>21. ASSUME Mark(c) PROVE P
  <2>1. pc'[c] = "launch" /\ UNCHANGED <<sup, mine>>
      BY <1>1, <1>21 DEF Mark, TypeOK
  <2>2. mine[c] \in Runs
      BY <1>1, <1>4, <1>21 DEF Mark, PlaceInv, Owning
  <2>3. rec'[mine[c]].state = "STARTING" /\ rec'[mine[c]].claimed = rec[mine[c]].claimed
      BY <1>1, <1>21, <2>2, StateEffect DEF Mark
  <2> QED BY <1>1, <1>7, <1>21, <2>1, <2>3 DEF Mark, StarterInv, LostInv, PurgeInv, GivingUp
<1>22. ASSUME Launch(c) PROVE P
  <2>1. mine[c] \in Runs /\ sup[mine[c]] = "none" /\ mine[c] # 0
      BY <1>1, <1>4, <1>22, Types DEF Launch, PlaceInv, Owning, StarterInv
  <2>2. CASE sup' = [sup EXCEPT ![mine[c]] = "boot"] /\ GoTo(c, "handshake")
    <3>1. pc'[c] = "handshake" /\ sup'[mine[c]] = "boot" /\ UNCHANGED mine
        BY <1>1, <1>22, <2>1, <2>2 DEF Launch, TypeOK
    <3> QED BY <1>7, <3>1 DEF StarterInv, LostInv, PurgeInv, GivingUp
  <2>3. CASE StartFailed(c) /\ UNCHANGED sup
    <3>1. pc'[c] = "giveup" /\ lostRun'[c] = mine[c] /\ UNCHANGED <<sup, mine>>
        BY <1>1, <1>22, <2>3 DEF Launch, StartFailed, TypeOK
    <3>2. \A e \in Clients : mine'[e] = lostRun'[c] => e = c
        BY <1>7, <2>1, <3>1
    <3> QED BY <1>7, <2>1, <3>1, <3>2 DEF StarterInv, LostInv, PurgeInv, GivingUp
  <2> QED BY <1>22, <2>2, <2>3 DEF Launch
<1>23. ASSUME Handshake(c) PROVE P
  <2>1. CASE sup[mine[c]] = "gone" /\ StartFailed(c)
    <3>1. pc'[c] = "giveup" /\ lostRun'[c] = mine[c] /\ UNCHANGED sup
        BY <1>1, <1>23, <2>1 DEF Handshake, StartFailed, TypeOK
    <3> QED BY <1>7, <2>1, <3>1 DEF StarterInv, LostInv, PurgeInv, GivingUp
  <2> QED BY <1>9, <1>23, <2>1 DEF Handshake
<1>24. ASSUME RemoveRun(c) PROVE P
  <2>1. ASSUME NEW t \in todo[c],
               rec' = [rec EXCEPT ![t[1]] = [NoRecord EXCEPT !.state = "purged"]],
               todo' = [todo EXCEPT ![c] = @ \ {t}],
               UNCHANGED <<lock, pc, phase, req, mine, active, lostRun>>
        PROVE  P
    <3>1. pc'[c] = "purge" /\ todo'[c] \subseteq todo[c]
        BY <1>1, <1>24, <2>1 DEF RemoveRun, TypeOK
    <3>2. ASSUME NEW u \in todo[c] PROVE ~Active(rec'[u[1]].state)
        BY <1>1, <1>24, <2>1 DEF RemoveRun, PurgeInv, Active, ActiveStates, NoRecord, TypeOK
    <3> QED BY <1>7, <3>1, <3>2 DEF StarterInv, LostInv, PurgeInv, GivingUp
  <2> QED BY <1>9, <1>24, <2>1 DEF RemoveRun
<1> QED
    BY <1>10, <1>11, <1>12, <1>13, <1>15, <1>16, <1>18, <1>19, <1>20, <1>21, <1>22, <1>23, <1>24
    DEF Call, ClientStep

\* A supervisor disturbs none of this.
LEMMA BySupervisorKept ==
    ASSUME Base, NEW r \in Runs, SupervisorStep(r) \/ KillSup(r), NEW d \in Clients
    PROVE  PlaceInv(d)' /\ StarterInv(d)' /\ LostInv(d)' /\ PurgeInv(d)'
<1>1. /\ TypeOK /\ RoomInv /\ (\A q \in Runs : RunInv(q))
      /\ PlaceInv(d) /\ StarterInv(d) /\ LostInv(d) /\ PurgeInv(d)
    BY BaseParts
<1>2. /\ UNCHANGED <<pc, phase, req, mine, todo, active, lostRun>>
      /\ Same(d)
    BY <1>1, SupervisorFrame
<1>3. Created' = Created
    BY <1>1, SupervisorRoom
<1>4. PlaceInv(d)'
    BY <1>1, <1>2, <1>3, PlaceSame
<1>5. \A q \in Runs \ {r} : Kept(q)
    BY <1>1, SupervisorTouches
<1>6. /\ sup[r] # "none" /\ sup'[r] # "none"
      /\ sup[r] = "gone" => sup'[r] = "gone"
      /\ Active(rec'[r].state) => Active(rec[r].state)
    BY <1>1, SupervisorTouches DEF RunInv, Terminal, TerminalStates, Active, ActiveStates
<1>7. Created \subseteq Runs
    BY DEF Created
<1>8. StarterInv(d)'
    BY <1>1, <1>2, <1>5, <1>6, <1>7 DEF StarterInv, PlaceInv, Owning, Kept
<1>9. LostInv(d)'
    BY <1>1, <1>2, <1>5, <1>6, <1>7 DEF LostInv, PlaceInv, Kept, GivingUp
<1>10. PurgeInv(d)'
    BY <1>1, <1>2, <1>5, <1>6, <1>7 DEF PurgeInv, PlaceInv, Kept
<1> QED BY <1>4, <1>8, <1>9, <1>10

-----------------------------------------------------------------------------
LEMMA BaseInit == Init => Base
<1> SUFFICES ASSUME Init PROVE Base
    OBVIOUS
<1> USE DEF Init
<1>1. TypeOK
  <2>1. NoRequest \in [ask : Request, parent : 0 .. MaxRuns]
      BY Types DEF NoRequest
  <2> QED BY <2>1, Types DEF TypeOK, Labels
<1>2. RoomInv
  <2>1. Created = {} /\ Creating = {}
      BY DEF Created, Creating, NoRecord
  <2>2. Cardinality({}) = 0 /\ {} = 1 .. 0
      BY FS_EmptySet
  <2> QED BY <2>1, <2>2, LimitAssumption DEF RoomInv
<1>3. ASSUME NEW c \in Clients PROVE PlaceInv(c) /\ StarterInv(c) /\ LostInv(c) /\ PurgeInv(c)
    BY <1>3 DEF PlaceInv, StarterInv, LostInv, PurgeInv, GivingUp, Owning, Locked
<1>4. ASSUME NEW r \in Runs PROVE RunInv(r)
    BY <1>4 DEF RunInv, NoRecord
<1> QED BY <1>1, <1>2, <1>3, <1>4 DEF Base, ClientInv

LEMMA BaseKept == Base /\ [Next]_vars => Base'
<1> SUFFICES ASSUME Base, [Next]_vars PROVE Base'
    OBVIOUS
<1>1. CASE UNCHANGED vars
    BY <1>1 DEF vars, locals, Base, TypeOK, RoomInv, Created, Creating, ClientInv, PlaceInv, StarterInv,
        LostInv, PurgeInv, RunInv, GivingUp, Owning, Locked
<1>2. CASE Next
  <2>1. TypeOK'
    <3>1. \A c \in Clients : PlaceInv(c) /\ (c \in Creating => Fresh \in Runs)
        BY BaseParts, FreshFits
    <3> QED BY <1>2, <3>1, BaseParts, TypeKeeps
  <2>2. ASSUME NEW c \in Clients, Call(c) \/ ClientStep(c) \/ CrashClient(c) PROVE Base'
    <3>1. RoomInv'
        BY <2>2, BaseParts, ClientRoom
    <3>2. \A r \in Runs : RunInv(r)'
        BY <2>2, BaseParts, RunKeptByClient
    <3>3. \A d \in Clients : PlaceInv(d)'
        BY <2>2, BaseParts, PlaceKeeps
    <3>4. \A d \in Clients : StarterInv(d)' /\ LostInv(d)' /\ PurgeInv(d)'
        BY <2>2, OthersKept, OwnKept
    <3> QED BY <2>1, <3>1, <3>2, <3>3, <3>4 DEF Base, ClientInv
  <2>3. ASSUME NEW r \in Runs, SupervisorStep(r) \/ KillSup(r) PROVE Base'
    <3>1. RoomInv'
        BY <2>3, BaseParts, SupervisorRoom
    <3>2. \A q \in Runs : RunInv(q)'
        BY <2>3, BaseParts, RunKeptBySupervisor
    <3>3. \A d \in Clients : PlaceInv(d)' /\ StarterInv(d)' /\ LostInv(d)' /\ PurgeInv(d)'
        BY <2>3, BySupervisorKept
    <3> QED BY <2>1, <3>1, <3>2, <3>3 DEF Base, ClientInv
  <2> QED BY <1>2, <2>2, <2>3 DEF Next
<1> QED BY <1>1, <1>2

\* Every variable keeps its type, whatever is killed: in particular no record
\* is ever left in a state task.py does not know.
THEOREM TypeCorrect == Spec => []TypeOK
<1>1. Base => TypeOK
    BY BaseParts
<1> QED BY <1>1, BaseInit, BaseKept, PTL DEF Spec

-----------------------------------------------------------------------------
(* Capacity and workspaces.                                                *)

\* Only the start of a run admits it.
LEMMA AdmittedByClient ==
    ASSUME Base, NEW c \in Clients, Call(c) \/ ClientStep(c) \/ CrashClient(c)
    PROVE  /\ \A r \in AdmittedRuns' : r \in AdmittedRuns \/ (pc[c] = "mark" /\ r = mine[c])
           /\ \A r \in AdmittedRuns' : rec'[r].ask = rec[r].ask
<1>1. \A r \in Runs : Kept(r) \/ Touched(c, r)
    BY BaseParts, ClientTouches
<1> QED BY <1>1 DEF AdmittedRuns, Admitted, Kept, Touched, Moved, Submitted, Removed, NoRecord

LEMMA AdmittedBySupervisor ==
    ASSUME Base, NEW r \in Runs, SupervisorStep(r) \/ KillSup(r)
    PROVE  /\ AdmittedRuns' \subseteq AdmittedRuns
           /\ \A q \in Runs : rec'[q].ask = rec[q].ask
<1>1. TypeOK /\ RunInv(r)
    BY BaseParts
<1>2. /\ \A q \in Runs \ {r} : Kept(q)
      /\ rec'[r].ask = rec[r].ask
    BY <1>1, SupervisorTouches
<1>3. Admitted(r)' => Admitted(r)
    BY <1>1, SupervisorTouches DEF Admitted, RunInv, Terminal, TerminalStates
<1> QED BY <1>2, <1>3 DEF AdmittedRuns, Admitted, Kept

LEMMA FewAdmitted ==
    ASSUME NEW A \in SUBSET Runs
    PROVE  /\ IsFiniteSet(A) /\ Cardinality(A) \in Nat
           /\ \A B \in SUBSET A : Cardinality(B) <= Cardinality(A) /\ Cardinality(B) \in Nat
<1>1. IsFiniteSet(Runs)
    BY FS_Interval, LimitAssumption DEF Runs
<1>2. IsFiniteSet(A)
    BY <1>1, FS_Subset
<1>3. ASSUME NEW B \in SUBSET A
      PROVE  Cardinality(B) <= Cardinality(A) /\ Cardinality(B) \in Nat
    BY <1>2, FS_Subset, FS_CardinalityType
<1> QED BY <1>2, <1>3, FS_CardinalityType

\* While another client holds the lock, nothing is admitted.
LEMMA CountByOther ==
    ASSUME Base, CountInv, NEW c \in Clients, Call(c) \/ ClientStep(c) \/ CrashClient(c),
           NEW d \in Clients \ {c}
    PROVE  ScanInv(d)' /\ AdmitInv(d)'
<1>1. /\ TypeOK /\ RoomInv /\ PlaceInv(c) /\ PlaceInv(d)
      /\ StarterInv(d) /\ PurgeInv(c) /\ ScanInv(d) /\ AdmitInv(d)
    BY BaseParts DEF CountInv
<1>2. Same(d)
    BY <1>1, ClientFrame DEF OthersSame
<1>3. SUFFICES ASSUME phase[d] = "scan"
               PROVE  ScanInv(d)' /\ AdmitInv(d)'
    BY <1>1, <1>2 DEF ScanInv, AdmitInv, PlaceInv, Same
<1>4. pc[c] # "mark"
    BY <1>1, <1>3 DEF PlaceInv, Locked
<1>5. AdmittedRuns' \subseteq AdmittedRuns /\ \A r \in AdmittedRuns' : rec'[r].ask = rec[r].ask
    BY <1>4, AdmittedByClient
<1>6. ScanInv(d)'
    BY <1>1, <1>2, <1>5 DEF ScanInv, Same, GivingUp
<1>7. AdmitInv(d)'
  <2> SUFFICES ASSUME pc[d] \in {"link", "mark"} PROVE AdmitInv(d)'
      BY <1>2 DEF AdmitInv, Same
  <2>1. Cardinality(AdmittedRuns') <= Cardinality(AdmittedRuns) /\ Cardinality(AdmittedRuns) \in Nat
        /\ Cardinality(AdmittedRuns') \in Nat
    <3>1. AdmittedRuns \in SUBSET Runs
        BY DEF AdmittedRuns
    <3> QED BY <1>5, <3>1, FewAdmitted
  <2>2. Cardinality(AdmittedRuns') < MaxConcurrency
      BY <1>1, <2>1, LimitAssumption DEF AdmitInv
  <2>3. mine[d] \in Created /\ mine[d] \in Runs /\ rec[mine[d]].state = "SUBMITTED"
      BY <1>1 DEF PlaceInv, Owning, Created, StarterInv
  <2>4. rec'[mine[d]].ask = rec[mine[d]].ask
    <3>1. Kept(mine[d]) \/ Touched(c, mine[d])
        BY <1>1, <2>3, ClientTouches
    <3>2. ~Submitted(c, mine[d])
        BY <1>1, <2>3, FreshFits DEF Submitted
    <3>3. ~Removed(c, mine[d])
        BY <1>1, <2>3 DEF Removed, PurgeInv, Active, ActiveStates
    <3> QED BY <3>1, <3>2, <3>3 DEF Kept, Touched, Moved
  <2> QED BY <1>1, <1>2, <1>5, <2>2, <2>4 DEF AdmitInv, Same
<1> QED BY <1>6, <1>7

LEMMA CountBySupervisor ==
    ASSUME Base, CountInv, NEW r \in Runs, SupervisorStep(r) \/ KillSup(r)
    PROVE  CountInv'
<1>1. /\ AdmittedRuns' \subseteq AdmittedRuns
      /\ \A q \in Runs : rec'[q].ask = rec[q].ask
    BY AdmittedBySupervisor
<1>2. /\ UNCHANGED <<pc, phase, req, mine, todo, active, lostRun>>
    BY BaseParts, SupervisorFrame
<1>3. AdmittedRuns \in SUBSET Runs
    BY DEF AdmittedRuns
<1>4. /\ Cardinality(AdmittedRuns') <= Cardinality(AdmittedRuns) /\ Cardinality(AdmittedRuns) \in Nat
      /\ Cardinality(AdmittedRuns') \in Nat
    BY <1>1, <1>3, FewAdmitted
<1>5. ASSUME NEW d \in Clients PROVE ScanInv(d)' /\ AdmitInv(d)'
  <2>1. ScanInv(d) /\ AdmitInv(d)
      BY DEF CountInv
  <2>2. ScanInv(d)'
      BY <1>1, <1>2, <2>1 DEF ScanInv, GivingUp
  <2>3. pc[d] \in {"link", "mark"} => mine[d] \in Runs
      BY BaseParts DEF PlaceInv, Owning, Created
  <2>4. AdmitInv(d)'
      BY <1>1, <1>2, <1>3, <1>4, <2>1, <2>3, LimitAssumption DEF AdmitInv
  <2> QED BY <2>2, <2>4
<1>6. WritersInv'
    BY <1>1, <1>3 DEF WritersInv, CountInv
<1>7. Capacity'
    BY <1>4, LimitAssumption DEF Capacity, CountInv, AdmittedRuns
<1> QED BY <1>5, <1>6, <1>7 DEF CountInv

\* A scan misses no run that was admitted when it took its list.
LEMMA ScanKept ==
    ASSUME Base, CountInv, NEW c \in Clients, Call(c) \/ ClientStep(c) \/ CrashClient(c)
    PROVE  ScanInv(c)'
<1>1. TypeOK /\ RoomInv /\ PlaceInv(c) /\ ScanInv(c)
    BY BaseParts DEF CountInv
<1>2. \A r \in AdmittedRuns' : r \in AdmittedRuns \/ (pc[c] = "mark" /\ r = mine[c])
    BY AdmittedByClient
<1>3. ASSUME phase'[c] # "scan" \/ pc'[c] \notin {"judge", "giveup", "release", "unlink"} PROVE ScanInv(c)'
    BY <1>3 DEF ScanInv, GivingUp
<1>4. ASSUME Leave(c) PROVE ScanInv(c)'
    BY <1>1, <1>3, <1>4, LeaveEffect
<1>5. ASSUME UNCHANGED rec, todo'[c] = Listed(Runs), pc'[c] = "judge" PROVE ScanInv(c)'
  <2>1. AdmittedRuns' = AdmittedRuns
      BY <1>5 DEF AdmittedRuns, Admitted
  <2>2. ASSUME NEW r \in AdmittedRuns PROVE \E t \in Listed(Runs) : t[1] = r
    <3>1. <<r, rec[r].state>> \in Listed(Runs)
        BY DEF Listed, AdmittedRuns, Admitted, Active, ActiveStates
    <3> QED BY <3>1
  <2> QED BY <1>5, <2>1, <2>2 DEF ScanInv
<1>6. ASSUME pc[c] \in {"release", "unlink"}, pc'[c] \in {"judge", "unlink"},
             UNCHANGED <<phase, todo, active>>
      PROVE  ScanInv(c)'
    BY <1>1, <1>2, <1>6 DEF ScanInv, GivingUp
<1> USE DEF GoTo, SetPhase
<1>7. CASE Status(c) \/ Begin(c) \/ Purge(c)
    BY <1>1, <1>3, <1>7 DEF Status, Begin, Purge, TypeOK
<1>8. CASE Judge(c)
  <2>1. PICK t \in todo[c] :
             /\ todo' = [todo EXCEPT ![c] = @ \ {t}]
             /\ \/ /\ lostRun' = [lostRun EXCEPT ![c] = t[1]]
                   /\ pc' = [pc EXCEPT ![c] = "giveup"]
                   /\ UNCHANGED active
                \/ /\ active' = IF phase[c] = "scan" THEN [active EXCEPT ![c] = @ \union {t[1]}]
                                 ELSE active
                   /\ UNCHANGED <<lostRun, pc>>
      BY <1>8 DEF Judge
  <2>2. UNCHANGED <<rec, phase>> /\ pc[c] = "judge" /\ todo'[c] = todo[c] \ {t}
      BY <1>1, <1>8, <2>1 DEF Judge, TypeOK
  <2>3. CASE lostRun'[c] = t[1] /\ pc'[c] = "giveup" /\ active'[c] = active[c]
      BY <1>1, <2>2, <2>3 DEF ScanInv, GivingUp, AdmittedRuns, Admitted
  <2>4. CASE pc'[c] = "judge" /\ (phase[c] = "scan" => active'[c] = active[c] \union {t[1]})
      BY <1>1, <2>2, <2>4 DEF ScanInv, GivingUp, AdmittedRuns, Admitted
  <2> QED BY <1>1, <2>1, <2>2, <2>3, <2>4 DEF TypeOK
<1>9. CASE GiveUp(c)
  <2>1. CASE Exists(lostRun[c])
    <3>1. lostRun[c] \in Runs
        BY <1>1, <1>9 DEF GiveUp, PlaceInv, GivingUp, Created
    <3>2. rec'[lostRun[c]].state = "FAILED"
        BY <1>1, <1>9, <2>1, <3>1, StateEffect DEF GiveUp
    <3>3. lostRun[c] \notin AdmittedRuns'
        BY <3>2 DEF AdmittedRuns, Admitted
    <3>4. pc'[c] = "release" /\ UNCHANGED <<phase, todo, active>>
        BY <1>1, <1>9, <2>1 DEF GiveUp, locals, TypeOK
    <3> QED BY <1>1, <1>2, <1>9, <3>3, <3>4 DEF GiveUp, ScanInv, GivingUp
  <2> QED BY <1>4, <1>9, <2>1 DEF GiveUp
<1>10. ASSUME AfterRelease(c), pc[c] \in {"release", "unlink"}, lock = c \/ lock = Nobody PROVE ScanInv(c)'
  <2>1. Locked(c) => lock = c
      BY <1>1 DEF PlaceInv
  <2> QED BY <1>1, <1>4, <1>6, <1>10, <2>1, AfterReleaseEffect
<1>11. CASE Release(c)
  <2>1. CASE lock' = c /\ GoTo(c, "unlink") /\ UNCHANGED locals
      BY <1>1, <1>6, <1>11, <2>1 DEF Release, locals, TypeOK
  <2> QED BY <1>4, <1>10, <1>11, <2>1 DEF Release
<1>12. CASE Unlink(c)
    BY <1>1, <1>10, <1>12 DEF Unlink, PlaceInv
<1>13. CASE StatusDone(c) \/ Rejected(c) \/ CrashClient(c)
    BY <1>4, <1>13 DEF StatusDone, Rejected, CrashClient
<1>14. CASE Lock(c)
  <2>1. CASE Leave(c)
      BY <1>4, <2>1
  <2>2. CASE ~Leave(c)
    <3>1. /\ phase'[c] = IF req[c].parent = 0 THEN "scan" ELSE "parent"
          /\ req[c].parent = 0 => todo'[c] = Listed(Runs)
          /\ pc'[c] = "judge" /\ UNCHANGED rec
        BY <1>1, <1>14, <2>2 DEF Lock, Judged, TypeOK
    <3> QED BY <1>3, <1>5, <3>1
  <2> QED BY <2>1, <2>2
<1>15. CASE CheckParent(c)
  <2>1. \/ pc'[c] = "reject"
        \/ pc'[c] = "judge" /\ todo'[c] = Listed(Runs) /\ UNCHANGED rec
      BY <1>1, <1>15 DEF CheckParent, Judged, TypeOK
  <2> QED BY <1>3, <1>5, <2>1
<1>16. CASE DenyEarly(c) \/ Admit(c) \/ Reject(c) \/ Link(c) \/ Mark(c) \/ Launch(c)
  <2>1. pc'[c] \notin {"judge", "release", "unlink"} /\ (pc'[c] = "giveup" => phase'[c] = "start")
      BY <1>1, <1>16 DEF DenyEarly, Judged, Admit, Reject, Link, Mark, Launch, StartFailed, TypeOK, PlaceInv
  <2> QED BY <1>3, <2>1
<1>17. CASE Handshake(c)
  <2>1. CASE StartFailed(c) /\ UNCHANGED phase
      BY <1>1, <1>3, <1>17, <2>1 DEF Handshake, PlaceInv
  <2> QED BY <1>4, <1>17, <2>1 DEF Handshake
<1>18. CASE RemoveRun(c)
    BY <1>1, <1>3, <1>4, <1>18 DEF RemoveRun
<1> QED
    BY <1>7, <1>8, <1>9, <1>11, <1>12, <1>13, <1>14, <1>15, <1>16, <1>17, <1>18 DEF Call, ClientStep

\* What an admission found holds until its run is marked as started.
LEMMA AdmitKept ==
    ASSUME Base, CountInv, NEW c \in Clients, Call(c) \/ ClientStep(c) \/ CrashClient(c)
    PROVE  AdmitInv(c)'
<1>1. TypeOK /\ RoomInv /\ PlaceInv(c) /\ ScanInv(c) /\ AdmitInv(c) /\ StarterInv(c)
    BY BaseParts DEF CountInv
<1>2. ASSUME pc'[c] \notin {"link", "mark"} PROVE AdmitInv(c)'
    BY <1>2 DEF AdmitInv
<1>3. AdmittedRuns \in SUBSET Runs /\ active[c] \in SUBSET Runs
    BY <1>1 DEF AdmittedRuns, TypeOK
<1>4. ASSUME Admit(c) PROVE AdmitInv(c)'
  <2>1. CASE pc'[c] = "reject"
      BY <1>2, <2>1
  <2>2. CASE ~Full(c) /\ ~Busy(c) /\ Submit(c, Conversation(req[c])) /\ GoTo(c, "link")
    <3>1. AdmittedRuns \subseteq active[c]
        BY <1>1, <1>4 DEF Admit, Judged, ScanInv
    <3>2. Cardinality(AdmittedRuns) < MaxConcurrency
      <4>1. Cardinality(AdmittedRuns) <= Cardinality(active[c]) /\ Cardinality(AdmittedRuns) \in Nat
            /\ Cardinality(active[c]) \in Nat
          BY <1>3, <3>1, FewAdmitted
      <4> QED BY <2>2, <4>1, LimitAssumption DEF Full
    <3>3. \A r \in AdmittedRuns : Apart(req[c].ask, rec[r].ask)
        BY <2>2, <3>1 DEF Busy, Apart
    <3>4. c \in Creating
        BY <1>1, <1>4 DEF Admit, Judged, PlaceInv, Owning, Creating
    <3>5. Fresh \in Runs
        BY <1>1, <3>4, FreshFits
    <3>6. /\ rec'[Fresh] = [state |-> "SUBMITTED", ask |-> req[c].ask, parent |-> req[c].parent,
                            conv |-> Conversation(req[c]), claimed |-> FALSE, contBy |-> 0]
          /\ \A q \in Runs \ {Fresh} : rec'[q] = rec[q]
          /\ mine'[c] = Fresh
        BY <1>1, <2>2, <3>5 DEF Submit, TypeOK
    <3>7. AdmittedRuns' = AdmittedRuns /\ Fresh \notin AdmittedRuns
      <4>1. Fresh \notin Created
          BY <1>1, FreshFits
      <4>2. rec[Fresh].state = "none"
          BY <3>5, <4>1 DEF Created
      <4> QED BY <3>6, <4>2 DEF AdmittedRuns, Admitted
    <3>8. UNCHANGED req
        BY <1>4 DEF Admit
    <3> QED BY <1>3, <3>2, <3>3, <3>6, <3>7, <3>8 DEF AdmitInv
  <2> QED BY <1>1, <1>4, <2>1, <2>2 DEF Admit, GoTo, TypeOK
<1>5. ASSUME Link(c) PROVE AdmitInv(c)'
  <2>1. \A q \in Runs : rec'[q].state = rec[q].state /\ rec'[q].ask = rec[q].ask
    <3>1. CASE UNCHANGED rec
        BY <3>1
    <3>2. CASE rec' = [rec EXCEPT ![req[c].parent].contBy = mine[c]]
        BY <1>1, <3>2, LinkEffect
    <3> QED BY <1>5, <3>1, <3>2 DEF Link
  <2>2. AdmittedRuns' = AdmittedRuns
      BY <2>1 DEF AdmittedRuns, Admitted
  <2>3. mine[c] \in Runs /\ UNCHANGED <<req, mine>> /\ pc[c] = "link"
      BY <1>1, <1>5 DEF Link, PlaceInv, Owning, Created, locals
  <2> QED BY <1>1, <1>3, <2>1, <2>2, <2>3 DEF AdmitInv
<1>6. ASSUME ~Admit(c), ~Link(c) PROVE AdmitInv(c)'
  <2>1. ASSUME Leave(c) PROVE AdmitInv(c)'
      BY <1>1, <1>2, <2>1, LeaveEffect
  <2>2. ASSUME AfterRelease(c), lock = c \/ lock = Nobody PROVE AdmitInv(c)'
    <3>1. Locked(c) => lock = c
        BY <1>1 DEF PlaceInv
    <3> QED BY <1>1, <1>2, <2>1, <2>2, <3>1, AfterReleaseEffect
  <2> USE DEF GoTo, TypeOK, Judged
  <2>3. CASE Status(c) \/ Begin(c) \/ Purge(c) \/ Judge(c) \/ GiveUp(c) \/ StatusDone(c) \/ DenyEarly(c)
             \/ Rejected(c) \/ CrashClient(c)
      BY <1>1, <1>2, <2>1, <2>3
      DEF Status, Begin, Purge, Judge, GiveUp, StatusDone, DenyEarly, Rejected, CrashClient
  <2>4. CASE Release(c)
      BY <1>1, <1>2, <2>1, <2>2, <2>4 DEF Release
  <2>5. CASE Unlink(c)
      BY <1>1, <2>2, <2>5 DEF Unlink, PlaceInv
  <2>6. CASE Lock(c) \/ CheckParent(c) \/ Reject(c) \/ Mark(c) \/ Launch(c) \/ Handshake(c) \/ RemoveRun(c)
      BY <1>1, <1>2, <2>1, <2>6
      DEF Lock, CheckParent, Reject, Mark, Launch, Handshake, RemoveRun, StartFailed
  <2> QED BY <1>6, <2>3, <2>4, <2>5, <2>6 DEF Call, ClientStep
<1> QED BY <1>4, <1>5, <1>6

LEMMA CountByClient ==
    ASSUME Base, CountInv, NEW c \in Clients, Call(c) \/ ClientStep(c) \/ CrashClient(c)
    PROVE  CountInv'
<1>1. TypeOK /\ AdmitInv(c) /\ WritersInv /\ Capacity
    BY BaseParts DEF CountInv
<1>2. /\ \A r \in AdmittedRuns' : r \in AdmittedRuns \/ (pc[c] = "mark" /\ r = mine[c])
      /\ \A r \in AdmittedRuns' : rec'[r].ask = rec[r].ask
    BY AdmittedByClient
<1>3. AdmittedRuns \in SUBSET Runs
    BY DEF AdmittedRuns
<1>4. \A d \in Clients : ScanInv(d)' /\ AdmitInv(d)'
    BY ScanKept, AdmitKept, CountByOther
<1>5. \A p, q : Apart(p, q) => Apart(q, p)
    BY DEF Apart, Overlap
<1>6. WritersInv'
  <2> SUFFICES ASSUME NEW r \in AdmittedRuns', NEW s \in AdmittedRuns', r # s
               PROVE  Apart(rec[r].ask, rec[s].ask)
      BY <1>2 DEF WritersInv
  <2>1. CASE r \in AdmittedRuns /\ s \in AdmittedRuns
      BY <1>1, <2>1 DEF WritersInv
  <2>2. CASE pc[c] = "mark" /\ r = mine[c] /\ s \in AdmittedRuns
      BY <1>1, <2>2 DEF AdmitInv
  <2>3. CASE pc[c] = "mark" /\ s = mine[c] /\ r \in AdmittedRuns
      BY <1>1, <1>5, <2>3 DEF AdmitInv
  <2> QED BY <1>2, <2>1, <2>2, <2>3
<1>7. Capacity'
  <2>1. Cardinality(AdmittedRuns') <= MaxConcurrency
    <3>1. CASE AdmittedRuns' \subseteq AdmittedRuns
      <4>1. Cardinality(AdmittedRuns') <= Cardinality(AdmittedRuns) /\ Cardinality(AdmittedRuns) \in Nat
            /\ Cardinality(AdmittedRuns') \in Nat
          BY <1>3, <3>1, FewAdmitted
      <4> QED BY <1>1, <4>1, LimitAssumption DEF Capacity, AdmittedRuns
    <3>2. CASE ~(AdmittedRuns' \subseteq AdmittedRuns)
      <4>1. pc[c] = "mark" /\ AdmittedRuns' \subseteq AdmittedRuns \union {mine[c]}
          BY <1>2, <3>2
      <4>2. Cardinality(AdmittedRuns) < MaxConcurrency
          BY <1>1, <4>1 DEF AdmitInv
      <4>3. IsFiniteSet(AdmittedRuns) /\ Cardinality(AdmittedRuns) \in Nat
          BY <1>3, FewAdmitted
      <4>4. /\ IsFiniteSet(AdmittedRuns \union {mine[c]})
            /\ Cardinality(AdmittedRuns \union {mine[c]}) <= Cardinality(AdmittedRuns) + 1
          BY <4>3, FS_AddElement
      <4>5. /\ Cardinality(AdmittedRuns') <= Cardinality(AdmittedRuns \union {mine[c]})
            /\ Cardinality(AdmittedRuns') \in Nat
            /\ Cardinality(AdmittedRuns \union {mine[c]}) \in Nat
          BY <4>1, <4>4, FS_Subset, FS_CardinalityType
      <4> QED BY <4>2, <4>3, <4>4, <4>5, LimitAssumption
    <3> QED BY <3>1, <3>2
  <2> QED BY <2>1 DEF Capacity, AdmittedRuns
<1> QED BY <1>4, <1>6, <1>7 DEF CountInv

LEMMA CountInit == Init => CountInv
<1> SUFFICES ASSUME Init PROVE CountInv
    OBVIOUS
<1>1. AdmittedRuns = {}
    BY DEF Init, AdmittedRuns, Admitted, NoRecord
<1>2. Cardinality(AdmittedRuns) = 0
    BY <1>1, FS_EmptySet
<1> QED BY <1>1, <1>2, LimitAssumption DEF Init, CountInv, ScanInv, AdmitInv, WritersInv, Capacity,
                                           AdmittedRuns

LEMMA CountKept == Base /\ CountInv /\ [Next]_vars => CountInv'
<1> SUFFICES ASSUME Base, CountInv, [Next]_vars PROVE CountInv'
    OBVIOUS
<1>1. CASE UNCHANGED vars
    BY <1>1 DEF vars, locals, CountInv, ScanInv, AdmitInv, WritersInv, Capacity, AdmittedRuns, Admitted,
                GivingUp, Apart, Overlap
<1>2. CASE Next
    BY <1>2, CountByClient, CountBySupervisor DEF Next
<1> QED BY <1>1, <1>2

\* Never more admitted runs than policy.max_concurrency: start_task's count is
\* taken under the lock, and what changes meanwhile only lowers it.
THEOREM CapacityHolds == Spec => []Capacity
<1>1. Base /\ CountInv => Capacity
    BY DEF CountInv
<1> QED BY <1>1, BaseInit, BaseKept, CountInit, CountKept, PTL DEF Spec

\* Two write-capable runs whose directories overlap are never both admitted.
THEOREM WorkspacesExclusive == Spec => []WorkspaceExclusive
<1>1. Base /\ CountInv => WorkspaceExclusive
    BY DEF CountInv, WritersInv, WorkspaceExclusive, AdmittedRuns, Apart, Overlap
<1> QED BY <1>1, BaseInit, BaseKept, CountInit, CountKept, PTL DEF Spec

-----------------------------------------------------------------------------
(* Conversations.                                                          *)

\* A step that changes no name; whoever stops using its session was at work.
Quiet ==
    \A r \in Runs :
        /\ rec'[r].parent = rec[r].parent /\ rec'[r].conv = rec[r].conv
        /\ rec'[r].contBy = rec[r].contBy
        /\ Exists(r)' <=> Exists(r)
        /\ ~Exists(r) => rec'[r] = rec[r]
        /\ User(r)' => User(r)
        /\ Attached(r)' => Attached(r)
        /\ User(r) /\ ~Attached(r) => User(r)'

LEMMA NotBlank ==
    ASSUME TypeOK
    PROVE  \A r \in Runs : /\ Exists(r) <=> rec[r].state \notin {"none", "purged"}
                           /\ r \in Created <=> rec[r].state # "none"
                           /\ rec[r].parent \in Runs \union {0}
                           /\ rec[r].contBy \in Runs \union {0}
BY Types DEF TypeOK, Record, Exists, Created, TaskStates, ActiveStates, TerminalStates

\* Only a run that stops using its session leaves its parent the latest user.
LEMMA LatestQuiet ==
    ASSUME TypeOK, LinkInv, Quiet, NEW q \in Runs, Latest(q)', ~Latest(q)
    PROVE  \E n \in Runs : /\ rec[q].contBy = n /\ Latest(n) /\ ~User(n)'
                          /\ rec[n].parent = q /\ rec[n].conv = rec[q].conv
<1>0. \A r \in Runs : rec'[r].contBy = rec[r].contBy /\ (Exists(r)' <=> Exists(r))
    BY DEF Quiet
<1>1. User(q)
    BY DEF Latest, Quiet
<1>2. rec[q].contBy # 0
    BY <1>1 DEF Latest
<1>3. PICK n \in Runs : rec[q].contBy = n
    BY <1>2, NotBlank
<1>4. Exists(n) /\ ~User(n)' /\ User(n)
    BY <1>0, <1>1, <1>2, <1>3 DEF Latest
<1>5. Attached(n)
    BY <1>4 DEF Quiet
<1>6. rec[n].contBy = 0
    BY <1>5 DEF LinkInv, UserInv
<1>7. rec[n].parent = q /\ rec[n].conv = rec[q].conv
    BY <1>2, <1>3, <1>4 DEF LinkInv, NamesInv
<1> QED BY <1>3, <1>4, <1>6, <1>7 DEF Latest

LEMMA LinkQuiet ==
    ASSUME TypeOK, TypeOK', LinkInv, Quiet
    PROVE  LinkInv'
<1>1. \A r \in Runs : /\ rec'[r].parent = rec[r].parent /\ rec'[r].conv = rec[r].conv
                      /\ rec'[r].contBy = rec[r].contBy
                      /\ Exists(r)' <=> Exists(r)
    BY DEF Quiet
<1>2. Created' = Created
    BY DEF Quiet, Exists, Created, TaskStates, ActiveStates, TerminalStates
<1>3. BlankInv'
    BY NotBlank DEF LinkInv, BlankInv, Quiet, Exists, TaskStates, ActiveStates, TerminalStates
<1>4. NamesInv'
    BY <1>1, <1>2, NotBlank DEF LinkInv, NamesInv
<1>5. UserInv'
    BY <1>1, NotBlank DEF LinkInv, UserInv, Quiet
<1>6. LatestInv'
  <2> SUFFICES ASSUME NEW r \in Runs, NEW s \in Runs, Latest(r)', Latest(s)',
                      rec[r].conv = rec[s].conv, rec[r].conv # 0
               PROVE  r = s
      BY <1>1 DEF LatestInv
  <2>1. \A q \in Runs : Latest(q)' /\ ~Latest(q) =>
          \E n \in Runs : /\ rec[q].contBy = n /\ Latest(n) /\ ~User(n)'
                         /\ rec[n].parent = q /\ rec[n].conv = rec[q].conv
      BY LatestQuiet
  <2>2. CASE Latest(r) /\ Latest(s)
      BY <2>2 DEF LinkInv, LatestInv
  <2>3. ASSUME NEW u \in Runs, NEW v \in Runs, Latest(u)', Latest(v)', rec[u].conv = rec[v].conv,
               rec[u].conv # 0, ~Latest(u)
        PROVE  u = v
    <3>1. PICK n \in Runs : /\ rec[u].contBy = n /\ Latest(n) /\ ~User(n)'
                            /\ rec[n].parent = u /\ rec[n].conv = rec[u].conv
        BY <2>1, <2>3
    <3>2. CASE Latest(v)
      <4>1. n = v
          BY <2>3, <3>1, <3>2 DEF LinkInv, LatestInv
      <4>2. User(v)'
          BY <2>3 DEF Latest
      <4> QED BY <3>1, <4>1, <4>2
    <3>3. CASE ~Latest(v)
      <4>1. PICK m \in Runs : /\ rec[v].contBy = m /\ Latest(m)
                              /\ rec[m].parent = v /\ rec[m].conv = rec[v].conv
          BY <2>1, <2>3, <3>3
      <4>2. n = m
          BY <2>3, <3>1, <4>1 DEF LinkInv, LatestInv
      <4> QED BY <3>1, <4>1, <4>2
    <3> QED BY <3>2, <3>3
  <2>4. CASE ~Latest(r)
      BY <2>3, <2>4
  <2>5. CASE ~Latest(s)
    <3>1. s = r
        BY <2>3, <2>5
    <3> QED BY <3>1
  <2> QED BY <2>2, <2>4, <2>5
<1> QED BY <1>3, <1>4, <1>5, <1>6 DEF LinkInv

\* Run r uses the session as before.
UseSame(r) == (User(r)' <=> User(r)) /\ (Attached(r)' <=> Attached(r))

NamesSame(r) ==
    /\ rec'[r].parent = rec[r].parent /\ rec'[r].conv = rec[r].conv
    /\ Exists(r)' <=> Exists(r)
    /\ ~Exists(r) => rec'[r] = rec[r]

\* What was created stays so.
LEMMA SameCreated ==
    ASSUME \A r \in Runs : NamesSame(r)
    PROVE  Created' = Created
BY DEF NamesSame, Exists, Created, TaskStates, ActiveStates, TerminalStates

LEMMA SameBlank ==
    ASSUME TypeOK, TypeOK', BlankInv, \A r \in Runs : NamesSame(r)
    PROVE  BlankInv'
BY NotBlank DEF BlankInv, NamesSame, Exists, TaskStates, ActiveStates, TerminalStates

\* A new run n sets to work: the continuation of a parent p that nothing follows,
\* or the first of its conversation.
Continues(n, p) ==
    /\ p = rec[n].parent /\ p # n /\ Exists(n) /\ ~User(n) /\ rec[n].contBy = 0
    /\ p # 0 => /\ Exists(p) /\ User(p) /\ ~Attached(p)
                /\ rec[p].contBy = 0 /\ rec[n].conv = rec[p].conv
    /\ p = 0 => \A s \in Runs : User(s) /\ rec[s].conv = rec[n].conv => rec[n].conv = 0
    /\ \A r \in Runs : NamesSame(r) /\ rec'[r].contBy = IF r = p THEN n ELSE rec[r].contBy
    /\ User(n)' /\ \A r \in Runs \ {n} : UseSame(r)

LEMMA LinkContinued ==
    ASSUME TypeOK, TypeOK', LinkInv, NEW n \in Runs, NEW p \in Runs \union {0}, Continues(n, p)
    PROVE  LinkInv'
<1> USE DEF Continues
<1>1. Created' = Created
    BY SameCreated
<1>2. BlankInv'
    BY SameBlank DEF LinkInv
<1>3. \A r \in Runs : rec'[r].parent = rec[r].parent /\ rec'[r].conv = rec[r].conv /\ (Exists(r)' <=> Exists(r))
    BY DEF NamesSame
<1>4. NamesInv'
  <2>1. n \in Created
      BY NotBlank
  <2> SUFFICES ASSUME NEW r \in Runs
               PROVE  /\ rec'[r].conv # 0 => rec'[r].conv \in Created'
                      /\ rec'[r].parent # 0 => rec'[r].parent \in Created'
                      /\ rec'[r].contBy # 0 =>
                           /\ rec'[r].contBy \in Created'
                           /\ Exists(rec[r].contBy)' =>
                                /\ rec'[rec'[r].contBy].parent = r
                                /\ rec'[rec'[r].contBy].conv = rec'[r].conv
      BY DEF NamesInv
  <2>2. CASE r = p
    <3>1. rec'[r].contBy = n /\ rec'[n].parent = r /\ rec'[n].conv = rec'[r].conv
        BY <1>3, <2>2, Types
    <3> QED BY <1>1, <1>3, <2>1, <3>1 DEF LinkInv, NamesInv
  <2>3. CASE r # p
      BY <1>1, <1>3, <2>3, NotBlank DEF LinkInv, NamesInv
  <2> QED BY <2>2, <2>3
<1>5. UserInv'
  <2>1. ASSUME NEW r \in Runs, Attached(r)' PROVE rec'[r].contBy = 0
    <3>1. r # p
        BY <2>1, Types DEF UseSame
    <3> QED BY <2>1, <3>1 DEF LinkInv, UserInv, UseSame
  <2>2. ASSUME NEW r \in Runs, User(r)', rec[r].parent # 0, rec[r].parent \in Runs, Exists(rec[r].parent)
        PROVE  rec'[rec[r].parent].contBy = r
    <3>1. CASE r = n
        BY <2>2, <3>1
    <3>2. CASE r # n
      <4>1. rec[rec[r].parent].contBy = r /\ r # 0
          BY <2>2, <3>2, Types DEF LinkInv, UserInv, UseSame
      <4> QED BY <2>2, <4>1
    <3> QED BY <3>1, <3>2
  <2> QED BY <1>3, <2>1, <2>2, NotBlank DEF UserInv
<1>6. LatestInv'
  <2>1. ASSUME NEW q \in Runs \ {n}, Latest(q)' PROVE q # p /\ Latest(q)
    <3>1. User(q)
        BY <2>1 DEF Latest, UseSame
    <3>2. q # p
        BY <1>3, <2>1, Types DEF Latest
    <3>3. rec'[q].contBy = rec[q].contBy
        BY <3>2
    <3>4. CASE rec[q].contBy = 0
        BY <3>1, <3>2, <3>4 DEF Latest
    <3>5. CASE rec[q].contBy # 0
      <4>1. PICK m \in Runs : rec[q].contBy = m
          BY <3>5, NotBlank
      <4>2. Exists(m) /\ ~User(m)'
          BY <1>3, <2>1, <3>3, <3>5, <4>1 DEF Latest
      <4>3. m # n
          BY <4>2
      <4> QED BY <3>1, <3>2, <4>1, <4>2, <4>3 DEF Latest, UseSame
    <3> QED BY <3>2, <3>4, <3>5
  <2>2. ASSUME NEW q \in Runs \ {n}, Latest(q)', rec[q].conv = rec[n].conv, rec[n].conv # 0 PROVE FALSE
    <3>1. User(q) /\ Latest(q) /\ q # p
        BY <2>1, <2>2 DEF Latest
    <3>2. p # 0 /\ p \in Runs
        BY <2>2, <3>1
    <3>3. Latest(p) /\ rec[p].conv = rec[q].conv
        BY <2>2, <3>2 DEF Latest
    <3> QED BY <2>2, <3>1, <3>2, <3>3 DEF LinkInv, LatestInv
  <2> SUFFICES ASSUME NEW r \in Runs, NEW s \in Runs, Latest(r)', Latest(s)',
                      rec[r].conv = rec[s].conv, rec[r].conv # 0
               PROVE  r = s
      BY <1>3 DEF LatestInv
  <2>3. CASE r # n /\ s # n
      BY <2>1, <2>3 DEF LinkInv, LatestInv
  <2>4. CASE r = n
      BY <2>2, <2>4
  <2>5. CASE s = n
    <3>1. rec[r].conv = rec[n].conv /\ rec[n].conv # 0
        BY <2>5
    <3> QED BY <2>2, <2>5, <3>1
  <2> QED BY <2>3, <2>4, <2>5
<1> QED BY <1>2, <1>4, <1>5, <1>6 DEF LinkInv

LEMMA NamesNext ==
    ASSUME \A r \in Runs :
             /\ rec'[r].conv # 0 => rec'[r].conv \in Created'
             /\ rec'[r].parent # 0 => rec'[r].parent \in Created'
             /\ \/ rec'[r].contBy = 0
                \/ \E m \in Created' :
                      /\ rec'[r].contBy = m
                      /\ Exists(m)' => rec'[m].parent = r /\ rec'[m].conv = rec'[r].conv
    PROVE  NamesInv'
BY DEF NamesInv

\* Nobody comes to use a session, and no run becomes a conversation's latest user.
Narrower ==
    \A r \in Runs :
        /\ User(r)' => User(r) /\ rec'[r].conv = rec[r].conv /\ rec'[r].contBy \in {0, rec[r].contBy}
        /\ Latest(r)' => Latest(r)

\* Run n, which never used its parent's session, gives it back.
LEMMA LinkReturned ==
    ASSUME TypeOK, TypeOK', LinkInv, NEW n \in Runs, NEW p \in Runs,
           Exists(n), ~User(n), rec[p].contBy = n,
           \A r \in Runs : NamesSame(r) /\ UseSame(r)
                           /\ rec'[r].contBy = IF r = p THEN 0 ELSE rec[r].contBy
    PROVE  LinkInv' /\ Narrower
<1>1. Created' = Created
    BY SameCreated
<1>2. BlankInv'
    BY SameBlank DEF LinkInv
<1>3. \A r \in Runs : rec'[r].parent = rec[r].parent /\ rec'[r].conv = rec[r].conv /\ (Exists(r)' <=> Exists(r))
    BY DEF NamesSame
<1>4. NamesInv'
    BY <1>1, <1>3, NotBlank DEF LinkInv, NamesInv
<1>5. UserInv'
  <2>1. ASSUME NEW r \in Runs, User(r)', rec[r].parent # 0, rec[r].parent \in Runs, Exists(rec[r].parent)
        PROVE  rec'[rec[r].parent].contBy = r
    <3>1. rec[rec[r].parent].contBy = r /\ r # n
        BY <2>1 DEF LinkInv, UserInv, UseSame
    <3> QED BY <2>1, <3>1
  <2>2. \A r \in Runs : Attached(r)' => rec'[r].contBy = 0
      BY DEF LinkInv, UserInv, UseSame
  <2> QED BY <1>3, <2>1, <2>2, NotBlank DEF UserInv
<1>6. ASSUME NEW q \in Runs, Latest(q)' PROVE Latest(q)
  <2>1. User(q)
      BY <1>6 DEF Latest, UseSame
  <2>2. CASE q = p
      BY <2>1, <2>2 DEF Latest
  <2>3. CASE q # p
    <3>1. rec'[q].contBy = rec[q].contBy
        BY <2>3
    <3>2. CASE rec[q].contBy = 0
        BY <2>1, <3>2 DEF Latest
    <3>3. CASE rec[q].contBy # 0
      <4>1. PICK m \in Runs : rec[q].contBy = m
          BY <3>3, NotBlank
      <4>2. Exists(m) /\ ~User(m)'
          BY <1>3, <1>6, <3>1, <3>3, <4>1 DEF Latest
      <4> QED BY <2>1, <4>1, <4>2 DEF Latest, UseSame
    <3> QED BY <3>2, <3>3
  <2> QED BY <2>2, <2>3
<1>7. LatestInv'
    BY <1>3, <1>6 DEF LinkInv, LatestInv
<1>8. Narrower
    BY <1>3, <1>6 DEF Narrower, UseSame
<1> QED BY <1>2, <1>4, <1>5, <1>7, <1>8 DEF LinkInv

\* A new record takes part in nothing yet.
LEMMA LinkSubmitted ==
    ASSUME TypeOK, TypeOK', LinkInv, NEW n \in Runs, n \notin Created,
           \A r \in Runs \ {n} : rec'[r] = rec[r] /\ UseSame(r),
           ~User(n)', ~Attached(n)', Exists(n)', rec'[n].contBy = 0,
           rec'[n].parent # 0 => rec'[n].parent \in Created,
           rec'[n].conv # 0 => rec'[n].conv \in Created'
    PROVE  LinkInv' /\ Narrower
<1>1. Created' = Created \union {n}
    BY DEF Created, Exists, TaskStates, ActiveStates, TerminalStates
<1>2. \A r \in Runs : rec[r].contBy # n /\ rec[r].parent # n
    BY Types DEF LinkInv, NamesInv
<1>3. \A r \in Runs \ {n} : Exists(r)' <=> Exists(r)
    BY DEF Exists
<1>4. BlankInv'
    BY DEF LinkInv, BlankInv, Exists, TaskStates, ActiveStates, TerminalStates
<1>5. NamesInv'
  <2>1. ASSUME NEW r \in Runs \ {n}, rec[r].contBy # 0
        PROVE  \E m \in Created' :
                 /\ rec'[r].contBy = m
                 /\ Exists(m)' => rec'[m].parent = r /\ rec'[m].conv = rec'[r].conv
    <3>1. PICK m \in Runs \ {n} : rec[r].contBy = m
        BY <1>2, <2>1, NotBlank
    <3>2. m \in Created /\ (Exists(m)' => rec'[m].parent = r /\ rec'[m].conv = rec[r].conv)
        BY <1>3, <2>1, <3>1 DEF LinkInv, NamesInv
    <3>3. rec'[r].contBy = m /\ rec'[r].conv = rec[r].conv
        BY <3>1
    <3> QED BY <1>1, <3>2, <3>3
  <2>2. \A r \in Runs : /\ rec'[r].conv # 0 => rec'[r].conv \in Created'
                        /\ rec'[r].parent # 0 => rec'[r].parent \in Created'
      BY <1>1 DEF LinkInv, NamesInv
  <2> QED BY <2>1, <2>2, NamesNext
<1>6. UserInv'
  <2>1. ASSUME NEW r \in Runs \ {n}, User(r)', rec[r].parent # 0, NEW p \in Runs, rec[r].parent = p, Exists(p)'
        PROVE  rec'[p].contBy = r
    <3>1. p # n
        BY <1>2, <2>1
    <3> QED BY <1>3, <2>1, <3>1 DEF LinkInv, UserInv, UseSame
  <2>2. \A r \in Runs : Attached(r)' => rec'[r].contBy = 0
      BY DEF LinkInv, UserInv, UseSame
  <2>3. ASSUME NEW r \in Runs, User(r)', rec'[r].parent # 0, Exists(rec[r].parent)'
        PROVE  rec'[rec'[r].parent].contBy = r
    <3>1. r # n
        BY <2>3
    <3>2. rec'[r].parent = rec[r].parent
        BY <3>1
    <3>3. PICK p \in Runs : rec'[r].parent = p
        BY <2>3, <3>2, NotBlank
    <3> QED BY <2>1, <2>3, <3>1, <3>2, <3>3
  <2> QED BY <2>2, <2>3 DEF UserInv
<1>7. ASSUME NEW q \in Runs, Latest(q)' PROVE q # n /\ Latest(q)
  <2>1. q # n /\ User(q)
      BY <1>7 DEF Latest, UseSame
  <2>2. CASE rec[q].contBy = 0
      BY <2>1, <2>2 DEF Latest
  <2>3. CASE rec[q].contBy # 0
    <3>1. PICK m \in Runs : rec[q].contBy = m /\ m # n
        BY <1>2, <2>3, NotBlank
    <3>2. rec'[q].contBy = m
        BY <2>1, <3>1
    <3>3. Exists(m) /\ ~User(m)'
        BY <1>3, <1>7, <2>3, <3>1, <3>2 DEF Latest
    <3> QED BY <2>1, <3>1, <3>3 DEF Latest, UseSame
  <2> QED BY <2>1, <2>2, <2>3
<1>8. LatestInv'
    BY <1>7 DEF LinkInv, LatestInv
<1>9. Narrower
    BY <1>7 DEF Narrower, UseSame
<1> QED BY <1>4, <1>5, <1>6, <1>8, <1>9 DEF LinkInv

\* A purged run leaves no name behind.
LEMMA LinkRemoved ==
    ASSUME TypeOK, TypeOK', LinkInv, NEW u \in Runs, u \in Created,
           rec'[u] = [NoRecord EXCEPT !.state = "purged"],
           ~User(u)', ~Attached(u)',
           \A r \in Runs \ {u} : rec'[r] = rec[r] /\ UseSame(r)
    PROVE  LinkInv' /\ Narrower
<1>1. /\ rec'[u].state = "purged" /\ rec'[u].contBy = 0 /\ ~rec'[u].claimed
      /\ rec'[u].parent = 0 /\ rec'[u].conv = 0
    BY DEF NoRecord
<1>2. Created' = Created
    BY <1>1 DEF Created
<1>3. ~Exists(u)' /\ \A r \in Runs \ {u} : Exists(r)' <=> Exists(r)
    BY <1>1 DEF Exists, TaskStates, ActiveStates, TerminalStates
<1>4. BlankInv'
    BY <1>1 DEF LinkInv, BlankInv
<1>5. NamesInv'
  <2>1. ASSUME NEW r \in Runs \ {u}, rec[r].contBy # 0
        PROVE  \E m \in Created' :
                 /\ rec'[r].contBy = m
                 /\ Exists(m)' => rec'[m].parent = r /\ rec'[m].conv = rec'[r].conv
    <3>1. PICK m \in Runs : rec[r].contBy = m
        BY <2>1, NotBlank
    <3>2. m \in Created /\ (Exists(m)' => rec'[m].parent = r /\ rec'[m].conv = rec[r].conv)
        BY <1>3, <2>1, <3>1 DEF LinkInv, NamesInv
    <3>3. rec'[r].contBy = m /\ rec'[r].conv = rec[r].conv
        BY <3>1
    <3> QED BY <1>2, <3>2, <3>3
  <2>2. \A r \in Runs : /\ rec'[r].conv # 0 => rec'[r].conv \in Created'
                        /\ rec'[r].parent # 0 => rec'[r].parent \in Created'
      BY <1>1, <1>2 DEF LinkInv, NamesInv
  <2> QED BY <1>1, <2>1, <2>2, NamesNext
<1>6. UserInv'
  <2>1. ASSUME NEW r \in Runs \ {u}, User(r)', NEW p \in Runs, rec[r].parent = p, Exists(p)'
        PROVE  rec'[p].contBy = r
    <3>1. p # u
        BY <1>3, <2>1
    <3> QED BY <1>3, <2>1, <3>1, Types DEF LinkInv, UserInv, UseSame
  <2>2. \A r \in Runs : Attached(r)' => rec'[r].contBy = 0
      BY <1>1 DEF LinkInv, UserInv, UseSame
  <2>3. ASSUME NEW r \in Runs, User(r)', rec'[r].parent # 0, Exists(rec[r].parent)'
        PROVE  rec'[rec'[r].parent].contBy = r
    <3>1. r # u
        BY <2>3
    <3>2. rec'[r].parent = rec[r].parent
        BY <3>1
    <3>3. PICK p \in Runs : rec'[r].parent = p
        BY <2>3, <3>2, NotBlank
    <3> QED BY <2>1, <2>3, <3>1, <3>2, <3>3
  <2> QED BY <2>2, <2>3 DEF UserInv
<1>7. ASSUME NEW q \in Runs, Latest(q)' PROVE q # u /\ Latest(q)
  <2>1. q # u /\ User(q)
      BY <1>7 DEF Latest, UseSame
  <2>2. CASE rec[q].contBy = 0
      BY <2>1, <2>2 DEF Latest
  <2>3. CASE rec[q].contBy # 0
    <3>1. PICK m \in Runs : rec[q].contBy = m
        BY <2>3, NotBlank
    <3>2. rec'[q].contBy = m
        BY <2>1, <3>1
    <3>3. Exists(m)' /\ ~User(m)'
        BY <1>7, <2>3, <3>1, <3>2 DEF Latest
    <3>4. m # u
        BY <1>3, <3>3
    <3> QED BY <1>3, <2>1, <3>1, <3>3, <3>4 DEF Latest, UseSame
  <2> QED BY <2>1, <2>2, <2>3
<1>8. LatestInv'
    BY <1>7 DEF LinkInv, LatestInv
<1>9. Narrower
    BY <1>7 DEF Narrower, UseSame
<1> QED BY <1>4, <1>5, <1>6, <1>8, <1>9 DEF LinkInv

-----------------------------------------------------------------------------
(* Who comes to use a session.                                             *)

\* Only the link of a new run to its parent makes a run one at work.
LEMMA ClientAttached ==
    ASSUME Base, NEW c \in Clients, Call(c) \/ ClientStep(c) \/ CrashClient(c), ~Link(c)
    PROVE  \A r \in Runs : Attached(r)' => Attached(r)
<1>1. TypeOK /\ RoomInv /\ PlaceInv(c)
    BY BaseParts
<1>2. OthersSame(c)
    BY <1>1, ClientFrame
<1>3. ASSUME pc'[c] \in {"mark", "launch"} PROVE pc[c] = "mark" /\ mine'[c] = mine[c]
  <2>1. ~Leave(c)
      BY <1>1, <1>3, LeaveEffect
  <2>2. ~(AfterRelease(c) /\ (lock = c \/ lock = Nobody))
    <3>1. Locked(c) => lock = c
        BY <1>1 DEF PlaceInv
    <3> QED BY <1>1, <1>3, <2>1, <3>1, AfterReleaseEffect
  <2> USE DEF GoTo, TypeOK, Judged
  <2>3. CASE Status(c) \/ Begin(c) \/ Purge(c) \/ Judge(c) \/ GiveUp(c) \/ StatusDone(c) \/ DenyEarly(c)
             \/ Rejected(c) \/ CrashClient(c)
      BY <1>1, <1>3, <2>1, <2>3
      DEF Status, Begin, Purge, Judge, GiveUp, StatusDone, DenyEarly, Rejected, CrashClient
  <2>4. CASE Release(c)
      BY <1>1, <1>3, <2>1, <2>2, <2>4 DEF Release
  <2>5. CASE Unlink(c)
      BY <1>1, <2>2, <2>5 DEF Unlink, PlaceInv
  <2>6. CASE Lock(c) \/ CheckParent(c) \/ Admit(c) \/ Reject(c) \/ Mark(c) \/ Launch(c) \/ Handshake(c)
             \/ RemoveRun(c)
      BY <1>1, <1>3, <2>1, <2>6
      DEF Lock, CheckParent, Admit, Reject, Mark, Launch, Handshake, RemoveRun, StartFailed
  <2> QED BY <2>3, <2>4, <2>5, <2>6 DEF Call, ClientStep
<1>4. ASSUME NEW r \in Runs, sup'[r] \in {"boot", "running", "ending"} PROVE Attached(r)
  <2>1. Kept(r) \/ Touched(c, r)
      BY <1>1, ClientTouches
  <2>2. sup'[r] = sup[r] \/ (pc[c] = "launch" /\ r = mine[c])
      BY <2>1 DEF Kept, Touched, Moved, Submitted, Removed
  <2> QED BY <1>4, <2>2 DEF Attached
<1>5. ASSUME NEW r \in Runs, NEW d \in Clients, mine'[d] = r, pc'[d] \in {"mark", "launch"} PROVE Attached(r)
    BY <1>2, <1>3, <1>5 DEF OthersSame, Same, Attached
<1> QED BY <1>4, <1>5 DEF Attached

\* A step that leaves a run and whoever starts it alone leaves its use alone.
LEMMA UseFrame ==
    ASSUME NEW c \in Clients, OthersSame(c), NEW r \in Runs,
           rec'[r].claimed = rec[r].claimed, sup'[r] = sup[r],
           r = mine[c] => pc[c] \notin {"mark", "launch"},
           r = mine'[c] => pc'[c] \notin {"mark", "launch"}
    PROVE  UseSame(r)
<1>1. \A d \in Clients : mine'[d] = r /\ pc'[d] \in {"mark", "launch"}
                          <=> mine[d] = r /\ pc[d] \in {"mark", "launch"}
    BY DEF OthersSame, Same
<1>2. Attached(r)' <=> Attached(r)
    BY <1>1 DEF Attached
<1> QED BY <1>2 DEF UseSame, User

LEMMA QuietFrom ==
    ASSUME \A r \in Runs : /\ NamesSame(r) /\ rec'[r].contBy = rec[r].contBy
                           /\ rec[r].claimed => rec'[r].claimed \/ Attached(r)
                           /\ rec'[r].claimed => User(r)
                           /\ Attached(r)' => Attached(r)
    PROVE  Quiet
BY DEF Quiet, NamesSame, User

LEMMA NamesByState ==
    ASSUME TypeOK, NEW r \in Runs, Exists(r), NEW s \in TaskStates, SetState(r, s)
    PROVE  \A q \in Runs : /\ NamesSame(q) /\ rec'[q].contBy = rec[q].contBy
                           /\ rec'[q].claimed <=> rec[q].claimed
<1>1. /\ rec'[r].state = s /\ rec'[r].parent = rec[r].parent /\ rec'[r].conv = rec[r].conv
      /\ rec'[r].claimed = rec[r].claimed /\ rec'[r].contBy = rec[r].contBy
    BY StateEffect
<1>2. \A q \in Runs \ {r} : rec'[q] = rec[q]
    BY StateEffect
<1> QED BY <1>1, <1>2 DEF NamesSame, Exists

LEMMA NamesByLink ==
    ASSUME TypeOK, NEW p \in Runs, Exists(p), NEW n, rec' = [rec EXCEPT ![p].contBy = n]
    PROVE  \A r \in Runs : /\ NamesSame(r) /\ rec'[r].contBy = (IF r = p THEN n ELSE rec[r].contBy)
                           /\ rec'[r].claimed = rec[r].claimed
<1>1. rec[p] \in Record /\ rec'[p] = [rec[p] EXCEPT !.contBy = n]
    BY DEF TypeOK
<1>2. \A r \in Runs \ {p} : rec'[r] = rec[r]
    BY DEF TypeOK
<1>3. /\ rec'[p].state = rec[p].state /\ rec'[p].parent = rec[p].parent /\ rec'[p].conv = rec[p].conv
      /\ rec'[p].claimed = rec[p].claimed /\ rec'[p].contBy = n
    BY <1>1 DEF Record
<1>4. NamesSame(p)
    BY <1>3 DEF NamesSame, Exists
<1>5. \A r \in Runs \ {p} : NamesSame(r)
    BY <1>2 DEF NamesSame, Exists
<1> QED BY <1>2, <1>3, <1>4, <1>5

\* Most of a client's steps change no conversation.
LEMMA ClientQuiet ==
    ASSUME Base, NEW c \in Clients, Call(c) \/ ClientStep(c) \/ CrashClient(c),
           ~Link(c), ~Unlink(c), ~Admit(c), ~Reject(c), ~RemoveRun(c)
    PROVE  Quiet
<1>1. TypeOK /\ PlaceInv(c) /\ StarterInv(c)
    BY BaseParts
<1>2. ASSUME UNCHANGED rec PROVE Quiet
    BY <1>2, ClientAttached, QuietFrom DEF NamesSame, Exists, User
<1>3. ASSUME NEW r \in Runs, Exists(r), NEW s \in TaskStates, SetState(r, s) PROVE Quiet
  <2>1. \A q \in Runs : /\ NamesSame(q) /\ rec'[q].contBy = rec[q].contBy
                        /\ rec'[q].claimed <=> rec[q].claimed
      BY <1>1, <1>3, NamesByState
  <2> QED BY <2>1, ClientAttached, QuietFrom DEF User
<1> USE DEF TaskStates, ActiveStates, TerminalStates
<1>4. CASE GiveUp(c)
    BY <1>1, <1>2, <1>3, <1>4 DEF GiveUp, PlaceInv, GivingUp, Created
<1>5. CASE Rejected(c) \/ Mark(c)
  <2>1. mine[c] \in Runs /\ Exists(mine[c])
      BY <1>1, <1>5 DEF Rejected, Mark, PlaceInv, Owning, StarterInv, Created, Exists
  <2> QED BY <1>3, <1>5, <2>1 DEF Rejected, Mark
<1>6. CASE \/ Status(c) \/ Begin(c) \/ Purge(c) \/ Judge(c) \/ Release(c) \/ StatusDone(c)
           \/ DenyEarly(c) \/ Lock(c) \/ CheckParent(c) \/ Launch(c) \/ Handshake(c) \/ CrashClient(c)
    BY <1>2, <1>6 DEF Status, Begin, Purge, Judge, Release, StatusDone, DenyEarly, Lock, CheckParent,
                      Launch, Handshake, CrashClient
<1> QED BY <1>4, <1>5, <1>6 DEF Call, ClientStep

LEMMA SupervisorQuiet ==
    ASSUME Base, NEW r \in Runs, SupervisorStep(r) \/ KillSup(r), ~SupUnlink(r)
    PROVE  Quiet
<1>1. TypeOK /\ RunInv(r)
    BY BaseParts
<1>2. UNCHANGED <<pc, mine>> /\ \A q \in Runs \ {r} : sup'[q] = sup[q]
    BY <1>1, SupervisorFrame
<1>3. \A q \in Runs : Attached(q)' => Attached(q)
  <2>1. sup'[r] \in {"boot", "running", "ending"} => sup[r] \in {"boot", "running", "ending"}
      BY <1>1, SupervisorTouches
  <2> QED BY <1>2, <2>1 DEF Attached
<1>4. CASE SupRelease(r) \/ KillSup(r)
  <2>1. UNCHANGED rec
      BY <1>4 DEF SupRelease, KillSup
  <2> QED BY <1>3, <2>1, QuietFrom DEF NamesSame, Exists, User
<1>5. CASE SupRun(r) \/ SupClaim(r) \/ SupEnd(r)
  <2>1. PICK s \in TaskStates, b \in BOOLEAN :
              /\ rec' = [rec EXCEPT ![r].state = s, ![r].claimed = b]
              /\ sup[r] \in {"boot", "running", "ending"}
      BY <1>1, <1>5, ClaimChange
  <2>2. /\ rec'[r].state = s /\ rec'[r].parent = rec[r].parent
        /\ rec'[r].conv = rec[r].conv /\ rec'[r].contBy = rec[r].contBy
      BY <1>1, <2>1, ClaimEffect
  <2>3. \A q \in Runs \ {r} : rec'[q] = rec[q]
      BY <1>1, <2>1, ClaimEffect
  <2>4. Attached(r) /\ Exists(r)
      BY <1>1, <2>1 DEF Attached, RunInv, Exists, TaskStates, ActiveStates
  <2> QED BY <1>3, <2>2, <2>3, <2>4, QuietFrom DEF NamesSame, Exists, User
<1> QED BY <1>4, <1>5 DEF SupervisorStep

-----------------------------------------------------------------------------
(* The client steps that do change a conversation.                         *)

\* What the link makes of a run and the run it continues.
LEMMA LinkMakes ==
    ASSUME Base, ConvInv, NEW c \in Clients, Link(c)
    PROVE  \E n \in Runs, p \in Runs \union {0} : n = mine[c] /\ Continues(n, p) /\ Attached(n)'
<1>1. /\ TypeOK /\ PlaceInv(c) /\ StarterInv(c) /\ LinkInv
      /\ RequestInv(c) /\ TestedInv(c) /\ BegunInv(c)
    BY BaseParts DEF ConvInv
<1>2. OthersSame(c)
    BY <1>1, ClientFrame DEF ClientStep
<1>3. /\ mine[c] \in Runs /\ mine[c] \in Created /\ rec[mine[c]].state = "SUBMITTED"
      /\ sup[mine[c]] = "none" /\ ~rec[mine[c]].claimed
    BY <1>1 DEF Link, PlaceInv, Owning, StarterInv, Created
<1>n. PICK n \in Runs : n = mine[c]
    BY <1>3
<1>p. PICK p \in Runs \union {0} : p = req[c].parent
    BY <1>1, Types DEF TypeOK
<1> USE <1>n, <1>p
<1>4. p \in Runs \union {0} /\ phase[c] = "scan" /\ pc[c] = "link"
    BY <1>1, Types DEF Link, TypeOK, PlaceInv
<1>5. Exists(n) /\ n # 0
    BY <1>3, Types DEF Exists, TaskStates, ActiveStates
<1>6. ~Attached(n) /\ ~User(n)
  <2>1. \A d \in Clients : mine[d] = n => d = c
      BY <1>1, <1>5 DEF StarterInv
  <2> QED BY <1>3, <1>4, <2>1 DEF Attached, User
<1>7. p = rec[n].parent /\ rec[n].contBy = 0
    BY <1>1, <1>4 DEF BegunInv
<1>8. p # 0 => /\ p \in Runs /\ Terminal(rec[p].state) /\ User(p) /\ rec[p].contBy = 0
               /\ rec[n].conv = rec[p].conv
    BY <1>1, <1>4 DEF TestedInv, BegunInv, User
<1>9. p # 0 => Exists(p) /\ p # n
    BY <1>3, <1>8 DEF Exists, Terminal, TerminalStates, TaskStates
<1>10. p # 0 => ~Attached(p)
  <2> SUFFICES ASSUME p # 0, Attached(p) PROVE FALSE
      OBVIOUS
  <2>1. rec[p].state \notin {"SUBMITTED", "STARTING", "RUNNING"}
      BY <1>8 DEF Terminal, TerminalStates
  <2>2. sup[p] \notin {"boot", "running", "ending"}
      BY <1>8, <2>1, BaseParts DEF RunInv
  <2>3. \A d \in Clients : mine[d] = p => pc[d] \notin {"mark", "launch"}
      BY <2>1, BaseParts DEF StarterInv
  <2> QED BY <2>2, <2>3 DEF Attached
<1>11. p = 0 => \A s \in Runs : User(s) /\ rec[s].conv = rec[n].conv => rec[n].conv = 0
    BY <1>1, <1>4 DEF BegunInv
<1>12. \A r \in Runs : NamesSame(r) /\ rec'[r].contBy = (IF r = p THEN n ELSE rec[r].contBy)
                       /\ rec'[r].claimed = rec[r].claimed
  <2>1. CASE p = 0
      BY <2>1, Types DEF Link, NamesSame, Exists
  <2>2. CASE p # 0
    <3>1. rec' = [rec EXCEPT ![p].contBy = n]
        BY <2>2 DEF Link
    <3>2. p \in Runs /\ Exists(p)
        BY <1>8, <1>9, <2>2
    <3> HIDE <1>n, <1>p
    <3> QED BY <1>1, <3>1, <3>2, NamesByLink
  <2> QED BY <2>1, <2>2
<1>13. pc'[c] = "mark" /\ UNCHANGED <<sup, mine>>
    BY <1>1 DEF Link, locals, TypeOK, GoTo
<1>14. Attached(n)' /\ User(n)'
    BY <1>13 DEF User, Attached
<1>15. \A r \in Runs \ {n} : UseSame(r)
    BY <1>2, <1>12, <1>13, UseFrame
<1> HIDE <1>n, <1>p
<1>16. p # n
    BY <1>5, <1>9
<1>17. p # 0 => /\ Exists(p) /\ User(p) /\ ~Attached(p)
                /\ rec[p].contBy = 0 /\ rec[n].conv = rec[p].conv
    BY <1>8, <1>9, <1>10
<1>18. Continues(n, p)
    BY <1>5, <1>6, <1>7, <1>11, <1>12, <1>14, <1>15, <1>16, <1>17 DEF Continues
<1> QED BY <1>n, <1>14, <1>18

LEMMA LinkByLink ==
    ASSUME Base, ConvInv, TypeOK', NEW c \in Clients, Link(c)
    PROVE  LinkInv'
BY LinkMakes, LinkContinued, BaseParts DEF ConvInv

\* Whoever gives a tip back is not using the session.
LEMMA LinkByUnlink ==
    ASSUME Base, ConvInv, TypeOK', NEW c \in Clients, Unlink(c)
    PROVE  LinkInv' /\ Narrower
<1>1. TypeOK /\ PlaceInv(c) /\ StarterInv(c) /\ LostInv(c) /\ LinkInv /\ ReturnInv(c)
    BY BaseParts DEF ConvInv
<1>2. OthersSame(c)
    BY <1>1, ClientFrame DEF ClientStep
<1>n. PICK n \in Runs : n = lostRun[c]
    BY <1>1 DEF Unlink, PlaceInv, GivingUp, Created
<1>3. pc[c] = "unlink" /\ GivingUp(c) /\ n \in Created
    BY <1>1, <1>n DEF Unlink, PlaceInv, GivingUp, Created
<1>4. Exists(n) /\ Holds(n)
    BY <1>1, <1>3, <1>n DEF ReturnInv
<1>p. PICK p \in Runs : p = rec[n].parent
    BY <1>1, <1>4, NotBlank DEF Holds
<1>5. p \in Runs /\ Exists(p) /\ rec[p].contBy = n /\ ~rec[n].claimed
    BY <1>1, <1>3, <1>4, <1>p, NotBlank DEF Holds
<1>6. ~User(n)
  <2>1. sup[n] \in {"none", "gone"}
      BY <1>1, <1>3, <1>n DEF LostInv
  <2>2. \A d \in Clients : mine[d] = n => pc[d] \notin {"mark", "launch"}
      BY <1>1, <1>3, <1>n, BaseParts DEF LostInv, StarterInv
  <2> QED BY <1>5, <2>1, <2>2 DEF User, Attached
<1>7. \A r \in Runs : NamesSame(r) /\ rec'[r].contBy = (IF r = p THEN 0 ELSE rec[r].contBy)
                      /\ rec'[r].claimed = rec[r].claimed
  <2>1. rec' = [rec EXCEPT ![p].contBy = 0]
      BY <1>n, <1>p DEF Unlink, UnlinkParent
  <2> QED BY <1>1, <1>5, <2>1, NamesByLink
<1>8. pc'[c] \in {"judge", "idle"} /\ UNCHANGED sup
    BY <1>1, AfterReleaseEffect, LeaveEffect DEF Unlink, PlaceInv
<1>9. \A r \in Runs : UseSame(r)
    BY <1>2, <1>3, <1>7, <1>8, UseFrame
<1> QED BY <1>1, <1>4, <1>5, <1>6, <1>7, <1>9, LinkReturned

LEMMA LinkBySubmit ==
    ASSUME Base, ConvInv, TypeOK', NEW c \in Clients, Admit(c) \/ Reject(c), NEW conv, Submit(c, conv),
           conv \in Created' \union {0}
    PROVE  LinkInv' /\ Narrower
<1>1. TypeOK /\ RoomInv /\ PlaceInv(c) /\ LinkInv /\ RequestInv(c) /\ StarterInv(c)'
    BY BaseParts, OwnKept DEF ConvInv, ClientStep
<1>2. OthersSame(c)
    BY <1>1, ClientFrame DEF ClientStep
<1>3. c \in Creating
    BY <1>1 DEF Admit, Reject, Judged, PlaceInv, Owning, Creating
<1>n. PICK n \in Runs : n = Fresh
    BY <1>1, <1>3, FreshFits
<1>4. n \in Runs /\ n \notin Created
    BY <1>1, <1>n, FreshFits
<1>5. /\ rec'[n] = [state |-> "SUBMITTED", ask |-> req[c].ask, parent |-> req[c].parent,
                    conv |-> conv, claimed |-> FALSE, contBy |-> 0]
      /\ \A r \in Runs \ {n} : rec'[r] = rec[r]
      /\ mine'[c] = n
    BY <1>1, <1>n DEF Submit, TypeOK
<1>6. pc[c] \in {"judge", "reject"} /\ pc'[c] \in {"link", "rejected", "reject"} /\ UNCHANGED sup
    BY <1>1 DEF Admit, Reject, Judged, TypeOK, GoTo
<1>7. \A r \in Runs \ {n} : UseSame(r)
    BY <1>2, <1>5, <1>6, UseFrame
<1>8. ~Attached(n)' /\ ~User(n)'
  <2>1. sup'[n] = "none"
      BY <1>4, <1>6, BaseParts DEF RunInv
  <2>2. \A d \in Clients : mine'[d] = n => d = c
      BY <1>1, <1>4, <1>5, Types DEF StarterInv
  <2> QED BY <1>5, <1>6, <2>1, <2>2 DEF Attached, User
<1>9. /\ Exists(n)' /\ rec'[n].contBy = 0
      /\ rec'[n].parent # 0 => rec'[n].parent \in Created
      /\ rec'[n].conv # 0 => rec'[n].conv \in Created'
    BY <1>1, <1>5 DEF Exists, TaskStates, ActiveStates, RequestInv
<1> QED BY <1>1, <1>4, <1>5, <1>7, <1>8, <1>9, LinkSubmitted

LEMMA LinkByRemove ==
    ASSUME Base, ConvInv, TypeOK', NEW c \in Clients, RemoveRun(c), NEW t \in todo[c],
           rec' = [rec EXCEPT ![t[1]] = [NoRecord EXCEPT !.state = "purged"]], UNCHANGED pc
    PROVE  LinkInv' /\ Narrower
<1>1. TypeOK /\ PlaceInv(c) /\ PurgeInv(c) /\ LinkInv
    BY BaseParts DEF ConvInv
<1>2. OthersSame(c)
    BY <1>1, ClientFrame DEF ClientStep
<1>3. PICK u \in Runs : u = t[1] /\ u \in Created
    BY <1>1 DEF PlaceInv, Created
<1>4. ~Active(rec[u].state) /\ pc[c] = "purge"
    BY <1>1, <1>3 DEF PurgeInv, RemoveRun
<1>5. /\ rec'[u] = [NoRecord EXCEPT !.state = "purged"]
      /\ \A r \in Runs \ {u} : rec'[r] = rec[r]
      /\ UNCHANGED <<sup, pc>>
    BY <1>1, <1>3 DEF TypeOK, RemoveRun
<1>6. \A r \in Runs \ {u} : UseSame(r)
    BY <1>2, <1>4, <1>5, UseFrame
<1>7. ~Attached(u)
  <2>1. sup[u] \notin {"boot", "running", "ending"}
      BY <1>4, BaseParts DEF RunInv, Active, ActiveStates
  <2>2. \A d \in Clients : mine[d] = u => pc[d] \notin {"mark", "launch"}
      BY <1>4, BaseParts DEF StarterInv, Active, ActiveStates
  <2> QED BY <2>1, <2>2 DEF Attached
<1>8. ~Attached(u)' /\ ~User(u)'
  <2>1. Attached(u)' => Attached(u)
      BY ClientAttached, <1>4 DEF ClientStep, Link
  <2> QED BY <1>5, <1>7, <2>1 DEF User, NoRecord
<1> QED BY <1>1, <1>3, <1>5, <1>6, <1>8, LinkRemoved

LEMMA LinkBySupUnlink ==
    ASSUME Base, ConvInv, TypeOK', NEW n \in Runs, SupUnlink(n)
    PROVE  LinkInv' /\ Narrower
<1>1. TypeOK /\ RunInv(n) /\ LinkInv /\ UnlinkInv(n)
    BY BaseParts DEF ConvInv
<1>2. sup[n] = "unlink" /\ Exists(n) /\ Holds(n)
    BY <1>1 DEF SupUnlink, UnlinkInv
<1>p. PICK p \in Runs : p = rec[n].parent
    BY <1>1, <1>2, NotBlank DEF Holds
<1>3. p \in Runs /\ Exists(p) /\ rec[p].contBy = n /\ ~rec[n].claimed
    BY <1>1, <1>2, <1>p, NotBlank DEF Holds
<1>4. ~User(n)
    BY <1>2, <1>3, BaseParts DEF User, Attached, StarterInv
<1>5. \A r \in Runs : NamesSame(r) /\ rec'[r].contBy = (IF r = p THEN 0 ELSE rec[r].contBy)
                      /\ rec'[r].claimed = rec[r].claimed
  <2>1. rec' = [rec EXCEPT ![p].contBy = 0]
      BY <1>p DEF SupUnlink, UnlinkParent
  <2> QED BY <1>1, <1>3, <2>1, NamesByLink
<1>6. /\ UNCHANGED <<pc, mine>> /\ sup'[n] = "gone"
      /\ \A q \in Runs \ {n} : sup'[q] = sup[q]
    BY <1>1 DEF SupUnlink, SupGoTo, locals, TypeOK
<1>7. \A r \in Runs : UseSame(r)
  <2>1. \A r \in Runs : Attached(r)' <=> Attached(r)
      BY <1>2, <1>6 DEF Attached
  <2> QED BY <1>5, <2>1 DEF UseSame, User
<1> QED BY <1>1, <1>2, <1>3, <1>4, <1>5, <1>7, LinkReturned

LEMMA LinkKept ==
    ASSUME Base, ConvInv, TypeOK', NEW c \in Clients, Call(c) \/ ClientStep(c) \/ CrashClient(c)
    PROVE  LinkInv'
<1>1. TypeOK /\ RoomInv /\ PlaceInv(c) /\ LinkInv /\ RequestInv(c)
    BY BaseParts DEF ConvInv
<1>2. ASSUME UNCHANGED rec, ~Link(c) PROVE LinkInv'
  <2>1. Quiet
      BY <1>2, ClientAttached, QuietFrom DEF NamesSame, Exists, User
  <2> QED BY <1>1, <2>1, LinkQuiet
<1>3. ASSUME NEW conv, Submit(c, conv), Admit(c) \/ Reject(c), conv \in Created' \union {0} PROVE LinkInv'
    BY <1>3, LinkBySubmit
<1>4. req[c].parent # 0 => rec[req[c].parent].conv \in Created' \union {0}
  <2>1. \A r \in Created : rec[r].conv \in Created \union {0}
      BY <1>1 DEF LinkInv, NamesInv, Created
  <2> QED BY <1>1, <2>1, ClientRoom DEF RequestInv
<1>5. ASSUME Submit(c, Conversation(req[c])), c \in Creating PROVE Fresh \in Created'
  <2>1. Fresh \in Runs
      BY <1>1, <1>5, FreshFits
  <2>2. rec'[Fresh] = [state |-> "SUBMITTED", ask |-> req[c].ask, parent |-> req[c].parent,
                       conv |-> Conversation(req[c]), claimed |-> FALSE, contBy |-> 0]
      BY <1>1, <1>5, <2>1 DEF Submit, TypeOK
  <2> QED BY <2>1, <2>2 DEF Created
<1>6. CASE Admit(c)
  <2>1. CASE UNCHANGED rec
      BY <1>1, <1>2, <1>6, <2>1 DEF Admit, Link, Judged
  <2>2. CASE Submit(c, Conversation(req[c]))
    <3>1. c \in Creating
        BY <1>1, <1>6 DEF Admit, Judged, PlaceInv, Owning, Creating
    <3>2. Conversation(req[c]) \in Created' \union {0}
        BY <1>4, <1>5, <2>2, <3>1 DEF Conversation
    <3> QED BY <1>3, <1>6, <2>2, <3>2
  <2> QED BY <1>6, <2>1, <2>2 DEF Admit
<1>7. CASE Reject(c)
    BY <1>3, <1>4, <1>7 DEF Reject
<1>8. CASE RemoveRun(c)
  <2>1. ~Link(c)
      BY <1>8 DEF RemoveRun, Link
  <2> QED BY <1>2, <1>8, <2>1, LinkByRemove DEF RemoveRun
<1>9. CASE Link(c) \/ Unlink(c)
    BY <1>9, LinkByLink, LinkByUnlink
<1>10. CASE ~Link(c) /\ ~Unlink(c) /\ ~Admit(c) /\ ~Reject(c) /\ ~RemoveRun(c)
    BY <1>1, <1>10, ClientQuiet, LinkQuiet
<1> QED BY <1>6, <1>7, <1>8, <1>9, <1>10

\* What nobody but the lock's holder changes.
Guarded(r) ==
    /\ rec'[r].parent = rec[r].parent /\ rec'[r].conv = rec[r].conv
    /\ rec'[r].contBy = rec[r].contBy
    /\ Exists(r) => Exists(r)'
    /\ Terminal(rec[r].state) => Terminal(rec'[r].state) /\ (rec[r].claimed => rec'[r].claimed)

LEMMA UserCreated ==
    ASSUME Base
    PROVE  \A r \in Runs : User(r) => r \in Created
BY BaseParts DEF User, Attached, RunInv, PlaceInv, Owning

LEMMA GuardedByClient ==
    ASSUME Base, NEW c \in Clients, Call(c) \/ ClientStep(c) \/ CrashClient(c), lock # c, lock # Nobody
    PROVE  /\ \A r \in Created : Guarded(r) /\ (rec'[r].claimed <=> rec[r].claimed)
           /\ \A r \in Runs : User(r)' => User(r)
<1>1. TypeOK /\ RoomInv /\ PlaceInv(c) /\ StarterInv(c)
    BY BaseParts
<1>2. pc[c] \notin {"link", "mark", "unlink", "purge"}
    BY <1>1 DEF PlaceInv, Locked
<1>3. ~Link(c) /\ ~Unlink(c) /\ ~RemoveRun(c) /\ ~Mark(c)
    BY <1>2 DEF Link, Unlink, RemoveRun, Mark
<1>4. \A r \in Runs : Kept(r) \/ Touched(c, r)
    BY <1>1, ClientTouches
<1>5. Fresh \notin Created /\ Created \subseteq Runs
    BY <1>1, FreshFits DEF Created
<1>6. \A r \in Created : rec'[r].claimed <=> rec[r].claimed
    BY <1>2, <1>4, <1>5 DEF Kept, Touched, Moved, Submitted, Removed
<1>7. \A r \in Created : Terminal(rec[r].state) => Terminal(rec'[r].state)
    BY <1>2, <1>4, <1>5 DEF Kept, Touched, Moved, Submitted, Removed, Terminal, TerminalStates
<1>8. \A r \in Created : /\ rec'[r].parent = rec[r].parent /\ rec'[r].conv = rec[r].conv
                         /\ rec'[r].contBy = rec[r].contBy
                         /\ Exists(r) => Exists(r)'
  <2>1. CASE UNCHANGED rec
      BY <2>1 DEF Exists
  <2>2. ASSUME NEW conv, Submit(c, conv) PROVE \A r \in Created : rec'[r] = rec[r]
      BY <1>1, <1>5, <2>2 DEF Submit, TypeOK
  <2>3. CASE Admit(c) \/ Reject(c)
      BY <2>1, <2>2, <2>3 DEF Admit, Reject, Exists
  <2>4. CASE ~Admit(c) /\ ~Reject(c)
      BY <1>3, <1>5, <2>4, ClientQuiet DEF Quiet
  <2> QED BY <2>3, <2>4
<1>9. \A r \in Runs : User(r)' => User(r)
    BY <1>3, <1>4, ClientAttached DEF User, Kept, Touched, Moved, Submitted, Removed, NoRecord
<1> QED BY <1>6, <1>7, <1>8, <1>9 DEF Guarded

LEMMA GuardedBySupervisor ==
    ASSUME Base, NEW r \in Runs, SupervisorStep(r) \/ KillSup(r), lock # r
    PROVE  \A q \in Runs : Guarded(q) /\ (User(q)' => User(q))
<1>1. TypeOK /\ RunInv(r)
    BY BaseParts
<1>2. ~SupUnlink(r)
    BY <1>1 DEF SupUnlink, RunInv
<1>3. Quiet
    BY <1>2, SupervisorQuiet
<1>4. \A q \in Runs \ {r} : Kept(q)
    BY <1>1, SupervisorTouches
<1>5. Terminal(rec[r].state) => rec'[r].state = rec[r].state /\ rec'[r].claimed = rec[r].claimed
    BY <1>1, SupervisorTouches DEF RunInv, Terminal, TerminalStates
<1> QED BY <1>3, <1>4, <1>5 DEF Guarded, Quiet, Kept

\* What ConvInv says of one client.
ConvPart(c) == RequestInv(c) /\ TestedInv(c) /\ BegunInv(c) /\ ReturnInv(c)

LEMMA ConvParts ==
    ASSUME Base, ConvInv
    PROVE  /\ LinkInv /\ \A d \in Clients : ConvPart(d)
           /\ \A r \in Runs : UnlinkInv(r)
BY DEF ConvInv, ConvPart

LEMMA HoldsParent ==
    ASSUME TypeOK
    PROVE  \A r \in Runs : Exists(r) /\ Holds(r) => r \in Created /\ rec[r].parent \in Created
BY NotBlank DEF Holds

\* What is guarded stays true of whoever works under the lock.
LEMMA GuardedPart ==
    ASSUME Base, NEW d \in Clients, ConvPart(d), Same(d), Created \subseteq Created',
           phase[d] = "scan" \/ pc[d] = "unlink" =>
              /\ \A r \in Created : Guarded(r)
              /\ \A r \in Runs : User(r)' => User(r),
           pc[d] = "unlink" => (rec'[lostRun[d]].claimed => rec[lostRun[d]].claimed)
    PROVE  ConvPart(d)'
<1>1. /\ TypeOK /\ PlaceInv(d)
      /\ RequestInv(d) /\ TestedInv(d) /\ BegunInv(d) /\ ReturnInv(d)
    BY BaseParts DEF ConvPart
<1>2. RequestInv(d)'
    BY <1>1 DEF RequestInv, Same
<1>3. TestedInv(d)'
    BY <1>1 DEF TestedInv, RequestInv, Same, GivingUp, Guarded
<1>4. BegunInv(d)'
  <2> SUFFICES ASSUME pc[d] = "link" PROVE BegunInv(d)'
      BY DEF BegunInv, Same
  <2>1. mine[d] \in Created /\ phase[d] = "scan"
      BY <1>1 DEF PlaceInv, Owning
  <2>2. /\ rec'[mine[d]].parent = rec[mine[d]].parent /\ rec'[mine[d]].conv = rec[mine[d]].conv
        /\ rec'[mine[d]].contBy = rec[mine[d]].contBy
      BY <2>1 DEF Guarded
  <2>3. req[d].parent # 0 => rec'[req[d].parent].conv = rec[req[d].parent].conv
      BY <1>1, <2>1 DEF RequestInv, Guarded
  <2>4. ASSUME req[d].parent = 0, NEW s \in Runs, User(s)', rec'[s].conv = rec'[mine[d]].conv
        PROVE  rec'[mine[d]].conv = 0
    <3>1. User(s) /\ s \in Created
        BY <2>1, <2>4, UserCreated
    <3>2. rec'[s].conv = rec[s].conv
        BY <2>1, <3>1 DEF Guarded
    <3> QED BY <1>1, <2>2, <2>4, <3>1, <3>2 DEF BegunInv
  <2> QED BY <1>1, <2>2, <2>3, <2>4 DEF BegunInv, Same
<1>5. ReturnInv(d)'
  <2> SUFFICES ASSUME pc[d] = "unlink" PROVE ReturnInv(d)'
      BY DEF ReturnInv, Same
  <2>1. PICK n \in Runs : n = lostRun[d] /\ n \in Created
      BY <1>1 DEF PlaceInv, GivingUp, Created
  <2>2. Exists(n) /\ Holds(n)
      BY <1>1, <2>1 DEF ReturnInv
  <2>3. PICK p \in Created : p = rec[n].parent
      BY <1>1, <2>2, HoldsParent
  <2>4. Guarded(n) /\ Guarded(p) /\ (rec'[n].claimed => rec[n].claimed)
      BY <2>1
  <2>5. Exists(n)' /\ rec'[n].parent = p /\ p # 0 /\ ~rec'[n].claimed
      BY <2>2, <2>3, <2>4 DEF Guarded, Holds
  <2>6. Exists(p)' /\ rec'[p].contBy = n
      BY <2>2, <2>3, <2>4 DEF Guarded, Holds
  <2>7. Exists(n)' /\ Holds(n)'
      BY <2>5, <2>6 DEF Holds, Exists
  <2> QED BY <2>1, <2>7 DEF ReturnInv, Same, Exists, Holds
<1> QED BY <1>2, <1>3, <1>4, <1>5 DEF ConvPart

\* The part of the client that makes the step.
LEMMA OwnPart ==
    ASSUME Base, ConvInv, NEW c \in Clients, Call(c) \/ ClientStep(c) \/ CrashClient(c)
    PROVE  ConvPart(c)'
<1>1. /\ TypeOK /\ RoomInv /\ PlaceInv(c) /\ StarterInv(c)
      /\ RequestInv(c) /\ TestedInv(c) /\ LinkInv
    BY BaseParts, ConvParts DEF ConvPart
<1>2. Created \subseteq Created' /\ Created \subseteq Runs
    BY <1>1, ClientRoom DEF Created
<1> DEFINE P == ConvPart(c)'
<1>3. ASSUME req'[c].parent \in {0, req[c].parent}, pc'[c] \notin {"link", "unlink"},
             phase'[c] # "scan" \/ pc'[c] \notin {"judge", "giveup", "release"}
      PROVE  P
    BY <1>1, <1>2, <1>3 DEF ConvPart, RequestInv, TestedInv, BegunInv, ReturnInv, GivingUp
<1>4. ASSUME Leave(c) PROVE P
  <2>1. req'[c].parent = 0 /\ pc'[c] = "idle"
      BY <1>1, <1>4 DEF Leave, GoTo, TypeOK, NoRequest
  <2> QED BY <1>3, <2>1
\* The tested parent is left as it was.
<1>5. ASSUME UNCHANGED <<req, phase>>, pc[c] = "judge" \/ GivingUp(c), pc'[c] # "link",
             \A r \in Created : /\ Terminal(rec[r].state) => Terminal(rec'[r].state)
                                /\ rec[r].claimed => rec'[r].claimed
                                /\ rec[r].contBy = 0 => rec'[r].contBy = 0
                                /\ rec'[r].conv = rec[r].conv
      PROVE  RequestInv(c)' /\ TestedInv(c)' /\ BegunInv(c)'
    BY <1>1, <1>2, <1>5 DEF RequestInv, TestedInv, BegunInv
<1>6. ASSUME UNCHANGED <<rec, req, phase>>, pc[c] = "judge" \/ GivingUp(c), pc'[c] \notin {"link", "unlink"}
      PROVE  P
  <2>1. RequestInv(c)' /\ TestedInv(c)' /\ BegunInv(c)'
      BY <1>5, <1>6
  <2> QED BY <1>6, <2>1 DEF ConvPart, ReturnInv
<1> USE DEF GoTo, SetPhase
<1>7. CASE Status(c) \/ Purge(c)
    BY <1>1, <1>3, <1>7 DEF Status, Purge, TypeOK
<1>8. CASE Begin(c)
  <2>1. pc'[c] = "judge" /\ phase'[c] = "before"
      BY <1>1, <1>8 DEF Begin, TypeOK
  <2>2. req'[c].parent # 0 => req'[c].parent \in Created
    <3>1. ASSUME NEW q, req' = [req EXCEPT ![c] = [ask |-> q, parent |-> 0]] PROVE req'[c].parent = 0
        BY <1>1, <3>1 DEF TypeOK
    <3>2. ASSUME NEW q, NEW r \in Runs, Exists(r), req' = [req EXCEPT ![c] = [ask |-> q, parent |-> r]]
          PROVE  req'[c].parent \in Created
        BY <1>1, <3>2, NotBlank DEF TypeOK
    <3> QED BY <1>8, <3>1, <3>2 DEF Begin
  <2> QED BY <1>2, <2>1, <2>2 DEF ConvPart, RequestInv, TestedInv, BegunInv, ReturnInv, GivingUp
<1>9. CASE Judge(c)
  <2>1. UNCHANGED <<rec, req, phase>> /\ pc[c] = "judge" /\ pc'[c] \in {"judge", "giveup"}
      BY <1>1, <1>9 DEF Judge, TypeOK
  <2> QED BY <1>6, <2>1
<1>10. CASE GiveUp(c)
  <2>1. CASE Exists(lostRun[c])
    <3>1. PICK n \in Runs : n = lostRun[c]
        BY <1>1, <1>10 DEF GiveUp, PlaceInv, GivingUp, Created
    <3>2. UNCHANGED <<req, phase>> /\ pc[c] = "giveup" /\ pc'[c] = "release" /\ SetState(n, "FAILED")
        BY <1>1, <1>10, <2>1, <3>1 DEF GiveUp, locals, TypeOK
    <3>3. /\ rec'[n].state = "FAILED" /\ rec'[n].claimed = rec[n].claimed /\ rec'[n].contBy = rec[n].contBy
          /\ rec'[n].conv = rec[n].conv
        BY <1>1, <3>2, StateEffect
    <3>4. \A r \in Runs \ {n} : rec'[r] = rec[r]
        BY <1>1, <3>2, StateEffect
    <3>5. RequestInv(c)' /\ TestedInv(c)' /\ BegunInv(c)'
        BY <1>2, <1>5, <3>2, <3>3, <3>4 DEF GivingUp, Terminal, TerminalStates
    <3> QED BY <3>2, <3>5 DEF ConvPart, ReturnInv
  <2> QED BY <1>4, <1>10, <2>1 DEF GiveUp
<1>11. ASSUME AfterRelease(c), lock = c \/ lock = Nobody, phase[c] # "start"
       PROVE  pc'[c] = "judge" /\ UNCHANGED <<req, phase>>
  <2>1. Locked(c) => lock = c
      BY <1>1 DEF PlaceInv
  <2> QED BY <1>1, <1>11, <2>1, AfterReleaseEffect
<1>12. CASE Release(c)
  <2>1. CASE phase[c] # "start" /\ AfterRelease(c)
      BY <1>6, <1>11, <1>12, <2>1 DEF Release, GivingUp
  <2>2. CASE phase[c] = "start" /\ AfterRelease(c)
      BY <1>4, <2>2 DEF AfterRelease
  <2>3. CASE Exists(lostRun[c]) /\ Holds(lostRun[c]) /\ lock' = c /\ GoTo(c, "unlink") /\ UNCHANGED locals
    <3>1. UNCHANGED <<rec, req, phase, lostRun>> /\ pc[c] = "release" /\ pc'[c] = "unlink"
        BY <1>1, <1>12, <2>3 DEF Release, locals, TypeOK
    <3>2. RequestInv(c)' /\ TestedInv(c)' /\ BegunInv(c)'
        BY <1>5, <3>1 DEF GivingUp
    <3> QED BY <2>3, <3>1, <3>2 DEF ConvPart, ReturnInv, Exists, Holds
  <2> QED BY <1>4, <1>12, <2>1, <2>2, <2>3 DEF Release
<1>13. CASE Unlink(c)
  <2>1. CASE phase[c] = "start"
      BY <1>4, <1>13, <2>1 DEF Unlink, AfterRelease
  <2>2. CASE phase[c] # "start"
    <3>1. pc[c] = "unlink" /\ pc'[c] = "judge" /\ UNCHANGED <<req, phase>>
        BY <1>1, <1>11, <1>13, <2>2 DEF Unlink, PlaceInv
    <3>2. PICK p : rec' = [rec EXCEPT ![p].contBy = 0]
        BY <1>13 DEF Unlink, UnlinkParent
    <3>3. \A r \in Runs : /\ rec'[r].state = rec[r].state /\ rec'[r].claimed = rec[r].claimed
                          /\ rec'[r].conv = rec[r].conv
                          /\ rec[r].contBy = 0 => rec'[r].contBy = 0
        BY <1>1, <3>2, LinkEffect
    <3>4. RequestInv(c)' /\ TestedInv(c)' /\ BegunInv(c)'
        BY <1>2, <1>5, <3>1, <3>3 DEF GivingUp
    <3> QED BY <3>1, <3>4 DEF ConvPart, ReturnInv
  <2> QED BY <2>1, <2>2
<1>14. CASE StatusDone(c) \/ Rejected(c) \/ CrashClient(c)
    BY <1>4, <1>14 DEF StatusDone, Rejected, CrashClient
<1>15. CASE Lock(c)
  <2>1. CASE Leave(c)
      BY <1>4, <2>1
  <2>2. CASE ~Leave(c)
    <3>1. /\ phase'[c] = IF req[c].parent = 0 THEN "scan" ELSE "parent"
          /\ pc'[c] = "judge" /\ UNCHANGED req
        BY <1>1, <1>15, <2>2 DEF Lock, Judged, TypeOK
    <3> QED BY <1>1, <1>2, <3>1 DEF ConvPart, RequestInv, TestedInv, BegunInv, ReturnInv
  <2> QED BY <2>1, <2>2
<1>16. CASE CheckParent(c)
  <2>1. CASE pc'[c] = "reject"
      BY <1>3, <1>16, <2>1 DEF CheckParent
  <2>2. CASE pc'[c] # "reject"
    <3>1. UNCHANGED <<rec, req>> /\ pc'[c] = "judge" /\ ~Problem(rec[req[c].parent], req[c].ask)
        BY <1>1, <1>16, <2>2 DEF CheckParent, Judged, TypeOK
    <3> QED BY <1>1, <1>2, <3>1 DEF ConvPart, RequestInv, TestedInv, BegunInv, ReturnInv, Problem
  <2> QED BY <2>1, <2>2
<1>17. CASE DenyEarly(c) \/ Reject(c) \/ Link(c) \/ Mark(c) \/ Launch(c)
    BY <1>1, <1>3, <1>17
    DEF DenyEarly, Reject, Link, Mark, Launch, StartFailed, locals, TypeOK, PlaceInv
<1>18. CASE Handshake(c)
    BY <1>1, <1>3, <1>4, <1>18 DEF Handshake, StartFailed, TypeOK, PlaceInv
<1>19. CASE RemoveRun(c)
    BY <1>1, <1>3, <1>4, <1>19 DEF RemoveRun
<1>20. CASE Admit(c)
  <2>1. CASE UNCHANGED <<rec, mine>> /\ GoTo(c, "reject")
      BY <1>1, <1>3, <1>20, <2>1 DEF Admit, TypeOK
  <2>2. CASE Submit(c, Conversation(req[c])) /\ GoTo(c, "link")
    <3>1. c \in Creating
        BY <1>1, <1>20 DEF Admit, Judged, PlaceInv, Owning, Creating
    <3>2. PICK n \in Runs : n = Fresh /\ n \notin Created
        BY <1>1, <3>1, FreshFits
    <3>3. /\ rec'[n] = [state |-> "SUBMITTED", ask |-> req[c].ask, parent |-> req[c].parent,
                        conv |-> Conversation(req[c]), claimed |-> FALSE, contBy |-> 0]
          /\ \A r \in Runs \ {n} : rec'[r] = rec[r]
          /\ mine'[c] = n
        BY <1>1, <2>2, <3>2 DEF Submit, TypeOK
    <3>4. UNCHANGED <<req, phase>> /\ pc[c] = "judge" /\ phase[c] = "scan" /\ pc'[c] = "link"
        BY <1>1, <1>20, <2>2 DEF Admit, Judged, TypeOK
    <3>5. req[c].parent # 0 => req[c].parent \in Created /\ rec'[req[c].parent] = rec[req[c].parent]
        BY <1>1, <1>2, <3>2, <3>3 DEF RequestInv
    <3>6. RequestInv(c)' /\ TestedInv(c)'
        BY <1>1, <1>2, <3>4, <3>5 DEF RequestInv, TestedInv
    <3>7. ASSUME req[c].parent = 0, NEW s \in Runs, User(s)', rec'[s].conv = rec'[n].conv PROVE rec'[n].conv = 0
      <4>1. User(s)
        <5>1. ~Link(c)
            BY <3>4 DEF Link
        <5>2. Attached(s)' => Attached(s)
            BY <5>1, ClientAttached
        <5> QED BY <3>3, <3>7, <5>2 DEF User
      <4>2. s \in Created /\ s # n
          BY <3>2, <4>1, UserCreated
      <4>3. rec[s].conv \in Created \union {0}
          BY <1>1 DEF LinkInv, NamesInv
      <4>4. rec'[n].conv \in {0, n}
          BY <3>2, <3>3, <3>7 DEF Conversation
      <4> QED BY <3>2, <3>3, <3>7, <4>2, <4>3, <4>4
    <3>8. rec'[n].parent = req[c].parent /\ rec'[n].contBy = 0
        BY <3>3
    <3>9. req[c].parent # 0 => rec'[n].conv = rec[req[c].parent].conv
        BY <3>3 DEF Conversation
    <3>10. BegunInv(c)'
        BY <3>3, <3>4, <3>5, <3>7, <3>8, <3>9 DEF BegunInv
    <3> QED BY <3>4, <3>6, <3>10 DEF ConvPart, ReturnInv
  <2> QED BY <1>20, <2>1, <2>2 DEF Admit
<1> QED
    BY <1>7, <1>8, <1>9, <1>10, <1>12, <1>13, <1>14, <1>15, <1>16, <1>17, <1>18, <1>19, <1>20
    DEF Call, ClientStep

LEMMA ConvByClient ==
    ASSUME Base, ConvInv, TypeOK', NEW c \in Clients, Call(c) \/ ClientStep(c) \/ CrashClient(c)
    PROVE  ConvInv'
<1>1. /\ TypeOK /\ RoomInv /\ PlaceInv(c)
    BY BaseParts
<1>2. OthersSame(c) /\ Created \subseteq Created'
    BY <1>1, ClientFrame, ClientRoom
<1>3. LinkInv' /\ ConvPart(c)'
    BY LinkKept, OwnPart
<1>4. ASSUME NEW d \in Clients \ {c} PROVE ConvPart(d)'
  <2>1. ConvPart(d) /\ Same(d) /\ PlaceInv(d)
      BY <1>2, BaseParts, ConvParts DEF OthersSame
  <2>2. phase[d] = "scan" \/ pc[d] = "unlink" => lock # c /\ lock # Nobody
      BY <2>1, Types DEF PlaceInv, Locked
  <2>3. pc[d] = "unlink" => lostRun[d] \in Created
      BY <2>1 DEF PlaceInv, GivingUp
  <2>4. phase[d] = "scan" \/ pc[d] = "unlink" =>
          /\ \A r \in Created : Guarded(r) /\ (rec'[r].claimed <=> rec[r].claimed)
          /\ \A r \in Runs : User(r)' => User(r)
      BY <2>2, GuardedByClient
  <2> QED BY <1>2, <2>1, <2>3, <2>4, GuardedPart
<1>5. ASSUME NEW r \in Runs PROVE UnlinkInv(r)'
  <2> SUFFICES ASSUME sup'[r] = "unlink" PROVE Exists(r)' /\ Holds(r)'
      BY DEF UnlinkInv
  <2>1. sup[r] = "unlink"
    <3>1. Kept(r) \/ Touched(c, r)
        BY <1>1, ClientTouches
    <3> QED BY <3>1 DEF Kept, Touched, Moved, Submitted, Removed
  <2>2. lock = r /\ lock # c /\ lock # Nobody
      BY <2>1, Types, BaseParts DEF RunInv
  <2>3. Exists(r) /\ Holds(r)
      BY <2>1, ConvParts DEF UnlinkInv
  <2>4. PICK p \in Created : p = rec[r].parent /\ r \in Created
      BY <1>1, <2>3, HoldsParent
  <2>5. Guarded(r) /\ Guarded(p) /\ (rec'[r].claimed <=> rec[r].claimed)
      BY <2>2, <2>4, GuardedByClient
  <2>6. Exists(r)' /\ rec'[r].parent = p /\ p # 0 /\ ~rec'[r].claimed /\ Exists(p)' /\ rec'[p].contBy = r
      BY <2>3, <2>4, <2>5 DEF Guarded, Holds
  <2> QED BY <2>6 DEF Holds, Exists
<1>6. \A d \in Clients : ConvPart(d)'
    BY <1>3, <1>4
<1> QED BY <1>3, <1>5, <1>6 DEF ConvInv, ConvPart

LEMMA ConvBySupervisor ==
    ASSUME Base, ConvInv, TypeOK', NEW r \in Runs, SupervisorStep(r) \/ KillSup(r)
    PROVE  ConvInv'
<1>1. TypeOK /\ RoomInv /\ RunInv(r)
    BY BaseParts
<1>2. LinkInv'
  <2>1. CASE SupUnlink(r)
      BY <2>1, LinkBySupUnlink
  <2>2. CASE ~SupUnlink(r)
      BY <1>1, <2>2, SupervisorQuiet, LinkQuiet, ConvParts
  <2> QED BY <2>1, <2>2
<1>3. (\A d \in Clients : Same(d)) /\ Created' = Created
    BY <1>1, SupervisorFrame, SupervisorRoom
<1>4. sup[r] \notin {"none", "gone"} /\ \A q \in Runs \ {r} : Kept(q)
    BY <1>1, SupervisorTouches
<1>5. ASSUME NEW d \in Clients PROVE ConvPart(d)'
  <2>1. ConvPart(d) /\ Same(d) /\ PlaceInv(d) /\ LostInv(d)
      BY <1>3, BaseParts, ConvParts
  <2>2. phase[d] = "scan" \/ pc[d] = "unlink" => lock # r
      BY <2>1, Types DEF PlaceInv, Locked
  <2>3. phase[d] = "scan" \/ pc[d] = "unlink" =>
          /\ \A q \in Created : Guarded(q)
          /\ \A q \in Runs : User(q)' => User(q)
      BY <2>2, GuardedBySupervisor DEF Created
  <2>4. pc[d] = "unlink" => (rec'[lostRun[d]].claimed => rec[lostRun[d]].claimed)
    <3> SUFFICES ASSUME pc[d] = "unlink" PROVE rec'[lostRun[d]].claimed => rec[lostRun[d]].claimed
        OBVIOUS
    <3>1. lostRun[d] \in Runs \ {r}
        BY <1>4, <2>1 DEF PlaceInv, LostInv, GivingUp, Created
    <3> QED BY <1>4, <3>1 DEF Kept
  <2> QED BY <1>3, <2>1, <2>3, <2>4, GuardedPart
<1>6. ASSUME NEW q \in Runs PROVE UnlinkInv(q)'
  <2> SUFFICES ASSUME sup'[q] = "unlink" PROVE Exists(q)' /\ Holds(q)'
      BY DEF UnlinkInv
  <2>1. CASE q # r
    <3>1. sup[q] = "unlink" /\ lock = q
        BY <1>4, <2>1, BaseParts DEF Kept, RunInv
    <3>2. Exists(q) /\ Holds(q)
        BY <3>1, ConvParts DEF UnlinkInv
    <3>3. PICK p \in Created : p = rec[q].parent /\ p \in Runs
        BY <1>1, <3>2, HoldsParent DEF Created
    <3>4. Guarded(q) /\ Guarded(p) /\ (rec'[q].claimed = rec[q].claimed)
        BY <1>4, <2>1, <3>1, <3>3, GuardedBySupervisor DEF Kept
    <3>5. Exists(q)' /\ rec'[q].parent = p /\ p # 0 /\ ~rec'[q].claimed /\ Exists(p)' /\ rec'[p].contBy = q
        BY <3>2, <3>3, <3>4 DEF Guarded, Holds
    <3> QED BY <3>5 DEF Holds, Exists
  <2>2. CASE q = r
    <3>1. UNCHANGED rec /\ Exists(r) /\ Holds(r)
      <4>1. ~SupRun(r) /\ ~SupClaim(r) /\ ~SupEnd(r) /\ ~SupUnlink(r) /\ ~KillSup(r)
          BY <1>1, <2>2 DEF SupRun, SupClaim, SupEnd, SupUnlink, KillSup, SupGoTo, TypeOK
      <4>2. SupRelease(r)
          BY <4>1 DEF SupervisorStep
      <4> QED BY <1>1, <2>2, <4>2 DEF SupRelease, SupGoTo, TypeOK
    <3> QED BY <2>2, <3>1 DEF Exists, Holds
  <2> QED BY <2>1, <2>2
<1> QED BY <1>2, <1>5, <1>6 DEF ConvInv, ConvPart

LEMMA ConvInit == Init => ConvInv
<1> SUFFICES ASSUME Init PROVE ConvInv
    OBVIOUS
<1>1. \A r \in Runs : rec[r] = NoRecord /\ sup[r] = "none"
    BY DEF Init
<1>2. \A r \in Runs : /\ rec[r].state = "none" /\ rec[r].conv = 0 /\ rec[r].parent = 0
                      /\ rec[r].contBy = 0 /\ ~rec[r].claimed
    BY <1>1 DEF NoRecord
<1>3. \A c \in Clients : pc[c] = "idle" /\ phase[c] = "none" /\ req[c].parent = 0
    BY DEF Init, NoRequest
<1>4. \A r \in Runs : ~User(r) /\ ~Attached(r)
    BY <1>1, <1>2, <1>3 DEF User, Attached
<1>5. LinkInv
    BY <1>1, <1>2, <1>4 DEF LinkInv, BlankInv, NamesInv, UserInv, LatestInv, Latest
<1>6. \A c \in Clients : RequestInv(c) /\ TestedInv(c) /\ BegunInv(c) /\ ReturnInv(c)
    BY <1>3 DEF RequestInv, TestedInv, BegunInv, ReturnInv
<1>7. \A r \in Runs : UnlinkInv(r)
    BY <1>1 DEF UnlinkInv
<1> QED BY <1>5, <1>6, <1>7 DEF ConvInv

LEMMA ConvKept == Base /\ ConvInv /\ [Next]_vars => ConvInv'
<1> SUFFICES ASSUME Base, ConvInv, [Next]_vars PROVE ConvInv'
    OBVIOUS
<1>1. CASE UNCHANGED vars
  <2>1. UNCHANGED <<rec, lock, sup, pc, phase, req, mine, lostRun>>
      BY <1>1 DEF vars, locals
  <2>2. /\ \A r : (Exists(r)' <=> Exists(r)) /\ (User(r)' <=> User(r)) /\ (Attached(r)' <=> Attached(r))
        /\ \A r : Holds(r)' <=> Holds(r)
        /\ Created' = Created
      BY <2>1 DEF Exists, User, Attached, Holds, Created
  <2>3. LinkInv'
    <3>1. BlankInv' /\ NamesInv'
        BY <2>1, <2>2 DEF ConvInv, LinkInv, BlankInv, NamesInv, Exists
    <3>2. UserInv'
        BY <2>1, <2>2 DEF ConvInv, LinkInv, UserInv, Exists
    <3>3. \A r : Latest(r)' <=> Latest(r)
        BY <2>1 DEF Latest, User, Attached, Exists
    <3>4. LatestInv'
        BY <2>1, <3>3 DEF ConvInv, LinkInv, LatestInv
    <3> QED BY <3>1, <3>2, <3>4 DEF LinkInv
  <2>4. ASSUME NEW c \in Clients
        PROVE  RequestInv(c)' /\ TestedInv(c)' /\ BegunInv(c)' /\ ReturnInv(c)'
    <3>1. RequestInv(c)' /\ TestedInv(c)'
        BY <2>1, <2>2 DEF ConvInv, RequestInv, TestedInv, GivingUp
    <3>2. BegunInv(c)'
        BY <2>1, <2>2 DEF ConvInv, BegunInv
    <3>3. ReturnInv(c)'
        BY <2>1 DEF ConvInv, ReturnInv, Exists, Holds
    <3> QED BY <3>1, <3>2, <3>3
  <2>5. \A r \in Runs : UnlinkInv(r)'
      BY <2>1, <2>2 DEF ConvInv, UnlinkInv
  <2> QED BY <2>3, <2>4, <2>5 DEF ConvInv
<1>2. CASE Next
  <2>1. TypeOK'
      BY BaseKept DEF Base
  <2> QED BY <1>2, <2>1, ConvByClient, ConvBySupervisor DEF Next
<1> QED BY <1>1, <1>2

\* A run that used its parent's session is the one its parent names, whatever
\* was given up, given back, purged or killed on the way.
THEOREM ConversationsLinear == Spec => []LinearConversation
<1>1. Base /\ ConvInv => LinearConversation
    BY DEF ConvInv, LinkInv, UserInv, User, LinearConversation
<1> QED BY <1>1, BaseInit, BaseKept, ConvInit, ConvKept, PTL DEF Spec

\* A conversation has at most one run that can be continued.
THEOREM TipUnique == Spec => []OneTip
<1>1. Base /\ ConvInv => OneTip
  <2> SUFFICES ASSUME ConvInv, NEW r \in Runs, NEW s \in Runs, Tip(r), Tip(s), rec[r].conv = rec[s].conv
               PROVE  r = s
      BY DEF OneTip
  <2>1. \A q \in Runs : Tip(q) => Latest(q) /\ rec[q].conv # 0
      BY DEF Tip, Resumable, Latest, User
  <2> QED BY <2>1 DEF ConvInv, LinkInv, LatestInv
<1> QED BY <1>1, BaseInit, BaseKept, ConvInit, ConvKept, PTL DEF Spec

\* At most one live supervisor at a time works for a conversation.
THEOREM SupervisorAlone == Spec => []OneSupervisor
<1>1. Base /\ ConvInv => OneSupervisor
  <2> SUFFICES ASSUME ConvInv, NEW r \in Runs, NEW s \in Runs,
                      sup[r] \in {"boot", "running", "ending"}, sup[s] \in {"boot", "running", "ending"},
                      rec[r].conv # 0, rec[r].conv = rec[s].conv
               PROVE  r = s
      BY DEF OneSupervisor
  <2>1. \A q \in Runs : sup[q] \in {"boot", "running", "ending"} => Latest(q)
      BY DEF ConvInv, LinkInv, UserInv, Attached, User, Latest
  <2> QED BY <2>1 DEF ConvInv, LinkInv, LatestInv
<1> QED BY <1>1, BaseInit, BaseKept, ConvInit, ConvKept, PTL DEF Spec

-----------------------------------------------------------------------------
(* Continuations that are purged.                                          *)

\* A client that purges has r still to remove.
Condemned(r) == \E c \in Clients : pc[c] = "purge" /\ \E t \in todo[c] : t[1] = r

\* A run that waits for a continuation has ended and is the older of the two,
\* so purge removes it too, and after its continuation.
WaitInv ==
    \A r \in Runs : rec[r].contBy # 0 =>
        /\ r < rec[r].contBy
        /\ Terminal(rec[r].state)
        /\ Exists(rec[r].contBy) \/ Condemned(r)
        /\ Condemned(rec[r].contBy) => Condemned(r)

\* A run is linked to one that was created before it.
OlderInv == \A c \in Clients : pc[c] = "link" => req[c].parent < mine[c]

TipInv == WaitInv /\ OlderInv

\* Whoever purges has the lock.
LEMMA NoneCondemned ==
    ASSUME Base, NEW a, lock = a, \A c \in Clients : c = a => pc[c] # "purge"
    PROVE  \A r \in Runs : ~Condemned(r)
BY BaseParts DEF PlaceInv, Condemned

LEMMA WaitFrame ==
    ASSUME WaitInv,
           \A r \in Runs :
              /\ rec'[r].contBy \in {0, rec[r].contBy}
              /\ rec'[r].contBy # 0 /\ Terminal(rec[r].state) => Terminal(rec'[r].state)
              /\ Condemned(r)' <=> Condemned(r),
           \A r \in Runs : rec[r].contBy \in Runs \union {0} /\ (Exists(r) => Exists(r)')
    PROVE  WaitInv'
<1> SUFFICES ASSUME NEW r \in Runs, rec'[r].contBy # 0
             PROVE  /\ r < rec'[r].contBy
                    /\ Terminal(rec'[r].state)
                    /\ Exists(rec[r].contBy)' \/ Condemned(r)'
                    /\ Condemned(rec[r].contBy)' => Condemned(r)'
                    /\ rec'[r].contBy = rec[r].contBy
    BY DEF WaitInv, Exists, Condemned
<1>1. rec'[r].contBy = rec[r].contBy /\ rec[r].contBy \in Runs
    OBVIOUS
<1> QED BY <1>1 DEF WaitInv

\* Clients that neither begin nor go on purging condemn nobody.
LEMMA CondemnedSame ==
    ASSUME NEW c \in Clients, OthersSame(c), pc[c] # "purge", pc'[c] # "purge"
    PROVE  \A r \in Runs : Condemned(r)' <=> Condemned(r)
BY DEF OthersSame, Same, Condemned

\* What becomes of the state of a run that has been continued.
LEMMA WaiterEnded ==
    ASSUME Base, ConvInv, NEW c \in Clients, Call(c) \/ ClientStep(c) \/ CrashClient(c),
           NEW r \in Runs, rec[r].contBy # 0, rec'[r].contBy # 0, Terminal(rec[r].state)
    PROVE  Terminal(rec'[r].state)
<1>1. TypeOK /\ RoomInv /\ PlaceInv(c) /\ StarterInv(c)
    BY BaseParts
<1>2. Kept(r) \/ Touched(c, r)
    BY <1>1, ClientTouches
<1>3. CASE Kept(r) \/ rec'[r] = rec[r]
    BY <1>3 DEF Kept
<1>4. CASE Moved(r, "FAILED") \/ Moved(r, "REJECTED")
    BY <1>4 DEF Moved, Terminal, TerminalStates
<1>5. ~Submitted(c, r) /\ ~Removed(c, r)
    BY DEF Submitted, Removed, NoRecord
<1>6. ~(pc[c] = "mark" /\ r = mine[c])
    BY ConvParts DEF LinkInv, UserInv, Attached
<1> QED BY <1>2, <1>3, <1>4, <1>5, <1>6 DEF Touched

LEMMA WaitByLink ==
    ASSUME Base, ConvInv, TipInv, NEW c \in Clients, Link(c)
    PROVE  WaitInv'
<1>1. TypeOK /\ PlaceInv(c) /\ StarterInv(c) /\ ConvPart(c)
    BY BaseParts, ConvParts
<1>2. pc[c] = "link" /\ pc'[c] = "mark" /\ lock = c /\ UNCHANGED <<lock, locals>>
    BY <1>1 DEF Link, TypeOK, GoTo, PlaceInv, Locked
<1>3. OthersSame(c)
    BY <1>1, <1>2, ClientFrame DEF ClientStep
<1>4. \A r \in Runs : ~Condemned(r) /\ ~Condemned(r)'
    BY <1>2, <1>3, CondemnedSame, NoneCondemned
<1>5. CASE req[c].parent = 0
  <2>1. rec' = rec
      BY <1>5 DEF Link
  <2> QED BY <1>1, <1>4, <2>1, WaitFrame, NotBlank DEF TipInv, Exists
<1>6. CASE req[c].parent # 0
  <2>1. PICK p \in Runs, n \in Runs : p = req[c].parent /\ n = mine[c]
      BY <1>1, <1>2, <1>6 DEF ConvPart, RequestInv, PlaceInv, Owning, Created
  <2>2. rec' = [rec EXCEPT ![p].contBy = n]
      BY <1>6, <2>1 DEF Link
  <2>3. \A r \in Runs : rec'[r].state = rec[r].state /\ rec'[r].contBy = IF r = p THEN n ELSE rec[r].contBy
    <3> TAKE r \in Runs
    <3>1. rec[r] \in Record /\ rec[p] \in Record
        BY <1>1 DEF TypeOK
    <3>2. CASE r = p
      <4>1. rec'[p] = [rec[p] EXCEPT !.contBy = n]
          BY <1>1, <2>2 DEF TypeOK
      <4> QED BY <3>1, <3>2, <4>1 DEF Record
    <3>3. CASE r # p
      <4>1. rec'[r] = rec[r]
          BY <1>1, <2>2, <3>3 DEF TypeOK
      <4> QED BY <3>3, <4>1
    <3> QED BY <3>2, <3>3
  <2>4. p < n /\ Terminal(rec[p].state)
      BY <1>1, <1>2, <1>6, <2>1, Types DEF TipInv, OlderInv, ConvPart, TestedInv, PlaceInv
  <2>5. Exists(n)'
      BY <1>1, <1>2, <2>1, <2>3 DEF StarterInv, Exists, TaskStates, ActiveStates
  <2>6. \A r \in Runs : Exists(r)' <=> Exists(r)
      BY <2>3 DEF Exists
  <2> SUFFICES ASSUME NEW r \in Runs, NEW q, q = rec'[r].contBy, q # 0
               PROVE  r < q /\ Terminal(rec'[r].state) /\ Exists(q)' /\ ~Condemned(q)'
      BY DEF WaitInv, Exists, Condemned
  <2>7. CASE r = p
      BY <1>4, <2>1, <2>3, <2>4, <2>5, <2>7
  <2>8. CASE r # p
    <3>1. q = rec[r].contBy /\ q \in Runs
        BY <1>1, <2>3, <2>8, NotBlank
    <3>2. r < q /\ Terminal(rec[r].state) /\ Exists(q)
        BY <1>4, <3>1 DEF TipInv, WaitInv
    <3> QED BY <1>4, <2>3, <2>6, <3>1, <3>2
  <2> QED BY <2>7, <2>8
<1> QED BY <1>5, <1>6

\* The list of a purge has every ended run that is older than one on it.
LEMMA WaitByPurge ==
    ASSUME Base, TipInv, NEW c \in Clients, Purge(c)
    PROVE  WaitInv'
<1>1. TypeOK
    BY BaseParts
<1>2. lock = Nobody /\ rec' = rec /\ pc'[c] = "purge" /\ \A d \in Clients \ {c} : pc'[d] = pc[d] /\ todo'[d] = todo[d]
    BY <1>1 DEF Purge, GoTo, TypeOK
<1>3. PICK k \in Created :
         todo'[c] = {<<r, rec[r].state>> : r \in {q \in 1 .. k : Terminal(rec[q].state)}}
    BY <1>1 DEF Purge, TypeOK
<1>4. \A r \in Runs : ~Condemned(r)
    BY <1>2, NoneCondemned, Types
<1>5. \A d \in Clients : pc[d] # "purge"
    BY <1>2, BaseParts, Types DEF PlaceInv
<1>6. \A r \in Runs : Condemned(r)' <=> r \in 1 .. k /\ Terminal(rec[r].state)
  <2> TAKE r \in Runs
  <2>1. Condemned(r)' <=> \E t \in todo'[c] : t[1] = r
      BY <1>2, <1>5 DEF Condemned
  <2>2. r \in 1 .. k /\ Terminal(rec[r].state) => \E t \in todo'[c] : t[1] = r
    <3> SUFFICES ASSUME r \in 1 .. k, Terminal(rec[r].state) PROVE \E t \in todo'[c] : t[1] = r
        OBVIOUS
    <3>1. <<r, rec[r].state>> \in todo'[c]
        BY <1>3
    <3> QED BY <3>1
  <2>3. ASSUME NEW t \in todo'[c], t[1] = r PROVE r \in 1 .. k /\ Terminal(rec[r].state)
    <3>1. PICK q \in {p \in 1 .. k : Terminal(rec[p].state)} : t = <<q, rec[q].state>>
        BY <1>3
    <3> QED BY <2>3, <3>1
  <2> QED BY <2>1, <2>2, <2>3
<1> SUFFICES ASSUME NEW r \in Runs, NEW q, q = rec[r].contBy, q # 0
             PROVE  r < q /\ Terminal(rec[r].state) /\ Exists(q) /\ (Condemned(q)' => Condemned(r)')
    BY <1>2 DEF WaitInv, Exists, Condemned
<1>7. r < q /\ Terminal(rec[r].state) /\ Exists(q) /\ q \in Runs
    BY <1>1, <1>4, NotBlank DEF TipInv, WaitInv
<1>8. k \in Nat /\ r \in Nat \ {0} /\ q \in Nat
    BY <1>7, Types DEF Created
<1>9. q \in 1 .. k => r \in 1 .. k
    BY <1>7, <1>8
<1> QED BY <1>6, <1>7, <1>9

LEMMA WaitByRemove ==
    ASSUME Base, TipInv, NEW c \in Clients, RemoveRun(c)
    PROVE  WaitInv'
<1>1. TypeOK /\ PlaceInv(c) /\ pc[c] = "purge"
    BY BaseParts DEF RemoveRun
<1>2. OthersSame(c)
    BY <1>1, ClientFrame DEF ClientStep
<1>3. \A d \in Clients \ {c} : pc[d] # "purge" /\ pc'[d] # "purge"
    BY <1>1, <1>2, BaseParts DEF PlaceInv, OthersSame, Same
<1>4. \A r \in Runs : Condemned(r) <=> \E t \in todo[c] : t[1] = r
    BY <1>1, <1>3 DEF Condemned
<1>5. CASE todo[c] = {} /\ Leave(c) /\ UNCHANGED rec
  <2>1. pc'[c] = "idle"
      BY <1>1, <1>5, LeaveEffect
  <2>2. \A r \in Runs : Condemned(r)' <=> Condemned(r)
      BY <1>3, <1>4, <1>5, <2>1 DEF Condemned
  <2> QED BY <1>1, <1>5, <2>2, WaitFrame, NotBlank DEF TipInv, Exists
<1>6. ASSUME NEW t \in todo[c], UNCHANGED pc, todo' = [todo EXCEPT ![c] = @ \ {t}],
             rec' = [rec EXCEPT ![t[1]] = [NoRecord EXCEPT !.state = "purged"]]
      PROVE  WaitInv'
  <2>1. PICK u \in Runs : u = t[1]
      BY <1>1, <1>6 DEF PlaceInv, Created
  <2>2. rec'[u].contBy = 0 /\ \A r \in Runs \ {u} : rec'[r] = rec[r]
      BY <1>1, <1>6, <2>1 DEF TypeOK, NoRecord
  <2>3. pc'[c] = "purge" /\ todo'[c] = todo[c] \ {t}
      BY <1>1, <1>6 DEF TypeOK
  <2>4. \A r \in Runs : Condemned(r)' <=> \E v \in todo'[c] : v[1] = r
      BY <1>3, <2>3 DEF Condemned
  <2>5. \A r \in Runs \ {u} : Condemned(r)' <=> Condemned(r)
      BY <1>4, <2>1, <2>3, <2>4
  <2>6. \A r \in Runs : Condemned(r)' => Condemned(r)
      BY <1>4, <2>3, <2>4
  <2> SUFFICES ASSUME NEW r \in Runs, NEW q, q = rec'[r].contBy, q # 0
               PROVE  /\ r < q /\ Terminal(rec'[r].state)
                      /\ Exists(q)' \/ Condemned(r)'
                      /\ Condemned(q)' => Condemned(r)'
      BY DEF WaitInv, Exists, Condemned
  <2>7. r # u /\ q = rec[r].contBy /\ rec'[r] = rec[r] /\ q \in Runs
      BY <1>1, <2>2, NotBlank
  <2>8. r < q /\ Terminal(rec[r].state) /\ (Exists(q) \/ Condemned(r)) /\ (Condemned(q) => Condemned(r))
      BY <2>7 DEF TipInv, WaitInv
  <2>9. Exists(q) => Exists(q)' \/ q = u
      BY <2>2, <2>7 DEF Exists
  <2>10. Condemned(u)
      BY <1>4, <2>1
  <2> QED BY <2>5, <2>6, <2>7, <2>8, <2>9, <2>10
<1> QED BY <1>5, <1>6 DEF RemoveRun

LEMMA WaitByClient ==
    ASSUME "purger" \notin Crashable, Base, ConvInv, TipInv,
           NEW c \in Clients, Call(c) \/ ClientStep(c) \/ CrashClient(c)
    PROVE  WaitInv'
<1>1. TypeOK /\ RoomInv /\ PlaceInv(c) /\ OthersSame(c)
    BY BaseParts, ClientFrame
<1>2. CASE Link(c) \/ Purge(c) \/ RemoveRun(c)
    BY <1>2, WaitByLink, WaitByPurge, WaitByRemove
<1>3. CASE ~Link(c) /\ ~Purge(c) /\ ~RemoveRun(c)
  <2>1. pc[c] # "purge"
      BY <1>3 DEF Call, ClientStep, CrashClient, Status, Begin, Judge, GiveUp, Release, Unlink, StatusDone,
         Judged, DenyEarly, Lock, CheckParent, Admit, Reject, Rejected, Mark, Launch, Handshake
  <2>2. pc'[c] # "purge"
    <3>1. Leave(c) \/ AfterRelease(c) => pc'[c] # "purge"
        BY <1>1, <2>1 DEF Leave, AfterRelease, GoTo, TypeOK
    <3>2. CASE Call(c) \/ CrashClient(c) \/ StatusDone(c) \/ Rejected(c) \/ Lock(c)
        BY <1>1, <1>3, <2>1, <3>1, <3>2 DEF Call, Status, Begin, CrashClient, StatusDone, Rejected, Lock, GoTo, TypeOK
    <3>3. CASE Judge(c) \/ GiveUp(c) \/ Release(c) \/ Unlink(c)
        BY <1>1, <2>1, <3>1, <3>3 DEF Judge, GiveUp, Release, Unlink, GoTo, locals, TypeOK
    <3>4. CASE DenyEarly(c) \/ CheckParent(c) \/ Admit(c) \/ Reject(c) \/ Mark(c)
        BY <1>1, <2>1, <3>4 DEF DenyEarly, CheckParent, Admit, Reject, Mark, GoTo, TypeOK
    <3>5. CASE Launch(c) \/ Handshake(c)
        BY <1>1, <2>1, <3>1, <3>5 DEF Launch, Handshake, StartFailed, GoTo, TypeOK
    <3> QED BY <1>3, <3>2, <3>3, <3>4, <3>5 DEF ClientStep
  <2>3. \A r \in Runs : Condemned(r)' <=> Condemned(r)
      BY <1>1, <2>1, <2>2, CondemnedSame
  <2>4. \A r \in Runs : rec'[r].contBy \in {0, rec[r].contBy} /\ (Exists(r) => Exists(r)')
    <3>1. CASE Unlink(c)
      <4>1. PICK p : rec' = [rec EXCEPT ![p].contBy = 0]
          BY <3>1 DEF Unlink, UnlinkParent
      <4> QED BY <1>1, <4>1, LinkEffect DEF Exists
    <3>2. CASE Admit(c) \/ Reject(c)
      <4>1. CASE rec' = rec
          BY <4>1 DEF Exists
      <4>2. ASSUME NEW conv, Submit(c, conv) PROVE \A r \in Runs : rec'[r].contBy \in {0, rec[r].contBy} /\ (Exists(r) => Exists(r)')
        <5>1. c \in Creating
            BY <1>1, <3>2 DEF Admit, Reject, Judged, PlaceInv, Owning, Creating
        <5>2. Fresh \in Runs /\ Fresh \notin Created
            BY <1>1, <5>1, FreshFits
        <5>3. PICK n \in Runs : n = Fresh /\ ~Exists(n)
            BY <1>1, <5>2, NotBlank
        <5>4. /\ rec' = [rec EXCEPT ![n] = [state |-> "SUBMITTED", ask |-> req[c].ask, parent |-> req[c].parent,
                                            conv |-> conv, claimed |-> FALSE, contBy |-> 0]]
              /\ n \in DOMAIN rec
            BY <1>1, <4>2, <5>3 DEF Submit, TypeOK
        <5>5. rec'[n].contBy = 0 /\ \A r \in Runs \ {n} : rec'[r] = rec[r]
            BY <5>4
        <5> QED BY <5>3, <5>5 DEF Exists
      <4> QED BY <3>2, <4>1, <4>2 DEF Admit, Reject
    <3>3. CASE ~Unlink(c) /\ ~Admit(c) /\ ~Reject(c)
        BY <1>3, <3>3, ClientQuiet DEF Quiet
    <3> QED BY <3>1, <3>2, <3>3
  <2>5. \A r \in Runs : rec'[r].contBy # 0 /\ Terminal(rec[r].state) => Terminal(rec'[r].state)
      BY <2>4, WaiterEnded
  <2> QED BY <1>1, <2>3, <2>4, <2>5, WaitFrame, NotBlank DEF TipInv
<1> QED BY <1>2, <1>3

\* A run is linked as the last step of the admission that found its parent.
LEMMA OlderByClient ==
    ASSUME Base, ConvInv, TipInv, NEW c \in Clients, Call(c) \/ ClientStep(c) \/ CrashClient(c)
    PROVE  OlderInv'
<1>1. TypeOK /\ RoomInv /\ PlaceInv(c) /\ OthersSame(c) /\ RequestInv(c)
    BY BaseParts, ClientFrame DEF ConvInv
<1> SUFFICES ASSUME NEW d \in Clients, pc'[d] = "link" PROVE req'[d].parent < mine'[d]
    BY DEF OlderInv
<1>2. CASE d # c
    BY <1>1, <1>2 DEF OthersSame, Same, TipInv, OlderInv
<1>3. CASE d = c
  <2>1. Admit(c) /\ Submit(c, Conversation(req[c])) /\ UNCHANGED req
    <3>1. Leave(c) \/ AfterRelease(c) => pc'[c] # "link"
        BY <1>1 DEF Leave, AfterRelease, GoTo, TypeOK
    <3>2. ~CrashClient(c) /\ ~StatusDone(c) /\ ~Rejected(c) /\ ~Lock(c) /\ ~RemoveRun(c)
        BY <1>1, <1>3, <3>1 DEF CrashClient, StatusDone, Rejected, Lock, RemoveRun, Judged, GoTo, TypeOK
    <3>3. ~Judge(c) /\ ~GiveUp(c) /\ ~Release(c) /\ ~Unlink(c)
        BY <1>1, <1>3, <3>1 DEF Judge, GiveUp, Release, Unlink, GoTo, locals, TypeOK
    <3>4. ~DenyEarly(c) /\ ~CheckParent(c) /\ ~Reject(c) /\ ~Mark(c) /\ ~Link(c)
        BY <1>1, <1>3 DEF DenyEarly, CheckParent, Reject, Mark, Link, Judged, GoTo, TypeOK
    <3>5. ~Launch(c) /\ ~Handshake(c) /\ ~Call(c)
        BY <1>1, <1>3, <3>1 DEF Launch, Handshake, StartFailed, Call, Status, Begin, Purge, GoTo, TypeOK
    <3>6. Admit(c)
        BY <3>2, <3>3, <3>4, <3>5 DEF ClientStep
    <3> QED BY <1>1, <1>3, <3>6 DEF Admit, GoTo, TypeOK
  <2>2. c \in Creating
      BY <1>1, <2>1 DEF Admit, Judged, PlaceInv, Owning, Creating
  <2>3. mine'[c] = Cardinality(Created) + 1 /\ Created = 1 .. Cardinality(Created) /\ Cardinality(Created) \in Nat
      BY <1>1, <2>1, <2>2, FreshFits, SubmitEffect DEF Fresh
  <2>4. req[c].parent \in Created \union {0}
      BY <1>1 DEF RequestInv
  <2>5. req[c].parent < Cardinality(Created) + 1
      BY <2>3, <2>4
  <2> QED BY <1>3, <2>1, <2>3, <2>5
<1> QED BY <1>2, <1>3

LEMMA TipBySupervisor ==
    ASSUME Base, ConvInv, TipInv, NEW r \in Runs, SupervisorStep(r) \/ KillSup(r)
    PROVE  TipInv'
<1>1. TypeOK /\ UNCHANGED <<pc, req, mine, todo>>
    BY BaseParts, SupervisorFrame
<1>2. \A q \in Runs : Condemned(q)' <=> Condemned(q)
    BY <1>1 DEF Condemned
<1>3. \A q \in Runs : rec'[q].contBy \in {0, rec[q].contBy} /\ (Exists(q) => Exists(q)')
  <2>1. CASE SupUnlink(r)
    <3>1. PICK p : rec' = [rec EXCEPT ![p].contBy = 0]
        BY <2>1 DEF SupUnlink, UnlinkParent
    <3> QED BY <1>1, <3>1, LinkEffect DEF Exists
  <2>2. CASE ~SupUnlink(r)
      BY <2>2, SupervisorQuiet DEF Quiet
  <2> QED BY <2>1, <2>2
<1>4. \A q \in Runs : rec'[q].contBy # 0 /\ Terminal(rec[q].state) => Terminal(rec'[q].state)
  <2> SUFFICES ASSUME NEW q \in Runs, rec'[q].contBy # 0, Terminal(rec[q].state) PROVE Terminal(rec'[q].state)
      OBVIOUS
  <2>1. rec[q].contBy # 0
      BY <1>3
  <2>2. ~(q = r /\ sup[q] \in {"boot", "running", "ending"})
      BY <2>1, ConvParts DEF LinkInv, UserInv, Attached
  <2> QED BY <1>1, <2>2, BaseParts, SupervisorTouches DEF Kept
<1>5. WaitInv'
    BY <1>1, <1>2, <1>3, <1>4, WaitFrame, NotBlank DEF TipInv
<1> QED BY <1>1, <1>5 DEF TipInv, OlderInv

LEMMA TipKept ==
    ASSUME "purger" \notin Crashable
    PROVE  Base /\ ConvInv /\ TipInv /\ [Next]_vars => TipInv'
<1> SUFFICES ASSUME Base, ConvInv, TipInv, [Next]_vars PROVE TipInv'
    OBVIOUS
<1>1. CASE UNCHANGED vars
  <2>1. UNCHANGED <<rec, pc, req, mine, todo>>
      BY <1>1 DEF vars, locals
  <2> QED BY <2>1 DEF TipInv, WaitInv, OlderInv, Exists, Condemned
<1>2. CASE Next
    BY <1>2, WaitByClient, OlderByClient, TipBySupervisor DEF Next, TipInv
<1> QED BY <1>1, <1>2

LEMMA TipInit == Init => TipInv
<1> SUFFICES ASSUME Init PROVE TipInv
    OBVIOUS
<1>1. \A r \in Runs : rec[r].contBy = 0
    BY DEF Init, NoRecord
<1>2. \A c \in Clients : pc[c] = "idle"
    BY DEF Init
<1> QED BY <1>1, <1>2 DEF TipInv, WaitInv, OlderInv

\* When nobody is at work on the registry no kept run waits for a continuation
\* that is purged, for all that is killed but a purge itself: a purge that is
\* cut short between a continuation and its parent leaves such a run.
THEOREM TipsAreKept ==
    ASSUME "purger" \notin Crashable
    PROVE  Spec => []NoDanglingTip
<1>1. Base /\ TipInv => NoDanglingTip
  <2> SUFFICES ASSUME Base, TipInv, lock = Nobody, NEW r \in Runs, rec[r].contBy # 0
               PROVE  Exists(rec[r].contBy)
      BY DEF NoDanglingTip
  <2>1. ~Condemned(r)
      BY NoneCondemned, Types
  <2> QED BY <2>1 DEF TipInv, WaitInv
<1> QED BY <1>1, BaseInit, BaseKept, ConvInit, ConvKept, TipInit, TipKept, PTL DEF Spec
==============================================================================
