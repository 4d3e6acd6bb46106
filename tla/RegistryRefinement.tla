-------------------------- MODULE RegistryRefinement --------------------------
(***************************************************************************)
(* The registry implements the ledger, for any clients and requests, any   *)
(* number of runs, any limit, and whoever may be killed.  Base, CountInv   *)
(* and ConvInv of RegistryProofs say what a step finds; one more inductive *)
(* invariant, on top of Base and ConvInv, is about the order in which the  *)
(* runs of a conversation were created, which is the order of its line.    *)
(***************************************************************************)
EXTENDS RegistryProofs

\* Nothing of a conversation was created after its latest user, nor between a
\* run and its continuation, but what no longer has part in it.
LineInv ==
    \A r, s \in Runs : User(r) /\ User(s) /\ rec[r].conv = rec[s].conv /\ rec[r].conv # 0 =>
        /\ Latest(r) => s <= r
        /\ rec[r].contBy # 0 => s <= r \/ rec[r].contBy <= s

\* A run about to be linked was created after all that have part in a conversation.
NewestInv(c) == pc[c] = "link" => \A s \in Runs : User(s) => s < mine[c]

OrderInv == LineInv /\ \A c \in Clients : NewestInv(c)

-----------------------------------------------------------------------------
(* The order of a conversation's runs.                                     *)

LEMMA LineNarrower ==
    ASSUME LineInv, Narrower
    PROVE  LineInv'
BY DEF LineInv, Narrower

LEMMA LineQuiet ==
    ASSUME TypeOK, LinkInv, LineInv, Quiet
    PROVE  LineInv'
<1>1. \A r \in Runs : rec'[r].conv = rec[r].conv /\ rec'[r].contBy = rec[r].contBy /\ (User(r)' => User(r))
    BY DEF Quiet
<1> SUFFICES ASSUME NEW r \in Runs, NEW s \in Runs, User(r)', User(s)',
                    rec[r].conv = rec[s].conv, rec[r].conv # 0
             PROVE  /\ Latest(r)' => s <= r
                    /\ rec[r].contBy # 0 => s <= r \/ rec[r].contBy <= s
    BY <1>1 DEF LineInv
<1>2. User(r) /\ User(s)
    BY <1>1
<1>3. rec[r].contBy # 0 => s <= r \/ rec[r].contBy <= s
    BY <1>2 DEF LineInv
<1>4. ASSUME Latest(r)' PROVE s <= r
  <2>1. CASE Latest(r)
      BY <1>2, <2>1 DEF LineInv
  <2>2. CASE ~Latest(r)
    <3>1. PICK n \in Runs : /\ rec[r].contBy = n /\ Latest(n) /\ ~User(n)'
                            /\ rec[n].parent = r /\ rec[n].conv = rec[r].conv
        BY <1>4, <2>2, LatestQuiet
    <3>2. s <= n
        BY <1>2, <3>1 DEF LineInv, Latest
    <3>3. s # n /\ n # 0
        BY <3>1, Types
    <3>4. s <= r \/ n <= s
        BY <1>3, <3>1, <3>3
    <3> QED BY <3>2, <3>3, <3>4, LimitAssumption DEF Runs
  <2> QED BY <2>1, <2>2
<1> QED BY <1>3, <1>4

LEMMA LineContinued ==
    ASSUME TypeOK, LinkInv, LineInv, NEW n \in Runs, NEW p \in Runs \union {0}, Continues(n, p),
           \A s \in Runs : User(s) => s < n
    PROVE  LineInv'
<1>1. \A r \in Runs : /\ rec'[r].conv = rec[r].conv /\ (Exists(r)' <=> Exists(r))
                      /\ rec'[r].contBy = IF r = p THEN n ELSE rec[r].contBy
    BY DEF Continues, NamesSame
<1>2. \A r \in Runs \ {n} : User(r)' <=> User(r)
    BY DEF Continues, UseSame
<1>3. p # 0 => p \in Runs /\ Latest(p) /\ User(p) /\ rec[p].conv = rec[n].conv /\ p # n
    BY DEF Continues, Latest
<1>4. p = 0 => \A s \in Runs : User(s) /\ rec[s].conv = rec[n].conv => rec[n].conv = 0
    BY DEF Continues
<1>5. User(n)' /\ rec[n].contBy = 0
    BY DEF Continues
<1>6. ASSUME NEW q \in Runs \ {n}, Latest(q)' PROVE q # p /\ Latest(q)
  <2>1. User(q)
      BY <1>2, <1>6 DEF Latest
  <2>2. q # p
      BY <1>1, <1>5, <1>6, Types DEF Latest
  <2>3. rec'[q].contBy = rec[q].contBy
      BY <1>1, <2>2
  <2>4. CASE rec[q].contBy # 0
    <3>1. PICK m \in Runs : rec[q].contBy = m
        BY <2>4, NotBlank
    <3>2. Exists(m) /\ ~User(m)'
        BY <1>1, <1>6, <2>3, <2>4, <3>1 DEF Latest
    <3> QED BY <1>2, <1>5, <2>1, <2>2, <3>1, <3>2 DEF Latest
  <2> QED BY <2>1, <2>2, <2>4 DEF Latest
<1> SUFFICES ASSUME NEW r \in Runs, NEW s \in Runs, User(r)', User(s)',
                    rec[r].conv = rec[s].conv, rec[r].conv # 0
             PROVE  /\ Latest(r)' => s <= r
                    /\ rec'[r].contBy # 0 => s <= r \/ rec'[r].contBy <= s
    BY <1>1 DEF LineInv
<1> USE LimitAssumption DEF Runs
<1>7. CASE s # n
  <2>1. User(s)
      BY <1>2, <1>7
  <2>2. CASE r = n
      BY <2>1, <2>2
  <2>3. CASE r # n
    <3>1. User(r) /\ (Latest(r) => s <= r) /\ (rec[r].contBy # 0 => s <= r \/ rec[r].contBy <= s)
        BY <1>2, <2>1, <2>3 DEF LineInv
    <3>2. Latest(r)' => s <= r
        BY <1>6, <2>3, <3>1
    <3>3. CASE r = p
      <4>1. s <= r
          BY <1>3, <3>1, <3>3, Types
      <4> QED BY <3>2, <4>1
    <3>4. CASE r # p
        BY <1>1, <3>1, <3>2, <3>4
    <3> QED BY <3>3, <3>4
  <2> QED BY <2>2, <2>3
<1>8. CASE s = n /\ r # n
  <2>1. User(r) /\ r < n
      BY <1>2, <1>8
  <2>2. p # 0 /\ p \in Runs /\ Latest(p) /\ rec[p].conv = rec[r].conv /\ User(p)
      BY <1>3, <1>4, <1>8, <2>1
  <2>3. ~Latest(r)'
      BY <1>6, <1>8, <2>1, <2>2 DEF LinkInv, LatestInv
  <2>4. CASE r = p
      BY <1>1, <1>8, <2>3, <2>4
  <2>5. ASSUME r # p, rec[r].contBy # 0 PROVE rec[r].contBy <= s
    <3>1. r <= p
        BY <2>1, <2>2 DEF LineInv
    <3>2. p <= r \/ rec[r].contBy <= p
        BY <2>1, <2>2, <2>5 DEF LineInv
    <3>3. p < n /\ rec[r].contBy \in Runs
        BY <2>2, <2>5, NotBlank
    <3> QED BY <1>8, <2>2, <2>5, <3>1, <3>2, <3>3
  <2> QED BY <1>1, <2>3, <2>4, <2>5
<1>9. CASE s = n /\ r = n
    BY <1>9
<1> QED BY <1>7, <1>8, <1>9

-----------------------------------------------------------------------------
\* Only an admission leads to the link.
LEMMA OnlyAdmitLinks ==
    ASSUME Base, NEW c \in Clients, Call(c) \/ ClientStep(c) \/ CrashClient(c), pc'[c] = "link"
    PROVE  Admit(c)
<1>1. TypeOK /\ PlaceInv(c)
    BY BaseParts
<1>2. ~Leave(c)
    BY <1>1, LeaveEffect
<1>3. ~(AfterRelease(c) /\ (lock = c \/ lock = Nobody))
  <2>1. Locked(c) => lock = c
      BY <1>1 DEF PlaceInv
  <2> QED BY <1>1, <1>2, <2>1, AfterReleaseEffect
<1> USE DEF GoTo, TypeOK, Judged
<1>4. ~(\/ Status(c) \/ Begin(c) \/ Purge(c) \/ Judge(c) \/ GiveUp(c) \/ StatusDone(c) \/ DenyEarly(c)
        \/ Rejected(c) \/ CrashClient(c))
    BY <1>1, <1>2 DEF Status, Begin, Purge, Judge, GiveUp, StatusDone, DenyEarly, Rejected, CrashClient, locals
<1>5. ~Release(c)
    BY <1>1, <1>2, <1>3 DEF Release
<1>6. ~Unlink(c)
    BY <1>1, <1>3 DEF Unlink, PlaceInv
<1>7. ~(\/ Lock(c) \/ CheckParent(c) \/ Reject(c) \/ Link(c) \/ Mark(c) \/ Launch(c) \/ Handshake(c)
        \/ RemoveRun(c))
    BY <1>1, <1>2 DEF Lock, CheckParent, Reject, Link, Mark, Launch, Handshake, RemoveRun, StartFailed
<1> QED BY <1>4, <1>5, <1>6, <1>7 DEF Call, ClientStep

\* What a client submits goes on with a conversation there is or begins one.
LEMMA SubmittedTalk ==
    ASSUME Base, ConvInv, NEW c \in Clients, Admit(c) \/ Reject(c), rec' # rec
    PROVE  \E conv \in Created' \union {0} :
             /\ Submit(c, conv)
             /\ req[c].parent # 0 => conv = rec[req[c].parent].conv
             /\ req[c].parent = 0 => conv \in {0, Fresh}
<1>1. TypeOK /\ RoomInv /\ PlaceInv(c) /\ LinkInv /\ RequestInv(c)
    BY BaseParts DEF ConvInv
<1>2. c \in Creating
    BY <1>1 DEF Admit, Reject, Judged, PlaceInv, Owning, Creating
<1>3. Fresh \in Runs
    BY <1>1, <1>2, FreshFits
<1>4. PICK conv : /\ Submit(c, conv)
                  /\ req[c].parent # 0 => conv = rec[req[c].parent].conv
                  /\ req[c].parent = 0 => conv \in {0, Fresh}
    BY DEF Admit, Reject, Conversation
<1>5. Fresh \in Created'
  <2>1. rec'[Fresh] = [state |-> "SUBMITTED", ask |-> req[c].ask, parent |-> req[c].parent,
                       conv |-> conv, claimed |-> FALSE, contBy |-> 0]
      BY <1>1, <1>3, <1>4, SubmitEffect
  <2> QED BY <1>3, <2>1 DEF Created
<1>6. \A r \in Created : rec[r].conv \in Created \union {0}
    BY <1>1 DEF LinkInv, NamesInv, Created
<1>7. Created \subseteq Created'
    BY <1>1, ClientRoom DEF ClientStep
<1>8. conv \in Created' \union {0}
    BY <1>1, <1>4, <1>5, <1>6, <1>7 DEF RequestInv
<1> QED BY <1>4, <1>8

LEMMA NewestByAdmit ==
    ASSUME Base, ConvInv, TypeOK', NEW c \in Clients, Admit(c), pc'[c] = "link"
    PROVE  NewestInv(c)'
<1>1. TypeOK /\ RoomInv /\ PlaceInv(c)
    BY BaseParts
<1>2. c \in Creating
    BY <1>1 DEF Admit, Judged, PlaceInv, Owning, Creating
<1>3. PICK n \in Runs : n = Fresh
    BY <1>1, <1>2, FreshFits
<1>4. n \notin Created /\ Created = 1 .. (n - 1)
  <2>1. Cardinality(Created) = n - 1
      BY <1>1, <1>3, FreshFits DEF Fresh
  <2> QED BY <1>1, <1>3, <2>1, FreshFits
<1>5. \E conv : Submit(c, conv)
  <2>1. ~GoTo(c, "reject")
      BY <1>1 DEF GoTo, TypeOK
  <2> QED BY <2>1 DEF Admit
<1>6. mine'[c] = n
    BY <1>1, <1>3, <1>5 DEF Submit, TypeOK
<1>7. \A r \in Runs : User(r)' => User(r)
  <2>1. \A r \in Runs : Kept(r) \/ Touched(c, r)
      BY <1>1, ClientTouches DEF ClientStep
  <2>2. \A r \in Runs : Attached(r)' => Attached(r)
      BY ClientAttached DEF ClientStep, Admit, Link, Judged
  <2> QED BY <2>1, <2>2 DEF User, Kept, Touched, Moved, Submitted, Removed, NoRecord
<1> QED BY <1>4, <1>6, <1>7, UserCreated, LimitAssumption DEF NewestInv, Runs

-----------------------------------------------------------------------------
(* Every step keeps the order.                                             *)

LEMMA OrderByClient ==
    ASSUME Base, ConvInv, OrderInv, TypeOK', NEW c \in Clients, Call(c) \/ ClientStep(c) \/ CrashClient(c)
    PROVE  OrderInv'
<1>1. TypeOK /\ RoomInv /\ PlaceInv(c) /\ LinkInv /\ LineInv /\ RequestInv(c)
    BY BaseParts DEF ConvInv, OrderInv
<1>2. LineInv'
  <2>1. CASE Link(c)
    <3>1. pc[c] = "link" /\ NewestInv(c)
        BY <2>1 DEF Link, OrderInv
    <3>2. \A s \in Runs : User(s) => s < mine[c]
        BY <3>1 DEF NewestInv
    <3>3. PICK n \in Runs, p \in Runs \union {0} : n = mine[c] /\ Continues(n, p)
        BY <2>1, LinkMakes
    <3> QED BY <1>1, <3>2, <3>3, LineContinued
  <2>2. CASE Unlink(c)
      BY <1>1, <2>2, LinkByUnlink, LineNarrower
  <2>3. ASSUME UNCHANGED rec, ~Link(c) PROVE LineInv'
    <3>1. Quiet
        BY <2>3, ClientAttached, QuietFrom DEF NamesSame, Exists, User
    <3> QED BY <1>1, <3>1, LineQuiet
  <2>4. CASE Admit(c) \/ Reject(c)
    <3>1. CASE UNCHANGED rec
        BY <2>3, <2>4, <3>1 DEF Admit, Reject, Link, Judged
    <3>2. ASSUME NEW conv, Submit(c, conv), conv \in Created' \union {0} PROVE LineInv'
        BY <1>1, <2>4, <3>2, LinkBySubmit, LineNarrower
    <3>3. CASE rec' # rec
        BY <3>2, <3>3, SubmittedTalk, <2>4
    <3> QED BY <3>1, <3>3
  <2>5. CASE RemoveRun(c)
    <3>1. ~Link(c)
        BY <2>5 DEF RemoveRun, Link
    <3>2. ASSUME NEW t \in todo[c], rec' = [rec EXCEPT ![t[1]] = [NoRecord EXCEPT !.state = "purged"]],
                 UNCHANGED pc
          PROVE  LineInv'
        BY <1>1, <2>5, <3>2, LinkByRemove, LineNarrower
    <3> QED BY <2>3, <2>5, <3>1, <3>2 DEF RemoveRun
  <2>6. CASE ~Link(c) /\ ~Unlink(c) /\ ~Admit(c) /\ ~Reject(c) /\ ~RemoveRun(c)
      BY <1>1, <2>6, ClientQuiet, LineQuiet
  <2> QED BY <2>1, <2>2, <2>4, <2>5, <2>6
<1>3. NewestInv(c)'
  <2> SUFFICES ASSUME pc'[c] = "link" PROVE NewestInv(c)'
      BY DEF NewestInv
  <2> QED BY OnlyAdmitLinks, NewestByAdmit
<1>4. ASSUME NEW d \in Clients \ {c} PROVE NewestInv(d)'
  <2>1. Same(d)
      BY <1>1, ClientFrame DEF OthersSame
  <2> SUFFICES ASSUME pc[d] = "link" PROVE NewestInv(d)'
      BY <2>1 DEF NewestInv, Same
  <2>2. lock = d
      BY BaseParts DEF PlaceInv, Locked
  <2>3. lock # c /\ lock # Nobody
      BY <2>2, ClientsAssumption
  <2>4. \A r \in Runs : User(r)' => User(r)
      BY <2>3, GuardedByClient
  <2> QED BY <2>1, <2>4 DEF OrderInv, NewestInv, Same
<1> QED BY <1>2, <1>3, <1>4 DEF OrderInv

LEMMA OrderBySupervisor ==
    ASSUME Base, ConvInv, OrderInv, TypeOK', NEW r \in Runs, SupervisorStep(r) \/ KillSup(r)
    PROVE  OrderInv'
<1>1. TypeOK /\ RunInv(r) /\ LinkInv /\ LineInv
    BY BaseParts DEF ConvInv, OrderInv
<1>2. LineInv'
  <2>1. CASE SupUnlink(r)
      BY <1>1, <2>1, LinkBySupUnlink, LineNarrower
  <2>2. CASE ~SupUnlink(r)
      BY <1>1, <2>2, SupervisorQuiet, LineQuiet
  <2> QED BY <2>1, <2>2
<1>3. ASSUME NEW d \in Clients PROVE NewestInv(d)'
  <2>1. Same(d)
      BY <1>1, SupervisorFrame
  <2> SUFFICES ASSUME pc[d] = "link" PROVE NewestInv(d)'
      BY <2>1 DEF NewestInv, Same
  <2>2. lock = d
      BY BaseParts DEF PlaceInv, Locked
  <2>3. lock # r
      BY <2>2, ClientsAssumption
  <2>4. \A q \in Runs : User(q)' => User(q)
      BY <2>3, GuardedBySupervisor
  <2> QED BY <2>1, <2>4 DEF OrderInv, NewestInv, Same
<1> QED BY <1>2, <1>3 DEF OrderInv

LEMMA OrderInit == Init => OrderInv
<1> SUFFICES ASSUME Init PROVE OrderInv
    OBVIOUS
<1> QED BY Types DEF Init, OrderInv, LineInv, NewestInv, User, Attached, NoRecord

LEMMA OrderKept == Base /\ ConvInv /\ OrderInv /\ [Next]_vars => OrderInv'
<1> SUFFICES ASSUME Base, ConvInv, OrderInv, [Next]_vars PROVE OrderInv'
    OBVIOUS
<1>1. TypeOK'
    BY BaseKept DEF Base
<1>2. CASE UNCHANGED vars
    BY <1>2 DEF vars, locals, OrderInv, LineInv, NewestInv, User, Attached, Latest, Exists
<1>3. ASSUME NEW c \in Clients, Call(c) \/ ClientStep(c) \/ CrashClient(c) PROVE OrderInv'
    BY <1>1, <1>3, OrderByClient
<1>4. ASSUME NEW r \in Runs, SupervisorStep(r) \/ KillSup(r) PROVE OrderInv'
    BY <1>1, <1>4, OrderBySupervisor
<1> QED BY <1>2, <1>3, <1>4 DEF Next
\* Runs use a conversation's session in the order in which they were created,
\* although lost, failed and purged runs drop out of it in any order: what was
\* created after the latest user, or between a run and its continuation, has no
\* part in it.
THEOREM LinesInOrder == Spec => []LineInv
<1>1. OrderInv => LineInv
    BY DEF OrderInv
<1> QED BY <1>1, BaseInit, BaseKept, ConvInit, ConvKept, OrderInit, OrderKept, PTL DEF Spec

-----------------------------------------------------------------------------
(* Steps of the registry as steps of the ledger.                           *)

\* Run r is as it was: what it asked for, its use of a session, its place.
EntrySame(r) ==
    rec'[r].conv = rec[r].conv /\ rec'[r].parent = rec[r].parent /\ rec'[r].ask = rec[r].ask
SameInBook(r) == EntrySame(r) /\ UseSame(r) /\ (Admitted(r)' <=> Admitted(r))

LEMMA EntriesSame ==
    ASSUME \A r \in Runs : EntrySame(r)
    PROVE  [r \in Runs |-> [talk |-> rec[r].conv, from |-> rec[r].parent, area |-> Area(rec[r].ask)]]'
             = [r \in Runs |-> [talk |-> rec[r].conv, from |-> rec[r].parent, area |-> Area(rec[r].ask)]]
BY DEF EntrySame

LEMMA Unnoticed ==
    ASSUME \A r \in Runs : SameInBook(r)
    PROVE  UNCHANGED Book!vars
<1>1. {r \in Runs : User(r)}' = {r \in Runs : User(r)}
    BY DEF SameInBook, UseSame
<1>2. {r \in Runs : Attached(r)}' = {r \in Runs : Attached(r)}
    BY DEF SameInBook, UseSame
<1>3. {r \in Runs : Admitted(r)}' = {r \in Runs : Admitted(r)}
    BY DEF SameInBook
<1> QED BY <1>1, <1>2, <1>3, EntriesSame DEF SameInBook, Book!vars

\* The run at work stops, whether or not it is still admitted and a user.
LEMMA StopSeen ==
    ASSUME NEW r \in Runs, \A q \in Runs \ {r} : SameInBook(q), EntrySame(r),
           Attached(r), ~Attached(r)', Admitted(r)' => Admitted(r)
    PROVE  Book!Next
<1>1. {q \in Runs : Attached(q)}' = {q \in Runs : Attached(q)} \ {r}
    BY DEF SameInBook, UseSame
<1>2. {q \in Runs : User(q)}' \in {{q \in Runs : User(q)}, {q \in Runs : User(q)} \ {r}}
  <2>1. User(r)
      BY DEF User
  <2>2. CASE User(r)'
      BY <2>1, <2>2 DEF SameInBook, UseSame
  <2>3. CASE ~User(r)'
      BY <2>3 DEF SameInBook, UseSame
  <2> QED BY <2>2, <2>3
<1>3. {q \in Runs : Admitted(q)}' \in {{q \in Runs : Admitted(q)}, {q \in Runs : Admitted(q)} \ {r}}
  <2>1. CASE Admitted(r)' <=> Admitted(r)
      BY <2>1 DEF SameInBook
  <2>2. CASE ~Admitted(r)' /\ Admitted(r)
      BY <2>2 DEF SameInBook
  <2> QED BY <2>1, <2>2
<1>4. \A q \in Runs : EntrySame(q)
    BY DEF SameInBook
<1>5. Book!Stop(r)
    BY <1>1, <1>2, <1>3, <1>4, EntriesSame DEF Book!Stop
<1> QED BY <1>5 DEF Book!Next

\* A lost run ceases to be admitted.
LEMMA GiveUpSeen ==
    ASSUME NEW r \in Runs, \A q \in Runs \ {r} : SameInBook(q), EntrySame(r), UseSame(r),
           ~Attached(r), ~Admitted(r)'
    PROVE  Book!Next \/ UNCHANGED Book!vars
<1>1. CASE ~Admitted(r)
    BY <1>1, Unnoticed DEF SameInBook
<1>2. CASE Admitted(r)
  <2>1. {q \in Runs : Attached(q)}' = {q \in Runs : Attached(q)}
      BY DEF SameInBook, UseSame
  <2>2. {q \in Runs : User(q)}' = {q \in Runs : User(q)}
      BY DEF SameInBook, UseSame
  <2>3. {q \in Runs : Admitted(q)}' = {q \in Runs : Admitted(q)} \ {r}
      BY DEF SameInBook
  <2>4. \A q \in Runs : EntrySame(q)
      BY DEF SameInBook
  <2>5. Book!GiveUp(r)
      BY <1>2, <2>1, <2>2, <2>3, <2>4, EntriesSame DEF Book!GiveUp
  <2> QED BY <2>5 DEF Book!Next
<1> QED BY <1>1, <1>2

\* A new record asks.
LEMMA AskSeen ==
    ASSUME TypeOK, NEW r \in Runs, \A q \in Runs \ {r} : SameInBook(q),
           UseSame(r), ~Admitted(r), ~Admitted(r)', \A s \in Runs : User(s) => s < r,
           NEW from \in Runs \union {0}, rec'[r].parent = from, from < r,
           from = 0 => rec'[r].conv \in {0, r},
           from # 0 => rec'[r].conv = rec[from].conv
    PROVE  Book!Next
<1> DEFINE book == [q \in Runs |-> [talk |-> rec[q].conv, from |-> rec[q].parent, area |-> Area(rec[q].ask)]]
           talk == rec'[r].conv
           area == Area(rec'[r].ask)
<1>1. {q \in Runs : Attached(q)}' = {q \in Runs : Attached(q)}
    BY DEF SameInBook, UseSame
<1>2. {q \in Runs : User(q)}' = {q \in Runs : User(q)}
    BY DEF SameInBook, UseSame
<1>3. {q \in Runs : Admitted(q)}' = {q \in Runs : Admitted(q)}
    BY DEF SameInBook
<1>4. book' = [book EXCEPT ![r] = [talk |-> talk, from |-> from, area |-> area]]
  <2>1. \A q \in Runs \ {r} : book'[q] = book[q]
      BY DEF SameInBook, EntrySame
  <2>2. book'[r] = [talk |-> talk, from |-> from, area |-> area]
      OBVIOUS
  <2>3. book = [q \in Runs |-> book[q]] /\ book' = [q \in Runs |-> book'[q]]
      OBVIOUS
  <2> HIDE DEF book, talk, area
  <2> QED BY <2>1, <2>2, <2>3
<1>5. area \in SUBSET Dirs
    BY DEF Area
<1>6. talk \in IF from = 0 THEN {0, r} ELSE {book[from].talk}
    OBVIOUS
<1>7. from \in {s \in Runs : s < r} \union {0}
    OBVIOUS
<1> HIDE DEF talk, area
<1>8. \E f \in {s \in Runs : s < r} \union {0}, a \in SUBSET Dirs :
      \E t \in IF f = 0 THEN {0, r} ELSE {book[f].talk} :
         book' = [book EXCEPT ![r] = [talk |-> t, from |-> f, area |-> a]]
  <2> HIDE DEF book
  <2> QED BY <1>4, <1>5, <1>6, <1>7
<1>9. Book!Ask(r)
    BY <1>1, <1>2, <1>3, <1>8 DEF Book!Ask
<1> QED BY <1>9 DEF Book!Next

\* A run sets to work behind the last of its conversation.
LEMMA JoinSeen ==
    ASSUME TypeOK, LinkInv, LineInv, NEW n \in Runs, NEW p \in Runs \union {0}, Continues(n, p),
           Attached(n)', \A s \in Runs : User(s) => s < n,
           \A q \in Runs : EntrySame(q) /\ (Admitted(q)' <=> Admitted(q))
    PROVE  Book!Next
<1> DEFINE book == [q \in Runs |-> [talk |-> rec[q].conv, from |-> rec[q].parent, area |-> Area(rec[q].ask)]]
           book_users == {q \in Runs : User(q)}
           book_working == {q \in Runs : Attached(q)}
           line == {s \in book_users : book[s].talk = book[n].talk}
<1>1. p = rec[n].parent /\ User(n)' /\ \A r \in Runs \ {n} : UseSame(r)
    BY DEF Continues
<1>2. book_users' = book_users \union {n} /\ book_working' = book_working \union {n}
    BY <1>1 DEF UseSame
<1>3. {q \in Runs : Admitted(q)}' = {q \in Runs : Admitted(q)} /\ book' = book
    BY EntriesSame
<1>4. line = {s \in Runs : User(s) /\ rec[s].conv = rec[n].conv}
    OBVIOUS
<1>5. book[n].talk = rec[n].conv /\ book[n].from = p
    BY <1>1
<1>6. ASSUME p = 0, rec[n].conv # 0 PROVE line = {}
    BY <1>4, <1>6 DEF Continues
<1>7. ASSUME p # 0, rec[n].conv # 0
      PROVE  line \intersect book_working = {} /\ p \in line /\ \A s \in line : s <= p
  <2>1. /\ p \in Runs /\ User(p) /\ ~Attached(p) /\ Latest(p)
        /\ rec[p].conv = rec[n].conv
      BY <1>7 DEF Continues, Latest
  <2>2. p \in line
      BY <1>4, <2>1
  <2>3. \A s \in line : s <= p
      BY <1>4, <1>7, <2>1 DEF LineInv
  <2>4. ASSUME NEW s \in line, Attached(s) PROVE FALSE
    <3>1. s \in Runs /\ Latest(s) /\ rec[s].conv = rec[p].conv
        BY <1>4, <2>1, <2>4 DEF LinkInv, UserInv, Latest, User
    <3> QED BY <1>7, <2>1, <2>4, <3>1 DEF LinkInv, LatestInv
  <2>5. line \intersect book_working = {}
      BY <2>4
  <2> HIDE DEF line, book_working
  <2> QED BY <2>2, <2>3, <2>5
<1>8. rec[n].conv # 0 =>
          /\ line \intersect book_working = {}
          /\ IF p = 0 THEN line = {} ELSE p \in line /\ \A s \in line : s <= p
  <2> HIDE DEF line, book_working
  <2> QED BY <1>6, <1>7
<1>9. Book!Join(n)
    BY <1>2, <1>3, <1>5, <1>8 DEF Book!Join, Book!Line
<1> QED BY <1>9 DEF Book!Next

\* Two directories above or at a third one overlap.
LEMMA PrefixesCompare ==
    ASSUME NEW S, NEW d \in Seq(S), NEW e \in Seq(S), NEW f \in Seq(S), IsPrefix(d, f), IsPrefix(e, f)
    PROVE  Overlap(d, e)
<1>1. Len(d) \in Nat /\ Len(e) \in Nat /\ Len(f) \in Nat
    OBVIOUS
<1>2. \A i \in 1 .. Len(d) : d[i] = f[i]
    BY <1>1 DEF IsPrefix
<1>3. \A i \in 1 .. Len(e) : e[i] = f[i]
    BY <1>1 DEF IsPrefix
<1>4. CASE Len(d) <= Len(e)
    BY <1>1, <1>2, <1>3, <1>4 DEF IsPrefix, Overlap
<1>5. CASE Len(e) <= Len(d)
    BY <1>1, <1>2, <1>3, <1>5 DEF IsPrefix, Overlap
<1> QED BY <1>1, <1>4, <1>5

LEMMA ApartAreas ==
    ASSUME NEW q \in Request, NEW p \in Request, Apart(q, p)
    PROVE  Area(q) \intersect Area(p) = {}
<1>1. Dirs \subseteq Seq({"a", "b", "c"})
    BY DEF Dirs
<1>2. q.cwd \in Dirs /\ p.cwd \in Dirs
    BY DEF Request
<1> QED BY <1>1, <1>2, PrefixesCompare DEF Apart, Area

\* The run counts as admitted: there is room for it, and its area is free.
LEMMA AdmitSeen ==
    ASSUME TypeOK, NEW r \in Runs, \A q \in Runs \ {r} : SameInBook(q), EntrySame(r), UseSame(r),
           Attached(r), Admitted(r)', Cardinality(AdmittedRuns) < MaxConcurrency,
           \A s \in AdmittedRuns : Apart(rec[r].ask, rec[s].ask)
    PROVE  Book!Next
<1> DEFINE book == [q \in Runs |-> [talk |-> rec[q].conv, from |-> rec[q].parent, area |-> Area(rec[q].ask)]]
<1>1. {q \in Runs : Attached(q)}' = {q \in Runs : Attached(q)}
    BY DEF SameInBook, UseSame
<1>2. {q \in Runs : User(q)}' = {q \in Runs : User(q)}
    BY DEF SameInBook, UseSame
<1>3. {q \in Runs : Admitted(q)}' = {q \in Runs : Admitted(q)} \union {r}
    BY DEF SameInBook
<1>4. book' = book
    BY EntriesSame DEF SameInBook
<1>5. \A s \in {q \in Runs : Admitted(q)} : book[r].area \intersect book[s].area = {}
  <2> SUFFICES ASSUME NEW s \in AdmittedRuns PROVE Area(rec[r].ask) \intersect Area(rec[s].ask) = {}
      BY DEF AdmittedRuns
  <2>1. s \in Runs /\ Apart(rec[r].ask, rec[s].ask)
      BY DEF AdmittedRuns
  <2>2. rec[r].ask \in Request /\ rec[s].ask \in Request
      BY <2>1 DEF TypeOK, Record
  <2> QED BY <2>1, <2>2, ApartAreas
<1>6. Cardinality({q \in Runs : Admitted(q)}) < MaxConcurrency /\ r \in {q \in Runs : Attached(q)}
    BY DEF AdmittedRuns
<1>7. Book!Admit(r)
  <2>1. Book!Cardinality({q \in Runs : Admitted(q)}) = Cardinality({q \in Runs : Admitted(q)})
      BY DEF Book!Cardinality, Cardinality
  <2> QED BY <1>1, <1>2, <1>3, <1>4, <1>5, <1>6, <2>1 DEF Book!Admit
<1> QED BY <1>7 DEF Book!Next

\* A purged run has no place in the ledger.
LEMMA ForgetSeen ==
    ASSUME TypeOK, NEW r \in Runs, \A q \in Runs \ {r} : SameInBook(q),
           ~Attached(r), ~Admitted(r), ~User(r)', ~Attached(r)', ~Admitted(r)',
           rec'[r].conv = 0, rec'[r].parent = 0, rec'[r].ask = NoAsk
    PROVE  Book!Next
<1> DEFINE book == [q \in Runs |-> [talk |-> rec[q].conv, from |-> rec[q].parent, area |-> Area(rec[q].ask)]]
<1>1. {q \in Runs : Attached(q)}' = {q \in Runs : Attached(q)}
    BY DEF SameInBook, UseSame
<1>2. {q \in Runs : User(q)}' = {q \in Runs : User(q)} \ {r}
    BY DEF SameInBook, UseSame
<1>3. {q \in Runs : Admitted(q)}' = {q \in Runs : Admitted(q)}
    BY DEF SameInBook
<1>4. book' = [book EXCEPT ![r] = Book!Blank]
  <2>1. \A q \in Runs \ {r} : book'[q] = book[q]
      BY DEF SameInBook, EntrySame
  <2>2. book'[r] = Book!Blank
      BY DEF Book!Blank, Area, NoAsk
  <2>3. book = [q \in Runs |-> book[q]] /\ book' = [q \in Runs |-> book'[q]]
      OBVIOUS
  <2> HIDE DEF book
  <2> QED BY <2>1, <2>2, <2>3
<1>5. r \notin {q \in Runs : Attached(q)} \union {q \in Runs : Admitted(q)}
    OBVIOUS
<1>6. Book!Forget(r)
    BY <1>1, <1>2, <1>3, <1>4, <1>5 DEF Book!Forget
<1> QED BY <1>6 DEF Book!Next

-----------------------------------------------------------------------------
(* The clients' steps.                                                     *)

\* A client ends no work but that of the run it was about to start.
LEMMA OthersAtWork ==
    ASSUME Base, NEW c \in Clients, Call(c) \/ ClientStep(c) \/ CrashClient(c)
    PROVE  \A q \in Runs : q # mine[c] /\ Attached(q) => Attached(q)'
<1>1. OthersSame(c)
    BY BaseParts, ClientFrame
<1> SUFFICES ASSUME NEW q \in Runs, q # mine[c], Attached(q) PROVE Attached(q)'
    OBVIOUS
<1>2. CASE sup[q] \in {"boot", "running", "ending"}
  <2>1. Kept(q) \/ Touched(c, q)
      BY BaseParts, ClientTouches
  <2>2. sup'[q] = sup[q]
      BY <2>1 DEF Kept, Touched, Moved, Submitted, Removed
  <2> QED BY <1>2, <2>2 DEF Attached
<1>3. ASSUME NEW d \in Clients, mine[d] = q, pc[d] \in {"mark", "launch"} PROVE Attached(q)'
  <2>1. Same(d)
      BY <1>1, <1>3 DEF OthersSame
  <2> QED BY <1>3, <2>1 DEF Attached, Same
<1> QED BY <1>2, <1>3 DEF Attached

\* Who only reads, leaves or dies ends at most the work it was about to start.
LEMMA SeenReading ==
    ASSUME Base, NEW c \in Clients, Call(c) \/ ClientStep(c) \/ CrashClient(c), UNCHANGED rec, ~Link(c)
    PROVE  Book!Next \/ UNCHANGED Book!vars
<1>1. \A q \in Runs : EntrySame(q) /\ (Admitted(q)' <=> Admitted(q))
    BY DEF EntrySame, Admitted
<1>2. \A q \in Runs : Attached(q)' => Attached(q)
    BY ClientAttached
<1>3. \A q \in Runs : q # mine[c] => SameInBook(q)
    BY <1>1, <1>2, OthersAtWork DEF SameInBook, UseSame, User
<1>4. CASE \A q \in Runs : SameInBook(q)
    BY <1>4, Unnoticed
<1>5. ASSUME NEW r \in Runs, ~SameInBook(r) PROVE Book!Next
  <2>1. r = mine[c] /\ \A q \in Runs \ {r} : SameInBook(q)
      BY <1>3, <1>5
  <2>2. Attached(r) /\ ~Attached(r)'
      BY <1>1, <1>2, <1>5 DEF SameInBook, UseSame, User
  <2> QED BY <1>1, <2>1, <2>2, StopSeen
<1> QED BY <1>4, <1>5

\* What another state leaves the same.
LEMMA SameByState ==
    ASSUME TypeOK, NEW r \in Runs, NEW s, SetState(r, s)
    PROVE  /\ \A q \in Runs : EntrySame(q) /\ rec'[q].claimed = rec[q].claimed
           /\ \A q \in Runs \ {r} : Admitted(q)' <=> Admitted(q)
           /\ rec'[r].state = s
<1>1. /\ rec'[r].state = s /\ rec'[r].ask = rec[r].ask /\ rec'[r].parent = rec[r].parent
      /\ rec'[r].conv = rec[r].conv /\ rec'[r].claimed = rec[r].claimed
    BY StateEffect
<1>2. \A q \in Runs \ {r} : rec'[q] = rec[q]
    BY StateEffect
<1> QED BY <1>1, <1>2 DEF EntrySame, Admitted

LEMMA SameByLink ==
    ASSUME TypeOK, NEW p, NEW n, rec' = [rec EXCEPT ![p].contBy = n]
    PROVE  \A q \in Runs : /\ EntrySame(q) /\ rec'[q].claimed = rec[q].claimed
                           /\ Admitted(q)' <=> Admitted(q)
BY LinkEffect DEF EntrySame, Admitted

LEMMA SeenGiveUp ==
    ASSUME Base, NEW c \in Clients, GiveUp(c)
    PROVE  Book!Next \/ UNCHANGED Book!vars
<1>1. TypeOK /\ PlaceInv(c) /\ LostInv(c) /\ OthersSame(c)
    BY BaseParts, ClientFrame DEF ClientStep
<1>2. CASE ~Exists(lostRun[c])
  <2>1. UNCHANGED rec /\ ~Link(c)
      BY <1>2 DEF GiveUp, Link
  <2> QED BY <2>1, SeenReading DEF ClientStep
<1>3. CASE Exists(lostRun[c])
  <2>1. PICK r \in Runs : r = lostRun[c] /\ GivingUp(c) /\ pc[c] = "giveup"
      BY <1>1 DEF GiveUp, PlaceInv, GivingUp, Created
  <2>2. SetState(r, "FAILED") /\ pc'[c] = "release" /\ UNCHANGED <<sup, mine>>
      BY <1>1, <1>3, <2>1 DEF GiveUp, GoTo, locals, TypeOK
  <2>3. ~Attached(r)
    <3>1. sup[r] \in {"none", "gone"}
        BY <1>1, <2>1 DEF LostInv
    <3>2. \A d \in Clients : mine[d] = r => pc[d] \notin {"mark", "launch"}
        BY <1>1, <2>1, BaseParts DEF LostInv, StarterInv
    <3> QED BY <3>1, <3>2 DEF Attached
  <2>4. /\ \A q \in Runs : EntrySame(q) /\ rec'[q].claimed = rec[q].claimed
        /\ \A q \in Runs \ {r} : Admitted(q)' <=> Admitted(q)
        /\ rec'[r].state = "FAILED"
      BY <1>1, <2>2, SameByState
  <2>5. \A q \in Runs : UseSame(q)
      BY <1>1, <2>1, <2>2, <2>4, UseFrame
  <2> QED BY <2>3, <2>4, <2>5, GiveUpSeen DEF SameInBook, Admitted
<1> QED BY <1>2, <1>3

LEMMA SeenRejected ==
    ASSUME Base, NEW c \in Clients, Rejected(c)
    PROVE  UNCHANGED Book!vars
<1>1. TypeOK /\ PlaceInv(c) /\ StarterInv(c) /\ OthersSame(c)
    BY BaseParts, ClientFrame DEF ClientStep
<1>2. PICK r \in Runs : r = mine[c] /\ rec[r].state = "SUBMITTED" /\ pc[c] = "rejected"
    BY <1>1 DEF Rejected, PlaceInv, Owning, StarterInv, Created
<1>3. SetState(r, "REJECTED") /\ pc'[c] = "idle" /\ UNCHANGED sup
    BY <1>1, <1>2, LeaveEffect DEF Rejected
<1>4. /\ \A q \in Runs : EntrySame(q) /\ rec'[q].claimed = rec[q].claimed
      /\ \A q \in Runs \ {r} : Admitted(q)' <=> Admitted(q)
      /\ rec'[r].state = "REJECTED"
    BY <1>1, <1>3, SameByState
<1>5. \A q \in Runs : UseSame(q)
    BY <1>1, <1>2, <1>3, <1>4, UseFrame
<1> QED BY <1>2, <1>4, <1>5, Unnoticed DEF SameInBook, Admitted

LEMMA SeenMark ==
    ASSUME Base, CountInv, NEW c \in Clients, Mark(c)
    PROVE  Book!Next
<1>1. TypeOK /\ PlaceInv(c) /\ AdmitInv(c) /\ OthersSame(c)
    BY BaseParts, ClientFrame DEF ClientStep, CountInv
<1>2. PICK r \in Runs : r = mine[c] /\ pc[c] = "mark"
    BY <1>1 DEF Mark, PlaceInv, Owning, Created
<1>3. SetState(r, "STARTING") /\ pc'[c] = "launch" /\ UNCHANGED <<sup, mine>>
    BY <1>1, <1>2 DEF Mark, GoTo, TypeOK
<1>4. /\ \A q \in Runs : EntrySame(q) /\ rec'[q].claimed = rec[q].claimed
      /\ \A q \in Runs \ {r} : Admitted(q)' <=> Admitted(q)
      /\ rec'[r].state = "STARTING"
    BY <1>1, <1>3, SameByState
<1>5. \A q \in Runs \ {r} : UseSame(q)
    BY <1>1, <1>2, <1>3, <1>4, UseFrame
<1>6. Attached(r) /\ Attached(r)' /\ UseSame(r)
    BY <1>2, <1>3 DEF Attached, UseSame, User
<1>7. Cardinality(AdmittedRuns) < MaxConcurrency /\ \A s \in AdmittedRuns : Apart(rec[r].ask, rec[s].ask)
    BY <1>1, <1>2 DEF AdmitInv
<1> QED BY <1>1, <1>4, <1>5, <1>6, <1>7, AdmitSeen DEF SameInBook, Admitted

LEMMA SeenLink ==
    ASSUME Base, ConvInv, OrderInv, NEW c \in Clients, Link(c)
    PROVE  Book!Next
<1>1. TypeOK /\ LinkInv /\ LineInv /\ NewestInv(c)
    BY BaseParts DEF ConvInv, OrderInv
<1>2. PICK n \in Runs, p \in Runs \union {0} : n = mine[c] /\ Continues(n, p) /\ Attached(n)'
    BY LinkMakes
<1>3. \A s \in Runs : User(s) => s < n
    BY <1>1, <1>2 DEF NewestInv, Link
<1>4. \A q \in Runs : EntrySame(q) /\ (Admitted(q)' <=> Admitted(q))
  <2>1. CASE UNCHANGED rec
      BY <2>1 DEF EntrySame, Admitted
  <2>2. CASE rec' = [rec EXCEPT ![req[c].parent].contBy = mine[c]]
      BY <1>1, <2>2, SameByLink
  <2> QED BY <2>1, <2>2 DEF Link
<1> QED BY <1>1, <1>2, <1>3, <1>4, JoinSeen

LEMMA SeenUnlink ==
    ASSUME Base, NEW c \in Clients, Unlink(c)
    PROVE  UNCHANGED Book!vars
<1>1. TypeOK /\ PlaceInv(c) /\ OthersSame(c)
    BY BaseParts, ClientFrame DEF ClientStep
<1>2. pc[c] = "unlink" /\ pc'[c] \in {"judge", "idle"} /\ UNCHANGED sup
    BY <1>1, AfterReleaseEffect, LeaveEffect DEF Unlink, PlaceInv
<1>3. \A q \in Runs : /\ EntrySame(q) /\ rec'[q].claimed = rec[q].claimed
                      /\ Admitted(q)' <=> Admitted(q)
    BY <1>1, SameByLink DEF Unlink, UnlinkParent
<1>4. \A q \in Runs : UseSame(q)
    BY <1>1, <1>2, <1>3, UseFrame
<1> QED BY <1>3, <1>4, Unnoticed DEF SameInBook

LEMMA SeenSubmit ==
    ASSUME Base, ConvInv, NEW c \in Clients, Admit(c) \/ Reject(c), rec' # rec
    PROVE  Book!Next
<1>1. /\ TypeOK /\ RoomInv /\ PlaceInv(c) /\ RequestInv(c) /\ OthersSame(c)
      /\ StarterInv(c)'
    BY BaseParts, ClientFrame, OwnKept DEF ClientStep, ConvInv
<1>2. c \in Creating
    BY <1>1 DEF Admit, Reject, Judged, PlaceInv, Owning, Creating
<1>3. PICK n \in Runs : n = Fresh
    BY <1>1, <1>2, FreshFits
<1>4. n \notin Created /\ Created = 1 .. (n - 1)
  <2>1. Cardinality(Created) = n - 1
      BY <1>1, <1>3, FreshFits DEF Fresh
  <2> QED BY <1>1, <1>3, <2>1, FreshFits
<1>5. PICK conv : /\ Submit(c, conv)
                  /\ req[c].parent # 0 => conv = rec[req[c].parent].conv
                  /\ req[c].parent = 0 => conv \in {0, n}
    BY <1>3, SubmittedTalk
<1>6. /\ rec'[n] = [state |-> "SUBMITTED", ask |-> req[c].ask, parent |-> req[c].parent,
                    conv |-> conv, claimed |-> FALSE, contBy |-> 0]
      /\ \A q \in Runs \ {n} : rec'[q] = rec[q]
      /\ mine'[c] = n
    BY <1>1, <1>3, <1>5, SubmitEffect
<1>7. pc[c] \in {"judge", "reject"} /\ pc'[c] \in {"link", "rejected", "reject"} /\ UNCHANGED sup
    BY <1>1 DEF Admit, Reject, Judged, TypeOK, GoTo
<1>8. \A q \in Runs \ {n} : SameInBook(q)
  <2>1. \A q \in Runs \ {n} : UseSame(q)
      BY <1>1, <1>6, <1>7, UseFrame
  <2> QED BY <1>6, <2>1 DEF SameInBook, EntrySame, Admitted
<1>9. UseSame(n)
  <2>1. ~User(n)
      BY <1>4, UserCreated
  <2>2. sup'[n] = "none"
      BY <1>4, <1>7, BaseParts DEF RunInv
  <2>3. \A d \in Clients : mine'[d] = n => d = c
      BY <1>1, <1>6, Types DEF StarterInv
  <2>4. ~User(n)'
      BY <1>6, <1>7, <2>2, <2>3 DEF Attached, User
  <2> QED BY <2>1, <2>4 DEF UseSame, User
<1>10. ~Admitted(n) /\ ~Admitted(n)'
    BY <1>4, <1>6 DEF Admitted, Created
<1>11. \A s \in Runs : User(s) => s < n
    BY <1>4, UserCreated, LimitAssumption DEF Runs
<1>12. PICK from \in Runs \union {0} : from = req[c].parent /\ from < n
    BY <1>1, <1>4, LimitAssumption DEF RequestInv, Runs
<1>13. /\ rec'[n].parent = from
       /\ from = 0 => rec'[n].conv \in {0, n}
       /\ from # 0 => rec'[n].conv = rec[from].conv
    BY <1>5, <1>6, <1>12
<1> QED BY <1>1, <1>8, <1>9, <1>10, <1>11, <1>12, <1>13, AskSeen

LEMMA SeenRemove ==
    ASSUME Base, NEW c \in Clients, RemoveRun(c)
    PROVE  Book!Next \/ UNCHANGED Book!vars
<1>1. TypeOK /\ PlaceInv(c) /\ PurgeInv(c) /\ OthersSame(c) /\ ~Link(c)
    BY BaseParts, ClientFrame DEF ClientStep, RemoveRun, Link
<1>2. CASE UNCHANGED rec
    BY <1>1, <1>2, SeenReading DEF ClientStep
<1>3. ASSUME NEW t \in todo[c], UNCHANGED pc,
             rec' = [rec EXCEPT ![t[1]] = [NoRecord EXCEPT !.state = "purged"]]
      PROVE  Book!Next
  <2>1. PICK u \in Runs : u = t[1] /\ u \in Created
      BY <1>1 DEF PlaceInv, Created
  <2>2. ~Active(rec[u].state) /\ pc[c] = "purge"
      BY <1>1, <1>3, <2>1 DEF PurgeInv, RemoveRun
  <2>3. /\ rec'[u] = [NoRecord EXCEPT !.state = "purged"]
        /\ \A q \in Runs \ {u} : rec'[q] = rec[q]
        /\ UNCHANGED sup
      BY <1>1, <1>3, <2>1 DEF TypeOK, RemoveRun
  <2>4. \A q \in Runs \ {u} : SameInBook(q)
    <3>1. \A q \in Runs \ {u} : UseSame(q)
        BY <1>1, <1>3, <2>2, <2>3, UseFrame
    <3> QED BY <2>3, <3>1 DEF SameInBook, EntrySame, Admitted
  <2>5. ~Attached(u)
    <3>1. sup[u] \notin {"boot", "running", "ending"}
        BY <2>2, BaseParts DEF RunInv, Active, ActiveStates
    <3>2. \A d \in Clients : mine[d] = u => pc[d] \notin {"mark", "launch"}
        BY <2>2, BaseParts DEF StarterInv, Active, ActiveStates
    <3> QED BY <3>1, <3>2 DEF Attached
  <2>6. ~Attached(u)' /\ ~User(u)'
    <3>1. Attached(u)' => Attached(u)
        BY <1>1, ClientAttached DEF ClientStep
    <3> QED BY <2>3, <2>5, <3>1 DEF User, NoRecord
  <2>7. ~Admitted(u) /\ ~Admitted(u)'
      BY <2>2, <2>3 DEF Admitted, Active, ActiveStates, NoRecord
  <2>8. rec'[u].conv = 0 /\ rec'[u].parent = 0 /\ rec'[u].ask = NoAsk
      BY <2>3 DEF NoRecord
  <2> QED BY <1>1, <2>4, <2>5, <2>6, <2>7, <2>8, ForgetSeen
<1> QED BY <1>2, <1>3 DEF RemoveRun

LEMMA SeenClient ==
    ASSUME Base, CountInv, ConvInv, OrderInv, NEW c \in Clients, Call(c) \/ ClientStep(c) \/ CrashClient(c)
    PROVE  Book!Next \/ UNCHANGED Book!vars
<1>1. CASE UNCHANGED rec /\ ~Link(c)
    BY <1>1, SeenReading
<1>2. CASE rec' # rec /\ (Admit(c) \/ Reject(c))
    BY <1>2, SeenSubmit
<1>3. CASE Link(c)
    BY <1>3, SeenLink
<1>4. CASE GiveUp(c) \/ Rejected(c) \/ Mark(c) \/ Unlink(c) \/ RemoveRun(c)
    BY <1>4, SeenGiveUp, SeenRejected, SeenMark, SeenUnlink, SeenRemove
<1>5. CASE \/ Status(c) \/ Begin(c) \/ Purge(c) \/ Judge(c) \/ Release(c) \/ StatusDone(c) \/ DenyEarly(c)
           \/ Lock(c) \/ CheckParent(c) \/ Launch(c) \/ Handshake(c) \/ CrashClient(c)
    BY <1>1, <1>3, <1>5 DEF Status, Begin, Purge, Judge, Release, StatusDone, DenyEarly, Lock, CheckParent,
                     Launch, Handshake, CrashClient
<1>6. CASE UNCHANGED rec /\ (Admit(c) \/ Reject(c))
    BY <1>1, <1>3, <1>6
<1> QED BY <1>2, <1>3, <1>4, <1>5, <1>6 DEF Call, ClientStep

-----------------------------------------------------------------------------
(* The supervisors' steps, and the theorem.                                *)

LEMMA SeenSupervisor ==
    ASSUME Base, NEW r \in Runs, SupervisorStep(r) \/ KillSup(r)
    PROVE  Book!Next \/ UNCHANGED Book!vars
<1>1. TypeOK /\ RunInv(r) /\ UNCHANGED <<pc, mine>>
    BY BaseParts, SupervisorFrame
<1>2. \A q \in Runs \ {r} : SameInBook(q)
  <2>1. \A q \in Runs \ {r} : Kept(q)
      BY <1>1, SupervisorTouches
  <2>2. \A q \in Runs \ {r} : UseSame(q)
      BY <1>1, <2>1 DEF Kept, UseSame, User, Attached
  <2> QED BY <2>1, <2>2 DEF Kept, SameInBook, EntrySame, Admitted
<1>3. EntrySame(r)
    BY <1>1, SupervisorTouches DEF EntrySame
<1>4. sup[r] # "none" => \A d \in Clients : mine[d] = r => pc[d] \notin {"mark", "launch"}
    BY BaseParts DEF StarterInv
<1>5. sup[r] # "none"
    BY DEF SupervisorStep, SupRun, SupClaim, SupEnd, SupRelease, SupUnlink, KillSup
<1>6. Attached(r) <=> sup[r] \in {"boot", "running", "ending"}
    BY <1>4, <1>5 DEF Attached
<1>7. Attached(r)' <=> sup'[r] \in {"boot", "running", "ending"}
    BY <1>1, <1>4, <1>5 DEF Attached
<1>8. CASE /\ rec'[r].state = rec[r].state /\ rec'[r].claimed = rec[r].claimed
           /\ sup'[r] \in {"unlink", "gone"}
  <2>1. Admitted(r)' <=> Admitted(r)
      BY <1>8 DEF Admitted
  <2>2. CASE Attached(r)
      BY <1>2, <1>3, <1>7, <1>8, <2>1, <2>2, StopSeen
  <2>3. CASE ~Attached(r)
    <3>1. UseSame(r)
        BY <1>7, <1>8, <2>3 DEF UseSame, User
    <3> QED BY <1>2, <1>3, <2>1, <3>1, Unnoticed DEF SameInBook
  <2> QED BY <2>2, <2>3
<1>9. CASE /\ \/ sup[r] = "boot" /\ sup'[r] = "running"
              \/ sup[r] = "running" /\ sup'[r] = "ending"
           /\ rec'[r].state = "RUNNING"
  <2>1. Admitted(r)' /\ Admitted(r)
      BY <1>1, <1>9 DEF Admitted, RunInv
  <2>2. UseSame(r)
      BY <1>6, <1>7, <1>9 DEF UseSame, User
  <2> QED BY <1>2, <1>3, <2>1, <2>2, Unnoticed DEF SameInBook
<1>10. CASE /\ sup[r] \in {"boot", "ending"} /\ sup'[r] \in {"release", "gone"}
            /\ Terminal(rec'[r].state)
  <2>1. ~Admitted(r)'
      BY <1>10 DEF Admitted, Terminal, TerminalStates
  <2> QED BY <1>2, <1>3, <1>6, <1>7, <1>10, <2>1, StopSeen
<1> QED BY <1>1, <1>8, <1>9, <1>10, SupervisorTouches

LEMMA BookInit == Init => Book!Init
<1> SUFFICES ASSUME Init PROVE Book!Init
    OBVIOUS
<1>1. \A r \in Runs : rec[r] = NoRecord /\ ~User(r) /\ ~Attached(r) /\ ~Admitted(r)
    BY DEF Init, User, Attached, Admitted, NoRecord
<1>2. \A r \in Runs : [talk |-> rec[r].conv, from |-> rec[r].parent, area |-> Area(rec[r].ask)] = Book!Blank
  <2>1. NoRecord.conv = 0 /\ NoRecord.parent = 0 /\ NoRecord.ask = NoAsk
      BY DEF NoRecord
  <2>2. Area(NoAsk) = {}
      BY DEF Area, NoAsk
  <2> QED BY <1>1, <2>1, <2>2 DEF Book!Blank
<1> QED BY <1>1, <1>2 DEF Book!Init

LEMMA BookStep == Base /\ CountInv /\ ConvInv /\ OrderInv /\ [Next]_vars => [Book!Next]_(Book!vars)
<1> SUFFICES ASSUME Base, CountInv, ConvInv, OrderInv, [Next]_vars PROVE Book!Next \/ UNCHANGED Book!vars
    OBVIOUS
<1>1. CASE UNCHANGED vars
  <2>1. \A r \in Runs : SameInBook(r)
      BY <1>1 DEF vars, locals, SameInBook, EntrySame, UseSame, User, Attached, Admitted
  <2> QED BY <2>1, Unnoticed
<1>2. ASSUME NEW c \in Clients, Call(c) \/ ClientStep(c) \/ CrashClient(c)
      PROVE  Book!Next \/ UNCHANGED Book!vars
    BY <1>2, SeenClient
<1>3. ASSUME NEW r \in Runs, SupervisorStep(r) \/ KillSup(r) PROVE Book!Next \/ UNCHANGED Book!vars
    BY <1>3, SeenSupervisor
<1> QED BY <1>1, <1>2, <1>3 DEF Next

\* Every step of the registry is a step of the ledger or none of its own: what
\* start_task, reconciliation, purge and the supervisors do to the records
\* amounts to lines of runs that are joined at their end only, and only while
\* nobody is at work on them, and to admissions that find room and a free area.
THEOREM Refinement == Spec => ImplementsLedger
<1> QED BY BaseInit, BaseKept, CountInit, CountKept, ConvInit, ConvKept, OrderInit, OrderKept, BookInit,
           BookStep, PTL DEF Spec, ImplementsLedger, Book!Spec
==============================================================================
