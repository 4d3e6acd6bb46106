-------------------------------- MODULE Ledger --------------------------------
(***************************************************************************)
(* What the registry promises about its runs, without clients, locks, or   *)
(* records that are read at one time and judged at another: a conversation *)
(* is a line of runs, one at work at a time, which only its last member is *)
(* continued from and only the run at work drops out of; and admitted runs *)
(* are few and work in different places.  Giving a tip back is no step of  *)
(* its own: the line is shorter as soon as its last run has ended unused.  *)
(* A run is at work while its supervisor is; a worker that goes on without *)
(* its supervisor has no place here.                                       *)
(***************************************************************************)
EXTENDS Integers, FiniteSets

CONSTANTS
    Runs,      \* numbers, in order of creation
    Limit,     \* of admitted runs
    Places     \* where runs may write

VARIABLES
    entry,     \* what each run asked for: its conversation, the run it continues, its area
    users,     \* the runs that used their conversation's session, or may yet
    working,   \* those of them whose supervisor is at work or about to be
    admitted   \* the runs that count towards the limit

vars == <<entry, users, working, admitted>>

Blank == [talk |-> 0, from |-> 0, area |-> {}]

\* The line of a conversation; 0 is none.
Line(talk) == {s \in users : entry[s].talk = talk}

Init ==
    /\ entry = [r \in Runs |-> Blank]
    /\ users = {}
    /\ working = {}
    /\ admitted = {}

\* A continuation goes on with the conversation of the run it names; any other
\* run begins one, or has none.
Ask(r) ==
    /\ r \notin admitted
    /\ \A s \in users : s < r
    /\ \E from \in {s \in Runs : s < r} \union {0}, area \in SUBSET Places :
       \E talk \in IF from = 0 THEN {0, r} ELSE {entry[from].talk} :
          entry' = [entry EXCEPT ![r] = [talk |-> talk, from |-> from, area |-> area]]
    /\ UNCHANGED <<users, working, admitted>>

Join(r) ==
    /\ \A s \in users : s < r
    /\ LET line == Line(entry[r].talk) IN
       entry[r].talk # 0 =>
          /\ line \intersect working = {}
          /\ IF entry[r].from = 0 THEN line = {}
             ELSE entry[r].from \in line /\ \A s \in line : s <= entry[r].from
    /\ users' = users \union {r}
    /\ working' = working \union {r}
    /\ UNCHANGED <<entry, admitted>>

Admit(r) ==
    /\ r \in working
    /\ Cardinality(admitted) < Limit
    /\ \A s \in admitted : entry[r].area \intersect entry[s].area = {}
    /\ admitted' = admitted \union {r}
    /\ UNCHANGED <<entry, users, working>>

\* It stays in the line if it has used the session.
Stop(r) ==
    /\ r \in working
    /\ working' = working \ {r}
    /\ users' \in {users, users \ {r}}
    /\ admitted' \in {admitted, admitted \ {r}}
    /\ UNCHANGED entry

GiveUp(r) ==
    /\ r \in admitted \ working
    /\ admitted' = admitted \ {r}
    /\ UNCHANGED <<entry, users, working>>

Forget(r) ==
    /\ r \notin working \union admitted
    /\ entry' = [entry EXCEPT ![r] = Blank]
    /\ users' = users \ {r}
    /\ UNCHANGED <<working, admitted>>

Next == \E r \in Runs : Ask(r) \/ Join(r) \/ Admit(r) \/ Stop(r) \/ GiveUp(r) \/ Forget(r)

Spec == Init /\ [][Next]_vars

-----------------------------------------------------------------------------
(* What the promise amounts to.                                            *)

SameTalk(r, s) == entry[r].talk = entry[s].talk /\ entry[r].talk # 0

\* Of a conversation's runs only the last to join it is at work.
LastAtWork == \A r \in working : \A s \in users : SameTalk(r, s) => s <= r

\* A conversation never forks: of two of its runs the later one continues the
\* earlier one or a run behind it.
NeverForks ==
    \A r, s \in users : SameTalk(r, s) /\ r < s => r <= entry[s].from /\ entry[s].from < s

\* The admitted runs are few and keep out of each other's way.
WithinLimits ==
    /\ Cardinality(admitted) <= Limit
    /\ \A r, s \in admitted : r # s => entry[r].area \intersect entry[s].area = {}
==============================================================================
