----------------------------- MODULE LedgerProofs -----------------------------
(***************************************************************************)
(* What every implementation of the ledger keeps, for any number of runs,  *)
(* any limit, and any places.                                              *)
(***************************************************************************)
EXTENDS Ledger, FiniteSetTheorems, TLAPS

\* Whoever works uses its conversation; runs are numbers.
PlacesInv ==
    /\ entry \in [Runs -> [talk : Int, from : Int, area : SUBSET Places]]
    /\ working \subseteq users
    /\ users \subseteq Runs
    /\ admitted \subseteq Runs

LedgerInv == PlacesInv /\ LastAtWork /\ NeverForks /\ WithinLimits

LEMMA LedgerInit ==
    ASSUME Runs \subseteq Nat, Limit \in Nat
    PROVE  Init => LedgerInv
<1> SUFFICES ASSUME Init PROVE LedgerInv
    OBVIOUS
<1>1. PlacesInv
    BY DEF Init, PlacesInv, Blank
<1>2. LastAtWork /\ NeverForks
    BY DEF Init, LastAtWork, NeverForks
<1>3. WithinLimits
    BY FS_EmptySet DEF Init, WithinLimits
<1> QED BY <1>1, <1>2, <1>3 DEF LedgerInv

\* A step that lets no run join, and asks for and forgets none that stays.
LEMMA LedgerShrinks ==
    ASSUME LedgerInv, IsFiniteSet(Runs), Limit \in Nat,
           entry' \in [Runs -> [talk : Int, from : Int, area : SUBSET Places]],
           working' \subseteq working, users' \subseteq users, admitted' \subseteq admitted,
           working' \subseteq users',
           \A r \in users' \union admitted' : entry'[r] = entry[r]
    PROVE  LedgerInv'
<1>1. PlacesInv'
    BY DEF LedgerInv, PlacesInv
<1>2. LastAtWork'
    BY DEF LedgerInv, LastAtWork, SameTalk
<1>3. NeverForks'
    BY DEF LedgerInv, NeverForks, SameTalk
<1>4. WithinLimits'
  <2>1. IsFiniteSet(admitted)
      BY FS_Subset DEF LedgerInv, PlacesInv
  <2>2. Cardinality(admitted') <= Cardinality(admitted)
      BY <2>1, FS_Subset
  <2>3. Cardinality(admitted) \in Nat /\ Cardinality(admitted') \in Nat
      BY <2>1, FS_Subset, FS_CardinalityType
  <2>4. Cardinality(admitted') <= Limit
      BY <2>2, <2>3 DEF LedgerInv, WithinLimits
  <2> QED BY <2>4 DEF LedgerInv, WithinLimits
<1> QED BY <1>1, <1>2, <1>3, <1>4 DEF LedgerInv

LEMMA LedgerStep ==
    ASSUME IsFiniteSet(Runs), Runs \subseteq Nat \ {0}, Limit \in Nat, LedgerInv, Next \/ UNCHANGED vars
    PROVE  LedgerInv'
<1>1. CASE UNCHANGED vars
    BY <1>1, LedgerShrinks DEF vars, LedgerInv, PlacesInv
<1>2. ASSUME NEW r \in Runs, Ask(r) PROVE LedgerInv'
  <2>1. r \notin users /\ r \notin admitted
      BY <1>2 DEF Ask, LedgerInv, PlacesInv
  <2>f. PICK from \in {s \in Runs : s < r} \union {0}, area \in SUBSET Places :
             \E talk \in IF from = 0 THEN {0, r} ELSE {entry[from].talk} :
                entry' = [entry EXCEPT ![r] = [talk |-> talk, from |-> from, area |-> area]]
      BY <1>2 DEF Ask
  <2>2. PICK talk \in IF from = 0 THEN {0, r} ELSE {entry[from].talk} :
             entry' = [entry EXCEPT ![r] = [talk |-> talk, from |-> from, area |-> area]]
      BY <2>f
  <2>3. talk \in Int /\ from \in Int
      BY DEF LedgerInv, PlacesInv
  <2>4. entry' \in [Runs -> [talk : Int, from : Int, area : SUBSET Places]]
      BY <2>2, <2>3 DEF LedgerInv, PlacesInv
  <2>5. \A s \in users \union admitted : entry'[s] = entry[s]
      BY <2>1, <2>2 DEF LedgerInv, PlacesInv
  <2> QED BY <1>2, <2>4, <2>5, LedgerShrinks DEF Ask, LedgerInv, PlacesInv
<1>3. ASSUME NEW r \in Runs, Join(r) PROVE LedgerInv'
  <2>1. /\ users' = users \union {r} /\ working' = working \union {r}
        /\ UNCHANGED <<entry, admitted>>
        /\ \A s \in users : s < r
      BY <1>3 DEF Join
  <2>2. ASSUME entry[r].talk # 0
        PROVE  /\ \A s \in working : ~SameTalk(s, r)
               /\ \A s \in users : SameTalk(s, r) => s <= entry[r].from /\ entry[r].from < r
    <3>1. /\ Line(entry[r].talk) \intersect working = {}
          /\ IF entry[r].from = 0 THEN Line(entry[r].talk) = {}
             ELSE /\ entry[r].from \in Line(entry[r].talk)
                  /\ \A s \in Line(entry[r].talk) : s <= entry[r].from
        BY <1>3, <2>2 DEF Join
    <3>2. \A s \in users : SameTalk(s, r) => s \in Line(entry[r].talk)
        BY DEF Line, SameTalk
    <3>3. \A s \in Line(entry[r].talk) : s \in users
        BY DEF Line
    <3> QED BY <2>1, <3>1, <3>2, <3>3 DEF LedgerInv, PlacesInv
  <2>3. PlacesInv'
      BY <2>1 DEF LedgerInv, PlacesInv
  <2>4. LastAtWork'
    <3> SUFFICES ASSUME NEW q \in working \union {r}, NEW s \in users \union {r}, SameTalk(q, s) PROVE s <= q
        BY <2>1 DEF LastAtWork, SameTalk
    <3>1. CASE q = r
        BY <2>1, <3>1 DEF LedgerInv, PlacesInv
    <3>2. CASE q # r /\ s = r
        BY <2>2, <3>2 DEF SameTalk
    <3>3. CASE q # r /\ s # r
        BY <3>3 DEF LedgerInv, LastAtWork
    <3> QED BY <3>1, <3>2, <3>3
  <2>5. NeverForks'
    <3> SUFFICES ASSUME NEW q \in users \union {r}, NEW s \in users \union {r}, SameTalk(q, s), q < s
                 PROVE  q <= entry[s].from /\ entry[s].from < s
        BY <2>1 DEF NeverForks, SameTalk
    <3>1. q # r
      <4>1. q \in Int /\ s \in Int /\ r \in Int
          BY DEF LedgerInv, PlacesInv
      <4>2. s <= r
          BY <2>1, <4>1
      <4> QED BY <4>1, <4>2
    <3>2. CASE s = r
        BY <2>2, <3>1, <3>2 DEF SameTalk
    <3>3. CASE s # r
        BY <3>1, <3>3 DEF LedgerInv, NeverForks
    <3> QED BY <3>2, <3>3
  <2>6. WithinLimits'
      BY <2>1 DEF LedgerInv, WithinLimits
  <2> QED BY <2>3, <2>4, <2>5, <2>6 DEF LedgerInv
<1>4. ASSUME NEW r \in Runs, Admit(r) PROVE LedgerInv'
  <2>1. /\ admitted' = admitted \union {r} /\ UNCHANGED <<entry, users, working>>
        /\ Cardinality(admitted) < Limit
        /\ \A s \in admitted : entry[r].area \intersect entry[s].area = {}
      BY <1>4 DEF Admit
  <2>2. PlacesInv' /\ LastAtWork' /\ NeverForks'
      BY <2>1 DEF LedgerInv, PlacesInv, LastAtWork, NeverForks, SameTalk
  <2>3. Cardinality(admitted') <= Limit
    <3>1. IsFiniteSet(admitted)
        BY FS_Subset DEF LedgerInv, PlacesInv
    <3>2. Cardinality(admitted) \in Nat
        BY <3>1, FS_CardinalityType
    <3>3. Cardinality(admitted \union {r}) \in {Cardinality(admitted), Cardinality(admitted) + 1}
        BY <3>1, FS_AddElement
    <3> QED BY <2>1, <3>2, <3>3
  <2>4. \A q, s \in admitted' : q # s => entry'[q].area \intersect entry'[s].area = {}
      BY <2>1 DEF LedgerInv, WithinLimits
  <2> QED BY <2>2, <2>3, <2>4 DEF LedgerInv, WithinLimits
<1>5. ASSUME NEW r \in Runs, Stop(r) PROVE LedgerInv'
    BY <1>5, LedgerShrinks DEF Stop, LedgerInv, PlacesInv
<1>6. ASSUME NEW r \in Runs, GiveUp(r) PROVE LedgerInv'
    BY <1>6, LedgerShrinks DEF GiveUp, LedgerInv, PlacesInv
<1>7. ASSUME NEW r \in Runs, Forget(r) PROVE LedgerInv'
  <2>1. entry' \in [Runs -> [talk : Int, from : Int, area : SUBSET Places]]
      BY <1>7 DEF Forget, LedgerInv, PlacesInv, Blank
  <2>2. \A s \in users' \union admitted' : entry'[s] = entry[s]
      BY <1>7 DEF Forget, LedgerInv, PlacesInv
  <2>3. working' \subseteq users' /\ users' \subseteq users
      BY <1>7 DEF Forget, LedgerInv, PlacesInv
  <2> QED BY <1>7, <2>1, <2>2, <2>3, LedgerShrinks DEF Forget
<1> QED BY <1>1, <1>2, <1>3, <1>4, <1>5, <1>6, <1>7 DEF Next

\* What implements the ledger never lets two runs work on a conversation, forks
\* none, and keeps the limit and the areas.
THEOREM LedgerKeeps ==
    ASSUME IsFiniteSet(Runs), Runs \subseteq Nat \ {0}, Limit \in Nat
    PROVE  Spec => [](LastAtWork /\ NeverForks /\ WithinLimits)
<1>1. Init => LedgerInv
    BY LedgerInit
<1>2. LedgerInv /\ [Next]_vars => LedgerInv'
    BY LedgerStep
<1>3. LedgerInv => LastAtWork /\ NeverForks /\ WithinLimits
    BY DEF LedgerInv
<1> QED BY <1>1, <1>2, <1>3, PTL DEF Spec
==============================================================================
