------------------------- MODULE SkillInstallProofs -------------------------
(***************************************************************************)
(* Theorems about SkillInstall, for any number of installers, any          *)
(* packages and targets, and whatever fails or is killed.                  *)
(***************************************************************************)
EXTENDS SkillInstall, SequenceTheorems, TLAPS

-----------------------------------------------------------------------------
(* Sequences.                                                              *)

\* What is left of a sequence without its head.
LEMMA Rest ==
    ASSUME NEW S, NEW s \in Seq(S), s # <<>>
    PROVE  /\ Len(s) \in Nat \ {0}
           /\ Head(s) = s[1] /\ Head(s) \in S
           /\ Tail(s) \in Seq(S)
           /\ Len(Tail(s)) = Len(s) - 1
           /\ \A n \in 1 .. Len(Tail(s)) : Tail(s)[n] = s[n + 1]
BY HeadTailProperties, EmptySeq, LenProperties

-----------------------------------------------------------------------------
(* Types, and what an installer has in its hands at each point.            *)

PlanStep == [target : Places, change : BOOLEAN]

\* What it writes is whole before it is moved in, and what it moved aside is
\* whole until it is dropped.
Fits(i, label) ==
    /\ label \in {"compare", "judge", "conflict"} => todo[i] # <<>>
    /\ label \in {"write", "look", "aside", "in", "rollback", "restore", "drop", "done", "clean", "failed"}
          => plan[i] # <<>> /\ Head(plan[i]).change
    /\ label \in {"look", "aside", "in", "rollback", "restore"} => temporary[i] = Package[i]
    /\ label \in {"plan", "compare", "judge", "next", "write", "look", "aside", "done", "installed",
                  "conflict"}
          => backup[i] = Absent
    /\ label \in {"in", "rollback"} => backup[i] # Torn
    /\ label = "restore" => backup[i] \notin {Absent, Torn}
    /\ label = "drop" => backup[i] # Absent

BusyInv == \A i \in Installers : Fits(i, pc[i])

Labels == Ended \union
    {"plan", "compare", "judge", "next", "write", "look", "aside", "in",
     "rollback", "restore", "drop", "done", "clean"}

Base == TypeOK /\ BusyInv

LEMMA Kinds ==
    /\ Absent # Foreign /\ Absent # Torn /\ Foreign # Torn
    /\ Absent \notin Versions /\ Foreign \notin Versions /\ Torn \notin Versions
    /\ Absent \notin Copies /\ Foreign \notin Copies /\ Torn \notin Copies
    /\ \A i \in Installers : Package[i] \in Versions /\ Unmarked[Package[i]] \in Copies
    /\ Versions \cap Copies = {}
    /\ Targets \in Seq(Places)
BY ContentsAssumption, TargetsAssumption DEF Versions, Copies

LEMMA TargetType ==
    ASSUME TypeOK, NEW i \in Installers, plan[i] # <<>>
    PROVE  /\ Target(i) = plan[i][1].target
           /\ Target(i) \in Places
           /\ Len(plan[i]) \in Nat \ {0}
<1>1. plan[i] \in Seq([target : Places, change : BOOLEAN])
  BY DEF TypeOK
<1>2. Head(plan[i]) = plan[i][1] /\ Head(plan[i]) \in [target : Places, change : BOOLEAN]
  BY <1>1, Rest
<1>3. Len(plan[i]) \in Nat \ {0}
  BY <1>1, Rest
<1> QED BY <1>2, <1>3 DEF Target

\* Planning a target adds a step for it, and nothing else happens.
LEMMA PlanMade ==
    ASSUME TypeOK, NEW i \in Installers, Plan(i)
    PROVE  \E change \in BOOLEAN :
               LET step == [target |-> Head(todo[i]), change |-> change] IN
               /\ todo[i] \in Seq(Places) /\ todo[i] # <<>> /\ Head(todo[i]) \in Places
               /\ step \in PlanStep /\ step.target = Head(todo[i]) /\ step.change = change
               /\ Decided(i, Head(todo[i]), change)
               /\ plan' = [plan EXCEPT ![i] = Append(plan[i], step)]
               /\ plan'[i] = Append(plan[i], step)
               /\ todo' = [todo EXCEPT ![i] = Tail(todo[i])] /\ todo'[i] = Tail(todo[i])
               /\ pc[i] \in {"plan", "compare", "judge"} /\ pc' = [pc EXCEPT ![i] = "plan"] /\ pc'[i] = "plan"
               /\ UNCHANGED <<dest, inputs, temporary, backup, results>>
<1>1. todo[i] \in Seq(Places) /\ todo[i] # <<>> /\ Head(todo[i]) \in Places
  BY Rest DEF Plan, TypeOK
<1>2. PICK change \in BOOLEAN :
         /\ Decided(i, Head(todo[i]), change)
         /\ plan' = [plan EXCEPT ![i] = Append(@, [target |-> Head(todo[i]), change |-> change])]
  BY DEF Plan
<1>3. pc[i] \in {"plan", "compare", "judge"}
  BY <1>2 DEF Decided
<1>4. [target |-> Head(todo[i]), change |-> change] \in PlanStep
  BY <1>1 DEF PlanStep
<1>5. todo' = [todo EXCEPT ![i] = Tail(todo[i])] /\ todo'[i] = Tail(todo[i])
  BY DEF Plan, TypeOK
<1>6. pc' = [pc EXCEPT ![i] = "plan"] /\ pc'[i] = "plan"
  BY DEF Plan, GoTo, TypeOK
<1>7. /\ plan' = [plan EXCEPT ![i] = Append(plan[i], [target |-> Head(todo[i]), change |-> change])]
      /\ plan'[i] = Append(plan[i], [target |-> Head(todo[i]), change |-> change])
  BY <1>2 DEF TypeOK
<1>8. UNCHANGED <<dest, inputs, temporary, backup, results>>
  BY DEF Plan
<1> WITNESS change \in BOOLEAN
<1> QED BY <1>1, <1>2, <1>3, <1>4, <1>5, <1>6, <1>7, <1>8

\* A step that only moves an installer to where it has what it needs.
LEMMA Moves ==
    ASSUME Base, NEW i \in Installers, NEW label \in Labels,
           pc' = [pc EXCEPT ![i] = label], Fits(i, label),
           UNCHANGED <<dest, inputs, todo, plan, temporary, backup, results>>
    PROVE  Base'
<1>1. pc' \in [Installers -> Labels]
  BY DEF Base, TypeOK, Labels
<1>2. TypeOK'
  BY <1>1 DEF Base, TypeOK, inputs, Labels, Ended, Whole, Others
<1>3. ASSUME NEW j \in Installers PROVE Fits(j, pc[j])'
  <2>1. CASE j = i
    <3>1. pc'[j] = label
      BY <2>1 DEF Base, TypeOK
    <3> QED BY <3>1, <2>1 DEF Fits
  <2>2. CASE j # i
    <3>1. pc'[j] = pc[j] /\ Fits(j, pc[j])
      BY <2>2 DEF Base, TypeOK, BusyInv
    <3> QED BY <3>1 DEF Fits
  <2> QED BY <2>1, <2>2
<1> QED BY <1>2, <1>3 DEF Base, BusyInv

\* What a step leaves fitting for the one that takes it and alone for the others.
LEMMA Keeps ==
    ASSUME Base, NEW i \in Installers, Fits(i, pc[i])',
           \A j \in Installers \ {i} :
               /\ pc'[j] = pc[j] /\ todo'[j] = todo[j] /\ plan'[j] = plan[j]
               /\ temporary'[j] = temporary[j] /\ backup'[j] = backup[j]
    PROVE  BusyInv'
<1>1. ASSUME NEW j \in Installers PROVE Fits(j, pc[j])'
  <2>1. CASE j = i
    BY <2>1
  <2>2. CASE j # i
    <3>1. Fits(j, pc[j])
      BY DEF Base, BusyInv
    <3> QED BY <3>1, <2>2 DEF Fits
  <2> QED BY <2>1, <2>2
<1> QED BY <1>1 DEF BusyInv

LEMMA BaseInit == Init => Base
BY Kinds, EmptySeq DEF Init, Base, TypeOK, BusyInv, Fits, Whole, Ended

LEMMA BaseStep == Base /\ [Next]_vars => Base'
<1> SUFFICES ASSUME Base, [Next]_vars PROVE Base'
  OBVIOUS
<1>0. ASSUME NEW i \in Installers PROVE Fits(i, pc[i]) /\ pc[i] \in Labels
  BY DEF Base, TypeOK, BusyInv, Labels
<1>1. ASSUME NEW i \in Installers, Plan(i) PROVE Base'
  <2>1. PICK change \in BOOLEAN :
           LET step == [target |-> Head(todo[i]), change |-> change] IN
           /\ todo[i] \in Seq(Places) /\ todo[i] # <<>> /\ step \in PlanStep
           /\ plan' = [plan EXCEPT ![i] = Append(plan[i], step)]
           /\ todo' = [todo EXCEPT ![i] = Tail(todo[i])]
           /\ pc[i] \in {"plan", "compare", "judge"} /\ pc' = [pc EXCEPT ![i] = "plan"]
           /\ UNCHANGED <<dest, inputs, temporary, backup, results>>
    BY <1>1, PlanMade DEF Base
  <2>2. Tail(todo[i]) \in Seq(Places)
    BY <2>1, Rest
  <2>3. plan[i] \in Seq(PlanStep)
    BY DEF PlanStep, Base, TypeOK
  <2>4. Append(plan[i], [target |-> Head(todo[i]), change |-> change])
           \in Seq([target : Places, change : BOOLEAN])
    BY <2>1, <2>3, AppendProperties DEF PlanStep
  <2>5. TypeOK'
    BY <2>1, <2>2, <2>4 DEF Base, TypeOK, inputs
  <2>6. pc'[i] = "plan" /\ backup'[i] = Absent
    BY <1>0, <2>1 DEF Base, TypeOK, Fits
  <2>7. BusyInv'
    BY <2>1, <2>6, Keeps DEF Base, TypeOK, Fits
  <2> QED BY <2>5, <2>7 DEF Base
<1>2. ASSUME NEW i \in Installers, Refuse(i) \/ ReadOn(i) PROVE Base'
  <2>1. CASE Refuse(i)
    BY <1>0, <2>1, Moves DEF Refuse, GoTo, Fits, Labels, Ended
  <2>2. CASE ReadOn(i)
    <3>1. /\ pc[i] \in {"plan", "compare"} /\ todo[i] # <<>>
          /\ pc' = [pc EXCEPT ![i] = "compare"] \/ pc' = [pc EXCEPT ![i] = "judge"]
          /\ UNCHANGED <<dest, inputs, todo, plan, temporary, backup, results>>
      BY <1>0, <2>2 DEF ReadOn, GoTo, Fits
    <3>2. Fits(i, "compare") /\ Fits(i, "judge")
      BY <1>0, <3>1 DEF Fits
    <3> QED BY <3>1, <3>2, Moves DEF Labels
  <2> QED BY <1>2, <2>1, <2>2
<1>3. ASSUME NEW i \in Installers, Planned(i) PROVE Base'
  BY <1>0, <1>3, Moves DEF Planned, GoTo, Fits, Labels
<1>4. ASSUME NEW i \in Installers, NextPlan(i) PROVE Base'
  <2>1. CASE plan[i] = <<>>
    <3>1. pc' = [pc EXCEPT ![i] = "installed"] \/ pc' = [pc EXCEPT ![i] = "plan"]
      BY <1>4, <2>1 DEF NextPlan, GoTo
    <3>2. pc[i] = "next" /\ UNCHANGED <<dest, inputs, todo, plan, temporary, backup, results>>
      BY <1>4, <2>1 DEF NextPlan
    <3>3. Fits(i, "installed") /\ Fits(i, "plan")
      BY <1>0, <3>2 DEF Fits
    <3> QED BY <3>1, <3>2, <3>3, Moves DEF Labels, Ended
  <2>2. CASE plan[i] # <<>> /\ Head(plan[i]).change
    <3>1. temporary' = [temporary EXCEPT ![i] = Torn] /\ pc' = [pc EXCEPT ![i] = "write"]
      BY <1>4, <2>2 DEF NextPlan, GoTo
    <3>2. pc[i] = "next" /\ UNCHANGED <<dest, inputs, todo, plan, backup, results>>
      BY <1>4, <2>2 DEF NextPlan
    <3>3. TypeOK'
      BY <3>1, <3>2 DEF Base, TypeOK, inputs
    <3>4. Fits(i, pc[i])'
      BY <1>0, <2>2, <3>1, <3>2 DEF Base, TypeOK, Fits
    <3>5. BusyInv'
      BY <3>1, <3>2, <3>4, Keeps DEF Base, TypeOK
    <3> QED BY <3>3, <3>5 DEF Base
  <2>3. CASE plan[i] # <<>> /\ ~Head(plan[i]).change
    <3>1. Tail(plan[i]) \in Seq([target : Places, change : BOOLEAN])
      BY <2>3, Rest DEF Base, TypeOK
    <3>2. /\ results' = [results EXCEPT ![i] = @ \union {Target(i)}]
          /\ plan' = [plan EXCEPT ![i] = Tail(@)]
          /\ pc[i] = "next" /\ UNCHANGED <<dest, inputs, todo, temporary, backup, pc>>
      BY <1>4, <2>3 DEF NextPlan
    <3>3. Target(i) \in Places
      BY <2>3, TargetType DEF Base
    <3>4. TypeOK'
      BY <3>1, <3>2, <3>3 DEF Base, TypeOK, inputs
    <3>5. Fits(i, pc[i])'
      BY <1>0, <3>2 DEF Fits
    <3>6. BusyInv'
      BY <3>2, <3>5, Keeps DEF Base, TypeOK
    <3> QED BY <3>4, <3>6 DEF Base
  <2> QED BY <2>1, <2>2, <2>3
<1>5. ASSUME NEW i \in Installers, WriteTree(i) PROVE Base'
  <2>1. /\ pc[i] = "write" /\ pc' = [pc EXCEPT ![i] = "look"]
        /\ temporary' = [temporary EXCEPT ![i] = Package[i]]
        /\ UNCHANGED <<dest, inputs, todo, plan, backup, results>>
    BY <1>5 DEF WriteTree, GoTo
  <2>2. TypeOK'
    BY <2>1, Kinds DEF Base, TypeOK, inputs
  <2>3. Fits(i, pc[i])'
    BY <1>0, <2>1 DEF Base, TypeOK, Fits
  <2>4. BusyInv'
    BY <2>1, <2>3, Keeps DEF Base, TypeOK
  <2> QED BY <2>2, <2>4 DEF Base
<1>6. ASSUME NEW i \in Installers, Look(i) PROVE Base'
  <2>1. /\ pc[i] = "look"
        /\ pc' = [pc EXCEPT ![i] = "in"] \/ pc' = [pc EXCEPT ![i] = "aside"]
        /\ UNCHANGED <<dest, inputs, todo, plan, temporary, backup, results>>
    BY <1>6 DEF Look, GoTo
  <2>2. Fits(i, "in") /\ Fits(i, "aside")
    BY <1>0, <2>1, Kinds DEF Fits
  <2> QED BY <2>1, <2>2, Moves DEF Labels
<1>7. ASSUME NEW i \in Installers, MoveAside(i) PROVE Base'
  <2>1. /\ pc[i] = "aside" /\ pc' = [pc EXCEPT ![i] = "in"]
        /\ backup' = [backup EXCEPT ![i] = dest[Target(i)]]
        /\ dest' = [dest EXCEPT ![Target(i)] = Absent]
        /\ UNCHANGED <<inputs, todo, plan, temporary, results>>
    BY <1>7 DEF MoveAside, GoTo
  <2>2. Target(i) \in Places
    BY <1>0, <2>1, TargetType DEF Base, Fits
  <2>3. dest[Target(i)] \in Whole /\ dest[Target(i)] # Torn
    BY <2>2, Kinds DEF Base, TypeOK, Whole, Others
  <2>4. Absent \in Whole
    BY DEF Whole
  <2>5. TypeOK'
    BY <2>1, <2>3, <2>4 DEF Base, TypeOK, inputs
  <2>6. Fits(i, pc[i])'
    BY <1>0, <2>1, <2>3 DEF Base, TypeOK, Fits
  <2>7. BusyInv'
    BY <2>1, <2>6, Keeps DEF Base, TypeOK
  <2> QED BY <2>5, <2>7 DEF Base
<1>8. ASSUME NEW i \in Installers, MoveIn(i) PROVE Base'
  <2>1. /\ pc[i] = "in" /\ (pc' = [pc EXCEPT ![i] = "done"] \/ pc' = [pc EXCEPT ![i] = "drop"])
        /\ (pc' = [pc EXCEPT ![i] = "done"] <=> backup[i] = Absent)
        /\ dest' = [dest EXCEPT ![Target(i)] = temporary[i]]
        /\ temporary' = [temporary EXCEPT ![i] = Absent]
        /\ UNCHANGED <<inputs, todo, plan, backup, results>>
    BY <1>8 DEF MoveIn, GoTo, Base, TypeOK
  <2>2. temporary[i] \in Whole
    BY <1>0, <2>1, Kinds DEF Fits, Whole
  <2>3. TypeOK'
    BY <2>1, <2>2 DEF Base, TypeOK, inputs
  <2>4. Fits(i, pc[i])'
    BY <1>0, <2>1 DEF Base, TypeOK, Fits
  <2>5. BusyInv'
    BY <2>1, <2>4, Keeps DEF Base, TypeOK
  <2> QED BY <2>3, <2>5 DEF Base
<1>9. ASSUME NEW i \in Installers, Rollback(i) PROVE Base'
  <2>1. pc' = [pc EXCEPT ![i] = "clean"] \/ (pc' = [pc EXCEPT ![i] = "restore"] /\ backup[i] # Absent)
    BY <1>9 DEF Rollback, GoTo
  <2>2. pc[i] = "rollback" /\ UNCHANGED <<dest, inputs, todo, plan, temporary, backup, results>>
    BY <1>9 DEF Rollback
  <2>3. Fits(i, "clean") /\ (backup[i] # Absent => Fits(i, "restore"))
    BY <1>0, <2>2 DEF Fits
  <2> QED BY <2>1, <2>2, <2>3, Moves DEF Labels
<1>10. ASSUME NEW i \in Installers, Restore(i) PROVE Base'
  <2>1. /\ pc[i] = "restore" /\ pc' = [pc EXCEPT ![i] = "clean"]
        /\ dest' = [dest EXCEPT ![Target(i)] = backup[i]]
        /\ backup' = [backup EXCEPT ![i] = Absent]
        /\ UNCHANGED <<inputs, todo, plan, temporary, results>>
    BY <1>10 DEF Restore, GoTo
  <2>2. backup[i] \in Whole /\ Absent \in Whole
    BY <1>0, <2>1 DEF Base, TypeOK, Fits, Whole
  <2>3. TypeOK'
    BY <2>1, <2>2 DEF Base, TypeOK, inputs
  <2>4. Fits(i, pc[i])'
    BY <1>0, <2>1 DEF Base, TypeOK, Fits
  <2>5. BusyInv'
    BY <2>1, <2>4, Keeps DEF Base, TypeOK
  <2> QED BY <2>3, <2>5 DEF Base
<1>11. ASSUME NEW i \in Installers, DropBackup(i) PROVE Base'
  <2>1. pc[i] = "drop" /\ UNCHANGED <<dest, inputs, todo, plan, temporary, results>>
    BY <1>11 DEF DropBackup
  <2>2. \/ backup' = [backup EXCEPT ![i] = Absent] /\ pc' = [pc EXCEPT ![i] = "done"]
        \/ backup' = [backup EXCEPT ![i] = Torn] /\ pc' = pc
    BY <1>11 DEF DropBackup, GoTo
  <2>3. backup' \in [Installers -> Whole \union {Torn}] /\ pc' \in [Installers -> Labels]
    <3>1. Absent \in Whole /\ backup \in [Installers -> Whole \union {Torn}]
      BY DEF Whole, Base, TypeOK
    <3>2. pc \in [Installers -> Labels] /\ "done" \in Labels
      BY DEF Base, TypeOK, Labels
    <3> QED BY <2>2, <3>1, <3>2
  <2>4. TypeOK'
    BY <2>1, <2>3 DEF Base, TypeOK, inputs, Labels
  <2>5. Fits(i, pc[i])'
    BY <1>0, <2>1, <2>2, Kinds DEF Base, TypeOK, Fits
  <2>6. BusyInv'
    BY <2>1, <2>2, <2>5, Keeps DEF Base, TypeOK
  <2> QED BY <2>4, <2>6 DEF Base
<1>12. ASSUME NEW i \in Installers, Done(i) PROVE Base'
  <2>1. /\ results' = [results EXCEPT ![i] = @ \union {Target(i)}]
        /\ plan' = [plan EXCEPT ![i] = Tail(@)]
        /\ pc' = [pc EXCEPT ![i] = "next"]
        /\ pc[i] = "done" /\ UNCHANGED <<dest, inputs, todo, temporary, backup>>
    BY <1>12 DEF Done, GoTo
  <2>2. plan[i] # <<>>
    BY <1>0, <2>1 DEF Fits
  <2>3. Tail(plan[i]) \in Seq([target : Places, change : BOOLEAN])
    BY <2>2, Rest DEF Base, TypeOK
  <2>4. Target(i) \in Places
    BY <2>2, TargetType DEF Base
  <2>5. TypeOK'
    BY <2>1, <2>3, <2>4 DEF Base, TypeOK, inputs
  <2>6. Fits(i, pc[i])'
    BY <1>0, <2>1 DEF Base, TypeOK, Fits
  <2>7. BusyInv'
    BY <2>1, <2>6, Keeps DEF Base, TypeOK
  <2> QED BY <2>5, <2>7 DEF Base
<1>13. ASSUME NEW i \in Installers, Fail(i) PROVE Base'
  <2>1. /\ pc[i] \in {"write", "aside", "in", "restore", "drop"}
        /\ \/ pc[i] = "in" /\ pc' = [pc EXCEPT ![i] = "rollback"]
           \/ pc' = [pc EXCEPT ![i] = "clean"]
        /\ UNCHANGED <<dest, inputs, todo, plan, temporary, backup, results>>
    BY <1>13 DEF Fail, MayFail, GoTo
  <2>2. Fits(i, "clean") /\ (pc[i] = "in" => Fits(i, "rollback"))
    BY <1>0, <2>1 DEF Fits
  <2> QED BY <2>1, <2>2, Moves DEF Labels
<1>14. ASSUME NEW i \in Installers, Clean(i) PROVE Base'
  <2>1. /\ pc[i] = "clean" /\ pc' = [pc EXCEPT ![i] = "failed"]
        /\ temporary' = [temporary EXCEPT ![i] = Absent]
        /\ UNCHANGED <<dest, inputs, todo, plan, backup, results>>
    BY <1>14 DEF Clean, GoTo
  <2>2. TypeOK'
    BY <2>1 DEF Base, TypeOK, inputs, Ended
  <2>3. Fits(i, pc[i])'
    BY <1>0, <2>1 DEF Base, TypeOK, Fits
  <2>4. BusyInv'
    BY <2>1, <2>3, Keeps DEF Base, TypeOK
  <2> QED BY <2>2, <2>4 DEF Base
<1>15. ASSUME NEW i \in Installers, Kill(i) PROVE Base'
  BY <1>15, Moves DEF Kill, GoTo, Fits, Labels, Ended
<1>16. CASE UNCHANGED vars
  BY <1>16 DEF vars, inputs, Base, TypeOK, BusyInv, Fits
<1> QED BY <1>1, <1>2, <1>3, <1>4, <1>5, <1>6, <1>7, <1>8, <1>9,
       <1>10, <1>11, <1>12, <1>13, <1>14, <1>15, <1>16 DEF Next

-----------------------------------------------------------------------------
\* No target ever holds a tree that is not whole, wherever installers fail or
\* are killed: a tree is moved in only when it is written to its end.
THEOREM TypeCorrect == Spec => []TypeOK
<1>1. Base => TypeOK
  BY DEF Base
<1> QED BY BaseInit, BaseStep, <1>1, PTL DEF Spec

-----------------------------------------------------------------------------
(* What a step of installer i leaves alone.                                *)

InstallerStep(i) ==
    \/ Plan(i) \/ ReadOn(i) \/ Refuse(i) \/ Planned(i) \/ NextPlan(i)
    \/ WriteTree(i) \/ Look(i) \/ MoveAside(i) \/ MoveIn(i)
    \/ Rollback(i) \/ Restore(i) \/ DropBackup(i) \/ Done(i)
    \/ Fail(i) \/ Clean(i) \/ Kill(i)

\* The other installers, who was given --force, and what may go wrong.
LEMMA OthersSame ==
    ASSUME Base, NEW i \in Installers, InstallerStep(i), NEW j \in Installers, j # i
    PROVE  /\ plan'[j] = plan[j] /\ todo'[j] = todo[j] /\ Target(j)' = Target(j)
           /\ backup'[j] = backup[j] /\ temporary'[j] = temporary[j]
           /\ results'[j] = results[j] /\ pc'[j] = pc[j]
           /\ UNCHANGED inputs
BY DEF Base, TypeOK, InstallerStep, Plan, ReadOn, Refuse, Planned, NextPlan, WriteTree, Look, MoveAside,
       MoveIn, Rollback, Restore,
       DropBackup, Done, Fail, Clean, Kill, GoTo, Target, inputs

\* An installer moves something in three steps only, at its target.
LEMMA Untouched ==
    ASSUME Base, NEW i \in Installers, InstallerStep(i), ~MoveAside(i), ~MoveIn(i), ~Restore(i)
    PROVE  dest' = dest
BY DEF InstallerStep, Plan, ReadOn, Refuse, Planned, NextPlan, WriteTree, Look, Rollback,
       DropBackup, Done, Fail, Clean, Kill

\* What the three make of the target.
LEMMA Moved ==
    ASSUME Base, NEW i \in Installers, MoveAside(i) \/ MoveIn(i) \/ Restore(i)
    PROVE  /\ plan[i] # <<>> /\ Target(i) \in Places
           /\ Head(plan[i]).change
           /\ UNCHANGED <<plan, todo, results>> /\ Target(i)' = Target(i)
           /\ MoveAside(i) =>
                 /\ pc[i] = "aside" /\ dest[Target(i)] # Absent /\ backup[i] = Absent
                 /\ pc'[i] = "in" /\ backup'[i] = dest[Target(i)] /\ backup'[i] # Torn
                 /\ dest' = [dest EXCEPT ![Target(i)] = Absent]
           /\ MoveIn(i) =>
                 /\ pc[i] = "in" /\ dest[Target(i)] = Absent
                 /\ pc'[i] \in {"done", "drop"} /\ backup'[i] = backup[i]
                 /\ dest' = [dest EXCEPT ![Target(i)] = Package[i]] /\ Package[i] # Absent
           /\ Restore(i) =>
                 /\ pc[i] = "restore" /\ pc'[i] = "clean"
                 /\ dest[Target(i)] = Absent /\ backup[i] \notin {Absent, Torn}
                 /\ dest' = [dest EXCEPT ![Target(i)] = backup[i]]
<1>1. plan[i] # <<>> /\ Head(plan[i]).change /\ Target(i) \in Places
  BY TargetType DEF Base, BusyInv, Fits, MoveAside, MoveIn, Restore
<1>2. UNCHANGED <<plan, todo, results>>
  BY DEF MoveAside, MoveIn, Restore
<1>3. Target(i)' = Target(i)
  BY <1>2 DEF Target
<1>4. CASE MoveAside(i)
  <2>1. dest[Target(i)] \in Whole /\ Torn \notin Whole
    BY <1>1, Kinds DEF Base, TypeOK, Whole, Others
  <2>2. ~MoveIn(i) /\ ~Restore(i)
    BY <1>4 DEF MoveAside, MoveIn, Restore
  <2> QED BY <1>1, <1>2, <1>3, <1>4, <2>1, <2>2 DEF Base, TypeOK, BusyInv, Fits, MoveAside, GoTo
<1>5. CASE MoveIn(i)
  <2>1. Package[i] # Absent /\ temporary[i] = Package[i]
    BY <1>5, Kinds DEF Base, BusyInv, Fits, MoveIn
  <2>2. ~MoveAside(i) /\ ~Restore(i)
    BY <1>5 DEF MoveAside, MoveIn, Restore
  <2> QED BY <1>1, <1>2, <1>3, <1>5, <2>1, <2>2 DEF Base, TypeOK, MoveIn, GoTo
<1>6. CASE Restore(i)
  <2>1. ~MoveAside(i) /\ ~MoveIn(i)
    BY <1>6 DEF MoveAside, MoveIn, Restore
  <2> QED BY <1>1, <1>2, <1>3, <1>6, <2>1 DEF Base, TypeOK, BusyInv, Fits, Restore, GoTo
<1> QED BY <1>4, <1>5, <1>6

\* ... and of any place, the target or another.
LEMMA MovedTo ==
    ASSUME Base, NEW i \in Installers, MoveAside(i) \/ MoveIn(i) \/ Restore(i), NEW t \in Places
    PROVE  /\ MoveAside(i) => dest'[t] = IF t = Target(i) THEN Absent ELSE dest[t]
           /\ MoveIn(i) => dest'[t] = dest[t] \/ dest'[t] # Absent
           /\ Restore(i) => dest'[t] = dest[t] \/ dest'[t] # Absent
           /\ t = Target(i) /\ (MoveIn(i) \/ Restore(i)) => dest'[t] # Absent
<1>1. dest \in [Places -> Whole] /\ Target(i) \in Places
  BY Moved DEF Base, TypeOK
<1>2. CASE MoveAside(i)
  <2>1. dest' = [dest EXCEPT ![Target(i)] = Absent]
    BY <1>2, Moved
  <2>2. ~MoveIn(i) /\ ~Restore(i)
    BY <1>2 DEF MoveAside, MoveIn, Restore
  <2> QED BY <1>1, <2>1, <2>2
<1>3. CASE MoveIn(i)
  <2>1. dest' = [dest EXCEPT ![Target(i)] = Package[i]] /\ Package[i] # Absent
    BY <1>3, Moved
  <2>2. ~MoveAside(i) /\ ~Restore(i)
    BY <1>3 DEF MoveAside, MoveIn, Restore
  <2> QED BY <1>1, <2>1, <2>2
<1>4. CASE Restore(i)
  <2>1. dest' = [dest EXCEPT ![Target(i)] = backup[i]] /\ backup[i] # Absent
    BY <1>4, Moved
  <2>2. ~MoveAside(i) /\ ~MoveIn(i)
    BY <1>4 DEF MoveAside, MoveIn, Restore
  <2> QED BY <1>1, <2>1, <2>2
<1> QED BY <1>2, <1>3, <1>4

-----------------------------------------------------------------------------
(* Something whole is always left of what a target held.                   *)

\* Installer j holds what t held, whole, and is not about to remove it.
Solid(j, t) ==
    /\ plan[j] # <<>> /\ Target(j) = t
    /\ backup[j] \notin {Absent, Torn}
    /\ pc[j] # "drop"

Safe(t) == dest[t] # Absent \/ \E j \in Installers : Solid(j, t)

\* Nothing is removed before something took its place.
DropInv == \A i \in Installers : pc[i] = "drop" => Safe(Target(i))

LEMMA SafeKept ==
    ASSUME Base, [Next]_vars, NEW t \in Places, Safe(t)
    PROVE  Safe(t)'
<1>1. CASE UNCHANGED vars
  BY <1>1 DEF vars, Safe, Solid, Target
<1>2. ASSUME NEW i \in Installers, InstallerStep(i) PROVE Safe(t)'
  <2>1. CASE dest[t] # Absent
    <3>1. CASE MoveAside(i) /\ Target(i) = t
      <4>1. Solid(i, t)'
        BY <2>1, <3>1, Moved DEF Solid
      <4> QED BY <4>1 DEF Safe
    <3>2. CASE ~(MoveAside(i) /\ Target(i) = t)
      <4>1. dest'[t] # Absent
        <5>1. CASE MoveAside(i)
          BY <2>1, <3>2, <5>1, MovedTo
        <5>2. CASE MoveIn(i)
          BY <2>1, <5>2, MovedTo
        <5>3. CASE Restore(i)
          BY <2>1, <5>3, MovedTo
        <5> QED BY <1>2, <2>1, <5>1, <5>2, <5>3, Untouched
      <4> QED BY <4>1 DEF Safe
    <3> QED BY <3>1, <3>2
  <2>2. ASSUME NEW j \in Installers, Solid(j, t), dest[t] = Absent PROVE Safe(t)'
    <3>1. CASE j # i
      BY <1>2, <2>2, <3>1, OthersSame DEF Safe, Solid
    <3>2. CASE j = i /\ (MoveIn(i) \/ Restore(i))
      <4>1. dest'[t] # Absent
        <5>1. CASE MoveIn(i)
          BY <2>2, <3>2, <5>1, MovedTo DEF Solid
        <5>2. CASE Restore(i)
          BY <2>2, <3>2, <5>2, MovedTo DEF Solid
        <5> QED BY <3>2, <5>1, <5>2
      <4> QED BY <4>1 DEF Safe
    <3>3. CASE j = i /\ ~MoveIn(i) /\ ~Restore(i)
      <4>1. pc[i] \notin {"plan", "compare", "judge", "next", "write", "look", "aside", "done", "drop"}
        BY <2>2, <3>3, <1>2, Moved DEF Solid, Base, BusyInv, Fits
      <4>2. ~Plan(i)
        BY <4>1 DEF Plan, Decided
      <4>3. Fail(i) \/ Clean(i) \/ Kill(i) \/ Rollback(i)
        BY <1>2, <3>3, <4>1, <4>2
           DEF InstallerStep, ReadOn, Refuse, Planned, NextPlan, WriteTree, Look, MoveAside, DropBackup, Done
      <4>4. Solid(i, t)'
        BY <2>2, <3>3, <4>1, <4>3 DEF Solid, Target, Fail, Clean, Kill, Rollback, GoTo, Base, TypeOK
      <4> QED BY <4>4 DEF Safe
    <3> QED BY <3>1, <3>2, <3>3
  <2> QED BY <2>1, <2>2 DEF Safe
<1> QED BY <1>1, <1>2 DEF Next, InstallerStep

LEMMA DropStep == Base /\ DropInv /\ [Next]_vars => DropInv'
<1> SUFFICES ASSUME Base, DropInv, [Next]_vars, NEW j \in Installers, pc'[j] = "drop"
             PROVE  Safe(Target(j))'
  BY DEF DropInv
<1>1. CASE UNCHANGED vars
  BY <1>1 DEF vars, DropInv, Safe, Solid, Target
<1>2. ASSUME NEW i \in Installers, InstallerStep(i) PROVE Safe(Target(j))'
  <2>1. CASE pc[j] = "drop"
    <3>1. Target(j) \in Places /\ Safe(Target(j))
      BY <2>1, TargetType DEF Base, BusyInv, Fits, DropInv
    <3>2. Target(j)' = Target(j)
      <4>1. CASE j # i
        BY <1>2, <4>1, OthersSame
      <4>2. CASE j = i
        BY <1>2, <2>1, <4>2 DEF Target, InstallerStep, Plan, Decided, ReadOn, Refuse, Planned, NextPlan,
           WriteTree, Look, MoveAside,
           MoveIn, Rollback, Restore, DropBackup, Done, Fail, Clean, Kill
      <4> QED BY <4>1, <4>2
    <3>3. ASSUME NEW t \in Places, t = Target(j) PROVE Safe(t)'
      BY <3>1, <3>3, SafeKept
    <3> QED BY <3>1, <3>2, <3>3 DEF Safe, Solid
  <2>2. CASE pc[j] # "drop"
    <3>1. j = i /\ MoveIn(i)
      <4>1. j = i
        BY <1>2, <2>2, OthersSame
      <4>2. ~Plan(i) /\ ~ReadOn(i) /\ ~Refuse(i) /\ ~Planned(i) /\ ~NextPlan(i)
        BY <2>2, <4>1 DEF Plan, ReadOn, Refuse, Planned, NextPlan, GoTo, Base, TypeOK
      <4>3. ~WriteTree(i) /\ ~Look(i) /\ ~MoveAside(i) /\ ~Rollback(i) /\ ~Restore(i)
        BY <2>2, <4>1 DEF WriteTree, Look, MoveAside, Rollback, Restore, GoTo, Base, TypeOK
      <4>4. ~DropBackup(i) /\ ~Done(i) /\ ~Fail(i) /\ ~Clean(i) /\ ~Kill(i)
        BY <2>2, <4>1 DEF DropBackup, Done, Fail, Clean, Kill, GoTo, Base, TypeOK
      <4> QED BY <1>2, <4>1, <4>2, <4>3, <4>4 DEF InstallerStep
    <3>2. dest'[Target(j)'] # Absent
      <4>1. dest' = [dest EXCEPT ![Target(i)] = Package[i]] /\ Package[i] # Absent
        BY <3>1, Moved
      <4>2. Target(i)' = Target(i) /\ Target(i) \in Places
        BY <3>1, Moved
      <4>3. Target(i)' \in Places /\ dest'[Target(i)'] = Package[i]
        BY <4>1, <4>2 DEF Base, TypeOK
      <4> QED BY <3>1, <4>1, <4>3
    <3> QED BY <3>2 DEF Safe
  <2> QED BY <2>1, <2>2
<1> QED BY <1>1, <1>2 DEF Next, InstallerStep

\* Of what a target held something whole is always left, wherever the renames
\* of any number of installers fail or are cut short.
THEOREM NothingGoesMissing == Spec => NothingLost
<1>1. Init => DropInv
  BY DEF Init, DropInv
<1>2. Base /\ DropInv /\ [Next]_vars => [\A t \in Places : Kept(t) => Kept(t)']_vars
  <2> SUFFICES ASSUME Base, DropInv, [Next]_vars, NEW t \in Places, Kept(t) PROVE Kept(t)'
    OBVIOUS
  <2>1. Safe(t)
    BY DEF Kept, Safe, Solid, DropInv
  <2>2. Safe(t)'
    BY <2>1, SafeKept
  <2> QED BY <2>2 DEF Kept, Safe, Solid
<1> QED BY BaseInit, BaseStep, DropStep, <1>1, <1>2, PTL DEF Spec, NothingLost

-----------------------------------------------------------------------------
(* Without --force nobody's directory is touched.                          *)

\* The targets an installer has planned or dealt with, and among them those it
\* means to replace.
InHand(i) == {plan[i][n].target : n \in 1 .. Len(plan[i])} \union results[i]
ToReplace(i) == {plan[i][n].target : n \in {m \in 1 .. Len(plan[i]) : plan[i][m].change}}

\* A target comes into an installer's hands when it is planned.
LEMMA InHandStep ==
    ASSUME Base, NEW i \in Installers, InstallerStep(i)
    PROVE  /\ \A t \in InHand(i)' : t \in InHand(i) \/ (Plan(i) /\ t = Head(todo[i]))
           /\ \A t \in ToReplace(i)' :
                 t \in ToReplace(i) \/ (Plan(i) /\ t = Head(todo[i]) /\ Decided(i, t, TRUE))
<1>0. plan[i] \in Seq(PlanStep)
  BY DEF Base, TypeOK, PlanStep
<1>1. CASE UNCHANGED <<plan, results>>
  BY <1>1 DEF InHand, ToReplace
<1>2. CASE Plan(i)
  <2>1. PICK s \in PlanStep :
           /\ plan'[i] = Append(plan[i], s) /\ results' = results
           /\ s.target = Head(todo[i]) /\ Decided(i, Head(todo[i]), s.change)
    <3>1. PICK change \in BOOLEAN :
             LET step == [target |-> Head(todo[i]), change |-> change] IN
             /\ step \in PlanStep /\ step.target = Head(todo[i]) /\ step.change = change
             /\ Decided(i, Head(todo[i]), change)
             /\ plan'[i] = Append(plan[i], step) /\ UNCHANGED results
      BY <1>2, PlanMade DEF Base
    <3> QED BY <3>1
  <2>2. ASSUME NEW n \in 1 .. Len(plan'[i])
        PROVE  \/ n \in 1 .. Len(plan[i]) /\ plan'[i][n] = plan[i][n]
               \/ plan'[i][n] = s
    BY <1>0, <2>1, AppendProperties, LenProperties
  <2>3. \A t \in InHand(i)' : t \in InHand(i) \/ t = Head(todo[i])
    BY <2>1, <2>2 DEF InHand
  <2>4. ASSUME NEW t \in ToReplace(i)'
        PROVE  t \in ToReplace(i) \/ (t = Head(todo[i]) /\ Decided(i, t, TRUE))
    <3>1. PICK n \in 1 .. Len(plan'[i]) : t = plan'[i][n].target /\ plan'[i][n].change
      BY DEF ToReplace
    <3>2. CASE plan'[i][n] = s
      <4>1. s.change = TRUE
        BY <3>1, <3>2 DEF PlanStep
      <4> QED BY <2>1, <3>1, <3>2, <4>1
    <3>3. CASE n \in 1 .. Len(plan[i]) /\ plan'[i][n] = plan[i][n]
      BY <3>1, <3>3 DEF ToReplace
    <3> QED BY <2>2, <3>2, <3>3
  <2> QED BY <1>2, <2>3, <2>4
<1>3. CASE (NextPlan(i) \/ Done(i)) /\ ~UNCHANGED <<plan, results>>
  <2>1. plan[i] # <<>>
    BY <1>3 DEF NextPlan, Done, Base, BusyInv, Fits
  <2>2. plan'[i] = Tail(plan[i]) /\ results'[i] = results[i] \union {Target(i)}
    BY <1>3, <2>1 DEF NextPlan, Done, Base, TypeOK
  <2>3. /\ Len(plan[i]) \in Nat \ {0} /\ Target(i) = plan[i][1].target
        /\ Len(plan'[i]) = Len(plan[i]) - 1
        /\ \A n \in 1 .. Len(plan'[i]) : plan'[i][n] = plan[i][n + 1]
    BY <1>0, <2>1, <2>2, Rest DEF Target
  <2>4. Target(i) \in InHand(i)
    BY <2>3 DEF InHand
  <2>5. \A n \in 1 .. Len(plan'[i]) : plan'[i][n].target \in InHand(i)
    BY <2>3 DEF InHand
  <2>6. \A n \in 1 .. Len(plan'[i]) : plan'[i][n].change => plan'[i][n].target \in ToReplace(i)
    BY <2>3 DEF ToReplace
  <2>7. \A t \in InHand(i)' : t \in InHand(i)
    BY <2>2, <2>4, <2>5 DEF InHand
  <2>8. \A t \in ToReplace(i)' : t \in ToReplace(i)
    BY <2>6 DEF ToReplace
  <2> QED BY <2>7, <2>8
<1> QED BY <1>1, <1>2, <1>3 DEF InstallerStep, ReadOn, Refuse, Planned, WriteTree, Look, MoveAside, MoveIn,
       Rollback, Restore, DropBackup, Fail, Clean, Kill, NextPlan, Done

\* What is neither nothing nor ours is not replaced: it is the same files, or it
\* ends the installation at the plan.
ForeignInv ==
    force = {} =>
        \A i \in Installers :
            /\ backup[i] \notin Others
            /\ \A t \in ToReplace(i) : dest[t] \notin Others
            /\ \A t \in InHand(i) : dest[t] # Foreign

LEMMA AtWork ==
    ASSUME Base, NEW i \in Installers, MoveAside(i) \/ MoveIn(i) \/ Restore(i)
    PROVE  Target(i) \in ToReplace(i)
<1>1. plan[i] # <<>> /\ Head(plan[i]).change
  BY Moved
<1>2. plan[i] \in Seq(PlanStep)
  BY DEF Base, TypeOK, PlanStep
<1>3. Len(plan[i]) \in Nat \ {0} /\ Head(plan[i]) = plan[i][1]
  BY <1>1, <1>2, Rest
<1> QED BY <1>1, <1>3 DEF ToReplace, Target

\* So what is moved is ours.
LEMMA ForeignKept ==
    ASSUME Base, ForeignInv, force = {}, NEW i \in Installers, InstallerStep(i), NEW t \in Places
    PROVE  /\ dest[t] \in Others => dest'[t] = dest[t]
           /\ dest'[t] \in Others => dest[t] = dest'[t]
<1>0. dest \in [Places -> Whole]
  BY DEF Base, TypeOK
<1>1. ASSUME NEW c, c \notin Others, Target(i) \in Places, dest[Target(i)] \notin Others,
             dest' = [dest EXCEPT ![Target(i)] = c]
      PROVE  /\ dest[t] \in Others => dest'[t] = dest[t]
             /\ dest'[t] \in Others => dest[t] = dest'[t]
  BY <1>0, <1>1
<1>2. Absent \notin Others /\ Package[i] \notin Others
  BY Kinds DEF Others
<1>3. CASE MoveAside(i)
  <2>1. dest[Target(i)] \notin Others
    BY <1>3, AtWork DEF ForeignInv
  <2> QED BY <1>1, <1>2, <1>3, <2>1, Moved
<1>4. CASE MoveIn(i)
  <2>1. dest[Target(i)] = Absent /\ dest' = [dest EXCEPT ![Target(i)] = Package[i]] /\ Target(i) \in Places
    BY <1>4, Moved
  <2> QED BY <1>1, <1>2, <2>1
<1>5. CASE Restore(i)
  <2>1. dest[Target(i)] = Absent /\ dest' = [dest EXCEPT ![Target(i)] = backup[i]] /\ Target(i) \in Places
    BY <1>5, Moved
  <2>2. backup[i] \notin Others
    BY DEF ForeignInv
  <2> QED BY <1>1, <1>2, <2>1, <2>2
<1> QED BY <1>3, <1>4, <1>5, Untouched

LEMMA InHandType ==
    ASSUME Base, NEW i \in Installers
    PROVE  InHand(i) \subseteq Places
<1>1. plan[i] \in Seq([target : Places, change : BOOLEAN]) /\ results[i] \subseteq Places
  BY DEF Base, TypeOK
<1>2. ASSUME NEW n \in 1 .. Len(plan[i]) PROVE plan[i][n].target \in Places
  <2>1. plan[i][n] \in [target : Places, change : BOOLEAN]
    BY <1>1, ElementOfSeq
  <2> QED BY <2>1
<1> QED BY <1>1, <1>2 DEF InHand

LEMMA ForeignStep == Base /\ ForeignInv /\ [Next]_vars => ForeignInv'
<1> DEFINE Apart(j) ==
        /\ backup[j] \notin Others
        /\ \A t \in ToReplace(j) : dest[t] \notin Others
        /\ \A t \in InHand(j) : dest[t] # Foreign
<1> SUFFICES ASSUME Base, ForeignInv, [Next]_vars, force' = {}, NEW j \in Installers
             PROVE  Apart(j)'
  BY DEF ForeignInv
<1>1. CASE UNCHANGED vars
  BY <1>1 DEF vars, inputs, ForeignInv, InHand, ToReplace
<1>2. ASSUME NEW i \in Installers, InstallerStep(i) PROVE Apart(j)'
  <2>0. force = {}
    BY <1>2 DEF InstallerStep, Plan, ReadOn, Refuse, Planned, NextPlan, WriteTree, Look, MoveAside, MoveIn,
       Rollback,
       Restore, DropBackup, Done, Fail, Clean, Kill, inputs
  <2>1. backup'[j] \notin Others
    <3>0. Absent \notin Others /\ Torn \notin Others
      BY Kinds DEF Others
    <3>1. CASE j # i
      BY <1>2, <2>0, <3>1, OthersSame DEF ForeignInv
    <3>2. CASE j = i /\ MoveAside(i)
      BY <2>0, <3>2, AtWork, Moved DEF ForeignInv
    <3>3. CASE j = i /\ ~MoveAside(i)
      BY <1>2, <2>0, <3>0, <3>3 DEF ForeignInv, InstallerStep, Plan, ReadOn, Refuse, Planned, NextPlan,
         WriteTree,
         Look, MoveIn, Rollback, Restore, DropBackup, Done, Fail, Clean, Kill, Base, TypeOK
    <3> QED BY <3>1, <3>2, <3>3
  <2>2. ASSUME NEW t \in ToReplace(j)' PROVE dest'[t] \notin Others
    <3>1. CASE t \in ToReplace(j)
      <4>1. t \in Places /\ dest[t] \notin Others
        BY <2>0, <3>1, InHandType DEF ForeignInv, ToReplace, InHand
      <4> QED BY <1>2, <2>0, <4>1, ForeignKept
    <3>2. CASE t \notin ToReplace(j)
      <4>1. j = i
        BY <1>2, <2>2, <3>2, OthersSame DEF ToReplace
      <4>2. Plan(i) /\ t = Head(todo[i]) /\ Decided(i, t, TRUE)
        BY <1>2, <2>2, <3>2, <4>1, InHandStep
      <4>3. dest[t] \notin Others /\ dest' = dest
        BY <2>0, <4>2, Kinds DEF Decided, Managed, Others, Plan
      <4> QED BY <4>3
    <3> QED BY <3>1, <3>2
  <2>3. ASSUME NEW t \in InHand(j)' PROVE dest'[t] # Foreign
    <3>1. CASE t \in InHand(j)
      <4>1. t \in Places /\ dest[t] # Foreign
        BY <2>0, <3>1, InHandType DEF ForeignInv
      <4> QED BY <1>2, <2>0, <4>1, ForeignKept DEF Others
    <3>2. CASE t \notin InHand(j)
      <4>1. j = i
        BY <1>2, <2>3, <3>2, OthersSame DEF InHand
      <4>2. Plan(i) /\ t = Head(todo[i])
        BY <1>2, <2>3, <3>2, <4>1, InHandStep
      <4>3. PICK change \in BOOLEAN : Decided(i, t, change)
        BY <4>2 DEF Plan
      <4>4. dest[t] # Foreign /\ dest' = dest
        BY <2>0, <4>2, <4>3, Kinds DEF Decided, Identical, Managed, Plan
      <4> QED BY <4>4
    <3> QED BY <3>1, <3>2
  <2> QED BY <2>1, <2>2, <2>3
<1> QED BY <1>1, <1>2 DEF Next, InstallerStep

LEMMA ForeignInit == Init => ForeignInv
<1> SUFFICES ASSUME Init, NEW i \in Installers PROVE backup[i] \notin Others /\ InHand(i) = {} /\ ToReplace(i) = {}
  BY DEF ForeignInv
<1>1. Len(plan[i]) = 0
  BY EmptySeq DEF Init
<1> QED BY <1>1, Kinds DEF Init, InHand, ToReplace, Others

\* A directory or link that bears no marker of ours stays as it is unless some
\* installer was told --force, whoever fails or dies half-way, whatever its files.
THEOREM ForeignIsLeftAlone == Spec => ForeignStays
<1>1. Base /\ ForeignInv /\ [Next]_vars
      => [force = {} => \A t \in Places : dest[t] \in Others => dest'[t] = dest[t]]_vars
  BY ForeignKept DEF Next, InstallerStep
<1> QED BY BaseInit, BaseStep, ForeignInit, ForeignStep, <1>1, PTL DEF Spec, ForeignStays

-----------------------------------------------------------------------------
(* Where a skill was reported there is one.                                *)

\* Something is at t, or an installer that will put it, or its own, there has it.
There(t) ==
    \/ dest[t] # Absent
    \/ \E k \in Installers : pc[k] \in {"in", "rollback", "restore"} /\ Target(k) = t /\ backup[k] # Absent

LEMMA ThereKept ==
    ASSUME Base, [Next]_vars, trouble \subseteq {"io"}, NEW t \in Places, There(t)
    PROVE  There(t)'
<1>1. CASE UNCHANGED vars
  BY <1>1 DEF vars, There, Target
<1>2. ASSUME NEW i \in Installers, InstallerStep(i) PROVE There(t)'
  <2>1. CASE dest[t] # Absent
    <3>1. CASE MoveAside(i) /\ Target(i) = t
      BY <2>1, <3>1, Moved DEF There
    <3>2. CASE ~(MoveAside(i) /\ Target(i) = t)
      <4>1. dest'[t] # Absent
        <5>1. CASE MoveAside(i)
          BY <2>1, <3>2, <5>1, MovedTo
        <5>2. CASE MoveIn(i)
          BY <2>1, <5>2, MovedTo
        <5>3. CASE Restore(i)
          BY <2>1, <5>3, MovedTo
        <5> QED BY <1>2, <2>1, <5>1, <5>2, <5>3, Untouched
      <4> QED BY <4>1 DEF There
    <3> QED BY <3>1, <3>2
  <2>2. ASSUME NEW k \in Installers, pc[k] \in {"in", "rollback", "restore"}, Target(k) = t, backup[k] # Absent,
               dest[t] = Absent
        PROVE  There(t)'
    <3>1. CASE k # i
      BY <1>2, <2>2, <3>1, OthersSame DEF There
    <3>2. CASE k = i /\ (MoveIn(i) \/ Restore(i))
      <4>1. dest'[t] # Absent
        <5>1. CASE MoveIn(i)
          BY <2>2, <3>2, <5>1, MovedTo
        <5>2. CASE Restore(i)
          BY <2>2, <3>2, <5>2, Moved DEF Base, TypeOK
        <5> QED BY <3>2, <5>1, <5>2
      <4> QED BY <4>1 DEF There
    <3>3. CASE k = i /\ ~MoveIn(i) /\ ~Restore(i)
      <4>1. (Fail(i) /\ pc[i] = "in") \/ (Rollback(i) /\ pc[i] = "rollback")
        BY <1>2, <2>2, <3>3, PlanMade DEF InstallerStep, ReadOn, Refuse, Planned, NextPlan, WriteTree, Look,
           MoveAside, Rollback, DropBackup, Done, Clean, Kill, Fail, MayFail, Base
      <4>2. pc'[i] \in {"rollback", "restore"} /\ Target(i)' = Target(i) /\ backup' = backup
        BY <2>2, <3>3, <4>1 DEF Fail, Rollback, GoTo, Target, Base, TypeOK
      <4> QED BY <2>2, <3>3, <4>2 DEF There
    <3> QED BY <3>1, <3>2, <3>3
  <2> QED BY <2>1, <2>2 DEF There
<1> QED BY <1>1, <1>2 DEF Next, InstallerStep

\* The targets an installer reports, or will report without a further move.
Settled(i) ==
    results[i]
      \union {t \in {Target(i)} : pc[i] \in {"drop", "done"}}
      \union {plan[i][n].target : n \in {m \in 1 .. Len(plan[i]) : ~plan[i][m].change}}

ThereInv ==
    \A i \in Installers : \A t \in Settled(i) : Safe(t) /\ (trouble \subseteq {"io"} => There(t))

LEMMA SettledType ==
    ASSUME Base, NEW i \in Installers
    PROVE  Settled(i) \subseteq Places
<1>1. plan[i] \in Seq([target : Places, change : BOOLEAN]) /\ results[i] \subseteq Places
  BY DEF Base, TypeOK
<1>2. ASSUME NEW n \in 1 .. Len(plan[i]) PROVE plan[i][n].target \in Places
  <2>1. plan[i][n] \in [target : Places, change : BOOLEAN]
    BY <1>1, ElementOfSeq
  <2> QED BY <2>1
<1>3. pc[i] \in {"drop", "done"} => Target(i) \in Places
  BY TargetType DEF Base, BusyInv, Fits
<1> QED BY <1>1, <1>2, <1>3 DEF Settled

\* A target becomes settled when it is planned identical or moved in.
LEMMA SettledStep ==
    ASSUME Base, NEW i \in Installers, InstallerStep(i), NEW t \in Settled(i)'
    PROVE  \/ t \in Settled(i)
           \/ Plan(i) /\ t = Head(todo[i]) /\ Identical(i, t)
           \/ MoveIn(i) /\ t = Target(i)
<1>0. plan[i] \in Seq(PlanStep)
  BY DEF Base, TypeOK, PlanStep
<1>1. CASE UNCHANGED <<plan, results>>
  <2>1. Target(i)' = Target(i)
    BY <1>1 DEF Target
  <2>2. CASE MoveIn(i)
    BY <1>1, <2>1, <2>2 DEF Settled
  <2>3. CASE ~MoveIn(i)
    <3>1. pc'[i] \in {"drop", "done"} => pc[i] \in {"drop", "done"}
      BY <2>3 DEF InstallerStep, Plan, ReadOn, Refuse, Planned, NextPlan, WriteTree, Look, MoveAside,
         Rollback, Restore,
         DropBackup, Done, Fail, Clean, Kill, GoTo, Ended, Base, TypeOK
    <3> QED BY <1>1, <2>1, <3>1 DEF Settled
  <2> QED BY <2>2, <2>3
<1>2. CASE Plan(i)
  <2>1. PICK s \in PlanStep :
           /\ plan'[i] = Append(plan[i], s) /\ results' = results /\ pc'[i] = "plan"
           /\ s.target = Head(todo[i]) /\ Decided(i, Head(todo[i]), s.change)
    <3>1. PICK change \in BOOLEAN :
             LET step == [target |-> Head(todo[i]), change |-> change] IN
             /\ step \in PlanStep /\ step.target = Head(todo[i]) /\ step.change = change
             /\ Decided(i, Head(todo[i]), change) /\ pc'[i] = "plan"
             /\ plan'[i] = Append(plan[i], step) /\ UNCHANGED results
      BY <1>2, PlanMade DEF Base
    <3> QED BY <3>1
  <2>2. ASSUME NEW n \in 1 .. Len(plan'[i]), t = plan'[i][n].target, ~plan'[i][n].change
        PROVE  t \in Settled(i) \/ (t = Head(todo[i]) /\ Identical(i, t))
    <3>1. CASE n \in 1 .. Len(plan[i]) /\ plan'[i][n] = plan[i][n]
      BY <2>2, <3>1 DEF Settled
    <3>2. CASE plan'[i][n] = s
      BY <2>1, <2>2, <3>2 DEF Decided
    <3> QED BY <1>0, <2>1, <3>1, <3>2, AppendProperties, LenProperties
  <2> QED BY <1>2, <2>1, <2>2 DEF Settled
<1>3. CASE (NextPlan(i) \/ Done(i)) /\ ~UNCHANGED <<plan, results>>
  <2>1. plan[i] # <<>>
    BY <1>3 DEF NextPlan, Done, Base, BusyInv, Fits
  <2>2. plan'[i] = Tail(plan[i]) /\ results'[i] = results[i] \union {Target(i)}
    BY <1>3, <2>1 DEF NextPlan, Done, Base, TypeOK
  <2>3. /\ Len(plan[i]) \in Nat \ {0} /\ Target(i) = plan[i][1].target /\ Head(plan[i]) = plan[i][1]
        /\ Len(plan'[i]) = Len(plan[i]) - 1
        /\ \A n \in 1 .. Len(plan'[i]) : plan'[i][n] = plan[i][n + 1]
    BY <1>0, <2>1, <2>2, Rest DEF Target
  <2>4. Target(i) \in Settled(i)
    <3>1. pc[i] = "done" \/ ~Head(plan[i]).change
      BY <1>3, <2>1 DEF NextPlan, Done
    <3> QED BY <2>3, <3>1 DEF Settled
  <2>5. \A n \in 1 .. Len(plan'[i]) : ~plan'[i][n].change => plan'[i][n].target \in Settled(i)
    BY <2>3 DEF Settled
  <2>6. pc'[i] \notin {"drop", "done"}
    BY <1>3, <2>1 DEF NextPlan, Done, GoTo, Base, TypeOK
  <2> QED BY <2>2, <2>4, <2>5, <2>6 DEF Settled
<1> QED BY <1>1, <1>2, <1>3 DEF InstallerStep, ReadOn, Refuse, Planned, WriteTree, Look, MoveAside, MoveIn,
       Rollback, Restore,
       DropBackup, Fail, Clean, Kill, NextPlan, Done

LEMMA ThereStep == Base /\ DropInv /\ ThereInv /\ [Next]_vars => ThereInv'
<1> SUFFICES ASSUME Base, ThereInv, [Next]_vars, NEW j \in Installers, NEW t \in Settled(j)'
             PROVE  Safe(t)' /\ (trouble' \subseteq {"io"} => There(t)')
  BY DEF ThereInv
<1>1. CASE UNCHANGED vars
  <2>1. trouble' = trouble /\ t \in Settled(j)
    BY <1>1 DEF vars, inputs, Settled, Target
  <2>2. Safe(t)' = Safe(t) /\ There(t)' = There(t)
    BY <1>1 DEF vars, Safe, Solid, There, Target
  <2> QED BY <2>1, <2>2 DEF ThereInv
<1>2. ASSUME NEW i \in Installers, InstallerStep(i)
      PROVE  Safe(t)' /\ (trouble' \subseteq {"io"} => There(t)')
  <2>0. trouble' = trouble
    BY <1>2 DEF InstallerStep, Plan, ReadOn, Refuse, Planned, NextPlan, WriteTree, Look, MoveAside, MoveIn,
       Rollback,
       Restore, DropBackup, Done, Fail, Clean, Kill, inputs
  <2>1. CASE t \in Settled(j)
    <3>1. t \in Places /\ Safe(t) /\ (trouble \subseteq {"io"} => There(t))
      BY <2>1, SettledType DEF ThereInv
    <3>2. Safe(t)'
      BY <3>1, SafeKept
    <3> QED BY <2>0, <3>1, <3>2, ThereKept
  <2>2. CASE t \notin Settled(j)
    <3>1. j = i
      BY <1>2, <2>2, OthersSame DEF Settled
    <3>2. dest'[t] # Absent
      <4>1. CASE Plan(i) /\ t = Head(todo[i]) /\ Identical(i, t)
        BY <4>1, Kinds DEF Plan, Identical
      <4>2. CASE MoveIn(i) /\ t = Target(i)
        BY <4>2, Moved DEF Base, TypeOK
      <4> QED BY <1>2, <2>2, <3>1, <4>1, <4>2, SettledStep
    <3> QED BY <3>2 DEF Safe, There
  <2> QED BY <2>1, <2>2
<1> QED BY <1>1, <1>2 DEF Next, InstallerStep

LEMMA ThereInit == Init => ThereInv
<1> SUFFICES ASSUME Init, NEW i \in Installers PROVE Settled(i) = {}
  BY DEF ThereInv
<1>1. Len(plan[i]) = 0
  BY EmptySeq DEF Init
<1> QED BY <1>1 DEF Init, Settled

\* When all installers have ended, every target that one of them reported holds
\* something, if nobody was killed and no rename failed that should undo another;
\* else something whole of it is left, in its place or aside.  And what is there
\* are the files of a skill of ours if nobody said --force.
THEOREM ReportsAreKept == Spec => []ReportedIsThere
<1>1. Base /\ DropInv /\ ForeignInv /\ ThereInv => ReportedIsThere
  <2> SUFFICES ASSUME Base, DropInv, ForeignInv, ThereInv, AllEnded,
                      NEW i \in Installers, NEW t \in results[i]
               PROVE  /\ trouble \subseteq {"io"} => dest[t] # Absent
                      /\ Kept(t)
                      /\ force = {} => dest[t] # Foreign
    BY DEF ReportedIsThere
  <2>1. Safe(t) /\ (trouble \subseteq {"io"} => There(t))
    BY DEF ThereInv, Settled
  <2>2. trouble \subseteq {"io"} => dest[t] # Absent
    BY <2>1 DEF There, AllEnded, Ended
  <2>3. Kept(t)
    BY <2>1 DEF Kept, Safe, Solid
  <2>4. force = {} => dest[t] # Foreign
    BY DEF ForeignInv, InHand
  <2> QED BY <2>2, <2>3, <2>4
<1>2. Init => DropInv
  BY DEF Init, DropInv
<1> QED BY BaseInit, BaseStep, DropStep, ForeignInit, ForeignStep, ThereInit, ThereStep, <1>1, <1>2,
       PTL DEF Spec

-----------------------------------------------------------------------------
(* Installers do not all make each other fail.                             *)

Planning == {"plan", "compare", "judge", "conflict", "killed"}

\* The number of targets an installer has left, the one in its hands included.
Left(i) == Len(plan[i])

\* The steps p are for the first targets and q has the others; the steps p
\* are for the last targets.
FirstOnes(p, q) ==
    /\ Len(p) + Len(q) = Len(Targets)
    /\ \A n \in 1 .. Len(p) : p[n].target = Targets[n]
    /\ \A n \in 1 .. Len(q) : q[n] = Targets[Len(p) + n]
LastOnes(p) ==
    /\ Len(p) <= Len(Targets)
    /\ \A n \in 1 .. Len(p) : p[n].target = Targets[Len(Targets) - Len(p) + n]

LEMMA OneMore ==
    ASSUME NEW p \in Seq(PlanStep), NEW q \in Seq(Places), NEW s \in PlanStep,
           q # <<>>, FirstOnes(p, q), s.target = Head(q)
    PROVE  FirstOnes(Append(p, s), Tail(q))
<1> DEFINE p2 == Append(p, s)
           q2 == Tail(q)
<1>1. /\ Len(p) \in Nat /\ Len(q) \in Nat /\ Len(q) >= 1 /\ Len(Targets) \in Nat
      /\ Len(q2) = Len(q) - 1
  BY Rest, LenProperties, Kinds
<1>2. Head(q) = q[1] /\ \A n \in 1 .. Len(q2) : q2[n] = q[n + 1]
  BY Rest
<1>3. Len(p2) = Len(p) + 1
  BY AppendProperties
<1>4. p2[Len(p) + 1] = s /\ \A n \in 1 .. Len(p) : p2[n] = p[n]
  BY AppendProperties
<1>5. Len(p) + Len(q) = Len(Targets)
  BY DEF FirstOnes
<1>6. \A n \in 1 .. Len(p) : p[n].target = Targets[n]
  BY DEF FirstOnes
<1>7. \A n \in 1 .. Len(q) : q[n] = Targets[Len(p) + n]
  BY DEF FirstOnes
<1> HIDE DEF p2, q2
<1>8. Len(p2) + Len(q2) = Len(Targets)
  BY <1>1, <1>3, <1>5
<1>9. ASSUME NEW n \in 1 .. Len(p2) PROVE p2[n].target = Targets[n]
  <2>1. CASE n = Len(p) + 1
    <3>1. q[1] = Targets[Len(p) + 1]
      BY <1>1, <1>7
    <3> QED BY <1>2, <1>4, <2>1, <3>1
  <2>2. CASE n # Len(p) + 1
    <3>1. n \in 1 .. Len(p)
      BY <1>1, <1>3, <2>2
    <3> QED BY <1>4, <1>6, <3>1
  <2> QED BY <2>1, <2>2
<1>10. ASSUME NEW n \in 1 .. Len(q2) PROVE q2[n] = Targets[Len(p2) + n]
  <2>1. n + 1 \in 1 .. Len(q) /\ Len(p) + (n + 1) = Len(p2) + n
    BY <1>1, <1>3
  <2>2. q[n + 1] = Targets[Len(p) + (n + 1)]
    BY <1>7, <2>1
  <2> QED BY <1>2, <2>1, <2>2
<1>11. FirstOnes(p2, q2)
  BY <1>8, <1>9, <1>10 DEF FirstOnes
<1> QED BY <1>11 DEF p2, q2

LEMMA AllPlanned ==
    ASSUME NEW p \in Seq(PlanStep), FirstOnes(p, <<>>)
    PROVE  LastOnes(p)
<1>1. Len(p) \in Nat /\ Len(Targets) \in Nat /\ Len(<<>>) = 0
  BY LenProperties, Kinds, EmptySeq
<1>2. Len(p) + 0 = Len(Targets)
  BY <1>1 DEF FirstOnes
<1>3. Len(p) = Len(Targets) /\ \A n \in 1 .. Len(p) : Len(Targets) - Len(p) + n = n
  BY <1>1, <1>2
<1>4. \A n \in 1 .. Len(p) : p[n].target = Targets[n]
  BY DEF FirstOnes
<1> QED BY <1>1, <1>3, <1>4 DEF LastOnes

LEMMA OneLess ==
    ASSUME NEW p \in Seq(PlanStep), p # <<>>, LastOnes(p)
    PROVE  /\ LastOnes(Tail(p))
           /\ Head(p).target = Targets[Len(Targets) - Len(p) + 1]
<1> DEFINE p2 == Tail(p)
<1>1. /\ Len(p) \in Nat /\ Len(p) >= 1 /\ Len(Targets) \in Nat
      /\ Head(p) = p[1] /\ Len(p2) = Len(p) - 1
  BY Rest, LenProperties, Kinds
<1>2. \A n \in 1 .. Len(p2) : p2[n] = p[n + 1]
  BY Rest
<1>3. Len(p) <= Len(Targets)
  BY DEF LastOnes
<1>4. \A n \in 1 .. Len(p) : p[n].target = Targets[Len(Targets) - Len(p) + n]
  BY DEF LastOnes
<1> HIDE DEF p2
<1>5. ASSUME NEW n \in 1 .. Len(p2) PROVE p2[n].target = Targets[Len(Targets) - Len(p2) + n]
  <2>1. n + 1 \in 1 .. Len(p) /\ Len(Targets) - Len(p) + (n + 1) = Len(Targets) - Len(p2) + n
    BY <1>1
  <2>2. p[n + 1].target = Targets[Len(Targets) - Len(p) + (n + 1)]
    BY <1>4, <2>1
  <2> QED BY <1>2, <2>1, <2>2
<1>6. Len(p2) <= Len(Targets)
  BY <1>1, <1>3
<1>7. LastOnes(p2)
  BY <1>5, <1>6 DEF LastOnes
<1>8. 1 \in 1 .. Len(p)
  BY <1>1
<1> QED BY <1>1, <1>4, <1>7, <1>8 DEF p2

\* Every installer takes the targets in the same order.
OrderInv ==
    \A i \in Installers :
        /\ pc[i] \in Planning \ {"killed"} => FirstOnes(plan[i], todo[i])
        /\ pc[i] \notin Planning => todo[i] = <<>> /\ LastOnes(plan[i])

LEMMA OrderInit == Init => OrderInv
<1>1. FirstOnes(<<>>, Targets)
  <2>1. Len(Targets) \in Nat /\ Len(<<>>) = 0
    BY Kinds, LenProperties, EmptySeq
  <2> QED BY <2>1 DEF FirstOnes
<1> QED BY <1>1 DEF Init, OrderInv, Planning

LEMMA OrderStep == Base /\ OrderInv /\ [Next]_vars => OrderInv'
<1> SUFFICES ASSUME Base, OrderInv, [Next]_vars, NEW j \in Installers
             PROVE  /\ pc'[j] \in Planning \ {"killed"} => FirstOnes(plan'[j], todo'[j])
                    /\ pc'[j] \notin Planning => todo'[j] = <<>> /\ LastOnes(plan'[j])
  BY DEF OrderInv, FirstOnes, LastOnes
<1>0. /\ pc[j] \in Planning \ {"killed"} => FirstOnes(plan[j], todo[j])
      /\ pc[j] \notin Planning => todo[j] = <<>> /\ LastOnes(plan[j])
  BY DEF OrderInv
<1>s. plan[j] \in Seq(PlanStep) /\ todo[j] \in Seq(Places)
  BY DEF Base, TypeOK, PlanStep
<1>1. CASE UNCHANGED vars
  BY <1>0, <1>1 DEF vars
<1>2. ASSUME NEW i \in Installers, InstallerStep(i), i # j
      PROVE  plan'[j] = plan[j] /\ todo'[j] = todo[j] /\ pc'[j] = pc[j]
  BY <1>2, OthersSame
<1>3. CASE Plan(j)
  <2>1. PICK s \in PlanStep :
           /\ plan'[j] = Append(plan[j], s) /\ todo'[j] = Tail(todo[j]) /\ todo[j] # <<>>
           /\ s.target = Head(todo[j]) /\ pc[j] \in {"plan", "compare", "judge"} /\ pc'[j] = "plan"
    <3>1. PICK change \in BOOLEAN :
             LET step == [target |-> Head(todo[j]), change |-> change] IN
             /\ step \in PlanStep /\ step.target = Head(todo[j]) /\ todo[j] # <<>>
             /\ pc[j] \in {"plan", "compare", "judge"} /\ pc'[j] = "plan"
             /\ plan'[j] = Append(plan[j], step) /\ todo'[j] = Tail(todo[j])
      BY <1>3, PlanMade DEF Base
    <3> QED BY <3>1
  <2> QED BY <1>0, <1>s, <2>1, OneMore DEF Planning
<1>4. CASE Planned(j)
  <2>1. UNCHANGED <<plan, todo>> /\ pc[j] = "plan" /\ pc'[j] = "next" /\ todo[j] = <<>>
    BY <1>4 DEF Planned, GoTo, Base, TypeOK
  <2> QED BY <1>0, <1>s, <2>1, AllPlanned DEF Planning
<1>5. CASE (NextPlan(j) \/ Done(j)) /\ plan[j] # <<>> /\ ~UNCHANGED plan
  <2>1. /\ plan'[j] = Tail(plan[j]) /\ todo' = todo
        /\ pc[j] \notin Planning /\ pc'[j] \notin {"plan", "compare", "judge", "conflict"}
    BY <1>5 DEF NextPlan, Done, Base, TypeOK, GoTo, Planning
  <2> QED BY <1>0, <1>5, <1>s, <2>1, OneLess DEF Planning
<1>6. CASE InstallerStep(j) /\ ~Plan(j) /\ ~Planned(j)
           /\ ~((NextPlan(j) \/ Done(j)) /\ plan[j] # <<>> /\ ~UNCHANGED plan)
  <2>1. UNCHANGED <<plan, todo>>
    BY <1>6 DEF InstallerStep, ReadOn, Refuse, NextPlan, WriteTree, Look, MoveAside, MoveIn, Rollback,
       Restore, DropBackup, Done,
       Fail, Clean, Kill, Base, BusyInv, Fits
  <2>2. \/ pc[j] \in {"plan", "compare", "judge"} /\ pc'[j] \in {"compare", "judge", "conflict", "killed"}
        \/ pc[j] \notin Planning /\ (pc'[j] \notin Planning \/ pc'[j] = "killed")
    <3>1. CASE NextPlan(j)
      <4>1. pc[j] \notin Planning
        BY <3>1 DEF NextPlan, Planning
      <4>2. todo[j] = <<>>
        BY <1>0, <4>1
      <4> QED BY <3>1, <4>1, <4>2 DEF NextPlan, GoTo, Planning, Base, TypeOK
    <3>2. CASE MoveIn(j) \/ DropBackup(j)
      BY <3>2 DEF MoveIn, DropBackup, GoTo, Planning, Base, TypeOK
    <3>3. CASE Fail(j) \/ Kill(j)
      BY <3>3 DEF Fail, MayFail, Kill, Ended, GoTo, Planning, Base, TypeOK
    <3>4. CASE ReadOn(j) \/ Refuse(j) \/ WriteTree(j) \/ Look(j) \/ MoveAside(j) \/ Rollback(j)
              \/ Restore(j) \/ Done(j) \/ Clean(j)
      BY <3>4 DEF ReadOn, Refuse, WriteTree, Look, MoveAside, Rollback, Restore, Done, Clean, GoTo, Planning,
         Base, TypeOK
    <3> QED BY <1>6, <3>1, <3>2, <3>3, <3>4 DEF InstallerStep
  <2> QED BY <1>0, <2>1, <2>2 DEF Planning
<1> QED BY <1>0, <1>1, <1>2, <1>3, <1>4, <1>5, <1>6 DEF Next, InstallerStep

\* So who is at the same target has the same number of targets left.
LEMMA SameTarget ==
    ASSUME Base, OrderInv, NEW i \in Installers, NEW k \in Installers,
           pc[i] \notin Planning, pc[k] \notin Planning, plan[i] # <<>>, plan[k] # <<>>,
           Target(i) = Target(k)
    PROVE  Left(i) = Left(k)
<1> DEFINE Nth(l) == Len(Targets) - Left(l) + 1
<1>1. DOMAIN Targets = 1 .. Len(Targets) /\ Len(Targets) \in Nat
  BY Kinds, LenProperties
<1>2. ASSUME NEW l \in {i, k}
      PROVE  Target(l) = Targets[Nth(l)] /\ Nth(l) \in DOMAIN Targets /\ Left(l) \in Nat
  <2>1. plan[l] \in Seq(PlanStep) /\ plan[l] # <<>> /\ LastOnes(plan[l])
    BY DEF Base, TypeOK, PlanStep, OrderInv
  <2>2. Left(l) \in Nat /\ Left(l) >= 1
    BY <2>1, Rest DEF Left
  <2>3. Left(l) <= Len(Targets)
    BY <2>1 DEF LastOnes, Left
  <2>4. Nth(l) \in 1 .. Len(Targets)
    BY <1>1, <2>2, <2>3
  <2>5. Target(l) = Targets[Nth(l)]
    BY <2>1, OneLess DEF Target, Left
  <2> QED BY <1>1, <2>2, <2>4, <2>5
<1>3. Nth(i) = Nth(k)
  BY <1>2, TargetsAssumption
<1> QED BY <1>1, <1>2, <1>3

\* k still goes on, and is past the n-th target from the end.
Alive(i) == pc[i] \notin Planning \union {"rollback", "restore", "clean", "failed"}
Ahead(k, n) == Alive(k) /\ (Left(k) < n \/ (Left(k) = n /\ pc[k] \in {"drop", "done"}))
Passed(n) == \E k \in Installers : Ahead(k, n)

\* Someone found or made that target empty and has yet to move its tree in.
Empty(n) == \E k \in Installers : pc[k] = "in" /\ Left(k) = n

\* Who fails was overtaken by an installer that goes on.
RaceInv ==
    trouble = {} =>
        \A i \in Installers :
            /\ pc[i] # "killed"
            /\ pc[i] = "aside" => dest[Target(i)] # Absent \/ Empty(Left(i)) \/ Passed(Left(i))
            /\ pc[i] = "in" => dest[Target(i)] = Absent \/ Passed(Left(i))
            /\ pc[i] \in {"rollback", "restore"} => Passed(Left(i))
            /\ pc[i] \in {"clean", "failed"} => Empty(Left(i)) \/ Passed(Left(i))

LEMMA LeftType ==
    ASSUME Base, NEW i \in Installers
    PROVE  Left(i) \in Nat
BY LenProperties DEF Base, TypeOK, Left

\* Where a call fails only because another was faster.
LEMMA Overtaken ==
    ASSUME Base, RaceInv, trouble = {}, NEW i \in Installers, Fail(i)
    PROVE  /\ \/ pc[i] = "aside" /\ pc'[i] = "clean" /\ (Empty(Left(i)) \/ Passed(Left(i)))
              \/ pc[i] = "in" /\ pc'[i] = "rollback" /\ Passed(Left(i))
              \/ pc[i] = "restore" /\ pc'[i] = "clean" /\ Passed(Left(i))
           /\ UNCHANGED <<plan, dest>>
           /\ Left(i)' = Left(i)
<1>1. \/ pc[i] = "aside" /\ dest[Target(i)] = Absent
      \/ pc[i] \in {"in", "restore"} /\ dest[Target(i)] # Absent
  BY DEF Fail, MayFail
<1>2. UNCHANGED <<plan, dest>> /\ pc'[i] = IF pc[i] = "in" THEN "rollback" ELSE "clean"
  BY DEF Fail, GoTo, Base, TypeOK
<1>3. Left(i)' = Left(i)
  BY <1>2 DEF Left
<1> QED BY <1>1, <1>2, <1>3 DEF RaceInv

\* A step of an installer that does not fail leaves it going on, with no more
\* targets left, and past the one it has moved in.
LEMMA GoesOn ==
    ASSUME Base, OrderInv, trouble = {}, NEW i \in Installers, InstallerStep(i), ~Fail(i), Alive(i)
    PROVE  /\ Alive(i)'
           /\ \/ Left(i)' < Left(i)
              \/ Left(i)' = Left(i) /\ (pc[i] \in {"in", "drop", "done"} => pc'[i] \in {"drop", "done"})
<1>1. plan[i] # <<>> /\ plan'[i] = Tail(plan[i]) => Left(i)' < Left(i)
  <2>1. plan[i] \in Seq(PlanStep)
    BY DEF Base, TypeOK, PlanStep
  <2>2. plan[i] # <<>> => Len(plan[i]) \in Nat /\ Len(Tail(plan[i])) = Len(plan[i]) - 1
    BY <2>1, Rest
  <2> QED BY <2>2 DEF Left
<1>2. CASE NextPlan(i)
  <2>1. pc[i] = "next" /\ todo[i] = <<>>
    BY <1>2 DEF NextPlan, OrderInv, Planning
  <2>2. CASE plan[i] = <<>>
    <3>1. pc'[i] = "installed" /\ plan' = plan
      BY <1>2, <2>1, <2>2 DEF NextPlan, GoTo, Base, TypeOK
    <3> QED BY <2>1, <3>1 DEF Alive, Planning, Left
  <2>3. CASE plan[i] # <<>> /\ Head(plan[i]).change
    <3>1. pc'[i] = "write" /\ plan' = plan
      BY <1>2, <2>3 DEF NextPlan, GoTo, Base, TypeOK
    <3> QED BY <2>1, <3>1 DEF Alive, Planning, Left
  <2>4. CASE plan[i] # <<>> /\ ~Head(plan[i]).change
    <3>1. pc' = pc /\ plan'[i] = Tail(plan[i])
      BY <1>2, <2>4 DEF NextPlan, Base, TypeOK
    <3> QED BY <1>1, <2>1, <2>4, <3>1 DEF Alive, Planning
  <2> QED BY <2>2, <2>3, <2>4
<1>3. CASE Done(i)
  <2>1. plan[i] # <<>> /\ plan'[i] = Tail(plan[i]) /\ pc'[i] = "next"
    BY <1>3 DEF Done, GoTo, Base, BusyInv, Fits, TypeOK
  <2> QED BY <1>1, <2>1 DEF Alive, Planning
<1>4. CASE WriteTree(i) \/ Look(i) \/ MoveAside(i) \/ MoveIn(i) \/ DropBackup(i)
  <2>1. plan' = plan
    BY <1>4 DEF WriteTree, Look, MoveAside, MoveIn, DropBackup
  <2>2. /\ pc'[i] \in {"look", "in", "aside", "drop", "done"}
        /\ pc[i] \in {"in", "drop", "done"} => pc'[i] \in {"drop", "done"}
    BY <1>4 DEF WriteTree, Look, MoveAside, MoveIn, DropBackup, GoTo, Base, TypeOK
  <2> QED BY <2>1, <2>2 DEF Alive, Planning, Left
<1>5. /\ ~Plan(i) /\ ~ReadOn(i) /\ ~Refuse(i) /\ ~Planned(i)
      /\ ~Rollback(i) /\ ~Restore(i) /\ ~Clean(i) /\ ~Kill(i)
  BY DEF Alive, Planning, Plan, Decided, ReadOn, Refuse, Planned, Rollback, Restore, Clean, Kill
<1> QED BY <1>2, <1>3, <1>4, <1>5 DEF InstallerStep

\* Who is past a target may fail at a later one, but then it was overtaken too.
LEMMA PassedKept ==
    ASSUME Base, OrderInv, RaceInv, trouble = {}, NEW i \in Installers, InstallerStep(i), NEW n \in Nat, Passed(n)
    PROVE  Passed(n)'
<1>1. PICK k \in Installers : Ahead(k, n)
  BY DEF Passed
<1>2. CASE k # i
  <2>1. Ahead(k, n)'
    BY <1>1, <1>2, OthersSame DEF Ahead, Alive, Left
  <2> QED BY <2>1 DEF Passed
<1>3. CASE k = i /\ ~Fail(i)
  <2>1. Ahead(k, n)'
    <3>1. Left(i) \in Nat /\ Left(i)' \in Nat
      BY BaseStep, LeftType DEF Next, InstallerStep, Base, TypeOK, Left
    <3> QED BY <1>1, <1>3, <3>1, GoesOn DEF Ahead
  <2> QED BY <2>1 DEF Passed
<1>4. CASE k = i /\ Fail(i)
  <2>1. pc[i] \in {"aside", "in", "restore"} /\ (Empty(Left(i)) \/ Passed(Left(i))) /\ (pc[i] = "in" => Passed(Left(i)))
    BY <1>4, Overtaken
  <2>2. Left(i) < n
    BY <1>1, <1>4, <2>1 DEF Ahead
  <2>3. PICK l \in Installers : l # i /\ Ahead(l, n)
    <3>0. Left(i) \in Nat /\ \A l \in Installers : Left(l) \in Nat
      BY LeftType
    <3>1. CASE Passed(Left(i))
      <4>1. PICK l \in Installers : Ahead(l, Left(i))
        BY <3>1 DEF Passed
      <4>2. l # i
        BY <2>1, <3>0, <4>1 DEF Ahead
      <4>3. Ahead(l, n)
        BY <2>2, <3>0, <4>1 DEF Ahead
      <4> QED BY <4>2, <4>3
    <3>2. CASE ~Passed(Left(i))
      <4>1. PICK l \in Installers : pc[l] = "in" /\ Left(l) = Left(i)
        BY <2>1, <3>2 DEF Empty
      <4>2. l # i
        BY <2>1, <3>2, <4>1
      <4>3. Ahead(l, n)
        BY <2>2, <4>1 DEF Ahead, Alive, Planning
      <4> QED BY <4>2, <4>3
    <3> QED BY <3>1, <3>2
  <2>4. Ahead(l, n)'
    BY <2>3, OthersSame DEF Ahead, Alive, Left
  <2> QED BY <2>4 DEF Passed
<1> QED BY <1>2, <1>3, <1>4

\* Who has yet to move its tree in does so, or was overtaken.
LEMMA EmptyKept ==
    ASSUME Base, OrderInv, RaceInv, trouble = {}, NEW i \in Installers, InstallerStep(i), NEW n \in Nat,
           Empty(n) \/ Passed(n)
    PROVE  Empty(n)' \/ Passed(n)'
<1>1. CASE Passed(n)
  BY <1>1, PassedKept
<1>2. CASE Empty(n)
  <2>1. PICK k \in Installers : pc[k] = "in" /\ Left(k) = n
    BY <1>2 DEF Empty
  <2>2. CASE k # i
    <3>1. pc'[k] = "in" /\ Left(k)' = n
      BY <2>1, <2>2, OthersSame DEF Left
    <3> QED BY <3>1 DEF Empty
  <2>3. CASE k = i /\ Fail(i)
    <3>1. Passed(n)
      BY <2>1, <2>3, Overtaken
    <3> QED BY <3>1, PassedKept
  <2>4. CASE k = i /\ ~Fail(i)
    <3>1. Alive(i)
      BY <2>1, <2>4 DEF Alive, Planning
    <3>2. Ahead(i, n)'
      BY <2>1, <2>4, <3>1, GoesOn DEF Ahead
    <3> QED BY <3>2 DEF Passed
  <2> QED BY <2>2, <2>3, <2>4
<1> QED BY <1>1, <1>2

LEMMA RaceInit == Init => RaceInv
BY DEF Init, RaceInv

LEMMA RaceStep == Base /\ OrderInv /\ RaceInv /\ [Next]_vars => RaceInv'
<1> DEFINE Raced(j) ==
             /\ pc[j] # "killed"
             /\ pc[j] = "aside" => dest[Target(j)] # Absent \/ Empty(Left(j)) \/ Passed(Left(j))
             /\ pc[j] = "in" => dest[Target(j)] = Absent \/ Passed(Left(j))
             /\ pc[j] \in {"rollback", "restore"} => Passed(Left(j))
             /\ pc[j] \in {"clean", "failed"} => Empty(Left(j)) \/ Passed(Left(j))
<1> SUFFICES ASSUME Base, OrderInv, RaceInv, [Next]_vars, trouble' = {}, NEW j \in Installers
             PROVE  Raced(j)'
  BY DEF RaceInv
<1>1. CASE UNCHANGED vars
  BY <1>1 DEF vars, inputs, RaceInv, Empty, Passed, Ahead, Alive, Left, Target
<1>2. ASSUME NEW i \in Installers, InstallerStep(i) PROVE Raced(j)'
  <2>0. trouble = {} /\ ~Kill(i)
    BY <1>2 DEF InstallerStep, Plan, ReadOn, Refuse, Planned, NextPlan, WriteTree, Look, MoveAside, MoveIn,
       Rollback, Restore,
       DropBackup, Done, Fail, Clean, Kill, inputs
  <2>1. Raced(j)
    BY <2>0 DEF RaceInv
  <2>2. ASSUME NEW n \in Nat, n = Left(j) PROVE Raced(j)'
    <3>0. /\ Passed(n) => Passed(n)'
          /\ Empty(n) \/ Passed(n) => Empty(n)' \/ Passed(n)'
      BY <1>2, <2>0, PassedKept, EmptyKept
    <3>1. CASE j # i
      <4>1. pc'[j] = pc[j] /\ Target(j)' = Target(j) /\ Left(j)' = n
        BY <1>2, <2>2, <3>1, OthersSame DEF Left
      <4>2. ASSUME pc[j] \in {"aside", "in"}, dest'[Target(j)] # dest[Target(j)]
            PROVE  /\ MoveAside(i) \/ MoveIn(i) \/ Restore(i)
                   /\ Target(i) = Target(j) /\ Left(i) = n /\ Left(i)' = n
        <5>1. plan[j] # <<>> /\ Target(j) \in Places
          BY <4>2, TargetType DEF Base, BusyInv, Fits
        <5>2. MoveAside(i) \/ MoveIn(i) \/ Restore(i)
          BY <1>2, <4>2, Untouched
        <5>3. plan[i] # <<>> /\ plan' = plan /\ pc[i] \notin Planning
          BY <5>2, Moved DEF Planning
        <5>4. Target(i) = Target(j)
          <6>1. dest \in [Places -> Whole]
            BY DEF Base, TypeOK
          <6>2. \E c : dest' = [dest EXCEPT ![Target(i)] = c] \/ dest' = dest
            BY <5>2, Moved
          <6> QED BY <4>2, <5>1, <6>1, <6>2
        <5>5. Left(i) = Left(j)
          BY <4>2, <5>1, <5>3, <5>4, SameTarget DEF Planning
        <5> QED BY <2>2, <5>2, <5>3, <5>4, <5>5 DEF Left
      <4>3. pc[j] = "aside" => dest'[Target(j)] # Absent \/ Empty(n)' \/ Passed(n)'
        <5> SUFFICES ASSUME pc[j] = "aside", dest'[Target(j)] = Absent, dest[Target(j)] # Absent
                     PROVE  Empty(n)'
          BY <2>1, <2>2, <3>0
        <5>1. MoveAside(i)
          <6>1. MoveAside(i) \/ MoveIn(i) \/ Restore(i)
            BY <4>2
          <6>2. Target(i) = Target(j) /\ Target(i) \in Places
            BY <4>2, <6>1, Moved
          <6>3. ~MoveIn(i) /\ ~Restore(i)
            BY <6>2, Moved DEF Base, TypeOK
          <6> QED BY <6>1, <6>3
        <5>2. pc'[i] = "in" /\ Left(i)' = n
          BY <4>2, <5>1, Moved
        <5> QED BY <5>2 DEF Empty
      <4>4. pc[j] = "in" => dest'[Target(j)] = Absent \/ Passed(n)'
        <5> SUFFICES ASSUME pc[j] = "in", dest'[Target(j)] # Absent, dest[Target(j)] = Absent
                     PROVE  Passed(n)'
          BY <2>1, <2>2, <3>0
        <5>1. MoveAside(i) \/ MoveIn(i) \/ Restore(i)
          BY <4>2
        <5>2. Target(i) = Target(j) /\ Left(i) = n /\ Left(i)' = n
          BY <4>2
        <5>3. ~MoveAside(i)
          BY <5>2, Moved
        <5>4. CASE MoveIn(i)
          <6>1. pc'[i] \in {"drop", "done"}
            BY <5>4, Moved
          <6>2. Ahead(i, n)'
            BY <5>2, <6>1 DEF Ahead, Alive, Planning
          <6> QED BY <6>2 DEF Passed
        <5>5. CASE Restore(i)
          <6>1. Passed(Left(i))
            BY <2>0, <5>5 DEF Restore, RaceInv
          <6> QED BY <3>0, <5>2, <6>1
        <5> QED BY <5>1, <5>3, <5>4, <5>5
      <4>5. /\ pc[j] # "killed"
            /\ pc[j] \in {"rollback", "restore"} => Passed(n)'
            /\ pc[j] \in {"clean", "failed"} => Empty(n)' \/ Passed(n)'
        BY <2>1, <2>2, <3>0
      <4> QED BY <4>1, <4>3, <4>4, <4>5
    <3>2. CASE j = i
      <4>1. CASE Look(i)
        <5>1. /\ UNCHANGED <<dest, plan>> /\ Target(i)' = Target(i)
              /\ pc'[i] = IF dest[Target(i)] = Absent THEN "in" ELSE "aside"
          BY <4>1 DEF Look, GoTo, Base, TypeOK, Target
        <5> QED BY <3>2, <5>1
      <4>2. CASE MoveAside(i)
        <5>1. /\ pc'[i] = "in" /\ Target(i)' = Target(i) /\ Target(i) \in Places
              /\ dest' = [dest EXCEPT ![Target(i)] = Absent]
          BY <4>2, Moved
        <5>2. dest'[Target(i)'] = Absent
          BY <5>1 DEF Base, TypeOK
        <5> QED BY <3>2, <5>1, <5>2
      <4>3. CASE Fail(i)
        <5>1. /\ \/ pc'[i] = "clean" /\ (Empty(n) \/ Passed(n))
                 \/ pc'[i] = "rollback" /\ Passed(n)
              /\ Left(i)' = n
          BY <2>0, <2>2, <3>2, <4>3, Overtaken
        <5> QED BY <3>0, <3>2, <5>1
      <4>4. CASE Rollback(i) \/ Restore(i) \/ Clean(i)
        <5>1. /\ pc'[i] \in {"restore", "clean", "failed"} /\ Left(i)' = n
              /\ pc[i] \in {"rollback", "restore", "clean"}
              /\ pc[i] = "clean" => pc'[i] = "failed"
          BY <2>2, <3>2, <4>4 DEF Rollback, Restore, Clean, GoTo, Left, Base, TypeOK
        <5>2. (Empty(n) \/ Passed(n)) /\ (pc'[i] = "restore" => Passed(n))
          BY <2>1, <2>2, <3>2, <5>1
        <5> QED BY <3>0, <3>2, <5>1, <5>2
      <4>5. CASE ~Look(i) /\ ~MoveAside(i) /\ ~Fail(i) /\ ~Rollback(i) /\ ~Restore(i) /\ ~Clean(i)
        <5>1. pc'[i] \notin {"killed", "aside", "in", "rollback", "restore", "clean", "failed"}
          BY <1>2, <2>0, <4>5 DEF InstallerStep, Plan, ReadOn, Refuse, Planned, NextPlan, WriteTree, MoveIn,
             DropBackup,
             Done, GoTo, Base, TypeOK
        <5> QED BY <3>2, <5>1
      <4> QED BY <4>1, <4>2, <4>3, <4>4, <4>5
    <3> QED BY <3>1, <3>2
  <2> QED BY <2>2, LeftType
<1> QED BY <1>1, <1>2 DEF Next, InstallerStep

\* While all are planning nothing moves; so who is refused has met a directory
\* that is not ours.
EarlyInv ==
    trouble = {} /\ (\A i \in Installers : pc[i] \in Planning) =>
        \A i \in Installers :
            /\ pc[i] \in {"compare", "judge"} => dest[Head(todo[i])] # Absent
            /\ pc[i] = "conflict" => dest[Head(todo[i])] \in Others

LEMMA EarlyStep == Base /\ OrderInv /\ EarlyInv /\ [Next]_vars => EarlyInv'
<1> SUFFICES ASSUME Base, OrderInv, EarlyInv, [Next]_vars, trouble' = {},
                    \A k \in Installers : pc'[k] \in Planning, NEW j \in Installers
             PROVE  /\ pc'[j] \in {"compare", "judge"} => dest'[Head(todo'[j])] # Absent
                    /\ pc'[j] = "conflict" => dest'[Head(todo'[j])] \in Others
  BY DEF EarlyInv
<1>1. CASE UNCHANGED vars
  BY <1>1 DEF vars, inputs, EarlyInv
<1>2. ASSUME NEW i \in Installers, InstallerStep(i)
      PROVE  /\ pc'[j] \in {"compare", "judge"} => dest'[Head(todo'[j])] # Absent
             /\ pc'[j] = "conflict" => dest'[Head(todo'[j])] \in Others
  <2>0. trouble = {} /\ ~Kill(i)
    BY <1>2 DEF InstallerStep, Plan, ReadOn, Refuse, Planned, NextPlan, WriteTree, Look, MoveAside, MoveIn,
       Rollback,
       Restore, DropBackup, Done, Fail, Clean, Kill, inputs
  <2>1. Plan(i) \/ ReadOn(i) \/ Refuse(i)
    <3>1. pc'[i] \in Planning
      OBVIOUS
    <3>2. ~NextPlan(i)
      <4> SUFFICES ASSUME NextPlan(i) PROVE FALSE
        OBVIOUS
      <4>1. pc[i] = "next" /\ todo[i] = <<>>
        BY DEF NextPlan, OrderInv, Planning
      <4> QED BY <3>1, <4>1 DEF NextPlan, GoTo, Planning, Base, TypeOK
    <3>3. ~Planned(i) /\ ~WriteTree(i) /\ ~Look(i) /\ ~MoveAside(i) /\ ~MoveIn(i)
      BY <3>1 DEF Planned, WriteTree, Look, MoveAside, MoveIn, GoTo, Planning, Base, TypeOK
    <3>4. ~Rollback(i) /\ ~Restore(i) /\ ~DropBackup(i) /\ ~Done(i) /\ ~Fail(i) /\ ~Clean(i)
      BY <3>1 DEF Rollback, Restore, DropBackup, Done, Fail, MayFail, Clean, GoTo, Planning, Base, TypeOK
    <3> QED BY <1>2, <2>0, <3>2, <3>3, <3>4 DEF InstallerStep
  <2>2. pc[i] \in {"plan", "compare", "judge"} /\ dest' = dest
    BY <2>1 DEF Plan, Decided, ReadOn, Refuse
  <2>3. \A k \in Installers : pc[k] \in Planning
    BY <1>2, <2>2, OthersSame DEF Planning
  <2>4. /\ pc[j] \in {"compare", "judge"} => dest[Head(todo[j])] # Absent
        /\ pc[j] = "conflict" => dest[Head(todo[j])] \in Others
    BY <2>0, <2>3 DEF EarlyInv
  <2>5. CASE j # i
    BY <1>2, <2>2, <2>4, <2>5, OthersSame
  <2>6. CASE j = i /\ Plan(i)
    <3>1. pc'[i] = "plan"
      BY <2>6, PlanMade DEF Base
    <3> QED BY <2>6, <3>1
  <2>7. CASE j = i /\ ReadOn(i)
    <3>1. pc'[i] \in {"compare", "judge"} /\ todo' = todo /\ dest[Head(todo[i])] # Absent
      BY <2>4, <2>7 DEF ReadOn, GoTo, Base, TypeOK
    <3> QED BY <2>2, <2>7, <3>1
  <2>8. CASE j = i /\ Refuse(i)
    <3>1. pc'[i] = "conflict" /\ todo' = todo /\ dest[Head(todo[i])] \notin Versions \union {Absent}
      BY <2>4, <2>8 DEF Refuse, Managed, GoTo, Base, TypeOK
    <3>2. dest[Head(todo[i])] \in Whole
      <4>1. todo[i] # <<>> /\ todo[i] \in Seq(Places)
        BY <2>8 DEF Refuse, Base, BusyInv, Fits, TypeOK
      <4>2. Head(todo[i]) \in Places
        BY <4>1, Rest
      <4> QED BY <4>2 DEF Base, TypeOK
    <3> QED BY <2>2, <2>8, <3>1, <3>2 DEF Whole
  <2> QED BY <2>1, <2>5, <2>6, <2>7, <2>8
<1> QED BY <1>1, <1>2 DEF Next, InstallerStep

\* When all have ended and neither the file system nor a signal got in their
\* way, one of them has installed everything; or all were refused, each because
\* of a directory that is not ours.
THEOREM NotAllFail == Spec => []SomeoneSucceeds
<1>1. Base /\ RaceInv /\ EarlyInv => SomeoneSucceeds
  <2> SUFFICES ASSUME Base, RaceInv, EarlyInv, AllEnded, trouble = {},
                      \A k \in Installers : pc[k] # "installed"
               PROVE  \A i \in Installers : pc[i] = "conflict" /\ dest[Head(todo[i])] \in Others
    BY DEF SomeoneSucceeds
  <2>1. ASSUME NEW i \in Installers, pc[i] # "conflict" PROVE FALSE
    <3>1. pc[i] = "failed"
      BY <2>1 DEF RaceInv, AllEnded, Ended
    <3>2. Passed(Left(i))
      BY <3>1 DEF RaceInv, Empty, AllEnded, Ended
    <3> QED BY <3>2 DEF Passed, Ahead, Alive, AllEnded, Ended, Planning
  <2>2. \A i \in Installers : dest[Head(todo[i])] \in Others
    BY <2>1 DEF EarlyInv, Planning
  <2> QED BY <2>1, <2>2
<1>2. Init => EarlyInv
  BY DEF Init, EarlyInv
<1> QED BY BaseInit, BaseStep, OrderInit, OrderStep, RaceInit, RaceStep, EarlyStep, <1>1, <1>2, PTL DEF Spec
=============================================================================
