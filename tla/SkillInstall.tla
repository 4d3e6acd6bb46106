----------------------------- MODULE SkillInstall -----------------------------
(***************************************************************************)
(* install_skill: several `cliexec skill install` at once put the skill of *)
(* their package into the directories of the controllers.  An installer    *)
(* plans every target before it touches one; then, per target, it writes a *)
(* tree beside it, moves what is there aside, moves the tree in, and       *)
(* removes what it moved aside.  No lock is taken: what exists may have    *)
(* changed between a test and the rename that relies on it.                *)
(***************************************************************************)
EXTENDS Integers, Sequences

CONSTANTS
    Installers,
    Package,   \* the version each installer comes with
    Unmarked,  \* the files of each version without our marker
    Targets,   \* the directories, in the order of _TARGET_PATHS
    Absent,    \* what a path holds: nothing,
    Foreign,   \* a directory that is not ours, or a link to one,
    Torn       \* a tree not written, or not removed, to its end

Versions == {Package[i] : i \in Installers}
Copies == {Unmarked[v] : v \in Versions}
Places == {Targets[n] : n \in DOMAIN Targets}

\* What bears no marker of ours, and all that a target may hold.
Others == {Foreign} \union Copies
Whole == {Absent} \union Others \union Versions

ASSUME PackageAssumption == DOMAIN Package = Installers /\ DOMAIN Unmarked = Versions
ASSUME ContentsAssumption ==
    /\ Absent # Foreign /\ Absent # Torn /\ Foreign # Torn
    /\ {Absent, Foreign, Torn} \cap (Versions \union Copies) = {}
    /\ Versions \cap Copies = {}
ASSUME TargetsAssumption ==
    /\ Targets \in Seq(Places)
    /\ \A m, n \in DOMAIN Targets : Targets[m] = Targets[n] => m = n

VARIABLES
    dest,      \* what each target holds
    force,     \* the installers that were given --force
    trouble,   \* what may happen: "io" (calls fail), "back" (the rename
               \* that should undo one fails too), "kill"
    todo,      \* the targets each installer has yet to plan
    plan,      \* the planned targets it has yet to install
    temporary, \* its temporary directory
    backup,    \* what it has moved aside
    results,   \* the targets it has dealt with
    pc         \* where it is, or how it ended

inputs == <<force, trouble>>
vars == <<dest, inputs, todo, plan, temporary, backup, results, pc>>

GoTo(i, label) == pc' = [pc EXCEPT ![i] = label]

Init ==
    /\ dest \in [Places -> Whole]
    /\ force \in SUBSET Installers
    /\ trouble \in SUBSET {"io", "back", "kill"}
    /\ todo = [i \in Installers |-> Targets]
    /\ plan = [i \in Installers |-> <<>>]
    /\ temporary = [i \in Installers |-> Absent]
    /\ backup = [i \in Installers |-> Absent]
    /\ results = [i \in Installers |-> {}]
    /\ pc = [i \in Installers |-> "plan"]

-----------------------------------------------------------------------------
(* _plan_install: does the target exist, is it identical, is it managed?   *)
(* Three reads, between which another installer may have it aside.         *)

\* Every file is as in the package; the marker is not looked at.
Identical(i, t) == dest[t] \in {Package[i], Unmarked[Package[i]]}

\* Mutant: the marker is not looked for.
ManagedAnyway(t) == dest[t] # Absent

Managed(t) == dest[t] \in Versions

\* What the read it is at makes installer i plan for target t.
Decided(i, t, change) ==
    \/ pc[i] = "plan" /\ dest[t] = Absent /\ change
    \/ pc[i] = "compare" /\ Identical(i, t) /\ ~change
    \/ pc[i] = "compare" /\ ~Identical(i, t) /\ i \in force /\ change
    \/ pc[i] = "judge" /\ Managed(t) /\ change

\* Mutant: each target is planned when its turn comes.
PlanLazily(i) ==
    /\ todo[i] # <<>>
    /\ \E change \in BOOLEAN :
          /\ Decided(i, Head(todo[i]), change)
          /\ plan' = [plan EXCEPT ![i] = <<[target |-> Head(todo[i]), change |-> change]>>]
    /\ todo' = [todo EXCEPT ![i] = Tail(@)]
    /\ GoTo(i, "next")
    /\ UNCHANGED <<dest, inputs, temporary, backup, results>>

Plan(i) ==
    /\ todo[i] # <<>>
    /\ \E change \in BOOLEAN :
          /\ Decided(i, Head(todo[i]), change)
          /\ plan' = [plan EXCEPT ![i] = Append(@, [target |-> Head(todo[i]), change |-> change])]
    /\ todo' = [todo EXCEPT ![i] = Tail(@)]
    /\ GoTo(i, "plan")
    /\ UNCHANGED <<dest, inputs, temporary, backup, results>>

\* It exists; it is not identical and there is no --force.
ReadOn(i) ==
    /\ \/ pc[i] = "plan" /\ todo[i] # <<>> /\ dest[Head(todo[i])] # Absent /\ GoTo(i, "compare")
       \/ pc[i] = "compare" /\ ~Identical(i, Head(todo[i])) /\ i \notin force /\ GoTo(i, "judge")
    /\ UNCHANGED <<dest, inputs, todo, plan, temporary, backup, results>>

\* SKILL_CONFLICT: the whole installation ends.
Refuse(i) ==
    /\ pc[i] = "judge"
    /\ ~Managed(Head(todo[i]))
    /\ GoTo(i, "conflict")
    /\ UNCHANGED <<dest, inputs, todo, plan, temporary, backup, results>>

Planned(i) ==
    /\ pc[i] = "plan"
    /\ todo[i] = <<>>
    /\ GoTo(i, "next")
    /\ UNCHANGED <<dest, inputs, todo, plan, temporary, backup, results>>

-----------------------------------------------------------------------------
(* _replace_directory.                                                     *)

Target(i) == Head(plan[i]).target

\* The loop of install_skill; an unchanged target is only reported.
NextPlan(i) ==
    /\ pc[i] = "next"
    /\ IF plan[i] = <<>>
       THEN /\ GoTo(i, IF todo[i] = <<>> THEN "installed" ELSE "plan")
            /\ UNCHANGED <<plan, temporary, results>>
       ELSE IF Head(plan[i]).change
       THEN /\ temporary' = [temporary EXCEPT ![i] = Torn]
            /\ GoTo(i, "write")
            /\ UNCHANGED <<plan, results>>
       ELSE /\ results' = [results EXCEPT ![i] = @ \union {Target(i)}]
            /\ plan' = [plan EXCEPT ![i] = Tail(@)]
            /\ UNCHANGED <<temporary, pc>>
    /\ UNCHANGED <<dest, inputs, todo, backup>>

\* Mutant: the tree is written where it belongs.
WriteTreeInPlace(i) ==
    /\ pc[i] = "write"
    /\ dest' = [dest EXCEPT ![Target(i)] = Torn]
    /\ temporary' = [temporary EXCEPT ![i] = Package[i]]
    /\ GoTo(i, "look")
    /\ UNCHANGED <<inputs, todo, plan, backup, results>>

WriteTree(i) ==
    /\ pc[i] = "write"
    /\ temporary' = [temporary EXCEPT ![i] = Package[i]]
    /\ GoTo(i, "look")
    /\ UNCHANGED <<dest, inputs, todo, plan, backup, results>>

Look(i) ==
    /\ pc[i] = "look"
    /\ GoTo(i, IF dest[Target(i)] = Absent THEN "in" ELSE "aside")
    /\ UNCHANGED <<dest, inputs, todo, plan, temporary, backup, results>>

\* Mutant: what is there is removed at once.
MoveAsideNowhere(i) ==
    /\ pc[i] = "aside"
    /\ dest[Target(i)] # Absent
    /\ dest' = [dest EXCEPT ![Target(i)] = Absent]
    /\ GoTo(i, "in")
    /\ UNCHANGED <<inputs, todo, plan, temporary, backup, results>>

MoveAside(i) ==
    /\ pc[i] = "aside"
    /\ dest[Target(i)] # Absent
    /\ backup' = [backup EXCEPT ![i] = dest[Target(i)]]
    /\ dest' = [dest EXCEPT ![Target(i)] = Absent]
    /\ GoTo(i, "in")
    /\ UNCHANGED <<inputs, todo, plan, temporary, results>>

\* The rename of a directory needs an empty place.
MoveIn(i) ==
    /\ pc[i] = "in"
    /\ dest[Target(i)] = Absent
    /\ dest' = [dest EXCEPT ![Target(i)] = temporary[i]]
    /\ temporary' = [temporary EXCEPT ![i] = Absent]
    /\ GoTo(i, IF backup[i] = Absent THEN "done" ELSE "drop")
    /\ UNCHANGED <<inputs, todo, plan, backup, results>>

\* Mutant: what was moved aside stays aside.
RollbackNothing(i) ==
    /\ pc[i] = "rollback"
    /\ GoTo(i, "clean")
    /\ UNCHANGED <<dest, inputs, todo, plan, temporary, backup, results>>

\* It could not be moved in; what was there comes back if the place is free.
Rollback(i) ==
    /\ pc[i] = "rollback"
    /\ GoTo(i, IF backup[i] # Absent /\ dest[Target(i)] = Absent THEN "restore" ELSE "clean")
    /\ UNCHANGED <<dest, inputs, todo, plan, temporary, backup, results>>

\* By then it may be taken.
Restore(i) ==
    /\ pc[i] = "restore"
    /\ dest[Target(i)] = Absent
    /\ dest' = [dest EXCEPT ![Target(i)] = backup[i]]
    /\ backup' = [backup EXCEPT ![i] = Absent]
    /\ GoTo(i, "clean")
    /\ UNCHANGED <<inputs, todo, plan, temporary, results>>

\* rmtree, which takes its time.
DropBackup(i) ==
    /\ pc[i] = "drop"
    /\ IF backup[i] = Torn
       THEN backup' = [backup EXCEPT ![i] = Absent] /\ GoTo(i, "done")
       ELSE backup' = [backup EXCEPT ![i] = Torn] /\ UNCHANGED pc
    /\ UNCHANGED <<dest, inputs, todo, plan, temporary, results>>

Done(i) ==
    /\ pc[i] = "done"
    /\ results' = [results EXCEPT ![i] = @ \union {Target(i)}]
    /\ plan' = [plan EXCEPT ![i] = Tail(@)]
    /\ GoTo(i, "next")
    /\ UNCHANGED <<dest, inputs, todo, temporary, backup>>

\* An OSError: another installer was faster, or the file system refuses.
MayFail(i) ==
    \/ pc[i] = "aside" /\ dest[Target(i)] = Absent
    \/ pc[i] \in {"in", "restore"} /\ dest[Target(i)] # Absent
    \/ "back" \in trouble /\ pc[i] = "restore"
    \/ "io" \in trouble /\ pc[i] \in {"write", "aside", "in", "drop"}

Fail(i) ==
    /\ MayFail(i)
    /\ GoTo(i, IF pc[i] = "in" THEN "rollback" ELSE "clean")
    /\ UNCHANGED <<dest, inputs, todo, plan, temporary, backup, results>>

\* The finally clause; the error goes to the caller.
Clean(i) ==
    /\ pc[i] = "clean"
    /\ temporary' = [temporary EXCEPT ![i] = Absent]
    /\ GoTo(i, "failed")
    /\ UNCHANGED <<dest, inputs, todo, plan, backup, results>>

-----------------------------------------------------------------------------
Ended == {"installed", "conflict", "failed", "killed"}

Kill(i) ==
    /\ "kill" \in trouble
    /\ pc[i] \notin Ended
    /\ GoTo(i, "killed")
    /\ UNCHANGED <<dest, inputs, todo, plan, temporary, backup, results>>

Next ==
    \E i \in Installers :
        \/ Plan(i) \/ ReadOn(i) \/ Refuse(i) \/ Planned(i) \/ NextPlan(i)
        \/ WriteTree(i) \/ Look(i) \/ MoveAside(i) \/ MoveIn(i)
        \/ Rollback(i) \/ Restore(i) \/ DropBackup(i) \/ Done(i)
        \/ Fail(i) \/ Clean(i) \/ Kill(i)

Spec == Init /\ [][Next]_vars

-----------------------------------------------------------------------------
(* What should be true.                                                    *)

\* Every variable has its type; in particular no target ever holds a tree
\* that is not whole, wherever an installer fails or is killed.
TypeOK ==
    /\ dest \in [Places -> Whole]
    /\ force \subseteq Installers
    /\ trouble \subseteq {"io", "back", "kill"}
    /\ todo \in [Installers -> Seq(Places)]
    /\ plan \in [Installers -> Seq([target : Places, change : BOOLEAN])]
    /\ temporary \in [Installers -> {Absent, Torn} \union Versions]
    /\ backup \in [Installers -> Whole \union {Torn}]
    /\ results \in [Installers -> SUBSET Places]
    /\ pc \in [Installers -> Ended \union
          {"plan", "compare", "judge", "next", "write", "look", "aside", "in",
           "rollback", "restore", "drop", "done", "clean"}]

\* Nobody's directory but our own goes away unless someone said --force, not
\* even one with the very files of a skill of ours.
ForeignStays ==
    [][force = {} => \A t \in Places : dest[t] \in Others => dest'[t] = dest[t]]_vars

\* Of what a target held, some whole content is always left: in its place, or
\* set aside by an installer that died on the way.
Kept(t) ==
    \/ dest[t] # Absent
    \/ \E i \in Installers :
          plan[i] # <<>> /\ Target(i) = t /\ backup[i] \notin {Absent, Torn}
NothingLost == [][\A t \in Places : Kept(t) => Kept(t)']_vars

AllEnded == \A i \in Installers : pc[i] \in Ended

\* Where an installer reported its skill there is something when all have ended,
\* also if another's renames failed; if the rename that should undo one failed
\* too, or somebody was killed, then at least aside.  What is there are the files
\* of a skill of ours if nobody said --force.  (With --force a third installer can
\* make the first put the foreign directory back over what the second installed.)
ReportedIsThere ==
    AllEnded =>
        \A i \in Installers : \A t \in results[i] :
            /\ IF trouble \subseteq {"io"} THEN dest[t] # Absent ELSE Kept(t)
            /\ force = {} => dest[t] # Foreign

\* Installers may make each other fail, and a plan that reads while another has
\* the tree aside takes it for foreign; but they do not all trip over each other:
\* all are refused only if each has met a directory that is not ours.
SomeoneSucceeds ==
    AllEnded /\ trouble = {} =>
        \/ \E i \in Installers : pc[i] = "installed"
        \/ \A i \in Installers : pc[i] = "conflict" /\ dest[Head(todo[i])] \in Others
==============================================================================
