------------------------------- MODULE Doctor -------------------------------
(***************************************************************************)
(* The doctor: the comparison of a version with the tested range, and the  *)
(* verdict on an agent.  A version is the sequence of its numbers; a       *)
(* constraint is [op |-> ..., bound |-> a version] or Unparsable.          *)
(***************************************************************************)
EXTENDS Integers, SequencesExt

CONSTANTS Unparsable, NoVersion, Failed

Padded(version, width) ==
  [i \in 1..width |-> IF i <= Len(version) THEN version[i] ELSE 0]

\* Lexicographic order of two sequences of one length.
Less(left, right) ==
  \E i \in DOMAIN left : left[i] < right[i] /\ \A j \in 1..(i - 1) : left[j] = right[j]

Compares(left, op, right) ==
  CASE op = "<"  -> Less(left, right)
    [] op = "<=" -> Less(left, right) \/ left = right
    [] op = ">"  -> Less(right, left)
    [] op = ">=" -> Less(right, left) \/ left = right
    [] op = "==" -> left = right

\* A bug: tuples of different lengths are compared as they are.
SatisfiesUnpadded(version, constraint) ==
  LET shared == Min({Len(version), Len(constraint.bound)})
      left   == SubSeq(version, 1, shared)
      right  == SubSeq(constraint.bound, 1, shared)
  IN  IF left # right \/ Len(version) = Len(constraint.bound)
      THEN Compares(left, constraint.op, right)
      ELSE constraint.op \in (IF Len(version) < Len(constraint.bound)
                              THEN {"<", "<="} ELSE {">", ">="})

Satisfies(version, constraint) ==
  LET width == Max({Len(version), Len(constraint.bound)})
  IN  Compares(Padded(version, width), constraint.op, Padded(constraint.bound, width))

\* The constraints in their order, up to the first that decides.
VersionSatisfies(version, constraints) ==
  LET deciding == {i \in DOMAIN constraints :
                     constraints[i] = Unparsable \/ ~Satisfies(version, constraints[i])}
      first    == CHOOSE i \in deciding : \A j \in deciding : i <= j
  IN  IF version = <<>> THEN "unknown"
      ELSE IF deciding = {} THEN "yes"
      ELSE IF constraints[first] = Unparsable THEN "unknown" ELSE "no"

-----------------------------------------------------------------------------
(* An agent's probe table and the machine it is checked on: whether the    *)
(* executable is found, and for each probe that it Failed (cannot be run,   *)
(* times out, exits with an error) or what it prints: for the version the  *)
(* version found in it or NoVersion, for help the options it names.        *)

\* A probe without arguments prints nothing and is no error.
VersionErrors(probe, machine) ==
  CASE ~probe.version_args -> IF probe.version_regex THEN {"unmatched"} ELSE {}
    [] probe.version_args /\ machine.version = Failed -> {"probe"}
    [] OTHER -> IF probe.version_regex /\ machine.version = NoVersion
                THEN {"unmatched"} ELSE {}

HelpErrors(probe, machine) ==
  CASE ~probe.help_args -> IF probe.help_contains # {} THEN {"missing"} ELSE {}
    [] probe.help_args /\ machine.help = Failed -> {"probe"}
    [] OTHER -> IF probe.help_contains \subseteq machine.help THEN {} ELSE {"missing"}

\* The version in the output of a probe that ran.
Version(probe, machine) ==
  IF ~probe.version_args \/ machine.version = Failed THEN NoVersion ELSE machine.version

Compatible(probe, machine) ==
  IF Version(probe, machine) = NoVersion \/ probe.tested_versions = <<>>
  THEN "unchecked"
  ELSE VersionSatisfies(Version(probe, machine), probe.tested_versions)

CheckAgent(probe, machine) ==
  LET errors == VersionErrors(probe, machine) \cup HelpErrors(probe, machine)
  IN  IF ~machine.found
      THEN [ok |-> FALSE, compatible |-> "unchecked"]
      ELSE [ok |-> errors = {}, compatible |-> Compatible(probe, machine)]
=============================================================================
