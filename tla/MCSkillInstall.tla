---------------------------- MODULE MCSkillInstall ----------------------------
(***************************************************************************)
(* Two installers of different versions, and both targets.                 *)
(***************************************************************************)
EXTENDS SkillInstall

CONSTANTS first, second

Packages == [i \in {first, second} |-> IF i = first THEN "v1" ELSE "v2"]
FilesOnly == [v \in {"v1", "v2"} |-> IF v = "v1" THEN "files1" ELSE "files2"]
BothTargets == <<"claude", "codex">>
===============================================================================
