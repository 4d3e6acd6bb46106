------------------------------ MODULE MCRegistry ------------------------------
(***************************************************************************)
(* Small instances of Registry.                                            *)
(***************************************************************************)
EXTENDS Registry, TLC

Ask(agent, write, cwd, resume) ==
    [agent |-> agent, write |-> write, cwd |-> cwd, resume |-> resume]

\* New and continued runs of an agent with sessions, all in one directory.
Chat == {Ask("x", FALSE, <<"a">>, FALSE), Ask("x", FALSE, <<"a">>, TRUE)}
\* Writers of a directory and of one below it, and a continuation.
Mixed == {Ask("x", FALSE, <<"a">>, TRUE), Ask("x", TRUE, <<"a">>, FALSE),
          Ask("y", TRUE, <<"a", "b">>, FALSE)}

ClientSymmetry == Permutations(Clients)
==============================================================================
