------------------------------ MODULE MCTaskRun ------------------------------
(***************************************************************************)
(* Small instances of TaskRun.                                             *)
(***************************************************************************)
EXTENDS TaskRun

Fresh(session, foreground) ==
    [session |-> session, resume |-> FALSE, foreground |-> foreground]
Continued(session, foreground) ==
    [session |-> session, resume |-> TRUE, foreground |-> foreground]

\* Every kind, but of the foreground ones only the continuation whose session
\* the output names, the one with the most steps.
AllKinds == {k \in Kind : k.foreground => k.resume /\ k.session = "output"}
\* `cliexec run --continue`, the kind in which most can happen.
RunContinued == {Continued("output", TRUE)}
=============================================================================
