# cliexec in TLA+

cliexec lets one AI agent delegate a task to another command-line agent. A
command (`cliexec run`, `start`, `status`, `result`, `cancel`, `list`, `purge`, ...)
is a short-lived process. There is no daemon: every run has a directory of files
and a detached supervisor process, and whatever must survive or be agreed upon
goes through those files, two `flock` locks and the process table in `/proc`.

This directory holds TLA+ models of the program's components, TLC configurations
that check them on small instances, and TLAPS proofs. Source paths below are
relative to `src/src/cliexec/` unless they start with `src/`.

## 1. Inventory

| component | code | state it keeps | operations | modelled in |
|---|---|---|---|---|
| Task record | `models.py`, `store.py` | `request.json`, `state.json`, `events.jsonl`, `result.txt` of a run | `create_run`, `update_state`, `save_result`, `public_state` | `RunRecord`, `RunLifecycle`, `StateFile` |
| Starting a run | `service.py` `start_task` | registry lock, new record, the parent's `continued_by_run_id` | admission, launch, five-second handshake | `Registry`, `TaskRun`, `AgentDelivery` |
| Supervisor | `supervisor.py` `supervise` | its own process, the worker's process group, the run's record | start, watch, terminate, sweep, parse, publish | `TaskRun`, `OutputCapture`, `OutputContract` |
| Status, cancellation, reconciliation | `service.py` `status`, `list_runs`, `cancel`, `_reconcile` | `cancel_requested`, the outcome of a lost run | poll, request, give up after 10 s, force after 7 s | `TaskRun`, `Registry` |
| Continuation | `service.py` `_continuation_problem`, `store.py` `release_unclaimed_continuation` | `conversation_id`, `session_claimed`, `continued_by_run_id` | link, claim, release | `Registry`, `Ledger`, `TaskRun` |
| Retention | `store.py` `purge`, `cli.py` | presence of run directories | purge by cutoff or all | `Registry`, `Limits` |
| State file protocol | `store.py` `_atomic_bytes`, `run_lock` | temporary file, per-run lock | read, merge, write, rename, log | `StateFile`, `AtomicRecord` |
| Output capture | `supervisor.py` `_OutputCapture` | logs, shared byte budget | two copy threads | `OutputCapture` |
| Inlined results | `store.py` `_inline` | none | head and tail of a result | `Limits` |
| Adapters | `adapter.py` | none | command lines, output parsing | `AgentDelivery`, `OutputContract` |
| Configuration | `config.py`, `preset_loader.py` | none at run time | merge of layers, validation, TOML | `ConfigLayers`, `AgentDelivery`, `Limits` |
| Doctor | `doctor.py` | none | probes, version ranges | `Doctor` |
| Skill installation | `skill_install.py` | an installed directory and its backup | plan, write, two renames, roll back | `SkillInstall` |
| Command line | `cli.py`, `errors.py`, `util.py` | none | options and output | `Algorithms` (what it computes) |

**How they interact.** `start_task` holds the registry lock while it reconciles
and counts the active runs, tests the continuation, creates the record and links
the parent to it. It then launches the supervisor and polls the record until it
is RUNNING or terminal. From there on the supervisor writes its record without the
registry lock, takes that lock only to give a parent's tip back, and reads
`cancel_requested` from its record. Controllers read records without any lock;
when a record looks abandoned they kill the recorded worker group and write the
terminal state themselves. So up to four kinds of process may *finish* a run: the
starter after a failed handshake, the supervisor, a reconciler, a canceller.
Every finisher runs the same three steps: `save_result`, `update_state`,
`release_unclaimed_continuation`. Inside the supervisor two threads copy the
worker's output while the main thread watches the record, the clock and their
shared byte count. Configuration, agent and policy are computed before all this,
written into the run's directory and read back by the supervisor.

**What is hard.** Finishers race, each judging a record it loaded earlier. A
supervisor, a client or the worker may be killed between any two steps. Three
deadlines (handshake 5 s, cancel 7 s, reconciliation 10 s) race with slow starts.
A dead supervisor that its parent has not waited for still looks alive. The leader
of the worker's group can die before its helpers, and a helper can leave the group.
Admission counts records that change under it. Tips are released in two accesses
while claims appear. Copy threads outlive the joins that wait for them. Installers
plan on what they see and rename on what is there later. The same checks are made
in two processes on two parses of one agent. The complete list, at its lines, is
`hazards` in `PROJECT.json`.

**What makes each component correct.**

- *Record*: a terminal state implies a readable result, and is final.
- *Start*: never more runs than the limit, never two writers in overlapping
  directories; a start ends with a live supervisor or with a terminal record.
- *Supervisor*: publishes an outcome only when the worker's group is gone; always
  publishes one; says why it stopped a worker.
- *Reconciliation and cancellation*: give up a RUNNING run only if its supervisor
  is gone; a recorded cancellation ends the run.
- *Continuation*: a conversation is a line: a run that used a session is its
  parent's only continuation, there is one tip at most, and one supervisor at work.
- *Registry lock*: always released.
- *Retention*: leaves no run waiting for a removed one; never takes too young a run.
- *State file*: readers see whole records, no update is lost.
- *Output capture*: no more than the limit is kept; all of it, if under the limit.
- *Output contract*: the result is the text the contract selects, from output that
  could all be read; one session.
- *Configuration*: a preset is the packaged one; what is written reads back the same.
- *Adapters*: what is admitted can be started, with everything that was asked for.
- *Skill installation*: old or new version, never a mixture and never nothing.

## 2. Modules

| module | what it is |
|---|---|
| `RunRecord` | task states, active, terminal, resumable |
| `RunLifecycle` | abstract specification of one run's record |
| `TaskRun`, `MCTaskRun`, `TaskRunProofs` | one run with all its processes, step by step |
| `Ledger`, `LedgerProofs` | abstract specification of the runs: conversations as lines, the limit, the areas |
| `Registry`, `MCRegistry`, `RegistryProofs`, `RegistryRefinement` | many runs: admission, reconciliation, tips, purge, under the registry lock |
| `AtomicRecord` | abstract specification of a record that is updated atomically, and its log |
| `StateFile`, `MCStateFile`, `StateFileProofs` | the record on disk: lock, read, merge, temporary file, rename, append |
| `OutputCapture`, `MCOutputCapture`, `OutputCaptureProofs` | the copy threads, their budget, and the main thread |
| `SkillInstall`, `MCSkillInstall`, `SkillInstallProofs` | installers of the skill, several at once |
| `Limits`, `OutputContract`, `Doctor`, `ConfigLayers`, `AgentDelivery` | the sequential computations, as operators |
| `Computations`, `ComputationsProofs` | those without recursive definitions, each asked for any input, and what the answers should be |
| `Algorithms`, `MCAlgorithms` | the same with the recursive ones, on the tables of the configuration |

In the modules an operator commented "Mutant" or "A bug" is a plausible mistake; no
specification uses it. `mutants` in `PROJECT.json` says which definition it stands
in for and which property then fails.

### TaskRun

One run from the moment its record exists. An action is the code between two
accesses to something another process can see, so each of these is a step of its
own: loading a record, looking into `/proc`, killing the group, writing the
result, writing the state, reading the child's claim, clearing the parent's link.

State: `rec` is `state.json` (state, whether the supervisor and the child are
recorded, `cancel_requested`, `session_claimed`); `result` is `result.txt` by what
it holds (the final text, a partial one, an empty one); `held` says the parent's
`continued_by_run_id` names this run; `supv`, `leader` and `helper` are the process
table (a zombie is still there, as `same_process` sees it); `sigterm` is the
supervisor's event; `aged` is the ten-second test of `_reconcile`. Each process has a
program counter `pc`, each controller an operation `op` and the record `snap` as it
last loaded it, each finisher the `job` it is about to publish.

| code | actions |
|---|---|
| `start_task` after admission | `Mark`, `Launch`, `RecordSupervisor`, `Handshake`, `HandshakePoll`, `HandshakeDeadline`, `StopSupervisor`, `StarterExit` |
| `supervise` | `Boot`, `Starting`, `SpawnWorker`, `Running`, `Watch`, `Terminate`, `Sweep`, `ReadSession`, `Finally`, `SupervisorFault` |
| `status`, `list_runs`, `_reconcile` | `Load`, `Judge`, `Kill` |
| `cancel`, Ctrl-C in `run_task` | `RequestCancel`, `FlagCancel`, `CancelDeadline`, `Interrupt` |
| save, publish, release, by anyone | `Save`, `Publish`, `Release`, `Unlink` |
| the world | `Age`, `LeaderExit`, `HelperExit`, `CrashSupervisor`, `CrashStarter` |

Parameters: `Observers` are further controllers, `Kinds` the kinds of run (how the
session id is found, whether it is a continuation, foreground or not), `Crashable`
who may be killed, `Faulty` whether a store call of the supervisor may raise.
`Timely` says that processes are quick compared with the 5, 7 and 10 seconds: the
deadline of the handshake never comes, `Age` comes only when no start is under way
and no controller holds a copy of an unstarted record, and a canceller gives up
only when there is no live supervisor and the record it polled last is current.
With `Timely = FALSE` each deadline may come at any moment. Most users live with
`Timely`; the runs state both sides.

An update of the record is one step here; that `update_state` behaves like one step
is what `StateFile` checks and proves.

### RunLifecycle

What a poller may rely on: states move forward, an outcome appears only with its
result, a tip once released is not claimed, a claimed tip is not released. A
terminal state may be *overruled* by another terminal state, because the code's
finishers do that (finding `outcome`). `TaskRun` implements it (`ImplementsLifecycle`)
under `state <- rec.state`, `ready <- result # "absent"`,
`tip <-` the parent's link, `claimed <- rec.claimed`.

### Registry

`rec` holds the records of all runs in creation order, `lock` the holder of the
registry lock. A client scans the active runs *as it listed them* (`todo`), gives up
the lost ones, counts the rest (`active`) and then admits or rejects. Supervisors
are reduced to the steps other runs can notice: `SupRun`, `SupClaim` (the update of the
session and the claim), `SupEnd` (the outcome), `SupRelease`, `SupUnlink`. The agents themselves
are not in this module: a run is at work while its supervisor is, and
`OneSupervisor` says no more than that. `Crashable` says who may be killed anywhere: clients in any command but
purge, a client that is purging, supervisors; `flock` goes with the process. A killed
supervisor's run stays until a reconciliation gives it up. Processes are `Timely`.

| code | actions |
|---|---|
| `status`, `list_runs`, `_reconcile` | `Status`, `Judge`, `GiveUp`, `Release`, `Unlink`, `StatusDone` |
| `start_task` | `Begin`, `DenyEarly`, `Lock`, `CheckParent`, `Admit`, `Reject`, `Rejected`, `Link`, `Mark`, `Launch`, `Handshake` |
| `purge` | `Purge`, `RemoveRun` |
| `supervise` | `SupRun`, `SupClaim`, `SupEnd`, `SupRelease`, `SupUnlink` |

`registry_locked=True`, with which `start_task` calls `_reconcile` from its own
scans, is `Locked`. `Overlap` is the directory test: one path is a prefix of the
other.

### Ledger

What the registry amounts to for somebody who sees neither clients nor locks nor old lists.
`entry` is what each run asked for: its conversation, the run it continues and where it may
write. `users` are the runs that used their conversation's session or still may, `working`
those of them at work, `admitted` those that count. A run joins a conversation (`Join`) only
behind its last user and while nobody of it is at work; it is admitted (`Admit`) only where
there is room; only a run at work drops out of its line (`Stop`), or one that is purged
(`Forget`). There is no step for giving a tip back: the line is shorter as soon as its last run
has ended without using the session, and the code's `continued_by_run_id` follows later, or
never (finding `tip`).

`Registry` implements it (`ImplementsLedger`) under `users <-` the runs of `User`,
`working <-` those of `Attached`, `admitted <-` those that are STARTING or RUNNING, and the
records' conversation, parent and `Area`. `Begin`, `Lock`, `CheckParent`, the scans, `Unlink`,
`SupRelease` and `SupUnlink` are stutters; `Admit` and `Reject` are `Ask`, `Link` is `Join`,
`Mark` is `Admit`, and `Stop` is a supervisor's end or death, or a client that dies or fails
between `Link` and `Launch`.

### StateFile and AtomicRecord

`StateFile` opens up what the modules above take as one step. `request`, `file` and
`events` are `request.json`, `state.json` and `events.jsonl`; `temp` each process's
temporary file, `lock` the flock on `run.lock`, `draft` the record it is about to
write. `create_run` is `WriteRequest`, then `Stage`, `Fill`, `Replace` (`mkstemp`;
write, flush and fsync; `os.replace`), then `CreateLog`. `update_state` is `Acquire`,
`Read` (or `NotFound`), the same three, `AppendEvent` and `Release`. Any process may
be killed before each of its steps (`Kill`: the lock goes, the temporary file stays),
and a step that touches the disk may raise (`Fail`: the temporary file is removed and the
lock released on the way out). Updates begin when `create_run` is over
(`CreationOver`): only its caller knows the run's name before that.

`AtomicRecord` is one value changed by one merge after another, with a log of the
states; an entry of the log may be lost, for a process that dies between the rename and
the append leaves it out. The refinement maps `value` to the file and `log` to the
events and the entry that is about to be appended.

### OutputCapture

`worker`, `kin` and `helper` are the processes that hold the pipes: the one that was
spawned, others of its group, one that left the group with `setsid`. `written` and
`taken` count bytes put into and read from each pipe; a log's content is always a
prefix of what was written, so `size` says it all. Each copy thread goes round
`Read`, `Account` (under the lock), `Store`, `Check`; a read returns a whole chunk, or
less at the end of the stream, as a buffered reader does. The main thread is `Poll`,
`Look`, `Terminate`, `Sweep`, `Join`, `Snapshot`, `Close`, `Verdict`, `Conclude`. A join
times out only while a process can still hold the pipe: two seconds are long for a
thread that only has to empty one (the assumption under `NothingLost` and
`CountsAreTrue`). `text` is how much of stdout the final text was made from.

### SkillInstall

`dest` is what each target holds: nothing, something foreign, a version of ours, or the files of
a version without our marker, which `_is_identical` takes for the version and `_is_managed`
for foreign. An installer plans every target in up to three reads (`Plan`, `ReadOn`,
`Refuse`: does it exist, is it identical, is it managed), then for each writes a tree
beside it (`WriteTree`), looks, moves what is there aside, moves the tree in, and removes
what it moved aside (in two steps, so that it can be caught half removed). If the tree cannot be
moved in it looks whether it can roll back (`Rollback`) and then renames (`Restore`), which may
fail too. Initial contents, who was given `--force`, and what may happen (`trouble`: calls fail,
the rename of a roll-back fails as well, installers are killed) are chosen in `Init` and stay.
One read of a tree is one step, and nobody but installers touches a target: a
directory that somebody else creates between plan and rename would be moved aside and removed by
the code, with or without `--force`, and no run shows that.

`ReportedIsThere`: what an installer reported is there when all have ended, also when calls fail,
because a failed rename is undone. If the rename that undoes it fails as well, or an installer is killed, the
target may be empty and the tree lie beside it (`Kept`), where no later command looks for it. A plan
that reads while another installer has the tree aside refuses it as foreign (SKILL_CONFLICT)
although it is not; `SomeoneSucceeds` says that this does not happen to all.

`ReportedIsThere` promises less where somebody says `--force`. Two installers keep a reported
target in the hands of cliexec whatever they were told; with three, one that says `--force`
moves a foreign directory aside, another installs and reports, the first cannot move its tree
in, and the third, replacing what the second installed, lets the first roll back: the foreign
directory is at the target again. Something is always there, but it need not be a skill of ours.

### Computations and Algorithms

Every action picks an input, computes the program's answer with the operators of the five
modules below and stops; the properties compare it with a description that does not follow
the code. `Computations` has everything but `ConfigLayers`, whose operators are `RECURSIVE`
and out of the prover's reach; `Algorithms` adds those, and its runs check both. Alphabets are reduced to what the code
tells apart: a JSON value is a string or an object, a line is a value, blank, no JSON,
or no UTF-8; a path or a template is a sequence of words; a version is a sequence of
numbers; a key with a dot is one of `Dotted`.

- `Limits`: `_parse_policy`'s comparisons, `_inline`, `--older-than`. A file is a sequence of
  bytes, each with its place in a character of up to four; decoding with replacement makes a
  character of three bytes of what a cut leaves of one.
- `OutputContract`: `parse_output`, `parse_session_id`, `best_effort_partial`, and the order in
  which `supervise` looks at session, reason, exit code and parse error.
- `Doctor`: `version_satisfies` and `check_agent`. The loop over the constraints that
  stops at the first that decides is the least index of those that do.
- `ConfigLayers`: `deep_merge`, `_apply_layer`, `load_config`, `toml_dumps`,
  `default_user_config`; a reader of TOML is added to say what the text means.
- `AgentDelivery`: `_parse_agent`, `to_dict` and back, the refusals of `start_task`,
  `build_command`. `_expand_many`'s loop over paths and words gives a sequence whose words are
  counted through row by row, a row for each path.

## 3. Runs

Every run is a row of `runs` in `PROJECT.json`. Those that pass:

| run | question | instance |
|---|---|---|
| `lifecycle` | With processes quicker than the deadlines: does an ended run stay ended, is the group gone when the outcome is published, does a claim keep its parent, does every run come to rest and every recorded cancellation end it, is `RunLifecycle` implemented? | one observer; every kind of background run and the foreground continuation; starter and supervisor may be killed |
| `adverse` | With deadlines that come early, store calls that raise and kills, all together: has a terminal state its result, is a RUNNING run given up only if its supervisor is dead? | one observer, `run --continue` |
| `conversation` | Through starts, continuations, polls and kills: are conversations linear, with one tip and one supervisor at work, is the limit kept? | two clients, three runs, limit 2, clients and supervisors killed |
| `purge` | With purges as well: is any kept run left waiting for a removed one, are overlapping writers kept apart, is the registry lock always released, is `Ledger` implemented? | two clients, two runs; clients (but not while purging) and supervisors killed |
| `statefile` | Does the protocol on disk implement one atomic record, with readers that take no lock, and does every update end? | three writers with one, two and two updates, and the creator; each may fail or be killed at each step |
| `capture` | Is the limit kept to the byte, is a run ended for it only when it is spent, does a completed run have all its output, are the counts true, does the supervisor always conclude? | limit 3, chunks of 2, up to 5 bytes altogether |
| `skill` | Is any target ever half written, is anything lost, is what was reported there, does somebody succeed? | two installers of two versions on two targets, every initial content, with and without `--force`, with and without failing calls, failing roll-backs and kills |
| `algorithms` | Do the sequential computations give what they should? | every input of the sets of `MCAlgorithms`: 194,454 questions |

**Why the instances are enough.** A run has one starter and one supervisor by
construction. A race needs one finisher that judged an old record and another that has
moved on; the starter, the supervisor and one observer are three finishers, and an
observer repeats its operations for ever, so it stands for any number of sequential
controllers. `run --continue` with a session found in the output is the kind with the
most steps: the claim comes late and may be withdrawn, the starter goes on polling and
may be interrupted. In the registry three runs are a parent and two rivals for its tip,
or one more than a limit of two; two clients are the holder of the lock and its rival.
`purge` has only two runs, a parent and its continuation, which is what a dangling link
takes. Three writers of a record are one that holds the lock, one that waits and one
that comes between its two updates. A limit of 3 with chunks of 2 is no multiple of the
chunk, so a chunk can be cut, and five bytes exceed it on one stream, or on both
together. Characters have one to four bytes and the excerpt's limit is small, so that a cut falls at every place of each. Versions have up to three parts so that two lengths can differ by one or two;
output files have up to two arbitrary lines, and three of the telling ones.

`MaxRuns`, `Commands`, `Requests`, `MaxWritten` and the sets of `MCAlgorithms` are bounds of the
models and not of the program. A client begins a start only if there is room for its record.
What the theorems of section 4 state holds without any of the bounds.

`purge` kills no client that is purging: killed between the removal of a child and of its
parent, purge does leave a parent that names a removed run. That parent is not resumable
until the next purge; nothing in the code or the documentation promises otherwise.

`CHECK_DEADLOCK FALSE` is said where the system comes to an end: in `MCRegistry.cfg` when
`MaxRuns` runs have ended, in `MCStateFile.cfg` when the updates are made, in
`MCOutputCapture.cfg` when the supervisor has concluded and the processes are gone, in
`MCSkillInstall.cfg` when the installers have ended, in `MCAlgorithms.cfg` after the answer.

### Fairness

The code's own processes are operating-system processes that are scheduled:
`SupervisorFair` and `StarterFair` are weak fairness of *a step of that process*, not of
each action. A waiting canceller loops between polling and its deadline, which therefore
is not continuously enabled; the clock advances whatever it does, hence strong fairness
of `CancelDeadline`. No observer need do anything and no worker need exit: the watch loop
has its own timeout, one of `Watch`'s outcomes. `Age`, the passing of ten seconds, is weakly fair.
`CancelEnds` needs a controller that goes on with what it began, which nothing in the program
enforces; it is therefore the premise of the property (`Polling`) and not part of the specification.
`PollingSpec`, under which two of the counterexamples below are found, has it as fairness, so
that they are no accident of a controller that stopped looking.

The registry's `FairSpec` is weak fairness per client in a call and per supervisor; no call
has to begin. `StateFile`'s is weak fairness per process: an `flock` is given to someone who waits when it is free,
and each process has finitely many updates. `OutputCapture`'s is weak fairness of the main thread and
of each copy thread, and strong fairness of `TimeUp`: the join's clock runs although the thread joined goes on
reading.

### Where code and documentation disagree

Four runs, with the documentation's sentence as the property and a counterexample from
the code. `findings` in `PROJECT.json` quotes both sides.

| run | what the counterexample shows | needs |
|---|---|---|
| `outcome` | a run seen COMPLETED becomes FAILED: a reconciler, or the handshake, loaded RUNNING or STARTING, then the supervisor published and exited, and only then was its process looked for | neither crash nor delay |
| `orphan` | CANCELLED is published while a helper of the group lives, if the leader is dead | a killed supervisor |
| `tip` | the parent's tip is never given back | a supervisor killed between two steps |
| `hang` | `run_task` polls for ever: the dead supervisor is its own unreaped child | a killed supervisor |

The counterexample of `outcome` passes through a state in which the record says COMPLETED
and `result.txt` already holds the second finisher's partial text, which `result_view`
would return as the final one. `OutcomeStays` fails in normal conditions, so the passing
runs state what the code does keep: `TerminalStays` (terminal stays terminal, under
`Timely`), `ResultBeforeTerminal`, `LostMeansGone`.

A start that is slower than a deadline is worse: `supervise` writes STARTING and RUNNING
over a terminal state and claims a session whose tip was given back. That is why
`TerminalStays` and `ClaimKeepsParent` are checked with `Timely = TRUE`; setting it to
`FALSE` in `VOutcome.cfg` and asking for either of them shows it.

Further disagreements and observations, which no run is about; where a passing property touches one, it
states what the code does:

- `src/README.md:124` says of the output limit "Reaching it terminates the task." Output
  of exactly the limit is no overflow (`supervisor.py:53`: only a chunk that exceeds what
  remains, or comes when nothing does, sets the flag), and an overflow is noticed only when a
  buffered read returns, after 64 KiB or at the end of the stream. In the run `capture` a worker
  that writes 3 bytes under a limit of 3 completes; `LimitIsSpent` says of the limit what both
  agree upon, that a task ended for it had spent it, and `NothingLost` that one that did not end
  for it lost nothing.
- `src/README.md:119` calls `inline_result_bytes` the maximum "embedded in command output, in bytes".
  The head and the tail are cut in the middle of a character at will (`store.py:284`), and decoding
  with replacement (`store.py:291`) makes three bytes of what is left of it at the head and of
  each stray byte at the tail. The text is then up to eight bytes longer than the
  limit; `InlineFits` says exactly this.
- Undecodable bytes in a document of the format `json` raise an error that neither
  `parse_output` nor `best_effort_partial` catches (`adapter.py:163`), so a cancelled or timed-out task ends
  FAILED with SPAWN_ERROR. `ReasonIsTold` names it as an
  exception, beside a task that resumed another session than it was told, which says that first.
- Two agents can work on one native session, or write in one directory: a supervisor killed between
  the start of the agent (`supervisor.py:179`) and its record (`supervisor.py:203`) leaves an
  agent that no record names. Reconciliation finds no child to kill, gives the run up and returns
  the tip, and the parent may be continued while the first agent is still at work. The same
  happens when the reconciler judges a copy of the record from before the child was recorded.
  `OneSupervisor` and `WorkspaceExclusive` are about runs and their supervisors, which is what the
  records and the admission know; the run `orphan` shows the kind of agent they do not see.
- A process that leaves the group with `setsid` keeps the pipe open. What the reader had
  buffered is then lost when the join times out, and the run can still be COMPLETED;
  `NothingLost` and `CountsAreTrue` are stated for workers that do not do this.
- `cli.py:464` says "older than this duration"; purge rounds the duration up to whole days, one at least.
- A key with a dot in a written TOML table reads back as a nested table;
  `SnapshotSaysTheSame` compares the paths that the keys spell.

## 4. Proofs

TLAPS checks the following for every value of the constants that the named
assumptions of the modules allow. Each invariant has an `Init` lemma and a step lemma
with one case per action; a theorem follows from them by temporal reasoning.

`TaskRunProofs`, for every set of observers, every set of kinds and every `Crashable`:

| theorem | statement | from |
|---|---|---|
| `TypeCorrect` | `Spec => []TypeOK` | `EndInv` |
| `ResultReadable` | `Spec => []ResultBeforeTerminal` | `EndInv` |
| `GivenUpOnlyWhenGone` | `Spec => []LostMeansGone` | `EndInv`, `LostInv` |
| `QuietWhenPublished` | `Spec => []SupervisorPublishesLast`, if `Faulty = FALSE` | `EndInv`, `LostInv`, `QuietInv` |
| `EndedStaysEnded` | `Spec => TerminalStays`, if `Timely = TRUE` | `EndInv`, `LostInv`, `TimelyInv` |
| `ClaimedKeepsParent` | `Spec => []ClaimKeepsParent`, if `Timely = TRUE` | `EndInv`, `LostInv`, `TimelyInv` |
| `Refinement` | `Spec => ImplementsLifecycle`, if `Timely = TRUE` | `EndInv`, `LostInv`, `TimelyInv` |

`ResultBeforeTerminal` is not inductive: a process about to write a terminal state must
be known to have saved. `EndInv` adds that a process in the finishing steps has a job
(`Finishing`, `JobsWhole`) and that one at `publish` has seen its result written.
`LostMeansGone` needs to know why a controller finds no supervisor for a RUNNING record:
not because it has not been recorded yet. `LostInv` adds `IdentityInv`: the supervisor's
identity reaches the record before RUNNING does, whether the starter or the supervisor
wrote it, and a controller's copy inherits that. `QuietInv` says where the supervisor's
program is when the group must be gone; it uses `LostInv` for a launch (no supervisor
existed before).

The last three theorems are false without `Timely` (section 3), and `TimelyInv` says what it
buys. A run is *spent* when no process may still make it active or claim its session: its
starter is past the launch and its supervisor does not run or only ends it (`Spent`). Once
`aged`, no start is under way (`StageInv`); a process that has decided to end the run, other
than its supervisor, does so of a spent run (`SpentInv`); and a tip is given back, or about to
be, only of a run that is spent and did not claim it (`TipInv`). A terminal state is then never
followed by an active one, and each step is a step of `RunLifecycle` or changes none of its
variables. `Faulty` may be true in all three.

The assumptions: no observer is called like the starter or the
supervisor, kinds are kinds, the fault switches have their types.

`StateFileProofs`, for any number of writers with any updates of any record:

| theorem | statement |
|---|---|
| `TypeCorrect` | `Spec => []TypeOK` |
| `ReadersSeeWholeRecords` | `Spec => []WholeRecords` |
| `RequestIsThere` | `Spec => []RequestFirst` |
| `NoUpdateLost` | `Spec => []UpdateTookEffect` |
| `Refinement` | `Spec => ImplementsAtomicRecord` |

The inductive invariant `IInv` says who is inside the lock (`WriterInv`: a process
between `Acquire` and `Release` is its holder, and only its draft and temporary file
are on the way), that what it drafted is the merge of the record that is still in the
file, and what the creator has written when (`CreatorInv`). The refinement adds `OneLogs`: at most one process is
between its rename and its append, so the abstract log is `events` with at most one more
entry. A kill between the two is the abstract log's loss of its last entry.

`OutputCaptureProofs`, for every limit, chunk and amount of output:

| theorem | statement |
|---|---|
| `TypeCorrect` | `Spec => []TypeOK` |
| `BudgetKept` | `Spec => []WithinLimit` |
| `LimitsAreSpent` | `Spec => []LimitIsSpent` |
| `CompletedIsComplete` | `Spec => []NothingLost` |
| `CountsMatchLogs` | `Spec => []CountsAreTrue` |

`IInv` relates, for each thread, what was taken, counted and stored at each point of its
loop (`CopyInv`), keeps the sum of the counts within the limit (`BudgetInv`), and says what
the main thread knows after a join: a thread it has waited for is at its end, unless a
process has left the group.

`RegistryProofs`, for any finite set of clients, any requests, commands and limits, any
number of runs, and whoever may be killed:

| theorem | statement | from |
|---|---|---|
| `TypeCorrect` | `Spec => []TypeOK` | `Base` |
| `CapacityHolds` | `Spec => []Capacity` | `Base`, `CountInv` |
| `WorkspacesExclusive` | `Spec => []WorkspaceExclusive` | `Base`, `CountInv` |
| `ConversationsLinear` | `Spec => []LinearConversation` | `Base`, `ConvInv` |
| `TipUnique` | `Spec => []OneTip` | `Base`, `ConvInv` |
| `SupervisorAlone` | `Spec => []OneSupervisor` | `Base`, `ConvInv` |
| `TipsAreKept` | `Spec => []NoDanglingTip`, if no purge is killed half-way | `Base`, `ConvInv`, `TipInv` |

`Base` says who is where and is inductive by itself: a client inside the lock is its
holder and has created its run or not (`PlaceInv`), each run has one starter and its
record is as that one left it (`StarterInv`), a run being given up has no supervisor and
will get none (`LostInv`), only its own supervisor moves a run that has one (`RunInv`).

*Capacity and workspaces.* The count is taken run by run from a list that grows old while
supervisors end, so "fewer than the limit" is not a fact about one state. `ScanInv` says
what is: a scan misses no admitted run, because runs become admitted only in `Mark`, under
the lock the scanner holds. `AdmitInv` carries the result to `Mark`: until then the admitted
runs are fewer than the limit and the new run's directory is apart from theirs.

*Conversations.* None of the three properties is inductive, because a claim and the link to
the parent are made by different processes at different times. A *user* of a conversation
is a run that claimed the session or may still come to (from `mark` until its supervisor
ends); it is the *latest* if no user follows it. `LatestInv`: a conversation has one latest
user; `UserInv`: a user is what its parent names. Users appear only in `Link`, which the
lock's holder takes after the test whose result `TestedInv` preserves; every other step
lets a run cease to be a user (`LinkQuiet`), gives back a tip that no user holds
(`LinkReturned`), creates a record (`LinkSubmitted`) or removes a terminal one
(`LinkRemoved`).

*Purge.* It removes the ended runs one by one, the youngest first, so on the way a run may name
one that is gone. `TipInv` says that such a run is itself on the list: a run that waits for a
continuation is older than it and has ended (`WaitInv`), so a list that has the continuation
has the run, and a continuation that is not listed stays. A purge that is killed leaves the
list unfinished; hence the assumption on `Crashable`, without which `WaitInv` and the theorem
are false.

The assumptions: clients are finitely many and are named apart from runs, requests are
requests, the limit is a positive number.

`RegistryRefinement`, under the same assumptions, and `LedgerProofs`:

| theorem | statement | from |
|---|---|---|
| `LinesInOrder` | `Spec => []LineInv` | `Base`, `ConvInv`, `OrderInv` |
| `Refinement` | `Spec => ImplementsLedger` | `Base`, `CountInv`, `ConvInv`, `OrderInv` |
| `LedgerKeeps` | `Ledger!Spec => [](LastAtWork /\ NeverForks /\ WithinLimits)`, for finitely many runs numbered from 1 | `LedgerInv` |

`ConvInv` knows who the latest user of a conversation is by following links; `Join` asks more,
that no user of it was created later. `LineInv` says so: nothing of a conversation was created
after its latest user, and nothing between a run and its continuation, but what no longer has part
in it. The second half is what makes it inductive: when a continuation ends unused and
its parent is the latest again, nobody stands between the two. `NewestInv` carries to `Link` that
a new run is younger than all users, which is true when it is admitted and stays so because users
appear under the lock only. The refinement then goes through the actions. A lemma for each kind of
change (`Unnoticed`, `AskSeen`, `JoinSeen`, `AdmitSeen`, `StopSeen`, `GiveUpSeen`, `ForgetSeen`)
says what the ledger sees of it, and a lemma for each client's step that it is such a change:
`AdmitSeen` needs `AdmitInv`, and that two directories above a third are prefixes of one
another (`PrefixesCompare`); `GiveUpSeen` needs that a lost run is not at work (`LostInv`).
`LedgerKeeps` says what that is worth to whoever reads the ledger only: of a conversation only the last run to join is at work, of two of its
users the later continues the earlier or one behind it, and admitted runs
are few and apart.

`SkillInstallProofs`, for any number of installers, targets and versions, any contents, any
set of installers with `--force`, and (but for the last) failing calls, failing roll-backs and kills:

| theorem | statement | from |
|---|---|---|
| `TypeCorrect` | `Spec => []TypeOK` | `Base` |
| `NothingGoesMissing` | `Spec => NothingLost` | `Base`, `DropInv` |
| `ForeignIsLeftAlone` | `Spec => ForeignStays` | `Base`, `ForeignInv` |
| `ReportsAreKept` | `Spec => []ReportedIsThere` | `Base`, `DropInv`, `ForeignInv`, `ThereInv` |
| `NotAllFail` | `Spec => []SomeoneSucceeds` | `Base`, `OrderInv`, `RaceInv`, `EarlyInv` |

`TypeOK` is where a half-written or half-removed tree at a target would show; `Base` adds what
a busy installer holds at each step. `DropInv`: a backup is dropped only once something whole is
at the target. `ForeignInv`: without `--force` no target that an installer means to replace bears no
marker, none that it has planned or dealt with is foreign, and nothing foreign was moved aside; what is
not ours and not identical ends the plan, and none appears later.
`ThereInv` follows a reported target through the others' steps: something whole of it is kept, and
if neither a roll-back's rename fails nor anybody is killed it is there, or somebody
holds what was there and has still to move a tree in or to roll back: who finds the place taken
when it would roll back need not. `RaceInv` is the argument
that installers cannot all trip over each other. They go through the targets in one order; the
one that is furthest found its target's place taken only by another that is as far (`Ahead`,
`Passed`, with `FirstOnes` and `LastOnes` for the order), so among those that are furthest one
has not failed (`Alive`). `EarlyInv` adds that an installer is refused for nothing only if another has
gone beyond its plan: while all are planning nothing moves.

`ComputationsProofs`, for all inputs: policies, files, contracts, sessions, ends, probes,
machines, agents, requests and parents of any size and number, and any length of the marker and of a day:

| theorem | statement |
|---|---|
| `ExcerptsFit` | `ComputeSpec => []InlineFits` |
| `CutoffsRight` | `ComputeSpec => []PurgeKeepsYounger` |
| `ReasonsAreTold` | `ComputeSpec => []ReasonIsTold` |
| `ResultsMatch` | `ComputeSpec => []ResultIsTheMatch` |
| `SessionsAgree` | `ComputeSpec => []OneSession` |
| `VerdictsRight` | `ComputeSpec => []DoctorVerdict` |
| `AdmissionSuffices` | `ComputeSpec => []NothingMissing`, the first half of `Delivered` |
| `DeliveriesExact` | `WordsTellApart` implies `ComputeSpec => []Delivered` |
| `VersionsOrdered` | the constraints `<`, `<=`, `==`, `>=`, `>` are one total order of versions |

Each is a lemma about an operator and a frame: the other steps ask something else. `Room`
and `DaysKept` are the arithmetic of the excerpt and of the rounding. `ExcerptsFit` goes from
the bytes around a cut (`Around`) to the boundaries of characters (`CutBoundaries`), to what decoding makes of head
and tail (`HeadDecoded`, `TailDecoded`), and to the length (`ExcerptLength`). `ReasonsAreTold`
and `SessionsAgree` are about the order in which the supervisor looks at session, reason, exit
and parse error, and take what selection and `Lookup` find as it is. `ResultsMatch` is about the
selection: its loop over the lines is a recursive function (`TextsUpTo`), whose equation
`GatherAll` establishes by going to the least line at which it could fail; `Gathered` says that after each line
the texts are those of the selected lines so far, each at the place its line has among them,
and `Collected` takes the first, the last or all. `PaddedOrder` shows that
what two padded versions say does not depend on how far they are padded, so that the doctor's
comparisons, each padded to a width of its own, agree with one order (`EarlierIsTotal` and
`EarlierIsTransitive` follow from a first place where two versions differ, which `LeastPlace` supplies).
`AdmissionSuffices` goes along an agent's way: `Parsed` (the agent written to `request.json` is parsed
into the same agent), `WhatIsAdmitted` (what `Refused` and `CannotContinue` let pass `CannotBuild`
lets pass too) and `CommandHolds` (the command line holds its parts; `ExpandedMany` is the
arithmetic of a template repeated for each path). `DeliveriesExact` adds the other half, `NothingMore`,
for tables and requests whose words tell each other apart: no template has a placeholder but its
own, and no word is the prompt, the directory or a new id. It follows the words from the templates
into the command line (`ExpandedOnly`, `ExpandedManyOnly`, `CommandOnly`), where the prompt has one
place or none (`PromptOnce`). The code does not check this of a table and for others the
property is false, so `WordsTellApart` is a hypothesis of this theorem and no assumption of
the module; TLC evaluates that the inputs of the run `algorithms` satisfy it.
The assumptions: the marker and a byte on either side fit the least limit, durations are
positive, an output is a list of lines, a contract is one that the configuration accepts, a worker is stopped for one of three reasons, words are strings, and the probe and
agent tables have their types.

**Only model-checked.** Liveness (`ComesToRest`, `CancelEnds`, `LockReturns`, `UpdatesEnd`,
`CaptureEnds`), which the prover does not do; `MergeByPath`, `PresetIsOriginal` and `SnapshotSaysTheSame`, about
recursive operators. What happens to `TaskRun` when deadlines come
early, beyond the first four theorems, is a matter of runs (`adverse` and the counterexamples).

## 5. Not modelled, and why

- A process id reused by another process: `same_process` compares start times, so the
  models give every process one identity.
- A process that survives SIGKILL for a while: `Terminate`, `Sweep` and `Kill` of `TaskRun` take
  it to be effective at once.
- Listing: a registry scan lists the records in one step, though the code opens them one
  by one; what each says may be old by the time it is judged.
- Contents of prompts, logs, events and outputs, beyond what the output contract tells
  apart.
- The daily marker of automatic retention (`maybe_purge`): it decides only how often
  `purge` is called. A directory left by a `create_run` that died before `state.json` is
  in no list and never removed.
- `cliexec logs`: one seek from the end of a file.
- Configuration: checks that a field has its type, names of unknown fields, the tables for the
  environment and for probes; the timeout the command line chooses when none is given.
- Lookup of the executable, the environment of the worker, exit codes, help texts and the
  formatting of output: no state, no choice that another component depends on.

## 6. How to run

    tlc -workers 2 -config MCTaskRun.cfg MCTaskRun
    tlc -workers 2 -config MCRegistry.cfg MCRegistry
    tlc -workers 2 -config MCRegistryPurge.cfg MCRegistry
    tlc -workers 2 -config MCStateFile.cfg MCStateFile
    tlc -workers 2 -config MCOutputCapture.cfg MCOutputCapture
    tlc -workers 2 -config MCSkillInstall.cfg MCSkillInstall
    tlc -workers 2 -config MCAlgorithms.cfg MCAlgorithms
    tlapm TaskRunProofs.tla
    tlapm StateFileProofs.tla
    tlapm OutputCaptureProofs.tla
    tlapm RegistryProofs.tla
    tlapm RegistryRefinement.tla
    tlapm LedgerProofs.tla
    tlapm SkillInstallProofs.tla
    tlapm ComputationsProofs.tla
