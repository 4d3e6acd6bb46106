---------------------------- MODULE Computations ----------------------------
(***************************************************************************)
(* The sequential computations of the program, each asked once for some    *)
(* input: a step picks an input and computes the answer, the properties    *)
(* compare the answer with what it should be, told another way.  Those on  *)
(* tables of the configuration are in Algorithms.                          *)
(***************************************************************************)
EXTENDS Limits, OutputContract, Doctor, AgentDelivery

CONSTANTS
  Policies, Files, Ages, Durations,             \* Limits
  OutputFiles, Contracts, Sessions, Ends,       \* OutputContract
  Probes, Machines,                             \* Doctor
  Agents, Requests, Parents                     \* AgentDelivery

\* Numbers are numbers, a duration is positive (parse_duration), and a result file is
\* what save_result encoded.
ASSUME NumbersAssumption ==
  /\ \A policy \in Policies : policy.inline_result_bytes \in Int
  /\ \A file \in Files : IsText(file)
  /\ Ages \subseteq Nat
  /\ Durations \subseteq Nat \ {0}

\* An output is a list of lines, and a contract one that the configuration accepts.
ASSUME ContractsAssumption ==
  /\ \A file \in OutputFiles : file \in Seq(ToSet(file))
  /\ \A output \in Contracts : OutputAccepted(output)

\* A worker is stopped for one of three reasons, or ends by itself.
ASSUME EndsAssumption ==
  \A run \in Ends : run.reason \in {"none", "CANCELLED", "TIMEOUT", "OUTPUT_LIMIT"}

\* A probe's range is a list of constraints; a probe of the version fails, finds
\* none, or finds the numbers of one.
VersionConstraints == [op : {"<", "<=", ">", ">=", "=="}, bound : Seq(Nat)]
ASSUME DoctorAssumption ==
  /\ Unparsable \notin VersionConstraints
  /\ {Failed, NoVersion} \cap Seq(Nat) = {} /\ Failed # NoVersion
  /\ \A probe \in Probes :
       /\ probe.version_args \in BOOLEAN /\ probe.version_regex \in BOOLEAN
       /\ probe.help_args \in BOOLEAN
       /\ probe.tested_versions \in Seq(VersionConstraints \cup {Unparsable})
  /\ \A machine \in Machines :
       /\ machine.found \in BOOLEAN
       /\ machine.version \in Seq(Nat) \cup {Failed, NoVersion}

\* Words are strings, so templates are sequences of them (_string_tuple), and
\* the tables of an agent hold what _parse_agent reads in them.
Templates == Seq(STRING)
InputTables == [mode : STRING, prompt_arg : STRING, file_args : Templates,
                image_args : Templates, cwd_args : Templates]
SessionTables == [id_strategy : STRING, new_args : Templates, resume_args : Templates,
                  id_match : SUBSET STRING, id_field : STRING \cup {None}]
ASSUME AgentsAssumption ==
  /\ {PromptWord, Cwd, Fresh} \subseteq STRING
  /\ None \notin STRING /\ None \notin SessionTables
  /\ \A raw \in Agents :
       LET agent == AgentConfig(raw)
       IN  /\ agent.command \in Templates
           /\ agent.input \in InputTables
           /\ agent.session \in SessionTables \cup {None}
           /\ \A mode \in DOMAIN agent.modes : agent.modes[mode] \in Templates
  /\ \A request \in Requests : request.files \in Templates /\ request.images \in Templates
  /\ \A parent \in Parents \ {None} : parent.native \in STRING \cup {None}

VARIABLES
  call,    \* what was asked, with its input
  answer   \* what the program computes

vars == <<call, answer>>

Init == call = [of |-> "nothing"] /\ answer = <<>>

Idle == call.of = "nothing"

Ask(what, result) ==
  /\ call' = what
  /\ answer' = result

-----------------------------------------------------------------------------
\* `result`: the policy recorded with the run limits the excerpt.
ReadResult ==
  /\ Idle
  /\ \E policy \in Policies, file \in Files :
       /\ PolicyAccepted(policy)
       /\ Ask([of |-> "result", policy |-> policy, file |-> file],
              Inline(file, policy.inline_result_bytes))

PurgeOlderThan ==
  /\ Idle
  /\ \E age \in Ages, asked \in Durations :
       Ask([of |-> "purge", age |-> age, asked |-> asked], TooOld(age, Retention(asked)))

EndTask ==
  /\ Idle
  /\ \E file \in OutputFiles, output \in Contracts, session \in Sessions, run \in Ends :
       /\ session # Missing => output.format # "text"
       /\ Contains(file, Undecodable) => output.format = "json"
       /\ Ask([of |-> "end", file |-> file, output |-> output, session |-> session, run |-> run],
              Conclude(file, output, session, run))

Check ==
  /\ Idle
  /\ \E probe \in Probes, machine \in Machines :
       Ask([of |-> "doctor", probe |-> probe, machine |-> machine], CheckAgent(probe, machine))

Delegate ==
  /\ Idle
  /\ \E agent \in Agents, request \in Requests, parent \in Parents, ceiling \in ToSet(Permissions) :
       Ask([of |-> "delegate", agent |-> agent, request |-> request, parent |-> parent],
           Deliver(agent, request, parent, ceiling))

ComputeNext ==
  \/ ReadResult
  \/ PurgeOlderThan
  \/ EndTask
  \/ Check
  \/ Delegate

ComputeSpec == Init /\ [][ComputeNext]_vars

-----------------------------------------------------------------------------
(* What the answers should be.                                             *)

\* Between two characters of a text, or at either end of it.
Boundary(text, place) == place = 0 \/ text[place].at = text[place].width

\* What is read of a file that is too long: its start and its end, one as long as
\* the other but for a byte, with the marker exactly as long as the limit.  The text
\* has every character that was read whole, and has replaced what was read of one
\* that either cut goes through.
Excerpt(text, file, limit) ==
  \E head, tail \in Nat \cap 1..limit, left, strays \in 0..3 :
    /\ head + MarkerLength + tail = limit
    /\ tail - head \in {0, 1}
    /\ left <= head /\ Boundary(file, head - left)
    /\ strays <= tail /\ Boundary(file, Len(file) - tail + strays)
    /\ Boundary(file, head) => left = 0
    /\ Boundary(file, Len(file) - tail) => strays = 0
    /\ text = (SubSeq(file, 1, head - left) \o Replacements(IF left = 0 THEN 0 ELSE 1))
              \o Marker
              \o (Replacements(strays) \o SubSeq(file, Len(file) - tail + strays + 1, Len(file)))

\* What is embedded is the whole file when that fits, and otherwise its excerpt:
\* the policy never leaves the marker without room, and replacing what was cut
\* makes the text up to eight bytes longer than the limit and never longer.
InlineFits == call.of = "result" =>
  LET file  == call.file
      limit == call.policy.inline_result_bytes
  IN  IF Len(file) <= limit
      THEN answer = [text |-> file, truncated |-> FALSE]
      ELSE answer.truncated /\ Excerpt(answer.text, file, limit) /\ Len(answer.text) <= limit + 8

\* purge --older-than never takes a run that is no older than what was asked,
\* and takes every run older than a day more than that.
PurgeKeepsYounger == call.of = "purge" =>
  /\ answer => call.age > call.asked
  /\ call.age >= call.asked + Day => answer

\* The lines of the output that carry a text the contract selects.
Selected ==
  {i \in DOMAIN call.file :
     /\ call.file[i] \notin {Blank, Garbled, Undecodable}
     /\ Matches(call.file[i], call.output.match)
     /\ Lookup(call.file[i], call.output.field) # Missing
     /\ AsText(Lookup(call.file[i], call.output.field)) # ""}

Wanted ==
  CASE call.output.collect = "concat" -> Selected
    [] call.output.collect = "first"  -> {i \in Selected : \A j \in Selected : i <= j}
    [] call.output.collect = "last"   -> {i \in Selected : \A j \in Selected : j <= i}

\* A completed task's result is the text of the lines the contract wants, in
\* their order; and a task is not completed when a line cannot be read, even
\* one behind the result.
ResultIsTheMatch == call.of = "end" /\ call.output.format # "text" =>
  /\ answer.state = "COMPLETED" =>
       /\ ~\E i \in DOMAIN call.file : call.file[i] \in {Garbled, Undecodable}
       /\ Wanted # {} /\ Len(answer.result) = Cardinality(Wanted)
       /\ \A i \in Wanted : answer.result[Cardinality({j \in Wanted : j <= i})]
                              = AsText(Lookup(call.file[i], call.output.field))
  /\ answer.code = "PROTOCOL_ERROR" /\ call.session = Missing =>
       \/ Selected = {}
       \/ \E i \in DOMAIN call.file : call.file[i] \in {Garbled, Undecodable}
       \/ call.output.format = "json" /\ Len(call.file) # 1

\* A completed task of an agent whose output names the session has one: every
\* line that names a session names that one, and a continued task has kept the
\* session it was given.
OneSession == call.of = "end" /\ call.session # Missing /\ answer.state = "COMPLETED" =>
  /\ call.run.native \in {Missing, answer.session}
  /\ \E i \in DOMAIN call.file :
       call.file[i] # Blank /\ Matches(call.file[i], call.session.id_match)
  /\ \A i \in DOMAIN call.file :
       LET named == Lookup(call.file[i], call.session.id_field)
       IN  /\ call.file[i] # Blank
           /\ Matches(call.file[i], call.session.id_match)
           /\ named # Missing
           => ~IsObject(named) /\ named.text = answer.session

\* The lines that name a session.
Naming(file, session) ==
  {i \in DOMAIN file : /\ file[i] # Blank
                       /\ Matches(file[i], session.id_match)
                       /\ Lookup(file[i], session.id_field) # Missing}

\* The output can be read to its end and names one session, which is not the one
\* that the task was to continue.
ResumedAnother(file, format, session, native) ==
  /\ session # Missing /\ native # Missing
  /\ ~Contains(file, Garbled)
  /\ format = "json" => Len(file) = 1 /\ file[1] # Blank
  /\ \E i \in Naming(file, session) :
       LET named == Lookup(file[i], session.id_field)
       IN  /\ ~IsObject(named) /\ named.text \notin {"", native}
           /\ \A j \in Naming(file, session) : Lookup(file[j], session.id_field) = named

\* Why a task ended that did not end by itself, or did with an error.
Cause(run) ==
  IF run.reason # "none" THEN [state |-> ReasonState(run.reason), code |-> run.reason]
                         ELSE [state |-> "FAILED", code |-> "NONZERO_EXIT"]

\* Such a task says why, whatever the worker wrote, with two exceptions: one that
\* resumed another session than it was told says that, and one whose output is a
\* JSON document with bytes that are no text fails as if it had not been started,
\* even when it was cancelled or timed out.
ReasonIsTold ==
  call.of = "end" /\ (call.run.reason # "none" \/ ~call.run.exited) =>
    answer =
      IF Contains(call.file, Undecodable) THEN [state |-> "FAILED", code |-> "SPAWN_ERROR"]
      ELSE IF ResumedAnother(call.file, call.output.format, call.session, call.run.native)
      THEN [state |-> "FAILED", code |-> "PROTOCOL_ERROR"]
      ELSE Cause(call.run)

-----------------------------------------------------------------------------
\* A version's part at a place; what is missing is zero.
Part(version, i) == IF i \in DOMAIN version THEN version[i] ELSE 0
Places(a, b) == DOMAIN a \cup DOMAIN b

\* At the first place where they differ, a is the smaller.
Before(a, b) ==
  \E i \in Places(a, b) : /\ Part(a, i) < Part(b, i)
                          /\ \A j \in Places(a, b) : j < i => Part(a, j) = Part(b, j)
Alike(a, b) == \A i \in Places(a, b) : Part(a, i) = Part(b, i)

Met(version, constraint) ==
  \/ constraint.op \in {"<", "<="} /\ Before(version, constraint.bound)
  \/ constraint.op \in {">", ">="} /\ Before(constraint.bound, version)
  \/ constraint.op \in {"<=", "==", ">="} /\ Alike(version, constraint.bound)

\* The doctor passes an agent exactly when everything it can be asked for was
\* found; a version outside the tested range is no failure.  Of the range it
\* says "yes" only when every constraint is understood and met, "no" only when
\* one is not met, comparing versions place by place whatever their lengths.
DoctorVerdict == call.of = "doctor" =>
  LET probe   == call.probe
      machine == call.machine
      range   == probe.tested_versions
      judged  == /\ machine.found /\ probe.version_args /\ range # <<>>
                 /\ machine.version \notin {Failed, NoVersion}
      read    == {i \in DOMAIN range : range[i] # Unparsable}
      met     == {i \in read : Met(machine.version, range[i])}
  IN  /\ answer.ok <=>
           /\ machine.found
           /\ probe.version_args => machine.version # Failed
           /\ probe.version_regex => probe.version_args /\ machine.version # NoVersion
           /\ probe.help_args => machine.help # Failed
           /\ probe.help_contains # {} =>
                probe.help_args /\ probe.help_contains \subseteq machine.help
      /\ answer.compatible = "unchecked" <=> ~judged
      /\ judged =>
           /\ answer.compatible = "yes" <=> machine.version # <<>> /\ met = DOMAIN range
           /\ answer.compatible = "no" => machine.version # <<>> /\ met # read
           /\ machine.version # <<>> /\ read = DOMAIN range /\ met # read
                => answer.compatible = "no"

-----------------------------------------------------------------------------
\* Neither the configuration nor start_task refused.
Admitted ==
  call.of = "delegate" /\ answer.stage \notin {"configuration refused", "request refused"}

\* What start_task admits, the supervisor builds a command for, out of the
\* agent that was checked: the second parse of the agent and the second round
\* of checks never refuse.  The worker gets the prompt, every attachment, the
\* directory if its command line takes one, and the session it is to use.
NothingMissing == Admitted =>
  LET argv   == answer.command.argv
      given  == ToSet(argv)
      agent  == AgentConfig(call.agent)
  IN  /\ answer.stage = "delivered" /\ answer.same
      /\ answer.command.stdin = PromptWord \/ PromptWord \in given
      /\ ToSet(call.request.files) \cup ToSet(call.request.images) \subseteq given
      /\ agent.input.cwd_args # <<>> => Cwd \in given
      /\ call.parent # None => call.parent.native \in given
      /\ agent.session # None /\ agent.session.id_strategy = "generated" /\ call.parent = None
           => Fresh \in given

\* The placeholders, and the words only the program puts in their place.
Placeholders == {"{path}", "{cwd}", "{session_id}", "{prompt}"}
OwnWords     == {PromptWord, Cwd, Fresh}

\* Nothing comes twice, or comes unasked, and nothing of a template is left.
NothingMore == Admitted =>
  LET argv  == answer.command.argv
      given == ToSet(argv)
      agent == AgentConfig(call.agent)
  IN  /\ Cardinality({i \in DOMAIN argv : argv[i] = PromptWord})
           + (IF answer.command.stdin = PromptWord THEN 1 ELSE 0) = 1
      /\ call.parent # None => Fresh \notin given
      /\ Cwd \in given => agent.input.cwd_args # <<>>
      /\ given \cap Placeholders = {}

\* The command line holds what was asked for, and nothing else of that kind.
Delivered == NothingMissing /\ NothingMore

\* No word of an agent, a request or a parent is taken for another: a template
\* has no placeholder but its own, paths and sessions are no placeholders, and
\* the prompt, the directory and a new session's id are in none of them.  The
\* configuration does not ask for it: an agent whose command has the word
\* "{prompt}" is accepted, and the word left as it is.
Only(template, placeholders) ==
  ToSet(template) \cap (Placeholders \cup OwnWords) \subseteq placeholders
WordsTellApart ==
  /\ PromptWord # Cwd /\ PromptWord # Fresh /\ Cwd # Fresh
  /\ OwnWords \cap Placeholders = {}
  /\ \A raw \in Agents :
       LET agent == AgentConfig(raw)
       IN  /\ Only(agent.command, {})
           /\ \A mode \in DOMAIN agent.modes : Only(agent.modes[mode], {})
           /\ Only(agent.input.file_args, {"{path}"})
           /\ Only(agent.input.image_args, {"{path}"})
           /\ Only(agent.input.cwd_args, {"{cwd}"})
           /\ agent.session # None => /\ Only(agent.session.new_args, {"{session_id}"})
                                      /\ Only(agent.session.resume_args, {"{session_id}"})
  /\ \A request \in Requests : Only(request.files, {}) /\ Only(request.images, {})
  /\ \A parent \in Parents \ {None} : parent.native \notin Placeholders \cup OwnWords
=============================================================================
