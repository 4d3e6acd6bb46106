--------------------------- MODULE AgentDelivery ----------------------------
(***************************************************************************)
(* An agent's way from its configuration to the worker's command line: the *)
(* table is parsed, a request for it is admitted or refused, the agent is  *)
(* recorded with the run, and the supervisor parses the record and builds  *)
(* the command from it.                                                    *)
(*                                                                         *)
(* An argument template is a sequence of words; a word that names a        *)
(* placeholder stands for every word that contains it.                     *)
(***************************************************************************)
EXTENDS Integers, SequencesExt

CONSTANTS
  None,          \* a value that is not there
  PromptWord,    \* the worker's prompt: the request's and the constraint
  Cwd, Fresh     \* the working directory, and a new session's id

\* The ranks of the permissions are their places in this sequence.
Permissions == <<"read_only", "workspace_write", "unrestricted">>
Rank(permission) == CHOOSE i \in DOMAIN Permissions : Permissions[i] = permission

NoTable == [key \in {} |-> None]
Field(table, key, default) == IF key \in DOMAIN table THEN table[key] ELSE default
Holds(template, placeholder) == Contains(template, placeholder)

-----------------------------------------------------------------------------
(* _parse_agent.                                                           *)

InputConfig(raw) ==
  [mode       |-> Field(raw, "mode", "stdin"),
   prompt_arg |-> Field(raw, "prompt_arg", "{prompt}"),
   file_args  |-> Field(raw, "file_args", <<>>),
   image_args |-> Field(raw, "image_args", <<>>),
   cwd_args   |-> Field(raw, "cwd_args", <<>>)]

InputAccepted(input) ==
  /\ input.mode \in {"stdin", "argv"}
  /\ input.mode = "argv" => input.prompt_arg = "{prompt}"
  /\ input.file_args # <<>>  => Holds(input.file_args, "{path}")
  /\ input.image_args # <<>> => Holds(input.image_args, "{path}")
  /\ input.cwd_args # <<>>   => Holds(input.cwd_args, "{cwd}")

OutputConfig(raw) ==
  [format  |-> Field(raw, "format", "text"),
   field   |-> Field(raw, "field", None),
   collect |-> Field(raw, "collect", "last")]

OutputAccepted(output) ==
  /\ output.format \in {"text", "json", "jsonl"}
  /\ output.collect \in {"first", "last", "concat"}
  /\ output.format # "text" => output.field # None

SessionConfig(raw) ==
  IF raw = None THEN None
  ELSE [id_strategy |-> Field(raw, "id_strategy", ""),
        new_args    |-> Field(raw, "new_args", <<>>),
        resume_args |-> Field(raw, "resume_args", <<>>),
        id_match    |-> Field(raw, "id_match", {}),
        id_field    |-> Field(raw, "id_field", None)]

SessionAccepted(session, output) ==
  session # None =>
    /\ session.id_strategy \in {"generated", "output"}
    /\ Holds(session.resume_args, "{session_id}")
    /\ session.id_strategy = "generated" =>
         /\ Holds(session.new_args, "{session_id}")
         /\ session.id_match = {} /\ session.id_field = None
    /\ session.id_strategy = "output" =>
         /\ ~Holds(session.new_args, "{session_id}")
         /\ output.format # "text"
         /\ session.id_field # None

AgentConfig(raw) ==
  [command            |-> raw.command,
   success_exit_codes |-> Field(raw, "success_exit_codes", <<0>>),
   allow_unrestricted |-> Field(raw, "allow_unrestricted", FALSE),
   input              |-> InputConfig(Field(raw, "input", NoTable)),
   output             |-> OutputConfig(Field(raw, "output", NoTable)),
   session            |-> SessionConfig(Field(raw, "session", None)),
   modes              |-> LET modes == Field(raw, "modes", NoTable)
                          IN  [m \in DOMAIN modes |-> Field(modes[m], "args", <<>>)]]

AgentAccepted(agent) ==
  /\ agent.command # <<>>
  /\ InputAccepted(agent.input)
  /\ OutputAccepted(agent.output)
  /\ SessionAccepted(agent.session, agent.output)
  /\ DOMAIN agent.modes \subseteq ToSet(Permissions)

\* The agent as the run's request file keeps it.
ToDict(agent) == [agent EXCEPT !.modes = [m \in DOMAIN @ |-> [args |-> @[m]]]]

-----------------------------------------------------------------------------
(* start_task.                                                             *)

\* A bug: attachments are left for the worker to refuse.
RefusedLeniently(agent, request, ceiling) ==
  \/ Rank(request.permission) > Rank(ceiling)
  \/ request.permission \notin DOMAIN agent.modes
  \/ request.permission = "unrestricted" /\ ~agent.allow_unrestricted
  \/ request.files # <<>> /\ agent.input.file_args = <<>>

Refused(agent, request, ceiling) ==
  \/ Rank(request.permission) > Rank(ceiling)
  \/ request.permission \notin DOMAIN agent.modes
  \/ request.permission = "unrestricted" /\ ~agent.allow_unrestricted
  \/ request.files # <<>> /\ agent.input.file_args = <<>>
  \/ request.images # <<>> /\ agent.input.image_args = <<>>

\* What of _continuation_problem is about the agent and the parent's session.
CannotContinue(agent, parent) ==
  parent # None /\ (agent.session = None \/ parent.native = None \/ ~parent.claimed)

\* The session recorded with the new run.
NativeSession(agent, parent) ==
  CASE parent # None -> parent.native
    [] parent = None /\ agent.session # None -> IF agent.session.id_strategy = "generated"
                                                THEN Fresh ELSE None
    [] parent = None /\ agent.session = None -> None

-----------------------------------------------------------------------------
(* build_command.                                                          *)

Expand(template, placeholder, value) ==
  [i \in DOMAIN template |-> IF template[i] = placeholder THEN value ELSE template[i]]

\* The template once for each path, one row after the other.
ExpandMany(template, paths) ==
  LET width == Len(template)
  IN  [k \in 1 .. width * Len(paths) |->
         Expand(template, "{path}", paths[((k - 1) \div width) + 1])[((k - 1) % width) + 1]]

CannotBuild(agent, request, native, resume) ==
  \/ request.permission \notin DOMAIN agent.modes
  \/ request.permission = "unrestricted" /\ ~agent.allow_unrestricted
  \/ request.files # <<>> /\ agent.input.file_args = <<>>
  \/ request.images # <<>> /\ agent.input.image_args = <<>>
  \/ resume /\ (agent.session = None \/ native = None)
  \/ ~resume /\ agent.session # None /\ agent.session.id_strategy = "generated" /\ native = None

SessionArgs(agent, native, resume) ==
  CASE resume                           -> Expand(agent.session.resume_args, "{session_id}", native)
    [] ~resume /\ agent.session = None  -> <<>>
    [] ~resume /\ agent.session # None  ->
         IF agent.session.id_strategy = "generated"
         THEN Expand(agent.session.new_args, "{session_id}", native)
         ELSE agent.session.new_args

BuildCommand(agent, request, native, resume) ==
  [argv  |-> agent.command \o agent.modes[request.permission]
               \o Expand(agent.input.cwd_args, "{cwd}", Cwd)
               \o SessionArgs(agent, native, resume)
               \o ExpandMany(agent.input.file_args, request.files)
               \o ExpandMany(agent.input.image_args, request.images)
               \o (IF agent.input.mode = "argv"
                   THEN Expand(<<agent.input.prompt_arg>>, "{prompt}", PromptWord) ELSE <<>>),
   stdin |-> IF agent.input.mode = "argv" THEN None ELSE PromptWord]

\* The whole way: how far a request comes, and what the worker gets.
Deliver(raw, request, parent, ceiling) ==
  LET agent  == AgentConfig(raw)
      kept   == AgentConfig(ToDict(agent))
      native == NativeSession(agent, parent)
  IN  IF ~AgentAccepted(agent) THEN [stage |-> "configuration refused"]
      ELSE IF Refused(agent, request, ceiling) \/ CannotContinue(agent, parent)
      THEN [stage |-> "request refused"]
      ELSE IF ~AgentAccepted(kept) \/ CannotBuild(kept, request, native, parent # None)
      THEN [stage |-> "supervisor fails"]
      ELSE [stage |-> "delivered", same |-> kept = agent,
            command |-> BuildCommand(kept, request, native, parent # None)]
=============================================================================
