---------------------------- MODULE MCAlgorithms ----------------------------
(***************************************************************************)
(* Bounded inputs for the computations.                                    *)
(***************************************************************************)
EXTENDS Algorithms

\* A marker of 3 bytes, at least 5 inline, days of 4 seconds.
AllPolicies ==
  [max_concurrency : {0, 1}, default_timeout : {0, 2, 3}, max_timeout : {1, 2, 4},
   retention_days : {0, 1}, inline_result_bytes : {2, 5, 6, 9}, max_output_bytes : {5, 8, 10}]

Str(t) == [text |-> t]
Obj(f) == [object |-> f]
Values ==
  {Obj([type |-> Str("end")]), Obj([type |-> Str("end"), say |-> Obj([text |-> Str("")])]),
   Obj([type |-> Str("end"), say |-> Str("a")]), Str("a")}
  \cup {Obj([type |-> Str(type), say |-> Obj([text |-> Str(t)])]) :
          type \in {"end", "note"}, t \in {"a", "b"}}
  \cup {Obj([type |-> Str("id"), id |-> Str(t)]) : t \in {"", "s1", "s2"}}
AllFiles == BoundedSeq(Values \cup {Blank, Garbled}, 2)
              \cup {<<Undecodable>>}
              \cup TupleOf({Obj([type |-> Str("end"), say |-> Obj([text |-> Str("a")])]),
                            Obj([type |-> Str("end"), say |-> Obj([text |-> Str("b")])]),
                            Obj([type |-> Str("end"), say |-> Obj([text |-> Str("")])]),
                            Obj([type |-> Str("id"), id |-> Str("s1")]),
                            Obj([type |-> Str("id"), id |-> Str("s2")]), Garbled}, 3)
AllContracts ==
  {[format |-> f, match |-> (<<"type">> :> Str("end")), field |-> <<"say", "text">>, collect |-> c] :
     f \in {"json", "jsonl"}, c \in {"first", "last", "concat"}}
  \cup {[format |-> "jsonl", match |-> [p \in {} |-> Blank], field |-> <<"say">>, collect |-> "last"],
        [format |-> "text", match |-> [p \in {} |-> Blank], field |-> <<>>, collect |-> "last"]}
AllSessions ==
  {Missing, [id_match |-> (<<"type">> :> Str("id")), id_field |-> <<"id">>]}
AllEnds ==
  [reason : {"none", "CANCELLED", "OUTPUT_LIMIT"}, exited : BOOLEAN, native : {Missing, "s1"}]
  \cup [reason : {"TIMEOUT"}, exited : {FALSE}, native : {Missing}]

Versions == BoundedSeq({0, 1, 9}, 3)
Ranges ==
  LET one == {Unparsable} \cup [op : {"<", "<=", ">", ">=", "=="},
                                bound : {<<1>>, <<1, 0>>, <<0, 9>>, <<1, 9, 0>>, <<9, 1, 1>>}]
  IN  {<<>>} \cup {<<c>> : c \in one} \cup {<<c, d>> : c \in one, d \in one}
AllProbes ==
  [version_args : {TRUE}, version_regex : {FALSE}, tested_versions : Ranges,
   help_args : {FALSE}, help_contains : {{}}]
  \cup [version_args : BOOLEAN, version_regex : BOOLEAN,
        tested_versions : {<<>>, <<[op |-> ">=", bound |-> <<1>>]>>},
        help_args : BOOLEAN, help_contains : {{}, {"--model"}}]
AllMachines ==
  [found : {TRUE}, version : Versions, help : {{}}]
  \cup [found : BOOLEAN, version : {Failed, NoVersion, <<0, 9>>, <<1, 2>>},
        help : {Failed, {}, {"--model", "--file"}}]

PackagedPresets ==
  [p |-> [command |-> Leaf("p"), input |-> Table([mode |-> Leaf("argv")])],
   q |-> [command |-> Leaf("q")]]
AllTables ==
  LET values == {Leaf("1"), Leaf("2"), Table(Empty), Table([a |-> Leaf("1")]),
                 Table([a |-> Leaf("2"), b |-> Leaf("1")]), Table([b |-> Table(Empty)])}
  IN  UNION {[S -> values] : S \in SUBSET {"a", "b"}}
AgentTables ==
  UNION {[S -> {Leaf("p")}] : S \in SUBSET {"preset"}}
  \cup {[preset |-> Leaf("q")], [preset |-> Leaf("lost")],
        [command |-> Leaf("mine")], [input |-> Table([mode |-> Leaf("stdin")])],
        [input |-> Leaf("mine")],
        [preset |-> Leaf("p"), input |-> Table([mode |-> Leaf("stdin")])],
        [preset |-> Leaf("p"), input |-> Table([files |-> Leaf("f")])]}
AllLayers ==
  {[agents |-> Table([name \in DOMAIN agents |-> Table(agents[name])])] :
     agents \in UNION {[S -> AgentTables] : S \in SUBSET {"p", "n"}}}
\* The last one has the dotted key of a packaged preset.
AllSnapshots ==
  AllTables \cup {[a |-> Table(t), b |-> Leaf("1")] : t \in AllTables}
            \cup {[match |-> Table("type" :> Leaf("1") @@ "item.type" :> Leaf("2"))]}
DottedKeys == "item.type" :> <<"item", "type">>

Plain == [mode |-> "stdin", file_args |-> <<"-f", "{path}">>]
AllInputs ==
  [mode : {"stdin", "argv", "pty"}, prompt_arg : {"{prompt}", "-p"},
   file_args : {<<>>, <<"-f">>, <<"-f", "{path}">>},
   image_args : {<<>>, <<"-i">>, <<"{path}">>},
   cwd_args : {<<>>, <<"-C">>, <<"-C", "{cwd}">>}]
AllSessionTables ==
  [id_strategy : {"generated", "output", "latest"},
   new_args : {<<>>, <<"-n">>, <<"-n", "{session_id}">>},
   resume_args : {<<>>, <<"-r">>, <<"-r", "{session_id}">>},
   id_match : {{}, {"type"}}, id_field : {None, "id"}]
AllAgents ==
  {[command |-> <<"cli">>, input |-> i, modes |-> [read_only |-> [args |-> <<"--ro">>]]] :
     i \in AllInputs}
  \cup {[command |-> <<"cli">>, input |-> Plain, session |-> s,
         output |-> [format |-> f, field |-> "text"],
         modes |-> [read_only |-> [args |-> <<"--ro">>]]] :
          s \in AllSessionTables, f \in {"text", "jsonl"}}
  \cup {[command |-> c, input |-> Plain, allow_unrestricted |-> allow,
         output |-> [format |-> "json"] @@ o,
         modes |-> [m \in modes |-> [key \in {} |-> <<>>]]] :
          c \in {<<>>, <<"cli", "exec">>}, allow \in BOOLEAN,
          o \in {[collect |-> "all", field |-> "t"], [field |-> "t"], [key \in {} |-> <<>>]},
          modes \in SUBSET {"read_only", "unrestricted", "admin"}}
AllRequests ==
  [permission : ToSet(Permissions), files : {<<>>, <<"f1", "f2">>}, images : {<<>>, <<"i1">>}]
AllParents == {None} \cup [native : {None, "s1"}, claimed : BOOLEAN]
\* What the theorem about the command line asks for holds of these inputs.
ASSUME WordsAssumption == WordsTellApart
\* The texts of up to 11 bytes, by the widths of their characters.
Encoded(widths) ==
  LET Add(bytes, width) ==
        bytes \o [j \in 1..width |-> [char |-> Len(bytes) + 1, at |-> j, width |-> width]]
  IN  FoldLeft(Add, <<>>, widths)
Texts ==
  LET sum[n \in 0..11] == IF n = 0 THEN {<<>>}
        ELSE UNION {{Append(widths, w) : widths \in sum[n - w]} : w \in {v \in 1..4 : v <= n}}
  IN  {Encoded(widths) : widths \in UNION {sum[n] : n \in 0..11}}
Seconds == 1..12
=============================================================================
