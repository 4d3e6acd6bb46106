---------------------------- MODULE ConfigLayers ----------------------------
(***************************************************************************)
(* How the packaged presets, the user's file and an explicit file become   *)
(* one configuration, and how a configuration is written as TOML.          *)
(*                                                                         *)
(* A table is a function from keys to values; a value is [leaf |-> x] (a   *)
(* scalar or an array) or [table |-> t].  The RECURSIVE operators keep     *)
(* the module to model checking.                                           *)
(***************************************************************************)
EXTENDS SequencesExt

CONSTANTS
  Dotted   \* the parts of the keys that hold dots

Empty == [k \in {} |-> {}]
Leaf(x) == [leaf |-> x]
Table(t) == [table |-> t]
IsTable(value) == "table" \in DOMAIN value
At(table, key, default) == IF key \in DOMAIN table THEN table[key] ELSE default

\* A bug: tables are replaced, not merged.
DeepMergeShallow(base, override) ==
  [k \in DOMAIN base \cup DOMAIN override |->
     IF k \in DOMAIN override THEN override[k] ELSE base[k]]

RECURSIVE DeepMerge(_, _)
DeepMerge(base, override) ==
  [k \in DOMAIN base \cup DOMAIN override |->
     IF k \notin DOMAIN override THEN base[k]
     ELSE IF /\ k \in DOMAIN base
             /\ IsTable(override[k]) /\ IsTable(base[k])
          THEN Table(DeepMerge(base[k].table, override[k].table))
          ELSE override[k]]

-----------------------------------------------------------------------------
\* A bug: a preset is inherited with the user's overrides of it.
BaseOverridden(name, raw, agents, builtins) ==
  IF "preset" \in DOMAIN raw THEN At(agents, raw["preset"].leaf, Empty)
                             ELSE At(agents, name, Empty)

\* What a layer's table of an agent is merged over.
Base(name, raw, agents, builtins) ==
  IF "preset" \in DOMAIN raw THEN builtins[raw["preset"].leaf]
                             ELSE At(agents, name, Empty)

\* A file: a table with the policy and the agents in it.
Policy(layer) == At(layer, "policy", Table(Empty))
AgentsOf(layer) == At(layer, "agents", Table(Empty))

\* Every table is one, and every preset that is named is packaged.
LayerAccepted(layer, builtins) ==
  /\ DOMAIN layer \subseteq {"version", "policy", "agents"}
  /\ IsTable(Policy(layer)) /\ IsTable(AgentsOf(layer))
  /\ \A name \in DOMAIN AgentsOf(layer).table :
       LET raw == AgentsOf(layer).table[name]
       IN  /\ IsTable(raw)
           /\ "preset" \in DOMAIN raw.table =>
                /\ ~IsTable(raw.table["preset"])
                /\ raw.table["preset"].leaf \in DOMAIN builtins

ApplyLayer(resolved, layer, builtins) ==
  LET agents == AgentsOf(layer).table
  IN  [policy |-> DeepMerge(resolved.policy, Policy(layer).table),
       agents |-> [name \in DOMAIN resolved.agents \cup DOMAIN agents |->
                     IF name \notin DOMAIN agents THEN resolved.agents[name]
                     ELSE DeepMerge(Base(name, agents[name].table, resolved.agents, builtins),
                                    agents[name].table)]]

\* The packaged presets, marked as such.
Builtins(presets) ==
  [name \in DOMAIN presets |-> DeepMerge(presets[name], [builtin |-> Leaf("true")])]

LoadConfig(presets, layers) ==
  LET builtins == Builtins(presets)
      Apply(resolved, layer) == ApplyLayer(resolved, layer, builtins)
  IN  IF \A i \in DOMAIN layers : LayerAccepted(layers[i], builtins)
      THEN [ok |-> TRUE,
            config |-> FoldLeft(Apply, [policy |-> Empty, agents |-> builtins], layers)]
      ELSE [ok |-> FALSE]

-----------------------------------------------------------------------------
(* TOML: a line opens a table, [open |-> path], or gives a key its value,  *)
(* [key |-> path, is |-> x].  A key is written as it is, so a dot in it    *)
(* separates two keys for whoever reads the text.                          *)

Parts(key) == At(Dotted, key, <<key>>)

Header(prefix) == IF prefix = <<>> THEN <<>> ELSE <<[open |-> prefix]>>

ScalarLines(table) ==
  LET keys == SetToSeq({k \in DOMAIN table : ~IsTable(table[k])})
  IN  [i \in DOMAIN keys |-> [key |-> Parts(keys[i]), is |-> table[keys[i]].leaf]]

\* A bug: the tables of a table come before its own keys.
RECURSIVE EmitChildrenFirst(_, _)
EmitChildrenFirst(prefix, table) ==
  LET keys == SetToSeq({k \in DOMAIN table : IsTable(table[k])})
  IN  Header(prefix)
        \o FlattenSeq([i \in DOMAIN keys |->
                         EmitChildrenFirst(prefix \o Parts(keys[i]), table[keys[i]].table)])
        \o ScalarLines(table)

RECURSIVE EmitTable(_, _)
EmitTable(prefix, table) ==
  LET keys == SetToSeq({k \in DOMAIN table : IsTable(table[k])})
  IN  Header(prefix) \o ScalarLines(table)
        \o FlattenSeq([i \in DOMAIN keys |->
                         EmitTable(prefix \o Parts(keys[i]), table[keys[i]].table)])

\* What a reader of TOML does with a path: tables that are missing are made,
\* and a scalar on the way makes the text invalid.
RECURSIVE Put(_, _, _)
Put(table, path, value) ==
  LET key == Head(path)
  IN  [k \in DOMAIN table \cup {key} |->
         IF k # key THEN table[k]
         ELSE IF Len(path) = 1 THEN value
         ELSE IF ~IsTable(At(table, key, Table(Empty))) THEN Leaf("invalid")
         ELSE Table(Put(At(table, key, Table(Empty)).table, Tail(path), value))]

TomlLoad(lines) ==
  LET Read(done, line) ==
        IF "open" \in DOMAIN line
        THEN [under |-> line.open, table |-> Put(done.table, line.open, Table(Empty))]
        ELSE [done EXCEPT !.table = Put(@, done.under \o line.key, Leaf(line.is))]
  IN  FoldLeft(Read, [under |-> <<>>, table |-> Empty], lines).table

TomlDumps(table) == EmitTable(<<>>, table)

\* What init writes: a reference to each preset it finds an executable for.
DefaultUserConfig(installed) ==
  [version |-> Leaf("1"),
   policy |-> Table([max_concurrency |-> Leaf("4")]),
   agents |-> Table([name \in installed |->
                       Table([preset |-> Leaf(name), enabled |-> Leaf("true")])])]
=============================================================================
