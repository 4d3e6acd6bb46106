----------------------------- MODULE Algorithms -----------------------------
(***************************************************************************)
(* All sequential computations: those of Computations, and those on the    *)
(* tables of the configuration, which are recursive.                       *)
(***************************************************************************)
EXTENDS Computations, ConfigLayers

CONSTANTS Presets, Tables, Layers, Snapshots

Merge ==
  /\ Idle
  /\ \E base \in Tables, override \in Tables :
       Ask([of |-> "merge", base |-> base, override |-> override], DeepMerge(base, override))

Load ==
  /\ Idle
  /\ \E user \in Layers, explicit \in Layers :
       Ask([of |-> "load", layers |-> <<user, explicit>>], LoadConfig(Presets, <<user, explicit>>))

\* The first configuration is written, and then loaded as the user's layer.
InitThenLoad ==
  /\ Idle
  /\ \E installed \in SUBSET DOMAIN Presets, explicit \in Layers :
       LET written == DefaultUserConfig(installed)
       IN  Ask([of |-> "load", layers |-> <<written, explicit>>],
               LoadConfig(Presets, <<TomlLoad(TomlDumps(written)), explicit>>))

\* The configuration kept with a run is read again.
Reread ==
  /\ Idle
  /\ \E table \in Snapshots :
       Ask([of |-> "snapshot", table |-> table], TomlLoad(TomlDumps(table)))

Next ==
  \/ ComputeNext
  \/ Merge
  \/ Load
  \/ InitThenLoad
  \/ Reread

Spec == Init /\ [][Next]_vars

-----------------------------------------------------------------------------
\* What a table says at a path: a scalar, "a table", or nothing.
Says(table, path) ==
  LET Down(value, key) == IF IsTable(value) /\ key \in DOMAIN value.table
                          THEN value.table[key] ELSE [nothing |-> "there"]
      found == FoldLeft(Down, Table(table), path)
  IN  IF IsTable(found) THEN [table |-> "some"] ELSE found

Nothing == [nothing |-> "there"]
Scalar(said) == "leaf" \in DOMAIN said

Keys == UNION {DOMAIN t : t \in Tables}
Paths == {<<k>> : k \in Keys} \cup {<<k, l>> : k \in Keys, l \in Keys}

\* Merged tables say at every path what the override says there, or else what
\* the base says there, unless the override has a scalar on the way.
MergeByPath == call.of = "merge" =>
  \A path \in Paths :
    Says(answer, path) =
      IF Says(call.override, path) # Nothing THEN Says(call.override, path)
      ELSE IF \E i \in 1..(Len(path) - 1) :
                Scalar(Says(call.override, SubSeq(path, 1, i)))
      THEN Nothing
      ELSE Says(call.base, path)

\* README: a preset "starts from its original definition, not from user
\* overrides made to that preset name": every agent is the preset of the last
\* layer that names one for it, with that layer and the later ones over it.
\* The file that init writes is such a layer, read back as it was meant.
PresetIsOriginal == call.of = "load" =>
  LET Own(i) == AgentsOf(call.layers[i]).table
      Named(name) == {i \in DOMAIN call.layers : /\ name \in DOMAIN Own(i)
                                                 /\ "preset" \in DOMAIN Own(i)[name].table}
      Preset(i, name) == Own(i)[name].table["preset"].leaf
      Over(table, i, name) ==
        IF name \in DOMAIN Own(i) THEN DeepMerge(table, Own(i)[name].table) ELSE table
      After(i, name) ==
        IF i = 2 THEN Over(Builtins(Presets)[Preset(2, name)], 2, name)
        ELSE Over(Over(IF i = 1 THEN Builtins(Presets)[Preset(1, name)]
                                ELSE At(Builtins(Presets), name, Empty),
                       1, name), 2, name)
      names == DOMAIN Presets \cup DOMAIN Own(1) \cup DOMAIN Own(2)
  IN  /\ answer.ok <=> \A name \in names : \A i \in Named(name) : Preset(i, name) \in DOMAIN Presets
      /\ answer.ok =>
           /\ DOMAIN answer.config.agents = names
           /\ answer.config.policy = Policy(call.layers[1]).table
           /\ \A name \in names :
                answer.config.agents[name] = After(Max(Named(name) \cup {0}), name)

\* Every scalar of a table with its path, a dotted key as the path it spells.
RECURSIVE Spelled(_)
Spelled(table) ==
  UNION {IF IsTable(table[k])
         THEN {<<Parts(k) \o entry[1], entry[2]>> : entry \in Spelled(table[k].table)}
         ELSE {<<Parts(k), table[k].leaf>>} : k \in DOMAIN table}

\* The configuration kept with a run says what the one in force said, each
\* scalar at the path its keys spell.
SnapshotSaysTheSame == call.of = "snapshot" => Spelled(answer) = Spelled(call.table)
=============================================================================
