\* Every computation is asked once.
CHECK_DEADLOCK FALSE
SPECIFICATION Spec
CONSTANTS
  MarkerLength = 3
  MinInline = 5
  Day = 4
  Blank = Blank
  Garbled = Garbled
  Undecodable = Undecodable
  Missing = Missing
  JsonText = "json"
  Unparsable = Unparsable
  NoVersion = NoVersion
  Failed = Failed
  None = None
  PromptWord = "prompt and constraint"
  Cwd = "/work"
  Fresh = "new id"
  Dotted <- DottedKeys
  Policies <- AllPolicies
  Files <- Texts
  Ages <- Seconds
  Durations <- Seconds
  OutputFiles <- AllFiles
  Contracts <- AllContracts
  Sessions <- AllSessions
  Ends <- AllEnds
  Probes <- AllProbes
  Machines <- AllMachines
  Presets <- PackagedPresets
  Tables <- AllTables
  Layers <- AllLayers
  Snapshots <- AllSnapshots
  Agents <- AllAgents
  Requests <- AllRequests
  Parents <- AllParents
INVARIANTS
  InlineFits
  PurgeKeepsYounger
  ResultIsTheMatch
  OneSession
  ReasonIsTold
  DoctorVerdict
  MergeByPath
  PresetIsOriginal
  SnapshotSaysTheSame
  Delivered
