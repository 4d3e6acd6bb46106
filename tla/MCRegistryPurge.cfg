SPECIFICATION FairSpec
CONSTANTS
  Clients = {c1, c2}
  Commands = {"status", "start", "purge"}
  MaxRuns = 2
  MaxConcurrency = 2
  Requests <- Mixed
  SessionAgents = {"x"}
  Crashable = {"client", "supervisor"}
INVARIANTS
  NoDanglingTip
  WorkspaceExclusive
PROPERTIES
  LockReturns
  ImplementsLedger
