\* MaxRuns runs have ended and nobody calls: the system is at rest.
CHECK_DEADLOCK FALSE
SPECIFICATION Spec
CONSTANTS
  Clients = {c1, c2}
  Commands = {"status", "start"}
  MaxRuns = 3
  MaxConcurrency = 2
  Requests <- Chat
  SessionAgents = {"x"}
  Crashable = {"client", "supervisor"}
SYMMETRY ClientSymmetry
INVARIANTS
  LinearConversation
  OneTip
  OneSupervisor
  Capacity
