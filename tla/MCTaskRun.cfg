SPECIFICATION FairSpec
CONSTANTS
  Observers = {o1}
  Kinds <- AllKinds
  Crashable = {"starter", "supervisor"}
  Faulty = FALSE
  Timely = TRUE
INVARIANTS
  SupervisorPublishesLast
  ClaimKeepsParent
PROPERTIES
  TerminalStays
  ImplementsLifecycle
  ComesToRest
  CancelEnds
