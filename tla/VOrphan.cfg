SPECIFICATION Spec
CONSTANTS
  Observers = {o1}
  Kinds <- RunContinued
  Crashable = {"supervisor"}
  Faulty = FALSE
  Timely = TRUE
INVARIANTS
  CancelledMeansStopped
