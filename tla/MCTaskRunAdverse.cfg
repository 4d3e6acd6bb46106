SPECIFICATION Spec
CONSTANTS
  Observers = {o1}
  Kinds <- RunContinued
  Crashable = {"starter", "supervisor"}
  Faulty = TRUE
  Timely = FALSE
INVARIANTS
  ResultBeforeTerminal
  LostMeansGone
