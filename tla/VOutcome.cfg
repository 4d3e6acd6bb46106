SPECIFICATION Spec
CONSTANTS
  Observers = {o1}
  Kinds <- RunContinued
  Crashable = {}
  Faulty = FALSE
  Timely = TRUE
PROPERTIES
  OutcomeStays
