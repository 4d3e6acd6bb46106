SPECIFICATION PollingSpec
CONSTANTS
  Observers = {o1}
  Kinds <- RunContinued
  Crashable = {"supervisor"}
  Faulty = FALSE
  Timely = TRUE
PROPERTIES
  TipComesBack
