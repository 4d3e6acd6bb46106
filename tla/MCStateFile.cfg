\* Every update has been made, or its process is dead.
CHECK_DEADLOCK FALSE
SPECIFICATION FairSpec
CONSTANTS
  starter = starter
  supervisor = supervisor
  canceller = canceller
  creator = creator
  Writers = {starter, supervisor, canceller}
  Creator = creator
  Created <- NewRun
  Plan <- Updates
  Absent = Absent
  Torn = Torn
INVARIANTS
  WholeRecords
  UpdateTookEffect
PROPERTIES
  ImplementsAtomicRecord
  UpdatesEnd
