\* The supervisor has concluded and the processes are gone.
CHECK_DEADLOCK FALSE
SPECIFICATION FairSpec
CONSTANTS
  Limit = 3
  Chunk = 2
  MaxWritten = 5
INVARIANTS
  WithinLimit
  LimitIsSpent
  NothingLost
  CountsAreTrue
PROPERTIES
  CaptureEnds
