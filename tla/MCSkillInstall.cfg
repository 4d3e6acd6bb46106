\* Every installer has ended.
CHECK_DEADLOCK FALSE
SPECIFICATION Spec
CONSTANTS
  first = first
  second = second
  Installers = {first, second}
  Package <- Packages
  Unmarked <- FilesOnly
  Targets <- BothTargets
  Absent = Absent
  Foreign = Foreign
  Torn = Torn
INVARIANTS
  TypeOK
  ReportedIsThere
  SomeoneSucceeds
PROPERTIES
  ForeignStays
  NothingLost
