SPECIFICATION Spec
CONSTANTS
  Message = {m1, m2}
  DiskErrors = TRUE
  MaxGenerations = 4
  MaxCrashes = 1
INVARIANTS TypeOK PendingIsRetained IndexMatchesFiles
PROPERTIES WaitersReturn
CHECK_DEADLOCK FALSE
