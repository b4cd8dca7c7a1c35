CONSTANTS
  Count <- MCCount
  Client = {c1, c2}
  NoFile = NoFile
SPECIFICATION Spec
INVARIANTS TypeOK AllOrNothing ReleasedOnce OnlyExitTakesPools NoOrphanCode
PROPERTY Ends
CHECK_DEADLOCK FALSE
