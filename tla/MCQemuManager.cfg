\* Three calls, of any tool, and up to three instances.
SPECIFICATION FairSpec
CONSTANTS
  Call = {a, b, c}
  Instance = {i, j, k}
  NO_CALL = NO_CALL
  NO_INSTANCE = NO_INSTANCE
  LEFTOVER = LEFTOVER
INVARIANTS TypeOK SingleQemu NoLostQemu FilesOfTheLiving
PROPERTIES StopMeansGone CallsReturn
CHECK_DEADLOCK FALSE
