\* A start that is asked for a working copy.
SPECIFICATION Spec
CONSTANTS
  Call = {a, b}
  Instance = {i}
  NO_CALL = NO_CALL
  NO_INSTANCE = NO_INSTANCE
  LEFTOVER = LEFTOVER
PROPERTIES WorkingCopyIsKept
CHECK_DEADLOCK FALSE
