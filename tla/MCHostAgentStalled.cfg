\* A client that takes no progress notification.
SPECIFICATION StalledSpec
CONSTANTS
  Call = {k1}
  NO_CALL = NO_CALL
  EXEC_CAPACITY = 1
  TO_GUEST = 4
  TO_HOST = 1
  MaxLines = 1
PROPERTIES TimeoutCancels
CHECK_DEADLOCK FALSE
