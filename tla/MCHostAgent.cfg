\* Two calls share the connection; every channel holds one event.
SPECIFICATION FairSpec
CONSTANTS
  Call = {k1, k2}
  NO_CALL = NO_CALL
  EXEC_CAPACITY = 1
  TO_GUEST = 4
  TO_HOST = 1
  MaxLines = 1
INVARIANTS NoPendingLeak NoDeafWaiter ExecResultComplete NoRunawayCommand
PROPERTIES CallsReturn
CHECK_DEADLOCK FALSE
