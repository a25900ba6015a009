\* What stands behind a line that is not text
SPECIFICATION Spec
CONSTANTS
  StreamKind = {out, err}
  Stdout = out
  LineKind = {"text", "binary"}
  PIPE = 2
  CAPACITY = 1
  MaxLines = 2
INVARIANTS OutputIsReturned
CHECK_DEADLOCK FALSE
