\* Two streams of up to three lines, pipes and channel of one line.
SPECIFICATION FairSpec
CONSTANTS
  StreamKind = {out, err}
  Stdout = out
  LineKind = {"text", "binary"}
  PIPE = 1
  CAPACITY = 1
  MaxLines = 3
INVARIANTS ResultIsComplete
PROPERTIES CommandReturns
CHECK_DEADLOCK FALSE
