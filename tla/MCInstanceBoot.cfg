\* The prompt is the first of four lines; five sessions are enough for one to be fresh.
SPECIFICATION FairSpec
CONSTANTS
  Stream = {stdout, stderr}
  STDOUT = stdout
  PromptLine = 1
  ConsoleLines <- LinesForOne
  Session = {s1, s2, s3, s4, s5}
  NO_SESSION = NO_SESSION
  PIPE_CAPACITY = 1
  CONSOLE_CHANNEL = 1
  CONSOLE_CAPACITY = 2
  MaxMishaps = 2
INVARIANTS ConsoleHoldsLast ReadyOnOwnSession
PROPERTIES ConsoleIsRead AgentIsReached
CHECK_DEADLOCK FALSE
