\* The port is lost once and opened again, by the same host or another.
SPECIFICATION GuestFairSpec
CONSTANTS
  RequestId = {1, 2}
  CommandId = {c1}
  CommandStream = {out}
  Pid = {p1}
  KidKinds = {"gone"}
  Session = {s1, s2}
  CHANNEL_CAPACITY = 1
  MaxLines <- OneLineEach
  LINK_CAPACITY = 1
  MaxConnects = 2
  MaxOpens = 2
  NO_GROUP = NO_GROUP
  NO_COMMAND = NO_COMMAND
  NO_SESSION = NO_SESSION
  NO_TASK = NO_TASK
  NO_PACKET = NO_PACKET
INVARIANTS PortBarrier PortIsClean
PROPERTIES PortIsReopened ReadRequestIsAnswered
CHECK_DEADLOCK FALSE
