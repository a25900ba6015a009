\* The process group of an abandoned command
SPECIFICATION FairSpec
CONSTANTS
  RequestId = {1, 2}
  CommandId = {c1}
  CommandStream = {out}
  Pid = {p1, p2}
  KidKinds = {"gone", "piped", "quiet"}
  Session = {s1}
  CHANNEL_CAPACITY = 1
  MaxLines <- OneLineEach
  NO_GROUP = NO_GROUP
  NO_COMMAND = NO_COMMAND
  NO_SESSION = NO_SESSION
  NO_TASK = NO_TASK
  NO_PACKET = NO_PACKET
PROPERTIES AbandonedGroupEnds
CHECK_DEADLOCK FALSE
