\* Two requests, two sessions, two streams of which one carries three lines; fair tasks.
SPECIFICATION FairSpec
CONSTANTS
  RequestId = {1, 2}
  CommandId = {c1}
  CommandStream = {out, err}
  Pid = {p1}
  KidKinds = {"gone", "piped"}
  Session = {s1, s2}
  CHANNEL_CAPACITY = 1
  MaxLines <- OneStreamSpeaks
  NO_GROUP = NO_GROUP
  NO_COMMAND = NO_COMMAND
  NO_SESSION = NO_SESSION
  NO_TASK = NO_TASK
  NO_PACKET = NO_PACKET
INVARIANTS
  TypeOK FreshSessionBarrier RequestsAnsweredInOrder NoOrphans SignalsOwnGroup TaskMapExact
  OutputComplete
PROPERTIES ImplementsProtocol AbandonedCommandEnds EndIsReported
CHECK_DEADLOCK FALSE
