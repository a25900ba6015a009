SPECIFICATION FairSpec
CONSTANTS
  NOWHERE = NOWHERE
  NL = NL
  ANY = ANY
  HOME <- Home
  Word <- Words
  QUERY = "x"
  Caller = {c1, c2}
  Request <- Requests
  Header <- Headers
  RootAnswer <- RootAnswers
  InitialTree <- Tree
  MaxResults = 2
  MaxCalls = 3
INVARIANTS CallsAgree ResolveIsWalk EditsAreLocal SearchIsComplete
PROPERTIES CallsReturn
CHECK_DEADLOCK FALSE
