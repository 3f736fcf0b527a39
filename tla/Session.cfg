SPECIFICATION FairSpec
CONSTANTS
  c1 = c1  c2 = c2  m1 = m1  m2 = m2
  Client = {c1, c2}
  Manager = {m1, m2}
  MAX_SESSION_COUNT = 2
  Key <- TwoLengths
  Fd = {4, 7}
  MallocContents <- Dirty
  REQUEST_SIZE = 4
  PIPE_SIZE = 5
  Input <- TwoInputs
  Mortal = {c2}
  Nobody = Nobody
  NoNode = NoNode
INVARIANTS
  TypeOK
  OwnRequestsOnly
  SubscribedOnce
  SubscriptionsKept
PROPERTIES
  DisconnectFirstEnds
  SessionsEnd
CHECK_DEADLOCK FALSE
