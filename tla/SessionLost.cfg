SPECIFICATION FairSpec
CONSTANTS
  c1 = c1  c2 = c2  m1 = m1  m2 = m2
  Client = {c1}
  Manager = {m1}
  MAX_SESSION_COUNT = 2
  Key <- OneLength
  Fd = {4}
  MallocContents <- Zeroed
  REQUEST_SIZE = 42
  PIPE_SIZE = 8
  Input <- OneInput
  Mortal = {}
  Nobody = Nobody
  NoNode = NoNode
PROPERTIES
  DisconnectEnds
CHECK_DEADLOCK FALSE
