SPECIFICATION FairSpec
CONSTANTS
  c1 = c1  c2 = c2  c3 = c3  m1 = m1  m2 = m2
  Client = {c1, c2, c3}
  Manager = {m1, m2}
  MAX_SESSION_COUNT = 2
  MAX_PIPE_PATH_LENGTH = 6
  READ_SIZE = 8
  Length <- SmallLengths
  NotifAt <- SmallNotifAt
  HostMayRunFirst = TRUE
  Mortal = {c2}
  Nobody = Nobody
INVARIANTS
  TypeOK
  SlotNotShared
  RegisteredOnce
  SessionsPaired
PROPERTIES
  RefinesQueue
  AnsweredOrExit
CHECK_DEADLOCK FALSE
