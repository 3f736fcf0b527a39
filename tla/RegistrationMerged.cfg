SPECIFICATION Spec
CONSTANTS
  c1 = c1  c2 = c2  c3 = c3  m1 = m1  m2 = m2
  Client = {c1, c2}
  Manager = {m1, m2}
  MAX_SESSION_COUNT = 2
  MAX_PIPE_PATH_LENGTH = 80
  READ_SIZE = 241
  Length <- CodeLengths
  NotifAt <- CodeNotifAt
  HostMayRunFirst = FALSE
  Mortal = {}
  Nobody = Nobody
INVARIANTS
  OneRegistrationTaken
CHECK_DEADLOCK FALSE
