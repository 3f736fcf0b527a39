SPECIFICATION FairSpec
CONSTANTS
  t1 = t1  t2 = t2  v1 = v1  v2 = v2
  NoThread = NoThread  NULL = NULL  FREED = FREED
  GARBAGE = GARBAGE  NoFile = NoFile
  Thread <- MCThread
  Key <- MCMixedKey
  Value <- MCValue
  TABLE_SIZE = 2
  count = 3
  JobSets <- MCMixed
  MaxBackups = 2
  UseRwlock = TRUE
  ServesClients = FALSE
  ForkMayFail = FALSE
CHECK_DEADLOCK FALSE
PROPERTIES
  ThreadsFinish
