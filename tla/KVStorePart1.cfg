SPECIFICATION FairSpec
CONSTANTS
  t1 = t1  t2 = t2  v1 = v1  v2 = v2
  NoThread = NoThread  NULL = NULL  FREED = FREED
  GARBAGE = GARBAGE  NoFile = NoFile
  Thread <- MCThread
  Key <- MCKey
  Value <- MCValue
  TABLE_SIZE = 2
  count = 3
  JobSets <- MCForkSets
  MaxBackups = 0
  UseRwlock = TRUE
  ServesClients = FALSE
  ForkMayFail = TRUE
INVARIANTS
  TypeOK
  ShowProtected
  NoConflictingAccess
  ChainsWellFormed
  FilesHandedOutOnce
  BackupLimit
  BackupsNotUndercounted
  AscendingLocks
  SomeoneGoesOn
PROPERTIES
  RefinesAtomic
  ThreadsFinish
  MainTerminates
