SPECIFICATION Spec
CONSTANTS
  f1 = f1  f2 = f2  v1 = v1  v2 = v2
  NULL = NULL  NoFile = NoFile
  File <- MCFile
  Key <- MCKey
  Value <- MCValue
  TABLE_SIZE = 2
  JobSets <- MCJobSets
  ForkMayFail = TRUE
INVARIANTS
  TypeOK
PROPERTIES
  RefinesAtomic
  EverythingWritten
