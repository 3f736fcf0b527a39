SPECIFICATION Spec
CONSTANTS
  v1 = v1  v2 = v2
  NULL = NULL
  Key <- MCKey
  Value <- MCValue
  TABLE_SIZE = 2
  MAX_WRITE_SIZE = 4
INVARIANTS
  SortsStably
  NothingLost
PROPERTIES
  Terminates
