SPECIFICATION FairSpec
CONSTANTS
  EOF = EOF
  Char <- MCChar
  ServerTexts <- MCServerTexts
  ClientTexts <- MCClientTexts
  MAX_WRITE_SIZE = 3
  MAX_STRING_SIZE = 3
  UINT_MAX = 99
INVARIANTS
  TypeOK
  InSync
  FitsBuffers
PROPERTIES
  RefinesLines
  ReachesEnd
