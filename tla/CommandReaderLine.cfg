SPECIFICATION Spec
CONSTANTS
  EOF = EOF
  Char <- MCChar
  ServerTexts <- MCPairTexts
  ClientTexts <- MCNoTexts
  MAX_WRITE_SIZE = 3
  MAX_STRING_SIZE = 3
  UINT_MAX = 99
PROPERTIES
  OneLine
