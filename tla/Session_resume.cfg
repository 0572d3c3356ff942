SPECIFICATION Spec
CONSTANTS
  MODULO = 32
  NREGS = 2
  BYTE = 16
  BitAnd <- MCBitAnd
  BitOr <- MCBitOr
  Garbage <- Leftovers
  MaxStack = 65
  Input <- MCInput
  Images <- SessionImages
  Names <- SaveNames
  First = 1
  Lines <- SavingLines
  MaxLines = 2
  MaxLives = 2
PROPERTIES
  ResumesSaved
