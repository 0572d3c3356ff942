SPECIFICATION Spec
CONSTANTS
  MODULO = 32
  NREGS = 2
  BYTE = 16
  BitAnd <- MCBitAnd
  BitOr <- MCBitOr
  Garbage <- Leftovers
  MaxStack = 65
  Input <- MCInput
  Images <- SessionImages
  Names <- SaveNames
  First = 1
  Lines <- SessionLines
  MaxLines = 3
  MaxLives = 2
INVARIANTS
  TypeOK
  RestoresSaved
  ReadsInFile
  CutOffInOrder
PROPERTIES
  ImplementsVM
