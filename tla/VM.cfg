SPECIFICATION Spec
CONSTANTS
  MODULO = 32
  NREGS = 2
  BYTE = 16
  BitAnd <- MCBitAnd
  BitOr <- MCBitOr
  MaxStack = 2
  Input <- MCInput
  Images <- VMImages
INVARIANTS
  TypeOK
  OperandDiscipline
  ListingEndsAtEdge
  RangeAround
PROPERTIES
  OnlyRmemWidens
  ImplementsArch
  ListingFollowsFetch
