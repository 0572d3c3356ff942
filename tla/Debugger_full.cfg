SPECIFICATION Spec
CONSTANTS
  MODULO = 32
  NREGS = 2
  BYTE = 16
  BitAnd <- MCBitAnd
  BitOr <- MCBitOr
  MaxStack = 2
  Input <- MCInput
  Images <- Nested
  Commands <- Meddling
  Typed = {1, 32}
  Values = {15}
  MaxDepth = 3
  MaxTrace = 2
  MaxCommands = 4
INVARIANTS
  TypeOK
  NestedOperands
  CallStack
