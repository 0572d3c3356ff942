SPECIFICATION Spec
CONSTANTS
  MODULO = 32
  NREGS = 2
  BYTE = 16
  BitAnd <- MCBitAnd
  BitOr <- MCBitOr
  MaxStack = 2
  Input <- MCInput
  Images <- Nested
  Commands <- StepTraced
  Typed = {0}
  Values = {0}
  MaxDepth = 3
  MaxTrace = 6
  MaxCommands = 3
PROPERTIES
  FinishesAChange
