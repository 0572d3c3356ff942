SPECIFICATION Spec
CONSTANTS
  MODULO = 32
  NREGS = 2
  BYTE = 16
  BitAnd <- MCBitAnd
  BitOr <- MCBitOr
  MaxStack = 2
  Input <- MCInput
  Images <- Transparent
  Commands <- Setbp
  Typed = {0, 2, 6}
  Values = {0}
  MaxDepth = 3
  MaxTrace = 6
  MaxCommands = 2
PROPERTIES
  BreakpointStops
