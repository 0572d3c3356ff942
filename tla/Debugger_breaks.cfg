SPECIFICATION Spec
CONSTANTS
  MODULO = 32
  NREGS = 2
  BYTE = 16
  BitAnd <- MCBitAnd
  BitOr <- MCBitOr
  MaxStack = 2
  Input <- MCInput
  Images <- Transparent
  Commands <- Breakable
  Typed = {4, 33, 34}
  Values = {0}
  MaxDepth = 1
  MaxTrace = 9
  MaxCommands = 2
INVARIANTS
  TraceReplays
PROPERTIES
  ImplementsVM
  BreakRequestServed
