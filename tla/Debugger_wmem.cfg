SPECIFICATION Spec
CONSTANTS
  MODULO = 32
  NREGS = 2
  BYTE = 16
  BitAnd <- MCBitAnd
  BitOr <- MCBitOr
  MaxStack = 2
  Input <- MCInput
  Images <- Stores
  Commands <- Tracing
  Typed = {0}
  Values = {0}
  MaxDepth = 3
  MaxTrace = 6
  MaxCommands = 2
INVARIANTS
  TraceReplays
