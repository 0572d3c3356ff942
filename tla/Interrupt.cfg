SPECIFICATION Spec
CONSTANTS
  MaxSignals = 4
INVARIANTS
  TypeOK
  ExitNeedsTwo
  OneBreakEach
PROPERTIES
  RequestServed
  SignalsHandled
