SPECIFICATION Spec
CONSTANTS
  e1 = e1
  e2 = e2
  k1 = k1
  k2 = k2
  Emitter = {e1, e2}
  Closer = {k1, k2}
  Events = 2
  Capacity = 2
CHECK_DEADLOCK FALSE
INVARIANTS AuditTypeOK NeverPanics HandledInOrder CloseDrains
PROPERTIES EmitReturns CloseReturns
