SPECIFICATION Spec
CONSTANTS
  Conns = {c1, c2}
  Logs = {l1, l2}
  MaxEvents = 3
  MaxFlight = 1
  MaxOps = 2
  MaxLosses = 1
  Pipelined = FALSE
  None = none
CHECK_DEADLOCK FALSE
SYMMETRY Symmetry
INVARIANTS TypeOK NothingSkipped
PROPERTIES CursorNeverBack ImplementsReliableLog
