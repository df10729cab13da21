SPECIFICATION FairSpec
CONSTANTS
  Conns = {c1, c2}
  Logs = {l1, l2}
  MaxEvents = 2
  MaxFlight = 2
  MaxOps = 0
  MaxLosses = 2
  Pipelined = TRUE
  None = none
CHECK_DEADLOCK FALSE
INVARIANTS NothingSkipped
PROPERTIES EventsArrive
