SPECIFICATION Spec
CONSTANTS
  Managed = {}
  External = {e1}
  Runtimes = {r1}
  Conns = {c1, c2, c3}
  Servers = {s1, s2}
  Ports = {p1, p2}
  UI = ui
  Worker = worker
  None = none
SYMMETRY Symmetry
INVARIANTS TypeOK NoGhostSession RunningMeansServing
PROPERTIES CleanupSparesNewer
