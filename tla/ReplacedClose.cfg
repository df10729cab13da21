SPECIFICATION FairSpec
CONSTANTS
  Managed = {m1}
  External = {}
  Runtimes = {r1}
  Conns = {c1, c2}
  Servers = {s1, s2}
  Ports = {p1}
  UI = ui
  Worker = worker
  None = none
PROPERTIES ReplacedCloses
