SPECIFICATION FairSpec
CONSTANTS
  Hosts = {h1}
  Clients = {c1}
  Stoppers = {t1}
  LogFails = TRUE
  None = none
INVARIANTS LiveIsRecorded 
PROPERTIES StopStops
