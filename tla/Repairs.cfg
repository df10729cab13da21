SPECIFICATION FairSpec
CONSTANTS
  Groups = {}
  Issues = {i1}
  None = none
  MaxAnswers = 1
  MaxPrint = 1
  MaxDecisions = 0
  MaxTurns = 2
  MaxManual = 0
  MaxRequests = 2
  MaxStops = 1
  MaxEpochs = 1
INVARIANTS RepairOncePerPause PauseIsQuiet ExitIsQuiet
PROPERTIES StopWaitsForTurns QueuedIsServed StopsReturn
