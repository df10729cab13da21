SPECIFICATION Spec
CONSTANTS
  Groups = {g1}
  Issues = {}
  None = none
  MaxAnswers = 1
  MaxPrint = 1
  MaxDecisions = 0
  MaxTurns = 2
  MaxManual = 0
  MaxRequests = 2
  MaxStops = 1
  MaxEpochs = 2
INVARIANTS AmbiguityIsVisible
PROPERTIES ReviewIsFinal SendsOnlyOnWish ImplementsDelivery
