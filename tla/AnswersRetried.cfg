SPECIFICATION Spec
CONSTANTS
  Groups = {g1}
  Issues = {}
  None = none
  MaxAnswers = 2
  MaxPrint = 1
  MaxDecisions = 1
  MaxTurns = 2
  MaxManual = 1
  MaxRequests = 2
  MaxStops = 0
  MaxEpochs = 1
INVARIANTS OneTurnPerRequest AnswersNotReplayed AnswersInOrder
