SPECIFICATION Spec
CONSTANTS
  Versions = {v1, v2}
  NoVersion = NoVersion
  Builds = {1, 2}
  Contents = {1, 2}
  Groups = {}
  Feedbacks = {f1}
  IssueScopes <- OneIssue
  SetStatuses = {"active"}
  QuestionModes = {"no-followup"}
  PlayerModes = {"unspecified"}
  Reports = {"in-progress"}
  MaxRevision <- DeliverTwice
  MaxVisuals = 0
  MaxEdits = 1
CHECK_DEADLOCK FALSE
SYMMETRY Symmetry
INVARIANTS DeliveryIsLast DeliveryAnswersFeedback
