SPECIFICATION Spec
CONSTANTS
  Versions = {}
  NoVersion = NoVersion
  Builds = {1}
  Contents = {1}
  Groups = {g1}
  Feedbacks = {f1}
  IssueScopes = {}
  SetStatuses = {"active", "archived"}
  QuestionModes = {"ask", "no-followup"}
  PlayerModes = {"unspecified", "single"}
  Reports = {"in-progress"}
  MaxRevision <- PlanTwice
  MaxVisuals = 1
  MaxEdits = 0
CHECK_DEADLOCK FALSE
INVARIANTS PassedIsAccepted NothingOutdatedPasses PassedIsAnswered
PROPERTIES DecidedOnce
