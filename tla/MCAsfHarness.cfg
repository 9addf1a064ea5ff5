SPECIFICATION HarnessSpec
CONSTANTS
  Roles = {"implementer", "pr-reviewer"}
  Tools = {"repository.apply_patch"}
  MaxCalls = 2
  MaxEvents = 7
  Timeout = 1
  Terms = {1, 2}
  MaxGen = 2
  MaxExecs = 2
INVARIANTS
  SettledMeansQuiet
  ResultAccountsForTools
  StaleWorkIsContained
PROPERTIES
  ResumeIsBound
  SessionEnds
CHECK_DEADLOCK FALSE
