CONSTANTS
  build = build
  lint = lint
  ci = ci
  rogue = rogue
  Contexts = {build, lint}
  Apps = {ci, rogue}
  NoApp = NoApp
  NoMapping = NoMapping
  NoCheck = NoCheck
  Rules <- BranchRules
  Deadline = 3
  Interval = 2
  MaxChecks = 2
  MaxTime = 4
SPECIFICATION CiWaitSpec
INVARIANTS SatisfiedIsProven NoEarlyGiveUp
CHECK_DEADLOCK FALSE
