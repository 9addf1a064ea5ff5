SPECIFICATION ServiceSpec
CONSTANTS
  Hosts = {h1, h2}
  Runs = {1, 2}
  Repo <- MCRepo
  MaxConcurrency = 2
  MaxFaults = 1
INVARIANTS
  NoLostWakeup
  LostIsSignalled
PROPERTIES
  RunsSettle
CHECK_DEADLOCK FALSE
