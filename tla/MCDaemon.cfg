CONSTANTS
  Daemons = {d1, d2}
  NoDaemon = NoDaemon
  MaxFailures = 2
  MaxQuarantines = 1
  MinRuns = 2
  RateNum = 1
  RateDen = 2
  DailyCap = 1
  MaxCost = 1
  MaxSession = 1
  MaxCompleted = 2
  MaxDay = 1
SPECIFICATION FairSpec
INVARIANTS AtMostOneLateRun CapOvershootBounded
PROPERTIES StopIsHonoured
