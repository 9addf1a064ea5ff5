SPECIFICATION Spec
CONSTANTS
  NChecks = 2
  Contexts = {"build"}
  MaxFixIterations = 1
  AskedEffects = {"push", "deploy"}
  MaxApprovals = 2
  Listings <- GitHubListings
  Sessions = {TRUE, FALSE}
  MaxFaults = 1
INVARIANTS
  DeliveredIsVetted
  WorksOnItsOwn
PROPERTIES
  ResumesWithAuthority
  RefusesOnlyMidReport
  Settles
CHECK_DEADLOCK FALSE
