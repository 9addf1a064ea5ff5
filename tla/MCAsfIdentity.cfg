SPECIFICATION IdentitySpec
CONSTANTS
  Hosts = {h1, h2}
  NRoles = 2
  MaxGeneration = 2
  MaxVersion = 2
  MaxFaults = 1
SYMMETRY HostSymmetry
VIEW View
INVARIANTS
  LiveIsRecorded
  OneGenerationLive
  CleanupIsComplete
CHECK_DEADLOCK FALSE
