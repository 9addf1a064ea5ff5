CONSTANTS
  Hosts = {h1, h2}
  Runs = {1, 2}
  Digest <- MCDigest
  Declarations <- MCDeclarations
  ScanLimit = 1
  MaxGen = 2
  MaxEvents = 6
  MaxFaults = 1
SPECIFICATION Spec
SYMMETRY Symmetry
INVARIANTS RetryFindsItsBundle ViewIsConsistent OwnerKeepsHistory RecordedIsAuditable
CHECK_DEADLOCK FALSE
