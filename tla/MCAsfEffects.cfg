CONSTANTS
  Hosts = {h1, h2}
  Stages = 2
  GitHub = {2}
  MaxVersion = 6
  MaxGen = 3
  MaxCrashes = 1
SPECIFICATION Spec
SYMMETRY Symmetry
INVARIANTS AppliedOnce AdvancedMeansApplied TerminalIsSettled NothingLandsAfterTheEnd CancellationSticks
CHECK_DEADLOCK FALSE
