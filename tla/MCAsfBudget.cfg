SPECIFICATION Spec
CONSTANTS
  Workers = {1, 2}
  MaxCostUsd = 5
  Unit = 2
  MaxInvocations = 2
  NEffects = 3
  Overrun = 1
  MaxGeneration = 4
INVARIANTS
  CalledOnce
  WithinBudget
CHECK_DEADLOCK FALSE
