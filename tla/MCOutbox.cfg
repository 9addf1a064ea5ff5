CONSTANTS
  Runs = {r1, r2}
  Ops = {o1, o2, o3}
  NoOp = NoOp
SYMMETRY Symmetry
SPECIFICATION Spec
INVARIANT OutboxTruthful
CHECK_DEADLOCK FALSE
