CONSTANTS
  Runs = {r1, r2, r3}
  Priors = {p1}
  NoPrior = NoPrior
  NoLease = NoLease
  Ttl = 1
  Grace = 1
  MaxTime = 4
SYMMETRY Symmetry
SPECIFICATION Spec
INVARIANT FencedOutStaysOut
PROPERTY NoEarlySteal
CHECK_DEADLOCK FALSE
