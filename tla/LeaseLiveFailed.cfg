CONSTANTS
  None = None
  Tasks = {t1, t2}
  Runners = {r1, r2, r3}
  TTL = 2
  SlowClaims = FALSE
  SlowRenewals = FALSE
  Failing = FALSE
  Crashing = TRUE
SPECIFICATION Spec
PROPERTY LiveLeaseKeepsRunning
SYMMETRY Symmetry
CHECK_DEADLOCK FALSE
