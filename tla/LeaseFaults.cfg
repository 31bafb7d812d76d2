CONSTANTS
  None = None
  Tasks = {t1, t2}
  Runners = {r1, r2}
  TTL = 2
  SlowClaims = FALSE
  SlowRenewals = TRUE
  Failing = TRUE
  Crashing = TRUE
SPECIFICATION Spec
INVARIANTS TypeOK RunsOnce RunningHasLease
PROPERTIES OutcomeStays KeepsRuns
SYMMETRY Symmetry
CHECK_DEADLOCK FALSE
