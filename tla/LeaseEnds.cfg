CONSTANTS
  None = None
  Tasks = {t1, t2}
  Runners = {r1, r2}
  TTL = 2
  SlowClaims = FALSE
  SlowRenewals = FALSE
  Failing = FALSE
  Crashing = TRUE
SPECIFICATION FairSpec
PROPERTY JobsEnd
CHECK_DEADLOCK FALSE
