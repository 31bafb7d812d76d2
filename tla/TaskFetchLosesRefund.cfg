CONSTANTS
  Tasks = {t1}
  Workers = {w1, w2}
  Quotas = {0, 1, 2}
  Suno = {}
  Realtime = {t1}
  Legacy = {}
  Timeouts = TRUE
  ChannelLoss = {}
  ErrorAnswers = TRUE
  FullProgress = FALSE
  SettleFailing = FALSE
  Failing = FALSE
  Crashing = FALSE
SPECIFICATION Spec
INVARIANT FailedIsRefunded
SYMMETRY Symmetry
CHECK_DEADLOCK FALSE
