CONSTANTS
  Tasks = {t1, t2}
  Workers = {w1, w2}
  Quotas = {1}
  Suno = {t2}
  Realtime = {t1}
  Legacy = {t1}
  Timeouts = TRUE
  ChannelLoss = {t2}
  ErrorAnswers = FALSE
  FullProgress = FALSE
  SettleFailing = FALSE
  Failing = FALSE
  Crashing = FALSE
SPECIFICATION FairSpec
INVARIANT RefundedAtMostOnce
PROPERTY TasksEnd
CHECK_DEADLOCK FALSE
