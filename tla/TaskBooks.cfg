CONSTANTS
  Tasks = {t1, t2}
  Workers = {w1, w2}
  Quotas = {1, 2}
  Suno = {t2}
  Realtime = {}
  Legacy = {}
  Timeouts = TRUE
  ChannelLoss = {}
  ErrorAnswers = TRUE
  FullProgress = TRUE
  SettleFailing = FALSE
  Failing = TRUE
  Crashing = TRUE
SPECIFICATION Spec
INVARIANTS TypeOK RefundedAtMostOnce NeverOverRefunded FailedIsRefunded BooksAgree
PROPERTIES TerminalStays SourceCharged TokenCharged
SYMMETRY Symmetry
CHECK_DEADLOCK FALSE
