\* Two handlers; redeliveries, failed runs, a crash and cancellations.
SPECIFICATION WFairSpec
CONSTANTS
  t1 = t1
  t2 = t2
  TaskIds = {t1, t2}
  MaxCopies <- MCCopies
  Concurrency = 2
  MaxRaises = 1
  MaxCrashes = 1
  CanExpire = TRUE
  CanCancel = TRUE
INVARIANTS
  NoTaskLost
  CancelFindsTheRun
  ResultsAreFew
PROPERTIES
  ImplementsTaskService
  EveryTaskEnds
CHECK_DEADLOCK FALSE
