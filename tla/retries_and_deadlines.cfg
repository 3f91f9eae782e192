\* A child is retried, canceled and completed, while its deadline and that of its
\* execution pass.
SPECIFICATION Spec
CONSTANTS
  ka = ka
  kb = kb
  w1 = w1
  w2 = w2
  c1 = c1
  c2 = c2
  Nobody = Nobody
  NoPlan = NoPlan
  NoAttempt = NoAttempt
  Keys = {ka}
  Plans <- SingleDuePlan
  MaxGeneration = 1
  MaxChildren = 2
  MaxAttempts = 2
  MaxActiveChildren = 2
  TotalUnits = 2
  ExecutionDeadline = 2
  MaxReconcileFailures = 1
  MaxStopFailures = 1
  Processes = {w1, c1}
  MaxFence = 1
  MaxQuestions = 0
  Workers = {w1}
  Expanders = {c1}
  Cancelers = {c1}
  Retriers = {c1}
  Repliers = {}
  Reconcilers = {}
  Completers = {c1}
  MessageIds = {}
  MaxNow = 3
  MaxFaults = 0
  LeasesExpire = FALSE
  DeliveryService = TRUE
INVARIANT CancelStopsEverything
INVARIANT DeadIsExplained
PROPERTY FinishedExecutionIsFinal
PROPERTY AttemptsHaveOneLife
CHECK_DEADLOCK FALSE
