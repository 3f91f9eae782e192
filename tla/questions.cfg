\* A child asks a question; the coordinator answers it or retries the child, while
\* the worker notifies the parent.  One call or process fails.
SPECIFICATION Spec
CONSTANTS
  ka = ka
  kb = kb
  w1 = w1
  w2 = w2
  c1 = c1
  c2 = c2
  Nobody = Nobody
  NoPlan = NoPlan
  NoAttempt = NoAttempt
  Keys = {ka}
  Plans <- SinglePlan
  MaxGeneration = 1
  MaxChildren = 2
  MaxAttempts = 2
  MaxActiveChildren = 2
  TotalUnits = 2
  ExecutionDeadline = 9
  MaxReconcileFailures = 2
  MaxStopFailures = 2
  Processes = {w1, c1}
  MaxFence = 1
  MaxQuestions = 1
  Workers = {w1}
  Expanders = {c1}
  Cancelers = {}
  Retriers = {c1}
  Repliers = {c1}
  Reconcilers = {}
  Completers = {}
  MessageIds = {1}
  MaxNow = 1
  MaxFaults = 1
  LeasesExpire = FALSE
  DeliveryService = TRUE
INVARIANT SingleWriter
INVARIANT OnlyLatestAttemptLives
INVARIANT BlockersNotified
PROPERTY FinishedAttemptIsFinal
CHECK_DEADLOCK FALSE
