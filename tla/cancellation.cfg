\* The owner cancels at any moment; launches outlive their leases; one call or
\* process fails.
SPECIFICATION FairSpec
CONSTANTS
  ka = ka
  kb = kb
  w1 = w1
  w2 = w2
  c1 = c1
  c2 = c2
  Nobody = Nobody
  NoPlan = NoPlan
  NoAttempt = NoAttempt
  Keys = {ka}
  Plans <- SinglePlan
  MaxGeneration = 1
  MaxChildren = 2
  MaxAttempts = 1
  MaxActiveChildren = 2
  TotalUnits = 2
  ExecutionDeadline = 9
  MaxReconcileFailures = 2
  MaxStopFailures = 1
  Processes = {w1, c1}
  MaxFence = 2
  MaxQuestions = 0
  Workers = {w1}
  Expanders = {c1}
  Cancelers = {c1}
  Retriers = {}
  Repliers = {}
  Reconcilers = {}
  Completers = {}
  MessageIds = {}
  MaxNow = 1
  MaxFaults = 1
  LeasesExpire = TRUE
  DeliveryService = TRUE
PROPERTY CancelConverges
PROPERTY ParentStopSettles
PROPERTY AbandonedClaimIsTakenOver
CHECK_DEADLOCK FALSE
