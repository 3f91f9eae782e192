\* Two dependent children, one slot, leases that run out; a worker against a process that expands,
\* reconciles, cancels and completes.
SPECIFICATION Spec
CONSTANTS
  ka = ka
  kb = kb
  w1 = w1
  w2 = w2
  c1 = c1
  c2 = c2
  Nobody = Nobody
  NoPlan = NoPlan
  NoAttempt = NoAttempt
  Keys = {ka, kb}
  Plans <- ChainPlan
  MaxGeneration = 1
  MaxChildren = 2
  MaxAttempts = 1
  MaxActiveChildren = 1
  TotalUnits = 2
  ExecutionDeadline = 9
  MaxReconcileFailures = 2
  MaxStopFailures = 2
  Processes = {w1, c1}
  MaxFence = 2
  MaxQuestions = 0
  Workers = {w1}
  Expanders = {c1}
  Cancelers = {c1}
  Retriers = {}
  Repliers = {}
  Reconcilers = {c1}
  Completers = {c1}
  MessageIds = {}
  MaxNow = 1
  MaxFaults = 0
  LeasesExpire = TRUE
  DeliveryService = TRUE
INVARIANT ActiveChildHasTask
INVARIANT NoTaskReportedDead
INVARIANT CompletedIsAccepted
INVARIANT ResumedPastJoin
INVARIANT LaunchedAfterDependencies
CHECK_DEADLOCK FALSE
