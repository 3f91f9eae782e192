\* Two processes expand one execution and reconcile it; the budget allows two small
\* generations or a large one.
SPECIFICATION FairSpec
CONSTANTS
  ka = ka
  kb = kb
  w1 = w1
  w2 = w2
  c1 = c1
  c2 = c2
  Nobody = Nobody
  NoPlan = NoPlan
  NoAttempt = NoAttempt
  Keys = {ka}
  Plans <- SingleOrDouble
  MaxGeneration = 2
  MaxChildren = 2
  MaxAttempts = 1
  MaxActiveChildren = 1
  TotalUnits = 2
  ExecutionDeadline = 9
  MaxReconcileFailures = 2
  MaxStopFailures = 2
  Processes = {w1, c1}
  MaxFence = 1
  MaxQuestions = 0
  Workers = {w1}
  Expanders = {w1, c1}
  Cancelers = {}
  Retriers = {}
  Repliers = {}
  Reconcilers = {c1}
  Completers = {}
  MessageIds = {}
  MaxNow = 1
  MaxFaults = 0
  LeasesExpire = FALSE
  DeliveryService = TRUE
INVARIANT BudgetConserved
INVARIANT JoinedIsTold
PROPERTY JoinResumesParent
CHECK_DEADLOCK FALSE
