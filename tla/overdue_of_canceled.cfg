\* A child is canceled while it is launched, and its deadline passes.
SPECIFICATION FairSpec
CONSTANTS
  ka = ka
  kb = kb
  w1 = w1
  w2 = w2
  c1 = c1
  c2 = c2
  Nobody = Nobody
  NoPlan = NoPlan
  NoAttempt = NoAttempt
  Keys = {ka}
  Plans <- SingleDuePlan
  MaxGeneration = 1
  MaxChildren = 2
  MaxAttempts = 1
  MaxActiveChildren = 2
  TotalUnits = 2
  ExecutionDeadline = 9
  MaxReconcileFailures = 2
  MaxStopFailures = 2
  Processes = {w1, c1}
  MaxFence = 2
  MaxQuestions = 0
  Workers = {w1}
  Expanders = {c1}
  Cancelers = {c1}
  Retriers = {}
  Repliers = {}
  Reconcilers = {}
  Completers = {}
  MessageIds = {}
  MaxNow = 3
  MaxFaults = 0
  LeasesExpire = TRUE
  DeliveryService = TRUE
PROPERTY OverdueChildFinishes
CHECK_DEADLOCK FALSE
