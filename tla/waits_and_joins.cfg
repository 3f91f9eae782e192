\* A wait before or after a join, requested, polled, projected and canceled.
SPECIFICATION WaitSpec
CONSTANTS
  ka = ka
  kb = kb
  w1 = w1
  w2 = w2
  c1 = c1
  c2 = c2
  Nobody = Nobody
  NoPlan = NoPlan
  NoAttempt = NoAttempt
  Keys = {ka}
  Plans <- SingleDuePlan
  MaxGeneration = 1
  MaxChildren = 2
  MaxAttempts = 1
  MaxActiveChildren = 2
  TotalUnits = 2
  ExecutionDeadline = 2
  MaxReconcileFailures = 2
  MaxStopFailures = 2
  Processes = {c1}
  MaxFence = 1
  MaxQuestions = 0
  Workers = {}
  Expanders = {c1}
  Cancelers = {c1}
  Retriers = {}
  Repliers = {}
  Reconcilers = {c1}
  Completers = {}
  MessageIds = {}
  MaxNow = 2
  MaxFaults = 0
  LeasesExpire = FALSE
  DeliveryService = TRUE
  n1 = n1
  r1 = r1
  p1 = p1
  p2 = p2
  NoWait = NoWait
  Nodes = {n1}
  Requests = {r1}
  Requesters = {c1}
  Pollers = {p1}
  MaxWaitFailures = 2
  MaxWaits = 1
INVARIANT SuspensionNamesWait
PROPERTY JoinKeepsWait
CHECK_DEADLOCK FALSE
