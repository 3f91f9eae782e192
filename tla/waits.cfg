\* Two pollers share a wait, while the execution expands again and its deadline
\* comes; one call or process fails, or one lease runs out too early.
SPECIFICATION WaitFairSpec
CONSTANTS
  ka = ka
  kb = kb
  w1 = w1
  w2 = w2
  c1 = c1
  c2 = c2
  Nobody = Nobody
  NoPlan = NoPlan
  NoAttempt = NoAttempt
  Keys = {ka}
  Plans <- SingleDuePlan
  MaxGeneration = 1
  MaxChildren = 2
  MaxAttempts = 1
  MaxActiveChildren = 0
  TotalUnits = 2
  ExecutionDeadline = 2
  MaxReconcileFailures = 2
  MaxStopFailures = 2
  Processes = {c1}
  MaxFence = 1
  MaxQuestions = 0
  Workers = {}
  Expanders = {c1}
  Cancelers = {}
  Retriers = {}
  Repliers = {}
  Reconcilers = {}
  Completers = {}
  MessageIds = {}
  MaxNow = 2
  MaxFaults = 1
  LeasesExpire = FALSE
  DeliveryService = TRUE
  n1 = n1
  r1 = r1
  p1 = p1
  p2 = p2
  NoWait = NoWait
  Nodes = {n1}
  Requests = {r1}
  Requesters = {c1}
  Pollers = {p1, p2}
  MaxWaitFailures = 2
  MaxWaits = 1
INVARIANT ToldWhatIsRecorded
PROPERTY WaitSettles
PROPERTY SettledWaitEnds
CHECK_DEADLOCK FALSE
