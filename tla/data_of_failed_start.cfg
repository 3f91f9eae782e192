\* A start fails after its runtime wrote to the guest; the session is started again
\* and stopped.
SPECIFICATION Spec
CONSTANTS
    m1 = m1
    s1 = s1
    r1 = r1
    r2 = r2
    NoMachine = NoMachine
    NoSession = NoSession
    NoRequest = NoRequest
    Machines = {m1}
    Sessions = {s1}
    Requests = {r1, r2}
    SlotsPerMachine = 1
    SessionLimit = 1
    MaxMachines = 1
    MaxProvisioning = 1
    WarmMin = 0
    Policies = {"open"}
    MaxFaults = 1
    Reuses = FALSE
    OneController = TRUE
    FailsInGuest = TRUE
PROPERTY DataPreserved
\* the requests, machines and failures there are to have run out
CHECK_DEADLOCK FALSE
