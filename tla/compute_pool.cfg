\* Two sessions share a machine of two slots, which a second one replaces; the pool keeps
\* one slot warm and may drain; one call, machine or controller fails.
SPECIFICATION FairSpec
CONSTANTS
    m1 = m1
    m2 = m2
    s1 = s1
    s2 = s2
    r1 = r1
    r2 = r2
    NoMachine = NoMachine
    NoSession = NoSession
    NoRequest = NoRequest
    Machines = {m1, m2}
    Sessions = {s1, s2}
    Requests = {r1, r2}
    SlotsPerMachine = 2
    SessionLimit = 2
    MaxMachines = 1
    MaxProvisioning = 1
    WarmMin = 1
    Policies = {"open", "drain"}
    MaxFaults = 1
    Reuses = TRUE
    OneController = TRUE
    FailsInGuest = FALSE
INVARIANT OneGuestPerSession
INVARIANT SlotHoldsItsSession
INVARIANT ChargedUntilGone
INVARIANT ClaimKeepsBootstrap
PROPERTY DataPreserved
PROPERTY DrainsOnlyTheStopped
PROPERTY StopSettles
PROPERTY FailedIsDisposed
PROPERTY StrayIsQuarantined
\* the requests, machines and failures there are to have run out
CHECK_DEADLOCK FALSE
