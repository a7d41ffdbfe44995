\* A working backend, two calls in two processes.
CONSTANTS
    r1 = r1
    r2 = r2
    r3 = r3
    i1 = i1
    p1 = p1
    p2 = p2
    Requests = {r1, r2}
    Identities = {i1}
    Identity <- SameIdentity
    MaxRequests = 2
    MaxTokens = 3
    MaxConcurrent = 1
    TTL = 5
    MaxEstimate = 1
    Excess = 0
    MaxClock = 2
    Processes = {p1, p2}
    Process <- TwoProcesses
    Authorized = {r1, r2}
    BackendFails = FALSE
    LeakyCancel = TRUE
SPECIFICATION FairExecutionSpec
CHECK_DEADLOCK FALSE
PROPERTY
    SlotComesBack
