\* Two authorized calls and one that is denied; transactions fail, locks are lost.
CONSTANTS
    r1 = r1
    r2 = r2
    r3 = r3
    i1 = i1
    p1 = p1
    p2 = p2
    Requests = {r1, r2, r3}
    Identities = {i1}
    Identity <- SameIdentity
    MaxRequests = 2
    MaxTokens = 3
    MaxConcurrent = 1
    TTL = 1
    MaxEstimate = 1
    Excess = 0
    MaxClock = 1
    Processes = {p1, p2}
    Process <- TwoProcesses
    Authorized = {r2, r3}
    BackendFails = TRUE
    LeakyCancel = TRUE
SYMMETRY PeerSymmetry
SPECIFICATION ExecutionSpec
CHECK_DEADLOCK FALSE
INVARIANTS
    GatesHold
    SuccessIsAccounted
    RunningWithinLease
PROPERTY
    ImplementsQuota
