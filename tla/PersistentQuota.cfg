\* Four calls of one identity against every limit: the fourth call meets
\* MaxRequests, the third MaxConcurrent, and estimates of 2 meet MaxTokens.
\* With TTL = 1 and MaxClock = 2 a record can expire while its holder works, and
\* a clock read can be two ticks old when its transaction runs.
CONSTANTS
    r1 = r1
    r2 = r2
    r3 = r3
    r4 = r4
    i1 = i1
    Requests = {r1, r2, r3, r4}
    Identities = {i1}
    Identity <- OneIdentity
    MaxRequests = 3
    MaxTokens = 4
    MaxConcurrent = 2
    TTL = 1
    MaxEstimate = 2
    Excess = 1
    MaxClock = 2
SPECIFICATION Spec
SYMMETRY CallSymmetry
\* Every call ends, and the clock stops at MaxClock.
CHECK_DEADLOCK FALSE
INVARIANTS
    TypeOK
    ActiveCountsReservations
    LimitsHold
    TokensAccounted
PROPERTIES
    NeverReapedEarly
    RefusalCountsLiveOnly
