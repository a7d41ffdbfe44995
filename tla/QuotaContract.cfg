\* Memory: four calls of one identity and one of another, three limits.
\* Persistent: two calls for one slot, and a call of another identity.
CONSTANTS
    r1 = r1
    r2 = r2
    r3 = r3
    r4 = r4
    r5 = r5
    ada = ada
    bob = bob
    Requests = {r1, r2, r3, r4, r5}
    Identities = {ada, bob}
    Identity <- FourAndOne
    MaxRequests = 3
    MaxTokens = 4
    MaxConcurrent = 2
    MaxEstimate = 2
    Excess = 1
    TTL = 1
    MaxClock = 2
SYMMETRY CallSymmetry
SPECIFICATION EitherSpec
\* Every call ends, and the clock stops at MaxClock.
CHECK_DEADLOCK FALSE
INVARIANTS
    LimitsHold
PROPERTIES
    BothImplementContract
