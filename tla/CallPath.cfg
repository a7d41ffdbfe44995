\* Execution over the adapter: two calls, three attempts each, three provider calls and
\* two tokens in all, one thread.  Boundary: two calls in two processes.
\* Authentication: every token at every time.  Selection: every setting.
CONSTANTS
    r1 = r1
    r2 = r2
    i1 = i1
    p1 = p1
    p2 = p2
    c1 = c1
    c2 = c2
    k1 = k1
    k2 = k2
    text = text
    tools = tools
    deterministicV1 = deterministicV1
    m1 = m1
    None = None
    NoClaim = NoClaim
    Broken = Broken
    Garbled = Garbled
    NoResult = NoResult
    BadClaim = BadClaim
    NoLimit = NoLimit
    Calls = {c1, c2}
    Need <- TwoTokensEach
    Timeout <- TwoTicksEach
    MaxAttempts = 3
    InitialDelay = 1
    Multiplier = 2
    MaxDelay = 2
    MaxProviderCalls = 3
    MaxTotalTokens = 2
    MaxElapsed = 3
    RetryAfter <- NoneOrSome
    Excess = 1
    MaxClock = 4
    Replies <- AllReplies
    Workers = 1
    Policies <- AllPolicies
    Tokens <- AllTokens
    Keys <- OneKey
    DefaultKey = k1
    MaxTime = 7
    Capabilities <- TextAndTools
    Text = text
    Models <- TwoModels
    DeterministicModel = deterministicV1
SPECIFICATION FairPathSpec
CHECK_DEADLOCK FALSE
INVARIANTS
    BudgetHolds
    AcceptanceIsBounded
    SelectionAgrees
    RequestsAreJustified
PROPERTIES
    OverrunIsFinal
    OneStretchOfTime
    NothingSentOnceClosed
    EveryCallEnds
