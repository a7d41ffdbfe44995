\* Two calls of one attempt each, one thread, servers that answer 200.
CONSTANTS
    c1 = c1
    c2 = c2
    None = None
    Broken = Broken
    Garbled = Garbled
    NoResult = NoResult
    Calls = {c1, c2}
    Need <- TwoTokensEach
    Timeout <- TwoTicksEach
    MaxAttempts = 1
    InitialDelay = 1
    Multiplier = 2
    MaxDelay = 2
    MaxProviderCalls = 2
    MaxTotalTokens = 4
    MaxElapsed = 3
    RetryAfter <- NeverSaid
    Excess = 0
    MaxClock = 3
    Replies <- Answered
    Workers = 1
SPECIFICATION AdapterSpec
CHECK_DEADLOCK FALSE
INVARIANT
    FailuresAreNormalised
