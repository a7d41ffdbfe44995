\* Three calls that each fit the token budget.
CONSTANTS
    c1 = c1
    c2 = c2
    c3 = c3
    None = None
    Calls = {c1, c2, c3}
    Need <- TwoTokensEach
    Timeout <- ThreeTicksEach
    MaxAttempts = 1
    InitialDelay = 1
    Multiplier = 2
    MaxDelay = 2
    MaxProviderCalls = 4
    MaxTotalTokens = 5
    MaxElapsed = 5
    RetryAfter <- NoneOrSome
    Excess = 0
    MaxClock = 7
SPECIFICATION Spec
CHECK_DEADLOCK FALSE
INVARIANT
    TokensWithinBudget
