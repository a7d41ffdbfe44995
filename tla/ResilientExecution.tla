------------------------ MODULE ResilientExecution -------------------------
(***************************************************************************)
(* ResilientAIExecutor and its BudgetLedger (execution.py): the calls of    *)
(* generate that share one executor, each a coroutine that runs between its  *)
(* awaits (the provider, the sleep before a retry) without interruption.    *)
(* Time is counted in ticks since the ledger was created; the event loop    *)
(* serves a timer before time goes on.                                      *)
(***************************************************************************)
EXTENDS Integers, FiniteSets, FiniteSetsExt

CONSTANTS
    Calls,             \* calls of generate
    Need,              \* input tokens estimated plus max_output_tokens of each
    Timeout,           \* request.timeout_seconds of each
    MaxAttempts,       \* RetryPolicy.max_attempts
    InitialDelay,      \* RetryPolicy.initial_delay_seconds
    Multiplier,        \* RetryPolicy.backoff_multiplier
    MaxDelay,          \* RetryPolicy.max_delay_seconds
    MaxProviderCalls,  \* UsageBudget.max_provider_calls
    MaxTotalTokens,    \* UsageBudget.max_total_tokens
    MaxElapsed,        \* UsageBudget.max_elapsed_seconds
    None,              \* no retry_after_seconds
    RetryAfter,        \* the retry_after_seconds providers send, None among them
    Excess,            \* bound: a response uses at most Need + Excess tokens
    MaxClock           \* bound: the clock stops there

ASSUME ResilienceAssumption ==
    /\ IsFiniteSet(Calls)
    /\ Need \in [Calls -> Nat \ {0}]
    /\ Timeout \in [Calls -> Nat \ {0}]
    /\ {MaxAttempts, Multiplier, MaxProviderCalls, MaxTotalTokens, MaxElapsed} \subseteq Nat \ {0}
    /\ {InitialDelay, MaxDelay, Excess, MaxClock} \subseteq Nat
    /\ InitialDelay <= MaxDelay
    /\ RetryAfter \subseteq Nat \cup {None}
    /\ MaxElapsed <= MaxClock

\* A fact of arithmetic, for provers that know no powers.
ASSUME BackoffAssumption ==
    \A n \in 1..MaxAttempts : InitialDelay * Multiplier ^ (n - 1) \in Nat

VARIABLES
    now,             \* clock() - _started_at
    provider_calls,  \* BudgetLedger.provider_calls
    total_tokens,    \* BudgetLedger.total_tokens
    pc,              \* where each call is
    attempt,         \* its attempt
    deadline,        \* request_deadline
    timer,           \* when asyncio.timeout fires, or sleep returns
    delivered        \* history: the tokens of the response it returned

ledgerVars == <<provider_calls, total_tokens>>
resilientVars == <<now, ledgerVars, pc, attempt, deadline, timer, delivered>>

----------------------------------------------------------------------------
Ended == {"returned", "budget_exceeded", "deadline_exceeded", "retry_exhausted",
          "provider_contract", "provider_error", "cancelled"}

\* min(request_deadline - clock(), ledger.remaining_seconds)
Remaining(d) == Min({d - now, IF MaxElapsed - now > 0 THEN MaxElapsed - now ELSE 0})

CanAttemptAlone(c) ==
    /\ now < MaxElapsed
    /\ provider_calls < MaxProviderCalls
    /\ Need[c] <= MaxTotalTokens

\* assert_can_attempt
CanAttempt(c) ==
    /\ now < MaxElapsed
    /\ provider_calls < MaxProviderCalls
    /\ Need[c] <= MaxTotalTokens - total_tokens

\* delay_for the attempt that failed.
Delay(failed_attempt, retry_after) ==
    IF retry_after # None
    THEN Min({retry_after, MaxDelay})
    ELSE Min({InitialDelay * Multiplier ^ (failed_attempt - 1), MaxDelay})

Goto(c, state) == pc' = [pc EXCEPT ![c] = state]

Init ==
    /\ now = 0
    /\ provider_calls = 0
    /\ total_tokens = 0
    /\ pc = [c \in Calls |-> "idle"]
    /\ attempt = [c \in Calls |-> 0]
    /\ deadline = [c \in Calls |-> 0]
    /\ timer = [c \in Calls |-> 0]
    /\ delivered = [c \in Calls |-> 0]

----------------------------------------------------------------------------
\* An iteration of the loop, up to the await of the provider.
Attempt(c, d, n) ==
    /\ deadline' = [deadline EXCEPT ![c] = d]
    /\ CASE ~CanAttempt(c) ->
              Goto(c, "budget_exceeded") /\ UNCHANGED <<ledgerVars, attempt, timer>>
         [] CanAttempt(c) /\ Remaining(d) <= 0 ->
              Goto(c, "deadline_exceeded") /\ UNCHANGED <<ledgerVars, attempt, timer>>
         [] OTHER ->
              /\ Goto(c, "calling")
              /\ provider_calls' = provider_calls + 1
              /\ attempt' = [attempt EXCEPT ![c] = n]
              /\ timer' = [timer EXCEPT ![c] = now + Remaining(d)]
              /\ UNCHANGED total_tokens
    /\ UNCHANGED <<now, delivered>>

\* generate raises.
End(c, state) ==
    /\ Goto(c, state)
    /\ UNCHANGED <<now, ledgerVars, attempt, deadline, timer, delivered>>

\* A delay of zero is not awaited: the next iteration follows at once.
Backoff(c, delay) ==
    IF delay = 0 THEN Attempt(c, deadline[c], attempt[c] + 1)
    ELSE /\ Goto(c, "sleeping")
         /\ timer' = [timer EXCEPT ![c] = now + delay]
         /\ UNCHANGED <<now, ledgerVars, attempt, deadline, delivered>>

Generate(c) ==
    /\ pc[c] = "idle"
    /\ Attempt(c, now + Timeout[c], 1)

\* The sleep is over: the next iteration.
Retry(c) ==
    /\ pc[c] = "sleeping"
    /\ now >= timer[c]
    /\ Attempt(c, deadline[c], attempt[c] + 1)

\* The provider answers within the contract: the tokens are recorded, then the
\* budget is compared.
Respond(c, n) ==
    LET over == total_tokens + n > MaxTotalTokens
    IN  /\ pc[c] = "calling"
        /\ total_tokens' = total_tokens + n
        /\ Goto(c, IF over THEN "budget_exceeded" ELSE "returned")
        /\ delivered' = [delivered EXCEPT ![c] = IF over THEN 0 ELSE n]
        /\ UNCHANGED <<now, provider_calls, attempt, deadline, timer>>

\* _validate_response refuses it: its tokens are not recorded.
RespondOffContract(c) ==
    /\ pc[c] = "calling"
    /\ End(c, "provider_contract")

\* Mutants: the retry is scheduled whatever time is left; one attempt too many.
SleepAnyway(c, retry_after) ==
    IF attempt[c] >= MaxAttempts THEN End(c, "retry_exhausted")
    ELSE Backoff(c, Delay(attempt[c], retry_after))

\* What generate does after a retryable error.
GiveUpOrSleep(c, retry_after) ==
    LET delay == Delay(attempt[c], retry_after)
    IN  CASE attempt[c] >= MaxAttempts -> End(c, "retry_exhausted")
          [] attempt[c] < MaxAttempts /\ delay >= Remaining(deadline[c]) ->
               End(c, "deadline_exceeded")
          [] OTHER -> Backoff(c, delay)

FailRetryably(c, retry_after) ==
    /\ pc[c] = "calling"
    /\ GiveUpOrSleep(c, retry_after)

\* A ProviderError that is not retryable, or another exception of the provider.
FailFinally(c) ==
    /\ pc[c] = "calling"
    /\ End(c, "provider_error")

\* Mutant: the provider is awaited without a timeout.
TimeOutNever(c) == FALSE

\* asyncio.timeout: ProviderErrorCode.TIMEOUT, retryable.
TimeOut(c) ==
    /\ pc[c] = "calling"
    /\ now >= timer[c]
    /\ GiveUpOrSleep(c, None)

\* CancelledError is not caught.
Cancel(c) ==
    /\ pc[c] \in {"calling", "sleeping"}
    /\ End(c, "cancelled")

\* Time passes when no timer is due.
Tick ==
    /\ now < MaxClock
    /\ \A c \in Calls : pc[c] \in {"calling", "sleeping"} => now < timer[c]
    /\ now' = now + 1
    /\ UNCHANGED <<ledgerVars, pc, attempt, deadline, timer, delivered>>

Next ==
    \/ Tick
    \/ \E c \in Calls :
          \/ Generate(c) \/ Retry(c) \/ TimeOut(c)
          \/ \E n \in 0..(Need[c] + Excess) : Respond(c, n)
          \/ RespondOffContract(c)
          \/ \E retry_after \in RetryAfter : FailRetryably(c, retry_after)
          \/ FailFinally(c)
          \/ Cancel(c)

Spec == Init /\ [][Next]_resilientVars

----------------------------------------------------------------------------
Pending(c) == pc[c] \in {"calling", "sleeping"}

TypeOK ==
    /\ now \in 0..MaxClock
    /\ provider_calls \in Nat
    /\ total_tokens \in Nat
    /\ pc \in [Calls -> {"idle", "calling", "sleeping"} \cup Ended]
    /\ attempt \in [Calls -> 0..MaxAttempts]
    /\ deadline \in [Calls -> Nat]
    /\ timer \in [Calls -> Nat]
    /\ delivered \in [Calls -> Nat]

\* The calls of an executor never make more provider calls together than the
\* budget allows, and each is one attempt of a call: a retry cannot slip past the
\* budget while another call is awaited.
ProviderCallsBounded ==
    /\ provider_calls <= MaxProviderCalls
    /\ provider_calls = SumFunctionOnSet(attempt, Calls)

\* A call under way is before its own deadline and within the executor's time
\* budget, through every timeout, backoff and retry_after ("délai global réel").
DeadlinesHold ==
    \A c \in Calls : Pending(c) =>
        /\ now <= deadline[c]
        /\ now <= MaxElapsed
        /\ timer[c] <= deadline[c]

\* The responses handed to callers stay within the token budget, however many
\* calls are awaited at once.
DeliveredWithinBudget ==
    SumFunctionOnSet(delivered, Calls) <= MaxTotalTokens

\* The calls of one executor keep together to its UsageBudget and each to its
\* timeout, whatever the order of their attempts, answers and sleeps.
BudgetHolds == TypeOK /\ ProviderCallsBounded /\ DeadlinesHold /\ DeliveredWithinBudget

\* The ledger passes its token budget at most by what calls already under way
\* bring back: once it is passed, no provider is called again.
OverrunIsFinal ==
    [][total_tokens > MaxTotalTokens => provider_calls' = provider_calls]_resilientVars

\* "Hard limits shared by all calls made through one executor": providers that
\* keep to the tokens foreseen never bring the ledger past its budget.
TokensWithinBudget == total_tokens <= MaxTotalTokens
============================================================================
