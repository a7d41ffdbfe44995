--------------------------- MODULE CallPath_proofs ---------------------------
(*****************************************************************************)
(* What a call passes on its way to a provider, for any number of calls,     *)
(* attempts and threads, any budget, policy, token and settings. The executor *)
(* first: its types and deadlines, that the ledger counts every attempt and  *)
(* covers all that was delivered, and that a ledger over its token budget    *)
(* lets no provider be called again. Then the adapter: over threads that     *)
(* outlive their tasks the executor still takes the steps of                 *)
(* ResilientExecution only, so that its limits hold of the requests that are *)
(* really sent; and each request is sent for a reason. Then the selection of *)
(* the provider, and the life of a token.                                    *)
(*****************************************************************************)
EXTENDS ProviderAdapter, TokenAuthentication, ProviderSelection, FoldTheorems,
        SequenceTheorems, WellFoundedInduction

-----------------------------------------------------------------------------
(*****************************************************************************)
(* The executor (ResilientExecution).                                        *)
(*****************************************************************************)

\* What the loop keeps true of a call under way: its timer is due neither before now
\* nor after its deadline or the end of the budget.
TimersHold ==
    \A c \in Calls : Pending(c) =>
        /\ now <= timer[c]
        /\ timer[c] <= deadline[c]
        /\ timer[c] <= MaxElapsed

\* The budget's own limit on provider calls, and the limit of attempts of each call.
AttemptsHold ==
    /\ provider_calls <= MaxProviderCalls
    /\ \A c \in Calls : Pending(c) => attempt[c] >= 1
    /\ \A c \in Calls : pc[c] = "sleeping" => attempt[c] < MaxAttempts

LimitsInvariant == TypeOK /\ TimersHold /\ AttemptsHold

-----------------------------------------------------------------------------
\* The lesser of two integers.
LEMMA MinOfTwo ==
  ASSUME NEW a \in Int, NEW b \in Int
  PROVE  /\ Min({a, b}) \in {a, b}
         /\ Min({a, b}) <= a
         /\ Min({a, b}) <= b
<1>1. \E x \in {a, b} : \A y \in {a, b} : x <= y
  OBVIOUS
<1>. QED
  BY <1>1 DEF Min

\* The constants are what their names say.
LEMMA Constants ==
  /\ MaxAttempts \in Nat \ {0}
  /\ Multiplier \in Nat \ {0}
  /\ MaxProviderCalls \in Nat \ {0}
  /\ MaxTotalTokens \in Nat \ {0}
  /\ MaxElapsed \in Nat \ {0}
  /\ InitialDelay \in Nat
  /\ MaxDelay \in Nat
  /\ Excess \in Nat
  /\ MaxClock \in Nat
  /\ MaxElapsed <= MaxClock
  /\ RetryAfter \subseteq Nat \cup {None}
  /\ \A c \in Calls : Need[c] \in Nat \ {0} /\ Timeout[c] \in Nat \ {0}
BY ResilienceAssumption DEF ResilienceAssumption

\* Whatever is left of both deadlines, it is an integer within each.
LEMMA RemainingIsWithin ==
  ASSUME now \in 0..MaxClock, NEW d \in Nat
  PROVE  /\ Remaining(d) \in Int
         /\ now + Remaining(d) <= d
         /\ Remaining(d) > 0 => now + Remaining(d) <= MaxElapsed
<1>. DEFINE left == IF MaxElapsed - now > 0 THEN MaxElapsed - now ELSE 0
<1>1. now \in Int /\ MaxElapsed \in Int
  BY Constants
<1>2. d - now \in Int /\ left \in Int
  BY <1>1
<1>3. Remaining(d) = Min({d - now, left})
  BY DEF Remaining
<1>. HIDE DEF left
<1>4. /\ Remaining(d) \in Int
      /\ Remaining(d) <= d - now
      /\ Remaining(d) <= left
  BY <1>2, <1>3, MinOfTwo
<1>5. now + Remaining(d) <= d
  BY <1>1, <1>4
<1>6. ASSUME Remaining(d) > 0
      PROVE  now + Remaining(d) <= MaxElapsed
  BY <1>1, <1>4, <1>6 DEF left
<1>. QED
  BY <1>4, <1>5, <1>6

\* The lesser of two lengths of time is one.
LEMMA MinIsNatural ==
  ASSUME NEW a \in Nat, NEW b \in Nat
  PROVE  Min({a, b}) \in Nat
<1>1. Min({a, b}) \in {a, b}
  BY MinOfTwo
<1>. QED
  BY <1>1

\* A backoff, asked for or computed, is a length of time.
LEMMA DelayIsNatural ==
  ASSUME NEW n \in 1..MaxAttempts, NEW r \in RetryAfter \cup {None}
  PROVE  Delay(n, r) \in Nat
<1>1. MaxDelay \in Nat
  BY Constants
<1>2. CASE r # None
  <2>1. r \in Nat
    BY <1>2, Constants
  <2>2. Min({r, MaxDelay}) \in Nat
    BY <2>1, <1>1, MinIsNatural
  <2>. QED
    BY <1>2, <2>2 DEF Delay
<1>3. CASE r = None
  <2>. DEFINE backoff == InitialDelay * Multiplier ^ (n - 1)
  <2>1. backoff \in Nat
    BY BackoffAssumption
  <2>2. Delay(n, r) = Min({backoff, MaxDelay})
    BY <1>3 DEF Delay
  <2>. HIDE DEF backoff
  <2>3. Min({backoff, MaxDelay}) \in Nat
    BY <1>1, <2>1, MinIsNatural
  <2>. QED
    BY <2>2, <2>3
<1>. QED
  BY <1>2, <1>3

-----------------------------------------------------------------------------
\* An iteration of the loop keeps the limits: it calls the provider within both
\* deadlines and the number of calls left, or ends the call.
LEMMA AttemptKeeps ==
  ASSUME LimitsInvariant, NEW c \in Calls, NEW d \in Nat, NEW n \in 1..MaxAttempts,
         Attempt(c, d, n)
  PROVE  LimitsInvariant'
<1>. USE DEF LimitsInvariant
<1>1. /\ now \in 0..MaxClock /\ now' = now /\ delivered' = delivered
      /\ deadline' = [deadline EXCEPT ![c] = d]
      /\ deadline' \in [Calls -> Nat]
  BY DEF Attempt, TypeOK
<1>2. CASE \E s \in {"budget_exceeded", "deadline_exceeded"} :
             Goto(c, s) /\ UNCHANGED <<ledgerVars, attempt, timer>>
  <2>1. PICK s \in {"budget_exceeded", "deadline_exceeded"} :
           pc' = [pc EXCEPT ![c] = s]
    BY <1>2 DEF Goto
  <2>2. UNCHANGED <<provider_calls, total_tokens, attempt, timer>>
    BY <1>2 DEF ledgerVars
  <2>3. TypeOK'
    BY <1>1, <2>1, <2>2 DEF TypeOK, Ended
  <2>4. \A o \in Calls : pc'[o] \in {"calling", "sleeping"} => o # c /\ pc'[o] = pc[o]
    BY <2>1 DEF TypeOK
  <2>. QED
    BY <1>1, <2>2, <2>3, <2>4 DEF TypeOK, TimersHold, AttemptsHold, Pending
<1>3. CASE /\ CanAttempt(c) /\ ~(Remaining(d) <= 0)
           /\ Goto(c, "calling")
           /\ provider_calls' = provider_calls + 1
           /\ attempt' = [attempt EXCEPT ![c] = n]
           /\ timer' = [timer EXCEPT ![c] = now + Remaining(d)]
           /\ UNCHANGED total_tokens
  <2>1. /\ Remaining(d) \in Int /\ Remaining(d) > 0
        /\ now + Remaining(d) <= d
        /\ now + Remaining(d) <= MaxElapsed
    BY <1>1, <1>3, RemainingIsWithin
  <2>. DEFINE due == now + Remaining(d)
  <2>2. due \in Nat /\ now <= due /\ due <= d /\ due <= MaxElapsed
    BY <1>1, <2>1
  <2>3. timer' = [timer EXCEPT ![c] = due]
    BY <1>3
  <2>. HIDE DEF due
  <2>4. provider_calls + 1 <= MaxProviderCalls
    BY <1>3, Constants DEF CanAttempt, TypeOK
  <2>5. pc' = [pc EXCEPT ![c] = "calling"]
    BY <1>3 DEF Goto
  <2>6. TypeOK'
    BY <1>1, <1>3, <2>2, <2>3, <2>5, Constants DEF TypeOK
  <2>7. TimersHold'
    BY <1>1, <2>2, <2>3, <2>5 DEF TypeOK, TimersHold, Pending
  <2>8. AttemptsHold'
    BY <1>3, <2>4, <2>5, Constants DEF TypeOK, AttemptsHold, Pending
  <2>. QED
    BY <2>6, <2>7, <2>8
<1>. QED
  BY <1>2, <1>3 DEF Attempt

\* The end of a call gives up its timer and nothing else.
LEMMA EndKeeps ==
  ASSUME LimitsInvariant, NEW c \in Calls, NEW s \in Ended,
         pc' = [pc EXCEPT ![c] = s],
         UNCHANGED <<now, provider_calls, attempt, deadline, timer>>,
         total_tokens' \in Nat, delivered' \in [Calls -> Nat]
  PROVE  LimitsInvariant'
<1>1. TypeOK'
  BY DEF LimitsInvariant, TypeOK
<1>2. \A o \in Calls : pc'[o] \in {"calling", "sleeping"} => o # c /\ pc'[o] = pc[o]
  BY DEF LimitsInvariant, TypeOK, Ended
<1>. QED
  BY <1>1, <1>2 DEF LimitsInvariant, TypeOK, TimersHold, AttemptsHold, Pending

\* So does an end that changes nothing else at all.
LEMMA EndStateKeeps ==
  ASSUME LimitsInvariant, NEW c \in Calls, NEW s \in Ended, End(c, s)
  PROVE  LimitsInvariant'
<1>1. /\ pc' = [pc EXCEPT ![c] = s]
      /\ UNCHANGED <<now, provider_calls, total_tokens, attempt, deadline, timer, delivered>>
  BY DEF End, Goto, ledgerVars
<1>2. total_tokens' \in Nat /\ delivered' \in [Calls -> Nat]
  BY <1>1 DEF LimitsInvariant, TypeOK
<1>. QED
  BY <1>1, <1>2, EndKeeps

\* A retry is scheduled only where it falls before both deadlines and an attempt is left.
LEMMA GiveUpOrSleepKeeps ==
  ASSUME LimitsInvariant, NEW c \in Calls, NEW r \in RetryAfter \cup {None},
         pc[c] = "calling", GiveUpOrSleep(c, r)
  PROVE  LimitsInvariant'
<1>. DEFINE delay == Delay(attempt[c], r)
<1>1. attempt[c] \in 1..MaxAttempts /\ deadline[c] \in Nat /\ now \in 0..MaxClock
  BY Constants DEF LimitsInvariant, TypeOK, AttemptsHold, Pending
<1>2. delay \in Nat
  BY <1>1, DelayIsNatural
<1>. HIDE DEF delay
<1>3. CASE \E s \in {"retry_exhausted", "deadline_exceeded"} : End(c, s)
  <2>1. PICK s \in {"retry_exhausted", "deadline_exceeded"} : End(c, s)
    BY <1>3
  <2>. QED
    BY <2>1, EndStateKeeps DEF Ended
<1>4. CASE /\ attempt[c] < MaxAttempts
           /\ delay < Remaining(deadline[c])
           /\ Backoff(c, delay)
  <2>1. attempt[c] + 1 \in 1..MaxAttempts
    BY <1>1, <1>4, Constants
  <2>2. CASE delay = 0
    BY <1>1, <1>4, <2>1, <2>2, AttemptKeeps DEF Backoff
  <2>3. CASE delay # 0
    <3>1. /\ pc' = [pc EXCEPT ![c] = "sleeping"]
          /\ timer' = [timer EXCEPT ![c] = now + delay]
          /\ UNCHANGED <<now, provider_calls, total_tokens, attempt, deadline, delivered>>
      BY <1>4, <2>3 DEF Backoff, Goto, ledgerVars
    <3>2. /\ Remaining(deadline[c]) \in Int
          /\ Remaining(deadline[c]) > 0
          /\ now + Remaining(deadline[c]) <= deadline[c]
          /\ now + Remaining(deadline[c]) <= MaxElapsed
      <4>1. Remaining(deadline[c]) \in Int
        BY <1>1, RemainingIsWithin
      <4>2. Remaining(deadline[c]) > 0
        BY <1>2, <1>4, <4>1
      <4>. QED
        BY <1>1, <4>1, <4>2, RemainingIsWithin
    <3>. DEFINE due == now + delay
    <3>3. due \in Nat /\ now <= due /\ due <= deadline[c] /\ due <= MaxElapsed
      BY <1>1, <1>2, <1>4, <3>2, Constants
    <3>4. timer' = [timer EXCEPT ![c] = due]
      BY <3>1
    <3>. HIDE DEF due
    <3>5. TypeOK'
      BY <3>1, <3>3, <3>4 DEF LimitsInvariant, TypeOK
    <3>6. TimersHold'
      BY <3>1, <3>3, <3>4 DEF LimitsInvariant, TypeOK, TimersHold, Pending
    <3>7. AttemptsHold'
      BY <1>1, <1>4, <3>1 DEF LimitsInvariant, TypeOK, AttemptsHold, Pending
    <3>. QED
      BY <3>5, <3>6, <3>7 DEF LimitsInvariant
  <2>. QED
    BY <2>2, <2>3
<1>. QED
  <2>1. Remaining(deadline[c]) \in Int /\ MaxAttempts \in Int
    BY <1>1, RemainingIsWithin, Constants
  <2>. QED
    BY <1>1, <1>2, <1>3, <1>4, <2>1 DEF GiveUpOrSleep, delay

\* An answer adds its tokens to the ledger, and to what was delivered if they fit.
LEMMA RespondKeeps ==
  ASSUME LimitsInvariant, NEW c \in Calls, NEW n \in Nat, Respond(c, n)
  PROVE  LimitsInvariant'
<1>1. PICK s \in {"budget_exceeded", "returned"} : pc' = [pc EXCEPT ![c] = s]
  BY DEF Respond, Goto
<1>2. UNCHANGED <<now, provider_calls, attempt, deadline, timer>>
  BY DEF Respond
<1>3. total_tokens' \in Nat
  BY DEF Respond, LimitsInvariant, TypeOK
<1>4. delivered' \in [Calls -> Nat]
  BY DEF Respond, LimitsInvariant, TypeOK
<1>. QED
  BY <1>1, <1>2, <1>3, <1>4, EndKeeps DEF Ended

\* Time stops at the next timer.
LEMMA TickKeeps ==
  ASSUME LimitsInvariant, Tick
  PROVE  LimitsInvariant'
<1>1. /\ now < MaxClock /\ now' = now + 1
      /\ \A c \in Calls : Pending(c) => now < timer[c]
      /\ UNCHANGED <<provider_calls, total_tokens, pc, attempt, deadline, timer, delivered>>
  BY DEF Tick, Pending, ledgerVars
<1>2. MaxClock \in Nat /\ MaxElapsed \in Nat
  BY Constants
<1>. QED
  BY <1>1, <1>2 DEF LimitsInvariant, TypeOK, TimersHold, AttemptsHold, Pending

LEMMA GenerateKeeps ==
  ASSUME LimitsInvariant, NEW c \in Calls, Generate(c)
  PROVE  LimitsInvariant'
<1>1. now + Timeout[c] \in Nat /\ 1 \in 1..MaxAttempts
  BY Constants DEF LimitsInvariant, TypeOK
<1>. QED
  BY <1>1, AttemptKeeps DEF Generate

LEMMA RetryKeeps ==
  ASSUME LimitsInvariant, NEW c \in Calls, Retry(c)
  PROVE  LimitsInvariant'
<1>1. deadline[c] \in Nat /\ attempt[c] + 1 \in 1..MaxAttempts
  BY Constants DEF Retry, LimitsInvariant, TypeOK, AttemptsHold, Pending
<1>. QED
  BY <1>1, AttemptKeeps DEF Retry

\* Every step of the executor keeps its limits.
LEMMA NextKeepsLimits ==
  ASSUME LimitsInvariant, [Next]_resilientVars
  PROVE  LimitsInvariant'
<1>1. CASE Tick
  BY <1>1, TickKeeps
<1>2. ASSUME NEW c \in Calls, Generate(c)
      PROVE  LimitsInvariant'
  BY <1>2, GenerateKeeps
<1>3. ASSUME NEW c \in Calls, Retry(c)
      PROVE  LimitsInvariant'
  BY <1>3, RetryKeeps
<1>4. ASSUME NEW c \in Calls, TimeOut(c)
      PROVE  LimitsInvariant'
  BY <1>4, GiveUpOrSleepKeeps DEF TimeOut
<1>5. ASSUME NEW c \in Calls, NEW n \in 0..(Need[c] + Excess), Respond(c, n)
      PROVE  LimitsInvariant'
  <2>1. n \in Nat
    BY Constants
  <2>. QED
    BY <1>5, <2>1, RespondKeeps
<1>6. ASSUME NEW c \in Calls, RespondOffContract(c)
      PROVE  LimitsInvariant'
  BY <1>6, EndStateKeeps DEF RespondOffContract, Ended
<1>7. ASSUME NEW c \in Calls, NEW r \in RetryAfter, FailRetryably(c, r)
      PROVE  LimitsInvariant'
  BY <1>7, GiveUpOrSleepKeeps DEF FailRetryably
<1>8. ASSUME NEW c \in Calls, FailFinally(c)
      PROVE  LimitsInvariant'
  BY <1>8, EndStateKeeps DEF FailFinally, Ended
<1>9. ASSUME NEW c \in Calls, Cancel(c)
      PROVE  LimitsInvariant'
  BY <1>9, EndStateKeeps DEF Cancel, Ended
<1>10. CASE UNCHANGED resilientVars
  BY <1>10 DEF resilientVars, ledgerVars, LimitsInvariant, TypeOK, TimersHold, AttemptsHold,
               Pending
<1>. QED
  BY <1>1, <1>2, <1>3, <1>4, <1>5, <1>6, <1>7, <1>8, <1>9, <1>10 DEF Next

LEMMA InitWithinLimits == Init => LimitsInvariant
<1>. SUFFICES ASSUME Init PROVE LimitsInvariant
  OBVIOUS
<1>1. \A c \in Calls : pc[c] = "idle"
  BY DEF Init
<1>2. TypeOK
  BY Constants DEF Init, TypeOK
<1>. QED
  BY <1>1, <1>2, Constants DEF Init, LimitsInvariant, TimersHold, AttemptsHold, Pending

\* The executor keeps its types and its limits.
THEOREM ExecutorWithinLimits == Spec => []LimitsInvariant
BY InitWithinLimits, NextKeepsLimits, PTL DEF Spec

\* Every provider call is made within max_provider_calls, and a call under way is
\* before its own deadline and within the executor's time budget (execution.py,
\* assert_can_attempt and the timeout of each attempt), whatever the other calls do.
THEOREM CallsWithinDeadlines == Spec => [](DeadlinesHold /\ provider_calls <= MaxProviderCalls)
<1>1. LimitsInvariant => DeadlinesHold /\ provider_calls <= MaxProviderCalls
  <2>. SUFFICES ASSUME LimitsInvariant PROVE DeadlinesHold
    BY DEF LimitsInvariant, AttemptsHold
  <2>1. MaxElapsed \in Nat /\ now \in 0..MaxClock
        /\ timer \in [Calls -> Nat] /\ deadline \in [Calls -> Nat]
    BY Constants DEF LimitsInvariant, TypeOK
  <2>. QED
    BY <2>1 DEF LimitsInvariant, TimersHold, DeadlinesHold
<1>. QED
  BY <1>1, ExecutorWithinLimits, PTL

-----------------------------------------------------------------------------
\* An iteration calls the provider only where tokens are left.
LEMMA AttemptNeedsTokens ==
  ASSUME LimitsInvariant, NEW c \in Calls, NEW d, NEW n, Attempt(c, d, n),
         total_tokens > MaxTotalTokens
  PROVE  provider_calls' = provider_calls
<1>1. ~CanAttempt(c)
  BY Constants DEF CanAttempt, LimitsInvariant, TypeOK
<1>. QED
  BY <1>1 DEF Attempt, ledgerVars

LEMMA GiveUpNeedsTokens ==
  ASSUME LimitsInvariant, NEW c \in Calls, NEW r, GiveUpOrSleep(c, r),
         total_tokens > MaxTotalTokens
  PROVE  provider_calls' = provider_calls
<1>1. ASSUME NEW s, End(c, s) PROVE provider_calls' = provider_calls
  BY <1>1 DEF End, ledgerVars
<1>2. ASSUME NEW delay, Backoff(c, delay) PROVE provider_calls' = provider_calls
  BY <1>2, AttemptNeedsTokens DEF Backoff, ledgerVars
<1>. QED
  BY <1>1, <1>2 DEF GiveUpOrSleep

\* Once the ledger is over its token budget no provider is called again, by no call
\* and no retry (BudgetLedger.assert_can_attempt).
THEOREM OverrunStaysFinal == Spec => OverrunIsFinal
<1>1. ASSUME LimitsInvariant, [Next]_resilientVars, total_tokens > MaxTotalTokens
      PROVE  provider_calls' = provider_calls
  <2>1. ASSUME NEW c \in Calls, Generate(c) \/ Retry(c)
        PROVE  provider_calls' = provider_calls
    BY <1>1, <2>1, AttemptNeedsTokens DEF Generate, Retry
  <2>2. ASSUME NEW c \in Calls, NEW r, GiveUpOrSleep(c, r)
        PROVE  provider_calls' = provider_calls
    BY <1>1, <2>2, GiveUpNeedsTokens
  <2>3. ASSUME NEW c \in Calls, NEW s, End(c, s)
        PROVE  provider_calls' = provider_calls
    BY <2>3 DEF End, ledgerVars
  <2>4. ASSUME NEW c \in Calls, NEW n, Respond(c, n)
        PROVE  provider_calls' = provider_calls
    BY <2>4 DEF Respond
  <2>5. CASE Tick
    BY <2>5 DEF Tick, ledgerVars
  <2>6. CASE UNCHANGED resilientVars
    BY <2>6 DEF resilientVars, ledgerVars
  <2>. QED
    BY <1>1, <2>1, <2>2, <2>3, <2>4, <2>5, <2>6
       DEF Next, TimeOut, RespondOffContract, FailRetryably, FailFinally, Cancel
<1>. QED
  BY <1>1, ExecutorWithinLimits, PTL DEF Spec, OverrunIsFinal

-----------------------------------------------------------------------------
\* The ledger counts one provider call for every attempt, and has recorded the tokens
\* of every response that was delivered; a call that is not begun has no attempt, one
\* that did not return has delivered nothing.
LedgerCovers ==
    /\ provider_calls = SumFunctionOnSet(attempt, Calls)
    /\ SumFunctionOnSet(delivered, Calls) <= total_tokens
    /\ SumFunctionOnSet(delivered, Calls) <= MaxTotalTokens
    /\ \A c \in Calls : pc[c] = "idle" => attempt[c] = 0
    /\ \A c \in Calls : pc[c] # "returned" => delivered[c] = 0

BudgetInvariant == LimitsInvariant /\ LedgerCovers

LEMMA CallsFinite == IsFiniteSet(Calls)
BY ResilienceAssumption DEF ResilienceAssumption

\* A step that changes no count, no response and no call that is idle or returned.
LEMMA LedgerStays ==
  ASSUME LedgerCovers, total_tokens' = total_tokens,
         UNCHANGED <<provider_calls, attempt, delivered>>,
         \A c \in Calls : pc'[c] = "idle" => pc[c] = "idle",
         \A c \in Calls : pc[c] = "returned" => pc'[c] = "returned"
  PROVE  LedgerCovers'
BY DEF LedgerCovers

\* An attempt is counted as it is made, the next of its call.
LEMMA AttemptCounts ==
  ASSUME BudgetInvariant, NEW c \in Calls, NEW d, pc[c] # "returned",
         attempt[c] + 1 \in 1..MaxAttempts, Attempt(c, d, attempt[c] + 1)
  PROVE  LedgerCovers'
<1>. DEFINE n == attempt[c] + 1
<1>. USE DEF BudgetInvariant, LimitsInvariant
<1>1. CASE \E s \in {"budget_exceeded", "deadline_exceeded"} :
             Goto(c, s) /\ UNCHANGED <<ledgerVars, attempt, timer>>
  <2>1. /\ UNCHANGED <<provider_calls, total_tokens, attempt, delivered>>
        /\ \E s \in {"budget_exceeded", "deadline_exceeded"} : pc' = [pc EXCEPT ![c] = s]
    BY <1>1 DEF Goto, ledgerVars, Attempt
  <2>. QED
    BY <2>1, LedgerStays DEF TypeOK
<1>2. CASE /\ pc' = [pc EXCEPT ![c] = "calling"]
           /\ provider_calls' = provider_calls + 1
           /\ attempt' = [attempt EXCEPT ![c] = n]
           /\ UNCHANGED <<total_tokens, delivered>>
  <2>1. \A o \in Calls : attempt[o] \in Nat
    BY DEF TypeOK
  <2>2. \A o \in Calls : attempt'[o] \in Nat
    BY <1>2, <2>1
  <2>3. attempt'[c] = n /\ \A o \in Calls \ {c} : attempt'[o] = attempt[o]
    BY <1>2 DEF TypeOK
  <2>. HIDE DEF n
  <2>4. SumFunctionOnSet(attempt', Calls) + attempt[c]
           = SumFunctionOnSet(attempt, Calls) + attempt'[c]
    BY <2>1, <2>2, <2>3, CallsFinite, SumChanges
  <2>5. SumFunctionOnSet(attempt', Calls) \in Nat /\ SumFunctionOnSet(attempt, Calls) \in Nat
    BY <2>1, <2>2, CallsFinite, SumType
  <2>6. SumFunctionOnSet(attempt', Calls) = SumFunctionOnSet(attempt, Calls) + 1
    BY <2>1, <2>3, <2>4, <2>5 DEF n
  <2>7. \A o \in Calls : pc'[o] = "idle" => attempt'[o] = 0
    BY <1>2, <2>3 DEF LedgerCovers, TypeOK
  <2>8. \A o \in Calls : pc'[o] # "returned" => delivered'[o] = 0
    BY <1>2 DEF LedgerCovers, TypeOK
  <2>. QED
    BY <1>2, <2>6, <2>7, <2>8 DEF LedgerCovers
<1>. QED
  BY <1>1, <1>2 DEF Attempt, Goto

LEMMA EndCounts ==
  ASSUME BudgetInvariant, NEW c \in Calls, NEW s \in Ended, pc[c] # "returned", End(c, s)
  PROVE  LedgerCovers'
<1>1. /\ UNCHANGED <<provider_calls, total_tokens, attempt, delivered>>
      /\ pc' = [pc EXCEPT ![c] = s]
  BY DEF End, Goto, ledgerVars
<1>. QED
  BY <1>1, LedgerStays DEF BudgetInvariant, LimitsInvariant, TypeOK, Ended

LEMMA GiveUpOrSleepCounts ==
  ASSUME BudgetInvariant, NEW c \in Calls, NEW r, pc[c] = "calling", GiveUpOrSleep(c, r)
  PROVE  LedgerCovers'
<1>. USE DEF BudgetInvariant
<1>1. CASE \E s \in {"retry_exhausted", "deadline_exceeded"} : End(c, s)
  <2>1. PICK s \in {"retry_exhausted", "deadline_exceeded"} : End(c, s)
    BY <1>1
  <2>. QED
    BY <2>1, EndCounts DEF Ended
<1>2. ASSUME attempt[c] < MaxAttempts, NEW delay, Backoff(c, delay)
      PROVE  LedgerCovers'
  <2>1. attempt[c] + 1 \in 1..MaxAttempts
    BY <1>2, Constants DEF LimitsInvariant, TypeOK
  <2>2. CASE delay = 0
    BY <1>2, <2>1, <2>2, AttemptCounts DEF Backoff
  <2>3. CASE delay # 0
    <3>1. /\ pc' = [pc EXCEPT ![c] = "sleeping"]
          /\ UNCHANGED <<provider_calls, total_tokens, attempt, delivered>>
      BY <1>2, <2>3 DEF Backoff, Goto, ledgerVars
    <3>. QED
      BY <3>1, LedgerStays DEF LimitsInvariant, TypeOK
  <2>. QED
    BY <2>2, <2>3
<1>. QED
  BY <1>1, <1>2, Constants DEF GiveUpOrSleep, LimitsInvariant, TypeOK

\* What a call delivers, the ledger has just recorded and found within the budget.
LEMMA RespondCounts ==
  ASSUME BudgetInvariant, NEW c \in Calls, NEW n \in Nat, Respond(c, n)
  PROVE  LedgerCovers'
<1>. USE DEF BudgetInvariant, LimitsInvariant
<1>. DEFINE kept == IF total_tokens + n > MaxTotalTokens THEN 0 ELSE n
            state == IF total_tokens + n > MaxTotalTokens THEN "budget_exceeded" ELSE "returned"
<1>1. /\ pc[c] = "calling"
      /\ total_tokens' = total_tokens + n
      /\ delivered' = [delivered EXCEPT ![c] = kept]
      /\ pc' = [pc EXCEPT ![c] = state]
      /\ UNCHANGED <<provider_calls, attempt>>
  BY DEF Respond, Goto
<1>2. /\ kept \in Nat /\ kept <= n
      /\ kept # 0 => state = "returned"
      /\ kept # 0 => total_tokens + n <= MaxTotalTokens
      /\ state \in {"returned", "budget_exceeded"}
  BY Constants DEF TypeOK
<1>. HIDE DEF kept, state
<1>3. \A o \in Calls : delivered[o] \in Nat
  BY DEF TypeOK
<1>4. delivered'[c] = kept /\ \A o \in Calls \ {c} : delivered'[o] = delivered[o]
  BY <1>1 DEF TypeOK
<1>5. \A o \in Calls : delivered'[o] \in Nat
  BY <1>2, <1>3, <1>4
<1>6. delivered[c] = 0
  BY <1>1 DEF LedgerCovers
<1>7. SumFunctionOnSet(delivered', Calls) + delivered[c]
         = SumFunctionOnSet(delivered, Calls) + delivered'[c]
  BY <1>3, <1>4, <1>5, CallsFinite, SumChanges
<1>8. SumFunctionOnSet(delivered', Calls) \in Nat /\ SumFunctionOnSet(delivered, Calls) \in Nat
  BY <1>3, <1>5, CallsFinite, SumType
<1>9. SumFunctionOnSet(delivered', Calls) = SumFunctionOnSet(delivered, Calls) + kept
  BY <1>4, <1>6, <1>7, <1>8
<1>10. /\ SumFunctionOnSet(delivered', Calls) <= total_tokens'
       /\ SumFunctionOnSet(delivered', Calls) <= MaxTotalTokens
  BY <1>1, <1>2, <1>8, <1>9, Constants DEF LedgerCovers, TypeOK
<1>11. \A o \in Calls : pc'[o] = "idle" => attempt'[o] = 0
  BY <1>1, <1>2 DEF LedgerCovers, TypeOK
<1>12. \A o \in Calls : pc'[o] # "returned" => delivered'[o] = 0
  BY <1>1, <1>2, <1>4 DEF LedgerCovers, TypeOK
<1>. QED
  BY <1>1, <1>10, <1>11, <1>12 DEF LedgerCovers

\* No step makes a provider call that is not counted, or delivers tokens that are not.
LEMMA NextKeepsLedger ==
  ASSUME BudgetInvariant, [Next]_resilientVars
  PROVE  LedgerCovers'
<1>. USE DEF BudgetInvariant
<1>1. CASE Tick \/ UNCHANGED resilientVars
  <2>1. UNCHANGED <<provider_calls, total_tokens, pc, attempt, delivered>>
    BY <1>1 DEF Tick, resilientVars, ledgerVars
  <2>. QED
    BY <2>1, LedgerStays
<1>2. ASSUME NEW c \in Calls, Generate(c) PROVE LedgerCovers'
  <2>1. attempt[c] = 0 /\ pc[c] # "returned"
    BY <1>2 DEF Generate, LedgerCovers
  <2>2. attempt[c] + 1 = 1 /\ attempt[c] + 1 \in 1..MaxAttempts
    BY <2>1, Constants
  <2>3. Attempt(c, now + Timeout[c], attempt[c] + 1)
    BY <1>2, <2>2 DEF Generate
  <2>. QED
    BY <2>1, <2>2, <2>3, AttemptCounts
<1>3. ASSUME NEW c \in Calls, Retry(c) PROVE LedgerCovers'
  <2>1. attempt[c] + 1 \in 1..MaxAttempts /\ pc[c] # "returned"
    BY <1>3, Constants DEF Retry, LimitsInvariant, TypeOK, AttemptsHold
  <2>. QED
    BY <1>3, <2>1, AttemptCounts DEF Retry
<1>4. ASSUME NEW c \in Calls, NEW r, pc[c] = "calling", GiveUpOrSleep(c, r)
      PROVE  LedgerCovers'
  BY <1>4, GiveUpOrSleepCounts
<1>5. ASSUME NEW c \in Calls, NEW n \in 0..(Need[c] + Excess), Respond(c, n)
      PROVE  LedgerCovers'
  <2>1. n \in Nat
    BY Constants
  <2>. QED
    BY <1>5, <2>1, RespondCounts
<1>6. ASSUME NEW c \in Calls, NEW s \in Ended, pc[c] \in {"calling", "sleeping"}, End(c, s)
      PROVE  LedgerCovers'
  BY <1>6, EndCounts
<1>. QED
  BY <1>1, <1>2, <1>3, <1>4, <1>5, <1>6
     DEF Next, TimeOut, RespondOffContract, FailRetryably, FailFinally, Cancel, Ended

LEMMA InitCovered == Init => LedgerCovers
<1>. SUFFICES ASSUME Init PROVE LedgerCovers
  OBVIOUS
<1>1. \A c \in Calls : attempt[c] = 0 /\ delivered[c] = 0
  BY DEF Init
<1>2. SumFunctionOnSet(attempt, Calls) = 0 /\ SumFunctionOnSet(delivered, Calls) = 0
  BY <1>1, CallsFinite, SumOfZeros
<1>. QED
  BY <1>1, <1>2, Constants DEF Init, LedgerCovers

\* The calls of one executor keep together to its UsageBudget (BudgetLedger in
\* execution.py): for any number of calls, whatever their attempts, sleeps and late
\* answers, every provider call is counted once and within max_provider_calls, every
\* call under way is within both deadlines, and what was returned to callers fits in
\* max_total_tokens.
THEOREM BudgetIsKept == Spec => []BudgetHolds
<1>1. Init => BudgetInvariant
  BY InitWithinLimits, InitCovered DEF BudgetInvariant
<1>2. BudgetInvariant /\ [Next]_resilientVars => BudgetInvariant'
  BY NextKeepsLimits, NextKeepsLedger DEF BudgetInvariant
<1>3. BudgetInvariant => TypeOK /\ ProviderCallsBounded /\ DeliveredWithinBudget
  BY DEF BudgetInvariant, LimitsInvariant, AttemptsHold, LedgerCovers, ProviderCallsBounded,
         DeliveredWithinBudget
<1>. QED
  BY <1>1, <1>2, <1>3, CallsWithinDeadlines, PTL DEF Spec, BudgetHolds

-----------------------------------------------------------------------------
(*****************************************************************************)
(* The adapter under the executor (ProviderAdapter).                         *)
(*****************************************************************************)

\* A call and its requests: what a request not sent yet, a queued one, an attempt that
\* was followed by another and a thread's result say of the call.
CallJustified(c) ==
    /\ pc[c] = "idle" => attempt[c] = 0
    /\ pc[c] \in {"calling", "sleeping", "returned"} => attempt[c] \in Attempts
    /\ pc[c] = "sleeping" => ending[c][attempt[c]] \in {"retryable", "timeout"}
    /\ pc[c] = "returned" => ending[c][attempt[c]] = "response"
    /\ result[c] # NoResult => pc[c] = "calling" /\ request[c][attempt[c]] = "over"
    /\ \A i \in Attempts :
          /\ i > attempt[c] => request[c][i] = "none"
          /\ i < attempt[c] => ending[c][i] \in {"retryable", "timeout"}
          /\ request[c][i] = "queued" => pc[c] = "calling" /\ attempt[c] = i

JustifiedInvariant ==
    /\ LimitsInvariant
    /\ AdapterTypeOK
    /\ \A c \in Calls : CallJustified(c)

-----------------------------------------------------------------------------
\* What the assumption on replies says.
LEMMA ReplyFits ==
  ASSUME NEW r \in Replies, NEW c \in Calls
  PROVE  /\ r.tokens \in 0..(Need[c] + Excess)
         /\ RetryAfterSeconds(r) \in RetryAfter
         /\ r.body \in Bodies
<1>1. /\ r.tokens \in Nat /\ r.tokens <= Need[c] + Excess
      /\ r.body \in Bodies
      /\ r.retry_after \in 0..300 => r.retry_after \in RetryAfter
      /\ None \in RetryAfter
  BY AdapterAssumption DEF AdapterAssumption
<1>. QED
  BY <1>1, Constants DEF RetryAfterSeconds

\* Only a reply is a response, on contract or off it; every outcome is an ending.
LEMMA OutcomeOfResult ==
  ASSUME NEW r \in Results
  PROVE  /\ Outcome(r) \in {"response", "off_contract", "retryable", "final", "exception"}
         /\ Outcome(r) \in {"response", "off_contract"} => r \in Replies
         /\ Outcome(r) = "retryable" => r = Broken \/ r \in Replies
BY DEF Outcome, Results

\* An answer the task receives is a step of the executor.
LEMMA ReceiveIsAStep ==
  ASSUME NEW c \in Calls, result[c] \in Results \cup {NoResult}, Receive(c)
  PROVE  Next
<1>. DEFINE r == result[c]
<1>1. r \in Results
  BY DEF Receive
<1>2. CASE Outcome(r) = "response"
  <2>1. r \in Replies
    BY <1>1, <1>2, OutcomeOfResult
  <2>2. r.tokens \in 0..(Need[c] + Excess)
    BY <2>1, ReplyFits
  <2>3. Respond(c, r.tokens)
    BY <1>2 DEF Receive
  <2>. QED
    BY <2>2, <2>3 DEF Next
<1>3. CASE Outcome(r) = "off_contract"
  BY <1>3 DEF Receive, Next
<1>4. CASE Outcome(r) = "retryable"
  <2>. DEFINE after == IF r = Broken THEN None ELSE RetryAfterSeconds(r)
  <2>1. after \in RetryAfter
    BY <1>1, <1>4, OutcomeOfResult, ReplyFits, AdapterAssumption DEF AdapterAssumption
  <2>2. FailRetryably(c, after)
    BY <1>4 DEF Receive
  <2>. QED
    BY <2>1, <2>2 DEF Next
<1>5. CASE Outcome(r) \notin {"response", "off_contract", "retryable"}
  <2>1. FailFinally(c)
    BY <1>5 DEF Receive
  <2>. QED
    BY <2>1 DEF Next
<1>. QED
  BY <1>2, <1>3, <1>4, <1>5

\* Every step of the adapter is a step of the executor, or none.
LEMMA AdapterStep ==
  ASSUME AdapterTypeOK, AdapterNext
  PROVE  [Next]_resilientVars
<1>1. CASE PassTime
  BY <1>1 DEF PassTime, Next
<1>2. CASE Close \/ \E how \in {"closed", "interrupted"} : EndClose(how)
  BY <1>2 DEF Close, EndClose
<1>3. ASSUME NEW c \in Calls, Begin(c)
      PROVE  Next
  BY <1>3 DEF Begin, Next
<1>4. ASSUME NEW c \in Calls, Send(c)
      PROVE  [Next]_resilientVars
  BY <1>4 DEF Send, Next
<1>5. ASSUME NEW c \in Calls, Receive(c)
      PROVE  Next
  BY <1>5, ReceiveIsAStep DEF AdapterTypeOK
<1>6. ASSUME NEW c \in Calls, GiveUp(c) \/ CancelTask(c)
      PROVE  Next
  BY <1>6 DEF GiveUp, CancelTask, Next
<1>7. ASSUME NEW c \in Calls, NEW i \in Attempts,
             StartRequest(c, i) \/ \E r \in Results : FinishRequest(c, i, r)
      PROVE  UNCHANGED resilientVars
  BY <1>7 DEF StartRequest, FinishRequest
<1>. QED
  BY <1>1, <1>2, <1>3, <1>4, <1>5, <1>6, <1>7 DEF AdapterNext

-----------------------------------------------------------------------------
Endings == {"none", "response", "off_contract", "retryable", "final", "exception", "timeout",
            "cancelled"}

\* How an attempt ends changes one entry.
LEMMA EndAttemptTyped ==
  ASSUME ending \in [Calls -> [Attempts -> Endings]], NEW c \in Calls, NEW how \in Endings,
         EndAttempt(c, how)
  PROVE  /\ ending' \in [Calls -> [Attempts -> Endings]]
         /\ attempt[c] \in Attempts => ending'[c][attempt[c]] = how
         /\ \A o \in Calls, i \in Attempts :
               o # c \/ i # attempt[c] => ending'[o][i] = ending[o][i]
BY DEF EndAttempt

\* So does a request.
LEMMA SetRequestTyped ==
  ASSUME AdapterTypeOK, NEW c \in Calls, NEW i \in Attempts,
         NEW state \in {"none", "queued", "running", "over"}, SetRequest(c, i, state)
  PROVE  /\ request' \in [Calls -> [Attempts -> {"none", "queued", "running", "over"}]]
         /\ request'[c][i] = state
         /\ \A o \in Calls, j \in Attempts :
               o # c \/ j # i => request'[o][j] = request[o][j]
BY DEF SetRequest, AdapterTypeOK

\* The shape of the adapter's state, with the call's attempt in its range.
LEMMA AdapterTypeKept ==
  ASSUME JustifiedInvariant, [AdapterNext]_providerVars
  PROVE  AdapterTypeOK'
<1>. USE DEF JustifiedInvariant
<1>1. CASE UNCHANGED adapterVars
  BY <1>1 DEF adapterVars, AdapterTypeOK
<1>2. CASE Close \/ \E how \in {"closed", "interrupted"} : EndClose(how)
  BY <1>2 DEF Close, EndClose, AdapterTypeOK
<1>3. ASSUME NEW c \in Calls, Send(c)
      PROVE  AdapterTypeOK'
  <2>1. attempt[c] \in Attempts
    BY <1>3 DEF Send, Unsent, CallJustified
  <2>2. CASE closing # "open"
    <3>1. EndAttempt(c, "final") /\ UNCHANGED <<closing, request, result>>
      BY <1>3, <2>2 DEF Send
    <3>. QED
      BY <3>1, EndAttemptTyped DEF AdapterTypeOK, Endings
  <2>3. CASE closing = "open"
    <3>1. SetRequest(c, attempt[c], "queued") /\ UNCHANGED <<closing, result, ending>>
      BY <1>3, <2>3 DEF Send
    <3>. QED
      BY <2>1, <3>1, SetRequestTyped DEF AdapterTypeOK
  <2>. QED
    BY <2>2, <2>3
<1>4. ASSUME NEW c \in Calls, Receive(c)
      PROVE  AdapterTypeOK'
  <2>1. result[c] \in Results
    BY <1>4 DEF Receive, AdapterTypeOK
  <2>2. Outcome(result[c]) \in Endings
    BY <2>1, OutcomeOfResult DEF Endings
  <2>3. EndAttempt(c, Outcome(result[c])) /\ UNCHANGED <<closing, request>>
        /\ result' = [result EXCEPT ![c] = NoResult]
    BY <1>4 DEF Receive
  <2>. QED
    BY <2>2, <2>3, EndAttemptTyped DEF AdapterTypeOK, Endings
<1>5. ASSUME NEW c \in Calls, NEW how \in {"timeout", "cancelled"}, LeaveRequest(c, how),
             pc[c] = "calling"
      PROVE  AdapterTypeOK'
  <2>1. attempt[c] \in Attempts
    BY <1>5 DEF CallJustified
  <2>2. ending' \in [Calls -> [Attempts -> Endings]]
    BY <1>5, EndAttemptTyped DEF LeaveRequest, AdapterTypeOK, Endings
  <2>3. request' \in [Calls -> [Attempts -> {"none", "queued", "running", "over"}]]
    BY <1>5, <2>1, SetRequestTyped DEF LeaveRequest, AdapterTypeOK
  <2>4. result' \in [Calls -> Results \cup {NoResult}] /\ closing' = closing
    BY <1>5 DEF LeaveRequest, AdapterTypeOK
  <2>. QED
    BY <2>2, <2>3, <2>4 DEF AdapterTypeOK, Endings
<1>6. ASSUME NEW c \in Calls, NEW i \in Attempts, StartRequest(c, i)
      PROVE  AdapterTypeOK'
  BY <1>6, SetRequestTyped DEF StartRequest, AdapterTypeOK
<1>7. ASSUME NEW c \in Calls, NEW i \in Attempts, NEW r \in Results, FinishRequest(c, i, r)
      PROVE  AdapterTypeOK'
  <2>1. result' \in [Calls -> Results \cup {NoResult}]
    BY <1>7 DEF FinishRequest, AdapterTypeOK
  <2>. QED
    BY <1>7, <2>1, SetRequestTyped DEF FinishRequest, AdapterTypeOK
<1>8. ASSUME NEW c \in Calls, GiveUp(c) \/ CancelTask(c) \/ Begin(c)
      PROVE  AdapterTypeOK'
  BY <1>1, <1>5, <1>8 DEF GiveUp, CancelTask, Begin, TimeOut
<1>9. CASE PassTime \/ UNCHANGED providerVars
  BY <1>1, <1>9 DEF PassTime, providerVars
<1>. QED
  BY <1>2, <1>3, <1>4, <1>6, <1>7, <1>8, <1>9 DEF AdapterNext

-----------------------------------------------------------------------------
\* How the executor moves a call: it goes to state `to`, with attempt `n`.
Moves(c, to, n) ==
    /\ pc' = [pc EXCEPT ![c] = to]
    /\ attempt' = [attempt EXCEPT ![c] = n]

LEMMA AttemptMoves ==
  ASSUME TypeOK, NEW c \in Calls, NEW d, NEW n, Attempt(c, d, n)
  PROVE  \/ \E to \in {"budget_exceeded", "deadline_exceeded"} : Moves(c, to, attempt[c])
         \/ Moves(c, "calling", n)
BY DEF Attempt, Goto, Moves, TypeOK

LEMMA GiveUpMoves ==
  ASSUME TypeOK, NEW c \in Calls, NEW r, GiveUpOrSleep(c, r)
  PROVE  \/ \E to \in {"budget_exceeded", "deadline_exceeded", "retry_exhausted", "sleeping"} :
               Moves(c, to, attempt[c])
         \/ Moves(c, "calling", attempt[c] + 1)
<1>1. ASSUME NEW to \in {"deadline_exceeded", "retry_exhausted"}, End(c, to)
      PROVE  Moves(c, to, attempt[c])
  BY <1>1 DEF End, Goto, Moves, TypeOK
<1>2. ASSUME NEW delay, Backoff(c, delay)
      PROVE  \/ \E to \in {"budget_exceeded", "deadline_exceeded", "sleeping"} :
                   Moves(c, to, attempt[c])
             \/ Moves(c, "calling", attempt[c] + 1)
  <2>1. CASE delay = 0
    BY <1>2, <2>1, AttemptMoves DEF Backoff
  <2>2. CASE delay # 0
    BY <1>2, <2>2 DEF Backoff, Goto, Moves, TypeOK
  <2>. QED
    BY <2>1, <2>2
<1>. QED
  BY <1>1, <1>2 DEF GiveUpOrSleep

\* A call that goes on to attempt `n`, or ends, after an attempt that ended with `how`.
LEMMA EndingJustifies ==
  ASSUME JustifiedInvariant, AdapterTypeOK', TypeOK', NEW c \in Calls, NEW to, NEW n, NEW how,
         attempt[c] \in Attempts, result'[c] = NoResult,
         ending'[c][attempt[c]] = how,
         \A i \in Attempts : i # attempt[c] => ending'[c][i] = ending[c][i],
         request'[c][attempt[c]] # "queued",
         \A i \in Attempts : i # attempt[c] => request'[c][i] = request[c][i],
         Moves(c, to, n),
         \/ n = attempt[c] /\ to \in Ended /\ (to = "returned" => how = "response")
         \/ n = attempt[c] /\ to = "sleeping" /\ how \in {"retryable", "timeout"}
         \/ n = attempt[c] + 1 /\ to = "calling" /\ how \in {"retryable", "timeout"}
  PROVE  CallJustified(c)'
<1>1. pc'[c] = to /\ attempt'[c] = n
  BY DEF Moves, JustifiedInvariant, LimitsInvariant, TypeOK
<1>2. n \in 0..MaxAttempts /\ attempt[c] \in Nat /\ MaxAttempts \in Nat
  BY <1>1, Constants DEF TypeOK, Attempts
<1>3. n \in Attempts
  BY <1>2 DEF Attempts
<1>4. to \in Ended \cup {"sleeping", "calling"} /\ to # "idle"
  BY DEF Ended
<1>5. ASSUME NEW i \in Attempts
      PROVE  /\ i > n => request'[c][i] = "none"
             /\ i < n => ending'[c][i] \in {"retryable", "timeout"}
             /\ request'[c][i] # "queued"
  BY <1>2, <1>3, <1>5 DEF JustifiedInvariant, CallJustified, Attempts
<1>. QED
  BY <1>1, <1>3, <1>4, <1>5 DEF CallJustified, Ended

\* A call that nothing happens to stays justified.
Undisturbed(o) ==
    /\ pc'[o] = pc[o] /\ attempt'[o] = attempt[o] /\ result'[o] = result[o]
    /\ request'[o] = request[o] /\ ending'[o] = ending[o]

LEMMA UndisturbedStays ==
  ASSUME NEW o, CallJustified(o), Undisturbed(o)
  PROVE  CallJustified(o)'
BY DEF CallJustified, Undisturbed

\* A step about one call leaves the others undisturbed.
LEMMA OthersUndisturbed ==
  ASSUME JustifiedInvariant, NEW c \in Calls, NEW o \in Calls, o # c,
         UNCHANGED <<pc, attempt>> \/ \E to, n : Moves(c, to, n),
         result' = result \/ \E r : result' = [result EXCEPT ![c] = r],
         request' = request \/ \E i, state : SetRequest(c, i, state),
         ending' = ending \/ \E how : EndAttempt(c, how)
  PROVE  CallJustified(o)'
<1>1. pc'[o] = pc[o] /\ attempt'[o] = attempt[o]
  BY DEF Moves, JustifiedInvariant, LimitsInvariant, TypeOK
<1>2. result'[o] = result[o]
  BY DEF JustifiedInvariant, AdapterTypeOK
<1>3. request'[o] = request[o]
  BY DEF SetRequest, JustifiedInvariant, AdapterTypeOK
<1>4. ending'[o] = ending[o]
  BY DEF EndAttempt, JustifiedInvariant, AdapterTypeOK
<1>. QED
  BY <1>1, <1>2, <1>3, <1>4, UndisturbedStays DEF Undisturbed, JustifiedInvariant

\* A first attempt, or the one after a sleep.
LEMMA BeginJustified ==
  ASSUME JustifiedInvariant, AdapterTypeOK', TypeOK', NEW c \in Calls, Begin(c)
  PROVE  \A o \in Calls : CallJustified(o)'
<1>1. PICK d, n : /\ Attempt(c, d, n)
                  /\ \/ pc[c] = "idle" /\ n = 1
                     \/ pc[c] = "sleeping" /\ n = attempt[c] + 1
  BY DEF Begin, Generate, Retry
<1>2. PICK to, m : /\ Moves(c, to, m)
                   /\ \/ to \in {"budget_exceeded", "deadline_exceeded"} /\ m = attempt[c]
                      \/ to = "calling" /\ m = n
  BY <1>1, AttemptMoves DEF JustifiedInvariant, LimitsInvariant
<1>3. UNCHANGED <<request, result, ending>>
  BY DEF Begin, adapterVars
<1>4. pc'[c] = to /\ attempt'[c] = m
  BY <1>2 DEF Moves, JustifiedInvariant, LimitsInvariant, TypeOK
<1>5. m \in 0..MaxAttempts /\ attempt[c] \in 0..MaxAttempts /\ MaxAttempts \in Nat
  BY <1>4, Constants DEF TypeOK, JustifiedInvariant, LimitsInvariant
<1>6. CallJustified(c)
  BY DEF JustifiedInvariant
<1>7. m >= 1 \/ to # "calling"
  BY <1>1, <1>2, <1>5
<1>8. ASSUME NEW i \in Attempts
      PROVE  /\ i > m => request[c][i] = "none"
             /\ i < m => ending[c][i] \in {"retryable", "timeout"}
             /\ request[c][i] # "queued"
  BY <1>1, <1>2, <1>5, <1>6 DEF CallJustified, Attempts
<1>9. CallJustified(c)'
  BY <1>1, <1>2, <1>3, <1>4, <1>5, <1>6, <1>7, <1>8 DEF CallJustified, Attempts
<1>10. ASSUME NEW o \in Calls, o # c PROVE CallJustified(o)'
  BY <1>2, <1>3, <1>10, OthersUndisturbed
<1>. QED
  BY <1>9, <1>10

\* The request goes to the pool, or the provider is closed.
LEMMA SendJustified ==
  ASSUME JustifiedInvariant, AdapterTypeOK', TypeOK', NEW c \in Calls, Send(c)
  PROVE  \A o \in Calls : CallJustified(o)'
<1>1. /\ pc[c] = "calling" /\ attempt[c] \in Attempts /\ request[c][attempt[c]] = "none"
      /\ result[c] = NoResult
  BY DEF Send, Unsent, JustifiedInvariant, CallJustified
<1>2. CASE closing # "open"
  <2>1. /\ FailFinally(c) /\ EndAttempt(c, "final") /\ UNCHANGED <<request, result>>
    BY <1>2 DEF Send
  <2>2. Moves(c, "provider_error", attempt[c])
    BY <2>1 DEF FailFinally, End, Goto, Moves, JustifiedInvariant, LimitsInvariant, TypeOK
  <2>3. /\ ending'[c][attempt[c]] = "final"
        /\ \A i \in Attempts : i # attempt[c] => ending'[c][i] = ending[c][i]
    BY <1>1, <2>1, EndAttemptTyped DEF JustifiedInvariant, AdapterTypeOK, Endings
  <2>4. CallJustified(c)'
    BY <1>1, <2>1, <2>2, <2>3, EndingJustifies DEF Ended
  <2>5. ASSUME NEW o \in Calls, o # c PROVE CallJustified(o)'
    BY <2>1, <2>2, <2>5, OthersUndisturbed
  <2>. QED
    BY <2>4, <2>5
<1>3. CASE closing = "open"
  <2>1. /\ SetRequest(c, attempt[c], "queued")
        /\ UNCHANGED <<pc, attempt, result, ending>>
    BY <1>3 DEF Send, resilientVars
  <2>2. CallJustified(c)'
    <3>1. /\ request'[c][attempt[c]] = "queued"
          /\ \A i \in Attempts : i # attempt[c] => request'[c][i] = request[c][i]
      BY <1>1, <2>1, SetRequestTyped DEF JustifiedInvariant
    <3>2. attempt[c] \in Nat /\ CallJustified(c)
      BY DEF JustifiedInvariant, LimitsInvariant, TypeOK
    <3>. QED
      BY <1>1, <2>1, <3>1, <3>2 DEF CallJustified, Attempts
  <2>3. ASSUME NEW o \in Calls, o # c PROVE CallJustified(o)'
    BY <2>1, <2>3, OthersUndisturbed
  <2>. QED
    BY <2>2, <2>3
<1>. QED
  BY <1>2, <1>3

\* A thread takes a request, or ends one.
LEMMA ThreadJustified ==
  ASSUME JustifiedInvariant, AdapterTypeOK', NEW c \in Calls, NEW i \in Attempts,
         StartRequest(c, i) \/ \E r \in Results : FinishRequest(c, i, r)
  PROVE  \A o \in Calls : CallJustified(o)'
<1>1. UNCHANGED <<pc, attempt, ending>>
  BY DEF StartRequest, FinishRequest, resilientVars
<1>2. \E state \in {"running", "over"} : SetRequest(c, i, state)
  BY DEF StartRequest, FinishRequest
<1>3. /\ request'[c][i] \in {"running", "over"}
      /\ \A j \in Attempts : j # i => request'[c][j] = request[c][j]
      /\ request[c][i] \in {"queued", "running"}
  BY <1>2, SetRequestTyped DEF JustifiedInvariant, StartRequest, FinishRequest
<1>4. result'[c] # NoResult =>
        \/ result'[c] = result[c] /\ request[c][i] = "queued"
        \/ result'[c] = result[c] /\ request'[c][i] = "over"
        \/ pc[c] = "calling" /\ attempt[c] = i /\ request'[c][i] = "over"
  BY SetRequestTyped DEF StartRequest, FinishRequest, JustifiedInvariant, AdapterTypeOK
<1>5. attempt[c] \in Nat /\ pc[c] \in {"calling", "sleeping", "returned"} => attempt[c] \in Attempts
  BY DEF JustifiedInvariant, CallJustified, LimitsInvariant, TypeOK
<1>6. CallJustified(c)'
  BY <1>1, <1>3, <1>4, <1>5 DEF JustifiedInvariant, CallJustified
<1>7. result' = result \/ \E r : result' = [result EXCEPT ![c] = r]
  BY DEF StartRequest, FinishRequest
<1>8. ASSUME NEW o \in Calls, o # c PROVE CallJustified(o)'
  BY <1>1, <1>2, <1>7, <1>8, OthersUndisturbed
<1>. QED
  BY <1>6, <1>8

\* The task resumes with the end of its thread.
LEMMA ReceiveJustified ==
  ASSUME JustifiedInvariant, AdapterTypeOK', TypeOK', NEW c \in Calls,
         Receive(c)
  PROVE  \A o \in Calls : CallJustified(o)'
<1>. DEFINE how == Outcome(result[c])
<1>1. /\ attempt[c] \in Attempts /\ request[c][attempt[c]] = "over"
      /\ result[c] \in Results
  BY DEF Receive, JustifiedInvariant, CallJustified, AdapterTypeOK
<1>2. how \in {"response", "off_contract", "retryable", "final", "exception"}
  BY <1>1, OutcomeOfResult
<1>3. /\ EndAttempt(c, how) /\ result' = [result EXCEPT ![c] = NoResult]
      /\ UNCHANGED request
  BY DEF Receive
<1>4. /\ ending'[c][attempt[c]] = how
      /\ \A i \in Attempts : i # attempt[c] => ending'[c][i] = ending[c][i]
  BY <1>1, <1>2, <1>3, EndAttemptTyped DEF JustifiedInvariant, AdapterTypeOK, Endings
<1>5. result'[c] = NoResult
  BY <1>3 DEF JustifiedInvariant, AdapterTypeOK
<1>6. \E to, n :
        /\ Moves(c, to, n)
        /\ \/ n = attempt[c] /\ to \in Ended /\ (to = "returned" => how = "response")
           \/ n = attempt[c] /\ to = "sleeping" /\ how \in {"retryable", "timeout"}
           \/ n = attempt[c] + 1 /\ to = "calling" /\ how \in {"retryable", "timeout"}
  <2>. USE DEF JustifiedInvariant, LimitsInvariant, TypeOK
  <2>1. CASE how = "response"
    <3>1. Respond(c, result[c].tokens)
      BY <2>1 DEF Receive
    <3>2. PICK to \in {"budget_exceeded", "returned"} : Moves(c, to, attempt[c])
      BY <3>1 DEF Respond, Goto, Moves
    <3>. QED
      BY <2>1, <3>2 DEF Ended
  <2>2. CASE how = "off_contract"
    <3>1. RespondOffContract(c)
      BY <2>2 DEF Receive
    <3>2. Moves(c, "provider_contract", attempt[c])
      BY <3>1 DEF RespondOffContract, End, Goto, Moves
    <3>. QED
      BY <3>2 DEF Ended
  <2>3. CASE how = "retryable"
    <3>1. PICK r : GiveUpOrSleep(c, r)
      BY <2>3 DEF Receive, FailRetryably
    <3>2. CASE \E to \in {"budget_exceeded", "deadline_exceeded", "retry_exhausted", "sleeping"} :
                 Moves(c, to, attempt[c])
      BY <2>3, <3>2 DEF Ended
    <3>3. CASE Moves(c, "calling", attempt[c] + 1)
      BY <2>3, <3>3
    <3>. QED
      BY <3>1, <3>2, <3>3, GiveUpMoves
  <2>4. CASE how \in {"final", "exception"}
    <3>1. FailFinally(c)
      BY <2>4 DEF Receive
    <3>2. Moves(c, "provider_error", attempt[c])
      BY <3>1 DEF FailFinally, End, Goto, Moves
    <3>. QED
      BY <3>2 DEF Ended
  <2>. QED
    BY <1>2, <2>1, <2>2, <2>3, <2>4
<1>7. PICK to, n :
        /\ Moves(c, to, n)
        /\ \/ n = attempt[c] /\ to \in Ended /\ (to = "returned" => how = "response")
           \/ n = attempt[c] /\ to = "sleeping" /\ how \in {"retryable", "timeout"}
           \/ n = attempt[c] + 1 /\ to = "calling" /\ how \in {"retryable", "timeout"}
  BY <1>6
<1>. HIDE DEF how
<1>8. CallJustified(c)'
  BY <1>1, <1>3, <1>4, <1>5, <1>7, EndingJustifies
<1>9. ASSUME NEW o \in Calls, o # c PROVE CallJustified(o)'
  BY <1>3, <1>7, <1>9, OthersUndisturbed
<1>. QED
  BY <1>8, <1>9

\* The task leaves its thread, at its timeout or cancelled.
LEMMA LeaveJustified ==
  ASSUME JustifiedInvariant, AdapterTypeOK', TypeOK', NEW c \in Calls,
         GiveUp(c) \/ CancelTask(c)
  PROVE  \A o \in Calls : CallJustified(o)'
<1>1. CASE pc[c] = "calling"
  <2>1. \E to, n, how :
          /\ how \in {"timeout", "cancelled"}
          /\ LeaveRequest(c, how)
          /\ Moves(c, to, n)
          /\ \/ n = attempt[c] /\ to \in Ended /\ to # "returned"
             \/ n = attempt[c] /\ to = "sleeping" /\ how = "timeout"
             \/ n = attempt[c] + 1 /\ to = "calling" /\ how = "timeout"
    <3>1. CASE GiveUp(c)
      <4>1. LeaveRequest(c, "timeout") /\ GiveUpOrSleep(c, None)
        BY <3>1 DEF GiveUp, TimeOut
      <4>2. CASE \E to \in {"budget_exceeded", "deadline_exceeded", "retry_exhausted",
                           "sleeping"} : Moves(c, to, attempt[c])
        <5>1. PICK to \in {"budget_exceeded", "deadline_exceeded", "retry_exhausted",
                           "sleeping"} : Moves(c, to, attempt[c])
          BY <4>2
        <5>2. to = "sleeping" \/ (to \in Ended /\ to # "returned")
          BY DEF Ended
        <5>. QED
          BY <4>1, <5>1, <5>2
      <4>3. CASE Moves(c, "calling", attempt[c] + 1)
        BY <4>1, <4>3
      <4>. QED
        BY <4>1, <4>2, <4>3, GiveUpMoves DEF JustifiedInvariant, LimitsInvariant
    <3>2. CASE CancelTask(c)
      <4>1. LeaveRequest(c, "cancelled") /\ Cancel(c)
        BY <1>1, <3>2 DEF CancelTask
      <4>2. Moves(c, "cancelled", attempt[c])
        BY <4>1 DEF Cancel, End, Goto, Moves, JustifiedInvariant, LimitsInvariant, TypeOK
      <4>3. "cancelled" \in Ended
        BY DEF Ended
      <4>. QED
        BY <4>1, <4>2, <4>3
    <3>. QED
      BY <3>1, <3>2
  <2>2. PICK to, n, how :
          /\ how \in {"timeout", "cancelled"}
          /\ LeaveRequest(c, how)
          /\ Moves(c, to, n)
          /\ \/ n = attempt[c] /\ to \in Ended /\ to # "returned"
             \/ n = attempt[c] /\ to = "sleeping" /\ how = "timeout"
             \/ n = attempt[c] + 1 /\ to = "calling" /\ how = "timeout"
    BY <2>1
  <2>3. attempt[c] \in Attempts
    BY <1>1 DEF JustifiedInvariant, CallJustified
  <2>4. /\ EndAttempt(c, how) /\ result' = [result EXCEPT ![c] = NoResult]
        /\ request' = request \/ SetRequest(c, attempt[c], "over")
        /\ how \in Endings
    BY <2>2 DEF LeaveRequest, Endings
  <2>5. /\ ending'[c][attempt[c]] = how
        /\ \A i \in Attempts : i # attempt[c] => ending'[c][i] = ending[c][i]
    BY <2>3, <2>4, EndAttemptTyped DEF JustifiedInvariant, AdapterTypeOK, Endings
  <2>6. /\ request'[c][attempt[c]] # "queued"
        /\ \A i \in Attempts : i # attempt[c] => request'[c][i] = request[c][i]
    BY <2>2, <2>3, SetRequestTyped DEF LeaveRequest, JustifiedInvariant
  <2>7. result'[c] = NoResult
    BY <2>4 DEF JustifiedInvariant, AdapterTypeOK
  <2>8. CallJustified(c)'
    BY <2>2, <2>3, <2>5, <2>6, <2>7, EndingJustifies
  <2>9. ASSUME NEW o \in Calls, o # c PROVE CallJustified(o)'
    BY <2>2, <2>4, <2>9, OthersUndisturbed
  <2>. QED
    BY <2>8, <2>9
<1>2. CASE pc[c] # "calling"
  <2>1. /\ Cancel(c) /\ UNCHANGED <<request, result, ending>>
    BY <1>2 DEF GiveUp, TimeOut, CancelTask, adapterVars
  <2>2. pc[c] = "sleeping" /\ Moves(c, "cancelled", attempt[c])
    BY <1>2, <2>1 DEF Cancel, End, Goto, Moves, JustifiedInvariant, LimitsInvariant, TypeOK
  <2>3. pc'[c] = "cancelled" /\ attempt'[c] = attempt[c]
    BY <2>2 DEF Moves, JustifiedInvariant, LimitsInvariant, TypeOK
  <2>4. CallJustified(c)'
    BY <2>1, <2>2, <2>3 DEF JustifiedInvariant, CallJustified
  <2>5. ASSUME NEW o \in Calls, o # c PROVE CallJustified(o)'
    BY <2>1, <2>2, <2>5, OthersUndisturbed
  <2>. QED
    BY <2>4, <2>5
<1>. QED
  BY <1>1, <1>2

-----------------------------------------------------------------------------
\* Every step of the adapter keeps the invariant.
LEMMA AdapterStepKeeps ==
  ASSUME JustifiedInvariant, [AdapterNext]_providerVars
  PROVE  JustifiedInvariant'
<1>1. [Next]_resilientVars
  BY AdapterStep DEF JustifiedInvariant, providerVars
<1>2. LimitsInvariant'
  BY <1>1, NextKeepsLimits DEF JustifiedInvariant
<1>3. AdapterTypeOK'
  BY AdapterTypeKept
<1>4. TypeOK'
  BY <1>2 DEF LimitsInvariant
<1>5. \A o \in Calls : CallJustified(o)'
  <2>1. CASE /\ UNCHANGED <<pc, attempt, request, result, ending>>
    BY <2>1, UndisturbedStays DEF JustifiedInvariant, Undisturbed
  <2>2. CASE PassTime \/ Close \/ \E how \in {"closed", "interrupted"} : EndClose(how)
    BY <2>1, <2>2 DEF PassTime, Tick, Close, EndClose, resilientVars, adapterVars
  <2>3. ASSUME NEW c \in Calls, Begin(c)
        PROVE  \A o \in Calls : CallJustified(o)'
    BY <1>3, <1>4, <2>3, BeginJustified
  <2>4. ASSUME NEW c \in Calls, Send(c)
        PROVE  \A o \in Calls : CallJustified(o)'
    BY <1>3, <1>4, <2>4, SendJustified
  <2>5. ASSUME NEW c \in Calls, Receive(c)
        PROVE  \A o \in Calls : CallJustified(o)'
    BY <1>3, <1>4, <2>5, ReceiveJustified
  <2>6. ASSUME NEW c \in Calls, GiveUp(c) \/ CancelTask(c)
        PROVE  \A o \in Calls : CallJustified(o)'
    BY <1>3, <1>4, <2>6, LeaveJustified
  <2>7. ASSUME NEW c \in Calls, NEW i \in Attempts,
               StartRequest(c, i) \/ \E r \in Results : FinishRequest(c, i, r)
        PROVE  \A o \in Calls : CallJustified(o)'
    BY <1>3, <2>7, ThreadJustified
  <2>8. CASE UNCHANGED providerVars
    BY <2>1, <2>8 DEF providerVars, resilientVars, adapterVars
  <2>. QED
    BY <2>2, <2>3, <2>4, <2>5, <2>6, <2>7, <2>8 DEF AdapterNext
<1>. QED
  BY <1>2, <1>3, <1>5 DEF JustifiedInvariant

LEMMA AdapterInitJustified ==
  ASSUME AdapterInit
  PROVE  JustifiedInvariant
<1>1. LimitsInvariant
  BY InitWithinLimits DEF AdapterInit
<1>2. AdapterTypeOK
  BY DEF AdapterInit, AdapterTypeOK
<1>3. ASSUME NEW c \in Calls PROVE CallJustified(c)
  BY DEF AdapterInit, Init, CallJustified, Attempts
<1>. QED
  BY <1>1, <1>2, <1>3 DEF JustifiedInvariant

\* Each request agrees with the frame of the call that sent it, in every state.
THEOREM AdapterJustified == AdapterSpec => []JustifiedInvariant
<1>1. AdapterInit => JustifiedInvariant
  BY AdapterInitJustified
<1>2. JustifiedInvariant /\ [AdapterNext]_providerVars => JustifiedInvariant'
  BY AdapterStepKeeps
<1>. QED
  BY <1>1, <1>2, PTL DEF AdapterSpec

\* Over worker threads that outlive their tasks, a pool with a queue, a provider that may
\* be closed and every reply of a server, the adapter's calls are behaviours of the
\* executor (openai_compatible.py under execution.py).
THEOREM AdapterImplementsExecutor == AdapterSpec => Spec
<1>1. AdapterInit => Init
  BY DEF AdapterInit
<1>2. JustifiedInvariant /\ [AdapterNext]_providerVars => [Next]_resilientVars
  BY AdapterStep DEF JustifiedInvariant, providerVars
<1>. QED
  BY <1>1, <1>2, AdapterJustified, PTL DEF AdapterSpec, Spec

\* The budget is kept of the requests that are really sent: over the adapter, with threads
\* that outlive their tasks, every provider call is counted, what is delivered fits in the
\* budget, and an overrun is final.
THEOREM AdapterKeepsBudget == AdapterSpec => []BudgetHolds /\ OverrunIsFinal
BY AdapterImplementsExecutor, BudgetIsKept, OverrunStaysFinal, PTL

\* A request is sent for a provider call of its own, again only when its answer was not
\* heard or asked for it, and waits for a thread only while its task awaits it.
THEOREM EveryRequestJustified == AdapterSpec => []RequestsAreJustified
<1>1. JustifiedInvariant => RequestsAreJustified
  <2>. SUFFICES ASSUME JustifiedInvariant PROVE RequestsAreJustified
    OBVIOUS
  <2>1. ASSUME NEW c \in Calls, NEW i \in Attempts
        PROVE  request[c][i] # "none" => i <= attempt[c]
    BY Constants DEF JustifiedInvariant, CallJustified, LimitsInvariant, TypeOK, Attempts
  <2>. QED
    BY <2>1 DEF JustifiedInvariant, CallJustified, RequestsAreJustified
<1>. QED
  BY <1>1, AdapterJustified, PTL

\* A provider that is being closed is handed no request, first or repeated.
THEOREM ClosedSendsNothing == AdapterSpec => NothingSentOnceClosed
<1>1. ASSUME JustifiedInvariant, [AdapterNext]_providerVars, closing # "open",
             NEW c \in Calls, NEW i \in Attempts, request[c][i] = "none"
      PROVE  request'[c][i] = "none"
  <2>1. CASE UNCHANGED request
    BY <1>1, <2>1
  <2>2. ASSUME NEW o \in Calls, NEW j \in Attempts, NEW state \in {"running", "over"},
               SetRequest(o, j, state), request[o][j] # "none"
        PROVE  request'[c][i] = "none"
    BY <1>1, <2>2, SetRequestTyped DEF JustifiedInvariant
  <2>3. ASSUME NEW o \in Calls, Send(o) PROVE UNCHANGED request
    BY <1>1, <2>3 DEF Send
  <2>4. ASSUME NEW o \in Calls, NEW how, pc[o] = "calling", LeaveRequest(o, how)
        PROVE  request'[c][i] = "none"
    <3>1. attempt[o] \in Attempts
      BY <1>1, <2>4 DEF JustifiedInvariant, CallJustified
    <3>. QED
      BY <2>1, <2>2, <2>4, <3>1 DEF LeaveRequest
  <2>5. ASSUME NEW o \in Calls, GiveUp(o) \/ CancelTask(o)
        PROVE  request'[c][i] = "none"
    BY <2>1, <2>4, <2>5 DEF GiveUp, CancelTask, TimeOut, adapterVars
  <2>6. ASSUME NEW o \in Calls, NEW j \in Attempts,
               StartRequest(o, j) \/ \E r \in Results : FinishRequest(o, j, r)
        PROVE  request'[c][i] = "none"
    BY <2>2, <2>6 DEF StartRequest, FinishRequest
  <2>. QED
    BY <1>1, <2>1, <2>3, <2>5, <2>6
       DEF AdapterNext, PassTime, Close, EndClose, Begin, Receive, adapterVars, providerVars
<1>2. JustifiedInvariant /\ [AdapterNext]_providerVars =>
        (closing # "open" =>
           \A c \in Calls, i \in Attempts : request[c][i] = "none" => request'[c][i] = "none")
  BY <1>1
<1>. QED
  BY <1>2, AdapterJustified, PTL DEF AdapterSpec, NothingSentOnceClosed

-----------------------------------------------------------------------------
(*****************************************************************************)
(* The selection of the provider (ProviderSelection).                        *)
(*****************************************************************************)

\* The report is that of the settings, which never change, and the selection is what they
\* resolve to; production resolves what it found compatible.
SelectionInv ==
    /\ SelectionTypes
    /\ custom \in {"absent", "provider", "unavailable", "invalid", "mismatch"}
    /\ report = "valid" => Compatible(settings)
    /\ selection.code # "none" =>
          /\ \A s \in Settings, allowed \in BOOLEAN :
                s = settings /\ allowed = (composer = "configured with fallback") =>
                    selection = Resolve(s, allowed)
          /\ composer = "production" => report = "valid"

SelectionShape ==
    [code : {"selected"}, provider : BuiltIn \cup {"custom"}, model : Models,
     credentials : BOOLEAN, used_fallback : BOOLEAN]
    \cup [code : {"none", "provider_not_found", "provider_unavailable",
                  "model_not_supported", "capability_not_supported",
                  "descriptor_mismatch", "invalid_provider"}]

\* The parts of a selection and of a refusal.
LEMMA SelectedIs ==
    ASSUME NEW s \in Settings, NEW fallback \in BOOLEAN
    PROVE  /\ Selected(s, fallback) \in SelectionShape
           /\ Selected(s, fallback).code = "selected"
           /\ Selected(s, fallback).provider = s.provider_id
           /\ Selected(s, fallback).model = s.model
           /\ Selected(s, fallback).used_fallback = fallback
           /\ ~s.api_key /\ ~s.base_url => Selected(s, fallback).credentials = FALSE
<1>1. /\ s.provider_id \in BuiltIn \cup {"custom"} /\ s.model \in Models
      /\ s.api_key \in BOOLEAN /\ s.base_url \in BOOLEAN
  BY DEF Settings
<1>2. (s.api_key \/ s.base_url) \in BOOLEAN
  BY Zenon
<1>3. ~s.api_key /\ ~s.base_url => (s.api_key \/ s.base_url) = FALSE
  BY <1>1, Zenon
<1>4. PICK k : k = (s.api_key \/ s.base_url)
  OBVIOUS
<1>5. Selected(s, fallback) =
        [code |-> "selected", provider |-> s.provider_id, model |-> s.model,
         credentials |-> k, used_fallback |-> fallback]
  BY <1>4, Zenon DEF Selected
<1>6. k \in BOOLEAN /\ (~s.api_key /\ ~s.base_url => k = FALSE)
  BY <1>2, <1>3, <1>4, Zenon
<1>. QED
  BY <1>1, <1>5, <1>6 DEF SelectionShape

LEMMA RefusedIs ==
    ASSUME NEW code \in {"none", "provider_not_found", "provider_unavailable",
                         "model_not_supported", "capability_not_supported",
                         "descriptor_mismatch", "invalid_provider"}
    PROVE  Refused(code) \in SelectionShape /\ Refused(code).code = code
BY DEF Refused, SelectionShape

\* What a provider can be made of, and what becomes of it.
LEMMA MadeIs ==
    ASSUME NEW s \in Settings,
           custom \in {"absent", "provider", "unavailable", "invalid", "mismatch"},
           Registered(s.provider_id)
    PROVE  /\ Made(s) \in {"provider", "unavailable", "invalid", "mismatch"}
           /\ Compatible(s) =>
                 \/ Made(s) = "provider"
                 \/ s.provider_id = "custom" /\ custom \in {"unavailable", "invalid", "mismatch"}
BY DEF Settings, Made, Compatible, BuiltIn, Registered

\* A provider is selected for the settings only, declares the model, and has the
\* capabilities.
LEMMA CreateIs ==
    ASSUME NEW s \in Settings, NEW fallback \in BOOLEAN,
           custom \in {"absent", "provider", "unavailable", "invalid", "mismatch"},
           Registered(s.provider_id)
    PROVE  \/ /\ Create(s, fallback) = Selected(s, fallback)
              /\ DeclaresModel(s.provider_id, s.model)
              /\ required \subseteq Descriptor(s.provider_id).capabilities
           \/ /\ ~DeclaresModel(s.provider_id, s.model)
              /\ Create(s, fallback) = Refused("model_not_supported")
           \/ /\ ~(required \subseteq Descriptor(s.provider_id).capabilities)
              /\ Create(s, fallback) = Refused("capability_not_supported")
           \/ /\ DeclaresModel(s.provider_id, s.model)
              /\ required \subseteq Descriptor(s.provider_id).capabilities
              /\ \/ Made(s) = "unavailable"
                    /\ Create(s, fallback) = Refused("provider_unavailable")
                 \/ Made(s) = "invalid" /\ Create(s, fallback) = Refused("invalid_provider")
                 \/ Made(s) = "mismatch" /\ Create(s, fallback) = Refused("descriptor_mismatch")
<1>1. Made(s) \in {"provider", "unavailable", "invalid", "mismatch"}
  BY MadeIs
<1>. QED
  BY <1>1 DEF Create

\* What replaces a provider is the deterministic one, which can always be made, though not
\* always with the capabilities.
LEMMA FallbackIs ==
    ASSUME NEW s \in Settings,
           custom \in {"absent", "provider", "unavailable", "invalid", "mismatch"}
    PROVE  /\ FallbackSettings(s) \in Settings
           /\ Registered("deterministic")
           /\ DeclaresModel("deterministic", DeterministicModel)
           /\ Made(FallbackSettings(s)) = "provider"
BY SelectionAssumption
DEF SelectionAssumption, FallbackSettings, Settings, BuiltIn, Registered, DeclaresModel,
    Descriptor, Made

\* What is selected, and when nothing is.
LEMMA ResolveIs ==
    ASSUME NEW s \in Settings, NEW allowed \in BOOLEAN,
           custom \in {"absent", "provider", "unavailable", "invalid", "mismatch"},
           NEW made, made = Resolve(s, allowed)
    PROVE  /\ made \in SelectionShape /\ made.code # "none"
           /\ made.code = "selected" =>
                 /\ DeclaresModel(made.provider, made.model)
                 /\ required \subseteq Descriptor(made.provider).capabilities
                 /\ made.used_fallback => allowed /\ ~made.credentials
                 /\ ~made.used_fallback => made.provider = s.provider_id /\ made.model = s.model
                 /\ made.used_fallback =>
                       \/ ~Registered(s.provider_id)
                       \/ /\ DeclaresModel(s.provider_id, s.model)
                          /\ required \subseteq Descriptor(s.provider_id).capabilities
           /\ ~allowed /\ Compatible(s) =>
                 \/ made.code = "selected"
                 \/ s.provider_id = "custom" /\ custom \in {"unavailable", "invalid", "mismatch"}
<1>1. PICK own : own = IF Registered(s.provider_id) THEN Create(s, FALSE)
                       ELSE Refused("provider_not_found")
  OBVIOUS
<1>2. PICK other : other = Create(FallbackSettings(s), TRUE)
  OBVIOUS
<1>3. made = IF allowed /\ own.code \in {"provider_not_found", "provider_unavailable"}
             THEN other ELSE own
  BY <1>1, <1>2 DEF Resolve
<1>4. s.provider_id \in BuiltIn \cup {"custom"} /\ s.model \in Models
      /\ s.api_key \in BOOLEAN /\ s.base_url \in BOOLEAN
  BY DEF Settings
<1>5. /\ own \in SelectionShape /\ own.code # "none"
      /\ own.code = "selected" =>
            /\ own = Selected(s, FALSE) /\ DeclaresModel(s.provider_id, s.model)
            /\ required \subseteq Descriptor(s.provider_id).capabilities
      /\ own.code = "provider_not_found" => ~Registered(s.provider_id)
      /\ own.code = "provider_unavailable" =>
            /\ DeclaresModel(s.provider_id, s.model)
            /\ required \subseteq Descriptor(s.provider_id).capabilities
      /\ Compatible(s) =>
            \/ own.code = "selected"
            \/ s.provider_id = "custom" /\ custom \in {"unavailable", "invalid", "mismatch"}
  <2>1. CASE Registered(s.provider_id)
    <3>1. own = Create(s, FALSE)
      BY <1>1, <2>1
    <3>2. Compatible(s) => /\ DeclaresModel(s.provider_id, s.model)
                           /\ required \subseteq Descriptor(s.provider_id).capabilities
      BY DEF Compatible
    <3>3. PICK f \in BOOLEAN : f = FALSE
      OBVIOUS
    <3>4. own = Create(s, f)
      BY <3>1, <3>3
    <3>5. CASE own = Selected(s, f) /\ DeclaresModel(s.provider_id, s.model)
               /\ required \subseteq Descriptor(s.provider_id).capabilities
      BY <2>1, <3>3, <3>5, SelectedIs
    <3>6. CASE \/ ~DeclaresModel(s.provider_id, s.model)
                  /\ own = Refused("model_not_supported")
               \/ ~(required \subseteq Descriptor(s.provider_id).capabilities)
                  /\ own = Refused("capability_not_supported")
      BY <2>1, <3>2, <3>6, RefusedIs
    <3>7. CASE /\ DeclaresModel(s.provider_id, s.model)
               /\ required \subseteq Descriptor(s.provider_id).capabilities
               /\ \/ Made(s) = "unavailable" /\ own = Refused("provider_unavailable")
                  \/ Made(s) = "invalid" /\ own = Refused("invalid_provider")
                  \/ Made(s) = "mismatch" /\ own = Refused("descriptor_mismatch")
      BY <2>1, <3>2, <3>7, MadeIs, RefusedIs
    <3>. QED
      BY <2>1, <3>4, <3>5, <3>6, <3>7, CreateIs
  <2>2. CASE ~Registered(s.provider_id)
    BY <1>1, <2>2, RefusedIs DEF Compatible
  <2>. QED
    BY <2>1, <2>2
<1>6. /\ other \in SelectionShape /\ other.code # "none"
      /\ other.code = "selected" =>
            /\ other = Selected(FallbackSettings(s), TRUE)
            /\ required \subseteq Descriptor("deterministic").capabilities
  <2>1. PICK f \in Settings : f = FallbackSettings(s) /\ f.provider_id = "deterministic"
    BY FallbackIs DEF FallbackSettings
  <2>2. Registered(f.provider_id)
    BY <2>1, FallbackIs
  <2>. QED
    BY <1>2, <2>1, <2>2, CreateIs, SelectedIs, RefusedIs
<1>7. CASE made = own /\ ~(allowed /\ own.code \in {"provider_not_found", "provider_unavailable"})
  BY <1>5, <1>7, SelectedIs
<1>8. CASE made = other /\ allowed /\ own.code \in {"provider_not_found", "provider_unavailable"}
  <2>1. PICK f \in Settings :
           /\ f = FallbackSettings(s) /\ f.provider_id = "deterministic"
           /\ f.model = DeterministicModel /\ ~f.api_key /\ ~f.base_url
    BY FallbackIs DEF FallbackSettings
  <2>2. other.code = "selected" =>
           /\ other.provider = "deterministic" /\ other.model = DeterministicModel
           /\ other.used_fallback = TRUE /\ other.credentials = FALSE
    <3>1. PICK b \in BOOLEAN : b = TRUE
      OBVIOUS
    <3>2. /\ Selected(f, b).provider = f.provider_id /\ Selected(f, b).model = f.model
          /\ Selected(f, b).used_fallback = b /\ Selected(f, b).credentials = FALSE
      BY <2>1, SelectedIs
    <3>. QED
      BY <1>6, <2>1, <3>1, <3>2
  <2>. QED
    BY <1>5, <1>6, <1>8, <2>2, FallbackIs
<1>. QED
  BY <1>3, <1>7, <1>8

LEMMA SelectionStarts == SelectionInit => SelectionInv
BY RefusedIs DEF SelectionInit, SelectionInv, SelectionTypes, SelectionShape

LEMMA SelectionSteps == SelectionInv /\ [SelectionNext]_selectionVars => SelectionInv'
<1>. SUFFICES ASSUME SelectionInv, [SelectionNext]_selectionVars PROVE SelectionInv'
  OBVIOUS
<1>1. settings' = settings /\ required' = required /\ custom' = custom /\ composer' = composer
  BY DEF SelectionNext, Check, Select, selectionVars
<1>2. /\ settings \in Settings /\ required \subseteq Capabilities
      /\ custom \in {"absent", "provider", "unavailable", "invalid", "mismatch"}
      /\ report \in {"none", "valid", "invalid"} /\ selection \in SelectionShape
  BY DEF SelectionInv, SelectionTypes, SelectionShape
<1>3. Compatible(settings)' <=> Compatible(settings)
  BY <1>1 DEF Compatible, Registered
<1>4. ASSUME NEW s, NEW allowed PROVE Resolve(s, allowed)' = Resolve(s, allowed)
  <2>1. \A id : Registered(id)' <=> Registered(id)
    BY <1>1 DEF Registered
  <2>2. \A t : Made(t)' = Made(t)
    BY <1>1 DEF Made
  <2>3. \A t, f : Create(t, f)' = Create(t, f)
    BY <1>1, <2>2 DEF Create
  <2>. QED
    BY <2>1, <2>3 DEF Resolve
<1>5. PICK s \in Settings, a \in BOOLEAN :
         s = settings /\ a = (composer = "configured with fallback")
  BY <1>2
<1>6. ASSUME UNCHANGED <<report, selection>> PROVE SelectionInv'
  BY <1>1, <1>3, <1>4, <1>6 DEF SelectionInv, SelectionTypes
<1>7. CASE Check
  BY <1>1, <1>2, <1>3, <1>4, <1>7 DEF SelectionInv, SelectionTypes, Check
<1>8. CASE Select
  <2>1. /\ selection' = Resolve(s, a) /\ report' = report
        /\ composer = "production" => report = "valid"
    BY <1>5, <1>8, Zenon DEF Select, MayResolve
  <2>2. Resolve(s, a) \in SelectionShape
    BY <1>2, <1>5, ResolveIs
  <2>3. \A t \in Settings, b \in BOOLEAN :
           t = settings' /\ b = (composer' = "configured with fallback") =>
               selection' = Resolve(t, b)'
    BY <1>1, <1>4, <1>5, <2>1, Zenon
  <2>. QED
    BY <1>1, <1>2, <1>3, <2>1, <2>2, <2>3 DEF SelectionInv, SelectionTypes, SelectionShape
<1>9. CASE UNCHANGED selectionVars
  BY <1>6, <1>9 DEF selectionVars
<1>. QED
  BY <1>7, <1>8, <1>9 DEF SelectionNext

\* governance.py and registry.py judge the same settings apart: what the one finds
\* compatible the other builds, and what is built is able to do what is asked.
THEOREM SelectionIsRight == SelectionSpec => []SelectionAgrees
<1>1. SelectionInv => SelectionAgrees
  <2>. SUFFICES ASSUME SelectionInv PROVE SelectionAgrees
    OBVIOUS
  <2>1. PICK allowed \in BOOLEAN : allowed = (composer = "configured with fallback")
    OBVIOUS
  <2>2. settings \in Settings
        /\ custom \in {"absent", "provider", "unavailable", "invalid", "mismatch"}
    BY DEF SelectionInv, SelectionTypes
  <2>3. selection.code # "none" => selection = Resolve(settings, allowed)
    BY <2>1, <2>2 DEF SelectionInv
  <2>4. CASE selection.code = "none"
    BY <2>4 DEF SelectionInv, SelectionAgrees, CompatibleIsSelected, SelectedIsAble,
                FallbackHidesNothing
  <2>5. CASE selection.code # "none"
    <3>1. composer = "production" => report = "valid" /\ Compatible(settings) /\ ~allowed
      BY <2>1, <2>5 DEF SelectionInv
    <3>. QED
      BY <2>1, <2>2, <2>3, <2>5, <3>1, ResolveIs
      DEF SelectionInv, SelectionAgrees, CompatibleIsSelected, SelectedIsAble,
          FallbackHidesNothing
  <2>. QED
    BY <2>4, <2>5
<1>. QED
  BY <1>1, SelectionStarts, SelectionSteps, PTL DEF SelectionSpec

-----------------------------------------------------------------------------
(*****************************************************************************)
(* The life of a token (TokenAuthentication).                                *)
(*****************************************************************************)

\* The answers of authenticate that say neither that a token is early nor that it is late,
\* nor anything of its header or signature.
ClaimCodes == {"required_claim_missing", "claim_type_invalid", "issuer_mismatch",
               "audience_mismatch", "authorized_party_mismatch", "nonce_mismatch",
               "identity_invalid", "roles_invalid"}

Codes == ClaimCodes \cup Early \cup Late \cup HeaderCodes

TestShape == [fails : BOOLEAN, code : Codes]

\* What the times a token claims say at time n.
Expired(p, t, n) == Numeric(t.exp) /\ n - p.leeway >= t.exp
NotYetValid(p, t, n) == Numeric(t.nbf) /\ n + p.leeway < t.nbf
OfTheFuture(p, t, n) == Numeric(t.iat) /\ t.iat > n + p.leeway
TooOld(p, t, n) == Numeric(t.iat) /\ p.max_age # NoLimit /\ n - t.iat > p.max_age + p.leeway

TimeAllows(p, t, n) ==
    /\ t.exp = NoClaim => ~p.require_expiration
    /\ t.exp # BadClaim /\ t.iat # BadClaim
    /\ t.iat = NoClaim => p.max_age = NoLimit
    /\ ~Expired(p, t, n) /\ ~NotYetValid(p, t, n)
    /\ ~OfTheFuture(p, t, n) /\ ~TooOld(p, t, n)

\* The tests, a part at a time.
LEMMA HeaderTestsAre ==
    ASSUME NEW p, NEW t, NEW raises
    PROVE  /\ HeaderTests(p, t, raises) \in Seq(TestShape)
           /\ Len(HeaderTests(p, t, raises)) = 6
           /\ \A k \in 1..6 : HeaderTests(p, t, raises)[k].code \in HeaderCodes
           /\ ~Verified(t) => HeaderTests(p, t, raises)[6].fails
<1>1. HeaderTests(p, t, raises) \in Seq(TestShape) /\ Len(HeaderTests(p, t, raises)) = 6
  BY DEF HeaderTests, TestShape, Codes, HeaderCodes
<1>2. \A k \in 1..6 : HeaderTests(p, t, raises)[k].code \in HeaderCodes
  BY DEF HeaderTests, HeaderCodes
<1>3. ~Verified(t) => HeaderTests(p, t, raises)[6].fails
  BY DEF HeaderTests
<1>. QED
  BY <1>1, <1>2, <1>3

LEMMA TimeTestsAre ==
    ASSUME NEW p, NEW t, NEW n
    PROVE  /\ TimeTests(p, t, n) \in Seq(TestShape)
           /\ Len(TimeTests(p, t, n)) = 9
           /\ TimeTests(p, t, n)[1].fails <=> t.exp = NoClaim /\ p.require_expiration
           /\ TimeTests(p, t, n)[2].fails <=> t.exp = BadClaim
           /\ TimeTests(p, t, n)[3].fails <=> Expired(p, t, n)
           /\ TimeTests(p, t, n)[5].fails <=> NotYetValid(p, t, n)
           /\ TimeTests(p, t, n)[6].fails <=> t.iat = NoClaim /\ p.max_age # NoLimit
           /\ TimeTests(p, t, n)[7].fails <=> t.iat = BadClaim
           /\ TimeTests(p, t, n)[8].fails <=> OfTheFuture(p, t, n)
           /\ TimeTests(p, t, n)[9].fails <=> TooOld(p, t, n)
           /\ \A k \in 1..9 :
                 /\ TimeTests(p, t, n)[k].code \in ClaimCodes \cup Early \cup Late
                 /\ TimeTests(p, t, n)[k].code = "token_expired" => k = 3
                 /\ TimeTests(p, t, n)[k].code = "token_not_yet_valid" => k = 5
                 /\ TimeTests(p, t, n)[k].code = "token_issued_in_future" => k = 8
                 /\ TimeTests(p, t, n)[k].code = "token_too_old" => k = 9
<1>1. TimeTests(p, t, n) \in Seq(TestShape) /\ Len(TimeTests(p, t, n)) = 9
  BY DEF TimeTests, TestShape, Codes, ClaimCodes, Early, Late
<1>2. /\ TimeTests(p, t, n)[1].fails <=> t.exp = NoClaim /\ p.require_expiration
      /\ TimeTests(p, t, n)[2].fails <=> t.exp = BadClaim
      /\ TimeTests(p, t, n)[3].fails <=> Expired(p, t, n)
      /\ TimeTests(p, t, n)[5].fails <=> NotYetValid(p, t, n)
  BY DEF TimeTests, Expired, NotYetValid
<1>3. /\ TimeTests(p, t, n)[6].fails <=> t.iat = NoClaim /\ p.max_age # NoLimit
      /\ TimeTests(p, t, n)[7].fails <=> t.iat = BadClaim
      /\ TimeTests(p, t, n)[8].fails <=> OfTheFuture(p, t, n)
      /\ TimeTests(p, t, n)[9].fails <=> TooOld(p, t, n)
  BY DEF TimeTests, OfTheFuture, TooOld
<1>4. \A k \in 1..9 :
         /\ TimeTests(p, t, n)[k].code \in ClaimCodes \cup Early \cup Late
         /\ TimeTests(p, t, n)[k].code = "token_expired" => k = 3
         /\ TimeTests(p, t, n)[k].code = "token_not_yet_valid" => k = 5
         /\ TimeTests(p, t, n)[k].code = "token_issued_in_future" => k = 8
         /\ TimeTests(p, t, n)[k].code = "token_too_old" => k = 9
  BY DEF TimeTests, ClaimCodes, Early, Late
<1>. QED
  BY <1>1, <1>2, <1>3, <1>4

LEMMA OtherTestsAre ==
    ASSUME NEW p, NEW t
    PROVE  /\ PartyTests(p, t) \in Seq(TestShape) /\ Len(PartyTests(p, t)) = 7
           /\ \A k \in 1..7 : PartyTests(p, t)[k].code \in ClaimCodes
           /\ IdentityTests(p, t) \in Seq(TestShape) /\ Len(IdentityTests(p, t)) = 7
           /\ \A k \in 1..7 : IdentityTests(p, t)[k].code \in ClaimCodes
<1>1. /\ PartyTests(p, t) \in Seq(TestShape) /\ Len(PartyTests(p, t)) = 7
      /\ \A k \in 1..7 : PartyTests(p, t)[k].code \in ClaimCodes
  BY DEF PartyTests, TestShape, Codes, ClaimCodes
<1>2. /\ IdentityTests(p, t) \in Seq(TestShape) /\ Len(IdentityTests(p, t)) = 7
      /\ \A k \in 1..7 : IdentityTests(p, t)[k].code \in ClaimCodes
  BY DEF IdentityTests, TestShape, Codes, ClaimCodes
<1>. QED
  BY <1>1, <1>2

\* Two parts, one after the other.
Follows(a, b) ==
    /\ Len(a \o b) = Len(a) + Len(b)
    /\ \A k \in 1..Len(a) : (a \o b)[k] = a[k]
    /\ \A k \in 1..Len(b) : (a \o b)[k + Len(a)] = b[k]

LEMMA Joined ==
    ASSUME NEW S, NEW a \in Seq(S), NEW b \in Seq(S)
    PROVE  a \o b \in Seq(S) /\ Follows(a, b)
<1>1. /\ a \o b \in Seq(S) /\ Len(a \o b) = Len(a) + Len(b)
      /\ \A k \in 1..Len(a) + Len(b) :
            (a \o b)[k] = IF k <= Len(a) THEN a[k] ELSE b[k - Len(a)]
  BY ConcatProperties, Zenon
<1>2. Len(a) \in Nat /\ Len(b) \in Nat
  OBVIOUS
<1>3. ASSUME NEW k \in 1..Len(a) PROVE (a \o b)[k] = a[k]
  <2>1. k \in 1..Len(a) + Len(b) /\ k <= Len(a)
    BY <1>2
  <2>. QED
    BY <1>1, <2>1, Zenon
<1>4. ASSUME NEW k \in 1..Len(b) PROVE (a \o b)[k + Len(a)] = b[k]
  <2>1. /\ k + Len(a) \in 1..Len(a) + Len(b) /\ ~(k + Len(a) <= Len(a))
        /\ (k + Len(a)) - Len(a) = k
    BY <1>2
  <2>. QED
    BY <1>1, <2>1, Zenon
<1>. QED
  BY <1>1, <1>3, <1>4, Zenon DEF Follows

\* The tests in their order.
Ordered(p, t, n, raises, tests) ==
    /\ tests = Tests(p, t, n, raises)
    /\ tests \in Seq(TestShape) /\ Len(tests) = 29
    /\ \A k \in 1..6 : tests[k] = HeaderTests(p, t, raises)[k]
    /\ \A k \in 1..9 : tests[k + 6] = TimeTests(p, t, n)[k]
    /\ \A k \in 1..7 : tests[k + 15] = PartyTests(p, t)[k]
    /\ \A k \in 1..7 : tests[k + 22] = IdentityTests(p, t)[k]

LEMMA TestsAre ==
    ASSUME NEW p, NEW t, NEW n, NEW raises
    PROVE  \E tests : Ordered(p, t, n, raises, tests)
<1>1. PICK h, m, w, i :
         /\ h = HeaderTests(p, t, raises) /\ m = TimeTests(p, t, n)
         /\ w = PartyTests(p, t) /\ i = IdentityTests(p, t)
         /\ h \in Seq(TestShape) /\ Len(h) = 6 /\ m \in Seq(TestShape) /\ Len(m) = 9
         /\ w \in Seq(TestShape) /\ Len(w) = 7 /\ i \in Seq(TestShape) /\ Len(i) = 7
  BY HeaderTestsAre, TimeTestsAre, OtherTestsAre
<1>2. PICK hm, hmw, tests : hm = h \o m /\ hmw = hm \o w /\ tests = hmw \o i
  OBVIOUS
<1>3. tests = Tests(p, t, n, raises)
  BY <1>1, <1>2, Zenon DEF Tests
<1>4. /\ hm \in Seq(TestShape) /\ Len(hm) = 15
      /\ \A k \in 1..6 : hm[k] = h[k]
      /\ \A k \in 1..9 : hm[k + 6] = m[k]
  <2>1. /\ hm \in Seq(TestShape) /\ Len(hm) = 6 + 9
        /\ \A k \in 1..6 : hm[k] = h[k]
        /\ \A k \in 1..9 : hm[k + 6] = m[k]
    <3>1. h \in Seq(TestShape) /\ m \in Seq(TestShape)
      BY <1>1, Zenon
    <3>2. Len(h) = 6 /\ Len(m) = 9 /\ hm = h \o m
      BY <1>1, <1>2, Zenon
    <3>. QED
      <4>1. h \o m \in Seq(TestShape) /\ Follows(h, m)
        BY <3>1, Joined, Zenon
      <4>. QED
        BY <3>2, <4>1 DEF Follows
  <2>. QED
    BY <2>1
<1>5. /\ hmw \in Seq(TestShape) /\ Len(hmw) = 22
      /\ \A k \in 1..15 : hmw[k] = hm[k]
      /\ \A k \in 1..7 : hmw[k + 15] = w[k]
  <2>1. /\ hmw \in Seq(TestShape) /\ Len(hmw) = 15 + 7
        /\ \A k \in 1..15 : hmw[k] = hm[k]
        /\ \A k \in 1..7 : hmw[k + 15] = w[k]
    <3>1. hm \in Seq(TestShape) /\ w \in Seq(TestShape)
      BY <1>1, <1>4, Zenon
    <3>2. Len(hm) = 15 /\ Len(w) = 7 /\ hmw = hm \o w
      BY <1>1, <1>2, <1>4, Zenon
    <3>. QED
      <4>1. hm \o w \in Seq(TestShape) /\ Follows(hm, w)
        BY <3>1, Joined, Zenon
      <4>. QED
        BY <3>2, <4>1 DEF Follows
  <2>. QED
    BY <2>1
<1>6. /\ tests \in Seq(TestShape) /\ Len(tests) = 29
      /\ \A k \in 1..22 : tests[k] = hmw[k]
      /\ \A k \in 1..7 : tests[k + 22] = i[k]
  <2>1. /\ tests \in Seq(TestShape) /\ Len(tests) = 22 + 7
        /\ \A k \in 1..22 : tests[k] = hmw[k]
        /\ \A k \in 1..7 : tests[k + 22] = i[k]
    <3>1. hmw \in Seq(TestShape) /\ i \in Seq(TestShape)
      BY <1>1, <1>5, Zenon
    <3>2. Len(hmw) = 22 /\ Len(i) = 7 /\ tests = hmw \o i
      BY <1>1, <1>2, <1>5, Zenon
    <3>. QED
      <4>1. hmw \o i \in Seq(TestShape) /\ Follows(hmw, i)
        BY <3>1, Joined, Zenon
      <4>. QED
        BY <3>2, <4>1 DEF Follows
  <2>. QED
    BY <2>1
<1>7. ASSUME NEW k \in 1..6 PROVE tests[k] = h[k]
  <2>1. k \in 1..15 /\ k \in 1..22
    OBVIOUS
  <2>2. tests[k] = hmw[k]
    BY <1>6, <2>1, Zenon
  <2>3. hmw[k] = hm[k]
    BY <1>5, <2>1, Zenon
  <2>. QED
    BY <1>4, <2>2, <2>3, Zenon
<1>8. ASSUME NEW k \in 1..9 PROVE tests[k + 6] = m[k]
  <2>1. k + 6 \in 1..15 /\ k + 6 \in 1..22
    OBVIOUS
  <2>2. tests[k + 6] = hmw[k + 6]
    BY <1>6, <2>1, Zenon
  <2>3. hmw[k + 6] = hm[k + 6]
    BY <1>5, <2>1, Zenon
  <2>. QED
    BY <1>4, <2>2, <2>3, Zenon
<1>9. ASSUME NEW k \in 1..7 PROVE tests[k + 15] = w[k]
  <2>1. k + 15 \in 1..22
    OBVIOUS
  <2>. QED
    BY <1>5, <1>6, <2>1, Zenon
<1>. QED
  BY <1>1, <1>3, <1>6, <1>7, <1>8, <1>9 DEF Ordered

\* The first of some numbers.
LEMMA FirstOf ==
    ASSUME NEW S, S \subseteq Nat, S # {}
    PROVE  Min(S) \in S /\ \A k \in S : Min(S) <= k
<1>1. PICK f \in S : \A k \in S : <<k, f>> \notin OpToRel(<, Nat)
  BY NatLessThanWellFounded, WFMin, Zenon
<1>2. \A k \in S : f <= k
  <2>1. ASSUME NEW k \in S, k < f PROVE FALSE
    <3>1. <<k, f>> \in OpToRel(<, Nat)
      BY <2>1 DEF OpToRel
    <3>. QED
      BY <1>1, <3>1
  <2>. QED
    BY <2>1
<1>. QED
  BY <1>1, <1>2 DEF Min

\* The answer is that of the first test that fails.
Decides(tests, r) ==
    \/ r = "accepted" /\ \A k \in 1..29 : ~tests[k].fails
    \/ \E k \in 1..29 : /\ tests[k].fails /\ r = tests[k].code
                        /\ \A j \in 1..29 : tests[j].fails => k <= j

LEMMA FirstFailure ==
    ASSUME NEW p, NEW t, NEW n, NEW raises,
           NEW tests, tests = Tests(p, t, n, raises),
           NEW r, r = Authenticate(p, t, n, raises)
    PROVE  Decides(tests, r)
<1>. DEFINE failed == {k \in DOMAIN tests : tests[k].fails}
<1>1. DOMAIN tests = 1..29
  BY TestsAre DEF Ordered
<1>2. r = IF failed = {} THEN "accepted" ELSE tests[Min(failed)].code
  BY DEF Authenticate
<1>3. CASE failed = {}
  BY <1>1, <1>2, <1>3 DEF Decides
<1>4. CASE failed # {}
  <2>1. Min(failed) \in failed /\ \A k \in failed : Min(failed) <= k
    <3>1. failed \subseteq Nat
      BY <1>1
    <3>. HIDE DEF failed
    <3>. QED
      BY <1>4, <3>1, FirstOf
  <2>. QED
    BY <1>1, <1>2, <1>4, <2>1 DEF Decides
<1>. QED
  BY <1>3, <1>4

\* What authenticate answers, and what its answer says of the token.
LEMMA AnswerIs ==
    ASSUME NEW p, NEW t, NEW n, NEW raises,
           NEW r, r = Authenticate(p, t, n, raises)
    PROVE  /\ r \in Codes \cup {"accepted"}
           /\ ~Verified(t) => r \in HeaderCodes
           /\ r = "accepted" => TimeAllows(p, t, n)
           /\ r = "token_expired" => Expired(p, t, n)
           /\ r = "token_too_old" =>
                 TooOld(p, t, n) /\ ~NotYetValid(p, t, n) /\ ~OfTheFuture(p, t, n)
           /\ r = "token_not_yet_valid" => NotYetValid(p, t, n) /\ ~Expired(p, t, n)
           /\ r = "token_issued_in_future" => OfTheFuture(p, t, n) /\ ~Expired(p, t, n)
<1>1. PICK tests : Ordered(p, t, n, raises, tests)
  BY TestsAre, Zenon
<1>2. /\ tests = Tests(p, t, n, raises)
      /\ \A k \in 1..6 : tests[k] = HeaderTests(p, t, raises)[k]
      /\ \A k \in 1..9 : tests[k + 6] = TimeTests(p, t, n)[k]
      /\ \A k \in 1..7 : tests[k + 15] = PartyTests(p, t)[k]
      /\ \A k \in 1..7 : tests[k + 22] = IdentityTests(p, t)[k]
  BY <1>1, Zenon DEF Ordered
<1>3. /\ ~Verified(t) => tests[6].fails
      /\ tests[7].fails <=> t.exp = NoClaim /\ p.require_expiration
      /\ tests[8].fails <=> t.exp = BadClaim
      /\ tests[9].fails <=> Expired(p, t, n)
      /\ tests[11].fails <=> NotYetValid(p, t, n)
      /\ tests[12].fails <=> t.iat = NoClaim /\ p.max_age # NoLimit
      /\ tests[13].fails <=> t.iat = BadClaim
      /\ tests[14].fails <=> OfTheFuture(p, t, n)
      /\ tests[15].fails <=> TooOld(p, t, n)
  <2>1. tests[6] = HeaderTests(p, t, raises)[6]
    BY <1>2
  <2>2. /\ tests[7] = TimeTests(p, t, n)[1] /\ tests[8] = TimeTests(p, t, n)[2]
        /\ tests[9] = TimeTests(p, t, n)[3] /\ tests[11] = TimeTests(p, t, n)[5]
        /\ tests[12] = TimeTests(p, t, n)[6] /\ tests[13] = TimeTests(p, t, n)[7]
        /\ tests[14] = TimeTests(p, t, n)[8] /\ tests[15] = TimeTests(p, t, n)[9]
    <3>1. \A k \in 1..9 : tests[k + 6] = TimeTests(p, t, n)[k]
      BY <1>2
    <3>. QED
      BY <3>1
  <2>. QED
    BY <2>1, <2>2, HeaderTestsAre, TimeTestsAre
<1>4. CASE r = "accepted" /\ \A k \in 1..29 : ~tests[k].fails
  BY <1>3, <1>4 DEF TimeAllows, HeaderCodes
<1>5. ASSUME NEW k \in 1..29, tests[k].fails, r = tests[k].code,
             \A j \in 1..29 : tests[j].fails => k <= j
      PROVE  /\ r \in Codes /\ r # "accepted"
             /\ ~Verified(t) => r \in HeaderCodes
             /\ r = "token_expired" => Expired(p, t, n)
             /\ r = "token_too_old" =>
                   TooOld(p, t, n) /\ ~NotYetValid(p, t, n) /\ ~OfTheFuture(p, t, n)
             /\ r = "token_not_yet_valid" => NotYetValid(p, t, n) /\ ~Expired(p, t, n)
             /\ r = "token_issued_in_future" => OfTheFuture(p, t, n) /\ ~Expired(p, t, n)
  <2>1. CASE k \in 1..6
    <3>1. r \in HeaderCodes
      <4>1. tests[k] = HeaderTests(p, t, raises)[k]
        BY <1>2, <2>1, Zenon
      <4>. QED
        BY <1>5, <2>1, <4>1, HeaderTestsAre
    <3>. QED
      BY <3>1 DEF Codes, HeaderCodes
  <2>2. CASE k \in 7..15
    <3>1. PICK i \in 1..9 : k = i + 6
      <4>1. k - 6 \in 1..9 /\ k = (k - 6) + 6
        BY <2>2
      <4>. QED
        BY <4>1
    <3>2. r = TimeTests(p, t, n)[i].code
      <4>1. tests[k] = TimeTests(p, t, n)[i]
        BY <1>2, <3>1, Zenon
      <4>. QED
        BY <1>5, <4>1
    <3>3. /\ r \in ClaimCodes \cup Early \cup Late
          /\ r = "token_expired" => k = 9
          /\ r = "token_not_yet_valid" => k = 11
          /\ r = "token_issued_in_future" => k = 14
          /\ r = "token_too_old" => k = 15
      <4>1. /\ TimeTests(p, t, n)[i].code \in ClaimCodes \cup Early \cup Late
            /\ TimeTests(p, t, n)[i].code = "token_expired" => i = 3
            /\ TimeTests(p, t, n)[i].code = "token_not_yet_valid" => i = 5
            /\ TimeTests(p, t, n)[i].code = "token_issued_in_future" => i = 8
            /\ TimeTests(p, t, n)[i].code = "token_too_old" => i = 9
        BY <3>1, TimeTestsAre
      <4>2. /\ r \in ClaimCodes \cup Early \cup Late
            /\ r = "token_expired" => i = 3
            /\ r = "token_not_yet_valid" => i = 5
            /\ r = "token_issued_in_future" => i = 8
            /\ r = "token_too_old" => i = 9
        BY <3>2, <4>1, Zenon
      <4>. QED
        BY <3>1, <4>2
    <3>. QED
      <4>1. r \in Codes /\ r # "accepted" /\ k > 6
        BY <3>1, <3>3 DEF Codes, ClaimCodes, Early, Late
      <4>2. ~Verified(t) => FALSE
        BY <1>3, <1>5, <4>1
      <4>3. /\ r = "token_expired" => Expired(p, t, n)
            /\ r = "token_not_yet_valid" => NotYetValid(p, t, n) /\ ~Expired(p, t, n)
        BY <1>3, <1>5, <3>3
      <4>4. /\ r = "token_too_old" =>
                  TooOld(p, t, n) /\ ~NotYetValid(p, t, n) /\ ~OfTheFuture(p, t, n)
            /\ r = "token_issued_in_future" => OfTheFuture(p, t, n) /\ ~Expired(p, t, n)
        BY <1>3, <1>5, <3>3
      <4>. QED
        BY <4>1, <4>2, <4>3, <4>4
  <2>3. CASE k \in 16..29
    <3>1. r \in ClaimCodes
      <4>1. CASE k \in 16..22
        <5>1. PICK i \in 1..7 : k = i + 15
          <6>1. k - 15 \in 1..7 /\ k = (k - 15) + 15
            BY <4>1
          <6>. QED
            BY <6>1
        <5>2. tests[k] = PartyTests(p, t)[i]
          BY <1>2, <5>1, Zenon
        <5>. QED
          BY <1>5, <5>1, <5>2, OtherTestsAre
      <4>2. CASE k \in 23..29
        <5>1. PICK i \in 1..7 : k = i + 22
          <6>1. k - 22 \in 1..7 /\ k = (k - 22) + 22
            BY <4>2
          <6>. QED
            BY <6>1
        <5>2. tests[k] = IdentityTests(p, t)[i]
          BY <1>2, <5>1, Zenon
        <5>. QED
          BY <1>5, <5>1, <5>2, OtherTestsAre
      <4>. QED
        BY <2>3, <4>1, <4>2
    <3>2. ~Verified(t) => FALSE
      BY <1>3, <1>5, <2>3
    <3>. QED
      BY <3>1, <3>2 DEF Codes, ClaimCodes
  <2>. QED
    BY <2>1, <2>2, <2>3
<1>6. \/ r = "accepted" /\ \A k \in 1..29 : ~tests[k].fails
      \/ \E k \in 1..29 : /\ tests[k].fails /\ r = tests[k].code
                          /\ \A j \in 1..29 : tests[j].fails => k <= j
  <2>1. Decides(tests, r)
    BY <1>2, FirstFailure, Zenon
  <2>. QED
    BY <2>1, Zenon DEF Decides
<1>7. CASE \E k \in 1..29 : /\ tests[k].fails /\ r = tests[k].code
                            /\ \A j \in 1..29 : tests[j].fails => k <= j
  <2>1. PICK k \in 1..29 : /\ tests[k].fails /\ r = tests[k].code
                           /\ \A j \in 1..29 : tests[j].fails => k <= j
    BY <1>7, Zenon
  <2>. QED
    BY <2>1, <1>5, Zenon
<1>. QED
  BY <1>4, <1>6, <1>7

\* What is true of an authenticator of policy p that holds t at time n, answered o the last
\* time and accepted t from f to l.
Answered(p, t, n, o, f, l) ==
    /\ o # "none" /\ ~Verified(t) => o \in HeaderCodes
    /\ \/ l = -1 /\ f = MaxTime + 1
       \/ l \in 0..n /\ f \in 0..l /\ TimeAllows(p, t, f) /\ TimeAllows(p, t, l)
    /\ o = "token_expired" => Expired(p, t, n)
    /\ o = "token_too_old" =>
          TooOld(p, t, n) /\ ~NotYetValid(p, t, n) /\ ~OfTheFuture(p, t, n)
    /\ f <= n => o \notin Early

AuthenticationInv ==
    /\ AuthenticationTypes
    /\ token \in Tokens
    /\ Answered(policy, token, clock, outcome, first, last)

\* What the assumption says of one policy and one token.
LEMMA ClaimsAre ==
    ASSUME NEW p \in Policies, NEW t \in Tokens
    PROVE  /\ p.leeway \in Nat /\ (p.max_age # NoLimit => p.max_age \in Nat)
           /\ Numeric(t.exp) => t.exp \in Int
           /\ Numeric(t.nbf) => t.nbf \in Int
           /\ Numeric(t.iat) => t.iat \in Int
  BY AuthenticationAssumption DEF AuthenticationAssumption, Numeric

\* What is late stays late, and what is not early is never early again.
LEMMA TimeGoesOn ==
    ASSUME NEW p \in Policies, NEW t \in Tokens, NEW n \in Nat, NEW m \in Nat, n <= m
    PROVE  /\ Expired(p, t, n) => Expired(p, t, m)
           /\ TooOld(p, t, n) => TooOld(p, t, m)
           /\ NotYetValid(p, t, m) => NotYetValid(p, t, n)
           /\ OfTheFuture(p, t, m) => OfTheFuture(p, t, n)
<1>1. Expired(p, t, n) => Expired(p, t, m)
  BY ClaimsAre DEF Expired
<1>2. TooOld(p, t, n) => TooOld(p, t, m)
  BY ClaimsAre DEF TooOld
<1>3. NotYetValid(p, t, m) => NotYetValid(p, t, n)
  BY ClaimsAre DEF NotYetValid
<1>4. OfTheFuture(p, t, m) => OfTheFuture(p, t, n)
  BY ClaimsAre DEF OfTheFuture
<1>. QED
  BY <1>1, <1>2, <1>3, <1>4

\* The times a token was accepted bound its life.
LEMMA AllowedIsBounded ==
    ASSUME NEW p \in Policies, NEW t \in Tokens, NEW f \in Nat, NEW l \in Nat,
           TimeAllows(p, t, f), TimeAllows(p, t, l)
    PROVE  /\ p.max_age # NoLimit => l - f <= p.max_age + 2 * p.leeway
           /\ Numeric(t.exp) => l < t.exp + p.leeway
           /\ p.require_expiration => Numeric(t.exp)
<1>1. ASSUME p.max_age # NoLimit PROVE l - f <= p.max_age + 2 * p.leeway
  <2>1. Numeric(t.iat)
    BY <1>1 DEF TimeAllows, Numeric
  <2>2. t.iat <= f + p.leeway /\ l - t.iat <= p.max_age + p.leeway
    <3>1. p.leeway \in Nat /\ p.max_age \in Nat /\ t.iat \in Int
      BY <1>1, <2>1, ClaimsAre
    <3>. QED
      BY <1>1, <2>1, <3>1 DEF TimeAllows, OfTheFuture, TooOld
  <2>. QED
    BY <1>1, <2>1, <2>2, ClaimsAre
<1>2. ASSUME Numeric(t.exp) PROVE l < t.exp + p.leeway
  BY <1>2, ClaimsAre DEF TimeAllows, Expired
<1>3. p.require_expiration => Numeric(t.exp)
  BY DEF TimeAllows, Numeric
<1>. QED
  BY <1>1, <1>2, <1>3

\* The authenticator is made.
LEMMA AuthenticationStarts == AuthenticationInit => AuthenticationInv
<1>. SUFFICES ASSUME AuthenticationInit PROVE AuthenticationInv
  OBVIOUS
<1>1. MaxTime \in Nat \ {0}
  BY AuthenticationAssumption DEF AuthenticationAssumption
<1>2. AuthenticationTypes /\ token \in Tokens
  BY <1>1 DEF AuthenticationInit, AuthenticationTypes
<1>3. Answered(policy, token, clock, outcome, first, last)
  BY <1>1 DEF AuthenticationInit, Answered, Early
<1>. QED
  BY <1>2, <1>3 DEF AuthenticationInv

\* The clock goes on.
LEMMA ClockKeeps == AuthenticationInv /\ ClockAdvances => AuthenticationInv'
<1>. SUFFICES ASSUME AuthenticationInv, ClockAdvances PROVE AuthenticationInv'
  OBVIOUS
<1>1. MaxTime \in Nat \ {0}
  BY AuthenticationAssumption DEF AuthenticationAssumption
<1>2. /\ policy' = policy /\ token' = token /\ outcome' = outcome
      /\ first' = first /\ last' = last /\ clock' = clock + 1 /\ clock < MaxTime
  BY DEF ClockAdvances
<1>3. /\ policy \in Policies /\ token \in Tokens /\ clock \in Nat /\ clock' \in 0..MaxTime
      /\ clock <= clock' /\ clock' \in Nat
  BY <1>1, <1>2 DEF AuthenticationInv, AuthenticationTypes
<1>4. AuthenticationTypes' /\ token' \in Tokens
  BY <1>1, <1>2, <1>3 DEF AuthenticationInv, AuthenticationTypes
<1>5. Answered(policy, token, clock, outcome, first, last)
  BY DEF AuthenticationInv
<1>6. /\ Expired(policy, token, clock) => Expired(policy, token, clock')
      /\ TooOld(policy, token, clock) => TooOld(policy, token, clock')
      /\ NotYetValid(policy, token, clock') => NotYetValid(policy, token, clock)
      /\ OfTheFuture(policy, token, clock') => OfTheFuture(policy, token, clock)
  BY <1>3, TimeGoesOn
<1>7. \/ last = -1 /\ first = MaxTime + 1
      \/ /\ last \in 0..clock' /\ first \in 0..last
         /\ TimeAllows(policy, token, first) /\ TimeAllows(policy, token, last)
  BY <1>2, <1>3, <1>5 DEF Answered
<1>8. first <= clock' => outcome \notin Early
  <2>1. first <= clock' => first <= clock
    BY <1>1, <1>2, <1>3, <1>5 DEF Answered
  <2>. QED
    BY <1>5, <2>1 DEF Answered
<1>9. Answered(policy, token, clock', outcome, first, last)
  BY <1>5, <1>6, <1>7, <1>8 DEF Answered
<1>10. Answered(policy, token, clock, outcome, first, last)'
  BY <1>2, <1>9
<1>. QED
  BY <1>4, <1>10 DEF AuthenticationInv

\* The token is presented: what the answer leaves true, and what it may not be after the
\* last one.
Keeps(p, t, n, o, f, r, f2, l2) ==
    /\ Answered(p, t, n, r, f2, l2)
    /\ f2 \in 0..MaxTime + 1 /\ l2 \in -1..MaxTime
    /\ o \in Late => r \notin Early \cup {"accepted"}
    /\ f <= n => r \notin Early

LEMMA AnswerKeeps ==
    ASSUME NEW p \in Policies, NEW t \in Tokens, NEW n \in 0..MaxTime, NEW raises,
           NEW o, NEW f, NEW l, Answered(p, t, n, o, f, l),
           NEW r, r = Authenticate(p, t, n, raises),
           NEW f2, f2 = IF r = "accepted" /\ f > n THEN n ELSE f,
           NEW l2, l2 = IF r = "accepted" THEN n ELSE l
    PROVE  Keeps(p, t, n, o, f, r, f2, l2)
<1>1. MaxTime \in Nat \ {0} /\ n \in Nat
  BY AuthenticationAssumption DEF AuthenticationAssumption
<1>2. /\ ~Verified(t) => r \in HeaderCodes
      /\ r = "accepted" => TimeAllows(p, t, n)
      /\ r = "token_expired" => Expired(p, t, n)
      /\ r = "token_too_old" =>
            TooOld(p, t, n) /\ ~NotYetValid(p, t, n) /\ ~OfTheFuture(p, t, n)
      /\ r = "token_not_yet_valid" => NotYetValid(p, t, n) /\ ~Expired(p, t, n)
      /\ r = "token_issued_in_future" => OfTheFuture(p, t, n) /\ ~Expired(p, t, n)
  BY AnswerIs
<1>3. o \in Late => r \notin Early \cup {"accepted"}
  <2>1. CASE o = "token_expired"
    <3>1. Expired(p, t, n)
      BY <2>1 DEF Answered
    <3>. QED
      BY <1>2, <3>1 DEF Early, TimeAllows
  <2>2. CASE o = "token_too_old"
    <3>1. TooOld(p, t, n) /\ ~NotYetValid(p, t, n) /\ ~OfTheFuture(p, t, n)
      BY <2>2 DEF Answered
    <3>. QED
      BY <1>2, <3>1 DEF Early, TimeAllows
  <2>. QED
    BY <2>1, <2>2 DEF Late
<1>4. CASE l = -1 /\ f = MaxTime + 1
  <2>1. ~(f <= n) /\ f > n
    BY <1>1, <1>4
  <2>2. \/ r # "accepted" /\ f2 = f /\ l2 = l
        \/ r = "accepted" /\ f2 = n /\ l2 = n
    BY <2>1
  <2>3. \/ l2 = -1 /\ f2 = MaxTime + 1
        \/ l2 \in 0..n /\ f2 \in 0..l2 /\ TimeAllows(p, t, f2) /\ TimeAllows(p, t, l2)
    BY <1>1, <1>2, <1>4, <2>2
  <2>4. f2 <= n => r \notin Early
    BY <1>1, <1>4, <2>2 DEF Early
  <2>5. f2 \in 0..MaxTime + 1 /\ l2 \in -1..MaxTime
    BY <1>1, <1>4, <2>2
  <2>6. Answered(p, t, n, r, f2, l2)
    BY <1>2, <2>3, <2>4 DEF Answered
  <2>. QED
    BY <1>3, <2>1, <2>5, <2>6 DEF Keeps
<1>5. CASE l \in 0..n /\ f \in 0..l /\ TimeAllows(p, t, f) /\ TimeAllows(p, t, l)
  <2>1. f <= n /\ f \in Nat /\ l \in Nat
    BY <1>1, <1>5
  <2>2. f2 = f /\ (l2 = l \/ (l2 = n /\ r = "accepted"))
    BY <1>1, <2>1
  <2>3. l2 \in 0..n /\ f2 \in 0..l2 /\ TimeAllows(p, t, f2) /\ TimeAllows(p, t, l2)
    BY <1>1, <1>2, <1>5, <2>1, <2>2
  <2>4. r \notin Early
    <3>1. ~NotYetValid(p, t, n) /\ ~OfTheFuture(p, t, n)
      BY <1>1, <1>5, <2>1, TimeGoesOn DEF TimeAllows
    <3>. QED
      BY <1>2, <3>1 DEF Early
  <2>5. f2 \in 0..MaxTime + 1 /\ l2 \in -1..MaxTime
    BY <1>1, <1>5, <2>1, <2>2
  <2>6. Answered(p, t, n, r, f2, l2)
    BY <1>2, <2>3, <2>4 DEF Answered
  <2>. QED
    BY <1>3, <2>4, <2>5, <2>6 DEF Keeps
<1>. QED
  BY <1>4, <1>5 DEF Answered

\* The token is presented.
LEMMA PresentKeeps ==
    ASSUME AuthenticationInv, NEW raises \in BOOLEAN, Present(raises)
    PROVE  /\ AuthenticationInv'
           /\ outcome \in Late => outcome' \notin Early \cup {"accepted"}
           /\ first <= clock => outcome' \notin Early
<1>1. /\ policy' = policy /\ token' = token /\ clock' = clock
      /\ outcome' = Authenticate(policy, token, clock, raises)
      /\ first' = IF outcome' = "accepted" /\ first > clock THEN clock ELSE first
      /\ last' = IF outcome' = "accepted" THEN clock ELSE last
  BY DEF Present
<1>2. /\ policy \in Policies /\ token \in Tokens /\ clock \in 0..MaxTime
      /\ Answered(policy, token, clock, outcome, first, last)
  BY DEF AuthenticationInv, AuthenticationTypes
<1>3. /\ Answered(policy, token, clock, outcome', first', last')
      /\ first' \in 0..MaxTime + 1 /\ last' \in -1..MaxTime
      /\ outcome \in Late => outcome' \notin Early \cup {"accepted"}
      /\ first <= clock => outcome' \notin Early
  <2>1. Keeps(policy, token, clock, outcome, first, outcome', first', last')
    BY <1>1, <1>2, AnswerKeeps, Zenon
  <2>. QED
    BY <2>1 DEF Keeps
<1>4. outcome' \in Codes \cup {"accepted"}
  BY <1>1, AnswerIs, Zenon
<1>5. AuthenticationTypes'
  BY <1>1, <1>2, <1>3, <1>4 DEF AuthenticationTypes, Codes, ClaimCodes
<1>6. Answered(policy, token, clock, outcome, first, last)'
  BY <1>1, <1>3
<1>. QED
  BY <1>1, <1>2, <1>3, <1>5, <1>6 DEF AuthenticationInv

\* Every step of an authenticator and its clock.
LEMMA AuthenticationSteps ==
    AuthenticationInv /\ [AuthenticationNext]_tokenVars =>
        /\ AuthenticationInv'
        /\ [/\ outcome \in Late => outcome' \notin Early \cup {"accepted"}
            /\ first <= clock => outcome' \notin Early]_tokenVars
<1>. SUFFICES ASSUME AuthenticationInv, [AuthenticationNext]_tokenVars
              PROVE  /\ AuthenticationInv'
                     /\ \/ /\ outcome \in Late => outcome' \notin Early \cup {"accepted"}
                           /\ first <= clock => outcome' \notin Early
                        \/ UNCHANGED tokenVars
  OBVIOUS
<1>1. CASE ClockAdvances
  <2>1. outcome' = outcome
    BY <1>1 DEF ClockAdvances
  <2>2. outcome \in Late => outcome \notin Early \cup {"accepted"}
    BY DEF Early, Late
  <2>3. first <= clock => outcome \notin Early
    BY DEF AuthenticationInv, Answered
  <2>. QED
    BY <1>1, <2>1, <2>2, <2>3, ClockKeeps
<1>2. ASSUME NEW raises \in BOOLEAN, Present(raises)
      PROVE  /\ AuthenticationInv'
             /\ outcome \in Late => outcome' \notin Early \cup {"accepted"}
             /\ first <= clock => outcome' \notin Early
  BY <1>2, PresentKeeps
<1>3. CASE UNCHANGED tokenVars
  BY <1>3 DEF AuthenticationInv, AuthenticationTypes, tokenVars
<1>. QED
  BY <1>1, <1>2, <1>3 DEF AuthenticationNext

\* What the invariant says of what is accepted.
LEMMA InvBoundsAcceptance == AuthenticationInv => AcceptanceIsBounded
<1>. SUFFICES ASSUME AuthenticationInv PROVE AcceptanceIsBounded
  OBVIOUS
<1>1. LifetimeIsBounded
  <2>1. ASSUME last >= 0
        PROVE  /\ policy.max_age # NoLimit => last - first <= policy.max_age + 2 * policy.leeway
               /\ Numeric(token.exp) => last < token.exp + policy.leeway
               /\ policy.require_expiration => Numeric(token.exp)
    <3>1. /\ policy \in Policies /\ token \in Tokens /\ clock \in Nat
          /\ last \in 0..clock /\ first \in 0..last
          /\ TimeAllows(policy, token, first) /\ TimeAllows(policy, token, last)
      BY <2>1 DEF AuthenticationInv, AuthenticationTypes, Answered
    <3>2. last \in Nat /\ first \in Nat
      BY <3>1
    <3>. QED
      BY <3>1, <3>2, AllowedIsBounded
  <2>. QED
    BY <2>1 DEF LifetimeIsBounded
<1>2. UnsignedClaimsAreSilent
  BY DEF AuthenticationInv, Answered, UnsignedClaimsAreSilent
<1>. QED
  BY <1>1, <1>2 DEF AcceptanceIsBounded, AuthenticationInv

\* An authenticator of any policies, keys and tokens accepts a token for no longer than its
\* maximum age and twice the leeway, never past its expiration, and says nothing of the
\* claims of one whose signature it has not verified.
THEOREM TokensAreBounded == AuthenticationSpec => []AcceptanceIsBounded
<1>1. AuthenticationInv /\ [AuthenticationNext]_tokenVars => AuthenticationInv'
  BY AuthenticationSteps
<1>. QED
  BY AuthenticationStarts, <1>1, InvBoundsAcceptance, PTL DEF AuthenticationSpec

\* A token is good for one stretch of time, whatever it claims and whenever it is presented.
THEOREM TokensAreGoodOnce == AuthenticationSpec => OneStretchOfTime
<1>1. AuthenticationInv /\ [AuthenticationNext]_tokenVars => AuthenticationInv'
  BY AuthenticationSteps
<1>2. AuthenticationInv /\ [AuthenticationNext]_tokenVars =>
        [/\ outcome \in Late => outcome' \notin Early \cup {"accepted"}
         /\ first <= clock => outcome' \notin Early]_tokenVars
  BY AuthenticationSteps
<1>. QED
  BY AuthenticationStarts, <1>1, <1>2, PTL DEF AuthenticationSpec, OneStretchOfTime
=============================================================================
