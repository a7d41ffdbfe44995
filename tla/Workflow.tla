------------------------------ MODULE Workflow ------------------------------
(***************************************************************************)
(* ElmanWorkflow.run (workflow.py) with its MetacognitiveSupervisor and      *)
(* LearningAgent (metacognition.py): a bounded loop of production cycles,    *)
(* whose results are whatever the cycle runner returns, supervised from      *)
(* counters that summarise the results seen so far.                          *)
(***************************************************************************)
EXTENDS Integers, Sequences, SequencesExt, FiniteSets, FiniteSetsExt, Functions

CONSTANTS
    Results,         \* the CycleResults a cycle runner may return
    Fingerprints,    \* their failure_fingerprints
    None,            \* no failure_fingerprint; no previous progress
    MaxScore,        \* progress_score 1.0; scores are counted in its fractions
    MinimumDelta,    \* SupervisorPolicy.minimum_progress_delta
    MaxIterations,   \* SupervisorPolicy.max_iterations
    MaxSameFailure,  \* SupervisorPolicy.max_same_failure
    MaxNoProgress,   \* SupervisorPolicy.max_no_progress
    MaxCost,         \* SupervisorPolicy.max_cost_units
    MaxElapsed,      \* SupervisorPolicy.max_elapsed_seconds
    CycleTime        \* bound: a cycle takes at most that long

ASSUME WorkflowAssumption ==
    /\ None \notin Fingerprints \cup Int
    /\ \A r \in Results :
          /\ r.fingerprint \in Fingerprints \cup {None}
          /\ {r.progress_score, r.cost_units} \subseteq Int
          /\ {r.criteria_validated, r.evidence, r.critical, r.blocked} \subseteq BOOLEAN
    /\ {MaxIterations, MaxSameFailure, MaxNoProgress, MaxCost, MaxElapsed} \subseteq Nat \ {0}
    /\ {MaxScore, MinimumDelta, CycleTime} \subseteq Nat

VARIABLES
    loop,                 \* where run is
    iterations,         \* the list of results, in order
    cumulative_cost,    \* the local of run
    elapsed,            \* time.monotonic() - started
    failure_counts,     \* Supervisor._failure_counts
    no_progress_count,  \* Supervisor._no_progress_count
    previous_progress,  \* Supervisor._previous_progress
    proposals,          \* how many learning proposals were made
    stop_reason,        \* the local of run
    status              \* the local of run

supervisorVars == <<failure_counts, no_progress_count, previous_progress>>
workflowVars == <<loop, iterations, cumulative_cost, elapsed, supervisorVars,
                  proposals, stop_reason, status>>

----------------------------------------------------------------------------
StatusOf(reason) ==
    CASE reason = "continue" -> "running"
      [] reason = "criteria_validated" -> "ready_for_human_approval"
      [] reason \in {"max_iterations", "budget_exhausted", "time_limit"} -> "stopped_limit"
      [] reason \in {"external_blocker", "critical_finding", "repeated_failure",
                     "no_progress"} -> "blocked"

Validated(result) ==
    result.verdict \in {"PASS", "PASS_WITH_WARNINGS"} /\ result.criteria_validated

\* propose
Teaches(result) ==
    result.verdict = "PASS" /\ result.criteria_validated /\ result.evidence

\* _failure_counts of the fingerprint of this result, the result included.
SameFailures(result) ==
    IF result.fingerprint = None THEN 0 ELSE failure_counts[result.fingerprint] + 1

\* Mutant: a cycle that progresses leaves the count as it is.
StagnationKept(result) ==
    IF previous_progress # None /\ result.progress_score - previous_progress < MinimumDelta
    THEN no_progress_count + 1 ELSE no_progress_count

\* _no_progress_count, once the progress of this result is compared.
Stagnation(result) ==
    CASE previous_progress = None -> no_progress_count
      [] previous_progress # None /\ result.progress_score - previous_progress < MinimumDelta ->
           no_progress_count + 1
      [] OTHER -> 0

\* The tests of evaluate, in the order of the code.
Tests(result, iteration, cost, time) == <<
    [holds |-> result.blocked, reason |-> "external_blocker"],
    [holds |-> result.critical, reason |-> "critical_finding"],
    [holds |-> Validated(result), reason |-> "criteria_validated"],
    [holds |-> cost >= MaxCost, reason |-> "budget_exhausted"],
    [holds |-> time >= MaxElapsed, reason |-> "time_limit"],
    [holds |-> SameFailures(result) >= MaxSameFailure, reason |-> "repeated_failure"],
    [holds |-> Stagnation(result) >= MaxNoProgress, reason |-> "no_progress"],
    [holds |-> iteration >= MaxIterations, reason |-> "max_iterations"],
    [holds |-> TRUE, reason |-> "continue"] >>

\* evaluate: the reason of the first test that holds.
Decision(result, iteration, cost, time) ==
    LET tests == Tests(result, iteration, cost, time)
    IN  tests[Min({k \in DOMAIN tests : tests[k].holds})].reason

\* Mutant: the counts of a failure start anew when another failure shows.
SuperviseAfresh(result, reason) ==
    /\ failure_counts' =
          [f \in Fingerprints |-> IF f = result.fingerprint THEN SameFailures(result) ELSE 0]
    /\ no_progress_count' = Stagnation(result)
    /\ previous_progress' = result.progress_score

\* The counters evaluate has changed when it returns for that reason.
Supervise(result, reason) ==
    LET counted == reason \in {"repeated_failure", "no_progress", "max_iterations", "continue"}
        compared == counted /\ reason # "repeated_failure"
    IN  /\ failure_counts' =
              [f \in Fingerprints |-> IF counted /\ f = result.fingerprint
                                      THEN SameFailures(result) ELSE failure_counts[f]]
        /\ no_progress_count' = IF compared THEN Stagnation(result) ELSE no_progress_count
        /\ previous_progress' = IF compared /\ reason # "no_progress"
                                THEN result.progress_score ELSE previous_progress

LoopInit ==
    /\ loop = "cycling"
    /\ iterations = <<>>
    /\ cumulative_cost = 0
    /\ elapsed = 0
    /\ failure_counts = [f \in Fingerprints |-> 0]
    /\ no_progress_count = 0
    /\ previous_progress = None
    /\ proposals = 0
    /\ stop_reason = "continue"
    /\ status = "running"

\* The checks of run on the result of a cycle.
WellFormed(result) == result.progress_score \in 0..MaxScore /\ result.cost_units >= 0

\* An iteration of the loop: the cycle runner, the supervisor, the learner.
Cycle(result, time) ==
    LET cost == cumulative_cost + result.cost_units
        reason == Decision(result, Len(iterations) + 1, cost, elapsed + time)
    IN  /\ loop = "cycling"
        /\ WellFormed(result)
        /\ cumulative_cost' = cost
        /\ elapsed' = elapsed + time
        /\ Supervise(result, reason)
        /\ iterations' = Append(iterations, result)
        /\ proposals' = IF Teaches(result) THEN proposals + 1 ELSE proposals
        /\ stop_reason' = reason
        /\ status' = StatusOf(reason)
        /\ loop' = IF reason = "continue" THEN "cycling" ELSE "reporting"

\* The cycle runner raises, or its result is out of range: run raises, and nothing
\* is reported.
CycleFails ==
    /\ loop = "cycling"
    /\ loop' = "raised"
    /\ UNCHANGED <<iterations, cumulative_cost, elapsed, supervisorVars, proposals,
                   stop_reason, status>>

\* report_sink is called once, at the end; it may raise.
Report(outcome) ==
    /\ loop = "reporting"
    /\ loop' = outcome
    /\ UNCHANGED <<iterations, cumulative_cost, elapsed, supervisorVars, proposals,
                   stop_reason, status>>

LoopNext ==
    \/ \E result \in Results, time \in 0..CycleTime : Cycle(result, time)
    \/ CycleFails
    \/ \E outcome \in {"returned", "raised"} : Report(outcome)

LoopSpec == LoopInit /\ [][LoopNext]_workflowVars

----------------------------------------------------------------------------
\* What the counters summarise, recomputed from the list of results.
Occurrences(f) == Cardinality({k \in DOMAIN iterations : iterations[k].fingerprint = f})

Spent == SumFunctionOnSet([k \in DOMAIN iterations |-> iterations[k].cost_units],
                          DOMAIN iterations)

Stagnant(k) ==
    k > 1 /\ iterations[k].progress_score - iterations[k - 1].progress_score < MinimumDelta

\* The last n results each failed to progress on the one before.
StagnantFor(n) ==
    n < Len(iterations) /\ \A k \in (Len(iterations) - n + 1)..Len(iterations) : Stagnant(k)

\* The shape of the loop's state; the list never outgrows the policy.
LoopTypes ==
    /\ loop \in {"cycling", "reporting", "returned", "raised"}
    /\ iterations \in Seq(Results) /\ Len(iterations) <= MaxIterations
    /\ {cumulative_cost, elapsed, no_progress_count, proposals} \subseteq Nat
    /\ failure_counts \in [Fingerprints -> Nat]
    /\ previous_progress \in 0..MaxScore \cup {None}
    /\ status \in {"running", "ready_for_human_approval", "stopped_limit", "blocked"}

\* "Toute boucle est bornée par itérations, coût, temps et progrès": while the loop
\* goes on, the results seen so far, counted again from the list, reach no limit of
\* the policy, and none of them called for a stop.  The supervisor's counters lose
\* nothing of what they summarise.
ContinuesWithinBounds ==
    loop = "cycling" =>
        /\ Len(iterations) < MaxIterations
        /\ Spent < MaxCost
        /\ elapsed < MaxElapsed
        /\ \A f \in Fingerprints : Occurrences(f) < MaxSameFailure
        /\ ~StagnantFor(MaxNoProgress)
        /\ \A k \in DOMAIN iterations :
              ~iterations[k].blocked /\ ~iterations[k].critical /\ ~Validated(iterations[k])

\* The reason a loop reports is true of its results: no limit is blamed that the
\* results have not reached.
ReasonIsTrue ==
    loop \in {"reporting", "returned"} =>
        CASE stop_reason = "max_iterations" -> Len(iterations) = MaxIterations
          [] stop_reason = "budget_exhausted" -> Spent >= MaxCost
          [] stop_reason = "time_limit" -> elapsed >= MaxElapsed
          [] stop_reason = "repeated_failure" ->
               Occurrences(Last(iterations).fingerprint) = MaxSameFailure
          [] stop_reason = "no_progress" -> StagnantFor(MaxNoProgress)
          [] stop_reason = "external_blocker" -> Last(iterations).blocked
          [] stop_reason = "critical_finding" -> Last(iterations).critical
          [] stop_reason = "criteria_validated" -> Validated(Last(iterations))

\* A loop is ready for human approval only when no result, the last one included,
\* had a critical finding or a blocker, however good the proof.
ReadyIsClean ==
    status = "ready_for_human_approval" =>
        \A k \in DOMAIN iterations : ~iterations[k].blocked /\ ~iterations[k].critical

\* A run proposes at most one lesson, from its last cycle, and never from one whose
\* criteria were not validated.
LearnsOnce ==
    /\ proposals <= 1
    /\ proposals = 1 => loop # "cycling" /\ Validated(Last(iterations))

\* While the loop goes on no limit of the policy is reached, and a run proposes at
\* most one lesson, from validated criteria.
LoopIsBounded == LoopTypes /\ ContinuesWithinBounds /\ LearnsOnce

\* The reason a loop reports is true of its results, and one that asks for approval
\* had no critical finding and no blocker.
StopsForItsReason == ReasonIsTrue /\ ReadyIsClean
============================================================================
