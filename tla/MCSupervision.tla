--------------------------- MODULE MCSupervision ---------------------------
(* Three controls: the approval gate, shared by several processes or used by  *)
(* one, the supervised loop of production cycles, and the inventory a release *)
(* is verified by.  They share nothing; a behaviour runs one of them.         *)
EXTENDS ApprovalGate, Workflow, ReleaseInventory, TLC

CONSTANTS r1, r2, deploy, delete, other, alice, bob, d1, d2, d3, u1, f1, f2,
    readme, code, b1, b2, v1

VARIABLE part

----------------------------------------------------------------------------
Plain(verdict, validated, score, cost, evidence, fingerprint) ==
    [verdict |-> verdict, criteria_validated |-> validated, progress_score |-> score,
     cost_units |-> cost, evidence |-> evidence, fingerprint |-> fingerprint,
     critical |-> FALSE, blocked |-> FALSE]

\* Cycles to be reworked, at several scores and costs, with and without a failure.
Reworked ==
    {Plain("REWORK_REQUIRED", FALSE, score, cost, FALSE, f) :
        score \in 0..2, cost \in 1..2, f \in {None, f1, f2}}

\* Cycles that pass, validated or not, with evidence or not.
Passed ==
    {Plain(verdict, validated, 2, 1, evidence, None) :
        verdict \in {"PASS", "PASS_WITH_WARNINGS"}, validated \in BOOLEAN,
        evidence \in BOOLEAN}

\* The same with a critical finding, or a blocker.
Stopped ==
    UNION {{[r EXCEPT !.critical = TRUE], [r EXCEPT !.blocked = TRUE]} :
              r \in Passed \cup {Plain("BLOCKED", FALSE, 0, 1, FALSE, f1)}}

OutOfRange == {Plain("REWORK_REQUIRED", FALSE, 3, 1, FALSE, None)}

AllResults == Reworked \cup Passed \cup Stopped \cup OutOfRange

\* Nothing tells one failure from the other.
FingerprintSymmetry == Permutations({f1, f2})

----------------------------------------------------------------------------
\* The gate where decide is called by one thread of one process.
OneProcess == INSTANCE ApprovalGate WITH Serial <- TRUE

\* The names of temporary files begin with a dot and are sorted first.
SortedNames == <<b1, b2, Inventory, readme, code>>

\* Two builds on files of which one is changed, or a verification after, or during, a
\* build on files that are changed twice.
TwoBuilds == ReleaseNext /\ step'[v1] = step[v1] /\ Len(edits') <= 1

BuildAndCheck == ReleaseNext /\ step'[b2] = step[b2]

EitherInit ==
    /\ part \in {"gate", "gate of one process", "loop", "builds", "release"}
    /\ Init /\ LoopInit /\ ReleaseInit
    /\ part \notin {"gate", "gate of one process"} => target = [d \in Decisions |-> r1]

EitherNext ==
    \/ part = "gate" /\ Next /\ UNCHANGED <<workflowVars, releaseVars>>
    \/ part = "gate of one process" /\ OneProcess!Next /\ UNCHANGED <<workflowVars, releaseVars>>
    \/ part = "loop" /\ LoopNext /\ UNCHANGED <<approvalVars, releaseVars>>
    \/ part = "builds" /\ TwoBuilds /\ UNCHANGED <<approvalVars, workflowVars>>
    \/ part = "release" /\ BuildAndCheck /\ UNCHANGED <<approvalVars, workflowVars>>

EitherSpec ==
    /\ EitherInit
    /\ [][EitherNext /\ UNCHANGED part]_<<approvalVars, workflowVars, releaseVars, part>>

----------------------------------------------------------------------------
\* In one process a decision that was stored is final ("Cette demande a déjà été
\* décidée"): decide, its refusals and its failures never change it.
DecisionIsFinal == [][part = "gate of one process" => KeepsDecisions]_approvalVars
============================================================================
