------------------------ MODULE MCGovernedExecution ------------------------
(* Small instances of GovernedExecution for TLC. *)
EXTENDS GovernedExecution, TLC

CONSTANTS r1, r2, r3, i1, p1, p2

SameIdentity == [r \in Requests |-> i1]

\* The first call is of one process, the others in a second one.
TwoProcesses == [r \in Requests |-> IF r = r1 THEN p1 ELSE p2]

\* Both are calls of the same kind.
PeerSymmetry == Permutations({r2, r3})
============================================================================
