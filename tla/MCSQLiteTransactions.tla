----------------------- MODULE MCSQLiteTransactions ------------------------
(* A small instance of SQLiteTransactions for TLC. *)
EXTENDS SQLiteTransactions, TLC

CONSTANTS t1, t2, t3, p1, p2

\* Two tasks of one process and one of another.
TwoOfThree == (t1 :> p1) @@ (t2 :> p1) @@ (t3 :> p2)

SameProcessSymmetry == Permutations({t1, t2})

\* Cancellation at every await.
Everywhere == {"init_wait", "lock_wait", "opening", "committing", "committed", "closing"}

\* What is passed as expected_version.
NewOrFirst == {0, 1}
============================================================================
