----------------------- MODULE MCResilientExecution ------------------------
(* ResilientExecution alone, for a run about its token budget. *)
EXTENDS ResilientExecution

CONSTANTS c1, c2, c3

TwoTokensEach == [c \in Calls |-> 2]
ThreeTicksEach == [c \in Calls |-> 3]
NoneOrSome == {None, 0, 3}
============================================================================
