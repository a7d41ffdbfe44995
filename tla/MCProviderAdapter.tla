------------------------- MODULE MCProviderAdapter -------------------------
(* ProviderAdapter alone, for a run about the failures of an attempt. *)
EXTENDS ProviderAdapter

CONSTANTS c1, c2

TwoTokensEach == [c \in Calls |-> 2]
TwoTicksEach == [c \in Calls |-> 2]
NeverSaid == {None}

\* Answers with status 200, whose body is within the contract, no JSON at all, or
\* JSON whose "usage" is null or a list.
Answered ==
    {[status |-> 200, retry_after |-> None, body |-> b, tokens |-> 2] :
        b \in {"response", "invalid", "no_mapping"}}
============================================================================
