-------------------------- MODULE MCQuotaContract --------------------------
(* The two quota managers against their contract.  They share nothing, so a   *)
(* behaviour runs one of them and leaves the other as it was made.            *)
EXTENDS MemoryQuota, TLC

CONSTANTS TTL, MaxClock, r1, r2, r3, r4, r5, ada, bob

VARIABLES manager, clock, stored, records, caller, readAt, estimate, charged

persistentVars == <<clock, stored, records, caller, readAt, estimate, charged>>

\* Four calls of ada, one of bob; for the persistent manager two and one.
FourAndOne == [r \in Requests |-> IF r = r5 THEN bob ELSE ada]
TwoAndOne == [r \in {r1, r2, r3} |-> IF r = r3 THEN bob ELSE ada]

Persistent == INSTANCE PersistentQuota WITH
    Requests <- {r1, r2, r3}, Identity <- TwoAndOne,
    MaxRequests <- 2, MaxTokens <- 3, MaxConcurrent <- 1,
    usage <- stored, reservation <- records, pc <- caller

\* Calls of one identity are interchangeable.
CallSymmetry == Permutations({r1, r2})

EitherInit == manager \in {"memory", "persistent"} /\ Init /\ Persistent!Init

EitherNext ==
    \/ manager = "memory" /\ Next /\ UNCHANGED persistentVars
    \/ manager = "persistent" /\ Persistent!Next /\ UNCHANGED memoryVars

EitherSpec ==
    EitherInit /\ [][EitherNext /\ UNCHANGED manager]_<<memoryVars, persistentVars, manager>>

\* Every step of either manager, with calls of two identities, is a step of the
\* contract or changes nothing in it: no operation of an identity touches the
\* leases of the other.
BothImplementContract == ImplementsContract /\ Persistent!ImplementsContract

============================================================================
