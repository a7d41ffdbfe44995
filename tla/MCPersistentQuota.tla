------------------------- MODULE MCPersistentQuota -------------------------
EXTENDS PersistentQuota, TLC

CONSTANTS r1, r2, r3, r4, i1

\* All calls are made for one identity: they compete for its limits.
OneIdentity == [r \in Requests |-> i1]

\* The calls of one identity are interchangeable.
CallSymmetry == Permutations(Requests)
============================================================================
