----------------------- MODULE IdentityQuotaContract -----------------------
(***************************************************************************)
(* What an identity quota manager promises, without counters, records or  *)
(* clocks: leases are granted within three limits, and every lease ends   *)
(* exactly once, by a settlement that charges tokens or by an expiry that  *)
(* charges none.  PersistentQuota and MemoryQuota implement this contract. *)
(***************************************************************************)
EXTENDS Naturals, FiniteSets, FiniteSetsExt

CONSTANTS
    Requests,      \* calls that may ask for a lease
    Identities,    \* identity fingerprints
    Identity,      \* the identity each call is made for
    MaxRequests,   \* leases an identity may be granted, ever
    MaxTokens,     \* tokens spent and leased
    MaxConcurrent, \* leases held at once
    Amount         \* bound: the token amounts of leases and settlements

VARIABLES
    granted,       \* calls that were given a lease, at any time
    lease,         \* tokens each call holds; 0 when it holds no lease
    spent          \* tokens charged to each identity

contractVars == <<granted, lease, spent>>

Of(i) == {r \in Requests : Identity[r] = i}

Held(i) == {r \in Of(i) : lease[r] # 0}

ContractInit ==
    /\ granted = {}
    /\ lease = [r \in Requests |-> 0]
    /\ spent = [i \in Identities |-> 0]

\* A lease is granted after the leases of "gone", held by the same identity, ended
\* unpaid: the limits are judged on what remains.
Grant(r) ==
    LET i == Identity[r]
    IN  /\ r \notin granted
        /\ granted' = granted \cup {r}
        /\ Cardinality(granted \cap Of(i)) < MaxRequests
        /\ UNCHANGED spent
        /\ \E tokens \in Amount \ {0}, gone \in SUBSET Held(i) :
              LET kept == Held(i) \ gone
              IN  /\ lease' = [q \in Requests |-> CASE q = r -> tokens
                                                   [] q \in gone -> 0
                                                   [] OTHER -> lease[q]]
                  /\ Cardinality(kept) < MaxConcurrent
                  /\ spent[i] + SumFunctionOnSet(lease, kept) + tokens
                        <= MaxTokens

Release(r) ==
    /\ lease[r] # 0
    /\ UNCHANGED granted
    /\ lease' = [lease EXCEPT ![r] = 0]
    /\ \E actual \in Amount : spent' = [spent EXCEPT ![Identity[r]] = @ + actual]

Expire ==
    /\ UNCHANGED <<granted, spent>>
    /\ \A r \in Requests : lease'[r] \in {lease[r], 0}

ContractNext == Expire \/ \E r \in Requests : Grant(r) \/ Release(r)

ContractSpec == ContractInit /\ [][ContractNext]_contractVars
============================================================================
