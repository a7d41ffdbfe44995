---------------------------- MODULE MemoryQuota ----------------------------
(***************************************************************************)
(* IdentityQuotaManager (governance.py): the quota of one process, kept in  *)
(* memory.  Nothing is awaited while _lock is held, so each operation is    *)
(* one action; the lock is never contended and is not modelled.  Unlike     *)
(* the persistent manager it has no expiry: a reservation ends only when    *)
(* it is settled.                                                           *)
(***************************************************************************)
EXTENDS Naturals, FiniteSets, FiniteSetsExt

CONSTANTS
    Requests,       \* calls of reserve; a reservation_id each
    Identities,     \* identity fingerprints
    Identity,       \* the fingerprint each call passes
    MaxRequests,    \* IdentityQuota.max_requests
    MaxTokens,      \* IdentityQuota.max_tokens
    MaxConcurrent,  \* IdentityQuota.max_concurrent
    MaxEstimate,    \* bound: estimated_tokens is in 1..MaxEstimate
    Excess          \* bound: actual_tokens is at most the estimate + Excess

ASSUME MemoryQuotaAssumption ==
    /\ IsFiniteSet(Requests)
    /\ Identity \in [Requests -> Identities]
    /\ {MaxRequests, MaxTokens, MaxConcurrent, MaxEstimate} \subseteq Nat \ {0}
    /\ Excess \in Nat

VARIABLES
    usage,         \* _usage
    reservations,  \* _reservations: the reserved_tokens of each, 0 for none
    pc             \* where each caller is

memoryVars == <<usage, reservations, pc>>

----------------------------------------------------------------------------
Refusals == {"request_limit", "concurrency_limit", "token_limit"}

\* _MutableIdentityUsage()
NoUsage == [requests |-> 0, tokens |-> 0, active |-> 0, reserved_tokens |-> 0]

\* max(0, a - b)
Monus(a, b) == IF a - b \in Nat THEN a - b ELSE 0

Active(i) == {r \in Requests : Identity[r] = i /\ reservations[r] # 0}

Init ==
    /\ usage = [i \in Identities |-> NoUsage]
    /\ reservations = [r \in Requests |-> 0]
    /\ pc = [r \in Requests |-> "idle"]

\* The checks of reserve, in the order of the code.
Verdict(r, estimated_tokens) ==
    LET u == usage[Identity[r]]
    IN  CASE u.requests >= MaxRequests -> "request_limit"
          [] u.active >= MaxConcurrent -> "concurrency_limit"
          [] u.tokens + u.reserved_tokens + estimated_tokens > MaxTokens -> "token_limit"
          [] OTHER -> "granted"

Charged(r, estimated_tokens) ==
    LET u == usage[Identity[r]]
    IN  [requests |-> u.requests + 1,
         tokens |-> u.tokens,
         active |-> u.active + 1,
         reserved_tokens |-> u.reserved_tokens + estimated_tokens]

Reserve(r, estimated_tokens) ==
    /\ pc[r] = "idle"
    /\ Verdict(r, estimated_tokens) = "granted"
    /\ usage' = [usage EXCEPT ![Identity[r]] = Charged(r, estimated_tokens)]
    /\ reservations' = [reservations EXCEPT ![r] = estimated_tokens]
    /\ pc' = [pc EXCEPT ![r] = "holding"]

\* IdentityQuotaExceededError
Refuse(r, estimated_tokens) ==
    /\ pc[r] = "idle"
    /\ Verdict(r, estimated_tokens) # "granted"
    /\ pc' = [pc EXCEPT ![r] = Verdict(r, estimated_tokens)]
    /\ UNCHANGED <<usage, reservations>>

SettledHolding(r, actual_tokens) ==
    LET u == usage[Identity[r]]
    IN  [requests |-> u.requests,
         tokens |-> u.tokens + actual_tokens,
         active |-> u.active,
         reserved_tokens |-> Monus(u.reserved_tokens, reservations[r])]

Settled(r, actual_tokens) ==
    LET u == usage[Identity[r]]
    IN  [requests |-> u.requests,
         tokens |-> u.tokens + actual_tokens,
         active |-> Monus(u.active, 1),
         reserved_tokens |-> Monus(u.reserved_tokens, reservations[r])]

\* settle.  With a reservation that is not, or no longer, stored it raises
\* ValueError and changes nothing.
Settle(r, actual_tokens) ==
    /\ pc[r] \in {"holding", "settled"}
    /\ reservations[r] # 0
    /\ usage' = [usage EXCEPT ![Identity[r]] = Settled(r, actual_tokens)]
    /\ reservations' = [reservations EXCEPT ![r] = 0]
    /\ pc' = [pc EXCEPT ![r] = "settled"]

\* The caller never settles; the process goes on.
Abandon(r) ==
    /\ pc[r] = "holding"
    /\ pc' = [pc EXCEPT ![r] = "vanished"]
    /\ UNCHANGED <<usage, reservations>>

Next ==
    \E r \in Requests :
        \/ \E n \in 1..MaxEstimate : Reserve(r, n) \/ Refuse(r, n)
        \/ \E n \in 0..(reservations[r] + Excess) : Settle(r, n)
        \/ Abandon(r)

Spec == Init /\ [][Next]_memoryVars

----------------------------------------------------------------------------
Granted(i) == {r \in Requests : Identity[r] = i /\ pc[r] \in {"holding", "settled", "vanished"}}

\* The shape of the counters and of the stored reservations.
TypeOK ==
    /\ usage \in [Identities -> [requests : Nat, tokens : Nat, active : Nat,
                                 reserved_tokens : Nat]]
    /\ reservations \in [Requests -> Nat]
    /\ pc \in [Requests -> {"idle", "holding", "settled", "vanished"} \cup Refusals]

\* The counters of an identity count its granted calls and its open reservations,
\* whatever order its calls are granted, refused, settled and forgotten in, and
\* neither exceeds the IdentityQuota: max(0, ...) never hides a lost decrement.
LimitsHold ==
    \A i \in Identities :
        /\ usage[i].requests = Cardinality(Granted(i))
        /\ usage[i].requests <= MaxRequests
        /\ usage[i].active = Cardinality(Active(i))
        /\ usage[i].active <= MaxConcurrent

----------------------------------------------------------------------------
Contract == INSTANCE IdentityQuotaContract WITH
    Amount <- 0..(MaxEstimate + Excess),
    granted <- UNION {Granted(i) : i \in Identities},
    lease <- reservations,
    spent <- [i \in Identities |-> usage[i].tokens]

\* The in-memory manager keeps the same contract as the persistent one: the
\* executor may be given either.
ImplementsContract == Contract!ContractSpec
============================================================================
