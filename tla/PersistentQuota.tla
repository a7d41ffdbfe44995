-------------------------- MODULE PersistentQuota --------------------------
(***************************************************************************)
(* PersistentIdentityQuotaManager (persistent_governance.py): the quota   *)
(* state of one tenant, shared by every process that opens the same        *)
(* database.  Each operation is one transaction of the backend, so it is   *)
(* one action here; what is not atomic is the reading of the wall clock,   *)
(* which reserve and snapshot do before they wait for the transaction.     *)
(* Callers may crash, be cancelled, or settle a second time.               *)
(***************************************************************************)
EXTENDS Naturals, FiniteSets, FiniteSetsExt

CONSTANTS
    Requests,       \* calls of reserve, from any process; a reservation_id each
    Identities,     \* identity fingerprints of the tenant
    Identity,       \* the fingerprint each call passes
    MaxRequests,    \* IdentityQuota.max_requests
    MaxTokens,      \* IdentityQuota.max_tokens
    MaxConcurrent,  \* IdentityQuota.max_concurrent
    TTL,            \* reservation_ttl_seconds
    MaxEstimate,    \* bound: estimated_tokens is in 1..MaxEstimate
    Excess,         \* bound: a provider reports at most the estimate + Excess
    MaxClock        \* bound: the wall clock stops there

ASSUME QuotaAssumption ==
    /\ IsFiniteSet(Requests)
    /\ Identity \in [Requests -> Identities]
    /\ MaxRequests \in Nat \ {0}
    /\ MaxTokens \in Nat \ {0}
    /\ MaxConcurrent \in Nat \ {0}
    /\ TTL \in Nat \ {0}
    /\ MaxEstimate \in Nat \ {0}
    /\ Excess \in Nat
    /\ MaxClock \in Nat

VARIABLES
    clock,        \* wall_clock()
    usage,        \* the usage-<fingerprint> records
    reservation,  \* the reservation-<fingerprint>-<id> records
    pc,           \* where each caller of reserve and settle is
    readAt,       \* "now" in the frame of its reserve
    estimate,     \* the estimated_tokens it passed
    charged       \* history: the actual_tokens of its last accepted settle

callVars == <<pc, readAt, estimate, charged>>
quotaVars == <<clock, usage, reservation, pc, readAt, estimate, charged>>

----------------------------------------------------------------------------
Refusals == {"request_limit", "concurrency_limit", "token_limit"}

\* "holding": reserve returned.  "settled": settle returned.  "lost": settle
\* raised ValueError.  "vanished": the holder never settles (crash, failed settle).
CallStates == {"idle", "reserving", "holding", "settled", "lost", "vanished",
               "failed"} \cup Refusals

\* No record under that key: a stored reservation has at least one token.
Absent == [reserved_tokens |-> 0, expires_at |-> 0]

\* _decode_usage of a missing record.
NoUsage == [requests |-> 0, tokens |-> 0, active |-> 0, reserved_tokens |-> 0]

\* max(0, a - b)
Monus(a, b) == IF a - b \in Nat THEN a - b ELSE 0

Stored(i) == {r \in Requests : Identity[r] = i /\ reservation[r] # Absent}

\* Mutants: expiry judged one tick early; records of every identity reaped.
ExpiredTooEarly(i, now) == {r \in Stored(i) : reservation[r].expires_at <= now + 1}
ExpiredOfAnyone(i, now) ==
    {r \in Requests : reservation[r] # Absent /\ reservation[r].expires_at <= now}

Expired(i, now) == {r \in Stored(i) : reservation[r].expires_at <= now}

ReservedBy(S) == SumFunctionOnSet([r \in Requests |-> reservation[r].reserved_tokens], S)

\* _reap_expired: what the usage becomes when every expired record is deleted.
ReapExpired(i, now) ==
    LET u == usage[i]
        gone == Expired(i, now)
    IN  [requests |-> u.requests,
         tokens |-> u.tokens,
         active |-> Monus(u.active, Cardinality(gone)),
         reserved_tokens |-> Monus(u.reserved_tokens, ReservedBy(gone))]

Without(gone) == [r \in Requests |-> IF r \in gone THEN Absent ELSE reservation[r]]

----------------------------------------------------------------------------
Init ==
    /\ clock = 0
    /\ usage = [i \in Identities |-> NoUsage]
    /\ reservation = [r \in Requests |-> Absent]
    /\ pc = [r \in Requests |-> "idle"]
    /\ readAt = [r \in Requests |-> 0]
    /\ estimate = [r \in Requests |-> 0]
    /\ charged = [r \in Requests |-> 0]

Tick ==
    /\ clock < MaxClock
    /\ clock' = clock + 1
    /\ UNCHANGED <<usage, reservation, callVars>>

\* reserve, up to the first await: the clock is read here, the transaction
\* starts any time later.
CallReserve(r, estimated_tokens) ==
    /\ pc[r] = "idle"
    /\ pc' = [pc EXCEPT ![r] = "reserving"]
    /\ readAt' = [readAt EXCEPT ![r] = clock]
    /\ estimate' = [estimate EXCEPT ![r] = estimated_tokens]
    /\ UNCHANGED <<clock, usage, reservation, charged>>

\* Mutants of the checks: "active" compared with >, the reserved tokens left
\* out, the limits judged before the expired records are reaped.
VerdictOffByOne(r) ==
    LET u == ReapExpired(Identity[r], readAt[r])
    IN  CASE u.requests >= MaxRequests -> "request_limit"
          [] u.active > MaxConcurrent -> "concurrency_limit"
          [] u.tokens + u.reserved_tokens + estimate[r] > MaxTokens -> "token_limit"
          [] OTHER -> "granted"

VerdictIgnoresReserved(r) ==
    LET u == ReapExpired(Identity[r], readAt[r])
    IN  CASE u.requests >= MaxRequests -> "request_limit"
          [] u.active >= MaxConcurrent -> "concurrency_limit"
          [] u.tokens + estimate[r] > MaxTokens -> "token_limit"
          [] OTHER -> "granted"

VerdictBeforeReap(r) ==
    LET u == usage[Identity[r]]
    IN  CASE u.requests >= MaxRequests -> "request_limit"
          [] u.active >= MaxConcurrent -> "concurrency_limit"
          [] u.tokens + u.reserved_tokens + estimate[r] > MaxTokens -> "token_limit"
          [] OTHER -> "granted"

\* The three checks of reserve, in the order of the code; "granted" passes all.
Verdict(r) ==
    LET u == ReapExpired(Identity[r], readAt[r])
    IN  CASE u.requests >= MaxRequests -> "request_limit"
          [] u.active >= MaxConcurrent -> "concurrency_limit"
          [] u.tokens + u.reserved_tokens + estimate[r] > MaxTokens -> "token_limit"
          [] OTHER -> "granted"

AfterGrant(r) ==
    LET u == ReapExpired(Identity[r], readAt[r])
    IN  [requests |-> u.requests + 1,
         tokens |-> u.tokens,
         active |-> u.active + 1,
         reserved_tokens |-> u.reserved_tokens + estimate[r]]

Reserve(r) ==
    LET i == Identity[r]
        record == [reserved_tokens |-> estimate[r], expires_at |-> readAt[r] + TTL]
    IN  /\ pc[r] = "reserving"
        /\ Verdict(r) = "granted"
        /\ usage' = [usage EXCEPT ![i] = AfterGrant(r)]
        /\ reservation' = [Without(Expired(i, readAt[r])) EXCEPT ![r] = record]
        /\ pc' = [pc EXCEPT ![r] = "holding"]
        /\ UNCHANGED <<clock, readAt, estimate, charged>>

\* Mutant: the deletions of _reap_expired survive the refusal.
RefuseWithoutRollback(r) ==
    /\ pc[r] = "reserving"
    /\ Verdict(r) # "granted"
    /\ pc' = [pc EXCEPT ![r] = Verdict(r)]
    /\ reservation' = Without(Expired(Identity[r], readAt[r]))
    /\ UNCHANGED <<clock, usage, readAt, estimate, charged>>

\* IdentityQuotaExceededError leaves the transaction: it rolls back, the
\* deletions of _reap_expired included.
Refuse(r) ==
    /\ pc[r] = "reserving"
    /\ Verdict(r) # "granted"
    /\ pc' = [pc EXCEPT ![r] = Verdict(r)]
    /\ UNCHANGED <<clock, usage, reservation, readAt, estimate, charged>>

\* The backend refuses, or the caller is cancelled: rolled back.
ReserveFails(r) ==
    /\ pc[r] = "reserving"
    /\ pc' = [pc EXCEPT ![r] = "failed"]
    /\ UNCHANGED <<clock, usage, reservation, readAt, estimate, charged>>

AfterSettleUnclamped(r, actual_tokens) ==
    LET u == usage[Identity[r]]
    IN  [requests |-> u.requests,
         tokens |-> u.tokens + actual_tokens,
         active |-> u.active - 2,
         reserved_tokens |-> Monus(u.reserved_tokens, estimate[r])]

AfterSettle(r, actual_tokens) ==
    LET u == usage[Identity[r]]
    IN  [requests |-> u.requests,
         tokens |-> u.tokens + actual_tokens,
         active |-> Monus(u.active, 1),
         reserved_tokens |-> Monus(u.reserved_tokens, estimate[r])]

\* Mutant: a missing record does not stop settle.
SettleReplayed(r, actual_tokens) ==
    /\ pc[r] \in {"holding", "settled"}
    /\ usage' = [usage EXCEPT ![Identity[r]] = AfterSettle(r, actual_tokens)]
    /\ reservation' = Without({r})
    /\ pc' = [pc EXCEPT ![r] = "settled"]
    /\ charged' = [charged EXCEPT ![r] = actual_tokens]
    /\ UNCHANGED <<clock, readAt, estimate>>

\* settle finds its record, expired or not; a settled caller may try again.
Settle(r, actual_tokens) ==
    /\ pc[r] \in {"holding", "settled"}
    /\ reservation[r] # Absent
    /\ usage' = [usage EXCEPT ![Identity[r]] = AfterSettle(r, actual_tokens)]
    /\ reservation' = Without({r})
    /\ pc' = [pc EXCEPT ![r] = "settled"]
    /\ charged' = [charged EXCEPT ![r] = actual_tokens]
    /\ UNCHANGED <<clock, readAt, estimate>>

\* ValueError: the record was reaped while the holder was still working.
SettleUnknown(r) ==
    /\ pc[r] = "holding"
    /\ reservation[r] = Absent
    /\ pc' = [pc EXCEPT ![r] = "lost"]
    /\ UNCHANGED <<clock, usage, reservation, readAt, estimate, charged>>

\* The holder dies, or its settle raises RuntimeError after a rollback.
Vanish(r) ==
    /\ pc[r] = "holding"
    /\ pc' = [pc EXCEPT ![r] = "vanished"]
    /\ UNCHANGED <<clock, usage, reservation, readAt, estimate, charged>>

\* snapshot with a clock value read at any earlier time.
Snapshot(i, now) ==
    /\ usage' = [usage EXCEPT ![i] = ReapExpired(i, now)]
    /\ reservation' = Without(Expired(i, now))
    /\ UNCHANGED <<clock, callVars>>

Next ==
    \/ Tick
    \/ \E r \in Requests :
          \/ \E n \in 1..MaxEstimate : CallReserve(r, n)
          \/ Reserve(r)
          \/ Refuse(r)
          \/ ReserveFails(r)
          \/ \E n \in 0..(estimate[r] + Excess) : Settle(r, n)
          \/ SettleUnknown(r)
          \/ Vanish(r)
    \/ \E i \in Identities, now \in 0..clock : Snapshot(i, now)

Spec == Init /\ [][Next]_quotaVars

----------------------------------------------------------------------------
CallsOf(i, states) == {r \in Requests : Identity[r] = i /\ pc[r] \in states}

\* Where a call can be once its reservation was granted.
Granting == {"holding", "settled", "lost", "vanished"}

Granted(i) == CallsOf(i, Granting)

\* The shape of the stored records and of what callers hold.
TypeOK ==
    /\ clock \in Nat
    /\ usage \in [Identities -> [requests : Nat, tokens : Nat, active : Nat,
                                 reserved_tokens : Nat]]
    /\ reservation \in [Requests -> [reserved_tokens : Nat, expires_at : Nat]]
    /\ pc \in [Requests -> CallStates]
    /\ readAt \in [Requests -> Nat]
    /\ estimate \in [Requests -> Nat]
    /\ charged \in [Requests -> Nat]

\* usage["active"] counts the stored reservation records of the identity, in
\* every state a process may read: no grant, settlement, reaping or crash lets
\* the counter and the records drift apart, so the max(0, ...) of settle and
\* _reap_expired never hides a lost decrement.
ActiveCountsReservations ==
    \A i \in Identities : usage[i].active = Cardinality(Stored(i))

\* usage["reserved_tokens"] is the sum of what the stored records reserve.
ReservedSumsReservations ==
    \A i \in Identities : usage[i].reserved_tokens = ReservedBy(Stored(i))

\* Every granted call is counted in usage["requests"] once and for all (a crash,
\* a failure or an expiry gives no request back), and neither that count nor
\* the number of live records exceeds the IdentityQuota.
LimitsHold ==
    \A i \in Identities :
        /\ usage[i].requests = Cardinality(Granted(i))
        /\ usage[i].requests <= MaxRequests
        /\ Cardinality(Stored(i)) <= MaxConcurrent

\* The token ceiling is exceeded only by what settled calls used beyond their own
\* estimate: reservations never promise the same tokens twice.
TokensWithinEstimates ==
    \A i \in Identities :
        usage[i].tokens + usage[i].reserved_tokens
            <= MaxTokens + Excess * Cardinality(CallsOf(i, {"settled"}))

\* usage["tokens"] is what the settled calls reported, each charged once even
\* when settle is called again with the same reservation.
ChargedOnce ==
    \A i \in Identities :
        usage[i].tokens = SumFunctionOnSet(charged, CallsOf(i, {"settled"}))

\* Tokens are neither promised twice nor lost: what is reserved is what the stored
\* records reserve, what is spent is what each settled call used, once, and
\* together they stay under the ceiling of the IdentityQuota, up to what settled
\* calls used beyond their estimates.
TokensAccounted == ReservedSumsReservations /\ ChargedOnce /\ TokensWithinEstimates

\* A reservation record disappears only when its own caller settles it, or after
\* its expiry has really passed: the clock read before the transaction may be
\* late, but a late clock never reaps a reservation early.
NeverReapedEarly ==
    [][\A r \in Requests :
          reservation[r] # Absent /\ reservation'[r] = Absent =>
              \/ pc'[r] = "settled"
              \/ reservation[r].expires_at <= clock]_quotaVars

\* A call is refused for concurrency only when max_concurrent reservations had
\* not expired at the time the call read: records leaked by crashed holders are
\* discounted before the check, not after it.
RefusalCountsLiveOnly ==
    [][\A r \in Requests :
          pc'[r] = "concurrency_limit" /\ pc[r] # "concurrency_limit" =>
              MaxConcurrent <= Cardinality(Stored(Identity[r])
                                           \ Expired(Identity[r], readAt[r]))]_quotaVars

----------------------------------------------------------------------------
\* The contract this manager implements.
Contract == INSTANCE IdentityQuotaContract WITH
    Amount <- 0..(MaxEstimate + Excess),
    granted <- UNION {Granted(i) : i \in Identities},
    lease <- [r \in Requests |-> reservation[r].reserved_tokens],
    spent <- [i \in Identities |-> usage[i].tokens]

\* Every step of the persistent manager is a step of the contract or changes
\* nothing in it.
ImplementsContract == Contract!ContractSpec
============================================================================
