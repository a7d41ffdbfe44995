--------------------- MODULE GovernedExecution_proofs ----------------------
(*****************************************************************************)
(* The quota of an identity and the production boundary over it, for any     *)
(* number of calls, processes and identities and any limits. The quota       *)
(* manager first: the counters of a usage record agree with the reservation  *)
(* records and with what settled calls used, the limits hold, no reservation *)
(* is reaped before it expires, and the manager keeps its contract. Then the *)
(* boundary, which implements the manager: what is shown of the manager      *)
(* holds of every execution.                                                 *)
(*****************************************************************************)
EXTENDS GovernedExecution, FoldTheorems, SequenceTheorems

-----------------------------------------------------------------------------
(*****************************************************************************)
(* The quota manager (PersistentQuota).                                      *)
(*****************************************************************************)

\* What ties a caller's frame to the database: the clock it read is past, it
\* asks for at least one token, and only a call that was granted and not
\* settled may still own a record, with the tokens it asked for.
CallsMatchRecords ==
    \A r \in Requests :
        /\ readAt[r] <= clock
        /\ pc[r] # "idle" => estimate[r] >= 1
        /\ reservation[r] # Absent =>
              /\ pc[r] \in {"holding", "vanished"}
              /\ reservation[r].reserved_tokens = estimate[r]

IInv == TypeOK /\ CallsMatchRecords /\ ActiveCountsReservations /\ LimitsHold

-----------------------------------------------------------------------------
\* The sets that are counted are finite.
LEMMA CountedSetsFinite ==
    ASSUME NEW i
    PROVE  /\ IsFiniteSet(Stored(i)) /\ Cardinality(Stored(i)) \in Nat
           /\ IsFiniteSet(Granted(i)) /\ Cardinality(Granted(i)) \in Nat
<1>1. Stored(i) \in SUBSET Requests /\ Granted(i) \in SUBSET Requests
  BY DEF Stored, Granted, CallsOf
<1>2. IsFiniteSet(Stored(i)) /\ IsFiniteSet(Granted(i))
  BY <1>1, QuotaAssumption, FS_Subset DEF QuotaAssumption
<1>. QED
  BY <1>2, FS_CardinalityType

\* _reap_expired leaves "active" equal to the number of records it keeps.
LEMMA ReapCounts ==
    ASSUME TypeOK, ActiveCountsReservations, NEW i \in Identities, NEW now
    PROVE  /\ ReapExpired(i, now) \in [requests : Nat, tokens : Nat, active : Nat,
                                       reserved_tokens : Nat]
           /\ ReapExpired(i, now).active = Cardinality(Stored(i) \ Expired(i, now))
           /\ ReapExpired(i, now).requests = usage[i].requests
           /\ IsFiniteSet(Stored(i) \ Expired(i, now))
           /\ Cardinality(Stored(i) \ Expired(i, now)) <= Cardinality(Stored(i))
<1>. DEFINE S == Stored(i)
            E == Expired(i, now)
<1>1. IsFiniteSet(S) /\ Cardinality(S) \in Nat
  BY CountedSetsFinite
<1>2. E \in SUBSET S /\ S \cap E = E
  BY DEF Expired
<1>3. /\ IsFiniteSet(S \ E)
      /\ Cardinality(S \ E) = Cardinality(S) - Cardinality(E)
  BY <1>1, <1>2, FS_Difference
<1>4. IsFiniteSet(E) /\ Cardinality(E) \in Nat /\ Cardinality(S \ E) \in Nat
  BY <1>1, <1>2, <1>3, FS_Subset, FS_CardinalityType
<1>5. usage[i].active = Cardinality(S)
  BY DEF ActiveCountsReservations
<1>6. Monus(usage[i].active, Cardinality(E)) = Cardinality(S \ E)
  BY <1>3, <1>4, <1>5 DEF Monus
<1>7. Monus(usage[i].reserved_tokens, ReservedBy(E)) \in Nat
  BY DEF Monus
<1>8. usage[i] \in [requests : Nat, tokens : Nat, active : Nat, reserved_tokens : Nat]
  BY DEF TypeOK
<1>9. ReapExpired(i, now) = [requests |-> usage[i].requests, tokens |-> usage[i].tokens,
                              active |-> Cardinality(S \ E),
                              reserved_tokens |-> Monus(usage[i].reserved_tokens, ReservedBy(E))]
  BY <1>6 DEF ReapExpired
<1>10. Cardinality(S \ E) <= Cardinality(S)
  BY <1>1, <1>3, <1>4
<1>. QED
  BY <1>3, <1>4, <1>7, <1>8, <1>9, <1>10

-----------------------------------------------------------------------------
\* What a granted call found when its transaction began.
LEMMA GrantedVerdict ==
    ASSUME IInv, NEW r \in Requests, Verdict(r) = "granted"
    PROVE  LET u == ReapExpired(Identity[r], readAt[r])
           IN  u.requests < MaxRequests /\ u.active < MaxConcurrent
<1>. DEFINE u == ReapExpired(Identity[r], readAt[r])
<1>1. u.requests \in Nat /\ u.active \in Nat
  BY ReapCounts, QuotaAssumption DEF IInv, QuotaAssumption
<1>2. ~(u.requests >= MaxRequests) /\ ~(u.active >= MaxConcurrent)
  BY DEF Verdict
<1>. QED
  BY <1>1, <1>2, QuotaAssumption DEF QuotaAssumption

LEMMA TypeStep == IInv /\ [Next]_quotaVars => TypeOK'
<1>. SUFFICES ASSUME IInv, [Next]_quotaVars PROVE TypeOK'
  OBVIOUS
<1>. USE QuotaAssumption DEF IInv, TypeOK, QuotaAssumption, CallStates, Refusals
<1>. DEFINE Usage == [requests : Nat, tokens : Nat, active : Nat, reserved_tokens : Nat]
<1>0. ASSUME NEW i \in Identities, NEW now
      PROVE  ReapExpired(i, now) \in Usage
  BY ReapCounts
<1>1. CASE Tick
  BY <1>1 DEF Tick, callVars
<1>2. ASSUME NEW r \in Requests, NEW n \in 1..MaxEstimate, CallReserve(r, n)
      PROVE  TypeOK'
  <2>1. n \in Nat
    OBVIOUS
  <2>. QED
    BY <1>2, <2>1 DEF CallReserve
<1>3. ASSUME NEW r \in Requests, Reserve(r)
      PROVE  TypeOK'
  <2>1. AfterGrant(r) \in Usage
    BY <1>0 DEF AfterGrant
  <2>2. usage' \in [Identities -> Usage]
    BY <1>3, <2>1 DEF Reserve
  <2>3. Without(Expired(Identity[r], readAt[r]))
           \in [Requests -> [reserved_tokens : Nat, expires_at : Nat]]
    BY DEF Without, Absent
  <2>4. reservation' \in [Requests -> [reserved_tokens : Nat, expires_at : Nat]]
    BY <1>3, <2>3 DEF Reserve
  <2>. QED
    BY <1>3, <2>2, <2>4 DEF Reserve
<1>4. ASSUME NEW r \in Requests, Refuse(r)
      PROVE  TypeOK'
  BY <1>4 DEF Refuse, Verdict
<1>5. ASSUME NEW r \in Requests, ReserveFails(r)
      PROVE  TypeOK'
  BY <1>5 DEF ReserveFails
<1>6. ASSUME NEW r \in Requests, NEW n \in 0..(estimate[r] + Excess), Settle(r, n)
      PROVE  TypeOK'
  <2>1. \A a, b : Monus(a, b) \in Nat
    BY DEF Monus
  <2>2. n \in Nat
    OBVIOUS
  <2>3. AfterSettle(r, n) \in Usage
    BY <2>1, <2>2 DEF AfterSettle
  <2>4. usage' \in [Identities -> Usage]
    BY <1>6, <2>3 DEF Settle
  <2>5. reservation' \in [Requests -> [reserved_tokens : Nat, expires_at : Nat]]
    BY <1>6 DEF Settle, Without, Absent
  <2>6. charged' \in [Requests -> Nat]
    BY <1>6, <2>2 DEF Settle
  <2>. QED
    BY <1>6, <2>4, <2>5, <2>6 DEF Settle
<1>7. ASSUME NEW r \in Requests, SettleUnknown(r)
      PROVE  TypeOK'
  BY <1>7 DEF SettleUnknown
<1>8. ASSUME NEW r \in Requests, Vanish(r)
      PROVE  TypeOK'
  BY <1>8 DEF Vanish
<1>9. ASSUME NEW i \in Identities, NEW now \in 0..clock, Snapshot(i, now)
      PROVE  TypeOK'
  <2>1. usage' \in [Identities -> Usage]
    BY <1>0, <1>9 DEF Snapshot
  <2>. QED
    BY <1>9, <2>1 DEF Snapshot, Without, Absent, callVars
<1>10. CASE UNCHANGED quotaVars
  BY <1>10 DEF quotaVars
<1>. QED
  BY <1>1, <1>2, <1>3, <1>4, <1>5, <1>6, <1>7, <1>8, <1>9, <1>10 DEF Next

-----------------------------------------------------------------------------
LEMMA RecordsStep == IInv /\ [Next]_quotaVars => CallsMatchRecords'
<1>. SUFFICES ASSUME IInv, [Next]_quotaVars PROVE CallsMatchRecords'
  OBVIOUS
<1>. USE DEF IInv, TypeOK, CallsMatchRecords
<1>1. CASE Tick
  BY <1>1 DEF Tick, callVars
<1>2. ASSUME NEW r \in Requests, NEW n \in 1..MaxEstimate, CallReserve(r, n)
      PROVE  CallsMatchRecords'
  <2>1. n \in Nat /\ n >= 1
    BY QuotaAssumption DEF QuotaAssumption
  <2>. QED
    BY <1>2, <2>1 DEF CallReserve
<1>3. ASSUME NEW r \in Requests, Reserve(r)
      PROVE  CallsMatchRecords'
  <2>1. estimate[r] >= 1 /\ estimate' = estimate /\ readAt' = readAt /\ clock' = clock
    BY <1>3 DEF Reserve
  <2>2. pc' = [pc EXCEPT ![r] = "holding"]
    BY <1>3 DEF Reserve
  <2>3. reservation' = [Without(Expired(Identity[r], readAt[r])) EXCEPT ![r] =
            [reserved_tokens |-> estimate[r], expires_at |-> readAt[r] + TTL]]
    BY <1>3 DEF Reserve
  <2>4. \A q \in Requests : q # r =>
            reservation'[q] = reservation[q] \/ reservation'[q] = Absent
    BY <2>3 DEF Without
  <2>5. reservation'[r].reserved_tokens = estimate[r]
    BY <2>3 DEF Without
  <2>6. ASSUME NEW q \in Requests, reservation'[q] # Absent
        PROVE  /\ pc'[q] \in {"holding", "vanished"}
               /\ reservation'[q].reserved_tokens = estimate'[q]
    BY <2>1, <2>2, <2>4, <2>5, <2>6
  <2>. QED
    BY <2>1, <2>2, <2>6
<1>4. ASSUME NEW r \in Requests, Refuse(r)
      PROVE  CallsMatchRecords'
  BY <1>4 DEF Refuse
<1>5. ASSUME NEW r \in Requests, ReserveFails(r)
      PROVE  CallsMatchRecords'
  BY <1>5 DEF ReserveFails
<1>6. ASSUME NEW r \in Requests, NEW n \in 0..(estimate[r] + Excess), Settle(r, n)
      PROVE  CallsMatchRecords'
  BY <1>6 DEF Settle, Without
<1>7. ASSUME NEW r \in Requests, SettleUnknown(r)
      PROVE  CallsMatchRecords'
  BY <1>7 DEF SettleUnknown
<1>8. ASSUME NEW r \in Requests, Vanish(r)
      PROVE  CallsMatchRecords'
  BY <1>8 DEF Vanish
<1>9. ASSUME NEW i \in Identities, NEW now \in 0..clock, Snapshot(i, now)
      PROVE  CallsMatchRecords'
  BY <1>9 DEF Snapshot, Without, callVars
<1>10. CASE UNCHANGED quotaVars
  BY <1>10 DEF quotaVars
<1>. QED
  BY <1>1, <1>2, <1>3, <1>4, <1>5, <1>6, <1>7, <1>8, <1>9, <1>10 DEF Next

-----------------------------------------------------------------------------
\* How each transaction that writes changes the records of every identity.
LEMMA ReserveStores ==
    ASSUME IInv, NEW r \in Requests, Reserve(r), NEW j \in Identities
    PROVE  /\ Stored(j)' = IF j = Identity[r]
                             THEN (Stored(j) \ Expired(j, readAt[r])) \cup {r}
                             ELSE Stored(j)
           /\ Granted(j)' = IF j = Identity[r] THEN Granted(j) \cup {r} ELSE Granted(j)
           /\ r \notin Stored(j) /\ r \notin Granted(j)
<1>. USE DEF IInv, TypeOK, CallsMatchRecords
<1>1. estimate[r] >= 1 /\ estimate[r] \in Nat /\ pc[r] = "reserving"
  BY DEF Reserve
<1>2. reservation' = [Without(Expired(Identity[r], readAt[r])) EXCEPT ![r] =
            [reserved_tokens |-> estimate[r], expires_at |-> readAt[r] + TTL]]
  BY DEF Reserve
<1>3. reservation'[r] # Absent
  BY <1>1, <1>2 DEF Without, Absent
<1>4. \A q \in Requests \ {r} : reservation'[q] =
          IF q \in Expired(Identity[r], readAt[r]) THEN Absent ELSE reservation[q]
  BY <1>2 DEF Without
<1>5. r \notin Stored(j)
  BY <1>1 DEF Stored
<1>6. ASSUME j = Identity[r]
      PROVE  Stored(j)' = (Stored(j) \ Expired(j, readAt[r])) \cup {r}
  BY <1>3, <1>4, <1>6 DEF Stored, Expired
<1>7. ASSUME j # Identity[r]
      PROVE  Stored(j)' = Stored(j)
  BY <1>4, <1>7 DEF Stored, Expired
<1>8. Stored(j)' = IF j = Identity[r]
                      THEN (Stored(j) \ Expired(j, readAt[r])) \cup {r}
                      ELSE Stored(j)
  BY <1>6, <1>7
<1>9. pc' = [pc EXCEPT ![r] = "holding"]
  BY DEF Reserve
<1>10. /\ Granted(j)' = IF j = Identity[r] THEN Granted(j) \cup {r} ELSE Granted(j)
       /\ r \notin Granted(j)
  BY <1>1, <1>9 DEF Granted, Granting, CallsOf
<1>. QED
  BY <1>5, <1>8, <1>10

LEMMA SettleStores ==
    ASSUME IInv, NEW r \in Requests, NEW n, Settle(r, n), NEW j \in Identities
    PROVE  /\ Stored(j)' = Stored(j) \ {r}
           /\ r \in Stored(Identity[r])
           /\ Granted(j)' = Granted(j)
<1>. USE DEF IInv, TypeOK, Settle
<1>1. Stored(j)' = Stored(j) \ {r} /\ r \in Stored(Identity[r])
  BY DEF Stored, Without
<1>2. Granted(j)' = Granted(j)
  BY DEF Granted, Granting, CallsOf
<1>. QED
  BY <1>1, <1>2

LEMMA SnapshotStores ==
    ASSUME NEW i \in Identities, NEW now, Snapshot(i, now), NEW j \in Identities
    PROVE  /\ Stored(j)' = IF j = i THEN Stored(j) \ Expired(j, now) ELSE Stored(j)
           /\ Granted(j)' = Granted(j)
<1>1. \A q \in Requests :
          reservation'[q] = IF q \in Expired(i, now) THEN Absent ELSE reservation[q]
  BY DEF Snapshot, Without
<1>2. Stored(j)' = IF j = i THEN Stored(j) \ Expired(j, now) ELSE Stored(j)
  BY <1>1 DEF Stored, Expired
<1>3. Granted(j)' = Granted(j)
  BY DEF Snapshot, callVars, Granted, CallsOf
<1>. QED
  BY <1>2, <1>3

-----------------------------------------------------------------------------
LEMMA CountStep == IInv /\ [Next]_quotaVars => (ActiveCountsReservations /\ LimitsHold)'
<1>. SUFFICES ASSUME IInv, [Next]_quotaVars, NEW j \in Identities
              PROVE  /\ usage'[j].active = Cardinality(Stored(j)')
                     /\ usage'[j].requests = Cardinality(Granted(j)')
                     /\ usage'[j].requests <= MaxRequests
                     /\ Cardinality(Stored(j)') <= MaxConcurrent
  BY DEF ActiveCountsReservations, LimitsHold
<1>. DEFINE Goal == /\ usage'[j].active = Cardinality(Stored(j)')
                    /\ usage'[j].requests = Cardinality(Granted(j)')
                    /\ usage'[j].requests <= MaxRequests
                    /\ Cardinality(Stored(j)') <= MaxConcurrent
<1>0. /\ TypeOK
      /\ usage[j].active = Cardinality(Stored(j))
      /\ usage[j].requests = Cardinality(Granted(j))
      /\ usage[j].requests <= MaxRequests
      /\ Cardinality(Stored(j)) <= MaxConcurrent
      /\ Cardinality(Stored(j)) \in Nat /\ Cardinality(Granted(j)) \in Nat
      /\ IsFiniteSet(Stored(j)) /\ IsFiniteSet(Granted(j))
  BY CountedSetsFinite DEF IInv, ActiveCountsReservations, LimitsHold
<1>1. ASSUME usage' = usage, Stored(j)' = Stored(j), Granted(j)' = Granted(j)
      PROVE  Goal
  BY <1>0, <1>1
<1>2. ASSUME NEW r \in Requests, Reserve(r)
      PROVE  Goal
  <2>. DEFINE S == Stored(j) \ Expired(j, readAt[r])
              u == ReapExpired(j, readAt[r])
  <2>1. CASE j # Identity[r]
    <3>1. Stored(j)' = Stored(j) /\ Granted(j)' = Granted(j)
      BY <1>2, <2>1, ReserveStores
    <3>2. usage'[j] = usage[j]
      BY <1>0, <1>2, <2>1 DEF Reserve, TypeOK
    <3>. QED
      BY <1>0, <3>1, <3>2
  <2>2. CASE j = Identity[r]
    <3>1. u.active = Cardinality(S) /\ u.requests = usage[j].requests /\ IsFiniteSet(S)
      BY <1>0, ReapCounts DEF IInv
    <3>2. u.requests < MaxRequests /\ u.active < MaxConcurrent
      BY <1>2, <2>2, GrantedVerdict DEF Reserve
    <3>3. /\ Stored(j)' = S \cup {r} /\ r \notin S
          /\ Granted(j)' = Granted(j) \cup {r} /\ r \notin Granted(j)
      BY <1>2, <2>2, ReserveStores
    <3>4. /\ Cardinality(Stored(j)') = Cardinality(S) + 1
          /\ Cardinality(Granted(j)') = Cardinality(Granted(j)) + 1
      <4>1. Cardinality(S \cup {r}) = Cardinality(S) + 1
        BY <3>1, <3>3, FS_AddElement
      <4>2. Cardinality(Granted(j) \cup {r}) = Cardinality(Granted(j)) + 1
        BY <1>0, <3>3, FS_AddElement
      <4>. QED
        BY <3>3, <4>1, <4>2
    <3>5. usage'[j] = AfterGrant(r)
      BY <1>0, <1>2, <2>2 DEF Reserve, TypeOK
    <3>6. usage'[j].active = u.active + 1 /\ usage'[j].requests = u.requests + 1
      BY <2>2, <3>5 DEF AfterGrant
    <3>7. Cardinality(S) \in Nat
      BY <3>1, FS_CardinalityType
    <3>. QED
      BY <1>0, <3>1, <3>2, <3>4, <3>6, <3>7, QuotaAssumption DEF QuotaAssumption
  <2>. QED
    BY <2>1, <2>2
<1>3. ASSUME NEW r \in Requests, NEW n, Settle(r, n)
      PROVE  Goal
  <2>0. /\ Stored(j)' = Stored(j) \ {r} /\ Granted(j)' = Granted(j)
        /\ r \in Stored(Identity[r])
    BY <1>3, SettleStores
  <2>1. CASE j # Identity[r]
    <3>1. r \notin Stored(j) /\ usage'[j] = usage[j]
      BY <1>0, <1>3, <2>1 DEF Stored, Settle, TypeOK
    <3>. QED
      BY <1>0, <2>0, <3>1
  <2>2. CASE j = Identity[r]
    <3>1. Cardinality(Stored(j)') = Cardinality(Stored(j)) - 1
      BY <1>0, <2>0, <2>2, FS_RemoveElement
    <3>2. Cardinality(Stored(j)') \in Nat
      BY <1>0, <2>0, FS_RemoveElement, FS_CardinalityType
    <3>3. usage'[j] = AfterSettle(r, n)
      BY <1>0, <1>3, <2>2 DEF Settle, TypeOK
    <3>4. usage'[j].active = Monus(usage[j].active, 1) /\ usage'[j].requests = usage[j].requests
      BY <2>2, <3>3 DEF AfterSettle
    <3>. QED
      BY <1>0, <2>0, <3>1, <3>2, <3>4, QuotaAssumption DEF Monus, QuotaAssumption
  <2>. QED
    BY <2>1, <2>2
<1>4. ASSUME NEW i \in Identities, NEW now, Snapshot(i, now)
      PROVE  Goal
  <2>0. Granted(j)' = Granted(j)
    BY <1>4, SnapshotStores
  <2>1. CASE j # i
    BY <1>0, <1>4, <2>0, <2>1, SnapshotStores DEF Snapshot, TypeOK
  <2>2. CASE j = i
    <3>1. usage'[j] = ReapExpired(j, now) /\ Stored(j)' = Stored(j) \ Expired(j, now)
      BY <1>0, <1>4, <2>2, SnapshotStores DEF Snapshot, TypeOK
    <3>2. /\ usage'[j].active = Cardinality(Stored(j)')
          /\ usage'[j].requests = usage[j].requests
          /\ Cardinality(Stored(j)') <= Cardinality(Stored(j))
          /\ Cardinality(Stored(j)') \in Nat
      BY <3>1, ReapCounts, FS_CardinalityType DEF IInv
    <3>. QED
      BY <1>0, <2>0, <3>2, QuotaAssumption DEF QuotaAssumption
  <2>. QED
    BY <2>1, <2>2
<1>5. ASSUME UNCHANGED <<usage, reservation>>,
             \A q \in Requests : pc'[q] \in Granting <=> pc[q] \in Granting
      PROVE  Goal
  <2>1. Stored(j)' = Stored(j)
    BY <1>5 DEF Stored
  <2>2. Granted(j)' = Granted(j)
    BY <1>5 DEF Granted, CallsOf
  <2>. QED
    BY <1>1, <1>5, <2>1, <2>2
<1>6. ASSUME Tick
      PROVE  Goal
  BY <1>5, <1>6 DEF Tick, callVars
<1>7. ASSUME NEW r \in Requests, NEW n \in 1..MaxEstimate, CallReserve(r, n)
      PROVE  Goal
  BY <1>0, <1>5, <1>7 DEF CallReserve, Granting, TypeOK
<1>8. ASSUME NEW r \in Requests, Refuse(r)
      PROVE  Goal
  <2>1. Verdict(r) \notin Granting /\ pc[r] \notin Granting
    BY <1>8 DEF Refuse, Verdict, Granting
  <2>. QED
    BY <1>0, <1>5, <1>8, <2>1 DEF Refuse, TypeOK
<1>9. ASSUME NEW r \in Requests, ReserveFails(r)
      PROVE  Goal
  BY <1>0, <1>5, <1>9 DEF ReserveFails, Granting, TypeOK
<1>10. ASSUME NEW r \in Requests, SettleUnknown(r)
       PROVE  Goal
  BY <1>0, <1>5, <1>10 DEF SettleUnknown, Granting, TypeOK
<1>11. ASSUME NEW r \in Requests, Vanish(r)
       PROVE  Goal
  BY <1>0, <1>5, <1>11 DEF Vanish, Granting, TypeOK
<1>12. ASSUME UNCHANGED quotaVars
       PROVE  Goal
  BY <1>5, <1>12 DEF quotaVars
<1>13. Next => Goal
  <2>. HIDE DEF Goal
  <2>1. (\E r \in Requests : \E n \in 0..(estimate[r] + Excess) : Settle(r, n)) => Goal
    BY <1>3
  <2>2. (\E i \in Identities, now \in 0..clock : Snapshot(i, now)) => Goal
    BY <1>4
  <2>. QED
    BY <1>2, <1>6, <1>7, <1>8, <1>9, <1>10, <1>11, <2>1, <2>2 DEF Next
<1>. QED
  BY <1>12, <1>13

-----------------------------------------------------------------------------
LEMMA InitIInv == Init => IInv
<1>. SUFFICES ASSUME Init PROVE IInv
  OBVIOUS
<1>1. TypeOK /\ CallsMatchRecords
  BY DEF Init, TypeOK, CallsMatchRecords, CallStates, NoUsage, Absent
<1>2. ASSUME NEW i \in Identities
      PROVE  /\ Stored(i) = {} /\ Granted(i) = {}
             /\ usage[i].active = 0 /\ usage[i].requests = 0
  BY DEF Init, Stored, Granted, Granting, CallsOf, NoUsage
<1>3. Cardinality({}) = 0
  BY FS_EmptySet
<1>4. 0 <= MaxRequests /\ 0 <= MaxConcurrent
  BY QuotaAssumption DEF QuotaAssumption
<1>5. ActiveCountsReservations
  BY <1>2, <1>3 DEF ActiveCountsReservations
<1>6. LimitsHold
  BY <1>2, <1>3, <1>4 DEF LimitsHold
<1>. QED
  BY <1>1, <1>5, <1>6 DEF IInv

\* Everything the proofs rest on is an invariant of the manager.
THEOREM InductiveInvariant == Spec => []IInv
<1>1. IInv /\ [Next]_quotaVars => IInv'
  BY TypeStep, RecordsStep, CountStep DEF IInv
<1>. QED
  BY <1>1, InitIInv, PTL DEF Spec

\* Stored records and callers' frames keep their types (TypeOK).
THEOREM TypeCorrect == Spec => []TypeOK
BY InductiveInvariant, PTL DEF IInv

\* For any number of processes, calls and crashes, "active" is the number of
\* reservation records: the slot counter shared through the database can
\* neither leak nor be released twice.
THEOREM ActiveCorrect == Spec => []ActiveCountsReservations
BY InductiveInvariant, PTL DEF IInv

\* For any IdentityQuota, no identity is granted more than max_requests calls,
\* and no more than max_concurrent of them hold a record at once.
THEOREM LimitsCorrect == Spec => []LimitsHold
BY InductiveInvariant, PTL DEF IInv

\* Whatever the delay between reading the clock and reaping, a record that its
\* caller did not settle only disappears once it has expired.
THEOREM ReapingCorrect == Spec => NeverReapedEarly
<1>1. IInv /\ [Next]_quotaVars =>
        [\A r \in Requests :
            reservation[r] # Absent /\ reservation'[r] = Absent =>
                \/ pc'[r] = "settled"
                \/ reservation[r].expires_at <= clock]_quotaVars
  <2>. SUFFICES ASSUME IInv, Next, NEW q \in Requests,
                       reservation[q] # Absent, reservation'[q] = Absent
                PROVE  pc'[q] = "settled" \/ reservation[q].expires_at <= clock
    OBVIOUS
  <2>. USE DEF IInv, TypeOK
  <2>1. ASSUME NEW r \in Requests, Reserve(r)
        PROVE  reservation[q].expires_at <= clock
    <3>1. q \in Expired(Identity[r], readAt[r])
      BY <2>1 DEF Reserve, Without, Absent, CallsMatchRecords
    <3>2. reservation[q].expires_at <= readAt[r] /\ readAt[r] <= clock
      BY <3>1 DEF Expired, CallsMatchRecords
    <3>. QED
      BY <3>2
  <2>2. ASSUME NEW r \in Requests, NEW n, Settle(r, n)
        PROVE  pc'[q] = "settled"
    BY <2>2 DEF Settle, Without
  <2>3. ASSUME NEW i \in Identities, NEW now \in 0..clock, Snapshot(i, now)
        PROVE  reservation[q].expires_at <= clock
    BY <2>3 DEF Snapshot, Without, Expired
  <2>4. UNCHANGED reservation => FALSE
    OBVIOUS
  <2>. QED
    BY <2>1, <2>2, <2>3, <2>4
    DEF Next, Tick, CallReserve, Refuse, ReserveFails, SettleUnknown, Vanish
<1>. QED
  BY <1>1, InductiveInvariant, PTL DEF Spec, NeverReapedEarly

-----------------------------------------------------------------------------
\* What the token counters of identity j must be.
Settled(j) == CallsOf(j, {"settled"})

AccountHolds(j) ==
    /\ usage[j].reserved_tokens = ReservedBy(Stored(j))
    /\ usage[j].tokens = SumFunctionOnSet(charged, Settled(j))
    /\ usage[j].tokens + usage[j].reserved_tokens
          <= MaxTokens + Excess * Cardinality(Settled(j))

\* What the records of S reserve after a step.
ReservedAfter(S) ==
    SumFunctionOnSet([r \in Requests |-> reservation'[r].reserved_tokens], S)

LEMMA AccountsAreTokens == TokensAccounted <=> \A j \in Identities : AccountHolds(j)
BY DEF TokensAccounted, ReservedSumsReservations, ChargedOnce, TokensWithinEstimates,
       AccountHolds, Settled

\* The reserved tokens of any records are a sum of natural numbers.
LEMMA ReservedIsNatural ==
    ASSUME TypeOK, NEW S \in SUBSET Requests
    PROVE  IsFiniteSet(S) /\ ReservedBy(S) \in Nat
<1>. DEFINE f == [r \in Requests |-> reservation[r].reserved_tokens]
<1>1. IsFiniteSet(S)
  BY QuotaAssumption, FS_Subset DEF QuotaAssumption
<1>2. \A r \in S : f[r] \in Nat
  BY DEF TypeOK
<1>. HIDE DEF f
<1>3. SumFunctionOnSet(f, S) \in Nat
  BY <1>1, <1>2, SumType
<1>. QED
  BY <1>1, <1>3 DEF ReservedBy, f

\* Records that a step leaves alone reserve what they did.
LEMMA ReservedStays ==
    ASSUME TypeOK, NEW S \in SUBSET Requests, \A r \in S : reservation'[r] = reservation[r]
    PROVE  ReservedAfter(S) = ReservedBy(S)
<1>. DEFINE f == [r \in Requests |-> reservation[r].reserved_tokens]
            g == [r \in Requests |-> reservation'[r].reserved_tokens]
<1>1. IsFiniteSet(S)
  BY ReservedIsNatural
<1>2. \A r \in S : f[r] \in Nat /\ g[r] = f[r]
  BY DEF TypeOK
<1>. HIDE DEF f, g
<1>3. SumFunctionOnSet(g, S) = SumFunctionOnSet(f, S)
  BY <1>1, <1>2, SumAgrees
<1>. QED
  BY <1>3 DEF ReservedBy, ReservedAfter, f, g

\* Deleting a part of the records leaves what the others reserve.
LEMMA ReservedSplits ==
    ASSUME TypeOK, NEW S \in SUBSET Requests, NEW T \in SUBSET S
    PROVE  ReservedBy(S) = ReservedBy(T) + ReservedBy(S \ T)
<1>. DEFINE f == [r \in Requests |-> reservation[r].reserved_tokens]
<1>1. IsFiniteSet(S)
  BY ReservedIsNatural
<1>2. \A r \in S : f[r] \in Nat
  BY DEF TypeOK
<1>. HIDE DEF f
<1>3. SumFunctionOnSet(f, S) = SumFunctionOnSet(f, T) + SumFunctionOnSet(f, S \ T)
  BY <1>1, <1>2, SumSplits
<1>. QED
  BY <1>3 DEF ReservedBy, f

\* A record that a transaction stores adds what it reserves.
LEMMA ReservedOfOneMore ==
    ASSUME TypeOK, TypeOK', NEW S \in SUBSET Requests, NEW r \in Requests \ S,
           \A q \in S : reservation'[q] = reservation[q]
    PROVE  ReservedAfter(S \cup {r}) = reservation'[r].reserved_tokens + ReservedBy(S)
<1>. DEFINE g == [q \in Requests |-> reservation'[q].reserved_tokens]
<1>1. IsFiniteSet(S) /\ ReservedAfter(S) = ReservedBy(S)
  BY ReservedIsNatural, ReservedStays
<1>2. \A q \in S \cup {r} : g[q] \in Nat
  BY DEF TypeOK
<1>3. g[r] = reservation'[r].reserved_tokens
  OBVIOUS
<1>. HIDE DEF g
<1>4. SumFunctionOnSet(g, S \cup {r}) = g[r] + SumFunctionOnSet(g, S)
  BY <1>1, <1>2, SumOfOneMore
<1>. QED
  BY <1>1, <1>3, <1>4 DEF ReservedAfter, g

\* _reap_expired leaves "reserved_tokens" equal to what the records it keeps reserve.
LEMMA ReapTokens ==
    ASSUME TypeOK, NEW i \in Identities, AccountHolds(i), NEW now
    PROVE  LET u == ReapExpired(i, now)
           IN  /\ u.tokens = usage[i].tokens
               /\ u.reserved_tokens = ReservedBy(Stored(i) \ Expired(i, now))
               /\ u.reserved_tokens \in Nat
               /\ u.reserved_tokens <= usage[i].reserved_tokens
<1>. DEFINE S == Stored(i)
            E == Expired(i, now)
<1>1. S \in SUBSET Requests /\ E \in SUBSET S
  BY DEF Stored, Expired
<1>2. ReservedBy(S) = ReservedBy(E) + ReservedBy(S \ E)
  BY <1>1, ReservedSplits
<1>3. ReservedBy(E) \in Nat /\ ReservedBy(S \ E) \in Nat
  BY <1>1, ReservedIsNatural
<1>4. usage[i].reserved_tokens = ReservedBy(S)
  BY DEF AccountHolds
<1>5. Monus(usage[i].reserved_tokens, ReservedBy(E)) = ReservedBy(S \ E)
  BY <1>2, <1>3, <1>4 DEF Monus
<1>6. ReapExpired(i, now).tokens = usage[i].tokens
  BY DEF ReapExpired
<1>7. ReapExpired(i, now).reserved_tokens = ReservedBy(S \ E)
  BY <1>5 DEF ReapExpired
<1>8. ReservedBy(S \ E) <= usage[i].reserved_tokens
  BY <1>2, <1>3, <1>4
<1>. QED
  BY <1>3, <1>6, <1>7, <1>8

\* The settled calls of an identity are finitely many; what may go over grows with them.
LEMMA SettledCounted ==
    ASSUME NEW j
    PROVE  /\ Settled(j) \in SUBSET Requests
           /\ IsFiniteSet(Settled(j))
           /\ Cardinality(Settled(j)) \in Nat
           /\ Excess * Cardinality(Settled(j)) \in Nat
<1>1. Settled(j) \in SUBSET Requests
  BY DEF Settled, CallsOf
<1>2. IsFiniteSet(Settled(j))
  BY <1>1, QuotaAssumption, FS_Subset DEF QuotaAssumption
<1>3. Cardinality(Settled(j)) \in Nat
  BY <1>2, FS_CardinalityType
<1>. QED
  BY <1>1, <1>2, <1>3, QuotaAssumption DEF QuotaAssumption

\* An identity whose usage, records and settled calls a step leaves alone.
LEMMA AccountStays ==
    ASSUME IInv, NEW j \in Identities, AccountHolds(j), usage'[j] = usage[j],
           Stored(j)' = Stored(j), Settled(j)' = Settled(j),
           \A r \in Stored(j) : reservation'[r] = reservation[r],
           \A r \in Settled(j) : charged'[r] = charged[r]
    PROVE  AccountHolds(j)'
<1>1. ReservedBy(Stored(j))' = ReservedBy(Stored(j))
  <2>1. Stored(j) \in SUBSET Requests
    BY DEF Stored
  <2>2. ReservedAfter(Stored(j)) = ReservedBy(Stored(j))
    BY <2>1, ReservedStays DEF IInv
  <2>. QED
    BY <2>2 DEF ReservedBy, ReservedAfter
<1>2. SumFunctionOnSet(charged', Settled(j)) = SumFunctionOnSet(charged, Settled(j))
  <2>1. \A r \in Settled(j) : charged[r] \in Nat /\ charged'[r] = charged[r]
    BY SettledCounted DEF IInv, TypeOK
  <2>. QED
    BY <2>1, SettledCounted, SumAgrees
<1>. QED
  BY <1>1, <1>2 DEF AccountHolds

LEMMA ReserveAccounts ==
    ASSUME IInv, TypeOK', TokensAccounted, NEW r \in Requests, Reserve(r), NEW j \in Identities
    PROVE  AccountHolds(j)'
<1>. USE DEF IInv
<1>0. AccountHolds(j) /\ Settled(j)' = Settled(j) /\ charged' = charged
  BY AccountsAreTokens DEF Reserve, Settled, CallsOf, TypeOK
<1>. DEFINE S == Stored(j) \ Expired(j, readAt[r])
            u == ReapExpired(j, readAt[r])
<1>1. CASE j # Identity[r]
  <2>1. Stored(j)' = Stored(j) /\ r \notin Stored(j)
    BY <1>1, ReserveStores
  <2>2. usage'[j] = usage[j]
    BY <1>1 DEF Reserve, TypeOK
  <2>3. \A q \in Stored(j) : reservation'[q] = reservation[q]
    BY <1>1, <2>1 DEF Reserve, Without, Stored, Expired
  <2>. QED
    BY <1>0, <2>1, <2>2, <2>3, AccountStays
<1>2. CASE j = Identity[r]
  <2>1. Stored(j)' = S \cup {r} /\ r \in Requests \ S /\ S \in SUBSET Requests
    BY <1>2, ReserveStores DEF Stored
  <2>2. /\ u.tokens = usage[j].tokens /\ u.tokens \in Nat
        /\ u.reserved_tokens = ReservedBy(S) /\ u.reserved_tokens \in Nat
    BY <1>0, ReapTokens DEF TypeOK
  <2>3. \A q \in S : reservation'[q] = reservation[q]
    BY <1>2, <2>1 DEF Reserve, Without
  <2>4. reservation'[r].reserved_tokens = estimate[r] /\ estimate[r] \in Nat
    BY DEF Reserve, Without, TypeOK
  <2>5. ReservedAfter(S \cup {r}) = estimate[r] + ReservedBy(S)
    BY <2>1, <2>3, <2>4, ReservedOfOneMore
  <2>6. ReservedBy(Stored(j))' = estimate[r] + ReservedBy(S)
    BY <2>1, <2>5 DEF ReservedBy, ReservedAfter
  <2>7. usage'[j] = AfterGrant(r)
    BY <1>2 DEF Reserve, TypeOK
  <2>8. /\ usage'[j].tokens = u.tokens
        /\ usage'[j].reserved_tokens = u.reserved_tokens + estimate[r]
    BY <1>2, <2>7 DEF AfterGrant
  <2>9. u.tokens + u.reserved_tokens + estimate[r] <= MaxTokens
    <3>1. ~(u.tokens + u.reserved_tokens + estimate[r] > MaxTokens)
      BY <1>2 DEF Reserve, Verdict
    <3>. QED
      BY <2>2, <2>4, <3>1, QuotaAssumption DEF QuotaAssumption
  <2>. HIDE DEF S, u
  <2>10. usage'[j].reserved_tokens = ReservedBy(Stored(j))'
    BY <2>2, <2>4, <2>6, <2>8
  <2>11. usage'[j].tokens + usage'[j].reserved_tokens
            <= MaxTokens + Excess * Cardinality(Settled(j))
    BY <2>2, <2>4, <2>8, <2>9, SettledCounted, QuotaAssumption DEF QuotaAssumption
  <2>. QED
    BY <1>0, <2>2, <2>8, <2>10, <2>11 DEF AccountHolds
<1>. QED
  BY <1>1, <1>2

LEMMA SettleAccounts ==
    ASSUME IInv, TypeOK', TokensAccounted, NEW r \in Requests,
           NEW n \in 0..(estimate[r] + Excess), Settle(r, n), NEW j \in Identities
    PROVE  AccountHolds(j)'
<1>. USE DEF IInv
<1>0. AccountHolds(j) /\ n \in Nat /\ n <= estimate[r] + Excess
      /\ estimate[r] \in Nat /\ Excess \in Nat /\ MaxTokens \in Nat
  BY AccountsAreTokens, QuotaAssumption DEF QuotaAssumption, TypeOK
<1>1. Stored(j)' = Stored(j) \ {r} /\ Stored(j) \in SUBSET Requests
  BY SettleStores DEF Stored
<1>2. \A q \in Stored(j) \ {r} : reservation'[q] = reservation[q]
  BY DEF Settle, Without, Stored
<1>3. ReservedBy(Stored(j))' = ReservedBy(Stored(j) \ {r})
  <2>1. ReservedAfter(Stored(j) \ {r}) = ReservedBy(Stored(j) \ {r})
    BY <1>1, <1>2, ReservedStays
  <2>. QED
    BY <1>1, <2>1 DEF ReservedBy, ReservedAfter
<1>4. CASE j # Identity[r]
  <2>1. r \notin Stored(j) /\ usage'[j] = usage[j]
    BY <1>4 DEF Stored, Settle, TypeOK
  <2>2. Settled(j)' = Settled(j) /\ r \notin Settled(j)
    BY <1>4 DEF Settled, CallsOf, Settle, TypeOK
  <2>3. \A q \in Settled(j) : charged'[q] = charged[q]
    BY <2>2, SettledCounted DEF Settle, TypeOK
  <2>4. Stored(j)' = Stored(j)
    BY <1>1, <2>1
  <2>. QED
    BY <1>0, <1>2, <2>1, <2>2, <2>3, <2>4, AccountStays
<1>5. CASE j = Identity[r]
  <2>1. r \in Stored(j)
    BY <1>5, SettleStores
  <2>2. pc[r] \in {"holding", "vanished"} /\ reservation[r].reserved_tokens = estimate[r]
    BY DEF CallsMatchRecords, Settle
  <2>3. ReservedBy(Stored(j)) = estimate[r] + ReservedBy(Stored(j) \ {r})
    <3>1. ReservedBy(Stored(j)) = ReservedBy({r}) + ReservedBy(Stored(j) \ {r})
      BY <1>1, <2>1, ReservedSplits
    <3>. DEFINE f == [q \in Requests |-> reservation[q].reserved_tokens]
    <3>2. \A q \in {} \cup {r} : f[q] \in Nat
      BY <1>0, <2>2
    <3>3. f[r] = estimate[r]
      BY <2>2
    <3>. HIDE DEF f
    <3>4. SumFunctionOnSet(f, {} \cup {r}) = f[r] + SumFunctionOnSet(f, {})
      BY <3>2, SumOfOneMore, FS_EmptySet
    <3>5. SumFunctionOnSet(f, {r}) = f[r] + 0
      BY <3>4, SumOfNone
    <3>6. ReservedBy({r}) = estimate[r]
      BY <1>0, <3>3, <3>5 DEF ReservedBy, f
    <3>. QED
      BY <3>1, <3>6
  <2>4. ReservedBy(Stored(j) \ {r}) \in Nat
    BY <1>1, ReservedIsNatural
  <2>5. usage'[j] = AfterSettle(r, n)
    BY <1>5 DEF Settle, TypeOK
  <2>6. /\ usage'[j].tokens = usage[j].tokens + n
        /\ usage'[j].reserved_tokens = Monus(usage[j].reserved_tokens, estimate[r])
    BY <1>5, <2>5 DEF AfterSettle
  <2>7. /\ usage[j].reserved_tokens = ReservedBy(Stored(j))
        /\ usage[j].tokens = SumFunctionOnSet(charged, Settled(j))
        /\ usage[j].tokens \in Nat
        /\ usage[j].tokens + usage[j].reserved_tokens
              <= MaxTokens + Excess * Cardinality(Settled(j))
    BY <1>0 DEF AccountHolds, TypeOK
  <2>8. usage'[j].reserved_tokens = ReservedBy(Stored(j) \ {r})
    BY <1>0, <2>3, <2>4, <2>6, <2>7 DEF Monus
  <2>9. Settled(j)' = Settled(j) \cup {r} /\ r \notin Settled(j)
    BY <1>5, <2>2 DEF Settled, CallsOf, Settle, TypeOK
  <2>10. /\ charged'[r] = n
         /\ \A q \in Settled(j) : charged[q] \in Nat /\ charged'[q] = charged[q]
    BY <2>9, SettledCounted DEF Settle, TypeOK
  <2>11. SumFunctionOnSet(charged', Settled(j) \cup {r})
            = n + SumFunctionOnSet(charged, Settled(j))
    <3>1. \A q \in Settled(j) \cup {r} : charged'[q] \in Nat
      BY <1>0, <2>10
    <3>2. SumFunctionOnSet(charged', Settled(j) \cup {r})
             = charged'[r] + SumFunctionOnSet(charged', Settled(j))
      BY <2>9, <3>1, SettledCounted, SumOfOneMore
    <3>3. SumFunctionOnSet(charged', Settled(j)) = SumFunctionOnSet(charged, Settled(j))
      BY <2>10, SettledCounted, SumAgrees
    <3>. QED
      BY <2>10, <3>2, <3>3
  <2>12. usage'[j].tokens = SumFunctionOnSet(charged', Settled(j)')
    BY <1>0, <2>6, <2>7, <2>9, <2>11
  <2>. DEFINE k == Cardinality(Settled(j))
  <2>13. Cardinality(Settled(j)') = k + 1
    BY <2>9, SettledCounted, FS_AddElement
  <2>14. k \in Nat /\ Excess * k \in Nat
    BY SettledCounted
  <2>. HIDE DEF k
  <2>15. Excess * (k + 1) = Excess * k + Excess
    BY <1>0, <2>14
  <2>16. usage'[j].tokens + usage'[j].reserved_tokens <= MaxTokens + (Excess * k + Excess)
    BY <1>0, <2>3, <2>4, <2>6, <2>7, <2>8, <2>14 DEF k
  <2>. QED
    BY <1>3, <2>8, <2>12, <2>13, <2>15, <2>16 DEF AccountHolds
<1>. QED
  BY <1>4, <1>5

LEMMA SnapshotAccounts ==
    ASSUME IInv, TypeOK', TokensAccounted, NEW i \in Identities, NEW now, Snapshot(i, now),
           NEW j \in Identities
    PROVE  AccountHolds(j)'
<1>. USE DEF IInv
<1>0. AccountHolds(j) /\ Settled(j)' = Settled(j) /\ charged' = charged
  BY AccountsAreTokens DEF Snapshot, callVars, Settled, CallsOf
<1>1. CASE j # i
  <2>1. Stored(j)' = Stored(j) /\ usage'[j] = usage[j]
    BY <1>1, SnapshotStores DEF Snapshot, TypeOK
  <2>2. \A q \in Stored(j) : reservation'[q] = reservation[q]
    BY <1>1 DEF Snapshot, Without, Stored, Expired
  <2>. QED
    BY <1>0, <2>1, <2>2, AccountStays
<1>2. CASE j = i
  <2>. DEFINE S == Stored(j) \ Expired(j, now)
              u == ReapExpired(j, now)
  <2>1. Stored(j)' = S /\ S \in SUBSET Requests /\ usage'[j] = u
    BY <1>2, SnapshotStores DEF Snapshot, Stored, TypeOK
  <2>2. \A q \in S : reservation'[q] = reservation[q]
    BY <1>2, <2>1 DEF Snapshot, Without
  <2>3. /\ u.tokens = usage[j].tokens
        /\ u.reserved_tokens = ReservedBy(S) /\ u.reserved_tokens \in Nat
        /\ u.reserved_tokens <= usage[j].reserved_tokens
    BY <1>0, ReapTokens
  <2>4. ReservedAfter(S) = ReservedBy(S)
    BY <2>1, <2>2, ReservedStays
  <2>5. ReservedBy(Stored(j))' = ReservedBy(S)
    BY <2>1, <2>4 DEF ReservedBy, ReservedAfter
  <2>6. /\ usage[j].tokens \in Nat /\ usage[j].reserved_tokens \in Nat
        /\ usage[j].tokens = SumFunctionOnSet(charged, Settled(j))
        /\ usage[j].tokens + usage[j].reserved_tokens
              <= MaxTokens + Excess * Cardinality(Settled(j))
        /\ MaxTokens \in Nat
    BY <1>0, QuotaAssumption DEF AccountHolds, TypeOK, QuotaAssumption
  <2>. HIDE DEF S, u
  <2>7. u.tokens + u.reserved_tokens <= MaxTokens + Excess * Cardinality(Settled(j))
    BY <2>3, <2>6, SettledCounted
  <2>. QED
    BY <1>0, <2>1, <2>3, <2>5, <2>6, <2>7 DEF AccountHolds
<1>. QED
  BY <1>1, <1>2

\* No step lets the token counters of an identity drift from its records and calls.
LEMMA AccountsStep == IInv /\ TokensAccounted /\ [Next]_quotaVars => TokensAccounted'
<1>. SUFFICES ASSUME IInv, TokensAccounted, [Next]_quotaVars, NEW j \in Identities
              PROVE  AccountHolds(j)'
  BY AccountsAreTokens DEF TokensAccounted, ReservedSumsReservations, ChargedOnce,
                           TokensWithinEstimates, AccountHolds, Settled
<1>0. TypeOK' /\ AccountHolds(j)
  BY TypeStep, AccountsAreTokens
<1>1. ASSUME NEW r \in Requests, Reserve(r) PROVE AccountHolds(j)'
  BY <1>0, <1>1, ReserveAccounts
<1>2. ASSUME NEW r \in Requests, NEW n \in 0..(estimate[r] + Excess), Settle(r, n)
      PROVE  AccountHolds(j)'
  BY <1>0, <1>2, SettleAccounts
<1>3. ASSUME NEW i \in Identities, NEW now \in 0..clock, Snapshot(i, now)
      PROVE  AccountHolds(j)'
  BY <1>0, <1>3, SnapshotAccounts
<1>4. ASSUME UNCHANGED <<usage, reservation, charged>>,
             \A q \in Requests : pc'[q] = "settled" <=> pc[q] = "settled"
      PROVE  AccountHolds(j)'
  <2>1. Stored(j)' = Stored(j) /\ Settled(j)' = Settled(j)
    BY <1>4 DEF Stored, Settled, CallsOf
  <2>. QED
    BY <1>0, <1>4, <2>1, AccountStays
<1>5. ASSUME NEW r \in Requests, NEW n, CallReserve(r, n) PROVE AccountHolds(j)'
  BY <1>4, <1>5 DEF CallReserve, IInv, TypeOK
<1>6. ASSUME NEW r \in Requests, Refuse(r) PROVE AccountHolds(j)'
  BY <1>4, <1>6 DEF Refuse, Verdict, IInv, TypeOK
<1>7. ASSUME NEW r \in Requests, ReserveFails(r) \/ SettleUnknown(r) \/ Vanish(r)
      PROVE  AccountHolds(j)'
  BY <1>4, <1>7 DEF ReserveFails, SettleUnknown, Vanish, IInv, TypeOK
<1>8. ASSUME Tick \/ UNCHANGED quotaVars PROVE AccountHolds(j)'
  BY <1>4, <1>8 DEF Tick, callVars, quotaVars
<1>. QED
  BY <1>1, <1>2, <1>3, <1>5, <1>6, <1>7, <1>8 DEF Next

LEMMA InitAccounts == Init => TokensAccounted
<1>. SUFFICES ASSUME Init, NEW j \in Identities PROVE AccountHolds(j)
  BY AccountsAreTokens
<1>1. Stored(j) = {} /\ Settled(j) = {}
  BY DEF Init, Stored, Settled, CallsOf
<1>2. usage[j].tokens = 0 /\ usage[j].reserved_tokens = 0
  BY DEF Init, NoUsage
<1>3. ReservedBy({}) = 0 /\ SumFunctionOnSet(charged, {}) = 0
  BY SumOfNone DEF ReservedBy
<1>4. 0 + 0 <= MaxTokens + Excess * Cardinality(Settled(j))
  BY SettledCounted, QuotaAssumption DEF QuotaAssumption
<1>. QED
  BY <1>1, <1>2, <1>3, <1>4 DEF AccountHolds

\* For any number of processes, calls and crashes, reserved tokens are the sum of
\* the stored reservations, spent tokens the sum of what each settled call used,
\* once, and both together stay under max_tokens up to what settled calls used
\* beyond their estimates: reserve, settle and _reap_expired never promise the same
\* tokens twice nor lose any.
THEOREM TokensCorrect == Spec => []TokensAccounted
BY InductiveInvariant, InitAccounts, AccountsStep, PTL DEF Spec

\* A call is refused for concurrency by reserve only when max_concurrent records
\* had not expired at the time it read: whatever crashed holders left is discounted.
THEOREM RefusalsAreJustified == Spec => RefusalCountsLiveOnly
<1>1. IInv /\ [Next]_quotaVars =>
        [\A r \in Requests :
            pc'[r] = "concurrency_limit" /\ pc[r] # "concurrency_limit" =>
                MaxConcurrent <= Cardinality(Stored(Identity[r])
                                             \ Expired(Identity[r], readAt[r]))]_quotaVars
  <2>. SUFFICES ASSUME IInv, Next, NEW q \in Requests,
                       pc'[q] = "concurrency_limit", pc[q] # "concurrency_limit"
                PROVE  MaxConcurrent <= Cardinality(Stored(Identity[q])
                                                    \ Expired(Identity[q], readAt[q]))
    OBVIOUS
  <2>. USE DEF IInv, TypeOK
  <2>1. Refuse(q) /\ Verdict(q) = "concurrency_limit"
    BY DEF Next, Tick, CallReserve, Reserve, Refuse, ReserveFails, Settle, SettleUnknown,
           Vanish, Snapshot, callVars
  <2>. DEFINE u == ReapExpired(Identity[q], readAt[q])
  <2>2. u.active >= MaxConcurrent
    BY <2>1 DEF Verdict
  <2>3. u.active = Cardinality(Stored(Identity[q]) \ Expired(Identity[q], readAt[q]))
    BY ReapCounts, QuotaAssumption DEF QuotaAssumption
  <2>4. u.active \in Nat
    BY <2>3, ReapCounts, QuotaAssumption, FS_CardinalityType DEF QuotaAssumption
  <2>. QED
    BY <2>2, <2>3, <2>4, QuotaAssumption DEF QuotaAssumption
<1>. QED
  BY <1>1, InductiveInvariant, PTL DEF Spec, RefusalCountsLiveOnly

-----------------------------------------------------------------------------
\* The variables of IdentityQuotaContract, as the manager implements them.
Given == UNION {Granted(i) : i \in Identities}
Lease == [r \in Requests |-> reservation[r].reserved_tokens]
Spent == [i \in Identities |-> usage[i].tokens]

EstimatesBounded == \A r \in Requests : estimate[r] <= MaxEstimate

ContractInvariant == IInv /\ TokensAccounted /\ EstimatesBounded

\* The contract counts and sums as the manager does.
LEMMA ContractCounts ==
    /\ \A S : Contract!Cardinality(S) = Cardinality(S)
    /\ \A f, S : Contract!SumFunctionOnSet(f, S) = SumFunctionOnSet(f, S)
<1>1. \A S : Contract!Cardinality(S) = Cardinality(S)
  BY Zenon DEF Contract!Cardinality, Cardinality
<1>2. \A f, S : Contract!SumFunctionOnSet(f, S) = SumFunctionOnSet(f, S)
  BY Zenon DEF Contract!SumFunctionOnSet, SumFunctionOnSet, Contract!FoldFunctionOnSet,
               FoldFunctionOnSet, Contract!MapThenFoldSet, MapThenFoldSet
<1>. QED
  BY <1>1, <1>2

\* Who was granted a lease, by identity and together.
LEMMA GivenByIdentity ==
    /\ Given = {r \in Requests : pc[r] \in Granting}
    /\ \A i \in Identities : Given \cap Contract!Of(i) = Granted(i)
<1>1. \A r \in Requests : Identity[r] \in Identities
  BY QuotaAssumption DEF QuotaAssumption
<1>2. \A i : Granted(i) = {r \in Requests : Identity[r] = i /\ pc[r] \in Granting}
  BY DEF Granted, CallsOf
<1>3. Given = {r \in Requests : pc[r] \in Granting}
  BY <1>1, <1>2 DEF Given
<1>. QED
  BY <1>2, <1>3 DEF Contract!Of

\* A lease is held by whoever has a record.
LEMMA HeldAreStored ==
    ASSUME IInv, NEW i \in Identities
    PROVE  /\ \A r \in Requests : Lease[r] # 0 <=> reservation[r] # Absent
           /\ Contract!Held(i) = Stored(i)
<1>1. \A r \in Requests : reservation[r].reserved_tokens # 0 <=> reservation[r] # Absent
  BY DEF IInv, TypeOK, CallsMatchRecords, Absent
<1>2. \A r \in Requests : Lease[r] = reservation[r].reserved_tokens
  BY DEF Lease
<1>3. Contract!Held(i) = Stored(i)
  BY <1>1 DEF Contract!Held, Contract!Of, Stored
<1>. QED
  BY <1>1, <1>2, <1>3

\* reserve grants a lease: the limits are judged on what _reap_expired left.
LEMMA ReserveGrants ==
    ASSUME ContractInvariant, TypeOK', NEW r \in Requests, Reserve(r)
    PROVE  Contract!Grant(r)
<1>. USE DEF ContractInvariant, IInv
<1>. DEFINE i == Identity[r]
            gone == Expired(i, readAt[r])
            kept == Stored(i) \ gone
            u == ReapExpired(i, readAt[r])
            tokens == estimate[r]
<1>1. /\ i \in Identities /\ pc[r] = "reserving"
      /\ pc' = [pc EXCEPT ![r] = "holding"]
      /\ usage' = [usage EXCEPT ![i] = AfterGrant(r)]
      /\ reservation' = [Without(gone) EXCEPT ![r] =
            [reserved_tokens |-> tokens, expires_at |-> readAt[r] + TTL]]
  BY QuotaAssumption DEF Reserve, QuotaAssumption
<1>2. /\ tokens \in Nat /\ tokens >= 1
      /\ tokens \in 0..(MaxEstimate + Excess)
  BY <1>1, QuotaAssumption DEF QuotaAssumption, TypeOK, CallsMatchRecords, EstimatesBounded
<1>3. gone \in SUBSET Contract!Held(i) /\ Contract!Held(i) \ gone = kept
  BY <1>1, HeldAreStored DEF Expired
<1>4. r \notin Given /\ Given' = Given \cup {r}
  <2>1. Given' = {q \in Requests : pc'[q] \in Granting}
    <3>1. \A j : Granted(j)' = {q \in Requests : Identity[q] = j /\ pc'[q] \in Granting}
      BY DEF Granted, CallsOf
    <3>2. \A q \in Requests : Identity[q] \in Identities
      BY QuotaAssumption DEF QuotaAssumption
    <3>. QED
      BY <3>1, <3>2 DEF Given
  <2>. QED
    BY <1>1, <2>1, GivenByIdentity DEF TypeOK, Granting
<1>5. Cardinality(Given \cap Contract!Of(i)) < MaxRequests
  <2>1. u.requests = usage[i].requests /\ u.requests < MaxRequests
    BY <1>1, ReapCounts, GrantedVerdict DEF Reserve
  <2>. QED
    BY <1>1, <2>1, GivenByIdentity DEF LimitsHold
<1>6. Cardinality(kept) < MaxConcurrent
  BY <1>1, ReapCounts, GrantedVerdict DEF Reserve
<1>7. Spent' = Spent
  <2>1. AfterGrant(r).tokens = usage[i].tokens
    BY <1>1 DEF AfterGrant, ReapExpired
  <2>2. \A j \in Identities : usage'[j].tokens = usage[j].tokens
    BY <1>1, <2>1 DEF TypeOK
  <2>. QED
    BY <2>2 DEF Spent
<1>8. Lease' = [q \in Requests |-> CASE q = r -> tokens
                                     [] q \in gone -> 0
                                     [] OTHER -> Lease[q]]
  <2>1. \A q \in Requests : reservation'[q].reserved_tokens =
          IF q = r THEN tokens ELSE IF q \in gone THEN 0 ELSE reservation[q].reserved_tokens
    BY <1>1 DEF Without, Absent
  <2>0. r \notin gone
    BY <1>1 DEF Expired, Stored, CallsMatchRecords
  <2>. HIDE DEF tokens, gone
  <2>2. \A q \in Requests : reservation'[q].reserved_tokens =
          CASE q = r -> tokens [] q \in gone -> 0 [] OTHER -> Lease[q]
    BY <2>0, <2>1 DEF Lease
  <2>. QED
    BY <2>2 DEF Lease
<1>9. Spent[i] + SumFunctionOnSet(Lease, kept) + tokens <= MaxTokens
  <2>1. AccountHolds(i)
    BY <1>1, AccountsAreTokens
  <2>2. /\ u.tokens = usage[i].tokens
        /\ u.reserved_tokens = ReservedBy(kept)
        /\ u.reserved_tokens \in Nat
    BY <1>1, <2>1, ReapTokens
  <2>3. ~(u.tokens + u.reserved_tokens + tokens > MaxTokens)
    BY DEF Reserve, Verdict
  <2>4. Spent[i] = usage[i].tokens /\ usage[i].tokens \in Nat
    BY <1>1 DEF Spent, TypeOK
  <2>5. SumFunctionOnSet(Lease, kept) = ReservedBy(kept)
    BY DEF Lease, ReservedBy
  <2>. HIDE DEF kept, u, tokens
  <2>. QED
    BY <1>2, <2>2, <2>3, <2>4, <2>5, QuotaAssumption DEF QuotaAssumption
<1>. HIDE DEF i, gone, tokens
<1>10. \E t \in (0..(MaxEstimate + Excess)) \ {0}, g \in SUBSET Contract!Held(i) :
          /\ Lease' = [q \in Requests |-> CASE q = r -> t
                                            [] q \in g -> 0
                                            [] OTHER -> Lease[q]]
          /\ Cardinality(Contract!Held(i) \ g) < MaxConcurrent
          /\ Spent[i] + SumFunctionOnSet(Lease, Contract!Held(i) \ g) + t <= MaxTokens
  <2>1. tokens \in (0..(MaxEstimate + Excess)) \ {0}
    BY <1>2
  <2>. QED
    BY <1>3, <1>6, <1>8, <1>9, <2>1
<1>. QED
  BY <1>4, <1>5, <1>7, <1>10, ContractCounts DEF Contract!Grant, Given, Lease, Spent, i

LEMMA SettleReleases ==
    ASSUME ContractInvariant, NEW r \in Requests, NEW n \in 0..(estimate[r] + Excess),
           Settle(r, n)
    PROVE  Contract!Release(r)
<1>. USE DEF ContractInvariant, IInv
<1>. DEFINE i == Identity[r]
<1>1. i \in Identities /\ n \in 0..(MaxEstimate + Excess)
  BY QuotaAssumption DEF QuotaAssumption, EstimatesBounded, TypeOK
<1>2. Lease[r] # 0
  BY <1>1, HeldAreStored DEF Settle
<1>3. Lease' = [Lease EXCEPT ![r] = 0]
  BY DEF Lease, Settle, Without, Absent
<1>4. Given' = Given
  BY SettleStores DEF Given
<1>5. Spent' = [Spent EXCEPT ![i] = @ + n]
  <2>1. AfterSettle(r, n).tokens = usage[i].tokens + n
    BY DEF AfterSettle
  <2>. QED
    BY <1>1, <2>1 DEF Settle, Spent, TypeOK
<1>6. \E actual \in 0..(MaxEstimate + Excess) : Spent' = [Spent EXCEPT ![i] = @ + actual]
  BY <1>1, <1>5
<1>. QED
  BY <1>2, <1>3, <1>4, <1>6 DEF Contract!Release, Given, Lease, Spent

LEMMA SnapshotExpires ==
    ASSUME ContractInvariant, NEW i \in Identities, NEW now, Snapshot(i, now)
    PROVE  Contract!Expire
<1>. USE DEF ContractInvariant, IInv
<1>1. Given' = Given
  BY SnapshotStores DEF Given
<1>2. Spent' = Spent
  BY DEF Spent, Snapshot, ReapExpired, TypeOK
<1>3. \A r \in Requests : Lease'[r] \in {Lease[r], 0}
  BY DEF Lease, Snapshot, Without, Absent
<1>. QED
  BY <1>1, <1>2, <1>3 DEF Contract!Expire, Given, Lease, Spent

\* A step that touches no record, usage or grant is no step of the contract.
LEMMA OthersStutter ==
    ASSUME UNCHANGED <<usage, reservation>>,
           \A r \in Requests : pc'[r] \in Granting <=> pc[r] \in Granting
    PROVE  UNCHANGED Contract!contractVars
<1>1. \A i : Granted(i)' = Granted(i)
  BY DEF Granted, CallsOf
<1>. QED
  BY <1>1 DEF Contract!contractVars

LEMMA ContractStep ==
    ContractInvariant /\ TypeOK' /\ [Next]_quotaVars =>
      [Contract!ContractNext]_Contract!contractVars
<1>. SUFFICES ASSUME ContractInvariant, TypeOK', [Next]_quotaVars
              PROVE  Contract!ContractNext \/ UNCHANGED Contract!contractVars
  OBVIOUS
<1>. USE DEF ContractInvariant, IInv
<1>1. ASSUME NEW r \in Requests, Reserve(r) PROVE Contract!ContractNext
  BY <1>1, ReserveGrants DEF Contract!ContractNext
<1>2. ASSUME NEW r \in Requests, NEW n \in 0..(estimate[r] + Excess), Settle(r, n)
      PROVE  Contract!ContractNext
  BY <1>2, SettleReleases DEF Contract!ContractNext
<1>3. ASSUME NEW i \in Identities, NEW now \in 0..clock, Snapshot(i, now)
      PROVE  Contract!ContractNext
  BY <1>3, SnapshotExpires DEF Contract!ContractNext
<1>4. ASSUME NEW r \in Requests, NEW n \in 1..MaxEstimate, CallReserve(r, n)
      PROVE  UNCHANGED Contract!contractVars
  BY <1>4, OthersStutter DEF CallReserve, Granting, TypeOK
<1>5. ASSUME NEW r \in Requests, Refuse(r) PROVE UNCHANGED Contract!contractVars
  BY <1>5, OthersStutter DEF Refuse, Verdict, Granting, TypeOK
<1>6. ASSUME NEW r \in Requests, ReserveFails(r) \/ SettleUnknown(r) \/ Vanish(r)
      PROVE  UNCHANGED Contract!contractVars
  BY <1>6, OthersStutter DEF ReserveFails, SettleUnknown, Vanish, Granting, TypeOK
<1>7. ASSUME Tick \/ UNCHANGED quotaVars PROVE UNCHANGED Contract!contractVars
  BY <1>7, OthersStutter DEF Tick, callVars, quotaVars
<1>. QED
  BY <1>1, <1>2, <1>3, <1>4, <1>5, <1>6, <1>7 DEF Next

LEMMA ContractStarts == Init => Contract!ContractInit
<1>. SUFFICES ASSUME Init PROVE Contract!ContractInit
  OBVIOUS
<1>1. Given = {}
  BY GivenByIdentity DEF Init, Granting
<1>2. Lease = [r \in Requests |-> 0]
  BY DEF Init, Lease, Absent
<1>3. Spent = [i \in Identities |-> 0]
  BY DEF Init, Spent, NoUsage
<1>. QED
  BY <1>1, <1>2, <1>3 DEF Contract!ContractInit, Given, Lease, Spent

LEMMA EstimatesStep == ContractInvariant /\ [Next]_quotaVars => EstimatesBounded'
<1>. SUFFICES ASSUME ContractInvariant, [Next]_quotaVars PROVE EstimatesBounded'
  OBVIOUS
<1>1. ASSUME NEW r \in Requests, NEW n \in 1..MaxEstimate, CallReserve(r, n)
      PROVE  EstimatesBounded'
  BY <1>1 DEF CallReserve, EstimatesBounded, ContractInvariant, IInv, TypeOK
<1>2. UNCHANGED estimate => EstimatesBounded'
  BY DEF ContractInvariant, EstimatesBounded
<1>. QED
  BY <1>1, <1>2 DEF Next, Tick, callVars, Reserve, Refuse, ReserveFails, Settle, SettleUnknown,
                    Vanish, Snapshot, quotaVars

\* The persistent manager keeps the contract of an identity quota: for any calls,
\* processes, crashes and late clocks, each of its transactions grants one lease
\* within the three limits, ends one lease with what was used, lets leases expire, or
\* is invisible to the contract.
THEOREM ManagerKeepsContract == Spec => ImplementsContract
<1>1. Init => EstimatesBounded
  BY QuotaAssumption DEF Init, EstimatesBounded, QuotaAssumption
<1>2. ContractInvariant /\ [Next]_quotaVars => ContractInvariant'
  BY EstimatesStep, AccountsStep, TypeStep, RecordsStep, CountStep DEF ContractInvariant, IInv
<1>3. ContractInvariant => IInv /\ TypeOK
  BY DEF ContractInvariant, IInv
<1>4. Init => ContractInvariant
  BY <1>1, InitIInv, InitAccounts DEF ContractInvariant
<1>. QED
  BY <1>2, <1>3, <1>4, ContractStarts, ContractStep, PTL
  DEF Spec, ImplementsContract, Contract!ContractSpec

-----------------------------------------------------------------------------
\* A record expires TTL after the clock its caller read, and its holder keeps it
\* until then.
LeaseKept ==
    \A r \in Requests :
        /\ reservation[r] # Absent => reservation[r].expires_at = readAt[r] + TTL
        /\ pc[r] = "holding" => reservation[r] # Absent \/ readAt[r] + TTL <= clock

LEMMA ReserveKeepsLeases ==
    ASSUME IInv, LeaseKept, NEW r \in Requests, Reserve(r)
    PROVE  LeaseKept'
<1>. USE DEF IInv, TypeOK
<1>. DEFINE record == [reserved_tokens |-> estimate[r], expires_at |-> readAt[r] + TTL]
            kept == Without(Expired(Identity[r], readAt[r]))
<1>1. /\ reservation' = [kept EXCEPT ![r] = record]
      /\ pc' = [pc EXCEPT ![r] = "holding"]
      /\ UNCHANGED <<clock, readAt>>
  BY DEF Reserve
<1>2. reservation'[r] = record
  BY <1>1 DEF Without
<1>3. record # Absent
  <2>1. estimate[r] >= 1
    BY DEF CallsMatchRecords, Reserve
  <2>. QED
    BY <2>1 DEF Absent
<1>4. ASSUME NEW q \in Requests, q # r
      PROVE  /\ reservation'[q] # Absent => reservation'[q] = reservation[q]
             /\ reservation'[q] = Absent /\ reservation[q] # Absent =>
                   reservation[q].expires_at <= readAt[r]
  BY <1>1, <1>4 DEF Without, Expired
<1>5. readAt[r] <= clock
  BY DEF CallsMatchRecords
<1>6. ASSUME NEW q \in Requests, q # r
      PROVE  /\ reservation'[q] # Absent => reservation'[q].expires_at = readAt[q] + TTL
             /\ pc[q] = "holding" => reservation'[q] # Absent \/ readAt[q] + TTL <= clock
  <2>1. reservation'[q] = Absent /\ reservation[q] # Absent => readAt[q] + TTL <= clock
    BY <1>4, <1>5, <1>6, QuotaAssumption DEF QuotaAssumption, LeaseKept
  <2>. QED
    BY <1>4, <1>6, <2>1 DEF LeaseKept
<1>7. pc'[r] = "holding" /\ \A q \in Requests \ {r} : pc'[q] = pc[q]
  BY <1>1
<1>8. record.expires_at = readAt[r] + TTL
  OBVIOUS
<1>. HIDE DEF record
<1>. QED
  BY <1>1, <1>2, <1>3, <1>6, <1>7, <1>8 DEF LeaseKept

LEMMA SnapshotKeepsLeases ==
    ASSUME IInv, LeaseKept, NEW i \in Identities, NEW now \in 0..clock, Snapshot(i, now)
    PROVE  LeaseKept'
<1>. USE DEF IInv, TypeOK
<1>1. reservation' = Without(Expired(i, now)) /\ UNCHANGED <<clock, callVars>>
  BY DEF Snapshot
<1>2. now \in Int /\ now <= clock
  OBVIOUS
<1>3. ASSUME NEW q \in Requests
      PROVE  /\ reservation'[q] # Absent => reservation'[q] = reservation[q]
             /\ reservation'[q] = Absent /\ reservation[q] # Absent =>
                   reservation[q].expires_at <= clock
  BY <1>1, <1>2 DEF Without, Expired
<1>. QED
  BY <1>1, <1>3 DEF LeaseKept, callVars

LEMMA LeaseStep == IInv /\ LeaseKept /\ [Next]_quotaVars => LeaseKept'
<1>. SUFFICES ASSUME IInv, LeaseKept, [Next]_quotaVars
              PROVE  LeaseKept'
  OBVIOUS
<1>. USE DEF IInv, TypeOK
<1>1. CASE UNCHANGED quotaVars
  BY <1>1 DEF quotaVars, LeaseKept
<1>2. CASE Tick
  BY <1>2, QuotaAssumption DEF QuotaAssumption, Tick, callVars, LeaseKept
<1>3. ASSUME NEW r \in Requests, NEW n, CallReserve(r, n)
      PROVE  LeaseKept'
  <2>1. reservation[r] = Absent
    BY <1>3 DEF CallReserve, CallsMatchRecords
  <2>. QED
    BY <1>3, <2>1 DEF CallReserve, LeaseKept
<1>4. ASSUME NEW r \in Requests, NEW n, Settle(r, n)
      PROVE  LeaseKept'
  BY <1>4 DEF Settle, Without, LeaseKept
<1>5. ASSUME NEW r \in Requests,
             Refuse(r) \/ ReserveFails(r) \/ SettleUnknown(r) \/ Vanish(r)
      PROVE  LeaseKept'
  <2>1. UNCHANGED <<reservation, readAt, clock>>
    BY <1>5 DEF Refuse, ReserveFails, SettleUnknown, Vanish
  <2>2. ASSUME NEW q \in Requests, pc'[q] = "holding"
        PROVE  pc[q] = "holding"
    BY <1>5, <2>2 DEF Refuse, ReserveFails, SettleUnknown, Vanish, Verdict
  <2>. QED
    BY <2>1, <2>2 DEF LeaseKept
<1>. QED
  BY <1>1, <1>2, <1>3, <1>4, <1>5, ReserveKeepsLeases, SnapshotKeepsLeases DEF Next

\* A call that holds a reservation has its record until TTL after the clock it
\* read, for any number of calls, crashes and late clocks.
THEOREM LeasesAreKept == Spec => []LeaseKept
<1>1. Init => LeaseKept
  BY DEF Init, LeaseKept
<1>. QED
  BY <1>1, InductiveInvariant, LeaseStep, PTL DEF Spec

-----------------------------------------------------------------------------
(*****************************************************************************)
(* The production boundary (GovernedExecution).                              *)
(*****************************************************************************)

\* What the provider reported stays within what settle accepts of a caller:
\* nothing is used before the estimate is fixed.
UsedWithinExcess ==
    /\ stage \in [Requests -> Stages]
    /\ used \in [Requests -> Nat]
    /\ estimate \in [Requests -> Nat]
    /\ \A r \in Requests :
          /\ used[r] <= estimate[r] + Excess
          /\ stage[r] = "idle" => used[r] = 0

-----------------------------------------------------------------------------
\* No report leads back to "idle".
LEMMA ReportGoesOn ==
  ASSUME NEW s \in DOMAIN Report
  PROVE  /\ Report[s].next \in Stages \ {"idle"}
         /\ AfterReport(s) \in Stages \ {"idle"}
BY DEF Report, AfterReport, Stages

\* A call that moves on without using tokens keeps the bound.
LEMMA MoveKeeps ==
  ASSUME UsedWithinExcess, NEW r \in Requests, NEW s \in Stages \ {"idle"}, NEW a,
         Move(r, s, a), UNCHANGED <<used, estimate>>
  PROVE  UsedWithinExcess'
BY DEF UsedWithinExcess, Move

\* reserve fixes the estimate of a call that has used nothing.
LEMMA AuthorizeKeeps ==
  ASSUME UsedWithinExcess, NEW r \in Requests, Authorize(r)
  PROVE  UsedWithinExcess'
<1>1. PICK n \in 1..MaxEstimate : CallReserve(r, n)
  BY DEF Authorize
<1>2. n \in Nat /\ Excess \in Nat
  BY QuotaAssumption DEF QuotaAssumption
<1>3. /\ stage[r] = "idle"
      /\ stage' = [stage EXCEPT ![r] = "reserving"]
      /\ estimate' = [estimate EXCEPT ![r] = n]
      /\ used' = used
  BY <1>1 DEF Authorize, Move, CallReserve
<1>. QED
  BY <1>2, <1>3 DEF UsedWithinExcess, Stages

\* The provider reports at most the estimate and the excess.
LEMMA SuccessKeeps ==
  ASSUME UsedWithinExcess, NEW r \in Requests, ProviderSucceeds(r)
  PROVE  UsedWithinExcess'
<1>1. PICK n \in 0..(estimate[r] + Excess) : used' = [used EXCEPT ![r] = n]
  BY DEF ProviderSucceeds
<1>2. estimate[r] \in Nat /\ Excess \in Nat
  BY QuotaAssumption DEF QuotaAssumption, UsedWithinExcess
<1>3. n \in Nat /\ n <= estimate[r] + Excess
  BY <1>2
<1>4. stage' = [stage EXCEPT ![r] = "succeeding"] /\ estimate' = estimate
  BY DEF ProviderSucceeds, Move, quotaVars
<1>. QED
  BY <1>1, <1>3, <1>4 DEF UsedWithinExcess, Stages, Report

LEMMA InitUsed == ExecutionInit => UsedWithinExcess
BY QuotaAssumption DEF ExecutionInit, Init, UsedWithinExcess, QuotaAssumption, Stages

LEMMA UsedStep == UsedWithinExcess /\ [ExecutionNext]_allVars => UsedWithinExcess'
<1>. SUFFICES ASSUME UsedWithinExcess, [ExecutionNext]_allVars
              PROVE  UsedWithinExcess'
  OBVIOUS
<1>1. CASE UNCHANGED allVars
  BY <1>1 DEF allVars, govVars, quotaVars, UsedWithinExcess
<1>2. CASE Environment
  BY <1>2 DEF Environment, Tick, Snapshot, callVars, govVars, UsedWithinExcess
<1>3. ASSUME NEW r \in Requests, TurnAway(r) \/ Deny(r) \/ Authorize(r)
      PROVE  UsedWithinExcess'
  <2>1. CASE TurnAway(r) \/ Deny(r)
    BY <2>1, MoveKeeps DEF TurnAway, Deny, quotaVars, Stages, Report
  <2>2. CASE Authorize(r)
    BY <2>2, AuthorizeKeeps
  <2>. QED
    BY <1>3, <2>1, <2>2
<1>4. ASSUME NEW r \in Requests, Handle(r)
      PROVE  UsedWithinExcess'
  <2>1. CASE Grant(r) \/ RefuseCall(r) \/ ReserveCallFails(r)
    BY <2>1, MoveKeeps
    DEF Grant, RefuseCall, ReserveCallFails, Reserve, Refuse, ReserveFails, Stages, Report
  <2>2. CASE AppendEvent(r) \/ AppendFails(r)
    BY <2>2, MoveKeeps, ReportGoesOn DEF AppendEvent, AppendFails, quotaVars
  <2>3. CASE ProviderSucceeds(r)
    BY <2>3, SuccessKeeps
  <2>4. CASE ProviderFails(r) \/ ProviderBreaks(r)
    BY <2>4, MoveKeeps DEF ProviderFails, ProviderBreaks, quotaVars, Stages, Report
  <2>5. CASE SettleCall(r) \/ SettleCallUnknown(r) \/ SettleCallFails(r)
    BY <2>5, MoveKeeps
    DEF SettleCall, SettleCallUnknown, SettleCallFails, Settle, SettleUnknown, Vanish,
        Finish, Stages
  <2>. QED
    BY <1>4, <2>1, <2>2, <2>3, <2>4, <2>5 DEF Handle
<1>5. ASSUME NEW r \in Requests, Cancel(r)
      PROVE  UsedWithinExcess'
  <2>1. CASE CancelReserve(r)
    BY <2>1, MoveKeeps DEF CancelReserve, ReserveFails, Reserve, Stages
  <2>2. CASE CancelAppend(r)
    BY <2>2, MoveKeeps, ReportGoesOn DEF CancelAppend, quotaVars
  <2>3. CASE CancelExecution(r) \/ CancelSettling(r)
    BY <2>3, MoveKeeps DEF CancelExecution, CancelSettling, quotaVars, Stages, Report
  <2>. QED
    BY <1>5, <2>1, <2>2, <2>3 DEF Cancel
<1>6. ASSUME NEW r \in Requests, CrashCall(r)
      PROVE  UsedWithinExcess'
  <2>1. UNCHANGED <<used, estimate>>
    BY <1>6 DEF CrashCall, ReserveFails, Vanish, quotaVars
  <2>. QED
    BY <1>6, <2>1, MoveKeeps DEF CrashCall, Stages
<1>. QED
  BY <1>1, <1>2, <1>3, <1>4, <1>5, <1>6 DEF ExecutionNext

-----------------------------------------------------------------------------
\* The actual_tokens of a settlement are among those PersistentQuota allows.
LEMMA SettlementAllowed ==
  ASSUME UsedWithinExcess, NEW r \in Requests
  PROVE  ActualTokens(r) \in 0..(estimate[r] + Excess)
<1>1. estimate[r] \in Nat /\ used[r] \in Nat /\ Excess \in Nat
      /\ used[r] <= estimate[r] + Excess
  BY QuotaAssumption DEF QuotaAssumption, UsedWithinExcess
<1>. QED
  BY <1>1 DEF ActualTokens

\* A step of the boundary is a step of the quota manager or leaves it alone.
LEMMA QuotaStep ==
  UsedWithinExcess /\ [ExecutionNext]_allVars => [Next]_quotaVars
<1>. SUFFICES ASSUME UsedWithinExcess, [ExecutionNext]_allVars
              PROVE  Next \/ UNCHANGED quotaVars
  BY DEF quotaVars
<1>1. CASE UNCHANGED allVars
  BY <1>1 DEF allVars
<1>2. CASE Environment
  BY <1>2 DEF Environment, Next
<1>3. ASSUME NEW r \in Requests, TurnAway(r) \/ Deny(r) \/ Authorize(r)
      PROVE  Next \/ UNCHANGED quotaVars
  BY <1>3 DEF TurnAway, Deny, Authorize, Next
<1>4. ASSUME NEW r \in Requests, Handle(r)
      PROVE  Next \/ UNCHANGED quotaVars
  <2>1. CASE Grant(r) \/ RefuseCall(r) \/ ReserveCallFails(r)
    BY <2>1 DEF Grant, RefuseCall, ReserveCallFails, Next
  <2>2. CASE AppendEvent(r) \/ AppendFails(r)
    BY <2>2 DEF AppendEvent, AppendFails
  <2>3. CASE ProviderSucceeds(r) \/ ProviderFails(r) \/ ProviderBreaks(r)
    BY <2>3 DEF ProviderSucceeds, ProviderFails, ProviderBreaks
  <2>4. CASE SettleCall(r)
    BY <2>4, SettlementAllowed DEF SettleCall, Next
  <2>5. CASE SettleCallUnknown(r) \/ SettleCallFails(r)
    BY <2>5 DEF SettleCallUnknown, SettleCallFails, Next
  <2>. QED
    BY <1>4, <2>1, <2>2, <2>3, <2>4, <2>5 DEF Handle
<1>5. ASSUME NEW r \in Requests, Cancel(r)
      PROVE  Next \/ UNCHANGED quotaVars
  BY <1>5 DEF Cancel, CancelReserve, CancelAppend, CancelExecution, CancelSettling, Next
<1>6. ASSUME NEW r \in Requests, CrashCall(r)
      PROVE  Next \/ UNCHANGED quotaVars
  BY <1>6 DEF CrashCall, Next
<1>. QED
  BY <1>1, <1>2, <1>3, <1>4, <1>5, <1>6 DEF ExecutionNext

\* Every behaviour of the boundary is one of the quota manager: callers are
\* legal whatever is cancelled, fails or crashes (ImplementsQuota).
THEOREM BoundaryImplementsQuota == ExecutionSpec => ImplementsQuota
<1>1. ExecutionInit => Init
  BY DEF ExecutionInit
<1>. QED
  BY <1>1, InitUsed, UsedStep, QuotaStep, PTL DEF ExecutionSpec, ImplementsQuota, Spec

\* No execution of the boundary takes an identity beyond its requests or its
\* concurrent reservations, for any number of processes (LimitsHold).
THEOREM BoundaryKeepsLimits == ExecutionSpec => []LimitsHold
BY BoundaryImplementsQuota, LimitsCorrect DEF ImplementsQuota

\* So do its tokens: over every execution of the boundary, whatever is refused,
\* cancelled, expired or crashed, no token is promised twice or lost, and the leases
\* granted are those of the contract.
THEOREM BoundaryKeepsTokens == ExecutionSpec => []TokensAccounted /\ ImplementsContract
BY BoundaryImplementsQuota, TokensCorrect, ManagerKeepsContract, PTL DEF ImplementsQuota

-----------------------------------------------------------------------------
\* The sequences of events a call can leave in the chain.
Shapes == {<<>>, <<"denied">>, <<"started">>} \cup {<<"started", t>> : t \in Terminal}

\* What the stage of a call says of its reservation, its events, its answer and
\* its charge; the gates and the accounting of a success are read off it.
InOrder(r) ==
    /\ stage[r] # "done" => answer[r] \notin {"401", "403", "429"}
    /\ stage[r] \in {"idle", "denying", "reserving", "refusing", "starting"} =>
          events[r] = <<>> /\ used[r] = 0
    /\ stage[r] \in {"idle", "denying"} => pc[r] = "idle"
    /\ stage[r] = "reserving" => pc[r] = "reserving" /\ r \in Authorized
    /\ stage[r] = "starting" => pc[r] = "holding" /\ r \in Authorized
    /\ Running(r) =>
          pc[r] = "holding" /\ r \in Authorized /\ events[r] = <<"started">>
    /\ Settling(r) => pc[r] = "holding"
    /\ answer[r] = "200" => events[r] = <<"started", "succeeded">>
    /\ stage[r] = "done" =>
          /\ answer[r] \in {"403", "429"} => events[r] = <<"denied">> /\ used[r] = 0
          /\ answer[r] = "401" => events[r] = <<>> /\ pc[r] = "idle"
          /\ answer[r] = "200" => pc[r] = "settled" /\ charged[r] = used[r]

Frames ==
    /\ stage \in [Requests -> Stages]
    /\ answer \in [Requests -> Answers]
    /\ used \in [Requests -> Nat]
    /\ events \in [Requests -> Shapes]
    /\ stuck \subseteq Processes

CallsInvariant == Frames /\ \A r \in Requests : InOrder(r)

\* What the boundary's proof uses of the quota manager's types.
CallTypes ==
    /\ pc \in [Requests -> CallStates]
    /\ charged \in [Requests -> Nat]
    /\ estimate \in [Requests -> Nat]

\* What appending to a chain of at most one event makes.
LEMMA AppendToOne ==
  ASSUME NEW S, NEW a \in S, NEW t \in S
  PROVE  Append(<<a>>, t) = <<a, t>>
<1>1. <<a>> \in Seq(S) /\ Len(<<a>>) = 1
  OBVIOUS
<1>2. <<a, t>> \in Seq(S) /\ Len(<<a, t>>) = 2
  OBVIOUS
<1>3. Append(<<a>>, t) \in Seq(S) /\ Len(Append(<<a>>, t)) = 2
  BY <1>1, AppendProperties
<1>4. Append(<<a>>, t)[1] = a /\ Append(<<a>>, t)[2] = t
  BY <1>1, AppendProperties
<1>5. ASSUME NEW k \in 1..2
      PROVE  Append(<<a>>, t)[k] = <<a, t>>[k]
  <2>1. CASE k = 1
    BY <1>4, <2>1
  <2>2. CASE k = 2
    BY <1>4, <2>2
  <2>. QED
    BY <2>1, <2>2
<1>. QED
  BY <1>2, <1>3, <1>5, SeqEqual

LEMMA AppendToStarted ==
  ASSUME NEW t \in Terminal
  PROVE  Append(<<"started">>, t) = <<"started", t>>
<1> DEFINE S == {"started"} \cup Terminal
<1>1. "started" \in S /\ t \in S
  OBVIOUS
<1>. HIDE DEF S
<1>. QED
  BY <1>1, AppendToOne

LEMMA AppendToNone ==
  ASSUME NEW t \in STRING
  PROVE  Append(<<>>, t) = <<t>>
OBVIOUS

LEMMA CallsInit == ExecutionInit => CallsInvariant
BY DEF ExecutionInit, Init, CallsInvariant, Frames, InOrder, Shapes, Stages, Answers,
       Running, Settling

\* A step that touches the frame of one call only.
StepOf(r) ==
    /\ Frames'
    /\ \A q \in Requests \ {r} :
          /\ stage'[q] = stage[q] /\ answer'[q] = answer[q] /\ events'[q] = events[q]
          /\ used'[q] = used[q] /\ pc'[q] = pc[q] /\ charged'[q] = charged[q]

LEMMA OthersInOrder ==
  ASSUME CallsInvariant, NEW r \in Requests, StepOf(r), InOrder(r)'
  PROVE  CallsInvariant'
<1>1. ASSUME NEW q \in Requests, q # r
      PROVE  InOrder(q)'
  BY <1>1 DEF StepOf, CallsInvariant, InOrder, Running, Settling
<1>. QED
  BY <1>1 DEF StepOf, CallsInvariant

\* The route and the policy.
LEMMA EntryInOrder ==
  ASSUME CallsInvariant, CallTypes, NEW r \in Requests,
         TurnAway(r) \/ Deny(r) \/ Authorize(r)
  PROVE  CallsInvariant'
<1>1. StepOf(r)
  BY DEF CallsInvariant, CallTypes, Frames, StepOf, TurnAway, Deny, Authorize, Move,
         CallReserve, quotaVars, Stages, Answers, Report
<1>2. InOrder(r)
  BY DEF CallsInvariant
<1>3. /\ events'[r] = events[r] /\ used'[r] = used[r] /\ stage[r] = "idle"
      /\ \/ stage'[r] = "done" /\ answer'[r] \in {"401", "422"} /\ pc'[r] = pc[r]
         \/ stage'[r] = "denying" /\ answer'[r] = "none" /\ pc'[r] = pc[r]
         \/ /\ stage'[r] = "reserving" /\ answer'[r] = "none" /\ pc'[r] = "reserving"
            /\ r \in Authorized
  BY DEF CallsInvariant, CallTypes, Frames, TurnAway, Deny, Authorize, Move, CallReserve,
         quotaVars
<1>4. InOrder(r)'
  BY <1>2, <1>3 DEF InOrder, Running, Settling
<1>. QED
  BY <1>1, <1>4, OthersInOrder

\* The answers of reserve.
LEMMA ReservationInOrder ==
  ASSUME CallsInvariant, CallTypes, NEW r \in Requests,
         Grant(r) \/ RefuseCall(r) \/ ReserveCallFails(r) \/ CancelReserve(r)
  PROVE  CallsInvariant'
<1>1. StepOf(r)
  <2>1. stuck' \subseteq Processes
    BY ExecutionAssumption
    DEF ExecutionAssumption, CallsInvariant, Frames, Grant, RefuseCall, ReserveCallFails,
        CancelReserve, MayLeak
  <2>. QED
    BY <2>1
    DEF CallsInvariant, CallTypes, Frames, StepOf, Grant, RefuseCall, ReserveCallFails,
        CancelReserve, Reserve, Refuse, ReserveFails, Move, Stages, Answers, Report
<1>2. InOrder(r)
  BY DEF CallsInvariant
<1>3. /\ events'[r] = events[r] /\ used'[r] = used[r] /\ stage[r] = "reserving"
      /\ \/ stage'[r] = "starting" /\ answer'[r] = "none" /\ pc'[r] = "holding"
         \/ stage'[r] = "refusing" /\ answer'[r] = "none"
         \/ stage'[r] = "done" /\ answer'[r] \in {"500", "cancelled"}
  BY DEF CallsInvariant, CallTypes, Frames, Grant, RefuseCall, ReserveCallFails,
         CancelReserve, Reserve, Refuse, ReserveFails, Move
<1>4. InOrder(r)'
  BY <1>2, <1>3 DEF InOrder, Running, Settling
<1>. QED
  BY <1>1, <1>4, OthersInOrder

\* Each report makes one of the shapes.
LEMMA ReportShapes ==
  ASSUME NEW r \in Requests, InOrder(r), stage[r] \in DOMAIN Report
  PROVE  /\ Append(events[r], Report[stage[r]].type) \in Shapes
         /\ stage[r] \in {"denying", "refusing"} =>
               Append(events[r], Report[stage[r]].type) = <<"denied">>
         /\ stage[r] = "starting" =>
               Append(events[r], Report[stage[r]].type) = <<"started">>
         /\ stage[r] = "succeeding" =>
               Append(events[r], Report[stage[r]].type) = <<"started", "succeeded">>
<1>1. CASE stage[r] \in {"denying", "refusing", "starting"}
  <2>1. events[r] = <<>> /\ Report[stage[r]].type \in {"denied", "started"}
    BY <1>1 DEF InOrder, Report
  <2>2. stage[r] \in {"denying", "refusing"} => Report[stage[r]].type = "denied"
    BY DEF Report
  <2>3. stage[r] = "starting" => Report[stage[r]].type = "started"
    BY DEF Report
  <2>4. Append(events[r], Report[stage[r]].type) = <<Report[stage[r]].type>>
    BY <2>1, AppendToNone
  <2>. QED
    BY <1>1, <2>1, <2>2, <2>3, <2>4 DEF Shapes
<1>2. CASE stage[r] \in {"succeeding", "failing", "cancelling"}
  <2>1. events[r] = <<"started">> /\ Report[stage[r]].type \in Terminal
    BY <1>2 DEF InOrder, Running, Report, Terminal
  <2>2. stage[r] = "succeeding" => Report[stage[r]].type = "succeeded"
    BY DEF Report
  <2>3. Append(events[r], Report[stage[r]].type) = <<"started", Report[stage[r]].type>>
    BY <2>1, AppendToStarted
  <2>4. <<"started", Report[stage[r]].type>> \in Shapes
    BY <2>1 DEF Shapes
  <2>5. stage[r] = "succeeding" =>
           <<"started", Report[stage[r]].type>> = <<"started", "succeeded">>
    BY <2>2
  <2>. QED
    BY <1>2, <2>3, <2>4, <2>5
<1>. QED
  BY <1>1, <1>2 DEF Report

\* Where a report leads, and with which answer.
LEMMA ReportLeads ==
  ASSUME NEW s \in DOMAIN Report
  PROVE  /\ s \in {"denying", "refusing", "starting", "succeeding", "failing",
                   "cancelling"}
         /\ s = "denying" => Report[s].next = "done" /\ Report[s].answer = "403"
         /\ s = "refusing" => Report[s].next = "done" /\ Report[s].answer = "429"
         /\ s = "starting" => Report[s].next = "executing" /\ Report[s].answer = "none"
         /\ s = "succeeding" => Report[s].next = "settling" /\ Report[s].answer = "200"
         /\ s \in {"failing", "cancelling"} =>
               Report[s].next = "settling" /\ Report[s].answer \in {"500", "cancelled"}
         /\ s \in {"denying", "refusing"} => AfterReport(s) = "done"
         /\ s \notin {"denying", "refusing"} => AfterReport(s) = "settling"
BY DEF Report, AfterReport

\* Appending an audit event, or failing to.
LEMMA ReportInOrder ==
  ASSUME CallsInvariant, CallTypes, NEW r \in Requests,
         AppendEvent(r) \/ AppendFails(r) \/ CancelAppend(r)
  PROVE  CallsInvariant'
<1>1. stage[r] \in DOMAIN Report /\ InOrder(r)
  BY DEF CallsInvariant, AppendEvent, AppendFails, CancelAppend
<1>2. stuck' \subseteq Processes
  BY ExecutionAssumption
  DEF ExecutionAssumption, CallsInvariant, Frames, AppendEvent, AppendFails, CancelAppend,
      MayLeak
<1> DEFINE appended == Append(events[r], Report[stage[r]].type)
<1>3. /\ used' = used /\ pc' = pc /\ charged' = charged
      /\ \/ /\ events' = [events EXCEPT ![r] = appended]
            /\ Move(r, Report[stage[r]].next, Report[stage[r]].answer)
         \/ /\ events' = events \/ events' = [events EXCEPT ![r] = appended]
            /\ Move(r, AfterReport(stage[r]), "503")
               \/ Move(r, AfterReport(stage[r]), "cancelled")
  BY DEF AppendEvent, AppendFails, CancelAppend, quotaVars
<1>4. appended \in Shapes
  BY <1>1, ReportShapes
<1>. HIDE DEF appended
<1>5. StepOf(r)
  <2>1. PICK s \in Stages, a \in Answers : Move(r, s, a)
    BY <1>1, <1>3, ReportLeads DEF Stages, Answers
  <2>. QED
    BY <1>2, <1>3, <1>4, <2>1 DEF CallsInvariant, Frames, StepOf, Move
<1>6. /\ used'[r] = used[r] /\ pc'[r] = pc[r]
      /\ \/ /\ events'[r] = appended
            /\ stage'[r] = Report[stage[r]].next
            /\ answer'[r] = Report[stage[r]].answer
         \/ /\ stage'[r] = AfterReport(stage[r])
            /\ answer'[r] \in {"503", "cancelled"}
  BY <1>3 DEF CallsInvariant, Frames, Move
<1>. USE DEF appended
<1>7. InOrder(r)'
  <2>1. CASE stage[r] \in {"denying", "refusing"}
    BY <1>1, <1>6, <2>1, ReportShapes, ReportLeads DEF InOrder, Running, Settling
  <2>2. CASE stage[r] = "starting"
    BY <1>1, <1>6, <2>2, ReportShapes, ReportLeads DEF InOrder, Running, Settling
  <2>3. CASE stage[r] = "succeeding"
    BY <1>1, <1>6, <2>3, ReportShapes, ReportLeads DEF InOrder, Running, Settling
  <2>4. CASE stage[r] \in {"failing", "cancelling"}
    BY <1>1, <1>6, <2>4, ReportLeads DEF InOrder, Running, Settling
  <2>. QED
    BY <1>1, <2>1, <2>2, <2>3, <2>4, ReportLeads
<1>. QED
  BY <1>5, <1>7, OthersInOrder

\* The provider ends, or its call is cancelled.
LEMMA ProviderInOrder ==
  ASSUME CallsInvariant, CallTypes, NEW r \in Requests,
         ProviderSucceeds(r) \/ ProviderFails(r) \/ ProviderBreaks(r) \/ CancelExecution(r)
  PROVE  CallsInvariant'
<1>1. InOrder(r)
  BY DEF CallsInvariant
<1>2. PICK n \in Nat : used' = used \/ used' = [used EXCEPT ![r] = n]
  <2>1. CASE ProviderSucceeds(r)
    <3>1. PICK n \in 0..(estimate[r] + Excess) : used' = [used EXCEPT ![r] = n]
      BY <2>1 DEF ProviderSucceeds
    <3>2. estimate[r] \in Nat /\ Excess \in Nat
      BY QuotaAssumption DEF QuotaAssumption, CallTypes
    <3>3. n \in Nat
      BY <3>2
    <3>. QED
      BY <3>1, <3>3
  <2>2. CASE ProviderFails(r) \/ ProviderBreaks(r) \/ CancelExecution(r)
    BY <2>2 DEF ProviderFails, ProviderBreaks, CancelExecution
  <2>. QED
    BY <2>1, <2>2
<1>3. /\ stage[r] = "executing"
      /\ UNCHANGED <<pc, charged, events, stuck>>
      /\ \E s \in {"succeeding", "failing", "cancelling"} : Move(r, s, "none")
         \/ Move(r, "settling", "500")
  BY DEF ProviderSucceeds, ProviderFails, ProviderBreaks, CancelExecution, quotaVars
<1>4. StepOf(r)
  BY <1>2, <1>3 DEF CallsInvariant, Frames, StepOf, Move, Stages, Answers, Report
<1>5. /\ \/ stage'[r] \in {"succeeding", "failing", "cancelling"} /\ answer'[r] = "none"
         \/ stage'[r] = "settling" /\ answer'[r] = "500"
      /\ pc'[r] = pc[r] /\ events'[r] = events[r]
  BY <1>3 DEF CallsInvariant, Frames, Move
<1>6. InOrder(r)'
  BY <1>1, <1>3, <1>5 DEF InOrder, Running, Settling
<1>. QED
  BY <1>4, <1>6, OthersInOrder

\* The settlement: an answer of 200 survives only a settle that charged what was used.
LEMMA SettlementInOrder ==
  ASSUME CallsInvariant, CallTypes, NEW r \in Requests,
         SettleCall(r) \/ SettleCallUnknown(r) \/ SettleCallFails(r) \/ CancelSettling(r)
  PROVE  CallsInvariant'
<1>1. InOrder(r) /\ stage[r] \in {"settling", "settling_alone"}
  BY DEF CallsInvariant, SettleCall, SettleCallUnknown, SettleCallFails, CancelSettling,
         Settling
<1>2. UNCHANGED <<events, used, stuck>>
  BY DEF SettleCall, SettleCallUnknown, SettleCallFails, CancelSettling
<1>3. PICK p, c :
        /\ pc' = [pc EXCEPT ![r] = p]
        /\ charged' = [charged EXCEPT ![r] = c]
        /\ \/ /\ p = "settled" /\ c = ActualTokens(r)
              /\ Finish(r, answer[r])
           \/ Finish(r, "422") \/ Finish(r, "500")
           \/ p = "holding" /\ Move(r, "settling_alone", answer[r])
  <2>1. CASE SettleCall(r)
    BY <2>1 DEF SettleCall, Settle
  <2>2. CASE SettleCallUnknown(r) \/ SettleCallFails(r)
    <3>1. /\ \E p : pc' = [pc EXCEPT ![r] = p]
          /\ charged' = charged
          /\ Finish(r, "422") \/ Finish(r, "500")
      BY <2>2 DEF SettleCallUnknown, SettleCallFails, SettleUnknown, Vanish
    <3>2. charged' = [charged EXCEPT ![r] = charged[r]]
      BY <3>1 DEF CallTypes
    <3>. QED
      BY <3>1, <3>2
  <2>3. CASE CancelSettling(r)
    <3>1. /\ pc' = [pc EXCEPT ![r] = "holding"]
          /\ charged' = [charged EXCEPT ![r] = charged[r]]
          /\ Move(r, "settling_alone", answer[r])
      BY <1>1, <2>3 DEF CallTypes, CancelSettling, quotaVars, InOrder, Settling
    <3>. QED
      BY <3>1
  <2>. QED
    BY <2>1, <2>2, <2>3
<1>4. StepOf(r)
  <2>1. PICK s \in Stages, a \in Answers : Move(r, s, a)
    BY <1>1, <1>3 DEF CallsInvariant, Frames, Finish, Stages, Answers
  <2>. QED
    BY <1>2, <1>3, <2>1 DEF CallsInvariant, CallTypes, Frames, StepOf, Move
<1>5. /\ pc'[r] = p /\ charged'[r] = c /\ events'[r] = events[r] /\ used'[r] = used[r]
      /\ \/ /\ p = "settled" /\ c = ActualTokens(r) /\ stage'[r] = "done"
            /\ \/ answer'[r] = "cancelled"
               \/ answer'[r] = answer[r]
         \/ stage'[r] = "done" /\ answer'[r] \in {"cancelled", "422", "500"}
         \/ p = "holding" /\ stage'[r] = "settling_alone" /\ answer'[r] = answer[r]
  BY <1>2, <1>3 DEF CallsInvariant, CallTypes, Frames, Finish, Move
<1>6. InOrder(r)'
  BY <1>1, <1>5 DEF InOrder, Running, Settling, ActualTokens
<1>. QED
  BY <1>4, <1>6, OthersInOrder

LEMMA CrashInOrder ==
  ASSUME CallsInvariant, CallTypes, NEW r \in Requests, CrashCall(r)
  PROVE  CallsInvariant'
<1>1. InOrder(r) /\ stage[r] # "done"
  BY DEF CallsInvariant, CrashCall
<1>2. /\ charged' = charged /\ pc' = [pc EXCEPT ![r] = pc'[r]]
      /\ UNCHANGED <<events, used, stuck>>
      /\ Move(r, "crashed", answer[r])
  BY DEF CallTypes, CrashCall, ReserveFails, Vanish, quotaVars
<1>3. StepOf(r)
  BY <1>2 DEF CallsInvariant, CallTypes, Frames, StepOf, Move, Stages
<1>4. /\ stage'[r] = "crashed" /\ answer'[r] = answer[r]
      /\ events'[r] = events[r] /\ used'[r] = used[r]
  BY <1>2 DEF CallsInvariant, Frames, Move
<1>5. InOrder(r)'
  BY <1>1, <1>4 DEF InOrder, Running, Settling
<1>. QED
  BY <1>3, <1>5, OthersInOrder

LEMMA CallsStep ==
  CallsInvariant /\ TypeOK /\ [ExecutionNext]_allVars => CallsInvariant'
<1>. SUFFICES ASSUME CallsInvariant, TypeOK, [ExecutionNext]_allVars
              PROVE  CallsInvariant'
  OBVIOUS
<1>1. CallTypes
  BY DEF TypeOK, CallTypes
<1>2. CASE UNCHANGED <<govVars, pc, charged>>
  <2>1. ASSUME NEW r \in Requests
        PROVE  InOrder(r)'
    BY <1>2 DEF CallsInvariant, InOrder, Running, Settling, govVars
  <2>. QED
    BY <1>2, <2>1 DEF CallsInvariant, Frames, govVars
<1>3. CASE Environment \/ UNCHANGED allVars
  BY <1>2, <1>3 DEF Environment, Tick, Snapshot, callVars, allVars, quotaVars
<1>4. ASSUME NEW r \in Requests, TurnAway(r) \/ Deny(r) \/ Authorize(r)
      PROVE  CallsInvariant'
  BY <1>1, <1>4, EntryInOrder
<1>5. ASSUME NEW r \in Requests, Handle(r) \/ Cancel(r)
      PROVE  CallsInvariant'
  BY <1>1, <1>5, ReservationInOrder, ReportInOrder, ProviderInOrder, SettlementInOrder
  DEF Handle, Cancel
<1>6. ASSUME NEW r \in Requests, CrashCall(r)
      PROVE  CallsInvariant'
  BY <1>1, <1>6, CrashInOrder
<1>. QED
  BY <1>3, <1>4, <1>5, <1>6 DEF ExecutionNext

\* The stage of every call says where its reservation and its events are, whatever
\* was refused, failed, cancelled or crashed.
THEOREM CallsStayInOrder == ExecutionSpec => []CallsInvariant
<1>1. ExecutionSpec => []TypeOK
  BY BoundaryImplementsQuota, TypeCorrect DEF ImplementsQuota
<1>. QED
  BY <1>1, CallsInit, CallsStep, PTL DEF ExecutionSpec

\* The provider runs only for authorized calls that hold a reservation and whose
\* STARTED event is in the chain; a denied call leaves nothing else (GatesHold).
THEOREM GatesCorrect == ExecutionSpec => []GatesHold
<1>1. ASSUME CallsInvariant, NEW r \in Requests, Running(r)
      PROVE  r \in Authorized /\ pc[r] = "holding" /\ Has(r, "started")
  <2>1. r \in Authorized /\ pc[r] = "holding" /\ events[r] = <<"started">>
    BY <1>1 DEF CallsInvariant, InOrder
  <2>. QED
    BY <2>1 DEF Has
<1>2. CallsInvariant => GatesHold
  BY <1>1 DEF GatesHold, ExecutionTypeOK, ProviderBehindGates, CallsInvariant, Frames,
              Shapes, InOrder
<1>. QED
  BY <1>2, CallsStayInOrder, PTL

\* An answer of 200 stands for an execution that is in the chain from its start to
\* its success, and whose tokens were charged (SuccessIsAccounted).
THEOREM SuccessCorrect == ExecutionSpec => []SuccessIsAccounted
<1>1. CallsInvariant => SuccessIsAccounted
  BY DEF CallsInvariant, InOrder, SuccessIsAccounted
<1>. QED
  BY <1>1, CallsStayInOrder, PTL

\* The provider works for at most max_concurrent calls of an identity whose
\* reservations have not expired, over all processes (RunningWithinLease).
THEOREM LeaseCorrect == ExecutionSpec => []RunningWithinLease
<1>1. ExecutionSpec => [](LeaseKept /\ LimitsHold /\ TypeOK)
  BY BoundaryImplementsQuota, LeasesAreKept, LimitsCorrect, TypeCorrect, PTL
  DEF ImplementsQuota
<1>2. CallsInvariant /\ LeaseKept /\ LimitsHold /\ TypeOK => RunningWithinLease
  <2>. SUFFICES ASSUME CallsInvariant, LeaseKept, LimitsHold, TypeOK, NEW i \in Identities
                PROVE  Cardinality({r \in Requests :
                          Identity[r] = i /\ Running(r) /\ clock < readAt[r] + TTL})
                       <= MaxConcurrent
    BY DEF RunningWithinLease
  <2>. DEFINE Live == {r \in Requests :
                          Identity[r] = i /\ Running(r) /\ clock < readAt[r] + TTL}
  <2>1. ASSUME NEW r \in Live
        PROVE  r \in Stored(i)
    <3>1. pc[r] = "holding"
      BY DEF CallsInvariant, InOrder
    <3>2. ~ (readAt[r] + TTL <= clock)
      BY QuotaAssumption DEF QuotaAssumption, TypeOK
    <3>. QED
      BY <3>1, <3>2 DEF LeaseKept, Stored
  <2>2. IsFiniteSet(Stored(i)) /\ Cardinality(Stored(i)) \in Nat
    BY CountedSetsFinite
  <2>3. Cardinality(Live) <= Cardinality(Stored(i)) /\ Cardinality(Live) \in Nat
    BY <2>1, <2>2, FS_Subset, FS_CardinalityType
  <2>4. Cardinality(Stored(i)) <= MaxConcurrent
    BY DEF LimitsHold
  <2>5. Cardinality(Live) <= MaxConcurrent
    BY <2>2, <2>3, <2>4, QuotaAssumption DEF QuotaAssumption
  <2>. QED
    BY <2>5
<1>. QED
  BY <1>1, <1>2, CallsStayInOrder, PTL
=============================================================================
