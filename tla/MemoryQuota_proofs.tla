------------------------- MODULE MemoryQuota_proofs -------------------------
(***************************************************************************)
(* Proof that the in-memory quota manager keeps its request and concurrency *)
(* limits and the contract of an identity quota, for any number of calls    *)
(* and identities and any limits.                                           *)
(***************************************************************************)
EXTENDS MemoryQuota, FoldTheorems

\* Only a call that was granted and not settled has a stored reservation.
HoldersMatch ==
    \A r \in Requests : reservations[r] # 0 => pc[r] \in {"holding", "vanished"}

IInv == TypeOK /\ HoldersMatch /\ LimitsHold

----------------------------------------------------------------------------
LEMMA CountedSetsFinite ==
    ASSUME NEW i
    PROVE  /\ IsFiniteSet(Active(i)) /\ Cardinality(Active(i)) \in Nat
           /\ IsFiniteSet(Granted(i)) /\ Cardinality(Granted(i)) \in Nat
<1>1. Active(i) \in SUBSET Requests /\ Granted(i) \in SUBSET Requests
  BY DEF Active, Granted
<1>2. IsFiniteSet(Active(i)) /\ IsFiniteSet(Granted(i))
  BY <1>1, MemoryQuotaAssumption, FS_Subset DEF MemoryQuotaAssumption
<1>. QED
  BY <1>2, FS_CardinalityType

\* A step that changes neither what is granted nor what is stored keeps the limits.
LEMMA CountsStay ==
    ASSUME LimitsHold, usage' = usage,
           \A i \in Identities : Granted(i)' = Granted(i) /\ Active(i)' = Active(i)
    PROVE  LimitsHold'
  BY DEF LimitsHold

LEMMA InitIInv == Init => IInv
<1>. SUFFICES ASSUME Init PROVE IInv
  OBVIOUS
<1>1. TypeOK
  BY DEF Init, TypeOK, NoUsage
<1>2. HoldersMatch
  BY DEF Init, HoldersMatch
<1>3. ASSUME NEW i \in Identities
      PROVE  Granted(i) = {} /\ Active(i) = {}
  BY DEF Init, Granted, Active
<1>4. Cardinality({}) = 0
  BY FS_EmptySet
<1>5. \A i \in Identities : usage[i].requests = 0 /\ usage[i].active = 0
  BY DEF Init, NoUsage
<1>6. 0 <= MaxRequests /\ 0 <= MaxConcurrent
  BY MemoryQuotaAssumption DEF MemoryQuotaAssumption
<1>7. LimitsHold
  BY <1>3, <1>4, <1>5, <1>6 DEF LimitsHold
<1>. QED
  BY <1>1, <1>2, <1>7 DEF IInv

----------------------------------------------------------------------------
LEMMA ReserveKeeps ==
    ASSUME IInv, NEW r \in Requests, NEW n \in 1..MaxEstimate, Reserve(r, n)
    PROVE  IInv'
<1>. DEFINE i == Identity[r]
<1>1. n \in Nat /\ n # 0 /\ i \in Identities
  BY MemoryQuotaAssumption DEF MemoryQuotaAssumption
<1>2. /\ pc[r] = "idle" /\ pc' = [pc EXCEPT ![r] = "holding"]
      /\ reservations' = [reservations EXCEPT ![r] = n]
      /\ usage' = [usage EXCEPT ![i] = Charged(r, n)]
  BY DEF Reserve
<1>3. usage[i].requests < MaxRequests /\ usage[i].active < MaxConcurrent
  <2>1. ~(usage[i].requests >= MaxRequests) /\ ~(usage[i].active >= MaxConcurrent)
    BY DEF Reserve, Verdict
  <2>2. usage[i].requests \in Nat /\ usage[i].active \in Nat
    BY <1>1 DEF IInv, TypeOK
  <2>. QED
    BY <2>1, <2>2, MemoryQuotaAssumption DEF MemoryQuotaAssumption
<1>4. Charged(r, n) \in [requests : Nat, tokens : Nat, active : Nat, reserved_tokens : Nat]
  BY <1>1 DEF IInv, TypeOK, Charged
<1>5. TypeOK'
  BY <1>1, <1>2, <1>4 DEF IInv, TypeOK
<1>6. HoldersMatch'
  BY <1>2 DEF IInv, TypeOK, HoldersMatch
<1>7. reservations[r] = 0
  BY <1>2 DEF IInv, HoldersMatch
<1>8. /\ Granted(i)' = Granted(i) \cup {r} /\ r \notin Granted(i)
      /\ Active(i)' = Active(i) \cup {r} /\ r \notin Active(i)
  BY <1>1, <1>2, <1>7 DEF IInv, TypeOK, Granted, Active
<1>9. /\ Cardinality(Granted(i)') = Cardinality(Granted(i)) + 1
      /\ Cardinality(Active(i)') = Cardinality(Active(i)) + 1
  BY <1>8, CountedSetsFinite, FS_AddElement
<1>10. usage'[i].requests = usage[i].requests + 1 /\ usage'[i].active = usage[i].active + 1
  BY <1>1, <1>2 DEF IInv, TypeOK, Charged
<1>11. ASSUME NEW j \in Identities, j # i
       PROVE  Granted(j)' = Granted(j) /\ Active(j)' = Active(j) /\ usage'[j] = usage[j]
  BY <1>1, <1>2, <1>11 DEF IInv, TypeOK, Granted, Active
<1>12. usage[i].requests = Cardinality(Granted(i)) /\ usage[i].active = Cardinality(Active(i))
  BY <1>1 DEF IInv, LimitsHold
<1>13. /\ usage'[i].requests = Cardinality(Granted(i)')
       /\ usage'[i].active = Cardinality(Active(i)')
  BY <1>9, <1>10, <1>12
<1>14. usage'[i].requests <= MaxRequests /\ usage'[i].active <= MaxConcurrent
  <2>1. usage[i].requests \in Nat /\ usage[i].active \in Nat
    BY <1>1 DEF IInv, TypeOK
  <2>. QED
    BY <1>3, <1>10, <2>1, MemoryQuotaAssumption DEF MemoryQuotaAssumption
<1>15. LimitsHold'
  BY <1>11, <1>13, <1>14 DEF IInv, LimitsHold
<1>. QED
  BY <1>5, <1>6, <1>15 DEF IInv

LEMMA SettleKeeps ==
    ASSUME IInv, NEW r \in Requests, NEW n \in 0..(reservations[r] + Excess), Settle(r, n)
    PROVE  IInv'
<1>. DEFINE i == Identity[r]
<1>1. n \in Nat /\ i \in Identities
  BY MemoryQuotaAssumption DEF MemoryQuotaAssumption
<1>2. /\ pc[r] \in {"holding", "settled"} /\ pc' = [pc EXCEPT ![r] = "settled"]
      /\ reservations[r] # 0 /\ reservations' = [reservations EXCEPT ![r] = 0]
      /\ usage' = [usage EXCEPT ![i] = Settled(r, n)]
  BY DEF Settle
<1>3. \A a, b : Monus(a, b) \in Nat
  BY DEF Monus
<1>4. Settled(r, n) \in [requests : Nat, tokens : Nat, active : Nat, reserved_tokens : Nat]
  BY <1>1, <1>3 DEF IInv, TypeOK, Settled
<1>5. TypeOK'
  BY <1>1, <1>2, <1>4 DEF IInv, TypeOK
<1>6. HoldersMatch'
  BY <1>2 DEF IInv, TypeOK, HoldersMatch
<1>7. /\ Granted(i)' = Granted(i)
      /\ Active(i)' = Active(i) \ {r} /\ r \in Active(i)
  BY <1>1, <1>2 DEF IInv, TypeOK, Granted, Active
<1>8. Cardinality(Active(i)') = Cardinality(Active(i)) - 1
  BY <1>7, CountedSetsFinite, FS_RemoveElement
<1>9. usage[i].requests = Cardinality(Granted(i)) /\ usage[i].active = Cardinality(Active(i))
  BY <1>1 DEF IInv, LimitsHold
<1>10. Cardinality(Active(i)) \in Nat /\ Cardinality(Active(i)) # 0
  BY <1>7, CountedSetsFinite, FS_EmptySet
<1>11. Monus(usage[i].active, 1) = Cardinality(Active(i)) - 1
  BY <1>9, <1>10 DEF Monus
<1>12. usage'[i].requests = usage[i].requests /\ usage'[i].active = Monus(usage[i].active, 1)
  BY <1>1, <1>2 DEF IInv, TypeOK, Settled
<1>13. ASSUME NEW j \in Identities, j # i
       PROVE  Granted(j)' = Granted(j) /\ Active(j)' = Active(j) /\ usage'[j] = usage[j]
  BY <1>1, <1>2, <1>13 DEF IInv, TypeOK, Granted, Active
<1>14. /\ usage'[i].requests = Cardinality(Granted(i)')
       /\ usage'[i].requests <= MaxRequests
       /\ usage'[i].active = Cardinality(Active(i)')
  BY <1>1, <1>7, <1>8, <1>9, <1>11, <1>12 DEF IInv, LimitsHold
<1>15. usage'[i].active <= MaxConcurrent
  <2>1. usage[i].active <= MaxConcurrent /\ usage[i].active \in Nat
    BY <1>1 DEF IInv, LimitsHold, TypeOK
  <2>2. usage'[i].active = usage[i].active - 1
    BY <1>9, <1>11, <1>12
  <2>. QED
    BY <2>1, <2>2, MemoryQuotaAssumption DEF MemoryQuotaAssumption
<1>16. LimitsHold'
  BY <1>13, <1>14, <1>15 DEF IInv, LimitsHold
<1>. QED
  BY <1>5, <1>6, <1>16 DEF IInv

LEMMA RefuseKeeps ==
    ASSUME IInv, NEW r \in Requests, NEW n, Refuse(r, n)
    PROVE  IInv'
<1>1. pc[r] = "idle" /\ UNCHANGED <<usage, reservations>>
  BY DEF Refuse
<1>2. pc' = [pc EXCEPT ![r] = Verdict(r, n)] /\ Verdict(r, n) # "granted"
  BY DEF Refuse
<1>3. Verdict(r, n) \in Refusals
  BY <1>2 DEF Verdict, Refusals
<1>4. TypeOK'
  BY <1>1, <1>2, <1>3 DEF IInv, TypeOK
<1>5. HoldersMatch'
  BY <1>1, <1>2 DEF IInv, TypeOK, HoldersMatch
<1>6. \A i \in Identities : Granted(i)' = Granted(i) /\ Active(i)' = Active(i)
  BY <1>1, <1>2, <1>3 DEF IInv, TypeOK, Granted, Active, Refusals
<1>7. LimitsHold'
  BY <1>1, <1>6, CountsStay DEF IInv
<1>. QED
  BY <1>4, <1>5, <1>7 DEF IInv

LEMMA AbandonKeeps ==
    ASSUME IInv, NEW r \in Requests, Abandon(r)
    PROVE  IInv'
<1>1. pc[r] = "holding" /\ pc' = [pc EXCEPT ![r] = "vanished"]
      /\ UNCHANGED <<usage, reservations>>
  BY DEF Abandon
<1>2. TypeOK' /\ HoldersMatch'
  BY <1>1 DEF IInv, TypeOK, HoldersMatch
<1>3. \A i \in Identities : Granted(i)' = Granted(i) /\ Active(i)' = Active(i)
  BY <1>1 DEF IInv, TypeOK, Granted, Active
<1>4. LimitsHold'
  BY <1>1, <1>3, CountsStay DEF IInv
<1>. QED
  BY <1>2, <1>4 DEF IInv

LEMMA InductiveStep == IInv /\ [Next]_memoryVars => IInv'
<1>. SUFFICES ASSUME IInv, [Next]_memoryVars PROVE IInv'
  OBVIOUS
<1>1. ASSUME NEW r \in Requests, NEW n \in 1..MaxEstimate, Reserve(r, n)
      PROVE  IInv'
  BY <1>1, ReserveKeeps
<1>2. ASSUME NEW r \in Requests, NEW n \in 1..MaxEstimate, Refuse(r, n)
      PROVE  IInv'
  BY <1>2, RefuseKeeps
<1>3. ASSUME NEW r \in Requests, NEW n \in 0..(reservations[r] + Excess), Settle(r, n)
      PROVE  IInv'
  BY <1>3, SettleKeeps
<1>4. ASSUME NEW r \in Requests, Abandon(r)
      PROVE  IInv'
  BY <1>4, AbandonKeeps
<1>5. CASE UNCHANGED memoryVars
  <2>1. UNCHANGED <<usage, reservations, pc>>
    BY <1>5 DEF memoryVars
  <2>. QED
    BY <2>1 DEF IInv, TypeOK, HoldersMatch, LimitsHold, Granted, Active
<1>. QED
  BY <1>1, <1>2, <1>3, <1>4, <1>5 DEF Next

----------------------------------------------------------------------------
\* The request and concurrency limits of IdentityQuotaManager hold in every
\* state, for any calls, identities and limits, and its counters are exact.
THEOREM MemoryLimitsCorrect == Spec => []LimitsHold
<1>1. Spec => []IInv
  BY InitIInv, InductiveStep, PTL DEF Spec
<1>2. IInv => LimitsHold
  BY DEF IInv
<1>. QED
  BY <1>1, <1>2, PTL
----------------------------------------------------------------------------
\* The reserved tokens of an identity are the sum of its open reservations, each
\* within what a caller may estimate.
TokensCovered ==
    /\ \A i \in Identities :
          usage[i].reserved_tokens = SumFunctionOnSet(reservations, Active(i))
    /\ \A r \in Requests : reservations[r] <= MaxEstimate

MemoryInvariant == IInv /\ TokensCovered

LEMMA ReserveCovers ==
    ASSUME MemoryInvariant, NEW r \in Requests, NEW n \in 1..MaxEstimate, Reserve(r, n)
    PROVE  TokensCovered'
<1>. USE DEF MemoryInvariant, IInv
<1>. DEFINE i == Identity[r]
<1>1. n \in Nat /\ n # 0 /\ n <= MaxEstimate /\ i \in Identities
  BY MemoryQuotaAssumption DEF MemoryQuotaAssumption
<1>2. /\ pc[r] = "idle"
      /\ reservations' = [reservations EXCEPT ![r] = n]
      /\ usage' = [usage EXCEPT ![i] = Charged(r, n)]
  BY DEF Reserve
<1>3. reservations[r] = 0
  BY <1>2 DEF HoldersMatch
<1>4. \A q \in Requests : reservations'[q] = IF q = r THEN n ELSE reservations[q]
  BY <1>2 DEF TypeOK
<1>5. \A q \in Requests : reservations'[q] <= MaxEstimate
  BY <1>1, <1>4 DEF TokensCovered
<1>6. ASSUME NEW j \in Identities, j # i
      PROVE  usage'[j].reserved_tokens = SumFunctionOnSet(reservations', Active(j)')
  <2>1. Active(j)' = Active(j) /\ usage'[j] = usage[j] /\ IsFiniteSet(Active(j))
    BY <1>2, <1>4, <1>6, CountedSetsFinite DEF Active, TypeOK
  <2>2. \A q \in Active(j) : reservations[q] \in Nat /\ reservations'[q] = reservations[q]
    BY <1>4, <1>6 DEF Active, TypeOK
  <2>3. SumFunctionOnSet(reservations', Active(j)) = SumFunctionOnSet(reservations, Active(j))
    BY <2>1, <2>2, SumAgrees
  <2>. QED
    BY <2>1, <2>3 DEF TokensCovered
<1>7. usage'[i].reserved_tokens = SumFunctionOnSet(reservations', Active(i)')
  <2>1. /\ Active(i)' = Active(i) \cup {r} /\ r \notin Active(i)
        /\ IsFiniteSet(Active(i))
    BY <1>1, <1>3, <1>4, CountedSetsFinite DEF Active
  <2>2. \A q \in Active(i) : reservations[q] \in Nat /\ reservations'[q] = reservations[q]
    BY <1>4, <2>1 DEF Active, TypeOK
  <2>3. \A q \in Active(i) \cup {r} : reservations'[q] \in Nat
    BY <1>1, <1>4, <2>2
  <2>4. SumFunctionOnSet(reservations', Active(i) \cup {r})
           = reservations'[r] + SumFunctionOnSet(reservations', Active(i))
    BY <2>1, <2>3, SumOfOneMore
  <2>5. SumFunctionOnSet(reservations', Active(i)) = SumFunctionOnSet(reservations, Active(i))
    BY <2>1, <2>2, SumAgrees
  <2>6. /\ usage'[i].reserved_tokens = usage[i].reserved_tokens + n
        /\ usage[i].reserved_tokens = SumFunctionOnSet(reservations, Active(i))
        /\ usage[i].reserved_tokens \in Nat
    BY <1>1, <1>2 DEF Charged, TypeOK, TokensCovered
  <2>. QED
    BY <1>1, <1>4, <2>1, <2>4, <2>5, <2>6
<1>. QED
  BY <1>5, <1>6, <1>7 DEF TokensCovered

LEMMA SettleCovers ==
    ASSUME MemoryInvariant, NEW r \in Requests, NEW n, Settle(r, n)
    PROVE  TokensCovered'
<1>. USE DEF MemoryInvariant, IInv
<1>. DEFINE i == Identity[r]
<1>1. i \in Identities /\ 0 <= MaxEstimate
  BY MemoryQuotaAssumption DEF MemoryQuotaAssumption
<1>2. /\ reservations[r] # 0
      /\ reservations' = [reservations EXCEPT ![r] = 0]
      /\ usage' = [usage EXCEPT ![i] = Settled(r, n)]
  BY DEF Settle
<1>3. \A q \in Requests : reservations'[q] = IF q = r THEN 0 ELSE reservations[q]
  BY <1>2 DEF TypeOK
<1>4. \A q \in Requests : reservations'[q] <= MaxEstimate
  BY <1>1, <1>3 DEF TokensCovered
<1>5. ASSUME NEW j \in Identities
      PROVE  /\ Active(j)' = Active(j) \ {r}
             /\ IsFiniteSet(Active(j) \ {r})
             /\ SumFunctionOnSet(reservations', Active(j) \ {r})
                   = SumFunctionOnSet(reservations, Active(j) \ {r})
  <2>1. Active(j)' = Active(j) \ {r}
    BY <1>3 DEF Active
  <2>2. IsFiniteSet(Active(j) \ {r})
    BY CountedSetsFinite, FS_Subset
  <2>3. \A q \in Active(j) \ {r} : reservations[q] \in Nat /\ reservations'[q] = reservations[q]
    BY <1>3 DEF Active, TypeOK
  <2>. QED
    BY <2>1, <2>2, <2>3, SumAgrees
<1>6. ASSUME NEW j \in Identities, j # i
      PROVE  usage'[j].reserved_tokens = SumFunctionOnSet(reservations', Active(j)')
  <2>1. Active(j) \ {r} = Active(j) /\ usage'[j] = usage[j]
    BY <1>2, <1>6 DEF Active, TypeOK
  <2>. QED
    BY <1>5, <2>1 DEF TokensCovered
<1>7. usage'[i].reserved_tokens = SumFunctionOnSet(reservations', Active(i)')
  <2>. DEFINE rest == Active(i) \ {r}
  <2>1. r \in Active(i) /\ r \notin rest /\ Active(i) = rest \cup {r} /\ IsFiniteSet(rest)
    BY <1>1, <1>2, <1>5 DEF Active
  <2>2. \A q \in Active(i) : reservations[q] \in Nat
    BY DEF Active, TypeOK
  <2>. HIDE DEF rest
  <2>3. /\ SumFunctionOnSet(reservations, Active(i))
             = reservations[r] + SumFunctionOnSet(reservations, rest)
        /\ SumFunctionOnSet(reservations, rest) \in Nat
    BY <2>1, <2>2, SumOfOneMore, SumType
  <2>4. /\ usage'[i].reserved_tokens = Monus(usage[i].reserved_tokens, reservations[r])
        /\ usage[i].reserved_tokens = SumFunctionOnSet(reservations, Active(i))
        /\ reservations[r] \in Nat
    BY <1>1, <1>2 DEF Settled, TypeOK, TokensCovered
  <2>5. usage'[i].reserved_tokens = SumFunctionOnSet(reservations, rest)
    BY <2>3, <2>4 DEF Monus
  <2>. QED
    BY <1>1, <1>5, <2>5 DEF rest
<1>. QED
  BY <1>4, <1>6, <1>7 DEF TokensCovered

LEMMA CoverStep == MemoryInvariant /\ [Next]_memoryVars => TokensCovered'
<1>. SUFFICES ASSUME MemoryInvariant, [Next]_memoryVars PROVE TokensCovered'
  OBVIOUS
<1>1. UNCHANGED <<usage, reservations>> => TokensCovered'
  BY DEF MemoryInvariant, TokensCovered, Active
<1>2. ASSUME NEW r \in Requests, NEW n, Refuse(r, n) \/ Abandon(r) PROVE TokensCovered'
  BY <1>1, <1>2 DEF Refuse, Abandon
<1>3. ASSUME NEW r \in Requests, NEW n, Settle(r, n) PROVE TokensCovered'
  BY <1>3, SettleCovers
<1>4. ASSUME NEW r \in Requests, NEW n \in 1..MaxEstimate, Reserve(r, n) PROVE TokensCovered'
  BY <1>4, ReserveCovers
<1>. QED
  BY <1>1, <1>2, <1>3, <1>4 DEF Next, memoryVars

----------------------------------------------------------------------------
\* The variables of IdentityQuotaContract, as this manager implements them.
Given == UNION {Granted(i) : i \in Identities}
Spent == [i \in Identities |-> usage[i].tokens]

\* The contract counts and sums as the manager does.
LEMMA ContractCounts ==
    /\ \A S : Contract!Cardinality(S) = Cardinality(S)
    /\ \A f, S : Contract!SumFunctionOnSet(f, S) = SumFunctionOnSet(f, S)
<1>1. \A S : Contract!Cardinality(S) = Cardinality(S)
  BY Zenon DEF Contract!Cardinality, Cardinality
<1>2. \A f, S : Contract!SumFunctionOnSet(f, S) = SumFunctionOnSet(f, S)
  BY Zenon DEF Contract!SumFunctionOnSet, SumFunctionOnSet, Contract!FoldFunctionOnSet,
               FoldFunctionOnSet, Contract!MapThenFoldSet, MapThenFoldSet
<1>. QED
  BY <1>1, <1>2

\* Who was granted a lease, by identity and together, and who holds one.
LEMMA GivenByIdentity ==
    /\ Given = {r \in Requests : pc[r] \in {"holding", "settled", "vanished"}}
    /\ \A i \in Identities : Given \cap Contract!Of(i) = Granted(i)
    /\ \A i \in Identities : Contract!Held(i) = Active(i)
<1>1. \A r \in Requests : Identity[r] \in Identities
  BY MemoryQuotaAssumption DEF MemoryQuotaAssumption
<1>2. Given = {r \in Requests : pc[r] \in {"holding", "settled", "vanished"}}
  BY <1>1 DEF Given, Granted
<1>3. \A i \in Identities : Given \cap Contract!Of(i) = Granted(i)
  BY <1>2 DEF Contract!Of, Granted
<1>4. \A i \in Identities : Contract!Held(i) = Active(i)
  BY DEF Contract!Held, Contract!Of, Active
<1>. QED
  BY <1>2, <1>3, <1>4

LEMMA ReserveGrants ==
    ASSUME MemoryInvariant, NEW r \in Requests, NEW n \in 1..MaxEstimate, Reserve(r, n)
    PROVE  Contract!Grant(r)
<1>. USE DEF MemoryInvariant, IInv
<1>. DEFINE i == Identity[r]
            amounts == 0..(MaxEstimate + Excess)
<1>1. i \in Identities /\ n \in amounts \ {0} /\ n \in Nat
  BY MemoryQuotaAssumption DEF MemoryQuotaAssumption
<1>2. /\ pc[r] = "idle" /\ pc' = [pc EXCEPT ![r] = "holding"]
      /\ reservations' = [reservations EXCEPT ![r] = n]
      /\ usage' = [usage EXCEPT ![i] = Charged(r, n)]
  BY DEF Reserve
<1>3. r \notin Given /\ Given' = Given \cup {r}
  <2>1. \A j : Granted(j)' = {q \in Requests : Identity[q] = j
                                   /\ pc'[q] \in {"holding", "settled", "vanished"}}
    BY DEF Granted
  <2>2. \A q \in Requests : Identity[q] \in Identities
    BY MemoryQuotaAssumption DEF MemoryQuotaAssumption
  <2>3. Given' = {q \in Requests : pc'[q] \in {"holding", "settled", "vanished"}}
    BY <2>1, <2>2 DEF Given
  <2>. QED
    BY <1>2, <2>3, GivenByIdentity DEF TypeOK
<1>4. /\ usage[i].requests \in Nat /\ usage[i].active \in Nat
      /\ usage[i].tokens \in Nat /\ usage[i].reserved_tokens \in Nat
  BY <1>1 DEF TypeOK
<1>5. /\ ~(usage[i].requests >= MaxRequests)
      /\ ~(usage[i].active >= MaxConcurrent)
      /\ ~(usage[i].tokens + usage[i].reserved_tokens + n > MaxTokens)
  BY DEF Reserve, Verdict
<1>6. /\ Cardinality(Given \cap Contract!Of(i)) < MaxRequests
      /\ Cardinality(Active(i)) < MaxConcurrent
      /\ usage[i].tokens + SumFunctionOnSet(reservations, Active(i)) + n <= MaxTokens
  <2>1. /\ usage[i].requests = Cardinality(Given \cap Contract!Of(i))
        /\ usage[i].active = Cardinality(Active(i))
        /\ usage[i].reserved_tokens = SumFunctionOnSet(reservations, Active(i))
    BY <1>1, GivenByIdentity DEF LimitsHold, TokensCovered
  <2>2. MaxRequests \in Nat /\ MaxConcurrent \in Nat /\ MaxTokens \in Nat
    BY MemoryQuotaAssumption DEF MemoryQuotaAssumption
  <2>. HIDE DEF i
  <2>. QED
    BY <1>1, <1>4, <1>5, <2>1, <2>2
<1>7. Spent' = Spent
  BY <1>1, <1>2 DEF Spent, Charged, TypeOK
<1>8. reservations' = [q \in Requests |-> CASE q = r -> n
                                            [] q \in {} -> 0
                                            [] OTHER -> reservations[q]]
  BY <1>2 DEF TypeOK
<1>9. Spent[i] = usage[i].tokens
  BY <1>1 DEF Spent
<1>. HIDE DEF i, amounts
<1>10. \E t \in amounts \ {0}, g \in SUBSET Contract!Held(i) :
          /\ reservations' = [q \in Requests |-> CASE q = r -> t
                                                   [] q \in g -> 0
                                                   [] OTHER -> reservations[q]]
          /\ Cardinality(Contract!Held(i) \ g) < MaxConcurrent
          /\ Spent[i] + SumFunctionOnSet(reservations, Contract!Held(i) \ g) + t <= MaxTokens
  <2>1. {} \in SUBSET Contract!Held(i) /\ Contract!Held(i) \ {} = Active(i)
    BY <1>1, GivenByIdentity
  <2>. QED
    BY <1>1, <1>6, <1>8, <1>9, <2>1
<1>. QED
  BY <1>3, <1>6, <1>7, <1>10, ContractCounts DEF Contract!Grant, Given, Spent, i, amounts

LEMMA SettleReleases ==
    ASSUME MemoryInvariant, NEW r \in Requests, NEW n \in 0..(reservations[r] + Excess),
           Settle(r, n)
    PROVE  Contract!Release(r)
<1>. USE DEF MemoryInvariant, IInv
<1>. DEFINE i == Identity[r]
<1>1. i \in Identities /\ n \in 0..(MaxEstimate + Excess)
  BY MemoryQuotaAssumption DEF MemoryQuotaAssumption, TypeOK, TokensCovered
<1>2. /\ pc[r] \in {"holding", "settled"} /\ pc' = [pc EXCEPT ![r] = "settled"]
      /\ reservations[r] # 0 /\ reservations' = [reservations EXCEPT ![r] = 0]
      /\ usage' = [usage EXCEPT ![i] = Settled(r, n)]
  BY DEF Settle
<1>3. Given' = Given
  <2>1. \A j : Granted(j)' = Granted(j)
    BY <1>2 DEF Granted, TypeOK
  <2>. QED
    BY <2>1 DEF Given
<1>4. Spent' = [Spent EXCEPT ![i] = @ + n]
  BY <1>1, <1>2 DEF Spent, Settled, TypeOK
<1>5. \E actual \in 0..(MaxEstimate + Excess) : Spent' = [Spent EXCEPT ![i] = @ + actual]
  BY <1>1, <1>4
<1>. QED
  BY <1>2, <1>3, <1>5 DEF Contract!Release, Given, Spent

\* A refusal, or a caller that goes away, is invisible to the contract.
LEMMA OthersStutter ==
    ASSUME MemoryInvariant, NEW r \in Requests, NEW n, Refuse(r, n) \/ Abandon(r)
    PROVE  UNCHANGED Contract!contractVars
<1>. USE DEF MemoryInvariant, IInv
<1>1. UNCHANGED <<usage, reservations>>
  BY DEF Refuse, Abandon
<1>2. \A j : Granted(j)' = Granted(j)
  <2>1. CASE Refuse(r, n)
    BY <2>1 DEF Refuse, Verdict, Granted, TypeOK
  <2>2. CASE Abandon(r)
    BY <2>2 DEF Abandon, Granted, TypeOK
  <2>. QED
    BY <2>1, <2>2
<1>. QED
  BY <1>1, <1>2 DEF Contract!contractVars

\* The in-memory manager keeps the contract of an identity quota: for any calls and
\* identities, each operation grants one lease within the three limits, ends one with
\* what was used, or is invisible to the contract.
THEOREM MemoryKeepsContract == Spec => ImplementsContract
<1>1. Init => MemoryInvariant /\ Contract!ContractInit
  <2>. SUFFICES ASSUME Init PROVE TokensCovered /\ Contract!ContractInit
    BY InitIInv DEF MemoryInvariant
  <2>1. \A i : Active(i) = {} /\ Granted(i) = {}
    BY DEF Init, Active, Granted
  <2>2. TokensCovered
    BY <2>1, SumOfNone, MemoryQuotaAssumption
    DEF TokensCovered, Init, NoUsage, MemoryQuotaAssumption
  <2>3. [i \in Identities |-> usage[i].tokens] = [i \in Identities |-> 0]
    BY DEF Init, NoUsage
  <2>4. UNION {Granted(i) : i \in Identities} = {}
    BY <2>1
  <2>. QED
    BY <2>2, <2>3, <2>4 DEF Contract!ContractInit, Init
<1>2. MemoryInvariant /\ [Next]_memoryVars => MemoryInvariant'
  BY InductiveStep, CoverStep DEF MemoryInvariant
<1>3. MemoryInvariant /\ [Next]_memoryVars => [Contract!ContractNext]_Contract!contractVars
  <2>. SUFFICES ASSUME MemoryInvariant, [Next]_memoryVars
                PROVE  Contract!ContractNext \/ UNCHANGED Contract!contractVars
    OBVIOUS
  <2>1. ASSUME NEW r \in Requests, NEW n \in 1..MaxEstimate, Reserve(r, n)
        PROVE  Contract!ContractNext
    BY <2>1, ReserveGrants DEF Contract!ContractNext
  <2>2. ASSUME NEW r \in Requests, NEW n \in 0..(reservations[r] + Excess), Settle(r, n)
        PROVE  Contract!ContractNext
    BY <2>2, SettleReleases DEF Contract!ContractNext
  <2>3. ASSUME NEW r \in Requests, NEW n, Refuse(r, n) \/ Abandon(r)
        PROVE  UNCHANGED Contract!contractVars
    BY <2>3, OthersStutter
  <2>4. CASE UNCHANGED memoryVars
    BY <2>4 DEF memoryVars, Contract!contractVars, Granted
  <2>. QED
    BY <2>1, <2>2, <2>3, <2>4 DEF Next
<1>. QED
  BY <1>1, <1>2, <1>3, PTL DEF Spec, ImplementsContract, Contract!ContractSpec
============================================================================
