------------------------- MODULE Supervision_proofs -------------------------
(***************************************************************************)
(* Proofs about the three controls, for every value of the constants: what  *)
(* require lets through was approved by an independent person, whatever      *)
(* decisions race; the loop of cycles stays within its policy and reports    *)
(* the reason it stopped for; the inventory and the archive of a release     *)
(* agree on whatever nobody changed meanwhile.                               *)
(***************************************************************************)
EXTENDS ApprovalGate, Workflow, ReleaseInventory, FoldTheorems, SequenceTheorems,
        FiniteSetTheorems, WellFoundedInduction, TLAPS

-----------------------------------------------------------------------------
(* The approval gate.                                                        *)

\* An independent person took the decision of record "r".
Independent(r) == r.decided_by \in People \ {r.requested_by}

\* A decision on its way to the store, or stored, is an independent one.
FramesIndependent ==
    \A d \in Decisions : pc[d] \in {"saving", "returned"} =>
        updated[d] \in Record /\ Independent(updated[d])

\* An approved row is what a decision that returned has saved.
RowsAreDecisions ==
    \A q \in Requests : row[q] # NoRecord /\ row[q].status = "approved" =>
        \E d \in Decisions : pc[d] = "returned" /\ target[d] = q /\ updated[d] = row[q]

IInv == TypeOK /\ FramesIndependent /\ RowsAreDecisions /\ UsesAreApproved

----------------------------------------------------------------------------
\* A step that keeps the decisions which have returned keeps what they prove.
LEMMA ReturnedStay ==
    ASSUME UsesAreApproved, UNCHANGED <<target, proof>>,
           \A d \in Decisions : pc[d] = "returned" =>
               pc'[d] = "returned" /\ updated'[d] = updated[d]
    PROVE  UsesAreApproved'
  BY DEF UsesAreApproved

LEMMA RowsStay ==
    ASSUME RowsAreDecisions, UNCHANGED <<target, row>>,
           \A d \in Decisions : pc[d] = "returned" =>
               pc'[d] = "returned" /\ updated'[d] = updated[d]
    PROVE  RowsAreDecisions'
  BY DEF RowsAreDecisions

LEMMA InitIInv == Init => IInv
<1>. SUFFICES ASSUME Init PROVE IInv
  OBVIOUS
<1>. USE DEF Init
<1>1. TypeOK
  BY DEF TypeOK
<1>2. FramesIndependent
  BY DEF FramesIndependent
<1>3. RowsAreDecisions
  BY DEF RowsAreDecisions
<1>4. UsesAreApproved
  BY DEF UsesAreApproved
<1>. QED
  BY <1>1, <1>2, <1>3, <1>4 DEF IInv

----------------------------------------------------------------------------
LEMMA RequestKeeps ==
    ASSUME IInv, NEW q \in Requests, NEW action, NEW requester \in People,
           Request(q, action, requester)
    PROVE  IInv'
<1>1. action \in Actions /\ UNCHANGED <<pc, target, updated, proof>>
  BY DEF Request
<1>2. [action |-> action, requested_by |-> requester,
       status |-> "pending", decided_by |-> NoOne] \in Record
  BY <1>1 DEF Record
<1>3. TypeOK'
  BY <1>1, <1>2 DEF IInv, TypeOK, Request
<1>4. FramesIndependent'
  BY <1>1 DEF IInv, FramesIndependent, Independent
<1>5. ASSUME NEW p \in Requests, row'[p] # NoRecord, row'[p].status = "approved"
      PROVE  \E d \in Decisions : pc'[d] = "returned" /\ target'[d] = p /\ updated'[d] = row'[p]
  <2>1. p # q /\ row'[p] = row[p]
    BY <1>5 DEF Request, IInv, TypeOK
  <2>. QED
    BY <1>1, <1>5, <2>1 DEF IInv, RowsAreDecisions
<1>6. RowsAreDecisions'
  BY <1>5 DEF RowsAreDecisions
<1>7. UsesAreApproved'
  BY <1>1, ReturnedStay DEF IInv
<1>. QED
  BY <1>3, <1>4, <1>6, <1>7 DEF IInv

LEMMA DecideKeeps ==
    ASSUME IInv, NEW d \in Decisions, NEW approved \in BOOLEAN,
           NEW decider \in People \cup {NoOne}, Decide(d, approved, decider)
    PROVE  IInv'
<1>. DEFINE r == Decided(target[d], approved, decider)
<1>1. /\ pc[d] = "idle" /\ pc' = [pc EXCEPT ![d] = "saving"]
      /\ updated' = [updated EXCEPT ![d] = r]
      /\ UNCHANGED <<row, target, proof>>
  BY DEF Decide
<1>2. target[d] \in Requests /\ row[target[d]] \in Record
  BY DEF IInv, TypeOK, Decide, MayDecide, Stored
<1>3. decider \in People \ {row[target[d]].requested_by}
  BY DEF Decide, MayDecide
<1>4. r \in Record /\ Independent(r)
  BY <1>2, <1>3 DEF Decided, Record, Independent
<1>5. TypeOK'
  BY <1>1, <1>4 DEF IInv, TypeOK
<1>6. ASSUME NEW e \in Decisions, pc'[e] \in {"saving", "returned"}
      PROVE  updated'[e] \in Record /\ Independent(updated'[e])
  <2>1. CASE e = d
    BY <1>1, <1>4, <2>1 DEF IInv, TypeOK
  <2>2. CASE e # d
    BY <1>1, <1>6, <2>2 DEF IInv, TypeOK, FramesIndependent
  <2>. QED
    BY <2>1, <2>2
<1>7. FramesIndependent'
  BY <1>6 DEF FramesIndependent, Independent
<1>8. \A e \in Decisions : pc[e] = "returned" =>
          pc'[e] = "returned" /\ updated'[e] = updated[e]
  BY <1>1 DEF IInv, TypeOK
<1>9. RowsAreDecisions'
  BY <1>1, <1>8, RowsStay DEF IInv
<1>10. UsesAreApproved'
  BY <1>1, <1>8, ReturnedStay DEF IInv
<1>. QED
  BY <1>5, <1>7, <1>9, <1>10 DEF IInv

\* A decision that ends without a save changes nothing that was proved.
LEMMA RaisedKeeps ==
    ASSUME IInv, NEW d \in Decisions, pc[d] \in {"idle", "saving"},
           pc' = [pc EXCEPT ![d] = "raised"],
           UNCHANGED <<row, target, updated, proof>>
    PROVE  IInv'
<1>1. TypeOK'
  BY DEF IInv, TypeOK
<1>2. FramesIndependent'
  BY DEF IInv, TypeOK, FramesIndependent, Independent
<1>3. \A e \in Decisions : pc[e] = "returned" =>
          pc'[e] = "returned" /\ updated'[e] = updated[e]
  BY DEF IInv, TypeOK
<1>4. RowsAreDecisions' /\ UsesAreApproved'
  BY <1>3, RowsStay, ReturnedStay DEF IInv
<1>. QED
  BY <1>1, <1>2, <1>4 DEF IInv

LEMMA SaveKeeps ==
    ASSUME IInv, NEW d \in Decisions, SaveDecision(d)
    PROVE  IInv'
<1>1. /\ pc[d] = "saving" /\ pc' = [pc EXCEPT ![d] = "returned"]
      /\ row' = [row EXCEPT ![target[d]] = updated[d]]
      /\ UNCHANGED <<target, updated, proof>>
  BY DEF SaveDecision
<1>2. updated[d] \in Record /\ Independent(updated[d])
  BY <1>1 DEF IInv, FramesIndependent
<1>3. TypeOK'
  BY <1>1, <1>2 DEF IInv, TypeOK
<1>4. FramesIndependent'
  BY <1>1, <1>2 DEF IInv, TypeOK, FramesIndependent, Independent
<1>5. \A e \in Decisions : pc[e] = "returned" =>
          pc'[e] = "returned" /\ updated'[e] = updated[e]
  BY <1>1 DEF IInv, TypeOK
<1>6. ASSUME NEW q \in Requests, row'[q] # NoRecord, row'[q].status = "approved"
      PROVE  \E e \in Decisions : pc'[e] = "returned" /\ target'[e] = q /\ updated'[e] = row'[q]
  <2>1. CASE q = target[d]
    <3>1. pc'[d] = "returned" /\ target'[d] = q /\ updated'[d] = row'[q]
      BY <1>1, <2>1 DEF IInv, TypeOK
    <3>. QED
      BY <3>1
  <2>2. CASE q # target[d]
    <3>1. row'[q] = row[q]
      BY <1>1, <2>2 DEF IInv, TypeOK
    <3>2. PICK e \in Decisions : pc[e] = "returned" /\ target[e] = q /\ updated[e] = row[q]
      BY <1>6, <3>1 DEF IInv, RowsAreDecisions
    <3>. QED
      BY <1>1, <1>5, <3>1, <3>2
  <2>. QED
    BY <2>1, <2>2
<1>7. RowsAreDecisions'
  BY <1>6 DEF RowsAreDecisions
<1>8. UsesAreApproved'
  BY <1>1, <1>5, ReturnedStay DEF IInv
<1>. QED
  BY <1>3, <1>4, <1>7, <1>8 DEF IInv

LEMMA RequireKeeps ==
    ASSUME IInv, NEW u \in Uses, NEW action \in Actions \cup Unprotected,
           NEW q \in Requests, Require(u, action, q)
    PROVE  IInv'
<1>. DEFINE p == [action |-> action, request |-> q, record |-> row[q]]
<1>1. /\ row[q] # NoRecord /\ row[q].action = action /\ row[q].status = "approved"
      /\ UNCHANGED <<row, pc, target, updated>>
  BY DEF Require, Covers, Stored
<1>2. row[q] \in Record
  BY <1>1 DEF IInv, TypeOK
<1>3. proof' = [proof EXCEPT ![u] = p]
  BY DEF Require
<1>4. TypeOK'
  BY <1>1, <1>2, <1>3 DEF IInv, TypeOK
<1>5. FramesIndependent' /\ RowsAreDecisions'
  BY <1>1 DEF IInv, FramesIndependent, RowsAreDecisions, Independent
<1>6. PICK d \in Decisions : pc[d] = "returned" /\ target[d] = q /\ updated[d] = row[q]
  BY <1>1 DEF IInv, RowsAreDecisions
<1>7. Independent(row[q])
  BY <1>6 DEF IInv, FramesIndependent
<1>8. ASSUME NEW v \in Uses, proof'[v] # NoProof
      PROVE  /\ proof'[v].record.action = proof'[v].action
             /\ Independent(proof'[v].record)
             /\ \E e \in Decisions : pc'[e] = "returned" /\ target'[e] = proof'[v].request
                                    /\ updated'[e] = proof'[v].record
                                    /\ updated'[e].status = "approved"
  <2>1. CASE v = u
    <3>1. proof'[v] = p
      BY <1>3, <2>1 DEF IInv, TypeOK
    <3>. QED
      BY <1>1, <1>6, <1>7, <3>1
  <2>2. CASE v # u
    <3>1. proof'[v] = proof[v]
      BY <1>3, <2>2 DEF IInv, TypeOK
    <3>. QED
      BY <1>1, <1>8, <3>1 DEF IInv, UsesAreApproved, Independent
  <2>. QED
    BY <2>1, <2>2
<1>9. UsesAreApproved'
  BY <1>8 DEF UsesAreApproved, Independent
<1>. QED
  BY <1>4, <1>5, <1>9 DEF IInv

LEMMA InductiveStep == IInv /\ [Next]_approvalVars => IInv'
<1>. SUFFICES ASSUME IInv, [Next]_approvalVars PROVE IInv'
  OBVIOUS
<1>1. ASSUME NEW q \in Requests, NEW action \in Actions \cup Unprotected,
             NEW requester \in People, Request(q, action, requester)
      PROVE  IInv'
  BY <1>1, RequestKeeps
<1>2. ASSUME NEW d \in Decisions, NEW approved \in BOOLEAN,
             NEW decider \in People \cup {NoOne}, Decide(d, approved, decider)
      PROVE  IInv'
  BY <1>2, DecideKeeps
<1>3. ASSUME NEW d \in Decisions, NEW decider, DecisionRefused(d, decider)
      PROVE  IInv'
  BY <1>3, RaisedKeeps DEF DecisionRefused
<1>4. ASSUME NEW d \in Decisions, SaveDecision(d)
      PROVE  IInv'
  BY <1>4, SaveKeeps
<1>5. ASSUME NEW d \in Decisions, DecisionLost(d)
      PROVE  IInv'
  BY <1>5, RaisedKeeps DEF DecisionLost
<1>6. ASSUME NEW u \in Uses, NEW action \in Actions \cup Unprotected,
             NEW q \in Requests, Require(u, action, q)
      PROVE  IInv'
  BY <1>6, RequireKeeps
<1>7. CASE UNCHANGED approvalVars
  <2>1. UNCHANGED <<row, pc, target, updated, proof>>
    BY <1>7 DEF approvalVars
  <2>. QED
    BY <2>1 DEF IInv, TypeOK, FramesIndependent, RowsAreDecisions, UsesAreApproved, Independent
<1>. QED
  BY <1>1, <1>2, <1>3, <1>4, <1>5, <1>6, <1>7 DEF Next

----------------------------------------------------------------------------
\* Every use of the gate was approved, for its very action, by a decision that
\* an independent person took and the store kept (HumanApprovalGate.require).
THEOREM GateIsIndependent == Spec => []UsesAreApproved
<1>1. Spec => []IInv
  BY InitIInv, InductiveStep, PTL DEF Spec
<1>2. IInv => UsesAreApproved
  BY DEF IInv
<1>. QED
  BY <1>1, <1>2, PTL

----------------------------------------------------------------------------
\* In one process: the only decision on its way to the store is about a request
\* that is still pending there.
SavesPending ==
    \A d \in Decisions : pc[d] = "saving" =>
        /\ target[d] \in Stored
        /\ row[target[d]].status = "pending"
        /\ \A e \in Decisions : pc[e] = "saving" => e = d

LEMMA InitPending == Init => SavesPending
  BY DEF Init, SavesPending

\* A step that adds no frame to those that save, and leaves the stored rows alone.
LEMMA NothingSaved ==
    ASSUME SavesPending, UNCHANGED target,
           \A d \in Decisions : pc'[d] = "saving" => pc[d] = "saving",
           \A q \in Stored : row'[q] = row[q]
    PROVE  SavesPending'
<1>1. ASSUME NEW q \in Stored PROVE q \in Stored'
  BY <1>1 DEF Stored
<1>. QED
  BY <1>1 DEF SavesPending

LEMMA DecidePending ==
    ASSUME Serial, IInv, SavesPending, NEW d \in Decisions, NEW approved \in BOOLEAN,
           NEW decider \in People \cup {NoOne}, Decide(d, approved, decider)
    PROVE  SavesPending'
<1>1. UNCHANGED <<row, target>> /\ target[d] \in Stored /\ row[target[d]].status = "pending"
  BY DEF Decide, MayDecide
<1>2. \A e \in Decisions : pc'[e] = "saving" => e = d
  <2>1. \A e \in Decisions : pc[e] # "saving"
    BY DEF Decide
  <2>2. \A e \in Decisions : e # d => pc'[e] = pc[e]
    BY DEF Decide, IInv, TypeOK
  <2>. QED
    BY <2>1, <2>2
<1>. QED
  BY <1>1, <1>2 DEF SavesPending, Stored

LEMMA SavePending ==
    ASSUME IInv, SavesPending, NEW d \in Decisions, SaveDecision(d)
    PROVE  SavesPending' /\ KeepsDecisions
<1>1. \A e \in Decisions : pc'[e] # "saving"
  <2>1. \A e \in Decisions : pc'[e] = IF e = d THEN "returned" ELSE pc[e]
    BY DEF SaveDecision, IInv, TypeOK
  <2>2. \A e \in Decisions : pc[e] = "saving" => e = d
    BY DEF SaveDecision, SavesPending
  <2>. QED
    BY <2>1, <2>2
<1>2. row[target[d]].status = "pending"
  BY DEF SaveDecision, SavesPending
<1>3. \A q \in Requests : q # target[d] => row'[q] = row[q]
  BY DEF SaveDecision, IInv, TypeOK
<1>4. KeepsDecisions
  BY <1>2, <1>3 DEF KeepsDecisions, Stored
<1>. QED
  BY <1>1, <1>4 DEF SavesPending

LEMMA PendingStep ==
    ASSUME Serial, IInv, SavesPending, [Next]_approvalVars
    PROVE  SavesPending' /\ KeepsDecisions
<1>1. ASSUME NEW q \in Requests, NEW action \in Actions \cup Unprotected,
             NEW requester \in People, Request(q, action, requester)
      PROVE  SavesPending' /\ KeepsDecisions
  <2>1. \A stored \in Stored : row'[stored] = row[stored]
    BY <1>1 DEF Request, IInv, TypeOK, Stored
  <2>2. UNCHANGED <<pc, target>>
    BY <1>1 DEF Request
  <2>. QED
    BY <2>1, <2>2, NothingSaved DEF KeepsDecisions
<1>2. ASSUME NEW d \in Decisions, NEW approved \in BOOLEAN,
             NEW decider \in People \cup {NoOne}, Decide(d, approved, decider)
      PROVE  SavesPending' /\ KeepsDecisions
  <2>1. KeepsDecisions
    BY <1>2 DEF Decide, KeepsDecisions
  <2>. QED
    BY <1>2, <2>1, DecidePending
<1>3. ASSUME NEW d \in Decisions, UNCHANGED <<row, target>>,
             pc' = [pc EXCEPT ![d] = "raised"]
      PROVE  SavesPending' /\ KeepsDecisions
  <2>1. \A e \in Decisions : pc'[e] = "saving" => pc[e] = "saving"
    BY <1>3 DEF IInv, TypeOK
  <2>2. SavesPending'
    BY <1>3, <2>1, NothingSaved
  <2>. QED
    BY <1>3, <2>2 DEF KeepsDecisions
<1>4. ASSUME NEW d \in Decisions, SaveDecision(d)
      PROVE  SavesPending' /\ KeepsDecisions
  BY <1>4, SavePending
<1>5. ASSUME UNCHANGED <<row, pc, target>>
      PROVE  SavesPending' /\ KeepsDecisions
  <2>1. SavesPending'
    BY <1>5, NothingSaved
  <2>. QED
    BY <1>5, <2>1 DEF KeepsDecisions
<1>. QED
  BY <1>1, <1>2, <1>3, <1>4, <1>5
     DEF Next, DecisionRefused, DecisionLost, Require, approvalVars

\* In one synchronous process a stored decision is never changed again: decide's
\* check that the request is still pending cannot be overtaken
\* (HumanApprovalGate.decide, "Cette demande a déjà été décidée").
THEOREM DecisionsStay ==
    ASSUME Serial
    PROVE  Spec => [][KeepsDecisions]_approvalVars
<1>1. Spec => []IInv
  BY InitIInv, InductiveStep, PTL DEF Spec
<1>2. IInv /\ IInv' /\ SavesPending /\ [Next]_approvalVars => SavesPending'
  BY PendingStep
<1>3. IInv /\ SavesPending /\ [Next]_approvalVars => [KeepsDecisions]_approvalVars
  BY PendingStep
<1>. QED
  BY <1>1, <1>2, <1>3, InitPending, PTL DEF Spec

-----------------------------------------------------------------------------
(* The loop of cycles: the counters of the supervisor are what the list of   *)
(* results counts.                                                           *)

\* A set of natural numbers that is not empty has a smallest one.
LEMMA SmallestIs ==
  ASSUME NEW S \in SUBSET Nat, S # {}
  PROVE  Min(S) \in S /\ \A k \in S : Min(S) <= k
<1>1. PICK m \in S : \A k \in S : <<k, m>> \notin OpToRel(<, Nat)
  BY NatLessThanWellFounded, WFMin, Zenon
<1>2. ASSUME NEW k \in S, ~(m <= k) PROVE FALSE
  <2>1. k \in Nat /\ m \in Nat /\ k < m
    BY <1>2
  <2>2. <<k, m>> \in OpToRel(<, Nat)
    BY <2>1 DEF OpToRel
  <2>. QED
    BY <1>1, <2>2
<1>3. m \in S /\ \A k \in S : m <= k
  BY <1>2
<1>. QED
  BY <1>3, Zenon DEF Min

\* evaluate, test after test.
LEMMA DecisionIs ==
  ASSUME NEW r, NEW i, NEW c, NEW t
  PROVE  Decision(r, i, c, t) =
            IF r.blocked THEN "external_blocker"
            ELSE IF r.critical THEN "critical_finding"
            ELSE IF Validated(r) THEN "criteria_validated"
            ELSE IF c >= MaxCost THEN "budget_exhausted"
            ELSE IF t >= MaxElapsed THEN "time_limit"
            ELSE IF SameFailures(r) >= MaxSameFailure THEN "repeated_failure"
            ELSE IF Stagnation(r) >= MaxNoProgress THEN "no_progress"
            ELSE IF i >= MaxIterations THEN "max_iterations" ELSE "continue"
<1>. DEFINE tests == Tests(r, i, c, t)
            S == {k \in DOMAIN tests : tests[k].holds}
            n == Min(S)
<1>1. /\ DOMAIN tests = 1..9
      /\ tests[1] = [holds |-> r.blocked, reason |-> "external_blocker"]
      /\ tests[2] = [holds |-> r.critical, reason |-> "critical_finding"]
      /\ tests[3] = [holds |-> Validated(r), reason |-> "criteria_validated"]
      /\ tests[4] = [holds |-> c >= MaxCost, reason |-> "budget_exhausted"]
      /\ tests[5] = [holds |-> t >= MaxElapsed, reason |-> "time_limit"]
      /\ tests[6] = [holds |-> SameFailures(r) >= MaxSameFailure, reason |-> "repeated_failure"]
      /\ tests[7] = [holds |-> Stagnation(r) >= MaxNoProgress, reason |-> "no_progress"]
      /\ tests[8] = [holds |-> i >= MaxIterations, reason |-> "max_iterations"]
      /\ tests[9] = [holds |-> TRUE, reason |-> "continue"]
  BY DEF Tests
<1>. HIDE DEF tests
<1>2. S \in SUBSET Nat /\ 9 \in S /\ S \subseteq 1..9
  BY <1>1
<1>3. n \in S /\ \A k \in S : n <= k
  BY <1>2, SmallestIs
<1>4. /\ 1 \in S <=> r.blocked
      /\ 2 \in S <=> r.critical
      /\ 3 \in S <=> Validated(r)
      /\ 4 \in S <=> c >= MaxCost
      /\ 5 \in S <=> t >= MaxElapsed
      /\ 6 \in S <=> SameFailures(r) >= MaxSameFailure
      /\ 7 \in S <=> Stagnation(r) >= MaxNoProgress
      /\ 8 \in S <=> i >= MaxIterations
  <2>0. /\ 1 \in S <=> tests[1].holds
        /\ 2 \in S <=> tests[2].holds
        /\ 3 \in S <=> tests[3].holds
        /\ 4 \in S <=> tests[4].holds
        /\ 5 \in S <=> tests[5].holds
        /\ 6 \in S <=> tests[6].holds
        /\ 7 \in S <=> tests[7].holds
        /\ 8 \in S <=> tests[8].holds
    BY <1>1
  <2>1. tests[1].holds = (r.blocked)
    BY <1>1
  <2>2. tests[2].holds = (r.critical)
    BY <1>1
  <2>3. tests[3].holds = (Validated(r))
    BY <1>1
  <2>4. tests[4].holds = (c >= MaxCost)
    BY <1>1
  <2>5. tests[5].holds = (t >= MaxElapsed)
    BY <1>1
  <2>6. tests[6].holds = (SameFailures(r) >= MaxSameFailure)
    BY <1>1
  <2>7. tests[7].holds = (Stagnation(r) >= MaxNoProgress)
    BY <1>1
  <2>8. tests[8].holds = (i >= MaxIterations)
    BY <1>1
  <2>. HIDE DEF S
  <2>. QED
    BY <2>0, <2>1, <2>2, <2>3, <2>4, <2>5, <2>6, <2>7, <2>8, Zenon
<1>5. Decision(r, i, c, t) = tests[n].reason
  BY DEF Decision, tests
<1>6. n \in 1..9
  BY <1>2, <1>3
<1>. HIDE DEF S, n
<1>7. \/ n = 1 \/ n = 2 \/ n = 3 \/ n = 4 \/ n = 5 \/ n = 6 \/ n = 7 \/ n = 8 \/ n = 9
  BY <1>6
<1>8. /\ tests[1].reason = "external_blocker" /\ tests[2].reason = "critical_finding"
      /\ tests[3].reason = "criteria_validated" /\ tests[4].reason = "budget_exhausted"
      /\ tests[5].reason = "time_limit" /\ tests[6].reason = "repeated_failure"
      /\ tests[7].reason = "no_progress" /\ tests[8].reason = "max_iterations"
      /\ tests[9].reason = "continue"
  BY <1>1
<1>9. \A k \in 1..9 : k < n => k \notin S
  BY <1>3, <1>6
<1>11. CASE n = 1
  <2>1. tests[1].reason = Decision(r, i, c, t) /\ 1 \in S
    BY <1>3, <1>5, <1>9, <1>11
  <2>. QED
    BY <1>4, <1>8, <2>1
<1>12. CASE n = 2
  <2>1. 1 \notin S /\ tests[2].reason = Decision(r, i, c, t) /\ 2 \in S
    BY <1>3, <1>5, <1>9, <1>12
  <2>. QED
    BY <1>4, <1>8, <2>1
<1>13. CASE n = 3
  <2>1. /\ 1 \notin S /\ 2 \notin S
        /\ tests[3].reason = Decision(r, i, c, t) /\ 3 \in S
    BY <1>3, <1>5, <1>9, <1>13
  <2>. QED
    BY <1>4, <1>8, <2>1
<1>14. CASE n = 4
  <2>1. /\ 1 \notin S /\ 2 \notin S /\ 3 \notin S
        /\ tests[4].reason = Decision(r, i, c, t) /\ 4 \in S
    BY <1>3, <1>5, <1>9, <1>14
  <2>. QED
    BY <1>4, <1>8, <2>1
<1>15. CASE n = 5
  <2>1. /\ 1 \notin S /\ 2 \notin S /\ 3 \notin S /\ 4 \notin S
        /\ tests[5].reason = Decision(r, i, c, t) /\ 5 \in S
    BY <1>3, <1>5, <1>9, <1>15
  <2>. QED
    BY <1>4, <1>8, <2>1
<1>16. CASE n = 6
  <2>1. /\ 1 \notin S /\ 2 \notin S /\ 3 \notin S /\ 4 \notin S /\ 5 \notin S
        /\ tests[6].reason = Decision(r, i, c, t) /\ 6 \in S
    BY <1>3, <1>5, <1>9, <1>16
  <2>. QED
    BY <1>4, <1>8, <2>1
<1>17. CASE n = 7
  <2>1. /\ 1 \notin S /\ 2 \notin S /\ 3 \notin S /\ 4 \notin S /\ 5 \notin S /\ 6 \notin S
        /\ tests[7].reason = Decision(r, i, c, t) /\ 7 \in S
    BY <1>3, <1>5, <1>9, <1>17
  <2>. QED
    BY <1>4, <1>8, <2>1
<1>18. CASE n = 8
  <2>1. /\ 1 \notin S /\ 2 \notin S /\ 3 \notin S /\ 4 \notin S /\ 5 \notin S /\ 6 \notin S
        /\ 7 \notin S
        /\ tests[8].reason = Decision(r, i, c, t) /\ 8 \in S
    BY <1>3, <1>5, <1>9, <1>18
  <2>. QED
    BY <1>4, <1>8, <2>1
<1>19. CASE n = 9
  <2>1. /\ 1 \notin S /\ 2 \notin S /\ 3 \notin S /\ 4 \notin S /\ 5 \notin S /\ 6 \notin S
        /\ 7 \notin S /\ 8 \notin S
        /\ tests[9].reason = Decision(r, i, c, t) /\ 9 \in S
    BY <1>3, <1>5, <1>9, <1>19
  <2>. QED
    BY <1>4, <1>8, <2>1
<1>. QED
  BY <1>7, <1>11, <1>12, <1>13, <1>14, <1>15, <1>16, <1>17, <1>18, <1>19
\* The supervisor's count of stagnation: the last results of the list did not progress,
\* and the one before them did, or was the first.
CountsStagnation ==
    LET n == Len(iterations)
    IN  IF n = 0 THEN no_progress_count = 0
        ELSE /\ no_progress_count < n
             /\ ~Stagnant(n - no_progress_count)
             /\ \A k \in (n - no_progress_count + 1)..n : Stagnant(k)

\* While the loop goes on, the supervisor's counters are what its results count, and no
\* result called for a stop.
CyclingInv ==
    /\ proposals = 0 /\ status = "running"
    /\ Len(iterations) < MaxIterations /\ cumulative_cost < MaxCost /\ elapsed < MaxElapsed
    /\ \A f \in Fingerprints :
          failure_counts[f] = Occurrences(f) /\ failure_counts[f] < MaxSameFailure
    /\ CountsStagnation /\ no_progress_count < MaxNoProgress
    /\ previous_progress = IF Len(iterations) = 0 THEN None
                           ELSE iterations[Len(iterations)].progress_score
    /\ \A k \in 1..Len(iterations) :
          ~iterations[k].blocked /\ ~iterations[k].critical /\ ~Validated(iterations[k])

LoopInv ==
    /\ LoopTypes
    /\ \A k \in 1..Len(iterations) : WellFormed(iterations[k])
    /\ cumulative_cost = Spent
    /\ loop = "cycling" => CyclingInv
    /\ LearnsOnce /\ ReasonIsTrue /\ ReadyIsClean

\* The constants, one by one.
LEMMA LoopConstants ==
  /\ MaxIterations \in Nat /\ MaxIterations # 0 /\ MaxSameFailure \in Nat /\ MaxSameFailure # 0
  /\ MaxNoProgress \in Nat /\ MaxNoProgress # 0 /\ MaxCost \in Nat /\ MaxCost # 0
  /\ MaxElapsed \in Nat /\ MaxElapsed # 0
  /\ MaxScore \in Nat /\ MinimumDelta \in Nat /\ CycleTime \in Nat
  /\ None \notin Int /\ None \notin Fingerprints
BY WorkflowAssumption DEF WorkflowAssumption

\* What a well-formed result is made of.
LEMMA ResultIs ==
  ASSUME NEW r \in Results, WellFormed(r)
  PROVE  /\ r.fingerprint \in Fingerprints \cup {None} /\ r.cost_units \in Nat
         /\ r.progress_score \in Int /\ r.progress_score \in 0..MaxScore
         /\ r.blocked \in BOOLEAN /\ r.critical \in BOOLEAN /\ Validated(r) \in BOOLEAN
<1>1. /\ r.fingerprint \in Fingerprints \cup {None} /\ r.cost_units \in Int
      /\ r.progress_score \in Int
      /\ r.criteria_validated \in BOOLEAN /\ r.blocked \in BOOLEAN /\ r.critical \in BOOLEAN
  BY WorkflowAssumption DEF WorkflowAssumption
<1>2. r.cost_units \in Nat /\ r.progress_score \in 0..MaxScore
  BY <1>1 DEF WellFormed
<1>. QED
  BY <1>1, <1>2 DEF Validated

\* One result more, at the end of the list.
LEMMA OneResultMore ==
  ASSUME iterations \in Seq(Results), NEW r \in Results, iterations' = Append(iterations, r)
  PROVE  /\ Len(iterations) \in Nat /\ DOMAIN iterations = 1..Len(iterations)
         /\ iterations' \in Seq(Results) /\ Len(iterations') = Len(iterations) + 1
         /\ DOMAIN iterations' = 1..(Len(iterations) + 1)
         /\ iterations'[Len(iterations) + 1] = r
         /\ \A k \in 1..Len(iterations) : iterations'[k] = iterations[k]
         /\ Last(iterations') = r
<1>1. /\ Append(iterations, r) \in Seq(Results)
      /\ Len(Append(iterations, r)) = Len(iterations) + 1
      /\ \A k \in 1..Len(iterations) : Append(iterations, r)[k] = iterations[k]
      /\ Append(iterations, r)[Len(iterations) + 1] = r
  BY AppendProperties
<1>2. Len(iterations) \in Nat /\ DOMAIN iterations = 1..Len(iterations)
  BY LenProperties
<1>3. DOMAIN iterations' = 1..Len(iterations')
  BY <1>1, LenProperties
<1>4. Last(iterations') = iterations'[Len(iterations')]
  BY DEF Last
<1>. QED
  BY <1>1, <1>2, <1>3, <1>4

\* It adds its cost to what was spent, and one to the failures of its fingerprint.
LEMMA SpentGrows ==
  ASSUME iterations \in Seq(Results), NEW r \in Results, iterations' = Append(iterations, r),
         r.cost_units \in Nat, \A k \in 1..Len(iterations) : iterations[k].cost_units \in Nat
  PROVE  Spent' = Spent + r.cost_units /\ Spent \in Nat
<1>. DEFINE n == Len(iterations)
            f == [k \in 1..n |-> iterations[k].cost_units]
            g == [k \in 1..(n + 1) |-> iterations'[k].cost_units]
<1>1. /\ n \in Nat /\ DOMAIN iterations = 1..n /\ DOMAIN iterations' = 1..(n + 1)
      /\ iterations'[n + 1] = r /\ \A k \in 1..n : iterations'[k] = iterations[k]
  BY OneResultMore
<1>2. 1..(n + 1) = (1..n) \cup {n + 1} /\ n + 1 \notin 1..n
  BY <1>1
<1>3. Spent = SumFunctionOnSet(f, 1..n) /\ Spent' = SumFunctionOnSet(g, 1..(n + 1))
  BY <1>1 DEF Spent
<1>. HIDE DEF n
<1>4. IsFiniteSet(1..n)
  BY <1>1, FS_Interval
<1>5. \A k \in 1..n : f[k] \in Nat /\ g[k] = f[k] /\ g[k] \in Nat
  BY <1>1, <1>2 DEF n
<1>6. g[n + 1] = r.cost_units
  BY <1>1, <1>2
<1>. HIDE DEF f, g
<1>7. \A k \in (1..n) \cup {n + 1} : g[k] \in Nat
  BY <1>5, <1>6
<1>8. SumFunctionOnSet(f, 1..n) \in Nat
  BY <1>4, <1>5, SumType
<1>9. SumFunctionOnSet(g, (1..n) \cup {n + 1}) = g[n + 1] + SumFunctionOnSet(g, 1..n)
  BY <1>2, <1>4, <1>7, SumOfOneMore
<1>10. SumFunctionOnSet(g, 1..n) = SumFunctionOnSet(f, 1..n)
  BY <1>4, <1>5, SumAgrees
<1>11. Spent' = r.cost_units + Spent
  BY <1>2, <1>3, <1>6, <1>9, <1>10
<1>. QED
  BY <1>3, <1>8, <1>11

\* One result more adds one to the count of its fingerprint, and to no other.
LEMMA OccurrencesGrow ==
  ASSUME iterations \in Seq(Results), NEW r \in Results, iterations' = Append(iterations, r)
  PROVE  \A f : /\ Occurrences(f) \in Nat
                /\ Occurrences(f)' = IF f = r.fingerprint THEN Occurrences(f) + 1
                                     ELSE Occurrences(f)
<1>. SUFFICES ASSUME NEW f
              PROVE  /\ Occurrences(f) \in Nat
                     /\ Occurrences(f)' = IF f = r.fingerprint THEN Occurrences(f) + 1
                                          ELSE Occurrences(f)
  OBVIOUS
<1>. DEFINE n == Len(iterations)
            S == {k \in DOMAIN iterations : iterations[k].fingerprint = f}
            T == {k \in DOMAIN iterations' : iterations'[k].fingerprint = f}
<1>1. /\ n \in Nat /\ DOMAIN iterations = 1..n /\ DOMAIN iterations' = 1..(n + 1)
      /\ iterations'[n + 1] = r /\ \A k \in 1..n : iterations'[k] = iterations[k]
  BY OneResultMore
<1>2. 1..(n + 1) = (1..n) \cup {n + 1} /\ n + 1 \notin 1..n
  BY <1>1
<1>3. Occurrences(f) = Cardinality(S) /\ Occurrences(f)' = Cardinality(T)
  BY DEF Occurrences
<1>. HIDE DEF n
<1>4. S \subseteq 1..n /\ n + 1 \notin S /\ T = IF f = r.fingerprint THEN S \cup {n + 1} ELSE S
  BY <1>1, <1>2
<1>. HIDE DEF S, T
<1>5. IsFiniteSet(1..n)
  <2>1. n \in Nat
    BY <1>1
  <2>. QED
    BY <2>1, FS_Interval
<1>6. IsFiniteSet(S)
  BY <1>4, <1>5, FS_Subset
<1>7. Cardinality(S) \in Nat /\ Cardinality(S \cup {n + 1}) = Cardinality(S) + 1
  BY <1>4, <1>6, FS_AddElement, FS_CardinalityType
<1>. QED
  BY <1>3, <1>4, <1>7

\* It stagnates, or it does not, with respect to the one before.
LEMMA StagnantGrows ==
  ASSUME iterations \in Seq(Results), NEW r \in Results, iterations' = Append(iterations, r),
         NEW n \in Nat, n = Len(iterations)
  PROVE  /\ \A k \in 1..n : Stagnant(k)' <=> Stagnant(k)
         /\ Stagnant(n + 1)' <=>
              n # 0 /\ r.progress_score - iterations[n].progress_score < MinimumDelta
<1>1. /\ n \in Nat /\ iterations'[n + 1] = r /\ \A k \in 1..n : iterations'[k] = iterations[k]
  BY OneResultMore
<1>2. (n + 1 > 1 <=> n # 0) /\ (n + 1) - 1 = n /\ (n # 0 => n \in 1..n)
  OBVIOUS
<1>3. \A k \in 1..n : k > 1 => k - 1 \in 1..n
  OBVIOUS
<1>4. \A k \in 1..n : Stagnant(k)' <=> Stagnant(k)
  BY <1>1, <1>3 DEF Stagnant
<1>5. Stagnant(n + 1)' <=>
        n # 0 /\ r.progress_score - iterations[n].progress_score < MinimumDelta
  BY <1>1, <1>2 DEF Stagnant
<1>. QED
  BY <1>4, <1>5

\* The counts of a cycle: what evaluate compares.
LEMMA CycleCounts ==
  ASSUME LoopInv, CyclingInv, NEW r \in Results, WellFormed(r), iterations' = Append(iterations, r),
         NEW n \in Nat, n = Len(iterations), NEW s, s = Stagnation(r)
  PROVE  /\ SameFailures(r) \in Nat /\ SameFailures(r) <= MaxSameFailure
         /\ r.fingerprint # None => SameFailures(r) = Occurrences(r.fingerprint)'
         /\ r.fingerprint = None => SameFailures(r) = 0
         /\ s \in Nat /\ s <= MaxNoProgress /\ s < n + 1
         /\ ~Stagnant((n + 1) - s)'
         /\ \A k \in ((n + 1) - s + 1)..(n + 1) : Stagnant(k)'
<1>1. /\ iterations \in Seq(Results) /\ failure_counts \in [Fingerprints -> Nat]
      /\ no_progress_count \in Nat
      /\ \A k \in 1..Len(iterations) : iterations[k] \in Results /\ WellFormed(iterations[k])
  BY DEF LoopInv, LoopTypes
<1>2. /\ r.fingerprint \in Fingerprints \cup {None} /\ r.progress_score \in Int
  BY ResultIs
<1>3. \A f : Occurrences(f)' = IF f = r.fingerprint THEN Occurrences(f) + 1 ELSE Occurrences(f)
  BY <1>1, OccurrencesGrow
<1>4. /\ SameFailures(r) \in Nat /\ SameFailures(r) <= MaxSameFailure
      /\ r.fingerprint # None => SameFailures(r) = Occurrences(r.fingerprint)'
      /\ r.fingerprint = None => SameFailures(r) = 0
  <2>1. CASE r.fingerprint = None
    BY <2>1, LoopConstants DEF SameFailures
  <2>2. CASE r.fingerprint # None
    <3>1. r.fingerprint \in Fingerprints
      BY <1>2, <2>2
    <3>2. SameFailures(r) = failure_counts[r.fingerprint] + 1
      BY <2>2 DEF SameFailures
    <3>3. /\ failure_counts[r.fingerprint] = Occurrences(r.fingerprint)
          /\ failure_counts[r.fingerprint] < MaxSameFailure
          /\ failure_counts[r.fingerprint] \in Nat
      BY <1>1, <3>1 DEF CyclingInv
    <3>4. Occurrences(r.fingerprint)' = Occurrences(r.fingerprint) + 1
      BY <1>3
    <3>. QED
      BY <2>2, <3>2, <3>3, <3>4, LoopConstants
  <2>. QED
    BY <2>1, <2>2
<1>5. /\ \A k \in 1..n : Stagnant(k)' <=> Stagnant(k)
      /\ Stagnant(n + 1)' <=>
           n # 0 /\ r.progress_score - iterations[n].progress_score < MinimumDelta
  BY <1>1, StagnantGrows
<1>6. CASE n = 0
  <2>1. s = 0
    BY <1>6 DEF CyclingInv, CountsStagnation, Stagnation
  <2>2. ~Stagnant(1)' /\ (n + 1) - 0 = 1 /\ (n + 1) - 0 + 1 = 2 /\ 2..1 = {} /\ n + 1 = 1
    BY <1>5, <1>6
  <2>. QED
    BY <1>4, <1>6, <2>1, <2>2, LoopConstants
<1>7. CASE n # 0
  <2>1. /\ previous_progress = iterations[n].progress_score /\ n \in 1..n
        /\ iterations[n].progress_score \in Int
    <3>1. n \in 1..n
      BY <1>7
    <3>2. iterations[n].progress_score \in Int
      BY <1>1, <3>1, ResultIs
    <3>. QED
      BY <1>7, <3>1, <3>2 DEF CyclingInv
  <2>2. previous_progress # None
    BY <2>1, LoopConstants
  <2>3. PICK c \in Nat : c = no_progress_count
    BY <1>1
  <2>4. /\ c < n /\ c \in Nat /\ c < MaxNoProgress
        /\ ~Stagnant(n - c) /\ \A k \in (n - c + 1)..n : Stagnant(k)
    BY <1>1, <1>7, <2>3 DEF CyclingInv, CountsStagnation
  <2>5. s = IF r.progress_score - iterations[n].progress_score < MinimumDelta
                        THEN c + 1 ELSE 0
    BY <2>1, <2>2, <2>3 DEF Stagnation
  <2>6. CASE r.progress_score - iterations[n].progress_score < MinimumDelta
    <3>1. s = c + 1 /\ Stagnant(n + 1)'
      BY <1>5, <1>7, <2>5, <2>6
    <3>2. (n + 1) - (c + 1) = n - c /\ (n + 1) - (c + 1) + 1 = n - c + 1 /\ n - c \in 1..n
      BY <2>4
    <3>3. \A k \in (n - c + 1)..(n + 1) : k = n + 1 \/ (k \in 1..n /\ k \in (n - c + 1)..n)
      BY <2>4
    <3>4. \A k \in (n - c + 1)..(n + 1) : Stagnant(k)'
      BY <1>5, <2>4, <3>1, <3>3
    <3>5. ~Stagnant(n - c)'
      BY <1>5, <2>4, <3>2
    <3>. QED
      BY <1>4, <2>4, <3>1, <3>2, <3>4, <3>5, LoopConstants
  <2>7. CASE ~(r.progress_score - iterations[n].progress_score < MinimumDelta)
    <3>1. s = 0 /\ ~Stagnant(n + 1)'
      BY <1>5, <2>5, <2>7
    <3>2. (n + 1) - 0 = n + 1 /\ \A k : k \notin (n + 1 + 1)..(n + 1)
      OBVIOUS
    <3>. QED
      BY <1>4, <3>1, <3>2, LoopConstants
  <2>. QED
    BY <2>6, <2>7
<1>. QED
  BY <1>6, <1>7

\* What a cycle does, with the reason evaluate gives for it.
LEMMA CycleIs ==
  ASSUME LoopInv, NEW r \in Results, NEW t \in 0..CycleTime, Cycle(r, t),
         NEW n \in Nat, n = Len(iterations), NEW s, s = Stagnation(r)
  PROVE  /\ CyclingInv /\ WellFormed(r) /\ iterations' = Append(iterations, r)
         /\ iterations \in Seq(Results) /\ cumulative_cost' \in Nat /\ elapsed' \in Nat
         /\ cumulative_cost' = Spent'
         /\ Supervise(r, stop_reason')
         /\ proposals' = IF Teaches(r) THEN 1 ELSE 0
         /\ status' = StatusOf(stop_reason')
         /\ loop' = IF stop_reason' = "continue" THEN "cycling" ELSE "reporting"
         /\ stop_reason' =
              IF r.blocked THEN "external_blocker"
              ELSE IF r.critical THEN "critical_finding"
              ELSE IF Validated(r) THEN "criteria_validated"
              ELSE IF cumulative_cost' >= MaxCost THEN "budget_exhausted"
              ELSE IF elapsed' >= MaxElapsed THEN "time_limit"
              ELSE IF SameFailures(r) >= MaxSameFailure THEN "repeated_failure"
              ELSE IF s >= MaxNoProgress THEN "no_progress"
              ELSE IF n + 1 >= MaxIterations THEN "max_iterations" ELSE "continue"
<1>1. /\ loop = "cycling" /\ WellFormed(r) /\ iterations' = Append(iterations, r)
      /\ cumulative_cost' = cumulative_cost + r.cost_units /\ elapsed' = elapsed + t
      /\ Supervise(r, stop_reason')
      /\ proposals' = IF Teaches(r) THEN proposals + 1 ELSE proposals
      /\ status' = StatusOf(stop_reason')
      /\ loop' = IF stop_reason' = "continue" THEN "cycling" ELSE "reporting"
      /\ stop_reason' = Decision(r, n + 1, cumulative_cost', elapsed')
  BY DEF Cycle
<1>2. CyclingInv /\ iterations \in Seq(Results)
  BY <1>1 DEF LoopInv, LoopTypes
<1>3. r.cost_units \in Nat /\ cumulative_cost \in Nat /\ elapsed \in Nat /\ t \in Nat
  BY <1>1, ResultIs, LoopConstants DEF LoopInv, LoopTypes
<1>4. cumulative_cost' \in Nat /\ elapsed' \in Nat
  BY <1>1, <1>3
<1>5. cumulative_cost' = Spent'
  <2>1. \A k \in 1..Len(iterations) : iterations[k].cost_units \in Nat
    BY <1>2, ResultIs DEF LoopInv
  <2>2. Spent' = Spent + r.cost_units
    BY <1>1, <1>2, <1>3, <2>1, SpentGrows
  <2>. QED
    BY <1>1, <2>2 DEF LoopInv
<1>6. proposals' = IF Teaches(r) THEN 1 ELSE 0
  BY <1>1, <1>2 DEF CyclingInv
<1>7. stop_reason' =
        IF r.blocked THEN "external_blocker"
        ELSE IF r.critical THEN "critical_finding"
        ELSE IF Validated(r) THEN "criteria_validated"
        ELSE IF cumulative_cost' >= MaxCost THEN "budget_exhausted"
        ELSE IF elapsed' >= MaxElapsed THEN "time_limit"
        ELSE IF SameFailures(r) >= MaxSameFailure THEN "repeated_failure"
        ELSE IF Stagnation(r) >= MaxNoProgress THEN "no_progress"
        ELSE IF n + 1 >= MaxIterations THEN "max_iterations" ELSE "continue"
  BY <1>1, DecisionIs, Zenon
<1>. QED
  BY <1>1, <1>2, <1>4, <1>5, <1>6, <1>7

\* A cycle keeps the shape of the loop's state.
LEMMA CycleKeepsTypes ==
  ASSUME LoopInv, NEW r \in Results, NEW t \in 0..CycleTime, Cycle(r, t)
  PROVE  LoopTypes' /\ \A k \in 1..Len(iterations') : WellFormed(iterations'[k])
<1>1. PICK n \in Nat : n = Len(iterations)
  BY DEF LoopInv, LoopTypes
<1>2. PICK s : s = Stagnation(r)
  OBVIOUS
<1>3. /\ CyclingInv /\ WellFormed(r) /\ iterations' = Append(iterations, r)
      /\ iterations \in Seq(Results) /\ cumulative_cost' \in Nat /\ elapsed' \in Nat
      /\ Supervise(r, stop_reason')
      /\ proposals' = IF Teaches(r) THEN 1 ELSE 0
      /\ status' = StatusOf(stop_reason')
      /\ loop' = IF stop_reason' = "continue" THEN "cycling" ELSE "reporting"
      /\ stop_reason' \in {"external_blocker", "critical_finding", "criteria_validated",
            "budget_exhausted", "time_limit", "repeated_failure", "no_progress",
            "max_iterations", "continue"}
  BY <1>1, <1>2, CycleIs
<1>4. SameFailures(r) \in Nat /\ s \in Nat
  BY <1>1, <1>2, <1>3, CycleCounts
<1>5. /\ iterations' \in Seq(Results) /\ Len(iterations') = n + 1 /\ iterations'[n + 1] = r
      /\ \A k \in 1..n : iterations'[k] = iterations[k]
  BY <1>1, <1>3, OneResultMore
<1>6. Len(iterations') <= MaxIterations
  BY <1>1, <1>3, <1>5, LoopConstants DEF CyclingInv
<1>7. status' \in {"running", "ready_for_human_approval", "stopped_limit", "blocked"}
  BY <1>3 DEF StatusOf
<1>8. /\ failure_counts' \in [Fingerprints -> Nat] /\ no_progress_count' \in Nat
      /\ previous_progress' \in 0..MaxScore \cup {None}
  <2>1. /\ failure_counts \in [Fingerprints -> Nat] /\ no_progress_count \in Nat
        /\ previous_progress \in 0..MaxScore \cup {None}
    BY DEF LoopInv, LoopTypes
  <2>2. r.progress_score \in 0..MaxScore
    BY <1>3, ResultIs
  <2>3. /\ failure_counts' \in [Fingerprints -> Nat]
        /\ no_progress_count' = Stagnation(r) \/ no_progress_count' = no_progress_count
        /\ previous_progress' = r.progress_score \/ previous_progress' = previous_progress
    BY <1>3, <1>4, <2>1 DEF Supervise
  <2>. QED
    BY <1>2, <1>4, <2>1, <2>2, <2>3
<1>9. \A k \in 1..(n + 1) : WellFormed(iterations'[k])
  <2>1. \A k \in 1..n : WellFormed(iterations[k])
    BY <1>1 DEF LoopInv
  <2>2. \A k \in 1..(n + 1) : k = n + 1 \/ k \in 1..n
    OBVIOUS
  <2>. QED
    BY <1>3, <1>5, <2>1, <2>2
<1>10. proposals' \in Nat /\ loop' \in {"cycling", "reporting", "returned", "raised"}
  BY <1>3
<1>. QED
  BY <1>3, <1>5, <1>6, <1>7, <1>8, <1>9, <1>10 DEF LoopTypes

\* The counters of a loop that goes on.
LEMMA CycleContinues ==
  ASSUME LoopInv, NEW r \in Results, NEW t \in 0..CycleTime, Cycle(r, t), loop' = "cycling"
  PROVE  CyclingInv'
<1>1. PICK n \in Nat : n = Len(iterations)
  BY DEF LoopInv, LoopTypes
<1>2. PICK s : s = Stagnation(r)
  OBVIOUS
<1>3. /\ CyclingInv /\ WellFormed(r) /\ iterations' = Append(iterations, r)
      /\ iterations \in Seq(Results) /\ cumulative_cost' \in Nat /\ elapsed' \in Nat
      /\ Supervise(r, "continue")
      /\ proposals' = IF Teaches(r) THEN 1 ELSE 0
      /\ status' = StatusOf("continue")
      /\ ~r.blocked /\ ~r.critical /\ ~Validated(r)
      /\ ~(cumulative_cost' >= MaxCost) /\ ~(elapsed' >= MaxElapsed)
      /\ ~(SameFailures(r) >= MaxSameFailure) /\ ~(s >= MaxNoProgress)
      /\ ~(n + 1 >= MaxIterations)
  BY <1>1, <1>2, CycleIs
<1>4. /\ SameFailures(r) \in Nat
      /\ r.fingerprint # None => SameFailures(r) = Occurrences(r.fingerprint)'
      /\ s \in Nat /\ s < n + 1 /\ ~Stagnant((n + 1) - s)'
      /\ \A k \in ((n + 1) - s + 1)..(n + 1) : Stagnant(k)'
  BY <1>1, <1>2, <1>3, CycleCounts
<1>5. /\ iterations' \in Seq(Results) /\ Len(iterations') = n + 1 /\ iterations'[n + 1] = r
      /\ \A k \in 1..n : iterations'[k] = iterations[k]
  BY <1>1, <1>3, OneResultMore
<1>6. proposals' = 0 /\ status' = "running"
  BY <1>3 DEF Teaches, Validated, StatusOf
<1>7. /\ failure_counts' = [f \in Fingerprints |-> IF f = r.fingerprint THEN SameFailures(r)
                                                   ELSE failure_counts[f]]
      /\ no_progress_count' = s /\ previous_progress' = r.progress_score
  BY <1>2, <1>3 DEF Supervise
<1>8. \A f \in Fingerprints :
         failure_counts'[f] = Occurrences(f)' /\ failure_counts'[f] < MaxSameFailure
  <2>1. \A f : Occurrences(f)' = IF f = r.fingerprint THEN Occurrences(f) + 1 ELSE Occurrences(f)
    BY <1>3, OccurrencesGrow
  <2>2. SameFailures(r) < MaxSameFailure
    BY <1>3, <1>4, LoopConstants
  <2>. QED
    BY <1>3, <1>4, <1>7, <2>1, <2>2, LoopConstants DEF CyclingInv
<1>9. CountsStagnation'
  <2>1. n + 1 # 0
    BY <1>1
  <2>2. /\ no_progress_count' < n + 1
        /\ \A m : m = (n + 1) - s => ~Stagnant(m)'
        /\ \A k \in ((n + 1) - no_progress_count' + 1)..(n + 1) : Stagnant(k)'
    BY <1>4, <1>7
  <2>. QED
    BY <1>5, <1>7, <2>1, <2>2 DEF CountsStagnation
<1>10. \A k \in 1..(n + 1) :
          ~iterations'[k].blocked /\ ~iterations'[k].critical /\ ~Validated(iterations'[k])
  <2>1. \A k \in 1..(n + 1) : k = n + 1 \/ k \in 1..n
    OBVIOUS
  <2>. QED
    BY <1>1, <1>3, <1>5, <2>1 DEF CyclingInv
<1>11. /\ n + 1 < MaxIterations /\ cumulative_cost' < MaxCost /\ elapsed' < MaxElapsed
       /\ no_progress_count' < MaxNoProgress
  BY <1>3, <1>4, <1>7, LoopConstants
<1>. QED
  BY <1>5, <1>6, <1>7, <1>8, <1>9, <1>10, <1>11 DEF CyclingInv

\* The reason of a loop that stops.
LEMMA CycleStops ==
  ASSUME LoopInv, NEW r \in Results, NEW t \in 0..CycleTime, Cycle(r, t)
  PROVE  LearnsOnce' /\ ReasonIsTrue' /\ ReadyIsClean'
<1>1. PICK n \in Nat : n = Len(iterations)
  BY DEF LoopInv, LoopTypes
<1>2. PICK s : s = Stagnation(r)
  OBVIOUS
<1>3. /\ CyclingInv /\ WellFormed(r) /\ iterations' = Append(iterations, r)
      /\ iterations \in Seq(Results) /\ cumulative_cost' \in Nat /\ elapsed' \in Nat
      /\ cumulative_cost' = Spent'
      /\ proposals' = IF Teaches(r) THEN 1 ELSE 0
      /\ status' = StatusOf(stop_reason')
      /\ loop' = IF stop_reason' = "continue" THEN "cycling" ELSE "reporting"
      /\ stop_reason' =
           IF r.blocked THEN "external_blocker"
           ELSE IF r.critical THEN "critical_finding"
           ELSE IF Validated(r) THEN "criteria_validated"
           ELSE IF cumulative_cost' >= MaxCost THEN "budget_exhausted"
           ELSE IF elapsed' >= MaxElapsed THEN "time_limit"
           ELSE IF SameFailures(r) >= MaxSameFailure THEN "repeated_failure"
           ELSE IF s >= MaxNoProgress THEN "no_progress"
           ELSE IF n + 1 >= MaxIterations THEN "max_iterations" ELSE "continue"
  BY <1>1, <1>2, CycleIs
<1>4. /\ SameFailures(r) \in Nat /\ SameFailures(r) <= MaxSameFailure
      /\ r.fingerprint # None => SameFailures(r) = Occurrences(r.fingerprint)'
      /\ r.fingerprint = None => SameFailures(r) = 0
      /\ s \in Nat /\ s <= MaxNoProgress /\ s < n + 1
      /\ \A k \in ((n + 1) - s + 1)..(n + 1) : Stagnant(k)'
  BY <1>1, <1>2, <1>3, CycleCounts
<1>5. /\ iterations' \in Seq(Results) /\ Len(iterations') = n + 1 /\ iterations'[n + 1] = r
      /\ DOMAIN iterations' = 1..(n + 1)
      /\ \A k \in 1..n : iterations'[k] = iterations[k]
      /\ Last(iterations') = r
  BY <1>1, <1>3, OneResultMore
<1>6. LearnsOnce'
  <2>1. Teaches(r) => Validated(r)
    BY DEF Teaches, Validated
  <2>2. Validated(r) => loop' # "cycling"
    BY <1>3
  <2>. QED
    BY <1>3, <1>5, <2>1, <2>2 DEF LearnsOnce
<1>7. ReadyIsClean'
  <2>1. status' = "ready_for_human_approval" => stop_reason' = "criteria_validated"
    BY <1>3 DEF StatusOf
  <2>2. status' = "ready_for_human_approval" => ~r.blocked /\ ~r.critical
    BY <1>3, <2>1
  <2>3. \A k \in 1..(n + 1) : k = n + 1 \/ k \in 1..n
    OBVIOUS
  <2>4. \A k \in 1..n : ~iterations[k].blocked /\ ~iterations[k].critical
    BY <1>1, <1>3 DEF CyclingInv
  <2>. QED
    BY <1>5, <2>2, <2>3, <2>4 DEF ReadyIsClean
<1>8. ASSUME stop_reason' = "repeated_failure"
      PROVE  Occurrences(r.fingerprint)' = MaxSameFailure
  <2>1. SameFailures(r) >= MaxSameFailure
    BY <1>3, <1>8
  <2>2. SameFailures(r) = MaxSameFailure /\ r.fingerprint # None
    BY <1>4, <2>1, LoopConstants
  <2>. QED
    BY <1>4, <2>2
<1>9. ASSUME stop_reason' = "no_progress"
      PROVE  MaxNoProgress < n + 1 /\ \A k \in ((n + 1) - MaxNoProgress + 1)..(n + 1) : Stagnant(k)'
  <2>1. s >= MaxNoProgress
    BY <1>3, <1>9
  <2>2. s = MaxNoProgress
    BY <1>4, <2>1, LoopConstants
  <2>. QED
    BY <1>4, <2>2
<1>10. StagnantFor(MaxNoProgress)' <=>
         MaxNoProgress < n + 1 /\ \A k \in ((n + 1) - MaxNoProgress + 1)..(n + 1) : Stagnant(k)'
  BY <1>5 DEF StagnantFor
<1>11. stop_reason' = "max_iterations" => Len(iterations') = MaxIterations
  <2>1. n < MaxIterations
    BY <1>1, <1>3 DEF CyclingInv
  <2>2. stop_reason' = "max_iterations" => n + 1 >= MaxIterations
    BY <1>3
  <2>. QED
    BY <1>5, <2>1, <2>2, LoopConstants
<1>12. /\ stop_reason' = "budget_exhausted" => Spent' >= MaxCost
       /\ stop_reason' = "time_limit" => elapsed' >= MaxElapsed
       /\ stop_reason' = "external_blocker" => r.blocked
       /\ stop_reason' = "critical_finding" => r.critical
       /\ stop_reason' = "criteria_validated" => Validated(r)
       /\ loop' = "cycling" \/ stop_reason' \in {"external_blocker", "critical_finding",
            "criteria_validated", "budget_exhausted", "time_limit", "repeated_failure",
            "no_progress", "max_iterations"}
       /\ loop' \in {"cycling", "reporting"}
  BY <1>3
<1>13. ReasonIsTrue'
  BY <1>5, <1>8, <1>9, <1>10, <1>11, <1>12 DEF ReasonIsTrue
<1>. QED
  BY <1>6, <1>7, <1>13

\* Nothing is counted before the first cycle.
LEMMA LoopStarts == LoopInit => LoopInv
<1>. SUFFICES ASSUME LoopInit PROVE LoopInv
  OBVIOUS
<1>1. /\ iterations \in Seq(Results) /\ Len(iterations) = 0 /\ DOMAIN iterations = {}
      /\ \A k : k \notin 1..0
  BY DEF LoopInit
<1>2. Spent = 0
  <2>1. Spent = SumFunctionOnSet([k \in DOMAIN iterations |-> iterations[k].cost_units], {})
    BY <1>1 DEF Spent
  <2>. QED
    BY <2>1, SumOfNone
<1>3. \A f : Occurrences(f) = 0
  <2>1. \A f : {k \in DOMAIN iterations : iterations[k].fingerprint = f} = {}
    BY <1>1
  <2>2. Cardinality({}) = 0
    BY FS_EmptySet
  <2>. QED
    BY <2>1, <2>2, Zenon DEF Occurrences
<1>4. LoopTypes
  BY <1>1, LoopConstants DEF LoopInit, LoopTypes
<1>5. CyclingInv
  BY <1>1, <1>3, LoopConstants DEF LoopInit, CyclingInv, CountsStagnation
<1>6. LearnsOnce /\ ReasonIsTrue /\ ReadyIsClean /\ cumulative_cost = Spent
  BY <1>2 DEF LoopInit, LearnsOnce, ReasonIsTrue, ReadyIsClean
<1>. QED
  BY <1>1, <1>4, <1>5, <1>6 DEF LoopInv

\* A step that leaves the results and the counters alone, and does not resume the loop.
LEMMA LoopKept ==
  ASSUME LoopInv,
         UNCHANGED <<iterations, cumulative_cost, elapsed, supervisorVars, proposals,
                     stop_reason, status>>,
         \/ loop' = loop
         \/ loop' = "raised"
         \/ loop = "reporting" /\ loop' = "returned"
  PROVE  LoopInv'
<1>1. /\ iterations' = iterations /\ cumulative_cost' = cumulative_cost /\ elapsed' = elapsed
      /\ failure_counts' = failure_counts /\ no_progress_count' = no_progress_count
      /\ previous_progress' = previous_progress /\ proposals' = proposals
      /\ stop_reason' = stop_reason /\ status' = status
  BY DEF supervisorVars
<1>2. LoopTypes'
  BY <1>1 DEF LoopInv, LoopTypes
<1>3. Spent' = Spent /\ (\A f : Occurrences(f)' = Occurrences(f))
  BY <1>1 DEF Spent, Occurrences
<1>4. CountsStagnation' <=> CountsStagnation
  BY <1>1 DEF CountsStagnation, Stagnant
<1>5. StagnantFor(MaxNoProgress)' <=> StagnantFor(MaxNoProgress)
  BY <1>1 DEF StagnantFor, Stagnant
<1>6. loop' = "cycling" => loop = "cycling"
  OBVIOUS
<1>7. CyclingInv => CyclingInv'
  BY <1>1, <1>3, <1>4 DEF CyclingInv
<1>8. LearnsOnce'
  BY <1>1, <1>6 DEF LoopInv, LearnsOnce
<1>9. ReadyIsClean'
  BY <1>1 DEF LoopInv, ReadyIsClean
<1>10. ReasonIsTrue'
  <2>1. loop' \in {"reporting", "returned"} => loop \in {"reporting", "returned"}
    OBVIOUS
  <2>2. ReasonIsTrue
    BY DEF LoopInv
  <2>. QED
    BY <1>1, <2>1, <2>2
    DEF ReasonIsTrue, Spent, Occurrences, StagnantFor, Stagnant, Validated, Last
<1>11. \A k \in 1..Len(iterations') : WellFormed(iterations'[k])
  BY <1>1 DEF LoopInv
<1>. QED
  BY <1>1, <1>2, <1>3, <1>6, <1>7, <1>8, <1>9, <1>10, <1>11 DEF LoopInv

\* Every step of run keeps what the counters summarise.
LEMMA LoopSteps == LoopInv /\ [LoopNext]_workflowVars => LoopInv'
<1>. SUFFICES ASSUME LoopInv, [LoopNext]_workflowVars PROVE LoopInv'
  OBVIOUS
<1>1. ASSUME NEW r \in Results, NEW t \in 0..CycleTime, Cycle(r, t)
      PROVE  LoopInv'
  <2>1. LoopTypes' /\ \A k \in 1..Len(iterations') : WellFormed(iterations'[k])
    BY <1>1, CycleKeepsTypes
  <2>2. loop' = "cycling" => CyclingInv'
    BY <1>1, CycleContinues
  <2>3. LearnsOnce' /\ ReasonIsTrue' /\ ReadyIsClean'
    BY <1>1, CycleStops
  <2>4. PICK n \in Nat : n = Len(iterations)
    BY DEF LoopInv, LoopTypes
  <2>5. PICK s : s = Stagnation(r)
    OBVIOUS
  <2>6. cumulative_cost' = Spent'
    BY <1>1, <2>4, <2>5, CycleIs
  <2>. QED
    BY <2>1, <2>2, <2>3, <2>6 DEF LoopInv
<1>2. CASE CycleFails
  BY <1>2, LoopKept DEF CycleFails
<1>3. ASSUME NEW outcome \in {"returned", "raised"}, Report(outcome)
      PROVE  LoopInv'
  BY <1>3, LoopKept DEF Report
<1>4. CASE UNCHANGED workflowVars
  BY <1>4, LoopKept DEF workflowVars
<1>. QED
  BY <1>1, <1>2, <1>3, <1>4 DEF LoopNext

\* The limits, counted again from the list.
LEMMA LoopBounds == LoopInv => ContinuesWithinBounds
<1>. SUFFICES ASSUME LoopInv, loop = "cycling" PROVE ContinuesWithinBounds
  BY DEF ContinuesWithinBounds
<1>1. CyclingInv /\ iterations \in Seq(Results) /\ no_progress_count \in Nat
  BY DEF LoopInv, LoopTypes
<1>2. Len(iterations) \in Nat /\ DOMAIN iterations = 1..Len(iterations)
  BY <1>1, LenProperties
<1>3. ASSUME StagnantFor(MaxNoProgress) PROVE FALSE
  <2>. DEFINE n == Len(iterations)
  <2>1. /\ MaxNoProgress < n
        /\ \A k \in (n - MaxNoProgress + 1)..n : Stagnant(k)
    BY <1>3 DEF StagnantFor
  <2>2. n # 0
    BY <2>1, LoopConstants
  <2>3. ~Stagnant(n - no_progress_count) /\ no_progress_count < MaxNoProgress
    BY <1>1, <2>2 DEF CyclingInv, CountsStagnation
  <2>4. n - no_progress_count \in (n - MaxNoProgress + 1)..n
    BY <1>1, <1>2, <2>3, LoopConstants
  <2>. QED
    BY <2>1, <2>3, <2>4
<1>4. /\ Len(iterations) < MaxIterations /\ Spent < MaxCost /\ elapsed < MaxElapsed
      /\ \A f \in Fingerprints : Occurrences(f) < MaxSameFailure
  BY <1>1 DEF CyclingInv, LoopInv
<1>5. \A k \in DOMAIN iterations :
         ~iterations[k].blocked /\ ~iterations[k].critical /\ ~Validated(iterations[k])
  BY <1>1, <1>2 DEF CyclingInv
<1>. QED
  BY <1>3, <1>4, <1>5 DEF ContinuesWithinBounds

\* ElmanWorkflow.run is bounded: while it goes on, its results, counted again from the
\* list, reach no limit of the policy on cycles, cost, time, same failures or lack of
\* progress, and a run proposes at most one lesson, from validated criteria.
THEOREM LoopCorrect == LoopSpec => []LoopIsBounded
<1>1. LoopInv => LoopIsBounded
  BY LoopBounds DEF LoopInv, LoopIsBounded
<1>. QED
  BY LoopStarts, LoopSteps, <1>1, PTL DEF LoopSpec

\* The reason run reports is true of the results of the loop, and a loop that is ready
\* for human approval had no critical finding and no blocker.
THEOREM ReasonCorrect == LoopSpec => []StopsForItsReason
<1>1. LoopInv => StopsForItsReason
  BY DEF LoopInv, StopsForItsReason
<1>. QED
  BY LoopStarts, LoopSteps, <1>1, PTL DEF LoopSpec

-----------------------------------------------------------------------------
(* The release: every actor relies only on the names that no other has       *)
(* touched since it began.                                                   *)

\* What an actor may still have to hash or, when it packs, the files it listed again.
Ahead(b) == IF step[b] = "hashing" THEN todo[b] ELSE {}

\* The names a build can rely on: not its own, nor those others changed.
Still(b) == Names \ (touched[b] \cup {b, Inventory})

Edited == {edits[i] : i \in 1..Len(edits)}

\* Each step is of one actor, and what others keep for it is in no order.
ShapeOf(a) ==
    /\ todo[a] \subseteq Names /\ touched[a] \subseteq Names
    /\ DOMAIN digests[a] \subseteq Names /\ DOMAIN packed[a] \subseteq Names
    /\ \A n \in DOMAIN digests[a] : digests[a][n] # Missing
    /\ step[a] = "idle" => DOMAIN digests[a] = {}
    /\ step[a] \in {"idle", "hashing", "made", "written", "replaced"} => DOMAIN packed[a] = {}
    /\ step[a] \in {"made", "written", "replaced", "built", "verified"} => todo[a] = {}

\* The temporary file of a build is there only between mkstemp and the rename, unless
\* the build died; once written it holds the lines.
TemporaryIs(b) ==
    /\ step[b] \in {"idle", "hashing", "replaced", "packing", "built"} => disk[b] = Missing
    /\ step[b] = "written" => disk[b] = 1

\* A file nobody changes was hashed with the content it had.
UneditedIs(b) ==
    \A n \in Files \ Edited :
        /\ step[b] = "hashing" =>
              n \in todo[b] \/ (n \in DOMAIN digests[b] /\ digests[b][n] = 0)
        /\ step[b] \in {"made", "written"} => n \in DOMAIN digests[b] /\ digests[b][n] = 0

\* What a build has hashed of the names left alone is what is there.
HashedIs(b) ==
    step[b] \in {"hashing", "made", "written", "replaced", "packing", "built"}
    /\ Inventory \notin touched[b] =>
        /\ DOMAIN digests[b] \cup Ahead(b) \subseteq Names \ {b, Inventory}
        /\ \A n \in Still(b) :
              /\ n \in DOMAIN digests[b] => digests[b][n] = disk[n]
              /\ n \in DOMAIN digests[b] \cup Ahead(b) <=> disk[n] # Missing

ListedIs(b) ==
    step[b] \in {"replaced", "packing", "built"} /\ Inventory \notin touched[b] =>
        listed = digests[b]

\* What it has packed of them is what is there.
PackedIs(b) ==
    step[b] \in {"packing", "built"} /\ Inventory \notin touched[b] =>
        /\ DOMAIN packed[b] \cup todo[b] \subseteq Names \ {b}
        /\ \A n \in Still(b) :
              /\ n \in DOMAIN packed[b] => packed[b][n] = disk[n]
              /\ n \in DOMAIN packed[b] \cup todo[b] <=> disk[n] # Missing

\* What a verification has reported of the names left alone is what differs.
ComparedIs(c) ==
    step[c] \in {"comparing", "verified"} =>
        /\ todo[c] \cap DOMAIN packed[c] = {}
        /\ \A n \in DOMAIN digests[c] \ (touched[c] \cup todo[c]) :
              n \in DOMAIN packed[c] <=> disk[n] \in {Missing, Link} \/ disk[n] # digests[c][n]

BuildInv(b) ==
    TemporaryIs(b) /\ UneditedIs(b) /\ HashedIs(b) /\ ListedIs(b) /\ PackedIs(b)

ActorInv(a) ==
    /\ ShapeOf(a)
    /\ a \in Builds => BuildInv(a)
    /\ a \in Checks => ComparedIs(a)

\* The directory, whoever works on it.
DirectoryInv ==
    /\ disk \in [Names -> Nat \cup {Missing, Link}]
    /\ \A n \in Builds \cup {Inventory} : disk[n] # Link
    /\ edits \in Seq(Files)
    /\ step = [a \in Actors |-> step[a]] /\ todo = [a \in Actors |-> todo[a]]
    /\ digests = [a \in Actors |-> digests[a]] /\ packed = [a \in Actors |-> packed[a]]
    /\ touched = [a \in Actors |-> touched[a]]
    /\ DOMAIN listed \subseteq Names /\ \A n \in DOMAIN listed : listed[n] # Missing
    /\ \A n \in Files \ Edited : disk[n] = 0
    /\ InventoryIsWhole

ReleaseInv == DirectoryInv /\ \A a \in Actors : ActorInv(a)

\* The names, told apart.
LEMMA NamesAre ==
  /\ Missing # Link /\ Missing \notin Nat /\ Link \notin Nat
  /\ Inventory \notin Files /\ Inventory \notin Builds /\ Inventory \in Names
  /\ \A b \in Builds : b \notin Files /\ b \notin Checks /\ b \in Names /\ b \in Actors
  /\ \A c \in Checks : c \in Actors /\ c \notin Builds
  /\ Files \subseteq Names
BY ReleaseAssumption DEF ReleaseAssumption, Names, Actors

\* The first of some names is one of them.
LEMMA FirstIs ==
  ASSUME NEW S \in SUBSET Names, S # {}
  PROVE  First(S) \in S
<1>. DEFINE at(n) == CHOOSE i \in 1..Len(Order) : Order[i] = n
            T == {at(n) : n \in S}
<1>1. Len(Order) \in Nat /\ Names = {Order[i] : i \in 1..Len(Order)}
  BY ReleaseAssumption DEF ReleaseAssumption
<1>2. \A n \in S : at(n) \in 1..Len(Order)
  BY <1>1
<1>. HIDE DEF at
<1>3. T \subseteq Nat /\ T # {}
  BY <1>1, <1>2
<1>4. PICK m \in T : \A k \in T : <<k, m>> \notin OpToRel(<, Nat)
  BY <1>3, NatLessThanWellFounded, WFMin, Zenon
<1>5. ASSUME NEW k \in T, ~(m <= k) PROVE FALSE
  <2>1. k \in Nat /\ m \in Nat /\ k < m
    BY <1>3, <1>5
  <2>2. <<k, m>> \in OpToRel(<, Nat)
    BY <2>1 DEF OpToRel
  <2>. QED
    BY <1>4, <2>2
<1>6. PICK n \in S : m = at(n)
  OBVIOUS
<1>7. \A o \in S : at(n) <= at(o)
  BY <1>5, <1>6
<1>8. First(S) = CHOOSE x \in S : \A o \in S : at(x) <= at(o)
  BY DEF First, at
<1>. QED
  BY <1>7, <1>8

\* An actor whose own state stays, when the names that change are touched.
KeptBy(o) ==
    /\ step'[o] = step[o] /\ todo'[o] = todo[o]
    /\ digests'[o] = digests[o] /\ packed'[o] = packed[o]
    /\ touched[o] \subseteq touched'[o] /\ touched'[o] \subseteq Names
    /\ \A n \in Names \ touched'[o] : disk'[n] = disk[n]
    /\ o \in Builds => disk'[o] = disk[o]
    /\ listed' = listed \/ Inventory \in touched'[o]
    /\ Edited \subseteq Edited'

\* It keeps what it relies on.
LEMMA OthersKeep ==
  ASSUME NEW o \in Actors, ActorInv(o), KeptBy(o)
  PROVE  ActorInv(o)'
<1>1. ShapeOf(o)'
  BY DEF ActorInv, ShapeOf, KeptBy
<1>2. ASSUME o \in Builds PROVE BuildInv(o)'
  <2>1. o \in Names /\ o \in Builds
    BY <1>2, NamesAre
  <2>2. TemporaryIs(o)'
    BY <2>1 DEF ActorInv, BuildInv, TemporaryIs, KeptBy
  <2>3. UneditedIs(o)'
    BY <2>1 DEF ActorInv, BuildInv, UneditedIs, KeptBy
  <2>4. Still(o)' \subseteq Still(o) /\ Ahead(o)' = Ahead(o)
        /\ \A n \in Still(o)' : disk'[n] = disk[n]
    BY <2>1 DEF Still, Ahead, KeptBy
  <2>5. HashedIs(o)'
    BY <2>1, <2>4 DEF ActorInv, BuildInv, HashedIs, KeptBy
  <2>6. ListedIs(o)'
    BY <2>1 DEF ActorInv, BuildInv, ListedIs, KeptBy
  <2>7. PackedIs(o)'
    BY <2>1, <2>4 DEF ActorInv, BuildInv, PackedIs, KeptBy
  <2>. QED
    BY <2>2, <2>3, <2>5, <2>6, <2>7 DEF BuildInv
<1>3. ASSUME o \in Checks PROVE ComparedIs(o)'
  <2>1. DOMAIN digests[o] \subseteq Names
    BY DEF ActorInv, ShapeOf
  <2>. QED
    BY <1>3, <2>1 DEF ActorInv, ComparedIs, KeptBy
<1>. QED
  BY <1>1, <1>2, <1>3 DEF ActorInv

\* The listing starts from the directory as it is, and finds the unedited files in it.
LEMMA BeginKeeps ==
  ASSUME ReleaseInv, NEW b \in Builds, Begin(b)
  PROVE  ReleaseInv'
<1>1. /\ b \in Actors /\ b \in Names /\ step[b] = "idle" /\ ActorInv(b) /\ DirectoryInv
      /\ disk' = disk /\ listed' = listed /\ edits' = edits /\ digests' = digests
      /\ packed' = packed
      /\ step' = [step EXCEPT ![b] = step'[b]]
      /\ \/ step'[b] = "raised" /\ todo' = todo /\ touched' = touched
         \/ /\ step'[b] = "hashing"
            /\ todo' = [todo EXCEPT ![b] = Released(Present)]
            /\ touched' = [touched EXCEPT ![b] = {}]
  BY NamesAre DEF ReleaseInv, DirectoryInv, Begin, Goes
<1>2. ASSUME NEW o \in Actors \ {b} PROVE KeptBy(o)
  BY <1>1 DEF ReleaseInv, DirectoryInv, ActorInv, ShapeOf, KeptBy, Edited
<1>3. DirectoryInv'
  BY <1>1 DEF DirectoryInv, InventoryIsWhole, Edited
<1>4. ActorInv(b)'
  <2>1. CASE step'[b] = "raised" /\ todo' = todo /\ touched' = touched
    BY <1>1, <2>1, NamesAre DEF ActorInv, ShapeOf, BuildInv, TemporaryIs, UneditedIs, HashedIs,
      ListedIs, PackedIs
  <2>2. CASE /\ step'[b] = "hashing"
             /\ todo' = [todo EXCEPT ![b] = Released(Present)]
             /\ touched' = [touched EXCEPT ![b] = {}]
    <3>1. /\ todo'[b] = {n \in Names : disk[n] # Missing} \ {Inventory} /\ touched'[b] = {}
          /\ DOMAIN digests[b] = {} /\ DOMAIN packed[b] = {} /\ disk[b] = Missing
      BY <1>1, <2>2, NamesAre DEF DirectoryInv, ActorInv, BuildInv, ShapeOf, TemporaryIs,
         Released, Present
    <3>2. ShapeOf(b)'
      BY <1>1, <2>2, <3>1 DEF ShapeOf, ActorInv
    <3>3. TemporaryIs(b)' /\ ListedIs(b)' /\ PackedIs(b)'
      BY <1>1, <2>2, <3>1 DEF TemporaryIs, ListedIs, PackedIs
    <3>4. UneditedIs(b)'
      <4>1. \A n \in Files \ Edited : disk[n] = 0
        BY <1>1 DEF DirectoryInv
      <4>2. \A n \in Files : n \in Names /\ n # Inventory
        BY NamesAre
      <4>3. 0 # Missing
        BY NamesAre
      <4>. QED
        BY <1>1, <2>2, <3>1, <4>1, <4>2, <4>3 DEF UneditedIs, Edited
    <3>5. HashedIs(b)'
      BY <1>1, <2>2, <3>1 DEF HashedIs, Still, Ahead
    <3>. QED
      BY <3>2, <3>3, <3>4, <3>5, NamesAre DEF ActorInv, BuildInv
  <2>. QED
    BY <1>1, <2>1, <2>2
<1>. QED
  BY <1>2, <1>3, <1>4, OthersKeep DEF ReleaseInv

\* The name hashed next leaves the names ahead with the content that is there.
LEMMA HashKeeps ==
  ASSUME ReleaseInv, NEW b \in Builds, Hash(b)
  PROVE  ReleaseInv'
<1>. DEFINE n == First(todo[b])
<1>1. /\ b \in Actors /\ b \in Names /\ step[b] = "hashing" /\ ActorInv(b) /\ DirectoryInv
      /\ disk' = disk /\ listed' = listed /\ edits' = edits /\ touched' = touched
      /\ packed' = packed
      /\ todo[b] \in SUBSET Names /\ todo[b] # {}
  BY NamesAre DEF ReleaseInv, DirectoryInv, ActorInv, ShapeOf, Hash
<1>2. n \in todo[b] /\ n \in Names
  BY <1>1, FirstIs
<1>3. \/ disk[n] = Missing /\ step' = [step EXCEPT ![b] = "raised"]
         /\ todo' = todo /\ digests' = digests
      \/ /\ disk[n] # Missing /\ digests' = [digests EXCEPT ![b] = Put(digests[b], n, disk[n])]
         /\ todo' = [todo EXCEPT ![b] = todo[b] \ {n}] /\ step' = step
  BY DEF Hash, Goes
<1>. HIDE DEF n
<1>4. ASSUME NEW o \in Actors \ {b} PROVE KeptBy(o)
  BY <1>1, <1>3 DEF ReleaseInv, DirectoryInv, ActorInv, ShapeOf, KeptBy, Edited
<1>5. DirectoryInv'
  BY <1>1, <1>3 DEF DirectoryInv, InventoryIsWhole, Edited
<1>6. ActorInv(b)'
  <2>1. CASE step' = [step EXCEPT ![b] = "raised"] /\ todo' = todo /\ digests' = digests
    <3>1. step'[b] = "raised"
      BY <1>1, <2>1 DEF DirectoryInv
    <3>. QED
      BY <1>1, <2>1, <3>1, NamesAre DEF ActorInv, ShapeOf, BuildInv, TemporaryIs, UneditedIs,
        HashedIs, ListedIs, PackedIs
  <2>2. CASE /\ disk[n] # Missing /\ digests' = [digests EXCEPT ![b] = Put(digests[b], n, disk[n])]
             /\ todo' = [todo EXCEPT ![b] = todo[b] \ {n}] /\ step' = step
    <3>1. /\ todo'[b] = todo[b] \ {n} /\ DOMAIN digests'[b] = DOMAIN digests[b] \cup {n}
          /\ digests'[b][n] = disk[n]
          /\ \A x \in DOMAIN digests[b] : x # n => digests'[b][x] = digests[b][x]
          /\ step'[b] = "hashing"
      <4>1. todo'[b] = todo[b] \ {n} /\ digests'[b] = Put(digests[b], n, disk[n])
        BY <1>1, <2>2 DEF DirectoryInv
      <4>. QED
        BY <1>1, <2>2, <4>1 DEF Put
    <3>2. ShapeOf(b)'
      BY <1>1, <1>2, <2>2, <3>1 DEF ShapeOf, ActorInv
    <3>3. TemporaryIs(b)' /\ ListedIs(b)' /\ PackedIs(b)'
      BY <1>1, <3>1 DEF ActorInv, BuildInv, TemporaryIs, ListedIs, PackedIs
    <3>4. UneditedIs(b)'
      <4>1. \A x \in Files \ Edited : disk[x] = 0
        BY <1>1 DEF DirectoryInv
      <4>. QED
        BY <1>1, <3>1, <4>1 DEF ActorInv, BuildInv, UneditedIs, Edited
    <3>5. HashedIs(b)'
      BY <1>1, <1>2, <2>2, <3>1 DEF ActorInv, BuildInv, HashedIs, Still, Ahead
    <3>. QED
      BY <3>2, <3>3, <3>4, <3>5, NamesAre DEF ActorInv, BuildInv
  <2>. QED
    BY <1>3, <2>1, <2>2
<1>. QED
  BY <1>4, <1>5, <1>6, OthersKeep DEF ReleaseInv

\* A step of a build on its temporary file, but for the rename.
LEMMA TemporaryKeeps ==
  ASSUME ReleaseInv, NEW b \in Builds, NEW d \in Nat \cup {Missing},
         NEW s, disk' = [disk EXCEPT ![b] = d], step' = [step EXCEPT ![b] = s], TouchedBy(b, {b}),
         UNCHANGED <<listed, edits, todo, digests, packed>>,
         \/ s = "made" /\ step[b] = "hashing" /\ todo[b] = {}
         \/ s = "written" /\ d = 1 /\ step[b] = "made"
         \/ s = "raised"
  PROVE  ReleaseInv'
<1>1. /\ b \in Actors /\ b \in Names /\ b # Inventory /\ b \notin Files
      /\ ActorInv(b) /\ DirectoryInv /\ step'[b] = s /\ disk'[b] = d
      /\ \A n \in Names : n # b => disk'[n] = disk[n]
      /\ listed' = listed /\ edits' = edits /\ todo' = todo /\ digests' = digests
      /\ packed' = packed
      /\ touched'[b] = touched[b]
      /\ \A o \in Actors : o # b => touched'[o] = touched[o] \cup {b}
      /\ \A o \in Actors : o # b => step'[o] = step[o]
      /\ d # Link
  BY NamesAre DEF ReleaseInv, DirectoryInv, TouchedBy
<1>2. ASSUME NEW o \in Actors \ {b} PROVE KeptBy(o)
  <2>1. touched[o] \subseteq Names
    BY DEF ReleaseInv, ActorInv, ShapeOf
  <2>2. o \in Builds => disk'[o] = disk[o]
    BY <1>1, NamesAre
  <2>. QED
    BY <1>1, <2>1, <2>2 DEF KeptBy, Edited
<1>3. DirectoryInv'
  <2>1. /\ disk' \in [Names -> Nat \cup {Missing, Link}]
        /\ \A n \in Builds \cup {Inventory} : disk'[n] # Link
    BY <1>1, NamesAre DEF DirectoryInv
  <2>2. touched' = [a \in Actors |-> touched'[a]] /\ step' = [a \in Actors |-> step'[a]]
    BY <1>1 DEF TouchedBy, DirectoryInv
  <2>3. \A n \in Files : disk'[n] = disk[n]
    BY <1>1, NamesAre
  <2>4. InventoryIsWhole'
    BY <1>1, <2>3, NamesAre DEF DirectoryInv, InventoryIsWhole
  <2>. QED
    BY <1>1, <2>1, <2>2, <2>3, <2>4 DEF DirectoryInv, Edited
<1>4. Still(b)' = Still(b) /\ \A n \in Still(b) : disk'[n] = disk[n]
  BY <1>1 DEF Still
<1>5. ActorInv(b)'
  <2>1. ShapeOf(b)'
    BY <1>1 DEF ActorInv, ShapeOf
  <2>2. TemporaryIs(b)'
    BY <1>1 DEF TemporaryIs
  <2>3. UneditedIs(b)'
    BY <1>1 DEF ActorInv, BuildInv, UneditedIs, Edited
  <2>4. HashedIs(b)'
    BY <1>1, <1>4 DEF ActorInv, BuildInv, HashedIs, Ahead
  <2>5. ListedIs(b)' /\ PackedIs(b)'
    BY <1>1 DEF ListedIs, PackedIs
  <2>. QED
    BY <2>1, <2>2, <2>3, <2>4, <2>5, NamesAre DEF ActorInv, BuildInv
<1>. QED
  BY <1>2, <1>3, <1>5, OthersKeep DEF ReleaseInv

\* The inventory put in place is the lines that were hashed: every other actor sees that
\* name touched.
LEMMA ReplaceKeeps ==
  ASSUME ReleaseInv, NEW b \in Builds, Replace(b)
  PROVE  ReleaseInv'
<1>1. /\ b \in Actors /\ b \in Names /\ b # Inventory /\ b \notin Files
      /\ Inventory \in Names /\ Inventory \notin Files
      /\ ActorInv(b) /\ DirectoryInv /\ step[b] = "written" /\ disk[b] = 1
      /\ edits' = edits /\ todo' = todo /\ digests' = digests /\ packed' = packed
  BY NamesAre DEF ReleaseInv, Replace, ActorInv, BuildInv, TemporaryIs
<1>2. /\ step'[b] = "replaced" /\ step' = [a \in Actors |-> step'[a]]
      /\ \A o \in Actors : o # b => step'[o] = step[o]
  BY <1>1 DEF Replace, Goes, DirectoryInv
<1>3. /\ touched'[b] = touched[b] /\ touched' = [a \in Actors |-> touched'[a]]
      /\ \A o \in Actors : o # b => touched'[o] = touched[o] \cup {b, Inventory}
  BY <1>1 DEF Replace, Replaced, TouchedBy
<1>4. listed' = digests[b]
  BY <1>1 DEF Replace, Replaced, Lines
<1>5. /\ disk' \in [Names -> Nat \cup {Missing, Link}]
      /\ disk'[b] = Missing /\ disk'[Inventory] \in Nat
      /\ \A n \in Names : n # b /\ n # Inventory => disk'[n] = disk[n]
  <2>1. disk[Inventory] \in Nat \cup {Missing} /\ disk \in [Names -> Nat \cup {Missing, Link}]
    BY <1>1 DEF DirectoryInv
  <2>2. PICK i : i = IF disk[Inventory] = Missing THEN 0 ELSE disk[Inventory] + 1
    OBVIOUS
  <2>3. i \in Nat
    BY <2>1, <2>2
  <2>4. [disk EXCEPT ![b] = Missing][Inventory] = disk[Inventory]
    BY <1>1, <2>1
  <2>5. disk' = [[disk EXCEPT ![b] = Missing] EXCEPT ![Inventory] = i]
    BY <2>2, <2>4 DEF Replace, Replaced
  <2>. QED
    BY <1>1, <2>1, <2>3, <2>5
<1>6. ASSUME NEW o \in Actors \ {b} PROVE KeptBy(o)
  <2>1. touched[o] \subseteq Names
    BY DEF ReleaseInv, ActorInv, ShapeOf
  <2>2. o \in Builds => disk'[o] = disk[o]
    BY <1>5, NamesAre
  <2>. QED
    BY <1>1, <1>2, <1>3, <1>5, <2>1, <2>2 DEF KeptBy, Edited
<1>7. \A n \in Files \ Edited : n \in DOMAIN digests[b] /\ digests[b][n] = 0 /\ disk[n] = 0
      /\ disk'[n] = 0
  BY <1>1, <1>5, NamesAre DEF DirectoryInv, ActorInv, BuildInv, UneditedIs
<1>8. DirectoryInv'
  <2>1. \A n \in Builds \cup {Inventory} : disk'[n] # Link
    BY <1>1, <1>5, NamesAre DEF DirectoryInv
  <2>2. DOMAIN listed' \subseteq Names /\ \A n \in DOMAIN listed' : listed'[n] # Missing
    BY <1>1, <1>4 DEF ActorInv, ShapeOf
  <2>3. InventoryIsWhole'
    BY <1>1, <1>4, <1>7 DEF InventoryIsWhole, Edited
  <2>. QED
    BY <1>1, <1>2, <1>3, <1>5, <1>7, <2>1, <2>2, <2>3 DEF DirectoryInv, Edited
<1>9. Still(b)' = Still(b) /\ \A n \in Still(b) : disk'[n] = disk[n]
  BY <1>3, <1>5 DEF Still
<1>10. ActorInv(b)'
  <2>1. ShapeOf(b)'
    BY <1>1, <1>2, <1>3 DEF ActorInv, ShapeOf
  <2>2. TemporaryIs(b)' /\ UneditedIs(b)' /\ ListedIs(b)' /\ PackedIs(b)'
    BY <1>1, <1>2, <1>4, <1>5 DEF TemporaryIs, UneditedIs, ListedIs, PackedIs
  <2>3. HashedIs(b)'
    BY <1>1, <1>2, <1>3, <1>9 DEF ActorInv, BuildInv, HashedIs, Ahead
  <2>. QED
    BY <2>1, <2>2, <2>3, NamesAre DEF ActorInv, BuildInv
<1>. QED
  BY <1>6, <1>8, <1>10, OthersKeep DEF ReleaseInv

\* The second listing finds the names the first one found, but for those touched.
LEMMA ListAgainKeeps ==
  ASSUME ReleaseInv, NEW b \in Builds, ListAgain(b)
  PROVE  ReleaseInv'
<1>1. /\ b \in Actors /\ b \in Names /\ b # Inventory /\ Inventory \in Names
      /\ step[b] = "replaced" /\ ActorInv(b) /\ DirectoryInv
      /\ disk' = disk /\ listed' = listed /\ edits' = edits /\ digests' = digests
      /\ packed' = packed
      /\ touched' = touched
      /\ step' = [step EXCEPT ![b] = step'[b]]
      /\ \/ step'[b] = "raised" /\ todo' = todo
         \/ /\ step'[b] = "packing"
            /\ todo' = [todo EXCEPT ![b] = Released(Present) \cup {Inventory}]
  BY NamesAre DEF ReleaseInv, DirectoryInv, ListAgain, Goes
<1>2. ASSUME NEW o \in Actors \ {b} PROVE KeptBy(o)
  BY <1>1 DEF ReleaseInv, DirectoryInv, ActorInv, ShapeOf, KeptBy, Edited
<1>3. DirectoryInv'
  BY <1>1 DEF DirectoryInv, InventoryIsWhole, Edited
<1>4. ActorInv(b)'
  <2>1. CASE step'[b] = "raised" /\ todo' = todo
    BY <1>1, <2>1, NamesAre DEF ActorInv, ShapeOf, BuildInv, TemporaryIs, UneditedIs, HashedIs,
      ListedIs, PackedIs
  <2>2. CASE /\ step'[b] = "packing"
             /\ todo' = [todo EXCEPT ![b] = Released(Present) \cup {Inventory}]
    <3>1. /\ todo'[b] = ({n \in Names : disk[n] # Missing} \ {Inventory}) \cup {Inventory}
          /\ todo[b] = {} /\ DOMAIN packed[b] = {} /\ disk[b] = Missing
      BY <1>1, <2>2, NamesAre DEF DirectoryInv, ActorInv, BuildInv, ShapeOf, TemporaryIs,
         Released, Present
    <3>2. ShapeOf(b)'
      BY <1>1, <2>2, <3>1 DEF ShapeOf, ActorInv
    <3>3. TemporaryIs(b)' /\ UneditedIs(b)'
      BY <1>1, <2>2, <3>1 DEF TemporaryIs, UneditedIs
    <3>4. ListedIs(b)'
      BY <1>1, <2>2 DEF ListedIs, ActorInv, BuildInv
    <3>5. HashedIs(b)'
      BY <1>1, <2>2 DEF ActorInv, BuildInv, HashedIs, Still, Ahead
    <3>6. PackedIs(b)'
      BY <1>1, <2>2, <3>1 DEF PackedIs, Still
    <3>. QED
      BY <3>2, <3>3, <3>4, <3>5, <3>6, NamesAre DEF ActorInv, BuildInv
  <2>. QED
    BY <1>1, <2>1, <2>2
<1>. QED
  BY <1>2, <1>3, <1>4, OthersKeep DEF ReleaseInv

\* The name packed next is added with the content that is there; the lines that are packed
\* are those in place.
LEMMA PackKeeps ==
  ASSUME ReleaseInv, NEW b \in Builds, Pack(b)
  PROVE  ReleaseInv'
<1>. DEFINE n == First(todo[b])
<1>1. /\ b \in Actors /\ b \in Names /\ b # Inventory /\ step[b] = "packing"
      /\ ActorInv(b) /\ DirectoryInv
      /\ disk' = disk /\ listed' = listed /\ edits' = edits /\ touched' = touched
      /\ todo[b] \in SUBSET Names /\ todo[b] # {}
  BY NamesAre DEF ReleaseInv, DirectoryInv, ActorInv, ShapeOf, Pack
<1>2. n \in todo[b] /\ n \in Names
  BY <1>1, FirstIs
<1>3. \/ disk[n] = Missing /\ step' = [step EXCEPT ![b] = "raised"]
         /\ todo' = todo /\ digests' = digests /\ packed' = packed
      \/ /\ disk[n] # Missing /\ packed' = [packed EXCEPT ![b] = Put(packed[b], n, disk[n])]
         /\ todo' = [todo EXCEPT ![b] = todo[b] \ {n}]
         /\ digests' = (IF n = Inventory THEN [digests EXCEPT ![b] = listed] ELSE digests)
         /\ step' = [step EXCEPT ![b] = IF todo'[b] = {} THEN "built" ELSE "packing"]
  BY DEF Pack, Goes
<1>. HIDE DEF n
<1>4. ASSUME NEW o \in Actors \ {b} PROVE KeptBy(o)
  <2>1. /\ step'[o] = step[o] /\ todo'[o] = todo[o] /\ digests'[o] = digests[o]
        /\ packed'[o] = packed[o]
    BY <1>1, <1>3 DEF DirectoryInv
  <2>. QED
    BY <1>1, <2>1 DEF ReleaseInv, ActorInv, ShapeOf, KeptBy, Edited
<1>5. DirectoryInv'
  <2>1. /\ step' = [a \in Actors |-> step'[a]] /\ todo' = [a \in Actors |-> todo'[a]]
        /\ digests' = [a \in Actors |-> digests'[a]] /\ packed' = [a \in Actors |-> packed'[a]]
    BY <1>1, <1>3 DEF DirectoryInv
  <2>. QED
    BY <1>1, <2>1 DEF DirectoryInv, InventoryIsWhole, Edited
<1>6. ActorInv(b)'
  <2>1. CASE step' = [step EXCEPT ![b] = "raised"] /\ todo' = todo /\ digests' = digests
             /\ packed' = packed
    <3>1. step'[b] = "raised"
      BY <1>1, <2>1 DEF DirectoryInv
    <3>. QED
      BY <1>1, <2>1, <3>1, NamesAre DEF ActorInv, ShapeOf, BuildInv, TemporaryIs, UneditedIs,
        HashedIs, ListedIs, PackedIs
  <2>2. CASE /\ disk[n] # Missing /\ packed' = [packed EXCEPT ![b] = Put(packed[b], n, disk[n])]
             /\ todo' = [todo EXCEPT ![b] = todo[b] \ {n}]
             /\ digests' = (IF n = Inventory THEN [digests EXCEPT ![b] = listed] ELSE digests)
             /\ step' = [step EXCEPT ![b] = IF todo'[b] = {} THEN "built" ELSE "packing"]
    <3>1. /\ todo'[b] = todo[b] \ {n} /\ DOMAIN packed'[b] = DOMAIN packed[b] \cup {n}
          /\ packed'[b][n] = disk[n]
          /\ \A x \in DOMAIN packed[b] : x # n => packed'[b][x] = packed[b][x]
      <4>1. todo'[b] = todo[b] \ {n} /\ packed'[b] = Put(packed[b], n, disk[n])
        BY <1>1, <2>2 DEF DirectoryInv
      <4>. QED
        BY <4>1 DEF Put
    <3>2. step'[b] \in {"packing", "built"} /\ (step'[b] = "built" => todo'[b] = {})
      BY <1>1, <2>2 DEF DirectoryInv
    <3>3. digests'[b] = digests[b] \/ digests'[b] = listed
      BY <1>1, <2>2 DEF DirectoryInv
    <3>4. Inventory \notin touched[b] => digests'[b] = digests[b] /\ listed = digests[b]
      BY <1>1, <3>3 DEF ActorInv, BuildInv, ListedIs
    <3>5. ShapeOf(b)'
      BY <1>1, <1>2, <3>1, <3>2, <3>3 DEF ShapeOf, ActorInv, DirectoryInv
    <3>6. TemporaryIs(b)' /\ UneditedIs(b)'
      BY <1>1, <3>2 DEF ActorInv, BuildInv, TemporaryIs, UneditedIs
    <3>7. ListedIs(b)'
      BY <1>1, <3>4 DEF ListedIs
    <3>8. HashedIs(b)'
      BY <1>1, <3>2, <3>4 DEF ActorInv, BuildInv, HashedIs, Still, Ahead
    <3>9. PackedIs(b)'
      BY <1>1, <1>2, <2>2, <3>1, <3>2 DEF ActorInv, BuildInv, PackedIs, Still
    <3>. QED
      BY <3>5, <3>6, <3>7, <3>8, <3>9, NamesAre DEF ActorInv, BuildInv
  <2>. QED
    BY <1>3, <2>1, <2>2
<1>. QED
  BY <1>4, <1>5, <1>6, OthersKeep DEF ReleaseInv

\* A build that dies leaves the others what they rely on.
LEMMA CrashKeeps ==
  ASSUME ReleaseInv, NEW b \in Builds, Crash(b)
  PROVE  ReleaseInv'
<1>1. /\ b \in Actors /\ ActorInv(b) /\ DirectoryInv /\ step'[b] = "crashed"
      /\ \A o \in Actors : o # b => step'[o] = step[o]
      /\ step' = [a \in Actors |-> step'[a]]
      /\ disk' = disk /\ listed' = listed /\ edits' = edits /\ digests' = digests
      /\ packed' = packed
      /\ touched' = touched /\ todo' = todo
  BY NamesAre DEF ReleaseInv, DirectoryInv, Crash, Goes
<1>2. ASSUME NEW o \in Actors \ {b} PROVE KeptBy(o)
  BY <1>1 DEF ReleaseInv, ActorInv, ShapeOf, KeptBy, Edited
<1>3. DirectoryInv'
  BY <1>1 DEF DirectoryInv, InventoryIsWhole, Edited
<1>4. ActorInv(b)'
  BY <1>1, NamesAre DEF ActorInv, ShapeOf, BuildInv, TemporaryIs, UneditedIs, HashedIs,
    ListedIs, PackedIs
<1>. QED
  BY <1>2, <1>3, <1>4, OthersKeep DEF ReleaseInv

\* A verification starts from the lines in place.
LEMMA ReadKeeps ==
  ASSUME ReleaseInv, NEW c \in Checks, Read(c)
  PROVE  ReleaseInv'
<1>1. /\ c \in Actors /\ c \notin Builds /\ step[c] = "idle" /\ ActorInv(c) /\ DirectoryInv
      /\ disk' = disk /\ listed' = listed /\ edits' = edits /\ packed' = packed
      /\ step' = [step EXCEPT ![c] = step'[c]]
      /\ \/ step'[c] = "raised" /\ todo' = todo /\ touched' = touched /\ digests' = digests
         \/ /\ step'[c] = "comparing"
            /\ digests' = [digests EXCEPT ![c] = listed]
            /\ todo' = [todo EXCEPT ![c] = DOMAIN listed]
            /\ touched' = [touched EXCEPT ![c] = {}]
  BY NamesAre DEF ReleaseInv, DirectoryInv, Read, Goes
<1>2. ASSUME NEW o \in Actors \ {c} PROVE KeptBy(o)
  <2>1. /\ step'[o] = step[o] /\ todo'[o] = todo[o] /\ digests'[o] = digests[o]
        /\ touched'[o] = touched[o]
    BY <1>1 DEF DirectoryInv
  <2>. QED
    BY <1>1, <2>1 DEF ReleaseInv, ActorInv, ShapeOf, KeptBy, Edited
<1>3. DirectoryInv'
  BY <1>1 DEF DirectoryInv, InventoryIsWhole, Edited
<1>4. ActorInv(c)'
  <2>1. CASE step'[c] = "raised" /\ todo' = todo /\ touched' = touched /\ digests' = digests
    BY <1>1, <2>1 DEF ActorInv, ShapeOf, ComparedIs
  <2>2. CASE /\ step'[c] = "comparing"
             /\ digests' = [digests EXCEPT ![c] = listed]
             /\ todo' = [todo EXCEPT ![c] = DOMAIN listed]
             /\ touched' = [touched EXCEPT ![c] = {}]
    <3>1. /\ digests'[c] = listed /\ todo'[c] = DOMAIN listed /\ touched'[c] = {}
          /\ DOMAIN packed[c] = {}
      BY <1>1, <2>2 DEF DirectoryInv, ActorInv, ShapeOf
    <3>. QED
      BY <1>1, <2>2, <3>1 DEF ActorInv, ShapeOf, ComparedIs, DirectoryInv
  <2>. QED
    BY <1>1, <2>1, <2>2
<1>. QED
  BY <1>2, <1>3, <1>4, OthersKeep DEF ReleaseInv

\* The name compared next is reported when it differs, and it stays as it is unless touched.
LEMMA CompareKeeps ==
  ASSUME ReleaseInv, NEW c \in Checks, Compare(c)
  PROVE  ReleaseInv'
<1>. DEFINE n == First(todo[c])
<1>1. /\ c \in Actors /\ c \notin Builds /\ step[c] = "comparing" /\ ActorInv(c) /\ DirectoryInv
      /\ disk' = disk /\ listed' = listed /\ edits' = edits /\ touched' = touched
      /\ digests' = digests
      /\ todo[c] \in SUBSET Names /\ todo[c] # {}
  BY NamesAre DEF ReleaseInv, DirectoryInv, ActorInv, ShapeOf, Compare
<1>2. n \in todo[c] /\ n \in Names
  BY <1>1, FirstIs
<1>3. /\ packed' = (IF Differs(n, digests[c][n])
                    THEN [packed EXCEPT ![c] = Put(packed[c], n, disk[n])] ELSE packed)
      /\ todo' = [todo EXCEPT ![c] = todo[c] \ {n}]
      /\ step' = [step EXCEPT ![c] = IF todo'[c] = {} THEN "verified" ELSE "comparing"]
  BY DEF Compare, Goes
<1>. HIDE DEF n
<1>4. ASSUME NEW o \in Actors \ {c} PROVE KeptBy(o)
  <2>1. step'[o] = step[o] /\ todo'[o] = todo[o] /\ packed'[o] = packed[o]
    BY <1>1, <1>3 DEF DirectoryInv
  <2>. QED
    BY <1>1, <2>1 DEF ReleaseInv, ActorInv, ShapeOf, KeptBy, Edited
<1>5. DirectoryInv'
  <2>1. /\ step' = [a \in Actors |-> step'[a]] /\ todo' = [a \in Actors |-> todo'[a]]
        /\ packed' = [a \in Actors |-> packed'[a]]
    BY <1>1, <1>3 DEF DirectoryInv
  <2>. QED
    BY <1>1, <2>1 DEF DirectoryInv, InventoryIsWhole, Edited
<1>6. ActorInv(c)'
  <2>1. /\ todo'[c] = todo[c] \ {n}
        /\ step'[c] \in {"comparing", "verified"} /\ (step'[c] = "verified" => todo'[c] = {})
    BY <1>1, <1>3 DEF DirectoryInv
  <2>2. DOMAIN packed'[c] = IF Differs(n, digests[c][n]) THEN DOMAIN packed[c] \cup {n}
                            ELSE DOMAIN packed[c]
    <3>1. packed'[c] = IF Differs(n, digests[c][n]) THEN Put(packed[c], n, disk[n]) ELSE packed[c]
      BY <1>1, <1>3 DEF DirectoryInv
    <3>. QED
      BY <3>1 DEF Put
  <2>3. ShapeOf(c)'
    BY <1>1, <1>2, <2>1, <2>2 DEF ShapeOf, ActorInv
  <2>4. ComparedIs(c)'
    BY <1>1, <1>2, <2>1, <2>2 DEF ActorInv, ComparedIs, Differs
  <2>. QED
    BY <1>1, <2>3, <2>4 DEF ActorInv
<1>. QED
  BY <1>4, <1>5, <1>6, OthersKeep DEF ReleaseInv

\* A file that is edited is touched for every actor, and no longer counts as unedited.
LEMMA EditKeeps ==
  ASSUME ReleaseInv, NEW n \in Files, Edit(n)
  PROVE  ReleaseInv'
<1>1. /\ DirectoryInv /\ n \in Names /\ n # Inventory /\ n \notin Builds
      /\ edits \in Seq(Files) /\ Len(edits) \in Nat /\ edits' = Append(edits, n)
      /\ listed' = listed /\ step' = step /\ todo' = todo /\ digests' = digests /\ packed' = packed
      /\ touched' = [o \in Actors |-> touched[o] \cup {n}]
  BY NamesAre DEF ReleaseInv, DirectoryInv, Edit
<1>2. PICK d \in Nat \cup {Missing, Link} : disk' = [disk EXCEPT ![n] = d]
  <2>1. PICK d \in {0, Len(edits) + 1, Missing, Link} : disk' = [disk EXCEPT ![n] = d]
    BY DEF Edit
  <2>2. d \in Nat \cup {Missing, Link}
    BY <1>1, <2>1
  <2>. QED
    BY <2>1, <2>2
<1>3. Edited' = Edited \cup {n} /\ edits' \in Seq(Files)
      /\ \A x : x \in Edited' <=> ~\A i \in 1..Len(edits') : edits'[i] # x
  BY <1>1 DEF Edited
<1>4. /\ disk' \in [Names -> Nat \cup {Missing, Link}]
      /\ \A x \in Names : x # n => disk'[x] = disk[x]
  BY <1>1, <1>2 DEF DirectoryInv
<1>5. ASSUME NEW o \in Actors PROVE KeptBy(o)
  <2>1. o \in Builds => disk'[o] = disk[o]
    BY <1>1, <1>4, NamesAre
  <2>2. touched[o] \subseteq Names
    BY DEF ReleaseInv, ActorInv, ShapeOf
  <2>. QED
    BY <1>1, <1>3, <1>4, <2>1, <2>2 DEF KeptBy
<1>6. \A x \in Files \ Edited' : x \in Files \ Edited /\ disk'[x] = disk[x]
  BY <1>3, <1>4, NamesAre
<1>7. InventoryIsWhole'
  <2>1. disk'[Inventory] = disk[Inventory]
    BY <1>1, <1>4, NamesAre
  <2>2. disk[Inventory] # Missing =>
          \A x \in Files \ Edited : x \in DOMAIN listed /\ listed[x] = disk[x]
    BY <1>1 DEF DirectoryInv, InventoryIsWhole, Edited
  <2>. QED
    BY <1>1, <1>3, <1>6, <2>1, <2>2 DEF InventoryIsWhole
<1>8. DirectoryInv'
  <2>1. \A x \in Builds \cup {Inventory} : disk'[x] # Link
    BY <1>1, <1>4, NamesAre DEF DirectoryInv
  <2>. QED
    BY <1>1, <1>3, <1>4, <1>6, <1>7, <2>1 DEF DirectoryInv
<1>. QED
  BY <1>5, <1>8, OthersKeep DEF ReleaseInv

\* Nothing is listed or made at the start.
LEMMA ReleaseStarts == ReleaseInit => ReleaseInv
<1>. SUFFICES ASSUME ReleaseInit PROVE ReleaseInv
  OBVIOUS
<1>1. Edited = {} /\ edits \in Seq(Files) /\ DOMAIN Empty = {}
  BY DEF ReleaseInit, Edited, Empty
<1>2. DirectoryInv
  BY <1>1, NamesAre DEF ReleaseInit, DirectoryInv, InventoryIsWhole
<1>3. ASSUME NEW a \in Actors PROVE ActorInv(a)
  <2>1. /\ step[a] = "idle" /\ todo[a] = {} /\ touched[a] = {} /\ DOMAIN digests[a] = {}
        /\ DOMAIN packed[a] = {} /\ (a \in Builds => disk[a] = Missing)
    BY <1>1, NamesAre DEF ReleaseInit
  <2>. QED
    BY <2>1 DEF ActorInv, ShapeOf, BuildInv, TemporaryIs, UneditedIs, HashedIs, ListedIs,
      PackedIs, ComparedIs
<1>. QED
  BY <1>2, <1>3 DEF ReleaseInv

\* Every step keeps the invariant, one action after the other.
LEMMA ReleaseSteps == ReleaseInv /\ [ReleaseNext]_releaseVars => ReleaseInv'
<1>. SUFFICES ASSUME ReleaseInv, [ReleaseNext]_releaseVars PROVE ReleaseInv'
  OBVIOUS
<1>1. ASSUME NEW b \in Builds, MakeTemporary(b) \/ WriteLines(b) \/ WriteFails(b)
      PROVE  ReleaseInv'
  <2>1. CASE MakeTemporary(b)
    BY <2>1, TemporaryKeeps DEF MakeTemporary, Goes
  <2>2. CASE WriteLines(b)
    BY <2>2, TemporaryKeeps DEF WriteLines, Goes
  <2>3. CASE WriteFails(b)
    BY <2>3, TemporaryKeeps DEF WriteFails, Goes
  <2>. QED
    BY <1>1, <2>1, <2>2, <2>3
<1>2. CASE UNCHANGED releaseVars
  <2>1. DirectoryInv'
    BY <1>2 DEF releaseVars, ReleaseInv, DirectoryInv, InventoryIsWhole, Edited
  <2>2. ASSUME NEW o \in Actors PROVE KeptBy(o)
    BY <1>2 DEF releaseVars, ReleaseInv, ActorInv, ShapeOf, KeptBy, Edited
  <2>. QED
    BY <2>1, <2>2, OthersKeep DEF ReleaseInv
<1>. QED
  BY <1>1, <1>2, BeginKeeps, HashKeeps, ReplaceKeeps, ListAgainKeeps, PackKeeps, CrashKeeps,
     ReadKeeps, CompareKeeps, EditKeeps DEF ReleaseNext

\* The invariant contains what the release promises.
LEMMA ReleaseVerifies == ReleaseInv => ReleaseIsVerified
<1>. SUFFICES ASSUME ReleaseInv PROVE ReleaseIsVerified
  OBVIOUS
<1>1. ReleaseTypes /\ InventoryIsWhole
  BY DEF ReleaseInv, DirectoryInv, ActorInv, ShapeOf, ReleaseTypes
<1>2. ASSUME NEW b \in Builds, step[b] = "built", Inventory \notin touched[b],
             NEW n \in (DOMAIN digests[b] \cup (DOMAIN packed[b] \ {Inventory})) \ touched[b]
      PROVE  n \in DOMAIN packed[b] \cap DOMAIN digests[b] /\ packed[b][n] = digests[b][n]
  <2>1. b \in Actors /\ ShapeOf(b) /\ HashedIs(b) /\ PackedIs(b)
    BY NamesAre DEF ReleaseInv, ActorInv, BuildInv
  <2>2. Ahead(b) = {} /\ todo[b] = {}
    BY <1>2, <2>1 DEF Ahead, ShapeOf
  <2>3. n \in Still(b)
    BY <1>2, <2>1 DEF Still, HashedIs, PackedIs
  <2>. QED
    BY <1>2, <2>1, <2>2, <2>3 DEF HashedIs, PackedIs
<1>3. ASSUME NEW c \in Checks, step[c] = "verified", NEW n \in DOMAIN digests[c] \ touched[c]
      PROVE  n \in DOMAIN packed[c] <=> disk[n] = Link \/ disk[n] # digests[c][n]
  <2>1. c \in Actors /\ ShapeOf(c) /\ ComparedIs(c)
    BY NamesAre DEF ReleaseInv, ActorInv
  <2>2. todo[c] = {} /\ digests[c][n] # Missing
    BY <1>3, <2>1 DEF ShapeOf
  <2>. QED
    BY <1>3, <2>1, <2>2 DEF ComparedIs
<1>. QED
  BY <1>1, <1>2, <1>3 DEF ReleaseIsVerified, ArchiveAgrees, VerdictIsTrue

\* The inventory in place is a whole one, whoever fails or dies while writing another; of
\* the names left alone, an archive that was built holds what its inventory lists, and a
\* verification reports exactly what differs (write_release_checksums, build_archive,
\* verify_release_checksums).
THEOREM ReleaseCorrect == ReleaseSpec => []ReleaseIsVerified
BY ReleaseStarts, ReleaseSteps, ReleaseVerifies, PTL DEF ReleaseSpec
=============================================================================
