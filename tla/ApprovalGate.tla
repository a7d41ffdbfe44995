---------------------------- MODULE ApprovalGate ----------------------------
(***************************************************************************)
(* HumanApprovalGate (approvals.py) over SQLiteKernelStore (persistence.py): *)
(* approval records shared by the processes that open the same database.    *)
(* get_approval and save_approval are transactions of their own, so decide  *)
(* is two steps, between which anyone may act, fail or die.                 *)
(***************************************************************************)
EXTENDS FiniteSets

CONSTANTS
    Requests,     \* request_ids, drawn anew by each call of request
    Actions,      \* PROTECTED_ACTIONS
    Unprotected,  \* other names a caller may pass
    People,       \* identities of requesters and deciders
    NoOne,        \* decided_by of a pending record; a blank decider
    Decisions,    \* calls of decide
    Uses,         \* calls of require
    Serial        \* one call of decide at a time: a single synchronous process

ASSUME ApprovalAssumption ==
    /\ NoOne \notin People
    /\ Actions \cap Unprotected = {}
    /\ Serial \in BOOLEAN

VARIABLES
    row,      \* the approvals table, by request_id
    pc,       \* where each call of decide is
    target,   \* the request_id each call of decide was given
    updated,  \* the record it is about to save
    proof     \* history: what each successful require was asked and returned

approvalVars == <<row, pc, target, updated, proof>>

----------------------------------------------------------------------------
Record == [action : Actions, requested_by : People,
           status : {"pending", "approved", "rejected"},
           decided_by : People \cup {NoOne}]

NoRecord == [status |-> "absent"]

NoProof == [record |-> NoRecord]

Stored == {q \in Requests : row[q] # NoRecord}

Init ==
    /\ row = [q \in Requests |-> NoRecord]
    /\ pc = [d \in Decisions |-> "idle"]
    /\ target \in [Decisions -> Requests]
    /\ updated = [d \in Decisions |-> NoRecord]
    /\ proof = [u \in Uses |-> NoProof]

\* request: an action outside PROTECTED_ACTIONS is refused before anything is
\* stored.
Request(q, action, requester) ==
    /\ q \notin Stored
    /\ action \in Actions
    /\ row' = [row EXCEPT ![q] = [action |-> action, requested_by |-> requester,
                                  status |-> "pending", decided_by |-> NoOne]]
    /\ UNCHANGED <<pc, target, updated, proof>>

\* Mutant: a decided request may be decided.
MayDecideAgain(q, decider) ==
    q \in Stored /\ decider \notin {NoOne, row[q].requested_by}

\* The checks of decide on the record it reads.
MayDecide(q, decider) ==
    /\ q \in Stored
    /\ row[q].status = "pending"
    /\ decider \notin {NoOne, row[q].requested_by}

\* replace(record, status=..., decided_by=...)
Decided(q, approved, decider) ==
    [action |-> row[q].action,
     requested_by |-> row[q].requested_by,
     status |-> IF approved THEN "approved" ELSE "rejected",
     decided_by |-> decider]

\* decide, up to the call of save_approval.
Decide(d, approved, decider) ==
    /\ pc[d] = "idle"
    /\ Serial => \A other \in Decisions : pc[other] # "saving"
    /\ MayDecide(target[d], decider)
    /\ pc' = [pc EXCEPT ![d] = "saving"]
    /\ updated' = [updated EXCEPT ![d] = Decided(target[d], approved, decider)]
    /\ UNCHANGED <<row, target, proof>>

\* KeyError, ValueError, PermissionError.
DecisionRefused(d, decider) ==
    /\ pc[d] = "idle"
    /\ ~MayDecide(target[d], decider)
    /\ pc' = [pc EXCEPT ![d] = "raised"]
    /\ UNCHANGED <<row, target, updated, proof>>

\* save_approval: an unconditional upsert, then decide returns.
SaveDecision(d) ==
    /\ pc[d] = "saving"
    /\ row' = [row EXCEPT ![target[d]] = updated[d]]
    /\ pc' = [pc EXCEPT ![d] = "returned"]
    /\ UNCHANGED <<target, updated, proof>>

\* The store refuses, or the process dies, before the decision is saved.
DecisionLost(d) ==
    /\ pc[d] = "saving"
    /\ pc' = [pc EXCEPT ![d] = "raised"]
    /\ UNCHANGED <<row, target, updated, proof>>

\* Mutant: a pending request is as good as an approved one.
CoversUnlessRejected(action, q) ==
    q \in Stored /\ row[q].action = action /\ row[q].status # "rejected"

\* The checks of require.
Covers(action, q) ==
    /\ q \in Stored
    /\ row[q].action = action
    /\ row[q].status = "approved"

\* require returns the record, and does not consume it.
Require(u, action, q) ==
    /\ proof[u] = NoProof
    /\ Covers(action, q)
    /\ proof' = [proof EXCEPT ![u] = [action |-> action, request |-> q, record |-> row[q]]]
    /\ UNCHANGED <<row, pc, target, updated>>

Next ==
    \/ \E q \in Requests, action \in Actions \cup Unprotected, requester \in People :
          Request(q, action, requester)
    \/ \E d \in Decisions, decider \in People \cup {NoOne} :
          \/ \E approved \in BOOLEAN : Decide(d, approved, decider)
          \/ DecisionRefused(d, decider)
    \/ \E d \in Decisions : SaveDecision(d) \/ DecisionLost(d)
    \/ \E u \in Uses, action \in Actions \cup Unprotected, q \in Requests :
          Require(u, action, q)

Spec == Init /\ [][Next]_approvalVars

----------------------------------------------------------------------------
\* The shape of the table and of the frames of decide.
TypeOK ==
    /\ row \in [Requests -> Record \cup {NoRecord}]
    /\ pc \in [Decisions -> {"idle", "saving", "returned", "raised"}]
    /\ target \in [Decisions -> Requests]
    /\ updated \in [Decisions -> Record \cup {NoRecord}]
    /\ proof \in [Uses -> {NoProof} \cup [action : Actions \cup Unprotected,
                                         request : Requests, record : Record]]

\* Whoever passes require was authorised by a decision that decide returned (not
\* by one that was lost on its way to the store), for the very action asked,
\* taken by a person other than the one who requested it, whatever decisions
\* raced ("Les actions sensibles exigent une approbation humaine indépendante").
UsesAreApproved ==
    \A u \in Uses : proof[u] # NoProof =>
        /\ proof[u].record.action = proof[u].action
        /\ proof[u].record.decided_by \in People \ {proof[u].record.requested_by}
        /\ \E d \in Decisions :
              /\ pc[d] = "returned"
              /\ target[d] = proof[u].request
              /\ updated[d] = proof[u].record
              /\ updated[d].status = "approved"

\* A step keeps what was decided.
KeepsDecisions == \A q \in Stored : row[q].status # "pending" => row'[q] = row[q]
============================================================================
