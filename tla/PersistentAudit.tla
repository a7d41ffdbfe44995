-------------------------- MODULE PersistentAudit --------------------------
(***************************************************************************)
(* PersistentAuditTrail (persistent_governance.py): the audit chain of one  *)
(* tenant, written by the instances of several processes through any        *)
(* backend that keeps the contract of VersionedStore: what append reads may *)
(* be old by the time its two puts take effect, and expected_version is      *)
(* what protects the chain.  A signature is modelled by the sequence of      *)
(* events it covers.                                                        *)
(***************************************************************************)
EXTENDS Naturals, Sequences, SequencesExt

CONSTANTS
    TrailEvents, \* events, each passed to append once
    Foreign,     \* events of another tenant than the trail's
    Signers,     \* HMAC keys
    Signer,      \* the key of the instance that appends each event
    NoSigner,    \* signer_id of a chain that has no event
    MaxEvents    \* _MAX_AUDIT_EVENTS

ASSUME AuditAssumption ==
    /\ Foreign \subseteq TrailEvents
    /\ Signer \in [TrailEvents -> Signers]
    /\ NoSigner \notin Signers
    /\ MaxEvents \in Nat

VARIABLES
    record,   \* the event-<sequence> records, by sequence
    state,    \* the chain-state record
    stage,    \* where the append of each event is
    read      \* the state its transaction read

auditVars == <<record, state, stage, read>>

----------------------------------------------------------------------------
\* _decode_state of a missing record.
NoState == [version |-> 0, sequence |-> 0, signature |-> <<>>, signer_id |-> NoSigner]

TrailInit ==
    /\ record = <<>>
    /\ state = NoState
    /\ stage = [e \in TrailEvents |-> "idle"]
    /\ read = [e \in TrailEvents |-> NoState]

\* append, up to the read of the state inside its transaction.
ReadState(e) ==
    /\ stage[e] = "idle"
    /\ e \notin Foreign
    /\ read' = [read EXCEPT ![e] = state]
    /\ stage' = [stage EXCEPT ![e] = "signing"]
    /\ UNCHANGED <<record, state>>

\* An event of another tenant is refused before the transaction.
RefuseTenant(e) ==
    /\ stage[e] = "idle"
    /\ e \in Foreign
    /\ stage' = [stage EXCEPT ![e] = "raised"]
    /\ UNCHANGED <<record, state, read>>

\* The checks of append on the state it read.
Accepted(e) ==
    /\ read[e].signer_id \in {NoSigner, Signer[e]}
    /\ read[e].sequence + 1 <= MaxEvents

Signed(e) == [event |-> e, previous |-> read[e].signature, key |-> Signer[e]]

ChainSignature(s) == Append(s.previous, s.event)

\* expected_version of both puts: the event key is new, and the state has the
\* version that was read.
UnchangedSince(e) ==
    /\ state.version = read[e].version
    /\ read[e].sequence + 1 \notin DOMAIN record

NextState(e) == [version |-> state.version + 1,
                 sequence |-> read[e].sequence + 1,
                 signature |-> ChainSignature(Signed(e)),
                 signer_id |-> Signer[e]]

\* Mutant: the state is written in a transaction of its own, which may not come.
WriteEventOnly(e) ==
    LET n == read[e].sequence + 1
    IN  /\ record' = [k \in DOMAIN record \cup {n} |-> IF k = n THEN Signed(e) ELSE record[k]]
        /\ state' \in {state, NextState(e)}

\* The two puts, which take effect together.
Write(e) ==
    LET n == read[e].sequence + 1
    IN  /\ record' = [k \in DOMAIN record \cup {n} |-> IF k = n THEN Signed(e) ELSE record[k]]
        /\ state' = NextState(e)

\* The transaction commits; the caller may be cancelled before it learns it.
Commit(e, outcome) ==
    /\ stage[e] = "signing"
    /\ Accepted(e)
    /\ UnchangedSince(e)
    /\ Write(e)
    /\ stage' = [stage EXCEPT ![e] = outcome]
    /\ UNCHANGED read

\* Return of an append whose commit succeeded.
Acknowledge(e) ==
    /\ stage[e] = "committed"
    /\ stage' = [stage EXCEPT ![e] = "returned"]
    /\ UNCHANGED <<record, state, read>>

\* AuditIntegrityError for a foreign key, a full chain, a conflict or a failing
\* backend; a cancellation; a crash.
Abandon(e) ==
    /\ stage[e] = "signing"
    /\ stage' = [stage EXCEPT ![e] = "raised"]
    /\ UNCHANGED <<record, state, read>>

TrailNext ==
    \E e \in TrailEvents :
        \/ ReadState(e) \/ RefuseTenant(e)
        \/ \E outcome \in {"committed", "raised"} : Commit(e, outcome)
        \/ Acknowledge(e) \/ Abandon(e)

TrailSpec == TrailInit /\ [][TrailNext]_auditVars

----------------------------------------------------------------------------
\* verify_chain, with the key of an instance.
VerifyChain(key) ==
    \A n \in DOMAIN record :
        /\ record[n].key = key
        /\ record[n].previous = IF n = 1 THEN <<>> ELSE ChainSignature(record[n - 1])

\* verify_persisted
VerifyPersisted(key) ==
    /\ state.sequence = Len(record)
    /\ state.signature = IF record = <<>> THEN <<>> ELSE ChainSignature(Last(record))
    /\ VerifyChain(key)

TrailTypes ==
    /\ record \in Seq([event : TrailEvents, previous : Seq(TrailEvents), key : Signers])
    /\ Len(record) <= MaxEvents
    /\ state.version \in Nat /\ state.sequence \in Nat
    /\ state.signer_id \in Signers \cup {NoSigner}
    /\ stage \in [TrailEvents -> {"idle", "signing", "committed", "returned", "raised"}]

\* At every instant any process that holds the key of the chain can verify what is
\* persisted: no interleaving of instances, no conflict, cancellation or crash
\* leaves the events and the state of the chain apart or mixes two keys.
AlwaysVerifies == \A key \in Signers : state.signer_id \in {NoSigner, key} => VerifyPersisted(key)

\* The trail in the database verifies at every instant.
TrailVerifies == TrailTypes /\ AlwaysVerifies

----------------------------------------------------------------------------
TenantChain == INSTANCE AuditChain WITH
    Events <- TrailEvents,
    chain <- [n \in DOMAIN record |-> record[n].event],
    acknowledged <- {e \in TrailEvents : stage[e] = "returned"}

\* The records of a tenant are an audit chain: events are only added, each once,
\* at the end, and those acknowledged are in it.
ImplementsTenantChain == TenantChain!ChainSpec
============================================================================
