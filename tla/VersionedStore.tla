--------------------------- MODULE VersionedStore --------------------------
(***************************************************************************)
(* What PersistenceBackend promises its callers: the operations of a       *)
(* transaction take effect together, at one instant, against the records    *)
(* that exist at that instant, or not at all; and a caller whose block     *)
(* ends normally has had its effect.                                       *)
(***************************************************************************)
EXTENDS StoredRecords

CONSTANTS Callers, Ops

VARIABLES
    store,    \* committed records
    batch,    \* operations each caller has run without conflict and not applied
    applied,  \* callers whose batch took effect
    answer    \* what each caller was told: "none", "returned" or "raised"

storeVars == <<store, batch, applied, answer>>

StoreInit ==
    /\ store = [k \in Keys |-> Absent]
    /\ batch = [t \in Callers |-> <<>>]
    /\ applied = {}
    /\ answer = [t \in Callers |-> "none"]

Pending(t) == answer[t] = "none" /\ t \notin applied

Submit(t, op) ==
    /\ Pending(t)
    /\ batch' = [batch EXCEPT ![t] = Append(@, op)]
    /\ UNCHANGED <<store, applied, answer>>

TakeEffect(t) ==
    /\ Pending(t)
    /\ Run(batch[t], store, t).ok
    /\ store' = Run(batch[t], store, t).records
    /\ applied' = applied \cup {t}
    /\ batch' = [batch EXCEPT ![t] = <<>>]
    /\ UNCHANGED answer

Return(t) ==
    /\ answer[t] = "none"
    /\ t \in applied
    /\ answer' = [answer EXCEPT ![t] = "returned"]
    /\ UNCHANGED <<store, batch, applied>>

\* An exception, or a crash, which ends several callers at once.  An exception
\* does not say that nothing was applied: the commit itself may be interrupted.
Raise(S) ==
    /\ \A t \in S : answer[t] = "none"
    /\ answer' = [t \in Callers |-> IF t \in S THEN "raised" ELSE answer[t]]
    /\ batch' = [t \in Callers |-> IF t \in S THEN <<>> ELSE batch[t]]
    /\ UNCHANGED <<store, applied>>

StoreNext ==
    \/ \E t \in Callers :
          \/ \E op \in Ops : Submit(t, op)
          \/ TakeEffect(t)
          \/ Return(t)
    \/ \E S \in SUBSET Callers : Raise(S)

StoreSpec == StoreInit /\ [][StoreNext]_storeVars
============================================================================
