------------------------- MODULE GovernedExecution -------------------------
(***************************************************************************)
(* One request through the production boundary (production_runtime.py,     *)
(* governance.py, audit.py): authorization, quota reservation, STARTED      *)
(* event, provider, terminal event, settlement.  Composes PersistentQuota;  *)
(* every other step of a call is here.  The calls belong to the processes   *)
(* that share the database; each may be cancelled, crash, or find the       *)
(* backend failing.  A process that dies is its calls crashing in any order.*)
(***************************************************************************)
EXTENDS PersistentQuota, Sequences

CONSTANTS
    Processes,     \* processes that run calls
    Process,       \* the process of each call
    Authorized,    \* calls whose principal passes the authorization policy
    BackendFails,  \* whether transactions may fail
    LeakyCancel    \* whether a cancelled transaction may keep the backend's lock

ASSUME ExecutionAssumption ==
    /\ Process \in [Requests -> Processes]
    /\ Authorized \subseteq Requests
    /\ BackendFails \in BOOLEAN
    /\ LeakyCancel \in BOOLEAN

VARIABLES
    stage,    \* where each call of generate is
    events,   \* the types of its audit events, in the order of the chain
    used,     \* the total tokens the provider reported for it
    answer,   \* the HTTP status, or "cancelled"; "none" before
    stuck     \* processes whose backend lock was never released

govVars == <<stage, events, used, answer, stuck>>
allVars == <<quotaVars, govVars>>

----------------------------------------------------------------------------
\* The stages that append an audit event: its type, where the call goes next
\* and what it then answers.  A provider's error has no handler in the route.
Report == [
    denying    |-> [type |-> "denied", next |-> "done", answer |-> "403"],
    refusing   |-> [type |-> "denied", next |-> "done", answer |-> "429"],
    starting   |-> [type |-> "started", next |-> "executing", answer |-> "none"],
    succeeding |-> [type |-> "succeeded", next |-> "settling", answer |-> "200"],
    failing    |-> [type |-> "failed", next |-> "settling", answer |-> "500"],
    cancelling |-> [type |-> "cancelled", next |-> "settling", answer |-> "cancelled"]]

Terminal == {"succeeded", "failed", "cancelled"}

Stages == {"idle", "reserving", "executing", "settling", "settling_alone", "done",
           "crashed"} \cup DOMAIN Report

Answers == {"none", "200", "401", "403", "422", "429", "500", "503", "cancelled"}

Move(r, s, a) ==
    /\ stage' = [stage EXCEPT ![r] = s]
    /\ answer' = [answer EXCEPT ![r] = a]

\* A transaction of r can run: the lock of its backend comes back.
Served(r) == Process[r] \notin stuck

\* Cancelled inside a transaction: the lock may be lost.
MayLeak(r) ==
    stuck' \in {stuck} \cup (IF LeakyCancel THEN {stuck \cup {Process[r]}} ELSE {})

\* generate's finally clause runs from STARTED on.
AfterReport(s) == IF Report[s].next = "done" THEN "done" ELSE "settling"

ExecutionInit ==
    /\ Init
    /\ stage = [r \in Requests |-> "idle"]
    /\ events = [r \in Requests |-> <<>>]
    /\ used = [r \in Requests |-> 0]
    /\ answer = [r \in Requests |-> "none"]
    /\ stuck = {}

----------------------------------------------------------------------------
\* The route: no bearer token, a payload that is no request, or a token that the
\* authenticator refuses; the boundary is not reached.
TurnAway(r) ==
    /\ stage[r] = "idle"
    /\ \E code \in {"401", "422"} : Move(r, "done", code)
    /\ UNCHANGED <<quotaVars, events, used, stuck>>

\* policy.authorize raises: the audited boundary records the denial.
Deny(r) ==
    /\ stage[r] = "idle"
    /\ r \notin Authorized
    /\ Move(r, "denying", "none")
    /\ UNCHANGED <<quotaVars, events, used, stuck>>

Authorize(r) ==
    /\ stage[r] = "idle"
    /\ r \in Authorized
    /\ \E estimated_tokens \in 1..MaxEstimate : CallReserve(r, estimated_tokens)
    /\ Move(r, "reserving", "none")
    /\ UNCHANGED <<events, used, stuck>>

Grant(r) ==
    /\ stage[r] = "reserving"
    /\ Served(r)
    /\ Reserve(r)
    /\ Move(r, "starting", "none")
    /\ UNCHANGED <<events, used, stuck>>

RefuseCall(r) ==
    /\ stage[r] = "reserving"
    /\ Served(r)
    /\ Refuse(r)
    /\ Move(r, "refusing", "none")
    /\ UNCHANGED <<events, used, stuck>>

\* RuntimeError of reserve: nothing to settle, no handler in the route.
ReserveCallFails(r) ==
    /\ BackendFails
    /\ stage[r] = "reserving"
    /\ ReserveFails(r)
    /\ Move(r, "done", "500")
    /\ UNCHANGED <<events, used, stuck>>

\* Cancelled inside reserve: rolled back, or committed without the caller knowing.
CancelReserve(r) ==
    /\ stage[r] = "reserving"
    /\ ReserveFails(r) \/ (Served(r) /\ Reserve(r))
    /\ Move(r, "done", "cancelled")
    /\ MayLeak(r)
    /\ UNCHANGED <<events, used>>

----------------------------------------------------------------------------
AppendEvent(r) ==
    /\ stage[r] \in DOMAIN Report
    /\ Served(r)
    /\ events' = [events EXCEPT ![r] = Append(@, Report[stage[r]].type)]
    /\ Move(r, Report[stage[r]].next, Report[stage[r]].answer)
    /\ UNCHANGED <<quotaVars, used, stuck>>

\* Mutant: an audit failure is logged and ignored.
AppendFailsOpen(r) ==
    /\ BackendFails
    /\ stage[r] \in DOMAIN Report
    /\ Move(r, Report[stage[r]].next, Report[stage[r]].answer)
    /\ UNCHANGED <<quotaVars, events, used, stuck>>

\* AuditIntegrityError, which replaces whatever was being raised.
AppendFails(r) ==
    /\ BackendFails
    /\ stage[r] \in DOMAIN Report
    /\ Move(r, AfterReport(stage[r]), "503")
    /\ UNCHANGED <<quotaVars, events, used, stuck>>

\* Cancelled inside append; only the CANCELLED event is shielded from it.
CancelAppend(r) ==
    /\ stage[r] \in DOMAIN Report \ {"cancelling"}
    /\ \/ UNCHANGED events
       \/ Served(r) /\ events' = [events EXCEPT ![r] = Append(@, Report[stage[r]].type)]
    /\ Move(r, AfterReport(stage[r]), "cancelled")
    /\ MayLeak(r)
    /\ UNCHANGED <<quotaVars, used>>

----------------------------------------------------------------------------
\* ResilientAIExecutor.generate returns a response.
ProviderSucceeds(r) ==
    /\ stage[r] = "executing"
    /\ \E n \in 0..(estimate[r] + Excess) : used' = [used EXCEPT ![r] = n]
    /\ Move(r, "succeeding", "none")
    /\ UNCHANGED <<quotaVars, events, stuck>>

\* AIExecutionError or ProviderError.
ProviderFails(r) ==
    /\ stage[r] = "executing"
    /\ Move(r, "failing", "none")
    /\ UNCHANGED <<quotaVars, events, used, stuck>>

\* Any other exception of an adapter has no except clause: no terminal event.
ProviderBreaks(r) ==
    /\ stage[r] = "executing"
    /\ Move(r, "settling", "500")
    /\ UNCHANGED <<quotaVars, events, used, stuck>>

CancelExecution(r) ==
    /\ stage[r] = "executing"
    /\ Move(r, "cancelling", "none")
    /\ UNCHANGED <<quotaVars, events, used, stuck>>

----------------------------------------------------------------------------
Settling(r) == stage[r] \in {"settling", "settling_alone"}

\* The caller is gone when it was cancelled while the shield held settle.
Finish(r, a) == Move(r, "done", IF stage[r] = "settling_alone" THEN "cancelled" ELSE a)

\* Mutant: settle runs before the result is bound.
ActualTokensUnbound(r) == 0

\* actual_tokens is bound only when audited.generate returned.
ActualTokens(r) == IF answer[r] = "200" THEN used[r] ELSE 0

\* Mutant: settle does not look for the reservation record.
SettleCallUnchecked(r) ==
    /\ Settling(r)
    /\ Served(r)
    /\ SettleReplayed(r, ActualTokens(r))
    /\ Finish(r, answer[r])
    /\ UNCHANGED <<events, used, stuck>>

SettleCall(r) ==
    /\ Settling(r)
    /\ Served(r)
    /\ Settle(r, ActualTokens(r))
    /\ Finish(r, answer[r])
    /\ UNCHANGED <<events, used, stuck>>

\* The reservation was reaped: the ValueError replaces the result.
SettleCallUnknown(r) ==
    /\ Settling(r)
    /\ Served(r)
    /\ SettleUnknown(r)
    /\ Finish(r, "422")
    /\ UNCHANGED <<events, used, stuck>>

\* RuntimeError: the record stays until it expires.
SettleCallFails(r) ==
    /\ BackendFails
    /\ Settling(r)
    /\ Vanish(r)
    /\ Finish(r, "500")
    /\ UNCHANGED <<events, used, stuck>>

\* Mutant: settle is not shielded.
CancelSettlingUnshielded(r) ==
    /\ stage[r] = "settling"
    /\ Move(r, "done", "cancelled")
    /\ UNCHANGED <<quotaVars, events, used, stuck>>

\* asyncio.shield: settle goes on without its caller.
CancelSettling(r) ==
    /\ stage[r] = "settling"
    /\ Move(r, "settling_alone", answer[r])
    /\ UNCHANGED <<quotaVars, events, used, stuck>>

\* The process dies: reserve is rolled back, or its holder is gone.
CrashCall(r) ==
    /\ stage[r] \notin {"idle", "done", "crashed"}
    /\ Move(r, "crashed", answer[r])
    /\ CASE pc[r] = "reserving" -> ReserveFails(r)
         [] pc[r] = "holding" -> Vanish(r)
         [] OTHER -> UNCHANGED quotaVars
    /\ UNCHANGED <<events, used, stuck>>

----------------------------------------------------------------------------
\* What the code and the provider do for a call, left to themselves.
Handle(r) ==
    \/ Grant(r) \/ RefuseCall(r) \/ ReserveCallFails(r)
    \/ AppendEvent(r) \/ AppendFails(r)
    \/ ProviderSucceeds(r) \/ ProviderFails(r) \/ ProviderBreaks(r)
    \/ SettleCall(r) \/ SettleCallUnknown(r) \/ SettleCallFails(r)

Cancel(r) ==
    CancelReserve(r) \/ CancelAppend(r) \/ CancelExecution(r) \/ CancelSettling(r)

\* The clock of the machine, and snapshot, which any operator may call.
Environment ==
    /\ Tick \/ \E i \in Identities, now \in 0..clock : Snapshot(i, now)
    /\ UNCHANGED govVars

ExecutionNext ==
    \/ \E r \in Requests :
          TurnAway(r) \/ Deny(r) \/ Authorize(r) \/ Handle(r) \/ Cancel(r) \/ CrashCall(r)
    \/ Environment

ExecutionSpec == ExecutionInit /\ [][ExecutionNext]_allVars

\* The event loop runs, and timeouts bound the provider.
FairExecutionSpec ==
    ExecutionSpec /\ \A r \in Requests : WF_allVars(Handle(r))

----------------------------------------------------------------------------
Running(r) == stage[r] \in {"executing", "succeeding", "failing", "cancelling"}

Has(r, type) == \E k \in DOMAIN events[r] : events[r][k] = type

ExecutionTypeOK ==
    /\ stage \in [Requests -> Stages]
    /\ answer \in [Requests -> Answers]
    /\ used \in [Requests -> Nat]
    /\ stuck \subseteq Processes
    /\ \A r \in Requests :
          events[r] \in {<<>>, <<"denied">>, <<"started">>}
                            \cup {<<"started", t>> : t \in Terminal}

\* The provider is called only for an authorized call, with a reservation granted
\* and its STARTED event in the chain, whatever failed or was cancelled before
\* ("Un échec d'écriture d'audit bloque l'appel au fournisseur"); a call that was
\* denied or refused has no trace of an execution, and one that was not authenticated
\* no trace at all.
ProviderBehindGates ==
    \A r \in Requests :
        /\ Running(r) => r \in Authorized /\ pc[r] = "holding" /\ Has(r, "started")
        /\ answer[r] \in {"403", "429"} => events[r] = <<"denied">> /\ used[r] = 0
        /\ answer[r] = "401" => events[r] = <<>> /\ pc[r] = "idle"

\* The gates hold in every state of the boundary's calls.
GatesHold == ExecutionTypeOK /\ ProviderBehindGates

\* An HTTP 200 means that the chain holds started and succeeded, and that the
\* tokens of the response were charged to the identity, once.
SuccessIsAccounted ==
    \A r \in Requests :
        stage[r] = "done" /\ answer[r] = "200" =>
            /\ events[r] = <<"started", "succeeded">>
            /\ pc[r] = "settled"
            /\ charged[r] = used[r]

\* While their reservations have not expired, the calls of an identity that are
\* with the provider are at most max_concurrent, over all processes.
RunningWithinLease ==
    \A i \in Identities :
        Cardinality({r \in Requests : Identity[r] = i /\ Running(r)
                                         /\ clock < readAt[r] + TTL}) <= MaxConcurrent

\* "Une annulation, un échec ou une réussite libère toujours la place": the record
\* of a call that was granted disappears, unless its process dies.
SlotComesBack ==
    \A r \in Requests :
        (pc[r] = "holding" /\ Running(r)) ~> (reservation[r] = Absent \/ stage[r] = "crashed")

\* Seen by the quota manager, the calls are legal callers: what holds of
\* PersistentQuota holds of the composition.
ImplementsQuota == Spec
============================================================================
