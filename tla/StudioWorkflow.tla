--------------------------- MODULE StudioWorkflow ---------------------------
(***************************************************************************)
(* The local workflows of ELMAN Studio (studio.py, studio_runtime.py): an     *)
(* approval run_box and a run button on a page, and the thread that every click   *)
(* starts, which runs LocalWorkflowRunner.run over the workflow database and  *)
(* then writes to the same controls. Handlers of the page are the actions;    *)
(* the threads interleave with them and with each other.                      *)
(***************************************************************************)
EXTENDS Naturals, FiniteSets

CONSTANTS
    Threads,      \* the runs, one thread each
    Ids,          \* workflow_ids
    NoRun,        \* no run; an id with no row
    Limit,        \* bound on pass_on and max_iterations (50 in the code)
    MaxApprovals  \* bound: how often the box is ticked

ASSUME StudioWorkflowAssumption ==
    /\ NoRun \notin Threads
    /\ Limit \in Nat \ {0}
    /\ MaxApprovals \in Nat

VARIABLES
    run_box,          \* workflow_approval_box.value
    run_disabled,     \* workflow_run_button.disabled
    thread,           \* where each thread is
    request,          \* the LocalWorkflowRequest of each thread
    iteration,        \* the cycles each thread has run
    stop_reason,      \* of the report of each thread
    row,              \* workflow_reports: the run whose report each id holds
    log,              \* the kinds of the events each thread has published
    approvals,        \* history: how often the box was ticked
    overwritten       \* history: the runs whose report another run replaced

pageVars == <<run_box, run_disabled>>
threadVars == <<thread, request, iteration, stop_reason, log>>
studioWorkflowVars == <<pageVars, threadVars, row, approvals, overwritten>>

----------------------------------------------------------------------------
Request == [id : Ids, pass_on : 1..Limit, max_iterations : 1..Limit]

Reasons == {"criteria_validated", "max_iterations"}

Started == {t \in Threads : thread[t] # "idle"}

RunsInit ==
    /\ run_box = FALSE
    /\ run_disabled = TRUE
    /\ thread = [t \in Threads |-> "idle"]
    /\ request \in [Threads -> {[id |-> i, pass_on |-> 1, max_iterations |-> 1] : i \in Ids}]
    /\ iteration = [t \in Threads |-> 0]
    /\ stop_reason = [t \in Threads |-> "none"]
    /\ row = [i \in Ids |-> NoRun]
    /\ log = [t \in Threads |-> {}]
    /\ approvals = 0
    /\ overwritten = {}

Goto(t, label) == thread' = [thread EXCEPT ![t] = label]

Publish(t, kind) == log' = [log EXCEPT ![t] = @ \cup {kind}]

\* workflow_approval_changed, the box ticked or the tick removed
Toggle ==
    /\ run_box \/ approvals < MaxApprovals
    /\ run_box' = ~run_box
    /\ run_disabled' = run_box
    /\ approvals' = IF run_box THEN approvals ELSE approvals + 1
    /\ UNCHANGED <<threadVars, row, overwritten>>

\* Mutant: the tick stays for the next click.
StartKeepingTick(t, r) ==
    /\ ~run_disabled /\ run_box
    /\ thread[t] = "idle"
    /\ Goto(t, "submitted")
    /\ request' = [request EXCEPT ![t] = r]
    /\ UNCHANGED <<pageVars, iteration, stop_reason, log, row, approvals, overwritten>>

\* start_local_workflow, with an approval and valid fields.
Start(t, r) ==
    /\ ~run_disabled /\ run_box
    /\ thread[t] = "idle"
    /\ run_box' = FALSE
    /\ run_disabled' = TRUE
    /\ Goto(t, "submitted")
    /\ request' = [request EXCEPT ![t] = r]
    /\ UNCHANGED <<iteration, stop_reason, log, row, approvals, overwritten>>

\* start_local_workflow, without approval or with fields LocalWorkflowRequest
\* refuses: a message.
StartRefused ==
    /\ ~run_disabled
    /\ UNCHANGED studioWorkflowVars

\* run: the first event, then the store opens its tables.
Open(t) ==
    /\ thread[t] = "submitted"
    /\ Publish(t, "started")
    /\ Goto(t, "cycling")
    /\ UNCHANGED <<pageVars, request, iteration, stop_reason, row, approvals, overwritten>>

\* SQLiteKernelStore cannot open the database; no event says so.
OpenFails(t) ==
    /\ thread[t] = "submitted"
    /\ Publish(t, "started")
    /\ Goto(t, "raised")
    /\ UNCHANGED <<pageVars, request, iteration, stop_reason, row, approvals, overwritten>>

\* Mutant: the limit is compared before the criteria.
VerdictLimitFirst(t) ==
    CASE iteration[t] + 1 >= request[t].max_iterations -> "max_iterations"
      [] iteration[t] + 1 < request[t].max_iterations
           /\ iteration[t] + 1 >= request[t].pass_on -> "criteria_validated"
      [] OTHER -> "none"

\* deterministic_cycle and what the supervisor makes of its result: the limits
\* on failures and stagnation are set out of reach.
Verdict(t) ==
    CASE iteration[t] + 1 >= request[t].pass_on -> "criteria_validated"
      [] iteration[t] + 1 < request[t].pass_on
           /\ iteration[t] + 1 >= request[t].max_iterations -> "max_iterations"
      [] OTHER -> "none"

Cycle(t) ==
    /\ thread[t] = "cycling"
    /\ Publish(t, "iteration")
    /\ iteration' = [iteration EXCEPT ![t] = @ + 1]
    /\ stop_reason' = [stop_reason EXCEPT ![t] = Verdict(t)]
    /\ Goto(t, IF Verdict(t) = "none" THEN "cycling" ELSE "saving")
    /\ UNCHANGED <<pageVars, request, row, approvals, overwritten>>

\* save_workflow: an unconditional upsert
Save(t) ==
    /\ thread[t] = "saving"
    /\ row' = [row EXCEPT ![request[t].id] = t]
    /\ overwritten' = overwritten \cup ({row[request[t].id]} \ {NoRun})
    /\ Goto(t, "saved")
    /\ UNCHANGED <<pageVars, request, iteration, stop_reason, log, approvals>>

\* sqlite3.Error: the report is lost
SaveFails(t) ==
    /\ thread[t] = "saving"
    /\ Publish(t, "failed")
    /\ Goto(t, "raised")
    /\ UNCHANGED <<pageVars, request, iteration, stop_reason, row, approvals, overwritten>>

\* The last event; execute_local_workflow shows status and history.
Complete(t) ==
    /\ thread[t] = "saved"
    /\ Publish(t, "completed")
    /\ Goto(t, "finishing")
    /\ UNCHANGED <<pageVars, request, iteration, stop_reason, row, approvals, overwritten>>

\* Mutant: the page is not cleared after an exception.
ClearBoxUnlessRaised(t) ==
    /\ thread[t] = "finishing"
    /\ run_box' = FALSE
    /\ Goto(t, "clearing")
    /\ UNCHANGED <<run_disabled, request, iteration, stop_reason, log, row,
                   approvals, overwritten>>

\* finally: the box first ...
ClearBox(t) ==
    /\ thread[t] \in {"finishing", "raised"}
    /\ run_box' = FALSE
    /\ Goto(t, IF thread[t] = "raised" THEN "clearing_raised" ELSE "clearing")
    /\ UNCHANGED <<run_disabled, request, iteration, stop_reason, log, row,
                   approvals, overwritten>>

\* ... then the button.
DisableButton(t) ==
    /\ thread[t] \in {"clearing", "clearing_raised"}
    /\ run_disabled' = TRUE
    /\ Goto(t, IF thread[t] = "clearing_raised" THEN "failed" ELSE "done")
    /\ UNCHANGED <<run_box, request, iteration, stop_reason, log, row, approvals, overwritten>>

Run(t) ==
    \/ Open(t) \/ OpenFails(t) \/ Cycle(t)
    \/ Save(t) \/ SaveFails(t) \/ Complete(t)
    \/ ClearBox(t) \/ DisableButton(t)

RunsNext ==
    \/ Toggle \/ StartRefused
    \/ \E t \in Threads, r \in Request : Start(t, r)
    \/ \E t \in Threads : Run(t)

RunsSpec == RunsInit /\ [][RunsNext]_studioWorkflowVars

\* A thread that was started is scheduled.
FairRunsSpec == RunsSpec /\ \A t \in Threads : WF_studioWorkflowVars(Run(t))

----------------------------------------------------------------------------
\* The shape of the page, the threads and the table.
RunsTypes ==
    /\ run_box \in BOOLEAN /\ run_disabled \in BOOLEAN
    /\ thread \in [Threads -> {"idle", "submitted", "cycling", "saving", "saved", "finishing",
                           "clearing", "raised", "clearing_raised", "done", "failed"}]
    /\ request \in [Threads -> Request]
    /\ iteration \in [Threads -> 0..Limit]
    /\ stop_reason \in [Threads -> Reasons \cup {"none"}]
    /\ row \in [Ids -> Threads \cup {NoRun}]
    /\ log \in [Threads -> SUBSET {"started", "iteration", "completed", "failed"}]
    /\ approvals \in 0..MaxApprovals
    /\ overwritten \subseteq Threads

\* One approval starts one run, although threads that end clear the box and the
\* button of approvals given since ("approbation d'exécution à usage unique").
StartsAreApproved == Cardinality(Started) + (IF run_box THEN 1 ELSE 0) <= approvals

\* The report of a run is the one its id holds, until another run of that id replaced it.
Stored(t) == row[request[t].id] = t \/ t \in overwritten

\* Every report a run saved is stored, and stops where its request says: at the success
\* if the limit allows it, at the limit otherwise.
ReportsAreStored ==
    \A t \in Threads : thread[t] \in {"saved", "finishing", "clearing", "done"} =>
        /\ Stored(t)
        /\ LET reached == request[t].pass_on <= request[t].max_iterations
           IN  /\ stop_reason[t] = IF reached THEN "criteria_validated" ELSE "max_iterations"
               /\ iteration[t] = IF reached THEN request[t].pass_on
                                 ELSE request[t].max_iterations

\* A run is announced as completed only once its report is stored, as failed only
\* when it is not, and never as both.
AnnouncedAsItEnded ==
    \A t \in Threads :
        /\ "completed" \in log[t] => Stored(t)
        /\ "failed" \in log[t] => ~Stored(t)
        /\ thread[t] = "done" => {"started", "iteration", "completed"} = log[t]

\* An approval starts one run, whatever the threads clear.
ApprovalIsSingleUse == RunsTypes /\ StartsAreApproved

\* The report stored is that of its run, unless another run of that id has replaced it,
\* and stops where its request says, and the run is announced as it ended.
ReportIsTheRuns == ReportsAreStored /\ AnnouncedAsItEnded

\* Every run that is started ends, with its report saved or with a failure.
EveryRunEnds ==
    \A t \in Threads : thread[t] = "submitted" ~> thread[t] \in {"done", "failed"}
============================================================================
