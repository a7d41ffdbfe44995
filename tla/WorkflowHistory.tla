--------------------------- MODULE WorkflowHistory --------------------------
(***************************************************************************)
(* The history section of ELMAN Studio (studio_history.py, and                *)
(* refresh_history and select_history_run of studio.py) beside the workflows  *)
(* of StudioWorkflow.  A run that completed refreshes the history from its     *)
(* thread, and so does a button of the page: two refreshes may interleave      *)
(* with each other and with the threads that write the reports they read.     *)
(***************************************************************************)
EXTENDS StudioWorkflow

CONSTANT Page    \* the thread of the page's own handlers

VARIABLES
    database,    \* the file: "absent", "no_table" while it is made, "ready"
    refresh,     \* how far the refresh of each thread, and of the page, is
    found,       \* the snapshots it has read and not shown yet
    view,        \* the cards of history_view
    details,     \* the report in history_details
    unread       \* history: a read failed since the view was last cleared

historyVars == <<database, refresh, found, view, details, unread>>
allHistoryVars == <<studioWorkflowVars, historyVars>>

ASSUME HistoryAssumption == Page \notin Threads \cup {NoRun}

Readers == Threads \cup {Page}

\* WorkflowSnapshot: the id and the run whose report is summarised.
Cards == [id : Ids, run : Threads]

\* list_runs: one snapshot of the table in one query, whose rows are few enough.
Snapshots ==
    IF database = "ready" THEN {card \in Cards : row[card.id] = card.run} ELSE {}

HistoryInit ==
    /\ RunsInit
    /\ database = "absent"
    /\ refresh = [u \in Readers |-> "none"]
    /\ found = [u \in Readers |-> {}]
    /\ view = {}
    /\ details = NoRun
    /\ unread = FALSE

----------------------------------------------------------------------------
PageStep ==
    /\ Toggle \/ StartRefused \/ \E t \in Threads, r \in Request : Start(t, r)
    /\ UNCHANGED historyVars

\* SQLiteKernelStore: the file exists before its tables do.
CreateFile(t) ==
    /\ thread[t] = "submitted"
    /\ database = "absent"
    /\ database' = "no_table"
    /\ UNCHANGED <<studioWorkflowVars, refresh, found, view, details, unread>>

CreateTables(t) ==
    /\ database # "absent"
    /\ Open(t)
    /\ database' = "ready"
    /\ UNCHANGED <<refresh, found, view, details, unread>>

\* The other steps of a run; its refresh is between the last event and the finally.
Proceed(t) ==
    /\ \/ OpenFails(t) \/ Cycle(t) \/ Save(t) \/ SaveFails(t) \/ Complete(t) \/ DisableButton(t)
       \/ ClearBox(t) /\ (thread[t] = "raised" \/ refresh[t] = "shown")
    /\ UNCHANGED historyVars

\* refresh_history clears the cards and the details ...
ClearView(u) ==
    /\ refresh[u] = "none"
    /\ u \in Threads => thread[u] = "finishing"
    /\ view' = {}
    /\ details' = NoRun
    /\ unread' = FALSE
    /\ refresh' = [refresh EXCEPT ![u] = "reading"]
    /\ UNCHANGED <<studioWorkflowVars, database, found>>

\* ... reads the table, if there is one ...
Read(u) ==
    /\ refresh[u] = "reading"
    /\ found' = [found EXCEPT ![u] = Snapshots]
    /\ refresh' = [refresh EXCEPT ![u] = "showing"]
    /\ UNCHANGED <<studioWorkflowVars, database, view, details, unread>>

Finished(u) == IF u = Page THEN "none" ELSE "shown"

\* HistoryReadError (a lock that is held too long, a row that is no report): a
\* message, and the view stays as it is.
ReadFails(u) ==
    /\ refresh[u] = "reading"
    /\ unread' = TRUE
    /\ refresh' = [refresh EXCEPT ![u] = Finished(u)]
    /\ UNCHANGED <<studioWorkflowVars, database, found, view, details>>

\* Mutant: the new cards take the place of those that are there.
ShowInstead(u) ==
    /\ refresh[u] = "showing"
    /\ view' = found[u]
    /\ found' = [found EXCEPT ![u] = {}]
    /\ refresh' = [refresh EXCEPT ![u] = Finished(u)]
    /\ UNCHANGED <<studioWorkflowVars, database, details, unread>>

\* ... and appends a card for each snapshot to those that are there.
Show(u) ==
    /\ refresh[u] = "showing"
    /\ view' = view \cup found[u]
    /\ found' = [found EXCEPT ![u] = {}]
    /\ refresh' = [refresh EXCEPT ![u] = Finished(u)]
    /\ UNCHANGED <<studioWorkflowVars, database, details, unread>>

\* select_history_run reads the report again: the id is of the card, the run is the
\* one whose report is stored by now.
Select(card) ==
    /\ card \in view
    /\ row[card.id] # NoRun
    /\ details' = [id |-> card.id, run |-> row[card.id]]
    /\ UNCHANGED <<studioWorkflowVars, database, refresh, found, view, unread>>

RefreshStep(u) == ClearView(u) \/ Read(u) \/ ReadFails(u) \/ Show(u)

HistoryRun(t) == CreateFile(t) \/ CreateTables(t) \/ Proceed(t) \/ RefreshStep(t)

HistoryNext ==
    \/ PageStep
    \/ \E t \in Threads : HistoryRun(t)
    \/ RefreshStep(Page)
    \/ \E card \in Cards : Select(card)

HistorySpec == HistoryInit /\ [][HistoryNext]_allHistoryVars

----------------------------------------------------------------------------
HistoryTypeOK ==
    /\ database \in {"absent", "no_table", "ready"}
    /\ refresh \in [Readers -> {"none", "reading", "showing", "shown"}]
    /\ found \in [Readers -> SUBSET Cards]
    /\ view \subseteq Cards
    /\ details \in Cards \cup {NoRun}
    /\ unread \in BOOLEAN

\* What the history shows are reports that were stored under that id, a card can
\* always be consulted, and what it leads to is no older than the card.
ShownIsStored ==
    \A card \in view \cup ({details} \ {NoRun}) :
        /\ request[card.run].id = card.id
        /\ row[card.id] = card.run \/ (card.run \in overwritten /\ row[card.id] # NoRun)

\* "consulter automatiquement le rapport dans l'historique": once a run is over and
\* no refresh is under way, the report it stored has a card, unless another run of
\* its id replaced it or the history could not be read, whatever refreshes ran at
\* the same time.
CompletedRunIsListed ==
    (\A u \in Readers : refresh[u] \in {"none", "shown"}) /\ ~unread =>
        \A t \in Threads :
            thread[t] \in {"clearing", "done"} /\ row[request[t].id] = t =>
                [id |-> request[t].id, run |-> t] \in view

\* The history shows what is stored, and all that completed runs have stored.
HistoryIsStored == HistoryTypeOK /\ ShownIsStored /\ CompletedRunIsListed
============================================================================
