------------------------------ MODULE MCStudio ------------------------------
(* ELMAN Studio: the generator of projects, the gate before it on one page or *)
(* on two, and the workflows that run in threads, with their history.  They    *)
(* share nothing here; a behaviour runs one of them, the others rest.          *)
EXTENDS ProjectGenerator, Studio, WorkflowHistory

CONSTANTS c1, c2, c3, s1, s2, p1, p2, i1, i2, i3, t1, t2, id1, id2

VARIABLE part

partVars == <<generatorVars, studioVars, allHistoryVars, part>>

\* A mobile or full-stack project has one template more than a web project.
Templates == [c \in Callers |-> IF c = c2 THEN 4 ELSE 3]

\* Two intents of one name, and one of another.
SlugsOf == [i \in Intents |-> IF i = i3 THEN s2 ELSE s1]

\* Plans are shown on one page, or on two, with one approval less.
OnePage == GateNext /\ shown'[p2] = Nothing

TwoPages == GateNext /\ grants' < MaxGrants

\* Runs of every request, with the history of their own refreshes; or runs of one cycle,
\* two approvals, and everything the history does.
Workflows == HistoryNext /\ refresh'[Page] = "none" /\ details' = NoRun

History ==
    /\ HistoryNext
    /\ request' \in [Threads -> [id : Ids, pass_on : {1}, max_iterations : {1}]]
    /\ approvals' < MaxApprovals

PartInit ==
    /\ part \in {"generator", "page", "pages", "workflows", "history"}
    /\ Init /\ GateInit /\ HistoryInit
    /\ part # "generator" => slug = [c \in Callers |-> s1]
    /\ part \notin {"workflows", "history"} => \A t \in Threads : request[t].id = id1

PartNext ==
    \/ part = "generator" /\ Next /\ UNCHANGED <<studioVars, allHistoryVars>>
    \/ part = "page" /\ OnePage /\ UNCHANGED <<generatorVars, allHistoryVars>>
    \/ part = "pages" /\ TwoPages /\ UNCHANGED <<generatorVars, allHistoryVars>>
    \/ part = "workflows" /\ Workflows /\ UNCHANGED <<generatorVars, studioVars>>
    \/ part = "history" /\ History /\ UNCHANGED <<generatorVars, studioVars>>

\* A thread that was started is scheduled.
FairPartSpec ==
    /\ PartInit
    /\ [][PartNext /\ UNCHANGED part]_partVars
    /\ \A t \in Threads :
          WF_partVars(/\ part \in {"workflows", "history"}
                      /\ HistoryRun(t)
                      /\ UNCHANGED <<generatorVars, studioVars, part>>)
============================================================================
