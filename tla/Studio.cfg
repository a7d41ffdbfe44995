\* Generator: three calls, one at a time, on two slugs.  Gate: one page and three
\* approvals, or two pages and two.  Workflows: two threads, two ids, three
\* approvals; with everything the history does, two.
CONSTANTS
    c1 = c1
    c2 = c2
    c3 = c3
    s1 = s1
    s2 = s2
    p1 = p1
    p2 = p2
    i1 = i1
    i2 = i2
    i3 = i3
    t1 = t1
    t2 = t2
    id1 = id1
    id2 = id2
    NoOne = NoOne
    Torn = Torn
    Nothing = Nothing
    Page = Page
    NoRun = NoRun
    Callers = {c1, c2, c3}
    Slugs = {s1, s2}
    FileCount <- Templates
    Serial = TRUE
    Pages = {p1, p2}
    Intents = {i1, i2, i3}
    SlugOf <- SlugsOf
    MaxGrants = 3
    Threads = {t1, t2}
    Ids = {id1, id2}
    Limit = 2
    MaxApprovals = 3
SPECIFICATION FairPartSpec
CHECK_DEADLOCK FALSE
INVARIANTS
    ReturnedIsComplete
    ProjectIsApproved
    ApprovalIsSingleUse
    ReportIsTheRuns
    HistoryIsStored
PROPERTIES
    NeverOverwritten
    EveryRunEnds
