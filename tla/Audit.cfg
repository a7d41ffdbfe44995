\* Database: four events of the tenant, two keys, one event of another tenant,
\* room for two.  File: three events, room for two.  Blocks: two processes.
CONSTANTS
    e1 = e1
    e2 = e2
    e3 = e3
    e4 = e4
    e5 = e5
    k1 = k1
    k2 = k2
    None = None
    t1 = t1
    t2 = t2
    t3 = t3
    p1 = p1
    p2 = p2
    AnyVersion = AnyVersion
    NoAuthor = NoAuthor
    Events = {e1, e2, e3}
    MaxSize = 6
    PartialWrites = TRUE
    WriteFailures = FALSE
    CancelWrites = FALSE
    MaxCrashes = 2
    TrailEvents = {e1, e2, e3, e4, e5}
    Foreign = {e5}
    Signers = {k1, k2}
    Signer <- TwoKeys
    NoSigner = NoSigner
    MaxEvents = 2
SPECIFICATION FairEitherSpec
CHECK_DEADLOCK FALSE
INVARIANTS
    TrailVerifies
    JournalContinues
    AcknowledgedIsDurable
PROPERTIES
    BothImplementChain
    EveryAppendEnds
