\* append is cancelled while its thread works.
CONSTANTS
    e1 = e1
    e2 = e2
    e3 = e3
    None = None
    Events = {e1, e2, e3}
    MaxSize = 9
    PartialWrites = FALSE
    WriteFailures = FALSE
    CancelWrites = TRUE
    MaxCrashes = 0
SPECIFICATION Spec
CHECK_DEADLOCK FALSE
INVARIANT
    JournalVerifies
