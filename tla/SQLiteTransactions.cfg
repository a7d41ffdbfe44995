\* Two processes, two tasks in the first, two operations a block, all cancellations.
CONSTANTS
    t1 = t1
    t2 = t2
    t3 = t3
    p1 = p1
    p2 = p2
    AnyVersion = AnyVersion
    None = None
    NoAuthor = NoAuthor
    Tasks = {t1, t2, t3}
    Processes = {p1, p2}
    Process <- TwoOfThree
    Keys = {"k1"}
    Expected <- NewOrFirst
    MaxOps = 2
    CancelPoints <- Everywhere
    MaxCrashes = 1
SYMMETRY SameProcessSymmetry
SPECIFICATION PromptSpec
CHECK_DEADLOCK FALSE
INVARIANTS
    LockInvariant
    BlocksAreIsolated
PROPERTIES
    ImplementsStore
