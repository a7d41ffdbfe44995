\* Gate: three decisions on two requests, concurrent or one at a time.
\* Loop: cycles of every kind under every limit.  Release: two builds, or a build and a check.
CONSTANTS
    r1 = r1
    r2 = r2
    deploy = deploy
    delete = delete
    other = other
    alice = alice
    bob = bob
    d1 = d1
    d2 = d2
    d3 = d3
    u1 = u1
    f1 = f1
    f2 = f2
    None = None
    NoOne = NoOne
    readme = readme
    code = code
    b1 = b1
    b2 = b2
    v1 = v1
    Inventory = Inventory
    Missing = Missing
    Link = Link
    Requests = {r1, r2}
    Actions = {deploy, delete}
    Unprotected = {other}
    People = {alice, bob}
    Decisions = {d1, d2, d3}
    Uses = {u1}
    Serial = FALSE
    Results <- AllResults
    Fingerprints = {f1, f2}
    MaxScore = 2
    MinimumDelta = 1
    MaxIterations = 4
    MaxSameFailure = 2
    MaxNoProgress = 2
    MaxCost = 6
    MaxElapsed = 3
    CycleTime = 1
    Files = {readme, code}
    Builds = {b1, b2}
    Checks = {v1}
    Order <- SortedNames
    MaxEdits = 2
SYMMETRY FingerprintSymmetry
SPECIFICATION EitherSpec
CHECK_DEADLOCK FALSE
INVARIANTS
    UsesAreApproved
    LoopIsBounded
    StopsForItsReason
    ReleaseIsVerified
PROPERTIES
    DecisionIsFinal
