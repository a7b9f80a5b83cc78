CONSTANTS
    Pollers = {a, b}
    Updates <- MCUpdates
    Kind <- MCKind
    Query <- MCQuery
    None = None
    Lease = 2
    StepTime = 1
    MaxFaults = 2
SPECIFICATION FairSpec
INVARIANTS
    UpdatesSafe
PROPERTIES
    EveryUpdateProcessed
CHECK_DEADLOCK FALSE
