CONSTANTS
    Instruments <- MCInstruments
    None = None
    Limits <- MCLimits
    WeightUnit = 1000
    Bps = 10000
    Candidates <- MCCandidates
    Metadata <- MCMetadata
    Feeds <- MCFeeds
    Volatilities = {10}
    Exposures <- MCExposures
    Sessions = {"OPEN"}
    Marks <- MCMarks
    OpeningCash = 15
    OpeningHeld <- MCHeld
    MaxTime = 2
    MaxOrders = 2
    MaxAlerts = 3
SPECIFICATION MCSpec
INVARIANTS
    ApprovedIsCovered
    AlertsTruthful
    FailsClosed
CHECK_DEADLOCK FALSE
