CONSTANTS
    Instruments = {"X", "Y"}
    Fills <- MCFills
    Batches <- MCBatches
    OpeningCash = 24
    None = None
SPECIFICATION Spec
INVARIANT Conserved
CHECK_DEADLOCK FALSE
