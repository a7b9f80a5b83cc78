CONSTANTS
    Instruments = {"X", "Y"}
    Fills <- MCFills
    Batches <- MCBatches
    OpeningCash = 24
    None = None
SPECIFICATION Spec
INVARIANTS
    BookExplained
CHECK_DEADLOCK FALSE
