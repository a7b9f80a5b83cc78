CONSTANTS
    Instruments <- MCInstruments
    WeightUnit = 10
    None = None
    Sizing <- MCSizing
    Listing <- MCListing
    CurrencyOf <- MCCurrencyOf
    Symbols <- MCSymbols
    Emitted <- MCEmitted
    Quotes <- MCQuotes
    Scopes = {"PAPER", "AGENTIC"}
    OpeningCash = 60
    OpeningHeld <- MCHeld
    MaxTime = 2
    MaxOrders = 3
    caller = caller
SPECIFICATION MCSpec
INVARIANTS
    OrdersCovered
    NoOvershoot
    SuccessIsEarned
    NoLookahead
    BacktestHonest
    LoadedAsPinned
CHECK_DEADLOCK FALSE
