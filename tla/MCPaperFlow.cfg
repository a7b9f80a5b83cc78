CONSTANTS
    Instruments <- MCInstruments
    WeightUnit = 1000
    Bps = 10000
    None = None
    Limits <- MCLimits
    Sizing <- MCSizing
    Listing <- MCListing
    CurrencyOf <- MCCurrencyOf
    FeeBps = 500
    AdverseBps = 100
    Configs <- MCConfigs
    Metadata <- MCMetadata
    Symbols <- MCSymbols
    TargetWeight = 1000
    SignalTtl = 3
    ApprovalTtl = 2
    Now <- MCNow
    Workers = {w1, w2}
    EventIds = {"e1", "e2", "e3"}
    NoLoad = NoLoad
    MaxRestarts = 1
SPECIFICATION MCSpec
INVARIANTS
    SubmittedWasCleared
    StoriesAgree
    TrailExplains
    LiveIsDeliberate
    SecretsScoped
    RepliesBounded
