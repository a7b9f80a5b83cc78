CONSTANTS
    Clients <- ExactClients
    Instruments = {"X"}
    Requests <- ExactRequests
    CancelKeys = {k}
    Quotes <- ExactQuotes
    InitialCash = 1111
    FeeBps = 100
    AdverseBps = 5000
    Random = TRUE
    MaxTime = 1
    MaxEvents = 3
    None = None
    Threads = {t1, t2}
    Writes = {x1, x2}
    Nobody = Nobody
    Commands = {c1, c2, c3, c4}
    KindOf <- MCKindOf
    EnvironmentOf <- MCEnvironmentOf
    Answers <- MCAnswers
    MaxInode = 2
    MaxDir = 2
    Nil = Nil
    Envs = {"staging", "production"}
    Procs = {c1, c4}
    Asks <- MCAsks
    Tokens = {"t1", "t2", "t3"}
    BotOf <- MCBotOf
    Inbox <- MCInbox
    PrivateChats = {1, 2}
    DiscoveryLimit = 2
    Poller = "poller"
    MaxEpoch = 2
    MaxOffset = 1
    Absent = Absent
    r1 = r1  r2 = r2
    c1 = c1  c2 = c2  c3 = c3  c4 = c4
SPECIFICATION MCSpec
INVARIANTS
    PromisesCovered
    LedgerExplained
    ToldTheTruth
    BindingSound
    EnabledIsComplete
    ReadsPinned
    AnswersTheQuestion
CHECK_DEADLOCK FALSE
