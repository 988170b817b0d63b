SPECIFICATION MCSpec
CONSTANTS
    Window = 14
    Target = 9
    SummaryWindow = 8
    PairSize = 2
    PromptSizes = {4, 12}
    SummarySizes = {1, 3}
    Excess = 2
    SchemaCost = 2
    HistoryLimit = 2
    MaxRetries = 1
    MaxHidden = 2
    Triggered = TRUE
    MaxExchanges = 5
    MaxFailures = 1
    MaxShutdowns = 2
    Callers = {"a", "b"}
    Keys = {"k1", "k2", "k3"}
    Bytes <- MCBytes
    MaxEntries = 2
    MaxBytes = 4
    MaxTasks = 3
    Names = {"ann", "bob", "round"}
    Parties <- MCParties
    Reserved = {"round"}
    Rules <- MCRules
    MaxAnswer = 2
    Repairs = 1
CHECK_DEADLOCK FALSE
INVARIANTS
    TypeOK
    MemoryIsComplete
    CallsAreBounded
    ArchiveIsFaithful
    CacheIsAccounted
    RollsAreAuthorized
