SPECIFICATION MCSpec
CONSTANTS
    Clients = {"host", "guest"}
    Host = "host"
    Nobody = nobody
    Sockets = {s1, s2, s3}
    MaxPending = 2
    MaxAttempts = 2
    MaxPlayers = 2
    MaxGames = 2
    BudgetKeys = {"a", "b", "c"}
    Capacity = 2
    Seconds = 2
    MaxKeys = 2
    MaxTime = 4
    MaxUses = 5
SYMMETRY SocketSymmetry
CHECK_DEADLOCK FALSE
INVARIANTS
    TypeOK
    OwnersPlay
    GhostsAreNoticed
    BudgetIsExact
PROPERTIES
    SuccessorSpared
