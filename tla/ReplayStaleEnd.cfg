\* The end arrives during a catch-up, and the snapshot is applied after it.
SPECIFICATION PlaySpec
CONSTANTS
    QueueLimit = 3
    Deadlines = TRUE
    MaxRounds = 0
    MaxPauses = 0
    MaxChats = 0
    PageLimit = 10
    HoldLimit = 10
    Timeouts = FALSE
    MaxLosses = 1
    MaxRefusals = 0
CHECK_DEADLOCK FALSE
INVARIANT RejoinRestoresState
