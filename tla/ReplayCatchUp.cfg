\* From the lobby to the end without timeouts: what the browser reads of the log.
SPECIFICATION FairSpec
CONSTANTS
    QueueLimit = 3
    Deadlines = TRUE
    MaxRounds = 0
    MaxPauses = 0
    MaxChats = 1
    PageLimit = 2
    HoldLimit = 2
    Timeouts = FALSE
    MaxLosses = 2
    MaxRefusals = 1
CHECK_DEADLOCK FALSE
PROPERTIES
    ReadsTheLog
    CatchesUp
